---------------------------- MODULE MCOldLoader ----------------------------
EXTENDS OldLoader

CONSTANTS A, B, iA, iB, cA, cB

(* Module A (the root) has the info table iA, whose code has two literals, *)
(* and the closure cA of iA or of iB (A imports B); module B has iB with   *)
(* one literal and the closure cB of iB.  A imports B, and B imports       *)
(* nothing or A.  Every literal names any of the four objects.             *)
MCRefs == {InfoRef(iA), InfoRef(iB), ClosRef(cA), ClosRef(cB)}

MCPrograms ==
    {[imports  |-> [m \in {A, B} |-> IF m = A THEN <<B>> ELSE bi],
      itbls    |-> [m \in {A, B} |-> IF m = A THEN <<iA>> ELSE <<iB>>],
      closures |-> [m \in {A, B} |-> IF m = A THEN <<cA>> ELSE <<cB>>],
      code     |-> [n \in {iA, iB} |-> IF n = iA THEN <<a1, a2>> ELSE <<b1>>],
      payload  |-> [c \in {cA, cB} |-> IF c = cA THEN <<p1>> ELSE <<p2>>],
      info     |-> [c \in {cA, cB} |-> IF c = cA THEN ia ELSE iB]] :
        bi \in {<<>>, <<A>>}, ia \in {iA, iB}, a1 \in MCRefs, a2 \in MCRefs, b1 \in MCRefs,
        p1 \in MCRefs, p2 \in MCRefs}

(* The code of an info table names no info table that it is loaded with: *)
(* not itself, and not one of a module still being loaded.                 *)
NoSelfInfo(p) == \A n \in {iA, iB} : \A k \in 1..Len(p.code[n]) : p.code[n][k] /= InfoRef(n)

MCProgramsNoSelf == {p \in MCPrograms : NoSelfInfo(p)}
MCProgramsSelf   == {p \in MCPrograms : ~NoSelfInfo(p)}
=============================================================================
