----------------------------- MODULE TraceStore -----------------------------
(***************************************************************************)
(* What the trace JIT promises about its store of compiled traces, without *)
(* the recorder's instruction-by-instruction work or the machine code:     *)
(*                                                                         *)
(*  - at most one recording is in progress; it is either abandoned or     *)
(*    committed, and committing appends one trace and changes no other;   *)
(*  - a root trace has no parent; a side or fall-through trace grows out  *)
(*    of an exit of an existing trace, starts at the PC that exit resumes *)
(*    at, and that exit is linked to it;                                  *)
(*  - an exit is linked at most once, and only to a trace starting at the *)
(*    exit's PC;                                                          *)
(*  - the entry table names, for a PC, the last non-side trace committed  *)
(*    there.                                                              *)
(*                                                                         *)
(* Trace ids are positions in store.  The running of traces is a stutter  *)
(* of this specification.                                                  *)
(***************************************************************************)
EXTENDS Integers, Sequences, SequencesExt

CONSTANTS
    PCs,        \* instruction addresses
    Keys,       \* <<trace, exit>> pairs an exit link may be stored under
    NoTrace,    \* no trace
    NoExit      \* no exit

TraceTypes == {"root", "fallthrough", "side"}

VARIABLES
    store,      \* committed traces: [startPc, parent, type, exits]
    entry,      \* PC -> trace entered there, or NoTrace
    links,      \* <<trace, exit>> -> trace the exit jumps to, or NoTrace
    busy,       \* a recording is in progress
    target,     \* start PC of the recording
    ttype,      \* its trace type
    tparent,    \* its parent trace, or NoTrace
    texit       \* the parent's exit it grows from, or NoExit

vars == <<store, entry, links, busy, target, ttype, tparent, texit>>

Init ==
    /\ store = << >>
    /\ entry = [pc \in PCs |-> NoTrace]
    /\ links = [k \in Keys |-> NoTrace]
    /\ busy = FALSE
    /\ target \in PCs
    /\ ttype = "root"
    /\ tparent = NoTrace
    /\ texit = NoExit

\* A recording may grow out of exit ex of trace par when that exit is
\* still unlinked; it then starts at the exit's PC.
MayGrowFrom(pc, par, ex) ==
    /\ par \in DOMAIN store
    /\ ex \in DOMAIN store[par].exits
    /\ <<par, ex>> \in Keys
    /\ links[<<par, ex>>] = NoTrace
    /\ pc = store[par].exits[ex]

Start(pc, type, par, ex) ==
    /\ ~busy
    /\ IF type = "root" THEN par = NoTrace /\ ex = NoExit
                        ELSE MayGrowFrom(pc, par, ex)
    /\ busy' = TRUE
    /\ target' = pc
    /\ ttype' = type
    /\ tparent' = par
    /\ texit' = ex
    /\ UNCHANGED <<store, entry, links>>

Abandon ==
    /\ busy
    /\ busy' = FALSE
    /\ UNCHANGED <<store, entry, links, target, ttype, tparent, texit>>

\* The new trace's exits are whatever the recording produced: any
\* sequence of PCs.  Stated on the primed store so that no sequence has
\* to be enumerated.
Commit ==
    LET tno == Len(store) + 1
    IN  /\ busy
        /\ Len(store') = tno
        /\ SubSeq(store', 1, Len(store)) = store
        /\ store'[tno] \in [startPc : {target}, parent : {tparent},
                            type : {ttype}, exits : Seq(PCs)]
        /\ entry' = IF ttype = "side" THEN entry
                    ELSE [entry EXCEPT ![target] = tno]
        /\ IF tparent = NoTrace
           THEN links' = links
           ELSE /\ links[<<tparent, texit>>] = NoTrace
                /\ links' = [links EXCEPT ![<<tparent, texit>>] = tno]
        /\ busy' = FALSE
        /\ UNCHANGED <<target, ttype, tparent, texit>>

\* An unlinked exit is linked to a trace that starts at its PC.
Link(k, u) ==
    /\ links[k] = NoTrace
    /\ k[1] \in DOMAIN store
    /\ k[2] \in DOMAIN store[k[1]].exits
    /\ u \in DOMAIN store
    /\ store[u].startPc = store[k[1]].exits[k[2]]
    /\ links' = [links EXCEPT ![k] = u]
    /\ UNCHANGED <<store, entry, busy, target, ttype, tparent, texit>>

Next ==
    \/ \E pc \in PCs, type \in TraceTypes, par \in DOMAIN store \cup {NoTrace},
          ex \in UNION {DOMAIN store[t].exits : t \in DOMAIN store} \cup {NoExit} :
          Start(pc, type, par, ex)
    \/ Abandon
    \/ Commit
    \/ \E k \in Keys, u \in DOMAIN store : Link(k, u)

Spec == Init /\ [][Next]_vars
=============================================================================
