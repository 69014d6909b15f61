------------------------------ MODULE OldLoader ------------------------------
(***************************************************************************)
(* The old VM's bytecode loader (old-vm/Loader.c): loadModule loads a      *)
(* module's imports depth first (loadModule_aux), then its info tables     *)
(* and closures in file order.  A literal naming a closure or info table   *)
(* that is not loaded yet becomes a forward reference: the table entry for *)
(* the name is a placeholder whose link field heads a chain threaded       *)
(* through the literal words themselves, and loading the object walks the  *)
(* chain and stores the object's address in every word on it.              *)
(*                                                                         *)
(* Files, names and the string table are abstracted: a program gives per   *)
(* module its imports, info tables and closures, per info table the        *)
(* literals of its code and per closure its info table and its payload     *)
(* literals, each a reference to a named info table or closure.  A word   *)
(* holds Null, a Link to the next literal word of a chain, a Ptr to the    *)
(* object, or (a closure's info pointer) a forward-reference placeholder.  *)
(* HashTable is not in the repository: inserting a key that is already     *)
(* present may replace the entry, or add one after or before it (lookup   *)
(* and update see the first).                                              *)
(***************************************************************************)
EXTENDS Integers, Sequences, FiniteSets, SequencesExt

CONSTANTS
    Mods,       \* module names
    Root,       \* the module passed to loadModule
    InfoNames,  \* info table names
    ClosNames,  \* closure names
    Programs,   \* the programs (sets of bytecode files) loaded
    MaxDepth    \* bound on the nesting of loadModule_aux

VARIABLES
    prog,           \* the bytecode files
    loadedModules,  \* G_loader->loadedModules: "absent", "loading" or "loaded"
    stack,          \* the active loadModule_aux calls, innermost last
    itbls,          \* G_loader->infoTables: name -> entries, first one found
    closures,       \* G_loader->closures: name -> entries, first one found
    lit,            \* the literal words of code and closure payloads
    phase           \* "loading", "done", or "exit" (the process exited)

vars == <<prog, loadedModules, stack, itbls, closures, lit, phase>>

Null      == [k |-> "null"]
Unset     == [k |-> "unset"]          \* a literal word not loaded yet
Link(l)   == [k |-> "link", loc |-> l]
Ptr(r)    == [k |-> "ptr", to |-> r]
InfoRef(n) == [t |-> "info", n |-> n]
ClosRef(n) == [t |-> "clos", n |-> n]

(* Table entries: the object itself, or a forward-reference placeholder    *)
(* (FwdRefInfoTable, or a closure with a NULL info pointer) whose link     *)
(* field (next, payload[0]) heads the chain.                               *)
Real       == [kind |-> "real"]
Fwd(p)     == [kind |-> "fwd", next |-> p]
NoEntry    == [kind |-> "none"]

(* Literal word k of info table n's code, of closure c's payload, or the   *)
(* info pointer of closure c.                                              *)
Locs == UNION {{<<"i", n, k>> : k \in 1..Len(prog.code[n])} : n \in InfoNames}
        \cup UNION {{<<"c", c, k>> : k \in 1..Len(prog.payload[c])} : c \in ClosNames}
        \cup {<<"ci", c, 1>> : c \in ClosNames}

TableOf(r) == IF r.t = "info" THEN "itbls" ELSE "closures"

-----------------------------------------------------------------------------
(* HashTable_lookup, HashTable_update (of the entry found) and             *)
(* HashTable_insert.                                                       *)
Lookup(H, n) == IF H[n] = <<>> THEN NoEntry ELSE Head(H[n])

UpdateFirst(H, n, e) == [H EXCEPT ![n] = <<e>> \o Tail(@)]

Insert(H, n, e, how) ==
    [H EXCEPT ![n] = CASE how = "replace" -> <<e>>
                       [] how = "after"   -> @ \o <<e>>
                       [] how = "before"  -> <<e>> \o @]

InsertModes == {"replace", "after", "before"}

(* A fix-up loop that overwrites *p before reading the next link.         *)
PatchSwapped(L, p, v, fuel) ==
    IF p.k /= "link" \/ fuel = 0 THEN L ELSE [L EXCEPT ![p.loc] = v]

(* The fix-up loops: for (p = head; p != NULL; p = next) { next = *p;      *)
(* *p = obj; }, with fuel against a cyclic chain.                          *)
RECURSIVE Patch(_, _, _, _)
Patch(L, p, v, fuel) ==
    IF p.k /= "link" \/ fuel = 0 THEN L
    ELSE Patch([L EXCEPT ![p.loc] = v], L[p.loc], v, fuel - 1)

(* A later forward reference that does not link the previous head.        *)
LoadLiteralNoLink(T, loc, r) ==
    LET f == TableOf(r)
        e == Lookup(T[f], r.n)
    IN
    CASE e.kind = "none" ->
             [T EXCEPT ![f] = Insert(@, r.n, Fwd(Link(loc)), "after"),
                       !.lit[loc] = Null]
      [] e.kind = "fwd" ->
             [T EXCEPT ![f] = UpdateFirst(@, r.n, Fwd(Link(loc))),
                       !.lit[loc] = Null]
      [] OTHER -> [T EXCEPT !.lit[loc] = Ptr(r)]

(* loadLiteral of an LIT_CLOSURE or LIT_INFO literal into word loc, on the *)
(* tables T = [itbls, closures, lit]: the first forward reference creates *)
(* the placeholder and stores NULL, a later one pushes loc on the chain,   *)
(* and a loaded object is stored directly.                                 *)
LoadLiteral(T, loc, r) ==
    LET f == TableOf(r)
        e == Lookup(T[f], r.n)
    IN
    CASE e.kind = "none" ->
             [T EXCEPT ![f] = Insert(@, r.n, Fwd(Link(loc)), "after"),
                       !.lit[loc] = Null]
      [] e.kind = "fwd" ->
             [T EXCEPT ![f] = UpdateFirst(@, r.n, Fwd(Link(loc))),
                       !.lit[loc] = e.next]
      [] OTHER -> [T EXCEPT !.lit[loc] = Ptr(r)]

(* The literal loops of loadCode and loadClosure.                          *)
RECURSIVE LoadLits(_, _, _, _, _)
LoadLits(T, o, n, refs, k) ==
    IF k > Len(refs) THEN T
    ELSE LoadLits(LoadLiteral(T, <<o, n, k>>, refs[k]), o, n, refs, k + 1)

Tables == [itbls |-> itbls, closures |-> closures, lit |-> lit]

-----------------------------------------------------------------------------
(* loadInfoTable: old_itbl is looked up before the code is loaded; a       *)
(* duplicate exits.  Afterwards the chain of old_itbl, if there was one,   *)
(* is patched and the entry updated, or else the table is inserted.       *)
LoadInfoTable(n, how) ==
    LET old == Lookup(itbls, n)
        T1  == LoadLits(Tables, "i", n, prog.code[n], 1)
        cur == Lookup(T1.itbls, n)
    IN
    IF old.kind = "real"
    THEN phase' = "exit" /\ UNCHANGED <<itbls, closures, lit>>
    ELSE /\ closures' = T1.closures
         /\ IF old.kind = "fwd"
            THEN /\ lit' = Patch(T1.lit, cur.next, Ptr(InfoRef(n)), Cardinality(Locs))
                 /\ itbls' = UpdateFirst(T1.itbls, n, Real)
            ELSE /\ lit' = T1.lit
                 /\ itbls' = Insert(T1.itbls, n, Real, how)
         /\ UNCHANGED phase

(* setInfo(cl, info) with the info table looked up by name: its address, *)
(* the FwdRefInfoTable placeholder (freed once the table is loaded), or    *)
(* NULL.                                                                   *)
InfoWord(e, n) == CASE e.kind = "real" -> Ptr(InfoRef(n))
                    [] e.kind = "fwd"  -> [k |-> "fwd"]
                    [] OTHER           -> Null

(* LC_ASSERT(info != NULL && info->type != INVALID_OBJECT) fails in a      *)
(* build with assertions; without them loadClosure goes on.               *)
InfoAssertFails(c) ==
    /\ Lookup(itbls, prog.info[c]).kind /= "real"
    /\ phase' = "exit"
    /\ UNCHANGED <<itbls, closures, lit>>

(* The tables after the info pointer and the payload of closure c are     *)
(* written; the payload may create forward references to c itself.        *)
ClosureBody(c) ==
    LET n == prog.info[c]
    IN  LoadLits([Tables EXCEPT !.lit[<<"ci", c, 1>>] = InfoWord(Lookup(itbls, n), n)],
                 "c", c, prog.payload[c], 1)

(* A loadClosure that patches the chain but leaves the placeholder in the *)
(* table.                                                                  *)
LoadClosureNoUpdate(c) ==
    LET T1  == ClosureBody(c)
        fwd == Lookup(T1.closures, c)
    IN
    \/ InfoAssertFails(c)
    \/ /\ itbls' = T1.itbls
       /\ IF fwd.kind /= "none"
          THEN /\ lit' = Patch(T1.lit, fwd.next, Ptr(ClosRef(c)), Cardinality(Locs))
               /\ closures' = T1.closures
          ELSE /\ lit' = T1.lit
               /\ closures' = Insert(T1.closures, c, Real, "after")
       /\ UNCHANGED phase

(* loadClosure: the info pointer and the payload are loaded first, then    *)
(* the closure's own forward reference, looked up afterwards, is patched   *)
(* and updated.                                                            *)
LoadClosure(c) ==
    LET T1  == ClosureBody(c)
        fwd == Lookup(T1.closures, c)
    IN
    \/ InfoAssertFails(c)
    \/ /\ itbls' = T1.itbls
       /\ IF fwd.kind /= "none"
          THEN /\ lit' = Patch(T1.lit, fwd.next, Ptr(ClosRef(c)), Cardinality(Locs))
               /\ closures' = UpdateFirst(T1.closures, c, Real)
          ELSE /\ lit' = T1.lit
               /\ closures' = Insert(T1.closures, c, Real, "after")
       /\ UNCHANGED phase

-----------------------------------------------------------------------------
Frame(m) == [m |-> m, i |-> 1, ni |-> 1, nc |-> 1]
Top == Last(stack)
SetTop(f) == [stack EXCEPT ![Len(stack)] = f]

(* loadModule_aux of the next import: a module already loaded or being    *)
(* loaded is skipped; another one gets its header loaded and entered in    *)
(* loadedModules before its own imports.                                   *)
LoadImport ==
    LET d == prog.imports[Top.m][Top.i]
        f == [Top EXCEPT !.i = @ + 1]
    IN
    /\ Top.i <= Len(prog.imports[Top.m])
    /\ IF loadedModules[d] /= "absent"
       THEN stack' = SetTop(f) /\ UNCHANGED loadedModules
       ELSE /\ Len(stack) < MaxDepth
            /\ loadedModules' = [loadedModules EXCEPT ![d] = "loading"]
            /\ stack' = Append(SetTop(f), Frame(d))
    /\ UNCHANGED <<prog, itbls, closures, lit, phase>>

(* loadModuleBody: the next info table.                                    *)
LoadBodyInfo ==
    /\ Top.i > Len(prog.imports[Top.m])
    /\ Top.ni <= Len(prog.itbls[Top.m])
    /\ \E how \in InsertModes : LoadInfoTable(prog.itbls[Top.m][Top.ni], how)
    /\ stack' = SetTop([Top EXCEPT !.ni = @ + 1])
    /\ UNCHANGED <<prog, loadedModules>>

(* loadModuleBody: the next closure.                                       *)
LoadBodyClosure ==
    /\ Top.i > Len(prog.imports[Top.m])
    /\ Top.ni > Len(prog.itbls[Top.m])
    /\ Top.nc <= Len(prog.closures[Top.m])
    /\ LoadClosure(prog.closures[Top.m][Top.nc])
    /\ stack' = SetTop([Top EXCEPT !.nc = @ + 1])
    /\ UNCHANGED <<prog, loadedModules>>

(* The end of loadModule_aux: the string table is freed, which marks the   *)
(* module loaded (isModuleLoaded).                                         *)
FinishModule ==
    /\ Top.i > Len(prog.imports[Top.m])
    /\ Top.ni > Len(prog.itbls[Top.m])
    /\ Top.nc > Len(prog.closures[Top.m])
    /\ loadedModules' = [loadedModules EXCEPT ![Top.m] = "loaded"]
    /\ stack' = Front(stack)
    /\ UNCHANGED <<prog, itbls, closures, lit, phase>>

(* ensureNoForwardRefs, after the outermost loadModule_aux: every entry of *)
(* both tables is visited, and a placeholder among them exits(15).         *)
EnsureNoForwardRefs ==
    LET Fwds(H, names) == {n \in names : \E k \in 1..Len(H[n]) : H[n][k].kind = "fwd"}
        bad == Fwds(itbls, InfoNames) \cup Fwds(closures, ClosNames)
    IN
    /\ stack = <<>>
    /\ phase' = IF bad /= {} THEN "exit" ELSE "done"
    /\ UNCHANGED <<prog, loadedModules, stack, itbls, closures, lit>>

(* initLoader and the first loadModule_aux of loadModule.                  *)
Init ==
    /\ prog \in Programs
    /\ loadedModules = [m \in Mods |-> IF m = Root THEN "loading" ELSE "absent"]
    /\ stack = <<Frame(Root)>>
    /\ itbls = [n \in InfoNames |-> <<>>]
    /\ closures = [c \in ClosNames |-> <<>>]
    /\ lit = [l \in Locs |-> Unset]
    /\ phase = "loading"

Next ==
    /\ phase = "loading"
    /\ \/ stack /= <<>> /\ (LoadImport \/ LoadBodyInfo \/ LoadBodyClosure \/ FinishModule)
       \/ EnsureNoForwardRefs

(* loadModule runs to completion on one thread.                            *)
Spec == Init /\ [][Next]_vars /\ WF_vars(Next)

-----------------------------------------------------------------------------
Refs == {InfoRef(n) : n \in InfoNames} \cup {ClosRef(c) : c \in ClosNames}

(* The reference literal word l was loaded from.                           *)
TargetOf(l) == CASE l[1] = "i"  -> prog.code[l[2]][l[3]]
                  [] l[1] = "c"  -> prog.payload[l[2]][l[3]]
                  [] l[1] = "ci" -> InfoRef(prog.info[l[2]])

Loaded(l) == lit[l] /= Unset

Entry(r) == Lookup(IF r.t = "info" THEN itbls ELSE closures, r.n)

(* The literal words on the chain starting at p, and where it ends.        *)
RECURSIVE ChainOf(_, _)
ChainOf(p, fuel) ==
    IF p.k /= "link" \/ fuel = 0 THEN {}
    ELSE {p.loc} \cup ChainOf(lit[p.loc], fuel - 1)

RECURSIVE ChainEnd(_, _)
ChainEnd(p, fuel) ==
    IF p.k /= "link" \/ fuel = 0 THEN p ELSE ChainEnd(lit[p.loc], fuel - 1)

TypeOK ==
    /\ loadedModules \in [Mods -> {"absent", "loading", "loaded"}]
    /\ stack \in Seq([m : Mods, i : Nat, ni : Nat, nc : Nat])
    /\ Len(stack) <= MaxDepth
    /\ \A l \in Locs : lit[l].k \in {"null", "unset", "link", "ptr", "fwd"}
    /\ phase \in {"loading", "done", "exit"}

(* While a name is a forward reference, the chain through its placeholder  *)
(* holds exactly the literal words loaded so far that name it, and ends in *)
(* NULL: loadLiteral links every new reference in front and loses none.    *)
ForwardChainsExact ==
    \A r \in Refs :
        Entry(r).kind = "fwd" =>
            /\ ChainOf(Entry(r).next, Cardinality(Locs)) =
                   {l \in Locs : Loaded(l) /\ TargetOf(l) = r}
            /\ ChainEnd(Entry(r).next, Cardinality(Locs)) = Null

(* Every loaded literal word naming an object that is loaded holds that    *)
(* object's address: loadInfoTable and loadClosure patched every word of   *)
(* its forward-reference chain, including words written while the object   *)
(* itself was being loaded.                                                *)
RefsResolved ==
    \A l \in Locs :
        Loaded(l) /\ Entry(TargetOf(l)).kind = "real" => lit[l] = Ptr(TargetOf(l))

(* loadModule of a set of bytecode files that defines every name it uses   *)
(* returns, and then every literal word holds its object's address.        *)
LoadCompletes ==
    <>(phase /= "loading")
    /\ [](phase /= "loading" =>
            phase = "done" /\ \A l \in Locs : lit[l] = Ptr(TargetOf(l)))
=============================================================================
