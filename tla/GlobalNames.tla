---------------------------- MODULE GlobalNames ----------------------------
(***************************************************************************)
(* Which LLVM function stands for a global name.  The same external name   *)
(* may belong to several entities (GNATLLVM.Variables looks for them       *)
(* before anything is emitted) and to a function of the run-time library   *)
(* that the compiler calls by itself (a builtin).  Functions of entities   *)
(* are created outside of the module and added to it when their body is    *)
(* emitted or, for imported ones, at the end; builtins are created in the  *)
(* module at once.  LLVM renames a function that enters a module in which  *)
(* its name is taken.                                                      *)
(***************************************************************************)
EXTENDS Integers, Sequences

CONSTANTS
    Names,       \* external names
    Entities,    \* subprogram entities that have an external name
    NameOf,      \* [Entities -> Names], their Interface_Name
    Builtins,    \* names the compiler calls by itself
    Registered,  \* names given to Register_Global_Name
    Definable,   \* names that a subprogram body of the unit may define
    DeclsOnly    \* TRUE if only declarations are processed

NoFn == 0
NoIndex == 0
NoEntity == "none"
Renamed == "renamed"   \* a name that LLVM made up

ASSUME ConstantsAssumption ==
    /\ NoEntity \notin Entities /\ Renamed \notin Names
    /\ NameOf \in [Entities -> Names]
    /\ Builtins \subseteq Names /\ Registered \subseteq Names /\ Definable \subseteq Names
    /\ DeclsOnly \in BOOLEAN

VARIABLES
    Interface_Names,   \* name -> what the table of interface names says of it
    Global_Dup,        \* entity -> index of its duplicated name, or 0
    Global_Dup_Value,  \* index -> function, or 0
    scanned,           \* the entities Detect_Duplicate_Global_Names has seen
    defined,           \* the entities that have a body in the unit
    fns,               \* the functions, in the order of their creation
    value,             \* Get_Value: entity -> function, or 0
    builtin,           \* the compiler's own variables: builtin -> function, or 0
    created,           \* Created_Subprograms
    added,             \* the entities with Added_To_Module set
    calls,             \* the calls emitted: <<name meant, function called>>
    phase,             \* "scan", "emit", "add" or "done"
    next               \* index in created of the next function to add

tables == <<Interface_Names, Global_Dup, Global_Dup_Value, scanned>>
vars == <<tables, defined, fns, value, builtin, created, added, calls, phase, next>>

(***************************************************************************)
(* The table of duplicate names                                            *)
(***************************************************************************)
\* Mutant of DupEntries: the first entity with the name is forgotten.
OwnDupEntry(e, known, idx) == [Global_Dup EXCEPT ![e] = idx]

\* The entries for entity E, and for the first entity that had its name.
DupEntries(e, known, idx) ==
    [x \in Entities |-> IF x = e \/ (x = known.e /\ known.index = NoIndex) THEN idx ELSE Global_Dup[x]]

DupValues(known) == IF known.index = NoIndex THEN Append(Global_Dup_Value, NoFn) ELSE Global_Dup_Value

\* One entity with an interface name.  The first one with its name is only
\* noted, unless the compiler registered the name; the second one makes an
\* entry for both; the others join it.
ScanEntity(e) ==
    /\ phase = "scan" /\ e \notin scanned
    /\ scanned' = scanned \cup {e}
    /\ LET n == NameOf[e]
           known == Interface_Names[n]
           idx == IF known.index # NoIndex THEN known.index ELSE Len(Global_Dup_Value) + 1
       IN  IF known.present
           THEN /\ Interface_Names' = [Interface_Names EXCEPT ![n].index = idx]
                /\ Global_Dup_Value' = DupValues(known)
                /\ Global_Dup' = DupEntries(e, known, idx)
           ELSE /\ Interface_Names' = [Interface_Names EXCEPT ![n] =
                                         [present |-> TRUE, e |-> e, index |-> NoIndex]]
                /\ UNCHANGED <<Global_Dup, Global_Dup_Value>>
    /\ UNCHANGED <<defined, fns, value, builtin, created, added, calls, phase, next>>

EndScan ==
    /\ phase = "scan" /\ scanned = Entities
    /\ phase' = "emit"
    /\ UNCHANGED <<tables, defined, fns, value, builtin, created, added, calls, next>>

DupValue(idx) == IF idx = NoIndex THEN NoFn ELSE Global_Dup_Value[idx]

SetDupValue(idx, f) == IF idx = NoIndex THEN Global_Dup_Value ELSE [Global_Dup_Value EXCEPT ![idx] = f]

(***************************************************************************)
(* The module                                                              *)
(***************************************************************************)
\* Function F of the list FS enters the module: LLVM gives it another name
\* if its own is taken.
Entered(fs, f) ==
    LET taken == \E g \in DOMAIN fs : g # f /\ fs[g].inModule /\ fs[g].llvm = fs[f].llvm
    IN  [fs EXCEPT ![f].inModule = TRUE, ![f].llvm = IF taken THEN Renamed ELSE @]

NewFn(n) == [name |-> n, llvm |-> n, inModule |-> FALSE, body |-> FALSE, deleted |-> FALSE]

\* Add_Function_To_Module, in the list of functions FS: nothing if F is in the
\* module already; F's uses are given to the function that has its name, and F
\* is deleted, if duplicates are not allowed; else F enters the module.
Existing(fs, f) == {g \in DOMAIN fs : fs[g].inModule /\ fs[g].llvm = fs[f].llvm}
Merges(fs, f, allowDeduplication) ==
    Existing(fs, f) # {} /\ f \notin Existing(fs, f) /\ ~allowDeduplication

AddFunctionToModule(fs, f, allowDeduplication) ==
    IF f \in Existing(fs, f) THEN fs
    ELSE IF Merges(fs, f, allowDeduplication) THEN [fs EXCEPT ![f].deleted = TRUE]
    ELSE Entered(fs, f)

\* Mutant of Replaced: the uses of a deleted function are left alone.
NotReplaced(cs, f, g) == cs

\* replaceAllUsesWith.
Replaced(cs, f, g) == {<<c[1], IF c[2] = f THEN g ELSE c[2]>> : c \in cs}

(***************************************************************************)
(* Emission                                                                *)
(***************************************************************************)
\* Create_Subprogram: the function of entity E, shared with the entities and
\* the builtin that have the same duplicated name.
Create(e) ==
    LET idx == Global_Dup[e]
        dup == DupValue(idx)
        f == IF dup # NoFn THEN dup ELSE Len(fns) + 1
    IN  /\ value' = [value EXCEPT ![e] = f]
        /\ IF dup # NoFn THEN UNCHANGED <<Global_Dup_Value, created>>
           ELSE /\ Global_Dup_Value' = SetDupValue(idx, f)
                /\ created' = Append(created, e)

FnsWith(e) == IF DupValue(Global_Dup[e]) # NoFn THEN fns ELSE Append(fns, NewFn(NameOf[e]))

Declare(e) ==
    /\ phase = "emit" /\ value[e] = NoFn
    /\ Create(e)
    /\ fns' = FnsWith(e)
    /\ UNCHANGED <<Interface_Names, Global_Dup, scanned, defined, builtin, added, calls, phase, next>>

Call(e) ==
    /\ phase = "emit" /\ value[e] # NoFn
    /\ calls' = calls \cup {<<NameOf[e], value[e]>>}
    /\ UNCHANGED <<tables, defined, fns, value, builtin, created, added, phase, next>>

\* Emit_One_Body: the subprogram is declared by now.
EmitBody(e) ==
    /\ phase = "emit" /\ ~DeclsOnly /\ e \in defined \ added
    /\ value[e] # NoFn
    /\ fns' = [AddFunctionToModule(fns, value[e], TRUE) EXCEPT ![value[e]].body = TRUE]
    /\ added' = added \cup {e}
    /\ UNCHANGED <<tables, defined, value, builtin, created, calls, phase, next>>

\* The compiler calls builtin N: it keeps the function in a variable after
\* Add_Global_Function found or made it.
CallBuiltin(n) ==
    /\ phase = "emit"
    /\ LET idx == Interface_Names[n].index
           dup == DupValue(idx)
           f == IF builtin[n] # NoFn THEN builtin[n] ELSE IF dup # NoFn THEN dup ELSE Len(fns) + 1
           new == f = Len(fns) + 1
       IN  /\ fns' = IF new THEN Entered(Append(fns, NewFn(n)), f) ELSE fns
           /\ Global_Dup_Value' = IF new THEN SetDupValue(idx, f) ELSE Global_Dup_Value
           /\ builtin' = [builtin EXCEPT ![n] = f]
           /\ calls' = calls \cup {<<n, f>>}
    /\ UNCHANGED <<Interface_Names, Global_Dup, scanned, defined, value, created, added, phase, next>>

EndEmission ==
    /\ phase = "emit"
    /\ DeclsOnly \/ defined \subseteq added
    /\ phase' = "add"
    /\ UNCHANGED <<tables, defined, fns, value, builtin, created, added, calls, next>>

\* Mutant of AddCreated: the loop stops before the last function.
AddAllButLast ==
    /\ phase = "add" /\ next < Len(created)
    /\ next' = next + 1
    /\ UNCHANGED <<tables, defined, fns, value, builtin, created, added, calls, phase>>

\* One iteration of Add_Functions_To_Module: a function whose entity got no
\* body is imported.
AddCreated ==
    /\ phase = "add" /\ next <= Len(created)
    /\ next' = next + 1
    /\ LET e == created[next]
           f == value[e]
       IN  IF e \in added THEN UNCHANGED <<fns, calls>>
           ELSE /\ fns' = AddFunctionToModule(fns, f, DeclsOnly)
                /\ calls' = IF Merges(fns, f, DeclsOnly)
                            THEN Replaced(calls, f, CHOOSE g \in Existing(fns, f) : TRUE) ELSE calls
    /\ UNCHANGED <<tables, defined, value, builtin, created, added, phase>>

EndAdd ==
    /\ phase = "add" /\ next > Len(created)
    /\ phase' = "done"
    /\ UNCHANGED <<tables, defined, fns, value, builtin, created, added, calls, next>>

Init ==
    /\ Interface_Names = [n \in Names |-> [present |-> n \in Registered, e |-> NoEntity, index |-> NoIndex]]
    /\ Global_Dup = [e \in Entities |-> NoIndex]
    /\ Global_Dup_Value = <<>>
    /\ scanned = {}
    /\ defined \in {D \in SUBSET {e \in Entities : NameOf[e] \in Definable} :
                      \A d, e \in D : NameOf[d] = NameOf[e] => d = e}
    /\ fns = <<>>
    /\ value = [e \in Entities |-> NoFn]
    /\ builtin = [n \in Builtins |-> NoFn]
    /\ created = <<>> /\ added = {} /\ calls = {}
    /\ phase = "scan" /\ next = 1

Next ==
    \/ \E e \in Entities : ScanEntity(e) \/ Declare(e) \/ Call(e) \/ EmitBody(e)
    \/ \E n \in Builtins : CallBuiltin(n)
    \/ EndScan \/ EndEmission \/ AddCreated \/ EndAdd

\* The compiler runs: it leaves the loops over the entities and the created
\* subprograms.  How long it emits is up to the program it compiles.
Fairness == WF_vars(\E e \in Entities : ScanEntity(e)) /\ WF_vars(EndScan)
            /\ WF_vars(AddCreated) /\ WF_vars(EndAdd)

Spec == Init /\ [][Next]_vars /\ Fairness

(***************************************************************************)
(* Properties                                                              *)
(***************************************************************************)

\* Entities that have the same external name are the same function, whatever
\* the order in which they were scanned and declared.
SameNameSameFunction ==
    \A d, e \in Entities :
        NameOf[d] = NameOf[e] /\ value[d] # NoFn /\ value[e] # NoFn => value[d] = value[e]

\* In the end every call is a call of a function of the module, which has the
\* name that was meant: calls made before two functions of a name were merged
\* included.
CallsResolve ==
    phase = "done" => \A c \in calls : fns[c[2]].inModule /\ fns[c[2]].llvm = c[1]

\* The assertion of Add_Function_To_Module: only declarations are merged.
OnlyDeclarationsMerged ==
    phase = "add" /\ next <= Len(created) /\ created[next] \notin added =>
        LET f == value[created[next]]
        IN  Merges(fns, f, DeclsOnly) => ~fns[f].body /\ \A g \in Existing(fns, f) : ~fns[g].body

\* Once emission ends, the module gets complete.
ModuleCompleted == (phase = "add") ~> (phase = "done")
=============================================================================
