------------------------------- MODULE Values -------------------------------
(***************************************************************************)
(* The facts that the front end tells CCG of LLVM values.  They are kept   *)
(* in tables under the address of the value (CCG.Environment, CCG.Utils)   *)
(* or under the entity it stands for (Get_Value, Source_Order), and LLVM   *)
(* deletes values and reuses their addresses while it optimizes: callbacks *)
(* registered with Notify_On_Value_Delete must keep the tables in step.    *)
(***************************************************************************)
EXTENDS Integers, Sequences

CONSTANTS
    Addrs,      \* addresses of values
    Globals,    \* entities of library-level subprograms and objects
    Locals,     \* entities of parameters and local objects
    AType,      \* an entity that is a discrete type
    NoEntity,   \* Types.Empty
    NoAddr,     \* No_Value_T
    MaxValues,  \* bound on the values created
    MaxOrder    \* bound on the entries of the source order

Entities == Globals \cup Locals \cup {AType}

ASSUME ConstantsAssumption ==
    /\ NoAddr \notin Addrs
    /\ AType \notin Globals \cup Locals /\ Globals \cap Locals = {}
    /\ NoEntity \notin Entities
    /\ MaxValues \in Nat /\ MaxOrder \in Nat

VARIABLES
    heap,          \* address -> the value that lives there: its number (0: none) and kind
    made,          \* the number of values created so far
    notes,         \* address -> callbacks registered for the value, the last one first
    Value_Info,    \* address -> what is known of the value
    params,        \* address -> entity whose parameters CI_Map names, for functions
    value,         \* Get_Value: entity -> address
    Source_Order,  \* entities declared or defined, in source order
    protected,     \* the entries that Protect_Source_Order has done
    dying,         \* the address whose value is being deleted, or NoAddr
    phase          \* "emit", "protect", "optimize"

vars == <<heap, made, notes, Value_Info, params, value, Source_Order, protected, dying, phase>>

NoInfo == [present |-> FALSE, entity |-> NoEntity, nest |-> FALSE]
NoLife == [id |-> 0, fn |-> FALSE]

Lives(a) == heap[a].id # 0
Idle == dying = NoAddr   \* no callback is running

(***************************************************************************)
(* C_Set_Entity: the first entity wins, but an entity replaces a type.     *)
(***************************************************************************)
SetsEntity(info, e) == info.entity = NoEntity \/ (e # AType /\ info.entity = AType)

\* Mutant of NotedEntity: the callback is registered for entities only.
NotedIfEntity(cbs, info, e) == IF SetsEntity(info, e) /\ e # AType THEN <<"info">> \o cbs ELSE cbs

\* The information, and the callbacks, after C_Set_Entity (V, E).
WithEntity(info, e) ==
    IF SetsEntity(info, e) THEN [info EXCEPT !.present = TRUE, !.entity = e] ELSE info
NotedEntity(cbs, info, e) == IF SetsEntity(info, e) THEN <<"info">> \o cbs ELSE cbs

(***************************************************************************)
(* The front end                                                           *)
(***************************************************************************)
\* LLVM puts a new value at any free address.
CanMake(a) == Idle /\ ~Lives(a) /\ made < MaxValues
NewLife(a, fn) == heap' = [heap EXCEPT ![a] = [id |-> made + 1, fn |-> fn]] /\ made' = made + 1

\* Create_Subprogram, or the creation of a global variable: G tells the type
\* of a discrete result or object, then the entity is told.
CreateGlobal(e, a, fn, discrete) ==
    /\ phase = "emit" /\ CanMake(a) /\ value[e] = NoAddr
    /\ NewLife(a, fn)
    /\ value' = [value EXCEPT ![e] = a]
    /\ params' = IF fn THEN [params EXCEPT ![a] = e] ELSE params
    /\ LET typed == IF discrete THEN WithEntity(Value_Info[a], AType) ELSE Value_Info[a]
           noted == IF discrete THEN NotedEntity(notes[a], Value_Info[a], AType) ELSE notes[a]
       IN  /\ Value_Info' = [Value_Info EXCEPT ![a] = WithEntity(typed, e)]
           /\ notes' = [notes EXCEPT ![a] = NotedEntity(noted, typed, e)]
    /\ UNCHANGED <<Source_Order, protected, dying, phase>>

\* Create_Subprogram for an entity whose name has a value already, or a
\* renaming: two entities share a value, which keeps its first entity.
ShareGlobal(e, d) ==
    /\ phase = "emit" /\ Idle /\ value[e] = NoAddr /\ value[d] # NoAddr
    /\ value' = [value EXCEPT ![e] = value[d]]
    /\ Value_Info' = [Value_Info EXCEPT ![value[d]] = WithEntity(@, e)]
    /\ notes' = [notes EXCEPT ![value[d]] = NotedEntity(@, Value_Info[value[d]], e)]
    /\ UNCHANGED <<heap, made, params, Source_Order, protected, dying, phase>>

\* An instruction of a discrete type, or of any other.
CreateLocal(a, discrete) ==
    /\ phase = "emit" /\ CanMake(a)
    /\ NewLife(a, FALSE)
    /\ IF discrete
       THEN /\ Value_Info' = [Value_Info EXCEPT ![a] = WithEntity(@, AType)]
            /\ notes' = [notes EXCEPT ![a] = NotedEntity(@, Value_Info[a], AType)]
       ELSE UNCHANGED <<Value_Info, notes>>
    /\ UNCHANGED <<params, value, Source_Order, protected, dying, phase>>

\* A parameter, loop variable or local object: its value may change.
NameLocal(e, a) ==
    /\ phase = "emit" /\ Idle /\ Lives(a)
    /\ \A g \in Globals : value[g] # a
    /\ value' = [value EXCEPT ![e] = a]
    /\ Value_Info' = [Value_Info EXCEPT ![a] = WithEntity(@, e)]
    /\ notes' = [notes EXCEPT ![a] = NotedEntity(@, Value_Info[a], e)]
    /\ UNCHANGED <<heap, made, params, Source_Order, protected, dying, phase>>

\* C_Address_Taken: no callback is registered here.
AddressTaken(e) ==
    /\ phase = "emit" /\ Idle /\ value[e] # NoAddr
    /\ ~Value_Info[value[e]].nest
    /\ Value_Info' = [Value_Info EXCEPT ![value[e]].present = TRUE, ![value[e]].nest = TRUE]
    /\ UNCHANGED <<heap, made, notes, params, value, Source_Order, protected, dying, phase>>

\* Add_To_Source_Order, for the declaration or the body of E.
AddToSourceOrder(e) ==
    /\ phase = "emit" /\ Idle /\ Len(Source_Order) < MaxOrder
    /\ Source_Order' = Append(Source_Order, e)
    /\ UNCHANGED <<heap, made, notes, Value_Info, params, value, protected, dying, phase>>

(***************************************************************************)
(* The source order                                                        *)
(***************************************************************************)
Referenced_Value(j) == IF Source_Order[j] = NoEntity THEN NoAddr ELSE value[Source_Order[j]]

EndEmission ==
    /\ phase = "emit" /\ Idle
    /\ phase' = "protect"
    /\ UNCHANGED <<heap, made, notes, Value_Info, params, value, Source_Order, protected, dying>>

\* Mutant of ProtectEntry: an entry of a value that has a callback is skipped.
ProtectFirstEntry ==
    /\ phase = "protect" /\ protected < Len(Source_Order)
    /\ LET a == Referenced_Value(protected + 1)
       IN  notes' = IF a = NoAddr \/ (\E i \in DOMAIN notes[a] : notes[a][i] = "order") THEN notes
                    ELSE [notes EXCEPT ![a] = <<"order">> \o @]
    /\ protected' = protected + 1
    /\ UNCHANGED <<heap, made, Value_Info, params, value, Source_Order, dying, phase>>

\* One iteration of Protect_Source_Order.  A callback on no value is lost.
ProtectEntry ==
    /\ phase = "protect" /\ protected < Len(Source_Order)
    /\ LET a == Referenced_Value(protected + 1)
       IN  notes' = IF a = NoAddr THEN notes ELSE [notes EXCEPT ![a] = <<"order">> \o @]
    /\ protected' = protected + 1
    /\ UNCHANGED <<heap, made, Value_Info, params, value, Source_Order, dying, phase>>

EndProtect ==
    /\ phase = "protect" /\ protected = Len(Source_Order)
    /\ phase' = "optimize"
    /\ UNCHANGED <<heap, made, notes, Value_Info, params, value, Source_Order, protected, dying>>

\* Mutant of Delete_From_Source_Order: the entry gets No_Value_T, not Empty.
Delete_Value_In_Source_Order(a) ==
    \E j \in DOMAIN Source_Order \cup {0} :
        /\ j = 0 <=> \A k \in DOMAIN Source_Order : Referenced_Value(k) # a
        /\ j # 0 => Referenced_Value(j) = a /\ \A k \in 1 .. (j - 1) : Referenced_Value(k) # a
        /\ Source_Order' = [k \in DOMAIN Source_Order |-> IF k = j THEN NoAddr ELSE Source_Order[k]]

\* Delete_From_Source_Order: the first entry that refers to V.
Delete_From_Source_Order(a) ==
    LET J == {j \in DOMAIN Source_Order : Referenced_Value(j) = a}
        first == CHOOSE j \in J : \A k \in J : j <= k
    IN  Source_Order' = IF J = {} THEN Source_Order ELSE [Source_Order EXCEPT ![first] = NoEntity]

(***************************************************************************)
(* LLVM's optimizer, and the instructions the front end deletes            *)
(***************************************************************************)
\* A value with no information, made by the optimizer.
OptimizerMakes(a, fn) ==
    /\ phase = "optimize" /\ CanMake(a)
    /\ NewLife(a, fn)
    /\ UNCHANGED <<notes, Value_Info, params, value, Source_Order, protected, dying, phase>>

\* A value is deleted; while it emits, the front end only deletes instructions.
BeginDelete(a) ==
    /\ Idle /\ Lives(a)
    /\ phase = "optimize" \/ (phase = "emit" /\ \A g \in Globals : value[g] # a)
    /\ dying' = a
    /\ UNCHANGED <<heap, made, notes, Value_Info, params, value, Source_Order, protected, phase>>

\* The address of V is taken back once the callbacks have run.
EndDelete ==
    /\ ~Idle /\ notes[dying] = <<>>
    /\ heap' = [heap EXCEPT ![dying] = NoLife]
    /\ dying' = NoAddr
    /\ UNCHANGED <<made, notes, Value_Info, params, value, Source_Order, protected, phase>>

\* Mutant of OrderCallback: the handle does not delete itself.
OrderCallbackStays ==
    /\ ~Idle /\ notes[dying] # <<>> /\ Head(notes[dying]) = "order"
    /\ Delete_From_Source_Order(dying)
    /\ UNCHANGED <<heap, made, notes, Value_Info, params, value, protected, dying, phase>>

\* GNATCallbackVH::deleted calls the function it was given and deletes itself.
OrderCallback ==
    /\ ~Idle /\ notes[dying] # <<>> /\ Head(notes[dying]) = "order"
    /\ Delete_From_Source_Order(dying)
    /\ notes' = [notes EXCEPT ![dying] = Tail(@)]
    /\ UNCHANGED <<heap, made, Value_Info, params, value, protected, dying, phase>>

\* Mutant of InfoCallback: the names of a function's parameters are kept.
InfoCallbackKeepingParams ==
    /\ ~Idle /\ notes[dying] # <<>> /\ Head(notes[dying]) = "info"
    /\ Value_Info' = [Value_Info EXCEPT ![dying] = NoInfo]
    /\ notes' = [notes EXCEPT ![dying] = Tail(@)]
    /\ UNCHANGED <<heap, made, params, value, Source_Order, protected, dying, phase>>

\* Delete_Value_Info: the entity loses its value, a function its parameters.
InfoCallback ==
    /\ ~Idle /\ notes[dying] # <<>> /\ Head(notes[dying]) = "info"
    /\ LET e == Value_Info[dying].entity
       IN  value' = IF e = NoEntity THEN value ELSE [value EXCEPT ![e] = NoAddr]
    /\ params' = IF heap[dying].fn THEN [params EXCEPT ![dying] = NoEntity] ELSE params
    /\ Value_Info' = [Value_Info EXCEPT ![dying] = NoInfo]
    /\ notes' = [notes EXCEPT ![dying] = Tail(@)]
    /\ UNCHANGED <<heap, made, Source_Order, protected, dying, phase>>

Init ==
    /\ heap = [a \in Addrs |-> NoLife] /\ made = 0
    /\ notes = [a \in Addrs |-> <<>>]
    /\ Value_Info = [a \in Addrs |-> NoInfo]
    /\ params = [a \in Addrs |-> NoEntity]
    /\ value = [e \in Entities |-> NoAddr]
    /\ Source_Order = <<>> /\ protected = 0
    /\ dying = NoAddr
    /\ phase = "emit"

FrontEnd ==
    \/ \E e \in Globals : \/ \E a \in Addrs, fn, discrete \in BOOLEAN : CreateGlobal(e, a, fn, discrete)
                          \/ \E d \in Globals : ShareGlobal(e, d)
                          \/ AddressTaken(e) \/ AddToSourceOrder(e)
    \/ \E a \in Addrs : \/ \E discrete \in BOOLEAN : CreateLocal(a, discrete)
                        \/ \E e \in Locals : NameLocal(e, a)
    \/ EndEmission \/ ProtectEntry \/ EndProtect

LLVM == \E a \in Addrs : BeginDelete(a) \/ \E fn \in BOOLEAN : OptimizerMakes(a, fn)
Callbacks == OrderCallback \/ InfoCallback \/ EndDelete

Next == FrontEnd \/ LLVM \/ Callbacks

\* A deletion, once begun, runs to its end: the callbacks are a loop of LLVM's.
\* What the front end and the optimizer do is up to the program.
Spec == Init /\ [][Next]_vars /\ WF_vars(Callbacks)

(***************************************************************************)
(* Properties                                                              *)
(***************************************************************************)
\* Tables are indexed by addresses and entities, and hold such.
TypeOK ==
    /\ heap \in [Addrs -> [id : 0 .. made, fn : BOOLEAN]]
    /\ made \in 0 .. MaxValues
    /\ notes \in [Addrs -> Seq({"info", "order"})]
    /\ Value_Info \in [Addrs -> [present : BOOLEAN, entity : Entities \cup {NoEntity}, nest : BOOLEAN]]
    /\ params \in [Addrs -> Globals \cup {NoEntity}]
    /\ value \in [Entities -> Addrs \cup {NoAddr}]
    /\ Source_Order \in Seq(Globals \cup {NoEntity})
    /\ protected \in 0 .. Len(Source_Order)
    /\ dying \in Addrs \cup {NoAddr}
    /\ phase \in {"emit", "protect", "optimize"}

\* Nothing is known at an address where no value lives: a value that LLVM
\* puts there later cannot be taken for the one that was deleted, even if
\* the last fact told was one that registers no callback (Needs_Nest).
NoStaleInfo == \A a \in Addrs : ~Lives(a) => Value_Info[a] = NoInfo /\ params[a] = NoEntity

\* The index of the parameters of a function is empty when C_Set_Function
\* fills it: the insertion in CI_Map would raise an exception otherwise.
ParamsOfTheLiving == \A a \in Addrs : params[a] # NoEntity => Lives(a) /\ heap[a].fn

\* The entries of the source order, once protected, only refer to values
\* that live, although two entities may share a value and the information
\* of a value names only the first of them.
OrderRefersToLiving ==
    phase = "optimize" /\ Idle =>
        \A j \in DOMAIN Source_Order : Referenced_Value(j) # NoAddr => Lives(Referenced_Value(j))

\* A deletion comes to its end, and with it all its callbacks.
DeletionsEnd == (~Idle) ~> Idle

(***************************************************************************)
(* Values implements ValueInfo.  A value is dead from the moment its       *)
(* deletion begins.                                                        *)
(***************************************************************************)
LiveAddrs == {a \in Addrs : Lives(a) /\ a # dying}
AddrOf(v) == {a \in LiveAddrs : heap[a].id = v}

Alive == {heap[a].id : a \in LiveAddrs}
KnownOf(v) ==
    IF AddrOf(v) = {} THEN NoEntity ELSE Value_Info[CHOOSE a \in AddrOf(v) : TRUE].entity
Known == [v \in 1 .. made |-> KnownOf(v)]
Nested == {heap[a].id : a \in {b \in LiveAddrs : Value_Info[b].nest}}
About(a) == IF a \in LiveAddrs THEN heap[a].id ELSE 0
References == [j \in DOMAIN Source_Order |-> About(Referenced_Value(j))]
Telling == phase = "emit"

Abstract == INSTANCE ValueInfo WITH
    alive <- Alive, known <- Known, nest <- Nested, refers <- References, open <- Telling

ImplementsValueInfo == Abstract!Spec
=============================================================================
