---------------------------- MODULE ValuesProofs ----------------------------
(***************************************************************************)
(* Proofs about Values, for every set of addresses and entities and every  *)
(* bound: its tables are well formed, and nothing is known at an address   *)
(* where no value lives.                                                   *)
(***************************************************************************)
EXTENDS Values, TLAPS, WellFoundedInduction

(***************************************************************************)
(* The inductive invariant.  Only C_Set_Entity registers a callback, but   *)
(* C_Address_Taken and C_Set_Function write their tables too: they are     *)
(* only called for values that C_Set_Entity was told of before.            *)
(***************************************************************************)
HasInfo(callbacks) == \E i \in DOMAIN callbacks : callbacks[i] = "info"
WillBeForgotten(a) == HasInfo(notes[a])

\* Whatever is known will be forgotten when its value is deleted.
KnownIsNoted ==
    \A a \in Addrs : Value_Info[a] # NoInfo \/ params[a] # NoEntity => Lives(a) /\ WillBeForgotten(a)

\* As long as the front end works, the value of a global entity lives on and
\* has its callback: the front end does not delete it.
GlobalsAreNoted ==
    phase # "optimize" =>
        \A g \in Globals : value[g] # NoAddr =>
            Lives(value[g]) /\ WillBeForgotten(value[g]) /\ value[g] # dying

DyingLives == ~Idle => Lives(dying) /\ phase # "protect"

IInv == TypeOK /\ KnownIsNoted /\ GlobalsAreNoted /\ ParamsOfTheLiving /\ DyingLives

Kinds == {"info", "order"}

\* What registering a callback, and running the last one registered, do.
LEMMA Registered ==
    ASSUME NEW s \in Seq(Kinds), NEW k \in Kinds
    PROVE  /\ <<k>> \o s \in Seq(Kinds)
           /\ (<<k>> \o s)[1] = k
           /\ DOMAIN s = 1 .. Len(s)
           /\ DOMAIN (<<k>> \o s) = 1 .. (Len(s) + 1)
           /\ \A i \in DOMAIN s : (<<k>> \o s)[i + 1] = s[i]
           /\ 1 \in DOMAIN (<<k>> \o s)
           /\ \A i \in DOMAIN s : i + 1 \in DOMAIN (<<k>> \o s)
  OBVIOUS

LEMMA HasRun ==
    ASSUME NEW s \in Seq(Kinds), s # <<>>
    PROVE  /\ Tail(s) \in Seq(Kinds)
           /\ Head(s) = s[1]
           /\ DOMAIN Tail(s) = 1 .. (Len(s) - 1)
           /\ \A i \in DOMAIN s : i # 1 => i - 1 \in DOMAIN Tail(s) /\ Tail(s)[i - 1] = s[i]
  OBVIOUS

LEMMA Replaced ==
    ASSUME NEW S, NEW s \in Seq(S), NEW i \in DOMAIN s, NEW x \in S
    PROVE  /\ [s EXCEPT ![i] = x] \in Seq(S)
           /\ Len([s EXCEPT ![i] = x]) = Len(s)
  OBVIOUS

Infos == [present : BOOLEAN, entity : Entities \cup {NoEntity}, nest : BOOLEAN]

LEMMA RegisteredInfo ==
    ASSUME NEW s \in Seq(Kinds), NEW k \in Kinds
    PROVE  /\ HasInfo(s) => HasInfo(<<k>> \o s)
           /\ HasInfo(<<"info">> \o s)
<1>1. HasInfo(s) => HasInfo(<<k>> \o s)
  BY Registered DEF HasInfo
<1>2. HasInfo(<<"info">> \o s)
  BY Registered DEF HasInfo, Kinds
<1> QED BY <1>1, <1>2

LEMMA RunOrder ==
    ASSUME NEW s \in Seq(Kinds), s # <<>>, Head(s) = "order", HasInfo(s)
    PROVE  HasInfo(Tail(s))
<1>1. PICK i \in DOMAIN s : s[i] = "info"
  BY DEF HasInfo
<1>2. i # 1
  BY <1>1, HasRun
<1>3. i - 1 \in DOMAIN Tail(s) /\ Tail(s)[i - 1] = "info"
  BY <1>1, <1>2, HasRun
<1> QED BY <1>3 DEF HasInfo

\* C_Set_Entity registers a callback whenever it makes something known.
LEMMA SetEntity ==
    ASSUME NEW s \in Seq(Kinds), NEW info \in Infos, NEW e \in Entities,
           info # NoInfo => HasInfo(s)
    PROVE  /\ WithEntity(info, e) \in Infos
           /\ NotedEntity(s, info, e) \in Seq(Kinds)
           /\ HasInfo(NotedEntity(s, info, e))
<1>1. WithEntity(info, e) \in Infos
  BY DEF WithEntity, Infos
<1>2. NotedEntity(s, info, e) \in Seq(Kinds)
  BY Registered DEF NotedEntity, Kinds
<1>3. CASE SetsEntity(info, e)
  BY <1>1, <1>2, <1>3, RegisteredInfo DEF NotedEntity
<1>4. CASE ~SetsEntity(info, e)
  <2>1. info # NoInfo
    BY <1>4 DEF SetsEntity, NoInfo
  <2> QED BY <1>1, <1>2, <1>4, <2>1 DEF NotedEntity
<1> QED BY <1>3, <1>4

LEMMA InitIInv == Init => IInv
<1> SUFFICES ASSUME Init PROVE IInv
  OBVIOUS
<1> USE DEF Init
<1>1. TypeOK
  BY ConstantsAssumption DEF TypeOK, NoLife, NoInfo, Entities
<1>2. KnownIsNoted
  BY DEF KnownIsNoted
<1>3. GlobalsAreNoted
  BY DEF GlobalsAreNoted, Entities
<1>4. ParamsOfTheLiving /\ DyingLives
  BY DEF ParamsOfTheLiving, DyingLives, Idle
<1> QED BY <1>1, <1>2, <1>3, <1>4 DEF IInv

\* The front end makes a value that stands for a global entity.
LEMMA CreateGlobalIInv ==
    ASSUME IInv, NEW e \in Globals, NEW a \in Addrs, NEW fn \in BOOLEAN,
           NEW discrete \in BOOLEAN, CreateGlobal(e, a, fn, discrete)
    PROVE  IInv'
<1> DEFINE typed == IF discrete THEN WithEntity(Value_Info[a], AType) ELSE Value_Info[a]
           noted == IF discrete THEN NotedEntity(notes[a], Value_Info[a], AType) ELSE notes[a]
<1>1. /\ Idle /\ ~Lives(a) /\ made < MaxValues /\ phase = "emit"
      /\ heap' = [heap EXCEPT ![a] = [id |-> made + 1, fn |-> fn]] /\ made' = made + 1
      /\ value' = [value EXCEPT ![e] = a]
      /\ params' = IF fn THEN [params EXCEPT ![a] = e] ELSE params
      /\ Value_Info' = [Value_Info EXCEPT ![a] = WithEntity(typed, e)]
      /\ notes' = [notes EXCEPT ![a] = NotedEntity(noted, typed, e)]
      /\ UNCHANGED <<Source_Order, protected, dying, phase>>
  BY DEF CreateGlobal, CanMake, NewLife
<1> HIDE DEF typed, noted
<1>2. TypeOK
  BY DEF IInv
<1>3. /\ Value_Info[a] = NoInfo /\ params[a] = NoEntity
      /\ Value_Info[a] \in Infos /\ notes[a] \in Seq(Kinds)
  BY <1>1, <1>2 DEF IInv, KnownIsNoted, TypeOK, Infos, Kinds
<1>4. AType \in Entities /\ e \in Entities
  BY DEF Entities
<1>5. typed \in Infos /\ noted \in Seq(Kinds) /\ (typed # NoInfo => HasInfo(noted))
  BY <1>3, <1>4, SetEntity DEF typed, noted
<1>6. /\ WithEntity(typed, e) \in Infos /\ NotedEntity(noted, typed, e) \in Seq(Kinds)
      /\ HasInfo(NotedEntity(noted, typed, e))
  BY <1>4, <1>5, SetEntity
<1>7. TypeOK'
  <2>1. /\ notes' \in [Addrs -> Seq(Kinds)] /\ Value_Info' \in [Addrs -> Infos]
    BY <1>1, <1>2, <1>6 DEF TypeOK, Infos, Kinds
  <2>2. /\ heap' \in [Addrs -> [id : 0 .. made', fn : BOOLEAN]] /\ made' \in 0 .. MaxValues
    BY <1>1, <1>2, ConstantsAssumption DEF TypeOK
  <2>3. value' \in [Entities -> Addrs \cup {NoAddr}] /\ params' \in [Addrs -> Globals \cup {NoEntity}]
    BY <1>1, <1>2, <1>4 DEF TypeOK
  <2> QED BY <1>1, <1>2, <2>1, <2>2, <2>3 DEF TypeOK, Infos, Kinds
<1>8. WillBeForgotten(a)' /\ Lives(a)' /\ heap'[a].fn = fn
  BY <1>1, <1>2, <1>6 DEF WillBeForgotten, Lives, TypeOK
<1>9. \A b \in Addrs : b # a => /\ notes'[b] = notes[b] /\ heap'[b] = heap[b]
                               /\ Value_Info'[b] = Value_Info[b] /\ params'[b] = params[b]
  BY <1>1, <1>2 DEF TypeOK
<1>10. KnownIsNoted'
  BY <1>8, <1>9 DEF IInv, KnownIsNoted, WillBeForgotten, Lives
<1>11. GlobalsAreNoted'
  <2>1. \A g \in Globals : value'[g] = IF g = e THEN a ELSE value[g]
    BY <1>1, <1>2, <1>4 DEF TypeOK, Entities
  <2>2. dying' = NoAddr
    BY <1>1 DEF Idle
  <2> QED BY <1>1, <1>2, <1>8, <1>9, <2>1, <2>2, ConstantsAssumption
          DEF IInv, GlobalsAreNoted, WillBeForgotten, Lives, TypeOK, Entities
<1>12. ParamsOfTheLiving'
  BY <1>1, <1>2, <1>3, <1>8, <1>9 DEF IInv, ParamsOfTheLiving, TypeOK, Lives
<1>13. DyingLives'
  BY <1>1 DEF DyingLives, Idle
<1> QED BY <1>7, <1>10, <1>11, <1>12, <1>13 DEF IInv

\* The front end tells what a value is, and may change Get_Value for E.
LEMMA TellIInv ==
    ASSUME IInv, NEW a \in Addrs, Lives(a), Idle,
           NEW e \in Globals \cup Locals, phase = "emit",
           e \in Globals => WillBeForgotten(a) /\ a # dying,
           value' = [value EXCEPT ![e] = a],
           Value_Info' = [Value_Info EXCEPT ![a] = WithEntity(@, e)],
           notes' = [notes EXCEPT ![a] = NotedEntity(@, Value_Info[a], e)],
           UNCHANGED <<heap, made, params, Source_Order, protected, dying, phase>>
    PROVE  IInv'
<1>1. TypeOK
  BY DEF IInv
<1>2. e \in Entities
  BY DEF Entities
<1>3. Value_Info[a] \in Infos /\ notes[a] \in Seq(Kinds) /\ (Value_Info[a] # NoInfo => HasInfo(notes[a]))
  BY <1>1 DEF IInv, KnownIsNoted, TypeOK, Infos, Kinds, WillBeForgotten
<1>4. /\ WithEntity(Value_Info[a], e) \in Infos
      /\ NotedEntity(notes[a], Value_Info[a], e) \in Seq(Kinds)
      /\ HasInfo(NotedEntity(notes[a], Value_Info[a], e))
  BY <1>2, <1>3, SetEntity
<1>5. TypeOK'
  <2>1. notes' \in [Addrs -> Seq(Kinds)] /\ Value_Info' \in [Addrs -> Infos]
    BY <1>1, <1>4 DEF TypeOK, Infos, Kinds
  <2>2. value' \in [Entities -> Addrs \cup {NoAddr}]
    BY <1>1, <1>2 DEF TypeOK
  <2> QED BY <1>1, <2>1, <2>2 DEF TypeOK, Infos, Kinds
<1>6. WillBeForgotten(a)'
  BY <1>1, <1>4 DEF WillBeForgotten, TypeOK
<1>7. \A b \in Addrs : b # a => notes'[b] = notes[b] /\ Value_Info'[b] = Value_Info[b]
  BY <1>1 DEF TypeOK
<1>8. KnownIsNoted'
  BY <1>6, <1>7 DEF IInv, KnownIsNoted, WillBeForgotten, Lives
<1>9. GlobalsAreNoted'
  <2>1. \A g \in Globals : value'[g] = IF g = e THEN a ELSE value[g]
    BY <1>1, <1>2 DEF TypeOK, Entities
  <2>2. SUFFICES ASSUME NEW g \in Globals, value'[g] # NoAddr
                 PROVE  (Lives(value[g]) /\ WillBeForgotten(value[g]) /\ value[g] # dying)'
    BY DEF GlobalsAreNoted
  <2>3. CASE g = e
    BY <1>6, <2>1, <2>3 DEF Lives
  <2>4. CASE g # e
    <3>1. value'[g] = value[g] /\ value[g] \in Addrs
      BY <1>1, <2>1, <2>2, <2>4 DEF TypeOK, Entities
    <3>2. Lives(value[g]) /\ WillBeForgotten(value[g]) /\ value[g] # dying
      BY <2>2, <3>1 DEF IInv, GlobalsAreNoted
    <3> QED BY <1>6, <1>7, <3>1, <3>2 DEF Lives, WillBeForgotten
  <2> QED BY <2>3, <2>4
<1>10. ParamsOfTheLiving' /\ DyingLives'
  BY DEF IInv, ParamsOfTheLiving, DyingLives, Lives, Idle
<1> QED BY <1>5, <1>8, <1>9, <1>10 DEF IInv

\* The front end makes any other value.
LEMMA CreateLocalIInv ==
    ASSUME IInv, NEW a \in Addrs, NEW discrete \in BOOLEAN, CreateLocal(a, discrete)
    PROVE  IInv'
<1>1. /\ Idle /\ ~Lives(a) /\ made < MaxValues /\ phase = "emit"
      /\ heap' = [heap EXCEPT ![a] = [id |-> made + 1, fn |-> FALSE]] /\ made' = made + 1
      /\ UNCHANGED <<params, value, Source_Order, protected, dying, phase>>
  BY DEF CreateLocal, CanMake, NewLife
<1>2. TypeOK
  BY DEF IInv
<1>3. /\ Value_Info[a] = NoInfo /\ params[a] = NoEntity
      /\ Value_Info[a] \in Infos /\ notes[a] \in Seq(Kinds)
  BY <1>1, <1>2 DEF IInv, KnownIsNoted, TypeOK, Infos, Kinds
<1>4. \A g \in Globals : value[g] # a
  BY <1>1, ConstantsAssumption DEF IInv, GlobalsAreNoted
<1>5. /\ notes' \in [Addrs -> Seq(Kinds)] /\ Value_Info' \in [Addrs -> Infos]
      /\ Value_Info'[a] # NoInfo => HasInfo(notes'[a])
      /\ \A b \in Addrs : b # a => notes'[b] = notes[b] /\ Value_Info'[b] = Value_Info[b]
  <2>1. CASE discrete
    <3>1. AType \in Entities
      BY DEF Entities
    <3>2. /\ WithEntity(Value_Info[a], AType) \in Infos
          /\ NotedEntity(notes[a], Value_Info[a], AType) \in Seq(Kinds)
          /\ HasInfo(NotedEntity(notes[a], Value_Info[a], AType))
      BY <1>3, <3>1, SetEntity
    <3>3. /\ Value_Info' = [Value_Info EXCEPT ![a] = WithEntity(@, AType)]
          /\ notes' = [notes EXCEPT ![a] = NotedEntity(@, Value_Info[a], AType)]
      BY <2>1 DEF CreateLocal
    <3> QED BY <1>2, <3>2, <3>3 DEF TypeOK, Infos, Kinds
  <2>2. CASE ~discrete
    <3>1. UNCHANGED <<Value_Info, notes>>
      BY <2>2 DEF CreateLocal
    <3> QED BY <1>2, <1>3, <3>1 DEF TypeOK, Infos, Kinds
  <2> QED BY <2>1, <2>2
<1>6. TypeOK'
  <2>1. /\ heap' \in [Addrs -> [id : 0 .. made', fn : BOOLEAN]] /\ made' \in 0 .. MaxValues
    BY <1>1, <1>2, ConstantsAssumption DEF TypeOK
  <2> QED BY <1>1, <1>2, <1>5, <2>1 DEF TypeOK, Infos, Kinds
<1>7. /\ Lives(a)'
      /\ \A b \in Addrs : b # a => heap'[b] = heap[b]
  BY <1>1, <1>2 DEF Lives, TypeOK
<1>8. KnownIsNoted'
  BY <1>1, <1>3, <1>5, <1>7 DEF IInv, KnownIsNoted, WillBeForgotten, Lives
<1>9. GlobalsAreNoted'
  BY <1>1, <1>2, <1>4, <1>5, <1>7 DEF IInv, GlobalsAreNoted, WillBeForgotten, Lives, TypeOK, Entities
<1>10. ParamsOfTheLiving' /\ DyingLives'
  BY <1>1, <1>3, <1>7 DEF IInv, ParamsOfTheLiving, DyingLives, Lives, Idle
<1> QED BY <1>6, <1>8, <1>9, <1>10 DEF IInv

\* C_Address_Taken: the value of a global entity has its callback already.
LEMMA AddressTakenIInv ==
    ASSUME IInv, NEW e \in Globals, AddressTaken(e)
    PROVE  IInv'
<1> DEFINE a == value[e]
<1>1. /\ phase = "emit" /\ Idle /\ a # NoAddr
      /\ Value_Info' = [Value_Info EXCEPT ![a].present = TRUE, ![a].nest = TRUE]
      /\ UNCHANGED <<heap, made, notes, params, value, Source_Order, protected, dying, phase>>
  BY DEF AddressTaken
<1>2. a \in Addrs /\ TypeOK
  BY <1>1 DEF IInv, TypeOK, Entities
<1>3. Lives(a) /\ WillBeForgotten(a)
  BY <1>1 DEF IInv, GlobalsAreNoted
<1> HIDE DEF a
<1>4. /\ Value_Info' \in [Addrs -> Infos]
      /\ \A b \in Addrs : b # a => Value_Info'[b] = Value_Info[b]
  <2>1. Value_Info \in [Addrs -> Infos] /\ Value_Info[a] \in Infos
    BY <1>2 DEF TypeOK, Infos
  <2>2. PICK r : r = [Value_Info[a] EXCEPT !.present = TRUE, !.nest = TRUE]
    OBVIOUS
  <2>3. r \in Infos
    BY <2>1, <2>2 DEF Infos
  <2>4. Value_Info' = [Value_Info EXCEPT ![a] = r]
    BY <1>1, <1>2, <2>1, <2>2
  <2> QED BY <1>2, <2>1, <2>3, <2>4
<1>5. TypeOK'
  BY <1>1, <1>2, <1>4 DEF TypeOK, Infos
<1>6. KnownIsNoted'
  BY <1>1, <1>3, <1>4 DEF IInv, KnownIsNoted, WillBeForgotten, Lives
<1>7. GlobalsAreNoted' /\ ParamsOfTheLiving' /\ DyingLives'
  BY <1>1 DEF IInv, GlobalsAreNoted, ParamsOfTheLiving, DyingLives, WillBeForgotten, Lives, Idle
<1> QED BY <1>5, <1>6, <1>7 DEF IInv

\* The steps that only touch the source order, or registered callbacks.
LEMMA ProtectEntryIInv ==
    ASSUME IInv, ProtectEntry
    PROVE  IInv'
<1> DEFINE a == Referenced_Value(protected + 1)
<1>1. /\ phase = "protect" /\ protected < Len(Source_Order)
      /\ notes' = IF a = NoAddr THEN notes ELSE [notes EXCEPT ![a] = <<"order">> \o @]
      /\ protected' = protected + 1
      /\ UNCHANGED <<heap, made, Value_Info, params, value, Source_Order, dying, phase>>
  BY DEF ProtectEntry
<1>2. TypeOK
  BY DEF IInv
<1>3. a \in Addrs \cup {NoAddr}
  BY <1>1, <1>2 DEF Referenced_Value, TypeOK, Entities
<1> HIDE DEF a
<1>4. /\ notes' \in [Addrs -> Seq(Kinds)]
      /\ \A b \in Addrs : WillBeForgotten(b) => WillBeForgotten(b)'
  <2>1. CASE a = NoAddr
    BY <1>1, <1>2, <2>1 DEF TypeOK, Kinds, WillBeForgotten
  <2>2. CASE a # NoAddr
    <3>1. a \in Addrs /\ "order" \in Kinds /\ notes[a] \in Seq(Kinds)
      BY <1>2, <1>3, <2>2 DEF TypeOK, Kinds
    <3>2. /\ <<"order">> \o notes[a] \in Seq(Kinds)
          /\ HasInfo(notes[a]) => HasInfo(<<"order">> \o notes[a])
      BY <3>1, Registered, RegisteredInfo
    <3> QED BY <1>1, <1>2, <2>2, <3>1, <3>2 DEF TypeOK, Kinds, WillBeForgotten
  <2> QED BY <2>1, <2>2
<1>5. TypeOK'
  BY <1>1, <1>2, <1>4 DEF TypeOK, Kinds
<1>6. KnownIsNoted' /\ ParamsOfTheLiving' /\ DyingLives'
  BY <1>1, <1>4 DEF IInv, KnownIsNoted, ParamsOfTheLiving, DyingLives, Lives, Idle
<1>7. GlobalsAreNoted'
  BY <1>1, <1>2, <1>4 DEF IInv, GlobalsAreNoted, Lives, TypeOK, Entities
<1> QED BY <1>5, <1>6, <1>7 DEF IInv

\* LLVM makes a value, or begins to delete one.
LEMMA OptimizerIInv ==
    ASSUME IInv, NEW a \in Addrs,
           BeginDelete(a) \/ \E fn \in BOOLEAN : OptimizerMakes(a, fn)
    PROVE  IInv'
<1>1. TypeOK
  BY DEF IInv
<1>2. CASE BeginDelete(a)
  <2>1. /\ Idle /\ Lives(a) /\ dying' = a
        /\ phase = "optimize" \/ (phase = "emit" /\ \A g \in Globals : value[g] # a)
        /\ UNCHANGED <<heap, made, notes, Value_Info, params, value, Source_Order, protected, phase>>
    BY <1>2 DEF BeginDelete
  <2>2. TypeOK'
    BY <1>1, <2>1 DEF TypeOK
  <2>3. KnownIsNoted' /\ ParamsOfTheLiving' /\ DyingLives'
    BY <2>1 DEF IInv, KnownIsNoted, ParamsOfTheLiving, DyingLives, WillBeForgotten, Lives, Idle
  <2>4. GlobalsAreNoted'
    BY <2>1 DEF IInv, GlobalsAreNoted, WillBeForgotten, Lives
  <2> QED BY <2>2, <2>3, <2>4 DEF IInv
<1>3. ASSUME NEW fn \in BOOLEAN, OptimizerMakes(a, fn)
      PROVE  IInv'
  <2>1. /\ Idle /\ ~Lives(a) /\ made < MaxValues /\ phase = "optimize"
        /\ heap' = [heap EXCEPT ![a] = [id |-> made + 1, fn |-> fn]] /\ made' = made + 1
        /\ UNCHANGED <<notes, Value_Info, params, value, Source_Order, protected, dying, phase>>
    BY <1>3 DEF OptimizerMakes, CanMake, NewLife
  <2>2. TypeOK'
    <3>1. /\ heap' \in [Addrs -> [id : 0 .. made', fn : BOOLEAN]] /\ made' \in 0 .. MaxValues
      BY <1>1, <2>1, ConstantsAssumption DEF TypeOK
    <3> QED BY <1>1, <2>1, <3>1 DEF TypeOK
  <2>3. Lives(a)' /\ \A b \in Addrs : b # a => heap'[b] = heap[b]
    BY <1>1, <2>1 DEF Lives, TypeOK
  <2>4. KnownIsNoted' /\ ParamsOfTheLiving' /\ DyingLives' /\ GlobalsAreNoted'
    BY <2>1, <2>3
       DEF IInv, KnownIsNoted, ParamsOfTheLiving, DyingLives, GlobalsAreNoted, WillBeForgotten, Lives, Idle
  <2> QED BY <2>2, <2>4 DEF IInv
<1> QED BY <1>2, <1>3

\* Delete_From_Source_Order replaces at most one entry, by Empty.
LEMMA EntryDeleted ==
    ASSUME TypeOK, NEW a \in Addrs, Delete_From_Source_Order(a)
    PROVE  Source_Order' \in Seq(Globals \cup {NoEntity}) /\ Len(Source_Order') = Len(Source_Order)
<1> DEFINE J == {j \in DOMAIN Source_Order : Referenced_Value(j) = a}
           first == CHOOSE j \in J : \A k \in J : j <= k
<1>1. Source_Order' = IF J = {} THEN Source_Order ELSE [Source_Order EXCEPT ![first] = NoEntity]
  BY DEF Delete_From_Source_Order
<1>2. Source_Order \in Seq(Globals \cup {NoEntity})
  BY DEF TypeOK
<1> HIDE DEF J
<1>3. CASE J = {}
  BY <1>1, <1>2, <1>3
<1>4. CASE J # {}
  <2> HIDE DEF first
  <2>1. Source_Order' = [Source_Order EXCEPT ![first] = NoEntity]
    BY <1>1, <1>4
  <2>2. CASE first \in DOMAIN Source_Order
    BY <1>2, <2>1, <2>2, Replaced
  <2>3. CASE first \notin DOMAIN Source_Order
    <3>1. Source_Order' = Source_Order
      BY <1>2, <2>1, <2>3
    <3> QED BY <1>2, <3>1
  <2> QED BY <2>2, <2>3
<1> QED BY <1>3, <1>4

LEMMA OrderCallbackIInv ==
    ASSUME IInv, OrderCallback
    PROVE  IInv'
<1>1. /\ ~Idle /\ notes[dying] # <<>> /\ Head(notes[dying]) = "order"
      /\ Delete_From_Source_Order(dying)
      /\ notes' = [notes EXCEPT ![dying] = Tail(@)]
      /\ UNCHANGED <<heap, made, Value_Info, params, value, protected, dying, phase>>
  BY DEF OrderCallback
<1>2. TypeOK /\ dying \in Addrs /\ notes[dying] \in Seq(Kinds)
  BY <1>1 DEF IInv, TypeOK, Idle, Kinds
<1>3. /\ Tail(notes[dying]) \in Seq(Kinds)
      /\ HasInfo(notes[dying]) => HasInfo(Tail(notes[dying]))
  BY <1>1, <1>2, HasRun, RunOrder
<1>4. /\ notes' \in [Addrs -> Seq(Kinds)]
      /\ \A b \in Addrs : WillBeForgotten(b) => WillBeForgotten(b)'
  BY <1>1, <1>2, <1>3 DEF TypeOK, Kinds, WillBeForgotten
<1>5. TypeOK'
  BY <1>1, <1>2, <1>4, EntryDeleted DEF TypeOK, Kinds
<1>6. KnownIsNoted' /\ ParamsOfTheLiving' /\ DyingLives'
  BY <1>1, <1>4 DEF IInv, KnownIsNoted, ParamsOfTheLiving, DyingLives, Lives, Idle
<1>7. GlobalsAreNoted'
  BY <1>1, <1>2, <1>4 DEF IInv, GlobalsAreNoted, Lives, TypeOK, Entities
<1> QED BY <1>5, <1>6, <1>7 DEF IInv

\* After one callback of Delete_Value_Info nothing is known of the value.
LEMMA InfoCallbackIInv ==
    ASSUME IInv, InfoCallback
    PROVE  IInv'
<1> DEFINE e == Value_Info[dying].entity
<1>1. /\ ~Idle /\ notes[dying] # <<>> /\ Head(notes[dying]) = "info"
      /\ value' = IF e = NoEntity THEN value ELSE [value EXCEPT ![e] = NoAddr]
      /\ params' = IF heap[dying].fn THEN [params EXCEPT ![dying] = NoEntity] ELSE params
      /\ Value_Info' = [Value_Info EXCEPT ![dying] = NoInfo]
      /\ notes' = [notes EXCEPT ![dying] = Tail(@)]
      /\ UNCHANGED <<heap, made, Source_Order, protected, dying, phase>>
  BY DEF InfoCallback
<1>2. /\ TypeOK /\ dying \in Addrs /\ notes[dying] \in Seq(Kinds)
      /\ e \in Entities \cup {NoEntity}
  BY <1>1 DEF IInv, TypeOK, Idle, Kinds
<1> HIDE DEF e
<1>3. Tail(notes[dying]) \in Seq(Kinds)
  BY <1>1, <1>2, HasRun
<1>4. /\ notes' \in [Addrs -> Seq(Kinds)]
      /\ \A b \in Addrs : b # dying => /\ WillBeForgotten(b) => WillBeForgotten(b)'
                                     /\ Value_Info'[b] = Value_Info[b] /\ params'[b] = params[b]
  BY <1>1, <1>2, <1>3 DEF TypeOK, Kinds, WillBeForgotten
<1>5. /\ value' \in [Entities -> Addrs \cup {NoAddr}]
      /\ \A g \in Entities : value'[g] # NoAddr => value'[g] = value[g]
  BY <1>1, <1>2 DEF TypeOK
<1>6. NoInfo \in Infos
  BY DEF NoInfo, Infos
<1>7. TypeOK'
  <2>1. /\ Value_Info' \in [Addrs -> Infos] /\ params' \in [Addrs -> Globals \cup {NoEntity}]
    BY <1>1, <1>2, <1>6 DEF TypeOK, Infos
  <2> QED BY <1>1, <1>2, <1>4, <1>5, <2>1 DEF TypeOK, Kinds, Infos
<1>8. Value_Info'[dying] = NoInfo /\ params'[dying] = NoEntity
  BY <1>1, <1>2 DEF IInv, ParamsOfTheLiving, TypeOK
<1>9. KnownIsNoted' /\ ParamsOfTheLiving' /\ DyingLives'
  BY <1>1, <1>4, <1>8 DEF IInv, KnownIsNoted, ParamsOfTheLiving, DyingLives, Lives, Idle
<1>10. GlobalsAreNoted'
  BY <1>1, <1>2, <1>4, <1>5 DEF IInv, GlobalsAreNoted, Lives, TypeOK, Entities
<1> QED BY <1>7, <1>9, <1>10 DEF IInv

\* The address is free again only when no callback is left, so nothing is known.
LEMMA EndDeleteIInv ==
    ASSUME IInv, EndDelete
    PROVE  IInv'
<1>1. /\ ~Idle /\ notes[dying] = <<>>
      /\ heap' = [heap EXCEPT ![dying] = NoLife] /\ dying' = NoAddr
      /\ UNCHANGED <<made, notes, Value_Info, params, value, Source_Order, protected, phase>>
  BY DEF EndDelete
<1>2. TypeOK /\ dying \in Addrs
  BY <1>1 DEF IInv, TypeOK, Idle
<1>3. ~WillBeForgotten(dying)
  BY <1>1 DEF WillBeForgotten, HasInfo
<1>4. Value_Info[dying] = NoInfo /\ params[dying] = NoEntity
  BY <1>2, <1>3 DEF IInv, KnownIsNoted
<1>5. \A b \in Addrs : b # dying => heap'[b] = heap[b]
  BY <1>1, <1>2 DEF TypeOK
<1>6. TypeOK'
  <2>1. NoLife \in [id : 0 .. made, fn : BOOLEAN]
    BY <1>2 DEF NoLife, TypeOK
  <2> QED BY <1>1, <1>2, <2>1 DEF TypeOK
<1>7. KnownIsNoted' /\ ParamsOfTheLiving' /\ DyingLives'
  BY <1>1, <1>4, <1>5 DEF IInv, KnownIsNoted, ParamsOfTheLiving, DyingLives, Lives, WillBeForgotten, Idle
<1>8. GlobalsAreNoted'
  <2>1. SUFFICES ASSUME phase # "optimize", NEW g \in Globals, value[g] # NoAddr
                 PROVE  Lives(value[g])' /\ WillBeForgotten(value[g]) /\ value[g] # NoAddr
    BY <1>1 DEF GlobalsAreNoted, WillBeForgotten, Lives
  <2>2. value[g] \in Addrs
    BY <1>2, <2>1 DEF TypeOK, Entities
  <2>3. Lives(value[g]) /\ WillBeForgotten(value[g]) /\ value[g] # dying
    BY <2>1 DEF IInv, GlobalsAreNoted
  <2> QED BY <1>1, <1>5, <2>1, <2>2, <2>3 DEF Lives
<1> QED BY <1>6, <1>7, <1>8 DEF IInv

LEMMA NextIInv == IInv /\ [Next]_vars => IInv'
<1> SUFFICES ASSUME IInv, [Next]_vars PROVE IInv'
  OBVIOUS
<1>1. ASSUME NEW e \in Globals, NEW d \in Globals, ShareGlobal(e, d)
      PROVE  IInv'
  <2> DEFINE a == value[d]
  <2>1. /\ phase = "emit" /\ Idle /\ a # NoAddr
        /\ value' = [value EXCEPT ![e] = a]
        /\ Value_Info' = [Value_Info EXCEPT ![a] = WithEntity(@, e)]
        /\ notes' = [notes EXCEPT ![a] = NotedEntity(@, Value_Info[a], e)]
        /\ UNCHANGED <<heap, made, params, Source_Order, protected, dying, phase>>
    BY <1>1 DEF ShareGlobal
  <2>2. a \in Addrs /\ Lives(a) /\ WillBeForgotten(a) /\ a # dying
    BY <2>1 DEF IInv, TypeOK, Entities, GlobalsAreNoted
  <2> HIDE DEF a
  <2> QED BY <2>1, <2>2, TellIInv
<1>2. ASSUME NEW e \in Locals, NEW a \in Addrs, NameLocal(e, a)
      PROVE  IInv'
  <2>1. e \notin Globals
    BY <1>2, ConstantsAssumption
  <2> QED BY <1>2, <2>1, TellIInv DEF NameLocal
<1>3. ASSUME NEW e \in Globals, AddToSourceOrder(e)
      PROVE  IInv'
  <2>1. TypeOK'
    <3>1. /\ Source_Order \in Seq(Globals \cup {NoEntity}) /\ protected \in 0 .. Len(Source_Order)
          /\ Source_Order' = Append(Source_Order, e)
      BY <1>3 DEF AddToSourceOrder, IInv, TypeOK
    <3>2. Source_Order' \in Seq(Globals \cup {NoEntity}) /\ protected \in 0 .. Len(Source_Order')
      BY <3>1
    <3> QED BY <1>3, <3>2 DEF IInv, TypeOK, AddToSourceOrder
  <2> QED BY <1>3, <2>1 DEF AddToSourceOrder, IInv, KnownIsNoted, GlobalsAreNoted,
             ParamsOfTheLiving, DyingLives, WillBeForgotten, Lives, Idle
<1>4. CASE EndEmission \/ EndProtect
  BY <1>4 DEF EndEmission, EndProtect, IInv, TypeOK, KnownIsNoted, GlobalsAreNoted,
              ParamsOfTheLiving, DyingLives, WillBeForgotten, Lives, Idle
<1>5. CASE UNCHANGED vars
  BY <1>5 DEF vars, IInv, TypeOK, KnownIsNoted, GlobalsAreNoted, ParamsOfTheLiving,
              DyingLives, WillBeForgotten, Lives, Idle
<1>6. CASE FrontEnd
  BY <1>1, <1>2, <1>3, <1>4, <1>6, CreateGlobalIInv, CreateLocalIInv, AddressTakenIInv,
     ProtectEntryIInv DEF FrontEnd
<1>7. CASE LLVM
  BY <1>7, OptimizerIInv DEF LLVM
<1>8. CASE Callbacks
  BY <1>8, OrderCallbackIInv, InfoCallbackIInv, EndDeleteIInv DEF Callbacks
<1> QED BY <1>5, <1>6, <1>7, <1>8 DEF Next

LEMMA AlwaysIInv == Spec => []IInv
  BY InitIInv, NextIInv, PTL DEF Spec

\* The tables of values, of functions' parameters and of the source order
\* are indexed by addresses and entities and hold such, whatever LLVM deletes.
THEOREM TypeCorrect == Spec => []TypeOK
  BY AlwaysIInv, PTL DEF IInv

\* For any number of values, entities and callbacks, nothing stays known at
\* an address whose value was deleted, although C_Address_Taken and
\* C_Set_Function register no callback of their own.
THEOREM NothingStale == Spec => []NoStaleInfo
<1>1. IInv => NoStaleInfo
  BY DEF IInv, KnownIsNoted, NoStaleInfo
<1> QED BY <1>1, AlwaysIInv, PTL

\* C_Set_Function only fills an empty index: the parameters of a function go
\* with the function.
THEOREM ParamsGoWithFunction == Spec => []ParamsOfTheLiving
  BY AlwaysIInv, PTL DEF IInv

(***************************************************************************)
(* The source order.  Delete_From_Source_Order deletes one entry for each  *)
(* callback, so each protected entry needs a callback of its own: F[j] is  *)
(* the place of the callback that stands for entry j among those of its    *)
(* value.                                                                  *)
(***************************************************************************)
Refers(j) == Referenced_Value(j) # NoAddr

Matching(f) ==
    /\ \A j \in 1 .. protected : Refers(j) =>
          LET a == Referenced_Value(j)
          IN  Lives(a) /\ f[j] \in DOMAIN notes[a] /\ notes[a][f[j]] = "order"
    /\ \A j, k \in 1 .. protected :
          Refers(j) /\ Referenced_Value(j) = Referenced_Value(k) /\ f[j] = f[k] => j = k

EntriesAreNoted == phase # "emit" => \E f \in [1 .. protected -> Nat] : Matching(f)
ProtectedInTurn ==
    /\ phase = "emit" => protected = 0
    /\ phase = "optimize" => protected = Len(Source_Order)

OrderInv == EntriesAreNoted /\ ProtectedInTurn

LEMMA LeastExists ==
    ASSUME NEW J \in SUBSET Nat, J # {}
    PROVE  \E j \in J : \A k \in J : j <= k
<1> DEFINE R == OpToRel(<, Nat)
<1>1. IsWellFoundedOn(R, Nat)
  BY NatLessThanWellFounded
<1>2. \A x, y \in Nat : y < x => <<y, x>> \in R
  BY DEF OpToRel
<1> HIDE DEF R
<1>3. PICK x \in J : \A y \in J : ~ (<<y, x>> \in R)
  BY <1>1, WFMin
<1>4. \A y \in J : ~(y < x)
  BY <1>2, <1>3
<1>5. \A y \in J : x <= y
  BY <1>4, Z3
<1> QED BY <1>5

\* An entry refers to an address or to nothing.
LEMMA ReferencedType ==
    ASSUME TypeOK, NEW j \in DOMAIN Source_Order
    PROVE  /\ Referenced_Value(j) \in Addrs \cup {NoAddr}
           /\ Refers(j) => Source_Order[j] \in Globals /\ Referenced_Value(j) = value[Source_Order[j]]
<1>1. Source_Order[j] \in Globals \cup {NoEntity}
  BY DEF TypeOK
<1> QED BY <1>1 DEF TypeOK, Referenced_Value, Refers, Entities

\* Exactly one entry that refers to the value is deleted, if there is one.
LEMMA FirstDeleted ==
    ASSUME TypeOK, NEW a \in Addrs, Delete_From_Source_Order(a), UNCHANGED value,
           NEW i \in DOMAIN Source_Order, Referenced_Value(i) = a
    PROVE  \E first \in DOMAIN Source_Order :
              /\ Referenced_Value(first) = a
              /\ Referenced_Value(first)' = NoAddr
              /\ \A j \in DOMAIN Source_Order : j # first => Referenced_Value(j)' = Referenced_Value(j)
<1> DEFINE J == {j \in DOMAIN Source_Order : Referenced_Value(j) = a}
           first == CHOOSE j \in J : \A k \in J : j <= k
<1>1. Source_Order' = IF J = {} THEN Source_Order ELSE [Source_Order EXCEPT ![first] = NoEntity]
  BY DEF Delete_From_Source_Order
<1>2. J \in SUBSET Nat /\ J # {}
  BY DEF TypeOK
<1>3. first \in J
  <2> HIDE DEF J
  <2>1. \E j \in J : \A k \in J : j <= k
    BY <1>2, LeastExists
  <2> QED BY <2>1
<1>4. PICK d \in DOMAIN Source_Order : Referenced_Value(d) = a /\ d = first
  BY <1>3
<1>5. Source_Order' = [Source_Order EXCEPT ![d] = NoEntity]
  BY <1>1, <1>2, <1>4
<1> HIDE DEF J, first
<1>6. Source_Order \in Seq(Globals \cup {NoEntity})
  BY DEF TypeOK
<1>7. /\ Source_Order'[d] = NoEntity
      /\ \A j \in DOMAIN Source_Order : j # d => Source_Order'[j] = Source_Order[j]
  BY <1>4, <1>5, <1>6
<1>8. Referenced_Value(d)' = NoAddr
  BY <1>7 DEF Referenced_Value
<1>9. \A j \in DOMAIN Source_Order : j # d => Referenced_Value(j)' = Referenced_Value(j)
  BY <1>7 DEF Referenced_Value
<1> QED BY <1>4, <1>8, <1>9

LEMMA ProtectEntryOrder ==
    ASSUME IInv, OrderInv, ProtectEntry
    PROVE  OrderInv'
<1> DEFINE n == protected + 1
           a == Referenced_Value(n)
<1>1. /\ phase = "protect" /\ protected < Len(Source_Order)
      /\ notes' = IF a = NoAddr THEN notes ELSE [notes EXCEPT ![a] = <<"order">> \o @]
      /\ protected' = n
      /\ UNCHANGED <<heap, made, Value_Info, params, value, Source_Order, dying, phase>>
  BY DEF ProtectEntry
<1>2. /\ TypeOK /\ protected \in Nat /\ n \in DOMAIN Source_Order
      /\ 1 .. n \subseteq DOMAIN Source_Order
  BY <1>1 DEF IInv, TypeOK
<1>3. PICK f \in [1 .. protected -> Nat] : Matching(f)
  BY <1>1 DEF OrderInv, EntriesAreNoted
<1>4. \A j : Referenced_Value(j)' = Referenced_Value(j)
  BY <1>1 DEF Referenced_Value
<1>5. a \in Addrs \cup {NoAddr} /\ (a # NoAddr => Lives(a))
  BY <1>1, <1>2, ReferencedType DEF IInv, GlobalsAreNoted, Refers
<1> DEFINE g == [j \in 1 .. n |-> IF j = n THEN 1
                                   ELSE IF Referenced_Value(j) = a THEN f[j] + 1 ELSE f[j]]
<1>6. g \in [1 .. n -> Nat]
  BY <1>2, <1>3
<1>7. ASSUME NEW j \in 1 .. n, Refers(j)
      PROVE  LET b == Referenced_Value(j)
             IN  Lives(b) /\ g[j] \in DOMAIN notes'[b] /\ notes'[b][g[j]] = "order"
  <2> DEFINE b == Referenced_Value(j)
  <2>1. b \in Addrs /\ notes[b] \in Seq(Kinds) /\ "order" \in Kinds
    BY <1>2, <1>7, ReferencedType DEF TypeOK, Refers, Kinds
  <2>2. CASE j = n
    <3>1. a = b /\ a # NoAddr /\ g[j] = 1
      BY <1>2, <1>7, <2>2 DEF Refers
    <3>2. notes'[b] = <<"order">> \o notes[b]
      BY <1>1, <1>2, <2>1, <3>1 DEF TypeOK
    <3> QED BY <1>5, <2>1, <3>1, <3>2, Registered
  <2>3. CASE j # n
    <3>1. j \in 1 .. protected
      BY <1>2, <2>3
    <3>2. Lives(b) /\ f[j] \in DOMAIN notes[b] /\ notes[b][f[j]] = "order"
      BY <1>3, <1>7, <3>1 DEF Matching
    <3>3. CASE b = a
      <4>1. notes'[b] = <<"order">> \o notes[b] /\ g[j] = f[j] + 1
        BY <1>1, <1>2, <1>7, <2>1, <2>3, <3>3 DEF TypeOK, Refers
      <4> QED BY <2>1, <3>2, <4>1, Registered
    <3>4. CASE b # a
      <4>1. notes'[b] = notes[b] /\ g[j] = f[j]
        BY <1>1, <1>2, <1>5, <2>1, <2>3, <3>4 DEF TypeOK
      <4> QED BY <3>2, <4>1
    <3> QED BY <3>3, <3>4
  <2> QED BY <2>2, <2>3
<1>8. ASSUME NEW j \in 1 .. n, NEW k \in 1 .. n, Refers(j),
             Referenced_Value(j) = Referenced_Value(k), g[j] = g[k]
      PROVE  j = k
  <2>1. \A i \in 1 .. n : i # n => /\ i \in 1 .. protected /\ (Refers(i) => f[i] >= 1)
                                   /\ f[i] \in Nat
    <3> SUFFICES ASSUME NEW i \in 1 .. n, i # n
                 PROVE  i \in 1 .. protected /\ f[i] \in Nat /\ (Refers(i) => f[i] >= 1)
      OBVIOUS
    <3>1. i \in 1 .. protected /\ f[i] \in Nat
      BY <1>2, <1>3
    <3>2. ASSUME Refers(i) PROVE f[i] >= 1
      <4>1. f[i] \in DOMAIN notes[Referenced_Value(i)] /\ Referenced_Value(i) \in Addrs
        BY <1>2, <1>3, <3>1, <3>2, ReferencedType DEF Matching, Refers
      <4>2. DOMAIN notes[Referenced_Value(i)] \subseteq Nat \ {0}
        BY <1>2, <4>1, SMTT(40) DEF TypeOK
      <4> QED BY <4>1, <4>2
    <3> QED BY <3>1, <3>2
  <2>2. Refers(k)
    BY <1>8 DEF Refers
  <2>3. CASE j = n /\ k # n
    BY <1>8, <2>1, <2>2, <2>3
  <2>4. CASE j # n /\ k = n
    BY <1>8, <2>1, <2>2, <2>4
  <2>5. CASE j # n /\ k # n
    <3>1. f[j] = f[k]
      BY <1>8, <2>1, <2>5
    <3> QED BY <1>3, <1>8, <2>1, <2>5, <3>1 DEF Matching
  <2> QED BY <2>3, <2>4, <2>5
<1> HIDE DEF g
<1>9. PICK h \in [1 .. n -> Nat] : h = g
  BY <1>6
<1>10. Matching(h)'
  <2>1. ASSUME NEW j \in 1 .. n, Refers(j)'
        PROVE  (LET b == Referenced_Value(j)
                IN  Lives(b) /\ h[j] \in DOMAIN notes[b] /\ notes[b][h[j]] = "order")'
    BY <1>1, <1>4, <1>7, <1>9, <2>1 DEF Refers, Lives
  <2>2. ASSUME NEW j \in 1 .. n, NEW k \in 1 .. n, Refers(j)',
               Referenced_Value(j)' = Referenced_Value(k)', h[j] = h[k]
        PROVE  j = k
    BY <1>4, <1>8, <1>9, <2>2 DEF Refers
  <2> QED BY <1>1, <2>1, <2>2 DEF Matching
<1>11. ProtectedInTurn'
  BY <1>1 DEF ProtectedInTurn
<1> QED BY <1>1, <1>10, <1>11 DEF OrderInv, EntriesAreNoted

LEMMA OrderCallbackOrder ==
    ASSUME IInv, OrderInv, OrderCallback
    PROVE  OrderInv'
<1>1. /\ ~Idle /\ notes[dying] # <<>> /\ Head(notes[dying]) = "order"
      /\ Delete_From_Source_Order(dying)
      /\ notes' = [notes EXCEPT ![dying] = Tail(@)]
      /\ UNCHANGED <<heap, made, Value_Info, params, value, protected, dying, phase>>
  BY DEF OrderCallback
<1>2. /\ TypeOK /\ dying \in Addrs /\ notes[dying] \in Seq(Kinds)
      /\ DOMAIN Source_Order = 1 .. Len(Source_Order) /\ 1 .. protected \subseteq DOMAIN Source_Order
      /\ protected \in Nat
  BY <1>1 DEF IInv, TypeOK, Idle, Kinds
<1>3. Len(Source_Order') = Len(Source_Order) /\ Source_Order' \in Seq(Globals \cup {NoEntity})
  BY <1>1, <1>2, EntryDeleted
<1>4. ProtectedInTurn'
  BY <1>1, <1>3 DEF OrderInv, ProtectedInTurn
<1>5. SUFFICES ASSUME phase # "emit" PROVE EntriesAreNoted'
  BY <1>1, <1>4 DEF OrderInv, EntriesAreNoted
<1>6. PICK f \in [1 .. protected -> Nat] : Matching(f)
  BY <1>5 DEF OrderInv, EntriesAreNoted
<1>7. protected = Len(Source_Order)
  BY <1>1, <1>5 DEF IInv, DyingLives, OrderInv, ProtectedInTurn, TypeOK
<1>8. CASE \A i \in DOMAIN Source_Order : Referenced_Value(i) # dying
  <2>1. Source_Order' = Source_Order
    BY <1>1, <1>8 DEF Delete_From_Source_Order
  <2>2. \A j : Referenced_Value(j)' = Referenced_Value(j)
    BY <1>1, <2>1 DEF Referenced_Value
  <2>3. \A j \in 1 .. protected : Refers(j) => notes'[Referenced_Value(j)] = notes[Referenced_Value(j)]
    BY <1>1, <1>2, <1>8, ReferencedType DEF TypeOK, Refers
  <2>4. Matching(f)'
    BY <1>1, <1>6, <2>2, <2>3 DEF Matching, Refers, Lives
  <2> QED BY <1>1, <1>6, <2>4 DEF EntriesAreNoted
<1>9. CASE \E i \in DOMAIN Source_Order : Referenced_Value(i) = dying
  <2>1. PICK d \in DOMAIN Source_Order :
              /\ Referenced_Value(d) = dying
              /\ Referenced_Value(d)' = NoAddr
              /\ \A j \in DOMAIN Source_Order : j # d => Referenced_Value(j)' = Referenced_Value(j)
    BY <1>1, <1>2, <1>9, FirstDeleted
  <2> DEFINE g == [j \in 1 .. protected |->
                     IF Referenced_Value(j) # dying THEN f[j]
                     ELSE IF f[j] = 1 THEN f[d] - 1 ELSE f[j] - 1]
  <2>2. \A j \in 1 .. protected : Referenced_Value(j) = dying =>
           /\ f[j] \in Nat \ {0} /\ f[j] \in DOMAIN notes[dying]
           /\ notes[dying][f[j]] = "order"
    <3>1. SUFFICES ASSUME NEW j \in 1 .. protected, Referenced_Value(j) = dying
                   PROVE  /\ f[j] \in Nat \ {0} /\ f[j] \in DOMAIN notes[dying]
                          /\ notes[dying][f[j]] = "order"
      OBVIOUS
    <3>2. f[j] \in DOMAIN notes[dying] /\ notes[dying][f[j]] = "order"
      BY <1>2, <1>6, <3>1, ConstantsAssumption DEF Matching, Refers
    <3>3. DOMAIN notes[dying] = 1 .. Len(notes[dying])
      BY <1>2
    <3> QED BY <3>2, <3>3
  <2>3. d \in 1 .. protected
    BY <1>2, <1>7, <2>1
  <2>4. g \in [1 .. protected -> Nat]
    BY <1>6, <2>1, <2>2, <2>3
  <2>5. PICK h \in [1 .. protected -> Nat] : h = g
    BY <2>4
  <2>6. \A j \in 1 .. protected : h[j] = IF Referenced_Value(j) # dying THEN f[j]
                                         ELSE IF f[j] = 1 THEN f[d] - 1 ELSE f[j] - 1
    BY <2>5
  <2> HIDE DEF g
  <2>7. \A i \in DOMAIN notes[dying] : i # 1 =>
           i - 1 \in DOMAIN notes'[dying] /\ notes'[dying][i - 1] = notes[dying][i]
    BY <1>1, <1>2, HasRun DEF TypeOK
  <2>8. \A j, k \in 1 .. protected : Referenced_Value(j) = dying /\ Referenced_Value(k) = dying
                                      /\ f[j] = f[k] => j = k
    BY <1>2, <1>6, ConstantsAssumption DEF Matching, Refers
  <2>9. ASSUME NEW j \in 1 .. protected, Refers(j)'
        PROVE  /\ j # d /\ Refers(j) /\ Referenced_Value(j)' = Referenced_Value(j)
               /\ (LET b == Referenced_Value(j)
                   IN  Lives(b) /\ h[j] \in DOMAIN notes[b] /\ notes[b][h[j]] = "order")'
    <3>1. j # d /\ Refers(j) /\ Referenced_Value(j)' = Referenced_Value(j)
      BY <1>2, <2>1, <2>9 DEF Refers
    <3>2. PICK b \in Addrs : b = Referenced_Value(j)
      BY <1>2, <3>1, ReferencedType DEF Refers
    <3>3. Lives(b) /\ f[j] \in DOMAIN notes[b] /\ notes[b][f[j]] = "order"
      BY <1>6, <3>1, <3>2 DEF Matching
    <3>4. Lives(b)' /\ h[j] \in DOMAIN notes'[b] /\ notes'[b][h[j]] = "order"
      <4>1. Lives(b)'
        BY <1>1, <3>3 DEF Lives
      <4>2. CASE b # dying
        BY <1>1, <1>2, <2>6, <3>2, <3>3, <4>1, <4>2 DEF TypeOK
      <4>3. CASE b = dying
        <5>1. CASE f[j] # 1
          BY <2>6, <2>7, <3>2, <3>3, <4>1, <4>3, <5>1, ZenonT(40)
        <5>2. CASE f[j] = 1
          <6>1. f[d] # 1
            BY <2>1, <2>3, <2>8, <3>1, <3>2, <4>3, <5>2
          <6>2. h[j] = f[d] - 1
            BY <2>6, <3>2, <4>3, <5>2
          <6>3. f[d] \in DOMAIN notes[dying] /\ notes[dying][f[d]] = "order"
            BY <2>1, <2>2, <2>3
          <6> QED BY <2>7, <4>1, <4>3, <6>1, <6>2, <6>3
        <5> QED BY <5>1, <5>2
      <4> QED BY <4>2, <4>3
    <3> QED BY <3>1, <3>2, <3>4
  <2>10. ASSUME NEW j \in 1 .. protected, NEW k \in 1 .. protected, Refers(j)',
                Referenced_Value(j)' = Referenced_Value(k)', h[j] = h[k]
         PROVE  j = k
    <3>1. /\ j # d /\ Refers(j) /\ Referenced_Value(j)' = Referenced_Value(j)
          /\ k # d /\ Refers(k) /\ Referenced_Value(k)' = Referenced_Value(k)
      BY <2>9, <2>10 DEF Refers
    <3>2. Referenced_Value(j) = Referenced_Value(k)
      BY <2>10, <3>1
    <3>3. f[j] \in Nat /\ f[k] \in Nat /\ f[d] \in Nat
      BY <1>6, <2>3
    <3>4. CASE Referenced_Value(j) # dying
      <4>1. f[j] = f[k]
        BY <2>6, <2>10, <3>2, <3>4
      <4> QED BY <1>6, <3>1, <3>2, <4>1 DEF Matching
    <3>5. CASE Referenced_Value(j) = dying
      <4>1. f[j] # f[d] /\ f[k] # f[d]
        BY <2>1, <2>3, <2>8, <3>1, <3>2, <3>5
      <4>2. /\ h[j] = IF f[j] = 1 THEN f[d] - 1 ELSE f[j] - 1
            /\ h[k] = IF f[k] = 1 THEN f[d] - 1 ELSE f[k] - 1
        BY <2>6, <3>2, <3>5
      <4>3. f[j] = f[k]
        <5>1. h[j] = h[k]
          BY <2>10
        <5>2. CASE f[j] = 1 /\ f[k] = 1
          BY <5>2
        <5>3. CASE f[j] = 1 /\ f[k] # 1
          BY <3>3, <4>1, <4>2, <5>1, <5>3
        <5>4. CASE f[j] # 1 /\ f[k] = 1
          BY <3>3, <4>1, <4>2, <5>1, <5>4
        <5>5. CASE f[j] # 1 /\ f[k] # 1
          BY <3>3, <4>2, <5>1, <5>5
        <5> QED BY <5>2, <5>3, <5>4, <5>5
      <4> QED BY <2>8, <3>2, <3>5, <4>3
    <3> QED BY <3>4, <3>5
  <2>11. Matching(h)'
    BY <1>1, <2>9, <2>10 DEF Matching
  <2> QED BY <1>1, <2>11 DEF EntriesAreNoted
<1> QED BY <1>8, <1>9

\* Delete_Value_Info may take the value of an entry, and runs a callback that
\* stands for no entry.
LEMMA InfoCallbackOrder ==
    ASSUME IInv, OrderInv, InfoCallback
    PROVE  OrderInv'
<1> DEFINE e == Value_Info[dying].entity
<1>1. /\ ~Idle /\ notes[dying] # <<>> /\ Head(notes[dying]) = "info"
      /\ value' = IF e = NoEntity THEN value ELSE [value EXCEPT ![e] = NoAddr]
      /\ notes' = [notes EXCEPT ![dying] = Tail(@)]
      /\ UNCHANGED <<heap, made, Source_Order, protected, dying, phase>>
  BY DEF InfoCallback
<1>2. /\ TypeOK /\ dying \in Addrs /\ notes[dying] \in Seq(Kinds)
      /\ 1 .. protected \subseteq DOMAIN Source_Order /\ e \in Entities \cup {NoEntity}
  BY <1>1 DEF IInv, TypeOK, Idle, Kinds
<1> HIDE DEF e
<1>3. ProtectedInTurn'
  BY <1>1 DEF OrderInv, ProtectedInTurn
<1>4. SUFFICES ASSUME phase # "emit" PROVE EntriesAreNoted'
  BY <1>1, <1>3 DEF OrderInv, EntriesAreNoted
<1>5. PICK f \in [1 .. protected -> Nat] : Matching(f)
  BY <1>4 DEF OrderInv, EntriesAreNoted
<1>6. ASSUME NEW j \in 1 .. protected, Refers(j)'
      PROVE  Refers(j) /\ Referenced_Value(j)' = Referenced_Value(j)
  <2>1. Source_Order[j] \in Globals \cup {NoEntity}
    BY <1>2 DEF TypeOK
  <2>2. Source_Order[j] # NoEntity /\ Source_Order[j] \in Entities
    BY <1>1, <1>6, <2>1 DEF Refers, Referenced_Value, Entities
  <2>3. value'[Source_Order[j]] # NoAddr
    BY <1>1, <1>6, <2>2 DEF Refers, Referenced_Value
  <2>4. value'[Source_Order[j]] = value[Source_Order[j]]
    BY <1>1, <1>2, <2>2, <2>3 DEF TypeOK
  <2> QED BY <1>1, <2>2, <2>3, <2>4 DEF Refers, Referenced_Value
<1> DEFINE g == [j \in 1 .. protected |->
                   IF Referenced_Value(j) = dying /\ f[j] # 0 THEN f[j] - 1 ELSE f[j]]
<1>7. g \in [1 .. protected -> Nat]
  BY <1>5
<1>8. PICK h \in [1 .. protected -> Nat] : h = g
  BY <1>7
<1>9. \A j \in 1 .. protected :
         h[j] = IF Referenced_Value(j) = dying /\ f[j] # 0 THEN f[j] - 1 ELSE f[j]
  BY <1>8
<1> HIDE DEF g
<1>10. \A i \in DOMAIN notes[dying] : i # 1 =>
          i - 1 \in DOMAIN notes'[dying] /\ notes'[dying][i - 1] = notes[dying][i]
  BY <1>1, <1>2, HasRun DEF TypeOK
<1>11. 0 \notin DOMAIN notes[dying] /\ notes[dying][1] = "info"
  BY <1>1, <1>2, HasRun
<1>12. ASSUME NEW j \in 1 .. protected, Refers(j)'
       PROVE  (LET b == Referenced_Value(j)
               IN  Lives(b) /\ h[j] \in DOMAIN notes[b] /\ notes[b][h[j]] = "order")'
  <2>1. Refers(j) /\ Referenced_Value(j)' = Referenced_Value(j)
    BY <1>6, <1>12
  <2>2. PICK b \in Addrs : b = Referenced_Value(j)
    BY <1>2, <2>1, ReferencedType DEF Refers
  <2>3. Lives(b) /\ f[j] \in DOMAIN notes[b] /\ notes[b][f[j]] = "order"
    BY <1>5, <2>1, <2>2 DEF Matching
  <2>4. Lives(b)'
    BY <1>1, <2>3 DEF Lives
  <2>5. CASE b # dying
    <3>1. notes'[b] = notes[b] /\ h[j] = f[j]
      BY <1>1, <1>2, <1>9, <2>2, <2>5 DEF TypeOK
    <3> QED BY <2>1, <2>2, <2>3, <2>4, <3>1
  <2>6. CASE b = dying
    <3>1. f[j] # 0 /\ f[j] # 1
      BY <1>11, <2>3, <2>6
    <3>2. h[j] = f[j] - 1
      BY <1>9, <2>2, <2>6, <3>1
    <3> QED BY <1>10, <2>1, <2>2, <2>3, <2>4, <2>6, <3>1, <3>2
  <2> QED BY <2>5, <2>6
<1>13. ASSUME NEW j \in 1 .. protected, NEW k \in 1 .. protected, Refers(j)',
              Referenced_Value(j)' = Referenced_Value(k)', h[j] = h[k]
       PROVE  j = k
  <2>1. /\ Refers(j) /\ Referenced_Value(j)' = Referenced_Value(j)
        /\ Refers(k) /\ Referenced_Value(k)' = Referenced_Value(k)
    BY <1>6, <1>13 DEF Refers
  <2>2. Referenced_Value(j) = Referenced_Value(k)
    BY <1>13, <2>1
  <2>3. f[j] \in Nat /\ f[k] \in Nat
    BY <1>5
  <2>4. Referenced_Value(j) = dying => f[j] # 0 /\ f[k] # 0
    BY <1>5, <1>11, <2>1, <2>2 DEF Matching
  <2>5. f[j] = f[k]
    <3>1. CASE Referenced_Value(j) = dying
      <4>1. h[j] = f[j] - 1 /\ h[k] = f[k] - 1 /\ h[j] = h[k]
        BY <1>9, <1>13, <2>2, <2>4, <3>1
      <4> QED BY <2>3, <4>1
    <3>2. CASE Referenced_Value(j) # dying
      BY <1>9, <1>13, <2>2, <3>2
    <3> QED BY <3>1, <3>2
  <2> QED BY <1>5, <2>1, <2>2, <2>5 DEF Matching
<1>14. Matching(h)'
  BY <1>1, <1>12, <1>13 DEF Matching
<1> QED BY <1>1, <1>14 DEF EntriesAreNoted

\* The address of a deleted value is free when no entry refers to it.
LEMMA EndDeleteOrder ==
    ASSUME IInv, OrderInv, EndDelete
    PROVE  OrderInv'
<1>1. /\ ~Idle /\ notes[dying] = <<>>
      /\ heap' = [heap EXCEPT ![dying] = NoLife]
      /\ UNCHANGED <<made, notes, Value_Info, params, value, Source_Order, protected, phase>>
  BY DEF EndDelete
<1>2. TypeOK /\ dying \in Addrs /\ 1 .. protected \subseteq DOMAIN Source_Order
  BY <1>1 DEF IInv, TypeOK, Idle
<1>3. ProtectedInTurn' /\ (phase = "emit" => EntriesAreNoted')
  BY <1>1 DEF OrderInv, ProtectedInTurn, EntriesAreNoted
<1>4. SUFFICES ASSUME NEW f \in [1 .. protected -> Nat], Matching(f)
               PROVE  Matching(f)'
  BY <1>1, <1>3 DEF OrderInv, EntriesAreNoted
<1>5. \A j \in 1 .. protected : Refers(j) => Referenced_Value(j) # dying /\ Referenced_Value(j) \in Addrs
  BY <1>1, <1>2, <1>4, ReferencedType DEF Matching, Refers
<1>6. \A j : Referenced_Value(j)' = Referenced_Value(j)
  BY <1>1 DEF Referenced_Value
<1>7. \A a \in Addrs : a # dying => heap'[a] = heap[a]
  BY <1>1, <1>2 DEF TypeOK
<1> QED BY <1>1, <1>4, <1>5, <1>6, <1>7 DEF Matching, Refers, Lives

LEMMA OptimizerOrder ==
    ASSUME IInv, OrderInv, NEW a \in Addrs,
           BeginDelete(a) \/ \E fn \in BOOLEAN : OptimizerMakes(a, fn)
    PROVE  OrderInv'
<1>1. /\ \A b \in Addrs : Lives(b) => Lives(b)'
      /\ UNCHANGED <<notes, value, Source_Order, protected, phase>>
  <2>1. CASE BeginDelete(a)
    BY <2>1 DEF BeginDelete, Lives
  <2>2. ASSUME NEW fn \in BOOLEAN, OptimizerMakes(a, fn)
        PROVE  /\ \A b \in Addrs : Lives(b) => Lives(b)'
               /\ UNCHANGED <<notes, value, Source_Order, protected, phase>>
    BY <2>2 DEF OptimizerMakes, CanMake, NewLife, Lives, IInv, TypeOK
  <2> QED BY <2>1, <2>2
<1>2. ProtectedInTurn' /\ (phase = "emit" => EntriesAreNoted')
  BY <1>1 DEF OrderInv, ProtectedInTurn, EntriesAreNoted
<1>3. SUFFICES ASSUME NEW f \in [1 .. protected -> Nat], Matching(f)
               PROVE  Matching(f)'
  BY <1>1, <1>2 DEF OrderInv, EntriesAreNoted
<1>4. \A j : Referenced_Value(j)' = Referenced_Value(j)
  BY <1>1 DEF Referenced_Value
<1>5. 1 .. protected \subseteq DOMAIN Source_Order
  BY DEF IInv, TypeOK
<1>6. \A j \in 1 .. protected : Refers(j) => Referenced_Value(j) \in Addrs
  BY <1>5, ReferencedType DEF Refers, IInv
<1> QED BY <1>1, <1>3, <1>4, <1>6 DEF Matching, Refers

LEMMA NextOrderInv == IInv /\ OrderInv /\ [Next]_vars => OrderInv'
<1> SUFFICES ASSUME IInv, OrderInv, [Next]_vars PROVE OrderInv'
  OBVIOUS
<1>1. ASSUME phase = "emit", UNCHANGED <<protected, phase>>
      PROVE  OrderInv'
  BY <1>1 DEF OrderInv, EntriesAreNoted, ProtectedInTurn
<1>2. CASE EndEmission
  <2>1. /\ protected = 0 /\ phase' = "protect" /\ UNCHANGED <<notes, heap, value, Source_Order, protected>>
    BY <1>2 DEF EndEmission, OrderInv, ProtectedInTurn
  <2>2. [j \in 1 .. 0 |-> 0] \in [1 .. protected' -> Nat] /\ 1 .. protected' = {}
    BY <2>1
  <2>3. Matching([j \in 1 .. 0 |-> 0])'
    BY <2>2 DEF Matching
  <2> QED BY <2>1, <2>2, <2>3 DEF OrderInv, EntriesAreNoted, ProtectedInTurn
<1>3. CASE EndProtect
  <2>1. \A f : Matching(f)' <=> Matching(f)
    BY <1>3 DEF EndProtect, Matching, Refers, Referenced_Value, Lives
  <2> QED BY <1>3, <2>1 DEF EndProtect, OrderInv, EntriesAreNoted, ProtectedInTurn
<1>4. CASE UNCHANGED vars
  <2>1. \A f : Matching(f)' <=> Matching(f)
    BY <1>4 DEF vars, Matching, Refers, Referenced_Value, Lives
  <2> QED BY <1>4, <2>1 DEF vars, OrderInv, EntriesAreNoted, ProtectedInTurn
<1>5. CASE FrontEnd
  <2>1. ASSUME NEW e \in Globals, NEW a \in Addrs, NEW fn \in BOOLEAN, NEW discrete \in BOOLEAN,
               CreateGlobal(e, a, fn, discrete)
        PROVE  OrderInv'
    <3>1. phase = "emit" /\ UNCHANGED <<protected, phase>>
      BY <2>1 DEF CreateGlobal
    <3> QED BY <1>1, <3>1
  <2>2. ASSUME NEW e \in Globals, NEW d \in Globals, ShareGlobal(e, d)
        PROVE  OrderInv'
    <3>1. phase = "emit" /\ UNCHANGED <<protected, phase>>
      BY <2>2 DEF ShareGlobal
    <3> QED BY <1>1, <3>1
  <2>3. ASSUME NEW e \in Globals, AddressTaken(e) \/ AddToSourceOrder(e)
        PROVE  OrderInv'
    <3>1. phase = "emit" /\ UNCHANGED <<protected, phase>>
      BY <2>3 DEF AddressTaken, AddToSourceOrder
    <3> QED BY <1>1, <3>1
  <2>4. ASSUME NEW a \in Addrs, NEW discrete \in BOOLEAN, CreateLocal(a, discrete)
        PROVE  OrderInv'
    <3>1. phase = "emit" /\ UNCHANGED <<protected, phase>>
      BY <2>4 DEF CreateLocal
    <3> QED BY <1>1, <3>1
  <2>5. ASSUME NEW a \in Addrs, NEW e \in Locals, NameLocal(e, a)
        PROVE  OrderInv'
    <3>1. phase = "emit" /\ UNCHANGED <<protected, phase>>
      BY <2>5 DEF NameLocal
    <3> QED BY <1>1, <3>1
  <2> QED BY <1>2, <1>3, <1>5, <2>1, <2>2, <2>3, <2>4, <2>5, ProtectEntryOrder DEF FrontEnd
<1>6. CASE LLVM
  BY <1>6, OptimizerOrder DEF LLVM
<1>7. CASE Callbacks
  BY <1>7, OrderCallbackOrder, InfoCallbackOrder, EndDeleteOrder DEF Callbacks
<1> QED BY <1>4, <1>5, <1>6, <1>7 DEF Next

\* For any number of entries that share a value, and whatever else was
\* registered for it, Delete_From_Source_Order runs once for each of them:
\* no entry of the source order refers to a value that is gone.
THEOREM OrderAlwaysRefersToLiving == Spec => []OrderRefersToLiving
<1>1. Init => OrderInv
  BY DEF Init, OrderInv, EntriesAreNoted, ProtectedInTurn
<1>2. Spec => []OrderInv
  BY <1>1, InitIInv, NextIInv, NextOrderInv, PTL DEF Spec
<1>3. IInv /\ OrderInv => OrderRefersToLiving
  <2> SUFFICES ASSUME IInv, OrderInv, phase = "optimize", NEW j \in DOMAIN Source_Order,
                      Referenced_Value(j) # NoAddr
               PROVE  Lives(Referenced_Value(j))
    BY DEF OrderRefersToLiving
  <2>1. PICK f \in [1 .. protected -> Nat] : Matching(f)
    BY DEF OrderInv, EntriesAreNoted
  <2>2. j \in 1 .. protected
    BY DEF OrderInv, ProtectedInTurn, IInv, TypeOK
  <2> QED BY <2>1, <2>2 DEF Matching, Refers
<1> QED BY <1>2, <1>3, AlwaysIInv, PTL

-----------------------------------------------------------------------------
(* What the abstract specification sees                                    *)

\* Values that live differ.
IdsDiffer ==
    \A a, b \in Addrs : Lives(a) /\ Lives(b) /\ heap[a].id = heap[b].id => a = b

\* The entity that the information of a value names, if it is global, has this
\* value: Delete_Value_Info takes the value of no other.
EntityHasValue ==
    \A a \in Addrs, g \in Globals : Value_Info[a].entity = g => value[g] = a

ViewInv == IdsDiffer /\ EntityHasValue

LEMMA LiveAddr ==
    ASSUME IInv, NEW a \in LiveAddrs
    PROVE  a \in Addrs /\ Lives(a) /\ a # dying /\ heap[a].id \in 1 .. made
<1>1. heap \in [Addrs -> [id : 0 .. made, fn : BOOLEAN]] /\ made \in Nat
  BY ConstantsAssumption DEF IInv, TypeOK
<1> QED BY <1>1 DEF LiveAddrs, Lives

\* What is known of a value that lives, and of the others.
LEMMA KnownOfLive ==
    ASSUME IInv, IdsDiffer, NEW a \in LiveAddrs
    PROVE  /\ AddrOf(heap[a].id) = {a}
           /\ Known[heap[a].id] = Value_Info[a].entity
<1>1. AddrOf(heap[a].id) = {a}
  BY LiveAddr DEF AddrOf, IdsDiffer
<1>2. (CHOOSE b \in {a} : TRUE) = a
  OBVIOUS
<1> QED BY <1>1, <1>2, LiveAddr DEF Known, KnownOf

LEMMA SameKnownOf ==
    ASSUME NEW v, AddrOf(v)' = AddrOf(v),
           \A a \in AddrOf(v) : Value_Info'[a].entity = Value_Info[a].entity
    PROVE  KnownOf(v)' = KnownOf(v)
<1>1. CASE AddrOf(v) = {}
  BY <1>1 DEF KnownOf
<1>2. CASE AddrOf(v) # {}
  <2>1. (CHOOSE a \in AddrOf(v) : TRUE) \in AddrOf(v)
    BY <1>2
  <2> QED BY <1>2, <2>1 DEF KnownOf
<1> QED BY <1>1, <1>2

LEMMA OneKnownOf ==
    ASSUME NEW v, NEW a, AddrOf(v)' = {a}
    PROVE  KnownOf(v)' = Value_Info'[a].entity
<1>1. (CHOOSE b \in {a} : TRUE) = a
  OBVIOUS
<1> QED BY <1>1 DEF KnownOf

\* Nothing changes for the abstract specification as long as the same values live
\* and the same is told of them.
LEMMA SameView ==
    ASSUME LiveAddrs' = LiveAddrs, made' = made,
           \A a \in LiveAddrs : heap'[a].id = heap[a].id /\ Value_Info'[a].entity = Value_Info[a].entity
    PROVE  Alive' = Alive /\ Known' = Known
<1>1. Alive' = Alive
  BY DEF Alive
<1>2. ASSUME NEW v
      PROVE  KnownOf(v)' = KnownOf(v)
  <2>1. AddrOf(v)' = AddrOf(v) /\ AddrOf(v) \subseteq LiveAddrs
    BY DEF AddrOf
  <2> QED BY <2>1, SameKnownOf
<1> QED BY <1>1, <1>2 DEF Known

\* LLVM puts a new value at an address.
LEMMA MadeView ==
    ASSUME IInv, IdsDiffer, NEW a \in Addrs, Idle, ~Lives(a), NEW fn \in BOOLEAN, NewLife(a, fn),
           dying' = dying,
           \A b \in Addrs : b # a => Value_Info'[b].entity = Value_Info[b].entity
    PROVE  /\ made + 1 \notin Alive /\ made \in Nat
           /\ heap'[a].id = made + 1 /\ \A b \in Addrs : b # a => heap'[b] = heap[b]
           /\ a \notin LiveAddrs /\ LiveAddrs' = LiveAddrs \cup {a}
           /\ Alive' = Alive \cup {made + 1}
           /\ Known' = Append(Known, Value_Info'[a].entity)
           /\ IdsDiffer'
<1>1. /\ heap \in [Addrs -> [id : 0 .. made, fn : BOOLEAN]] /\ made \in Nat
      /\ heap' = [heap EXCEPT ![a] = [id |-> made + 1, fn |-> fn]] /\ made' = made + 1
      /\ dying = NoAddr /\ dying' = NoAddr /\ NoAddr \notin Addrs
  BY ConstantsAssumption DEF IInv, TypeOK, NewLife, Idle
<1>2. heap'[a].id = made + 1 /\ \A b \in Addrs : b # a => heap'[b] = heap[b]
  BY <1>1
<1>3. a \notin LiveAddrs /\ LiveAddrs' = LiveAddrs \cup {a}
  BY <1>1, <1>2 DEF LiveAddrs, Lives
<1>4. \A b \in LiveAddrs : b \in Addrs /\ b # a /\ heap[b].id \in 1 .. made
  BY <1>3, LiveAddr
<1>5. Alive' = Alive \cup {made + 1} /\ made + 1 \notin Alive
  BY <1>1, <1>2, <1>3, <1>4 DEF Alive
<1>6. IdsDiffer'
  BY <1>1, <1>2 DEF IdsDiffer, Lives
<1>7. ASSUME NEW v \in 1 .. made
      PROVE  KnownOf(v)' = KnownOf(v)
  <2>1. AddrOf(v)' = AddrOf(v) /\ \A b \in AddrOf(v) : b \in Addrs /\ b # a
    BY <1>1, <1>2, <1>3, <1>4 DEF AddrOf
  <2> QED BY <2>1, SameKnownOf
<1>8. PICK n : n = made + 1
  OBVIOUS
<1>9. KnownOf(n)' = Value_Info'[a].entity
  <2>1. a \in LiveAddrs' /\ heap'[a].id = n
    BY <1>2, <1>3, <1>8
  <2>2. \A b \in LiveAddrs' : heap'[b].id = n => b = a
    BY <1>1, <1>2, <1>3, <1>4, <1>8
  <2>3. AddrOf(n)' = {a}
    BY <2>1, <2>2 DEF AddrOf
  <2> QED BY <2>3, OneKnownOf
<1>10. Known = [v \in 1 .. made |-> KnownOf(v)] /\ Known' = [v \in 1 .. n |-> KnownOf(v)']
  BY <1>1, <1>8 DEF Known
<1>11. Known' = [v \in 1 .. n |-> IF v = n THEN Value_Info'[a].entity ELSE KnownOf(v)]
  BY <1>1, <1>7, <1>8, <1>9, <1>10
<1>12. \A v \in 1 .. made : Known[v] = KnownOf(v)
  BY <1>10
<1>13. Known' = Append(Known, Value_Info'[a].entity)
  <2>1. Len(Known) = made
    BY <1>1, <1>10
  <2> QED BY ONLY <1>1, <1>8, <1>10, <1>11, <1>12, <2>1 DEF Append
<1> QED BY <1>1, <1>2, <1>3, <1>5, <1>6, <1>13

\* The front end tells what a value is.
LEMMA LearntView ==
    ASSUME IInv, IdsDiffer, NEW a \in LiveAddrs, UNCHANGED <<heap, made, dying>>,
           \A b \in Addrs : b # a => Value_Info'[b].entity = Value_Info[b].entity
    PROVE  /\ heap[a].id \in Alive /\ LiveAddrs' = LiveAddrs /\ Alive' = Alive
           /\ Known' = [Known EXCEPT ![heap[a].id] = Value_Info'[a].entity]
           /\ IdsDiffer'
<1>1. LiveAddrs' = LiveAddrs /\ IdsDiffer' /\ heap[a].id \in Alive /\ Alive' = Alive
  BY DEF LiveAddrs, Lives, IdsDiffer, Alive
<1>2. \A v : AddrOf(v)' = AddrOf(v)
  BY <1>1 DEF AddrOf
<1>3. AddrOf(heap[a].id) = {a} /\ heap[a].id \in 1 .. made
  BY KnownOfLive, LiveAddr
<1>4. ASSUME NEW v, v # heap[a].id
      PROVE  KnownOf(v)' = KnownOf(v)
  <2>1. \A b \in AddrOf(v) : b \in Addrs /\ b # a
    BY <1>4 DEF AddrOf, LiveAddrs
  <2> QED BY <1>2, <2>1, SameKnownOf
<1>5. KnownOf(heap[a].id)' = Value_Info'[a].entity
  <2>1. PICK v : v = heap[a].id
    OBVIOUS
  <2>2. heap'[a].id = v /\ AddrOf(v)' = {a}
    BY <1>2, <1>3, <2>1
  <2>3. KnownOf(v)' = Value_Info'[a].entity
    BY <2>2, OneKnownOf
  <2> QED BY <2>1, <2>2, <2>3
<1>6. Known = [v \in 1 .. made |-> KnownOf(v)] /\ Known' = [v \in 1 .. made |-> KnownOf(v)']
  BY DEF Known
<1> QED BY <1>1, <1>3, <1>4, <1>5, <1>6

\* The deletion of a value begins.
LEMMA DeletedView ==
    ASSUME IInv, IdsDiffer, NEW a \in Addrs, Lives(a), Idle, dying' = a,
           UNCHANGED <<heap, made, Value_Info>>
    PROVE  /\ a \in LiveAddrs /\ heap[a].id \in Alive /\ LiveAddrs' = LiveAddrs \ {a}
           /\ Alive' = Alive \ {heap[a].id}
           /\ Nested' = Nested \ {heap[a].id}
           /\ Known' = [Known EXCEPT ![heap[a].id] = NoEntity]
           /\ IdsDiffer'
<1>1. a \in LiveAddrs /\ LiveAddrs' = LiveAddrs \ {a} /\ IdsDiffer'
  BY ConstantsAssumption DEF LiveAddrs, Lives, IdsDiffer, Idle
<1>2. \A b \in LiveAddrs : b # a => heap[b].id # heap[a].id
  BY <1>1, LiveAddr DEF IdsDiffer
<1>3. heap[a].id \in Alive /\ Alive' = Alive \ {heap[a].id}
  BY <1>1, <1>2 DEF Alive
<1>4. Nested' = Nested \ {heap[a].id}
  BY <1>1, <1>2 DEF Nested
<1>5. ASSUME NEW v, v # heap[a].id
      PROVE  KnownOf(v)' = KnownOf(v)
  <2>1. AddrOf(v)' = AddrOf(v)
    BY <1>1, <1>5 DEF AddrOf
  <2> QED BY <2>1, SameKnownOf
<1>6. KnownOf(heap[a].id)' = NoEntity /\ heap[a].id \in 1 .. made
  BY <1>1, <1>2, LiveAddr DEF KnownOf, AddrOf
<1>7. Known = [v \in 1 .. made |-> KnownOf(v)] /\ Known' = [v \in 1 .. made |-> KnownOf(v)']
  BY DEF Known
<1> QED BY <1>1, <1>3, <1>4, <1>5, <1>6, <1>7

LEMMA EntityTold ==
    ASSUME NEW info \in Infos, NEW e
    PROVE  /\ WithEntity(info, e).entity = IF SetsEntity(info, e) THEN e ELSE info.entity
           /\ WithEntity(info, e).nest = info.nest
BY DEF WithEntity, Infos

\* The entries of J, about nothing so far, are now about v; the others are about
\* what they were.
LEMMA ReferencesBound ==
    ASSUME NEW J \in SUBSET DOMAIN Source_Order, NEW v, Source_Order' = Source_Order,
           \A j \in J : About(Referenced_Value(j)) = 0 /\ About(Referenced_Value(j))' = v,
           \A j \in DOMAIN Source_Order \ J :
              About(Referenced_Value(j))' = About(Referenced_Value(j))
    PROVE  J \in SUBSET Abstract!Unbound /\ References' = Abstract!Bound(J, v)
<1>1. J \in SUBSET Abstract!Unbound
  BY DEF Abstract!Unbound, References
<1>2. References' = [j \in DOMAIN Source_Order |-> About(Referenced_Value(j))']
  BY DEF References
<1>3. Abstract!Bound(J, v) =
        [j \in DOMAIN Source_Order |-> IF j \in J THEN v ELSE About(Referenced_Value(j))]
  BY DEF References, Abstract!Bound
<1> QED BY <1>1, <1>2, <1>3

LEMMA SameReferences ==
    ASSUME Source_Order' = Source_Order,
           \A j \in DOMAIN Source_Order : About(Referenced_Value(j))' = About(Referenced_Value(j))
    PROVE  References' = References /\ \A v : References' = Abstract!Bound({}, v)
BY DEF References, Abstract!Bound

\* Entries refer to global entities only.
LEMMA ReferencedGlobal ==
    ASSUME IInv, NEW j \in DOMAIN Source_Order
    PROVE  \/ Source_Order[j] = NoEntity /\ Referenced_Value(j) = NoAddr
           \/ /\ Source_Order[j] \in Globals /\ Source_Order[j] # NoEntity
              /\ Referenced_Value(j) = value[Source_Order[j]]
BY ConstantsAssumption DEF IInv, TypeOK, Referenced_Value, Entities

LEMMA CreateGlobalStep ==
    ASSUME IInv, ViewInv, NEW e \in Globals, NEW a \in Addrs, NEW fn \in BOOLEAN,
           NEW discrete \in BOOLEAN, CreateGlobal(e, a, fn, discrete)
    PROVE  Abstract!Make /\ ViewInv'
<1> DEFINE typed == IF discrete THEN WithEntity(Value_Info[a], AType) ELSE Value_Info[a]
           J == {j \in DOMAIN Source_Order : Source_Order[j] = e}
<1>1. /\ phase = "emit" /\ Idle /\ ~Lives(a) /\ value[e] = NoAddr
      /\ NewLife(a, fn)
      /\ value' = [value EXCEPT ![e] = a]
      /\ Value_Info' = [Value_Info EXCEPT ![a] = WithEntity(typed, e)]
      /\ UNCHANGED <<Source_Order, protected, dying, phase>>
  BY DEF CreateGlobal, CanMake
<1>2. /\ TypeOK /\ Value_Info[a] \in Infos /\ Value_Info[a] = NoInfo
      /\ e \in Entities /\ AType \in Entities /\ e # AType /\ e # NoEntity /\ AType # NoEntity
  BY <1>1, ConstantsAssumption DEF IInv, KnownIsNoted, TypeOK, Infos, Entities
<1>3. typed \in Infos /\ typed.entity \in {NoEntity, AType} /\ ~typed.nest
  <2>1. WithEntity(Value_Info[a], AType) \in Infos
    BY <1>2 DEF WithEntity, Infos
  <2>2. WithEntity(Value_Info[a], AType).entity = AType /\ ~WithEntity(Value_Info[a], AType).nest
    BY <1>2, EntityTold DEF SetsEntity, NoInfo
  <2> QED BY <1>2, <2>1, <2>2 DEF NoInfo
<1> HIDE DEF typed
<1>4. Value_Info'[a].entity = e /\ ~Value_Info'[a].nest
  BY <1>1, <1>2, <1>3, EntityTold DEF SetsEntity, TypeOK
<1>5. \A b \in Addrs : b # a => Value_Info'[b] = Value_Info[b]
  BY <1>1, <1>2 DEF TypeOK
<1>6. /\ made + 1 \notin Alive /\ made \in Nat
      /\ heap'[a].id = made + 1 /\ \A b \in Addrs : b # a => heap'[b] = heap[b]
      /\ a \notin LiveAddrs /\ LiveAddrs' = LiveAddrs \cup {a}
      /\ Alive' = Alive \cup {made + 1}
      /\ Known' = Append(Known, Value_Info'[a].entity)
      /\ IdsDiffer'
  BY <1>1, <1>5, MadeView DEF ViewInv
<1>7. Nested' = Nested
  BY <1>4, <1>5, <1>6, LiveAddr DEF Nested
<1>8. \A g \in Globals : value'[g] = IF g = e THEN a ELSE value[g]
  BY <1>1, <1>2 DEF TypeOK, Entities
<1>9. EntityHasValue'
  BY <1>1, <1>2, <1>4, <1>5, <1>8, ConstantsAssumption DEF ViewInv, EntityHasValue
<1>10. \A g \in Globals : value[g] # a
  BY <1>1, ConstantsAssumption DEF IInv, GlobalsAreNoted
<1>11. NoAddr \notin LiveAddrs
  BY ConstantsAssumption DEF LiveAddrs
<1>12. ASSUME NEW j \in J
       PROVE  About(Referenced_Value(j)) = 0 /\ About(Referenced_Value(j))' = made + 1
  <2>1. Source_Order[j] = e /\ Referenced_Value(j) = NoAddr /\ Referenced_Value(j)' = a
    BY <1>1, <1>2, <1>8 DEF Referenced_Value
  <2> QED BY <1>6, <1>11, <2>1 DEF About
<1>13. ASSUME NEW j \in DOMAIN Source_Order \ J
       PROVE  About(Referenced_Value(j))' = About(Referenced_Value(j))
  <2>1. Referenced_Value(j)' = Referenced_Value(j) /\ Referenced_Value(j) # a
    BY <1>1, <1>8, <1>10, ReferencedGlobal, ConstantsAssumption DEF Referenced_Value
  <2> QED BY <1>6, <2>1, LiveAddr DEF About
<1>14. J \in SUBSET Abstract!Unbound /\ References' = Abstract!Bound(J, made + 1)
  BY <1>1, <1>12, <1>13, ReferencesBound
<1>15. Telling /\ Telling' = Telling /\ made' = made + 1
  BY <1>1 DEF Telling, NewLife
<1> HIDE DEF J
<1> QED BY <1>2, <1>4, <1>6, <1>7, <1>9, <1>14, <1>15 DEF Abstract!Make, ViewInv

LEMMA CreateLocalStep ==
    ASSUME IInv, ViewInv, NEW a \in Addrs, NEW discrete \in BOOLEAN, CreateLocal(a, discrete)
    PROVE  Abstract!Make /\ ViewInv'
<1>1. /\ phase = "emit" /\ Idle /\ ~Lives(a) /\ NewLife(a, FALSE)
      /\ Value_Info' = IF discrete THEN [Value_Info EXCEPT ![a] = WithEntity(@, AType)] ELSE Value_Info
      /\ UNCHANGED <<params, value, Source_Order, protected, dying, phase>>
  BY DEF CreateLocal, CanMake
<1>2. /\ TypeOK /\ Value_Info[a] \in Infos /\ Value_Info[a] = NoInfo
      /\ AType \in Entities /\ AType \notin Globals
  BY <1>1, ConstantsAssumption DEF IInv, KnownIsNoted, TypeOK, Infos, Entities
<1>3. WithEntity(Value_Info[a], AType).entity = AType /\ ~WithEntity(Value_Info[a], AType).nest
  BY <1>2, EntityTold DEF SetsEntity, NoInfo
<1>4. Value_Info'[a].entity \in {AType, NoEntity} /\ ~Value_Info'[a].nest
  BY <1>1, <1>2, <1>3 DEF TypeOK, NoInfo
<1>5. \A b \in Addrs : b # a => Value_Info'[b] = Value_Info[b]
  BY <1>1, <1>2 DEF TypeOK
<1>6. /\ heap'[a].id = made + 1 /\ \A b \in Addrs : b # a => heap'[b] = heap[b]
      /\ a \notin LiveAddrs /\ LiveAddrs' = LiveAddrs \cup {a}
      /\ Alive' = Alive \cup {made + 1}
      /\ Known' = Append(Known, Value_Info'[a].entity)
      /\ IdsDiffer'
  BY <1>1, <1>5, MadeView DEF ViewInv
<1>7. Nested' = Nested
  BY <1>4, <1>5, <1>6, LiveAddr DEF Nested
<1>8. EntityHasValue'
  BY <1>1, <1>2, <1>4, <1>5, ConstantsAssumption DEF ViewInv, EntityHasValue, Entities
<1>9. \A g \in Globals : value[g] # a
  BY <1>1, ConstantsAssumption DEF IInv, GlobalsAreNoted
<1>10. ASSUME NEW j \in DOMAIN Source_Order
       PROVE  About(Referenced_Value(j))' = About(Referenced_Value(j))
  <2>1. Referenced_Value(j)' = Referenced_Value(j) /\ Referenced_Value(j) # a
    BY <1>1, <1>9, ReferencedGlobal, ConstantsAssumption DEF Referenced_Value
  <2> QED BY <1>6, <2>1, LiveAddr DEF About
<1>11. References' = References
  BY <1>1, <1>10, SameReferences
<1>12. Telling /\ Telling' = Telling /\ made' = made + 1
  BY <1>1 DEF Telling, NewLife
<1> QED BY <1>2, <1>4, <1>6, <1>7, <1>8, <1>11, <1>12 DEF Abstract!Make, ViewInv

\* The optimizer makes a value of which nothing is known, and to which no entry
\* of the source order refers.
LEMMA OptimizerMakesStep ==
    ASSUME IInv, OrderInv, ViewInv, NEW a \in Addrs, NEW fn \in BOOLEAN, OptimizerMakes(a, fn)
    PROVE  Abstract!Make /\ ViewInv'
<1>1. /\ phase = "optimize" /\ Idle /\ ~Lives(a) /\ NewLife(a, fn)
      /\ UNCHANGED <<notes, Value_Info, params, value, Source_Order, protected, dying, phase>>
  BY DEF OptimizerMakes, CanMake
<1>2. Value_Info[a] = NoInfo
  BY <1>1 DEF IInv, KnownIsNoted
<1>3. /\ heap'[a].id = made + 1 /\ \A b \in Addrs : b # a => heap'[b] = heap[b]
      /\ a \notin LiveAddrs /\ LiveAddrs' = LiveAddrs \cup {a}
      /\ Alive' = Alive \cup {made + 1}
      /\ Known' = Append(Known, Value_Info'[a].entity)
      /\ IdsDiffer'
  BY <1>1, MadeView DEF ViewInv
<1>4. Nested' = Nested
  BY <1>1, <1>2, <1>3, LiveAddr DEF Nested, NoInfo
<1>5. EntityHasValue'
  BY <1>1 DEF ViewInv, EntityHasValue
<1>6. ASSUME NEW j \in DOMAIN Source_Order
      PROVE  About(Referenced_Value(j))' = About(Referenced_Value(j))
  <2>1. PICK f \in [1 .. protected -> Nat] : Matching(f)
    BY <1>1 DEF OrderInv, EntriesAreNoted
  <2>2. j \in 1 .. protected
    BY <1>1 DEF OrderInv, ProtectedInTurn, IInv, TypeOK
  <2>3. Referenced_Value(j) # a
    BY <1>1, <2>1, <2>2, ConstantsAssumption DEF Matching, Refers
  <2>4. Referenced_Value(j)' = Referenced_Value(j)
    BY <1>1 DEF Referenced_Value
  <2> QED BY <1>3, <2>3, <2>4, LiveAddr DEF About
<1>7. References' = References
  BY <1>1, <1>6, SameReferences
<1>8. Telling' = Telling /\ made' = made + 1 /\ Value_Info'[a].entity = NoEntity
  BY <1>1, <1>2 DEF Telling, NewLife, NoInfo
<1> QED BY <1>3, <1>4, <1>5, <1>7, <1>8 DEF Abstract!Make, ViewInv

\* The front end begins to delete an instruction, or the optimizer any value.
LEMMA BeginDeleteStep ==
    ASSUME IInv, ViewInv, NEW a \in Addrs, BeginDelete(a)
    PROVE  (\E v \in Alive : Abstract!Delete(v)) /\ ViewInv'
<1>1. /\ Idle /\ Lives(a) /\ dying' = a
      /\ UNCHANGED <<heap, made, notes, Value_Info, params, value, Source_Order, protected, phase>>
  BY DEF BeginDelete
<1>2. /\ a \in LiveAddrs /\ heap[a].id \in Alive /\ LiveAddrs' = LiveAddrs \ {a}
      /\ Alive' = Alive \ {heap[a].id}
      /\ Nested' = Nested \ {heap[a].id}
      /\ Known' = [Known EXCEPT ![heap[a].id] = NoEntity]
      /\ IdsDiffer'
  BY <1>1, DeletedView DEF ViewInv
<1>3. EntityHasValue'
  BY <1>1 DEF ViewInv, EntityHasValue
<1>4. ASSUME NEW j
      PROVE  About(Referenced_Value(j))' =
               IF About(Referenced_Value(j)) = heap[a].id THEN 0 ELSE About(Referenced_Value(j))
  <2>1. Referenced_Value(j)' = Referenced_Value(j)
    BY <1>1 DEF Referenced_Value
  <2>2. heap[a].id # 0
    BY <1>1 DEF Lives
  <2>3. \A b \in LiveAddrs : heap[b].id = heap[a].id => b = a
    BY <1>1, LiveAddr DEF ViewInv, IdsDiffer
  <2> QED BY <1>1, <1>2, <2>1, <2>2, <2>3 DEF About
<1>5. References' = [j \in DOMAIN References |-> IF References[j] = heap[a].id THEN 0 ELSE References[j]]
  BY <1>1, <1>4 DEF References
<1>6. Telling' = Telling
  BY <1>1 DEF Telling
<1>7. Abstract!Delete(heap[a].id)
  BY <1>1, <1>2, <1>5, <1>6 DEF Abstract!Delete
<1> QED BY <1>2, <1>3, <1>7 DEF ViewInv

\* C_Set_Entity for a value that lives: what it adds to what is known.
LEMMA ToldView ==
    ASSUME IInv, IdsDiffer, NEW a \in LiveAddrs, NEW e \in Entities,
           Value_Info' = [Value_Info EXCEPT ![a] = WithEntity(@, e)],
           UNCHANGED <<heap, made, dying>>
    PROVE  /\ heap[a].id \in Alive /\ LiveAddrs' = LiveAddrs /\ Alive' = Alive
           /\ \/ Known' = Known
              \/ /\ Known[heap[a].id] = NoEntity \/ (Known[heap[a].id] = AType /\ e # AType)
                 /\ Known' = [Known EXCEPT ![heap[a].id] = e]
           /\ Nested' = Nested
           /\ Value_Info'[a].entity \in {e, Value_Info[a].entity}
           /\ \A b \in Addrs : b # a => Value_Info'[b] = Value_Info[b]
           /\ IdsDiffer'
<1>1. /\ Value_Info[a] \in Infos /\ Value_Info \in [Addrs -> Infos]
      /\ a \in Addrs /\ heap[a].id \in 1 .. made
  BY LiveAddr DEF IInv, TypeOK, Infos
<1>2. /\ Value_Info'[a] = WithEntity(Value_Info[a], e)
      /\ \A b \in Addrs : b # a => Value_Info'[b] = Value_Info[b]
  BY <1>1
<1>3. /\ Value_Info'[a].entity = IF SetsEntity(Value_Info[a], e) THEN e ELSE Value_Info[a].entity
      /\ Value_Info'[a].nest = Value_Info[a].nest
  BY <1>1, <1>2, EntityTold
<1>4. /\ heap[a].id \in Alive /\ LiveAddrs' = LiveAddrs /\ Alive' = Alive
      /\ Known' = [Known EXCEPT ![heap[a].id] = Value_Info'[a].entity]
      /\ IdsDiffer'
  BY <1>2, LearntView
<1>5. Known[heap[a].id] = Value_Info[a].entity
  BY KnownOfLive
<1>6. Nested' = Nested
  BY <1>2, <1>3, <1>4, LiveAddr DEF Nested
<1>7. CASE SetsEntity(Value_Info[a], e)
  BY <1>2, <1>3, <1>4, <1>5, <1>6, <1>7 DEF SetsEntity
<1>8. CASE ~SetsEntity(Value_Info[a], e)
  <2>1. Known' = Known
    BY <1>1, <1>3, <1>4, <1>5, <1>8 DEF Known
  <2> QED BY <1>2, <1>3, <1>4, <1>6, <1>8, <2>1
<1> QED BY <1>7, <1>8

LEMMA ShareGlobalStep ==
    ASSUME IInv, ViewInv, NEW e \in Globals, NEW d \in Globals, ShareGlobal(e, d)
    PROVE  (\E v \in Alive : Abstract!Learn(v)) /\ ViewInv'
<1> DEFINE a == value[d]
           J == {j \in DOMAIN Source_Order : Source_Order[j] = e}
<1>1. /\ phase = "emit" /\ Idle /\ value[e] = NoAddr /\ a # NoAddr
      /\ value' = [value EXCEPT ![e] = a]
      /\ Value_Info' = [Value_Info EXCEPT ![a] = WithEntity(@, e)]
      /\ UNCHANGED <<heap, made, params, Source_Order, protected, dying, phase>>
  BY DEF ShareGlobal
<1>2. a \in LiveAddrs /\ a \in Addrs /\ e \in Entities /\ TypeOK /\ e # NoEntity
  BY <1>1, ConstantsAssumption DEF IInv, GlobalsAreNoted, TypeOK, Entities, LiveAddrs
<1> HIDE DEF a
<1>3. /\ heap[a].id \in Alive /\ LiveAddrs' = LiveAddrs /\ Alive' = Alive
      /\ \/ Known' = Known
         \/ /\ Known[heap[a].id] = NoEntity \/ (Known[heap[a].id] = AType /\ e # AType)
            /\ Known' = [Known EXCEPT ![heap[a].id] = e]
      /\ Nested' = Nested
      /\ Value_Info'[a].entity \in {e, Value_Info[a].entity}
      /\ \A b \in Addrs : b # a => Value_Info'[b] = Value_Info[b]
      /\ IdsDiffer'
  BY <1>1, <1>2, ToldView DEF ViewInv
<1>4. \A g \in Globals : value'[g] = IF g = e THEN a ELSE value[g]
  BY <1>1, <1>2 DEF TypeOK, Entities
<1>5. EntityHasValue'
  BY <1>1, <1>2, <1>3, <1>4, ConstantsAssumption DEF ViewInv, EntityHasValue
<1>6. NoAddr \notin LiveAddrs
  BY ConstantsAssumption DEF LiveAddrs
<1>7. ASSUME NEW j \in J
      PROVE  About(Referenced_Value(j)) = 0 /\ About(Referenced_Value(j))' = heap[a].id
  <2>1. Source_Order[j] = e /\ Referenced_Value(j) = NoAddr /\ Referenced_Value(j)' = a
    BY <1>1, <1>2, <1>4 DEF Referenced_Value
  <2> QED BY <1>1, <1>2, <1>3, <1>6, <2>1 DEF About
<1>8. ASSUME NEW j \in DOMAIN Source_Order \ J
      PROVE  About(Referenced_Value(j))' = About(Referenced_Value(j))
  <2>1. Referenced_Value(j)' = Referenced_Value(j)
    BY <1>1, <1>4, ReferencedGlobal DEF Referenced_Value
  <2> QED BY <1>1, <1>3, <2>1 DEF About
<1>9. J \in SUBSET Abstract!Unbound /\ References' = Abstract!Bound(J, heap[a].id)
  BY <1>1, <1>7, <1>8, ReferencesBound
<1>10. Telling /\ Telling' = Telling
  BY <1>1 DEF Telling
<1> HIDE DEF J
<1>11. Abstract!Learn(heap[a].id)
  BY <1>1, <1>2, <1>3, <1>9, <1>10 DEF Abstract!Learn
<1> QED BY <1>3, <1>5, <1>11 DEF ViewInv

LEMMA NameLocalStep ==
    ASSUME IInv, ViewInv, NEW e \in Locals, NEW a \in Addrs, NameLocal(e, a)
    PROVE  (\E v \in Alive : Abstract!Learn(v)) /\ ViewInv'
<1>1. /\ phase = "emit" /\ Idle /\ Lives(a) /\ \A g \in Globals : value[g] # a
      /\ value' = [value EXCEPT ![e] = a]
      /\ Value_Info' = [Value_Info EXCEPT ![a] = WithEntity(@, e)]
      /\ UNCHANGED <<heap, made, params, Source_Order, protected, dying, phase>>
  BY DEF NameLocal
<1>2. a \in LiveAddrs /\ e \in Entities /\ TypeOK /\ e \notin Globals
  BY <1>1, ConstantsAssumption DEF IInv, Entities, LiveAddrs, Idle
<1>3. /\ heap[a].id \in Alive /\ LiveAddrs' = LiveAddrs /\ Alive' = Alive
      /\ \/ Known' = Known
         \/ /\ Known[heap[a].id] = NoEntity \/ (Known[heap[a].id] = AType /\ e # AType)
            /\ Known' = [Known EXCEPT ![heap[a].id] = e]
      /\ Nested' = Nested
      /\ Value_Info'[a].entity \in {e, Value_Info[a].entity}
      /\ \A b \in Addrs : b # a => Value_Info'[b] = Value_Info[b]
      /\ IdsDiffer'
  BY <1>1, <1>2, ToldView DEF ViewInv
<1>4. \A g \in Globals : value'[g] = value[g]
  BY <1>1, <1>2 DEF TypeOK, Entities
<1>5. EntityHasValue'
  BY <1>1, <1>2, <1>3, <1>4 DEF ViewInv, EntityHasValue
<1>6. ASSUME NEW j \in DOMAIN Source_Order
      PROVE  About(Referenced_Value(j))' = About(Referenced_Value(j))
  <2>1. Referenced_Value(j)' = Referenced_Value(j)
    BY <1>1, <1>4, ReferencedGlobal DEF Referenced_Value
  <2> QED BY <1>1, <1>3, <2>1 DEF About
<1>7. References' = Abstract!Bound({}, heap[a].id)
  BY <1>1, <1>6, SameReferences
<1>8. Telling /\ Telling' = Telling
  BY <1>1 DEF Telling
<1>9. Abstract!Learn(heap[a].id)
  BY <1>1, <1>2, <1>3, <1>7, <1>8 DEF Abstract!Learn
<1> QED BY <1>3, <1>5, <1>9 DEF ViewInv

LEMMA AddressTakenStep ==
    ASSUME IInv, ViewInv, NEW e \in Globals, AddressTaken(e)
    PROVE  (\E v \in Alive : Abstract!Learn(v)) /\ ViewInv'
<1> DEFINE a == value[e]
<1>1. /\ phase = "emit" /\ Idle /\ a # NoAddr
      /\ Value_Info' = [Value_Info EXCEPT ![a].present = TRUE, ![a].nest = TRUE]
      /\ UNCHANGED <<heap, made, notes, params, value, Source_Order, protected, dying, phase>>
  BY DEF AddressTaken
<1>2. a \in LiveAddrs /\ a \in Addrs
  BY <1>1 DEF IInv, GlobalsAreNoted, TypeOK, Entities, LiveAddrs
<1> HIDE DEF a
<1>3. Value_Info \in [Addrs -> Infos] /\ Value_Info[a] \in Infos
  BY <1>2 DEF IInv, TypeOK, Infos
<1>4. /\ Value_Info'[a].entity = Value_Info[a].entity /\ Value_Info'[a].nest
      /\ \A b \in Addrs : b # a => Value_Info'[b] = Value_Info[b]
  <2>1. PICK r : r = [Value_Info[a] EXCEPT !.present = TRUE, !.nest = TRUE]
    OBVIOUS
  <2>2. r.entity = Value_Info[a].entity /\ r.nest
    BY <1>3, <2>1 DEF Infos
  <2>3. Value_Info' = [Value_Info EXCEPT ![a] = r]
    BY <1>1, <1>2, <1>3, <2>1
  <2> QED BY <1>2, <1>3, <2>2, <2>3
<1>5. LiveAddrs' = LiveAddrs /\ heap[a].id \in Alive /\ IdsDiffer'
  BY <1>1, <1>2 DEF LiveAddrs, Lives, Alive, ViewInv, IdsDiffer
<1>6. Alive' = Alive /\ Known' = Known
  BY <1>1, <1>4, <1>5, LiveAddr, SameView
<1>7. Nested' = Nested \cup {heap[a].id}
  BY <1>1, <1>2, <1>4, <1>5, LiveAddr DEF Nested
<1>8. References' = Abstract!Bound({}, heap[a].id)
  <2>1. \A j : About(Referenced_Value(j))' = About(Referenced_Value(j))
    BY <1>1, <1>5 DEF About, Referenced_Value
  <2> QED BY <1>1, <2>1, SameReferences
<1>9. Telling /\ Telling' = Telling
  BY <1>1 DEF Telling
<1>10. EntityHasValue'
  <2>1. \A b \in Addrs : Value_Info'[b].entity = Value_Info[b].entity
    BY <1>4
  <2> QED BY <1>1, <2>1, Zenon DEF ViewInv, EntityHasValue
<1>11. Abstract!Learn(heap[a].id)
  BY <1>1, <1>6, <1>7, <1>8, <1>9 DEF Abstract!Learn
<1> QED BY <1>5, <1>10, <1>11 DEF ViewInv

LEMMA AddToSourceOrderStep ==
    ASSUME IInv, ViewInv, NEW e \in Globals, AddToSourceOrder(e)
    PROVE  Abstract!AddEntry /\ ViewInv'
<1>1. /\ phase = "emit" /\ Source_Order' = Append(Source_Order, e)
      /\ UNCHANGED <<heap, made, notes, Value_Info, params, value, protected, dying, phase>>
  BY DEF AddToSourceOrder
<1>2. LiveAddrs' = LiveAddrs /\ Nested' = Nested /\ ViewInv' /\ Telling /\ Telling' = Telling
  BY <1>1 DEF LiveAddrs, Lives, Nested, ViewInv, IdsDiffer, EntityHasValue, Telling
<1>3. Alive' = Alive /\ Known' = Known
  BY <1>1, <1>2, SameView
<1> DEFINE a == value[e]
<1>4. About(a) \in Alive \cup {0} /\ About(a)' = About(a)
  BY <1>1, <1>2 DEF About, Alive
<1> HIDE DEF a
<1>5. Source_Order \in Seq(Globals \cup {NoEntity})
  BY DEF IInv, TypeOK
<1>6. /\ Len(References) = Len(Source_Order)
      /\ DOMAIN References = 1 .. Len(Source_Order) /\ Len(Source_Order) \in Nat
      /\ DOMAIN Source_Order' = 1 .. (Len(Source_Order) + 1)
  BY <1>1, <1>5 DEF References
<1>7. ASSUME NEW j \in 1 .. Len(Source_Order)
      PROVE  About(Referenced_Value(j))' = References[j]
  <2>1. Source_Order'[j] = Source_Order[j]
    BY <1>1, <1>5
  <2>2. Referenced_Value(j)' = Referenced_Value(j)
    BY <1>1, <2>1 DEF Referenced_Value
  <2> QED BY <1>1, <1>2, <1>6, <2>2 DEF About, References
<1>8. PICK n : n = Len(Source_Order) + 1
  OBVIOUS
<1>9. About(Referenced_Value(n))' = About(a)
  <2>1. Source_Order'[n] = e
    BY <1>1, <1>5, <1>8
  <2>2. e # NoEntity
    BY ConstantsAssumption DEF Entities
  <2>3. Referenced_Value(n)' = a
    BY <1>1, <2>1, <2>2 DEF Referenced_Value, a
  <2> QED BY <1>1, <1>2, <2>3 DEF About
<1>10. References' = [j \in 1 .. n |-> About(Referenced_Value(j))']
  BY <1>6, <1>8 DEF References
<1>11. References' = [j \in 1 .. n |-> IF j = n THEN About(a) ELSE References[j]]
  BY <1>6, <1>7, <1>8, <1>9, <1>10
<1>12. References' = Append(References, About(a))
  <2>1. References = [j \in 1 .. Len(Source_Order) |-> References[j]]
    BY <1>6 DEF References
  <2> QED BY ONLY <1>6, <1>8, <1>11, <2>1 DEF Append
<1> QED BY <1>1, <1>2, <1>3, <1>4, <1>12 DEF Abstract!AddEntry

\* A step that the abstract specification does not see.
Unseen ==
    /\ made' = made /\ Alive' = Alive /\ Known' = Known /\ Nested' = Nested
    /\ References' = References /\ Telling' = Telling

LEMMA UnseenStep ==
    ASSUME IInv, ViewInv, EndEmission \/ ProtectEntry \/ EndProtect \/ UNCHANGED vars
    PROVE  (Abstract!Close \/ Unseen) /\ ViewInv'
<1>1. UNCHANGED <<heap, made, Value_Info, value, Source_Order, dying>>
  BY DEF EndEmission, ProtectEntry, EndProtect, vars
<1>2. LiveAddrs' = LiveAddrs /\ Nested' = Nested /\ ViewInv'
  BY <1>1 DEF LiveAddrs, Lives, Nested, ViewInv, IdsDiffer, EntityHasValue
<1>3. Alive' = Alive /\ Known' = Known
  BY <1>1, <1>2, SameView
<1>4. References' = References
  <2>1. \A j : About(Referenced_Value(j))' = About(Referenced_Value(j))
    BY <1>1, <1>2 DEF About, Referenced_Value
  <2> QED BY <1>1, <2>1, SameReferences
<1>5. Telling' = FALSE \/ Telling' = Telling
  BY DEF EndEmission, ProtectEntry, EndProtect, vars, Telling
<1> QED BY <1>1, <1>2, <1>3, <1>4, <1>5 DEF Abstract!Close, Unseen

\* The entry that Delete_From_Source_Order replaces was about no living value.
LEMMA OrderCallbackStep ==
    ASSUME IInv, ViewInv, OrderCallback
    PROVE  Unseen /\ ViewInv'
<1>1. /\ ~Idle /\ Delete_From_Source_Order(dying)
      /\ UNCHANGED <<heap, made, Value_Info, params, value, protected, dying, phase>>
  BY DEF OrderCallback
<1>2. LiveAddrs' = LiveAddrs /\ Nested' = Nested /\ ViewInv' /\ Telling' = Telling
  BY <1>1 DEF LiveAddrs, Lives, Nested, ViewInv, IdsDiffer, EntityHasValue, Telling
<1>3. Alive' = Alive /\ Known' = Known
  BY <1>1, <1>2, SameView
<1>4. TypeOK /\ dying \in Addrs /\ dying \notin LiveAddrs /\ NoAddr \notin LiveAddrs
  BY <1>1, ConstantsAssumption DEF IInv, TypeOK, Idle, LiveAddrs
<1>5. DOMAIN Source_Order' = DOMAIN Source_Order
  <2>1. /\ Source_Order \in Seq(Globals \cup {NoEntity}) /\ Source_Order' \in Seq(Globals \cup {NoEntity})
        /\ Len(Source_Order') = Len(Source_Order)
    BY <1>1, <1>4, EntryDeleted DEF TypeOK
  <2> QED BY <2>1
<1>6. ASSUME NEW j \in DOMAIN Source_Order
      PROVE  About(Referenced_Value(j))' = About(Referenced_Value(j))
  <2>1. CASE \E i \in DOMAIN Source_Order : Referenced_Value(i) = dying
    <3>1. PICK d \in DOMAIN Source_Order :
                /\ Referenced_Value(d) = dying
                /\ Referenced_Value(d)' = NoAddr
                /\ \A i \in DOMAIN Source_Order : i # d => Referenced_Value(i)' = Referenced_Value(i)
      BY <1>1, <1>4, <2>1, FirstDeleted
    <3>2. \/ Referenced_Value(j)' = Referenced_Value(j)
          \/ Referenced_Value(j) = dying /\ Referenced_Value(j)' = NoAddr
      BY <3>1
    <3> QED BY <1>1, <1>2, <1>4, <3>2 DEF About
  <2>2. CASE ~ \E i \in DOMAIN Source_Order : Referenced_Value(i) = dying
    <3>1. Source_Order' = Source_Order
      BY <1>1, <2>2 DEF Delete_From_Source_Order
    <3> QED BY <1>1, <1>2, <3>1 DEF About, Referenced_Value
  <2> QED BY <2>1, <2>2
<1>7. References' = References
  BY <1>5, <1>6 DEF References
<1> QED BY <1>1, <1>2, <1>3, <1>7 DEF Unseen

\* Delete_Value_Info takes the value of an entity only if it is the one deleted.
LEMMA InfoCallbackStep ==
    ASSUME IInv, ViewInv, InfoCallback
    PROVE  Unseen /\ ViewInv'
<1> DEFINE e == Value_Info[dying].entity
<1>1. /\ ~Idle
      /\ value' = IF e = NoEntity THEN value ELSE [value EXCEPT ![e] = NoAddr]
      /\ Value_Info' = [Value_Info EXCEPT ![dying] = NoInfo]
      /\ UNCHANGED <<heap, made, Source_Order, protected, dying, phase>>
  BY DEF InfoCallback
<1>2. TypeOK /\ dying \in Addrs /\ dying \notin LiveAddrs /\ NoAddr \notin LiveAddrs
  BY <1>1, ConstantsAssumption DEF IInv, TypeOK, Idle, LiveAddrs
<1>3. e \in Globals => value[e] = dying
  BY <1>2 DEF ViewInv, EntityHasValue
<1>4. e \in Entities \cup {NoEntity}
  BY <1>2 DEF TypeOK
<1>5. /\ \A g \in Globals : value'[g] = IF g = e THEN NoAddr ELSE value[g]
      /\ NoEntity \notin Globals
  BY <1>1, <1>2, <1>4, ConstantsAssumption DEF TypeOK, Entities
<1>6. \A a \in Addrs : Value_Info'[a] = IF a = dying THEN NoInfo ELSE Value_Info[a]
  BY <1>1, <1>2 DEF TypeOK
<1>7. LiveAddrs' = LiveAddrs
  BY <1>1 DEF LiveAddrs, Lives
<1>8. Nested' = Nested
  BY <1>1, <1>2, <1>6, <1>7, LiveAddr DEF Nested
<1>9. Alive' = Alive /\ Known' = Known
  BY <1>1, <1>2, <1>6, <1>7, LiveAddr, SameView
<1>10. EntityHasValue'
  <2> SUFFICES ASSUME NEW a \in Addrs, NEW g \in Globals, Value_Info'[a].entity = g
               PROVE  value'[g] = a
    BY DEF EntityHasValue
  <2>1. a # dying /\ Value_Info[a].entity = g
    BY <1>5, <1>6 DEF NoInfo
  <2>2. value[g] = a
    BY <2>1 DEF ViewInv, EntityHasValue
  <2> QED BY <1>3, <1>5, <2>1, <2>2
<1>11. IdsDiffer' /\ Telling' = Telling
  BY <1>1 DEF ViewInv, IdsDiffer, Lives, Telling
<1> HIDE DEF e
<1>12. ASSUME NEW j \in DOMAIN Source_Order
       PROVE  About(Referenced_Value(j))' = About(Referenced_Value(j))
  <2>1. CASE Source_Order[j] = NoEntity
    BY <1>1, <1>2, <1>7, <2>1 DEF About, Referenced_Value
  <2>2. CASE Source_Order[j] \in Globals
    <3>1. /\ Referenced_Value(j) = value[Source_Order[j]]
          /\ Referenced_Value(j)' = value'[Source_Order[j]]
      BY <1>1, <1>5, <2>2 DEF Referenced_Value
    <3> QED BY <1>1, <1>2, <1>3, <1>5, <1>7, <2>2, <3>1 DEF About
  <2> QED BY <2>1, <2>2, ReferencedGlobal
<1>13. References' = References
  BY <1>1, <1>12, SameReferences
<1> QED BY <1>1, <1>8, <1>9, <1>10, <1>11, <1>13 DEF Unseen, ViewInv

LEMMA EndDeleteStep ==
    ASSUME IInv, ViewInv, EndDelete
    PROVE  Unseen /\ ViewInv'
<1>1. /\ ~Idle /\ heap' = [heap EXCEPT ![dying] = NoLife] /\ dying' = NoAddr
      /\ UNCHANGED <<made, notes, Value_Info, params, value, Source_Order, protected, phase>>
  BY DEF EndDelete
<1>2. TypeOK /\ dying \in Addrs /\ dying \notin LiveAddrs /\ NoAddr \notin Addrs
  BY <1>1, ConstantsAssumption DEF IInv, TypeOK, Idle, LiveAddrs
<1>3. heap'[dying].id = 0 /\ \A a \in Addrs : a # dying => heap'[a] = heap[a]
  BY <1>1, <1>2 DEF TypeOK, NoLife
<1>4. LiveAddrs' = LiveAddrs
  BY <1>1, <1>2, <1>3 DEF LiveAddrs, Lives
<1>5. \A a \in LiveAddrs : heap'[a] = heap[a]
  BY <1>2, <1>3, LiveAddr
<1>6. Alive' = Alive /\ Known' = Known
  BY <1>1, <1>4, <1>5, SameView
<1>7. Nested' = Nested
  BY <1>1, <1>4, <1>5 DEF Nested
<1>8. References' = References
  <2>1. \A j : About(Referenced_Value(j))' = About(Referenced_Value(j))
    BY <1>1, <1>4, <1>5 DEF About, Referenced_Value
  <2> QED BY <1>1, <2>1, SameReferences
<1>9. IdsDiffer' /\ EntityHasValue' /\ Telling' = Telling
  BY <1>1, <1>3 DEF ViewInv, IdsDiffer, EntityHasValue, Lives, Telling
<1> QED BY <1>1, <1>6, <1>7, <1>8, <1>9 DEF Unseen, ViewInv

LEMMA NextStep ==
    ASSUME IInv, OrderInv, ViewInv, [Next]_vars
    PROVE  [Abstract!Next]_(Abstract!vars) /\ ViewInv'
<1>1. Unseen => UNCHANGED Abstract!vars
  BY DEF Unseen, Abstract!vars
<1>2. CASE FrontEnd
  <2>1. ASSUME NEW e \in Globals, NEW a \in Addrs, NEW fn \in BOOLEAN, NEW discrete \in BOOLEAN,
               CreateGlobal(e, a, fn, discrete)
        PROVE  Abstract!Next /\ ViewInv'
    BY <2>1, CreateGlobalStep DEF Abstract!Next
  <2>2. ASSUME NEW e \in Globals, NEW d \in Globals, ShareGlobal(e, d)
        PROVE  Abstract!Next /\ ViewInv'
    BY <2>2, ShareGlobalStep DEF Abstract!Next
  <2>3. ASSUME NEW e \in Globals, AddressTaken(e)
        PROVE  Abstract!Next /\ ViewInv'
    BY <2>3, AddressTakenStep DEF Abstract!Next
  <2>4. ASSUME NEW e \in Globals, AddToSourceOrder(e)
        PROVE  Abstract!Next /\ ViewInv'
    BY <2>4, AddToSourceOrderStep DEF Abstract!Next
  <2>5. ASSUME NEW a \in Addrs, NEW discrete \in BOOLEAN, CreateLocal(a, discrete)
        PROVE  Abstract!Next /\ ViewInv'
    BY <2>5, CreateLocalStep DEF Abstract!Next
  <2>6. ASSUME NEW a \in Addrs, NEW e \in Locals, NameLocal(e, a)
        PROVE  Abstract!Next /\ ViewInv'
    BY <2>6, NameLocalStep DEF Abstract!Next
  <2>7. CASE EndEmission \/ ProtectEntry \/ EndProtect
    BY <1>1, <2>7, UnseenStep DEF Abstract!Next
  <2> QED BY <1>2, <2>1, <2>2, <2>3, <2>4, <2>5, <2>6, <2>7 DEF FrontEnd
<1>3. CASE LLVM
  <2>1. ASSUME NEW a \in Addrs, BeginDelete(a)
        PROVE  Abstract!Next /\ ViewInv'
    BY <2>1, BeginDeleteStep DEF Abstract!Next
  <2>2. ASSUME NEW a \in Addrs, NEW fn \in BOOLEAN, OptimizerMakes(a, fn)
        PROVE  Abstract!Next /\ ViewInv'
    BY <2>2, OptimizerMakesStep DEF Abstract!Next
  <2> QED BY <1>3, <2>1, <2>2 DEF LLVM
<1>4. CASE Callbacks
  BY <1>1, <1>4, OrderCallbackStep, InfoCallbackStep, EndDeleteStep DEF Callbacks
<1>5. CASE UNCHANGED vars
  BY <1>1, <1>5, UnseenStep DEF Abstract!Next
<1> QED BY <1>2, <1>3, <1>4, <1>5 DEF Next

LEMMA InitStep == Init => Abstract!Init /\ ViewInv
<1> SUFFICES ASSUME Init PROVE Abstract!Init /\ ViewInv
  OBVIOUS
<1>1. LiveAddrs = {} /\ made = 0
  BY DEF Init, LiveAddrs, Lives, NoLife
<1>2. Alive = {} /\ Nested = {}
  BY <1>1 DEF Alive, Nested
<1>3. Known = <<>>
  BY <1>1 DEF Known
<1>4. References = <<>>
  BY DEF Init, References
<1>5. ViewInv
  BY ConstantsAssumption DEF Init, ViewInv, IdsDiffer, EntityHasValue, Lives, NoLife, NoInfo, Entities
<1>6. Telling = TRUE
  BY DEF Init, Telling
<1> QED BY <1>1, <1>2, <1>3, <1>4, <1>5, <1>6 DEF Abstract!Init

\* What CCG keeps under addresses and entities, with the callbacks that keep it in
\* step, is a fact about each value as long as it lives, for any values, addresses
\* and entities: the promise of ValueInfo.
THEOREM ValuesImplementsValueInfo == Spec => ImplementsValueInfo
<1>1. Init => OrderInv
  BY DEF Init, OrderInv, EntriesAreNoted, ProtectedInTurn
<1> QED BY <1>1, InitIInv, NextIInv, NextOrderInv, InitStep, NextStep, PTL
        DEF Spec, ImplementsValueInfo, Abstract!Spec
=============================================================================
