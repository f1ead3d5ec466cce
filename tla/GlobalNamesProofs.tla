------------------------- MODULE GlobalNamesProofs -------------------------
(***************************************************************************)
(* Proofs about GlobalNames, for any names, entities and builtins.         *)
(***************************************************************************)
EXTENDS GlobalNames, TLAPS

Fns == [name : Names, llvm : Names \cup {Renamed}, inModule : BOOLEAN, body : BOOLEAN, deleted : BOOLEAN]

TypeOK ==
    /\ Interface_Names \in [Names -> [present : BOOLEAN, e : Entities \cup {NoEntity}, index : Nat]]
    /\ Global_Dup \in [Entities -> Nat]
    /\ Global_Dup_Value \in Seq(0 .. Len(fns))
    /\ scanned \in SUBSET Entities /\ defined \in SUBSET Entities /\ added \in SUBSET Entities
    /\ fns \in Seq(Fns)
    /\ value \in [Entities -> 0 .. Len(fns)]
    /\ builtin \in [Builtins -> 0 .. Len(fns)]
    /\ created \in Seq(Entities)
    /\ phase \in {"scan", "emit", "add", "done"}
    /\ next \in Nat \ {0}

Index(n) == Interface_Names[n].index

\* An index is that of one name, and all the entities scanned that have the
\* name have it; without an index only one entity scanned has the name.
NamesKnown ==
    /\ \A n \in Names : Index(n) \in 0 .. Len(Global_Dup_Value)
    /\ \A m, n \in Names : Index(m) = Index(n) /\ Index(m) # NoIndex => m = n
    /\ \A n \in Names : LET e == Interface_Names[n].e
                        IN  e # NoEntity => e \in scanned /\ NameOf[e] = n
    /\ \A e \in Entities \ scanned : Global_Dup[e] = NoIndex
    /\ \A e \in scanned :
          LET n == NameOf[e]
          IN  /\ Interface_Names[n].present /\ Global_Dup[e] = Index(n)
              /\ Index(n) = NoIndex => Interface_Names[n].e = e

Phases ==
    /\ phase # "scan" => scanned = Entities
    /\ phase = "scan" => \A e \in Entities : value[e] = NoFn
    /\ \A i \in DOMAIN created : value[created[i]] # NoFn
    /\ \A e \in added : value[e] # NoFn

\* The function of an entity is the one its name has, and has its name.
ValuesShared ==
    /\ \A e \in Entities : value[e] # NoFn =>
          /\ fns[value[e]].name = NameOf[e]
          /\ Global_Dup[e] # NoIndex => Global_Dup_Value[Global_Dup[e]] = value[e]
    /\ \A n \in Names : Index(n) # NoIndex /\ Global_Dup_Value[Index(n)] # NoFn =>
          fns[Global_Dup_Value[Index(n)]].name = n

\* LLVM gives another name only to a function that enters the module, and a
\* body only to the function of an entity.
FnsKnown ==
    \A f \in DOMAIN fns :
        /\ fns[f].llvm \in {fns[f].name, Renamed}
        /\ ~fns[f].inModule => fns[f].llvm = fns[f].name
        /\ fns[f].body => fns[f].inModule /\ \E e \in added : value[e] = f

IInv == TypeOK /\ NamesKnown /\ Phases /\ ValuesShared /\ FnsKnown

(***************************************************************************)
(* The module                                                              *)
(***************************************************************************)
\* What entering the module changes of the functions.
LEMMA EnteredFns ==
    ASSUME NEW fs \in Seq(Fns), NEW f \in DOMAIN fs
    PROVE  /\ Entered(fs, f) \in Seq(Fns) /\ Len(Entered(fs, f)) = Len(fs)
           /\ \A i \in DOMAIN fs : i # f => Entered(fs, f)[i] = fs[i]
           /\ Entered(fs, f)[f].name = fs[f].name
           /\ Entered(fs, f)[f].body = fs[f].body
           /\ Entered(fs, f)[f].inModule
           /\ Entered(fs, f)[f].llvm \in {fs[f].llvm, Renamed}
<1> DEFINE taken == \E g \in DOMAIN fs : g # f /\ fs[g].inModule /\ fs[g].llvm = fs[f].llvm
           r == [fs[f] EXCEPT !.inModule = TRUE, !.llvm = IF taken THEN Renamed ELSE @]
<1>1. Entered(fs, f) = [fs EXCEPT ![f] = r]
  BY DEF Entered
<1>2. fs[f] \in Fns
  OBVIOUS
<1>3. /\ r \in Fns /\ r.name = fs[f].name /\ r.body = fs[f].body /\ r.inModule
      /\ r.llvm \in {fs[f].llvm, Renamed}
  <2>1. CASE taken
    BY <1>2, <2>1 DEF Fns
  <2>2. CASE ~taken
    BY <1>2, <2>2 DEF Fns
  <2> QED BY <2>1, <2>2
<1> HIDE DEF r
<1> QED BY <1>1, <1>3

\* Add_Function_To_Module: a function stays as it is, enters the module, or is
\* deleted, which needs duplicates to be disallowed.
LEMMA AddedFns ==
    ASSUME NEW fs \in Seq(Fns), NEW f \in DOMAIN fs, NEW allow \in BOOLEAN
    PROVE  LET gs == AddFunctionToModule(fs, f, allow)
           IN  /\ gs \in Seq(Fns) /\ Len(gs) = Len(fs)
               /\ \A i \in DOMAIN fs : i # f => gs[i] = fs[i]
               /\ gs[f].name = fs[f].name /\ gs[f].body = fs[f].body
               /\ gs[f].llvm \in {fs[f].llvm, Renamed}
               /\ fs[f].inModule \/ allow => gs[f].inModule
               /\ ~gs[f].inModule => gs[f].llvm = fs[f].llvm
<1>1. CASE f \in Existing(fs, f)
  BY <1>1 DEF AddFunctionToModule, Existing, Fns
<1>2. CASE f \notin Existing(fs, f) /\ Merges(fs, f, allow)
  <2>1. /\ AddFunctionToModule(fs, f, allow) = [fs EXCEPT ![f].deleted = TRUE]
        /\ ~allow /\ ~fs[f].inModule
    BY <1>2 DEF AddFunctionToModule, Merges, Existing
  <2> DEFINE r == [fs[f] EXCEPT !.deleted = TRUE]
  <2>2. fs[f] \in Fns
    OBVIOUS
  <2>3. r \in Fns /\ r.name = fs[f].name /\ r.body = fs[f].body /\ r.llvm = fs[f].llvm
        /\ r.inModule = fs[f].inModule
    BY <2>2 DEF Fns
  <2>4. AddFunctionToModule(fs, f, allow) = [fs EXCEPT ![f] = r]
    BY <2>1
  <2> HIDE DEF r
  <2> DEFINE gs == AddFunctionToModule(fs, f, allow)
  <2>5. gs \in Seq(Fns) /\ Len(gs) = Len(fs) /\ gs[f] = r /\ \A i \in DOMAIN fs : i # f => gs[i] = fs[i]
    BY <2>3, <2>4
  <2> HIDE DEF gs
  <2>6. ~(fs[f].inModule \/ allow)
    BY <2>1
  <2>7. gs[f].name = fs[f].name /\ gs[f].body = fs[f].body /\ gs[f].llvm = fs[f].llvm
    BY <2>3, <2>5
  <2> QED BY <2>5, <2>6, <2>7 DEF gs
<1>3. CASE f \notin Existing(fs, f) /\ ~Merges(fs, f, allow)
  <2>1. AddFunctionToModule(fs, f, allow) = Entered(fs, f)
    BY <1>3 DEF AddFunctionToModule
  <2> QED BY <2>1, EnteredFns
<1> QED BY <1>1, <1>2, <1>3

(***************************************************************************)
(* The steps                                                               *)
(***************************************************************************)
LEMMA InitIInv == Init => IInv
<1> SUFFICES ASSUME Init PROVE IInv
  OBVIOUS
<1> USE DEF Init
<1>1. TypeOK
  BY ConstantsAssumption DEF TypeOK, NoFn, NoIndex
<1>2. NamesKnown
  BY DEF NamesKnown, Index, NoIndex
<1>3. Phases /\ FnsKnown
  BY DEF Phases, FnsKnown
<1>4. ValuesShared
  BY DEF ValuesShared, Index, NoIndex, NoFn
<1> QED BY <1>1, <1>2, <1>3, <1>4 DEF IInv

\* An entity is scanned.  KNOWN is what was known of its name.
LEMMA ScanEntityIInv ==
    ASSUME IInv, NEW e \in Entities, ScanEntity(e)
    PROVE  IInv'
<1> DEFINE n == NameOf[e]
           known == Interface_Names[n]
           idx == IF known.index # NoIndex THEN known.index ELSE Len(Global_Dup_Value) + 1
<1>1. /\ phase = "scan" /\ e \notin scanned /\ scanned' = scanned \cup {e}
      /\ UNCHANGED <<defined, fns, value, builtin, created, added, calls, phase, next>>
  BY DEF ScanEntity
<1>2. TypeOK /\ NamesKnown /\ Phases /\ ValuesShared /\ FnsKnown
  BY DEF IInv
<1>3. /\ n \in Names
      /\ known \in [present : BOOLEAN, e : Entities \cup {NoEntity}, index : Nat]
      /\ known.index \in 0 .. Len(Global_Dup_Value)
  BY <1>2, ConstantsAssumption DEF TypeOK, NamesKnown, Index
<1>4. Global_Dup_Value \in Seq(0 .. Len(fns)) /\ Len(fns) \in Nat
  BY <1>2 DEF TypeOK
<1>5. \A m \in Names : Index(m) \in 0 .. Len(Global_Dup_Value)
  BY <1>2 DEF NamesKnown
<1>6. Global_Dup[e] = NoIndex
  BY <1>1, <1>2 DEF NamesKnown
<1>7. Phases' /\ FnsKnown'
  BY <1>1, <1>2 DEF Phases, FnsKnown
<1>8. CASE known.present
  <2>1. /\ Interface_Names' = [Interface_Names EXCEPT ![n].index = idx]
        /\ Global_Dup_Value' = DupValues(known)
        /\ Global_Dup' = DupEntries(e, known, idx)
    BY <1>8 DEF ScanEntity
  <2>2. /\ idx \in 1 .. Len(Global_Dup_Value') /\ Global_Dup_Value' \in Seq(0 .. Len(fns))
        /\ Len(Global_Dup_Value) <= Len(Global_Dup_Value')
        /\ \A i \in DOMAIN Global_Dup_Value : Global_Dup_Value'[i] = Global_Dup_Value[i]
        /\ known.index = NoIndex => Global_Dup_Value'[idx] = NoFn
    <3>1. CASE known.index = NoIndex
      BY <1>3, <1>4, <2>1, <3>1 DEF DupValues, NoIndex, NoFn
    <3>2. CASE known.index # NoIndex
      BY <1>3, <1>4, <2>1, <3>2 DEF DupValues, NoIndex
    <3> QED BY <3>1, <3>2
  <2>3. /\ Interface_Names'[n] = [known EXCEPT !.index = idx]
        /\ \A m \in Names : m # n => Interface_Names'[m] = Interface_Names[m]
    BY <1>2, <1>3, <2>1 DEF TypeOK
  <2>4. /\ Interface_Names'[n].present /\ Interface_Names'[n].e = known.e /\ Index(n)' = idx
        /\ \A m \in Names : m # n => Index(m)' = Index(m)
    BY <1>3, <1>8, <2>3 DEF Index
  <2>5. \A x \in Entities : Global_Dup'[x] = IF x = e \/ (x = known.e /\ known.index = NoIndex)
                                            THEN idx ELSE Global_Dup[x]
    BY <2>1 DEF DupEntries
  <2>6. idx \in Nat
    BY <1>3, <1>4 DEF NoIndex
  <2> HIDE DEF idx
  <2>7. TypeOK'
    <3>1. Interface_Names' \in [Names -> [present : BOOLEAN, e : Entities \cup {NoEntity}, index : Nat]]
      BY <1>2, <1>3, <2>1, <2>6 DEF TypeOK
    <3>2. Global_Dup' \in [Entities -> Nat]
      BY <1>2, <2>1, <2>6 DEF DupEntries, TypeOK
    <3> QED BY <1>1, <1>2, <2>2, <3>1, <3>2 DEF TypeOK
  <2>8. \A m \in Names : m # n => Index(m) # idx \/ idx = NoIndex
    BY <1>2, <1>3, <1>4, <1>5 DEF idx, NamesKnown, Index
  <2>9. known.e # NoEntity => known.e \in scanned /\ NameOf[known.e] = n
    BY <1>2, <1>3 DEF NamesKnown
  <2>10. \A x \in scanned : NameOf[x] = n =>
            Global_Dup[x] = known.index /\ (known.index = NoIndex => known.e = x)
    BY <1>2 DEF NamesKnown, Index
  <2>11. known.index # NoIndex => idx = known.index
    BY DEF idx
  <2>12. NamesKnown'
    <3>1. \A m \in Names : Index(m)' \in 0 .. Len(Global_Dup_Value')
      BY <1>4, <1>5, <2>2, <2>4
    <3>2. \A m, k \in Names : Index(m)' = Index(k)' /\ Index(m)' # NoIndex => m = k
      BY <1>2, <2>4, <2>8 DEF NamesKnown
    <3>3. \A m \in Names : LET x == Interface_Names[m].e
                           IN  x # NoEntity => x \in scanned /\ NameOf[x] = m
      BY <1>2 DEF NamesKnown
    <3>4. \A m \in Names : Interface_Names'[m].e = Interface_Names[m].e
      BY <2>3, <2>4
    <3>5. \A x \in Entities \ scanned' : Global_Dup'[x] = NoIndex
      BY <1>1, <1>2, <2>5, <2>9, ConstantsAssumption DEF NamesKnown
    <3>6. ASSUME NEW x \in scanned'
          PROVE  /\ Interface_Names'[NameOf[x]].present /\ Global_Dup'[x] = Index(NameOf[x])'
                 /\ Index(NameOf[x])' = NoIndex => Interface_Names'[NameOf[x]].e = x
      <4>1. x \in Entities /\ NameOf[x] \in Names
        BY <1>1, <1>2, ConstantsAssumption DEF TypeOK
      <4>2. CASE NameOf[x] = n
        <5>1. idx # NoIndex
          BY <2>2 DEF NoIndex
        <5>2. CASE x = e
          BY <2>4, <2>5, <5>1, <5>2
        <5>3. CASE x # e
          <6>1. x \in scanned
            BY <1>1, <5>3
          <6> QED BY <2>4, <2>5, <2>10, <2>11, <4>1, <4>2, <5>1, <6>1
        <5> QED BY <5>2, <5>3
      <4>3. CASE NameOf[x] # n
        <5>1. x # e /\ x \in scanned
          BY <1>1, <4>3
        <5>2. x # known.e
          BY <2>9, <4>1, <4>3, ConstantsAssumption
        <5>3. Global_Dup'[x] = Global_Dup[x]
          BY <2>5, <4>1, <5>1, <5>2
        <5> QED BY <1>2, <2>3, <2>4, <4>1, <4>3, <5>1, <5>3 DEF NamesKnown
      <4> QED BY <4>2, <4>3
    <3> QED BY <1>1, <3>1, <3>2, <3>3, <3>4, <3>5, <3>6 DEF NamesKnown
  <2>13. ValuesShared'
    <3>1. \A x \in Entities : value'[x] = NoFn
      BY <1>1, <1>2 DEF Phases
    <3>2. ASSUME NEW m \in Names, Index(m)' # NoIndex, Global_Dup_Value'[Index(m)'] # NoFn
          PROVE  fns'[Global_Dup_Value'[Index(m)']].name = m
      <4>1. Index(m)' = Index(m)
        BY <2>2, <2>4, <2>11, <3>2 DEF Index
      <4>2. Index(m) \in DOMAIN Global_Dup_Value
        BY <1>4, <1>5, <3>2, <4>1 DEF NoIndex
      <4> QED BY <1>1, <1>2, <2>2, <3>2, <4>1, <4>2 DEF ValuesShared
    <3> QED BY <3>1, <3>2 DEF ValuesShared
  <2> QED BY <1>7, <2>7, <2>12, <2>13 DEF IInv
<1>9. CASE ~known.present
  <2>1. /\ Interface_Names' = [Interface_Names EXCEPT ![n] = [present |-> TRUE, e |-> e, index |-> NoIndex]]
        /\ UNCHANGED <<Global_Dup, Global_Dup_Value>>
    BY <1>9 DEF ScanEntity
  <2>2. \A x \in scanned : NameOf[x] # n
    BY <1>2, <1>9 DEF NamesKnown
  <2>3. /\ Interface_Names'[n] = [present |-> TRUE, e |-> e, index |-> NoIndex]
        /\ \A m \in Names : m # n => Interface_Names'[m] = Interface_Names[m]
    BY <1>2, <1>3, <2>1 DEF TypeOK
  <2>4. TypeOK'
    <3>1. Interface_Names' \in [Names -> [present : BOOLEAN, e : Entities \cup {NoEntity}, index : Nat]]
      BY <1>2, <1>3, <2>1 DEF TypeOK, NoIndex
    <3> QED BY <1>1, <1>2, <2>1, <3>1 DEF TypeOK
  <2>5. NamesKnown'
    <3>1. /\ \A m \in Names : Index(m)' \in 0 .. Len(Global_Dup_Value')
          /\ \A m, k \in Names : Index(m)' = Index(k)' /\ Index(m)' # NoIndex => m = k
      BY <1>2, <1>4, <1>5, <2>1, <2>3 DEF NamesKnown, Index, NoIndex
    <3>2. \A m \in Names : LET x == Interface_Names'[m].e
                           IN  x # NoEntity => x \in scanned' /\ NameOf[x] = m
      BY <1>1, <1>2, <2>3 DEF NamesKnown
    <3>3. \A x \in Entities \ scanned' : Global_Dup'[x] = NoIndex
      BY <1>1, <1>2, <2>1 DEF NamesKnown
    <3>4. ASSUME NEW x \in scanned'
          PROVE  /\ Interface_Names'[NameOf[x]].present /\ Global_Dup'[x] = Index(NameOf[x])'
                 /\ Index(NameOf[x])' = NoIndex => Interface_Names'[NameOf[x]].e = x
      <4>1. CASE x = e
        BY <1>6, <2>1, <2>3, <4>1 DEF Index
      <4>2. CASE x # e
        <5>1. x \in scanned /\ NameOf[x] # n /\ NameOf[x] \in Names
          BY <1>1, <1>2, <2>2, <4>2, ConstantsAssumption DEF TypeOK
        <5> QED BY <1>2, <2>1, <2>3, <5>1 DEF NamesKnown, Index
      <4> QED BY <4>1, <4>2
    <3> QED BY <1>1, <3>1, <3>2, <3>3, <3>4 DEF NamesKnown
  <2>6. ValuesShared'
    <3>1. \A x \in Entities : value'[x] = NoFn
      BY <1>1, <1>2 DEF Phases
    <3>2. \A m \in Names : Index(m)' # NoIndex => Index(m)' = Index(m)
      BY <2>3 DEF Index
    <3> QED BY <1>1, <1>2, <2>1, <3>1, <3>2 DEF ValuesShared
  <2> QED BY <1>7, <2>4, <2>5, <2>6 DEF IInv
<1> QED BY <1>8, <1>9

\* The first declaration of an entity.
LEMMA DeclareIInv ==
    ASSUME IInv, NEW e \in Entities, Declare(e)
    PROVE  IInv'
<1> DEFINE idx == Global_Dup[e]
           dup == DupValue(idx)
<1>1. /\ phase = "emit" /\ value[e] = NoFn
      /\ UNCHANGED <<Interface_Names, Global_Dup, scanned, defined, builtin, added, calls, phase, next>>
  BY DEF Declare
<1>2. TypeOK /\ NamesKnown /\ Phases /\ ValuesShared /\ FnsKnown
  BY DEF IInv
<1>3. /\ scanned = Entities /\ NameOf[e] \in Names
      /\ idx = Index(NameOf[e]) /\ idx \in 0 .. Len(Global_Dup_Value)
  BY <1>1, <1>2, ConstantsAssumption DEF Phases, NamesKnown
<1>4. /\ Global_Dup_Value \in Seq(0 .. Len(fns)) /\ fns \in Seq(Fns) /\ Len(fns) \in Nat
      /\ value \in [Entities -> 0 .. Len(fns)] /\ created \in Seq(Entities)
      /\ builtin \in [Builtins -> 0 .. Len(fns)] /\ added \in SUBSET Entities
  BY <1>2 DEF TypeOK
<1>5. NamesKnown'
  <2>1. Len(Global_Dup_Value') = Len(Global_Dup_Value)
    BY <1>4 DEF Declare, Create, SetDupValue
  <2> QED BY <1>1, <1>2, <2>1 DEF NamesKnown, Index
<1>6. CASE dup # NoFn
  <2>1. value' = [value EXCEPT ![e] = dup] /\ UNCHANGED <<Global_Dup_Value, created, fns>>
    BY <1>6 DEF Declare, Create, FnsWith
  <2>2. /\ idx # NoIndex /\ dup = Global_Dup_Value[idx] /\ dup \in 1 .. Len(fns)
        /\ fns[dup].name = NameOf[e]
    <3>1. idx # NoIndex /\ dup = Global_Dup_Value[idx]
      BY <1>6 DEF DupValue
    <3>2. dup \in 1 .. Len(fns)
      BY <1>3, <1>4, <1>6, <3>1 DEF NoIndex, NoFn
    <3> QED BY <1>2, <1>3, <1>6, <3>1, <3>2 DEF ValuesShared
  <2> HIDE DEF idx, dup
  <2>3. TypeOK'
    <3>1. value' \in [Entities -> 0 .. Len(fns)]
      BY <1>4, <2>1, <2>2
    <3> QED BY <1>1, <1>2, <2>1, <3>1 DEF TypeOK
  <2>4. /\ value'[e] = dup /\ dup # NoFn
        /\ \A x \in Entities : x # e => value'[x] = value[x]
    BY <1>4, <1>6, <2>1
  <2>5. Phases'
    BY <1>1, <1>2, <1>4, <2>1, <2>4 DEF Phases
  <2>6. ValuesShared'
    <3>1. ASSUME NEW x \in Entities, value'[x] # NoFn
          PROVE  /\ fns[value'[x]].name = NameOf[x]
                 /\ Global_Dup[x] # NoIndex => Global_Dup_Value[Global_Dup[x]] = value'[x]
      <4>1. CASE x = e
        BY <2>2, <2>4, <4>1 DEF idx
      <4>2. CASE x # e
        BY <1>2, <2>4, <3>1, <4>2 DEF ValuesShared
      <4> QED BY <4>1, <4>2
    <3>2. \A n \in Names : Index(n) # NoIndex /\ Global_Dup_Value[Index(n)] # NoFn =>
             fns[Global_Dup_Value[Index(n)]].name = n
      BY <1>2 DEF ValuesShared
    <3> QED BY <1>1, <2>1, <3>1, <3>2 DEF ValuesShared, Index
  <2>7. FnsKnown'
    <3>1. ASSUME NEW f \in DOMAIN fns, fns[f].body
          PROVE  \E x \in added : value'[x] = f
      <4>1. PICK x \in added : value[x] = f
        BY <1>2, <3>1 DEF FnsKnown
      <4>2. x # e
        BY <1>1, <1>4, <4>1 DEF NoFn
      <4> QED BY <1>4, <2>4, <4>1, <4>2
    <3> QED BY <1>1, <1>2, <2>1, <3>1 DEF FnsKnown
  <2> QED BY <1>5, <2>3, <2>5, <2>6, <2>7 DEF IInv
<1>7. CASE dup = NoFn
  <2> DEFINE f == Len(fns) + 1
  <2>1. /\ value' = [value EXCEPT ![e] = f] /\ Global_Dup_Value' = SetDupValue(idx, f)
        /\ created' = Append(created, e) /\ fns' = Append(fns, NewFn(NameOf[e]))
    BY <1>7 DEF Declare, Create, FnsWith
  <2>2. NewFn(NameOf[e]) \in Fns
    BY <1>3 DEF NewFn, Fns
  <2>3. /\ fns' \in Seq(Fns) /\ Len(fns') = f /\ DOMAIN fns' = 1 .. f
        /\ fns'[f] = NewFn(NameOf[e])
        /\ \A g \in 1 .. Len(fns) : fns'[g] = fns[g]
    BY <1>4, <2>1, <2>2
  <2>4. /\ idx # NoIndex => Global_Dup_Value[idx] = NoFn /\ Global_Dup_Value'[idx] = f
        /\ \A i \in 1 .. Len(Global_Dup_Value) : i # idx => Global_Dup_Value'[i] = Global_Dup_Value[i]
        /\ Global_Dup_Value' \in Seq(0 .. Len(fns'))
    <3>1. CASE idx = NoIndex
      BY <1>4, <2>1, <2>3, <3>1 DEF SetDupValue, NoIndex
    <3>2. CASE idx # NoIndex
      <4>1. Global_Dup_Value' = [Global_Dup_Value EXCEPT ![idx] = f]
        BY <2>1, <3>2 DEF SetDupValue
      <4>2. idx \in 1 .. Len(Global_Dup_Value) /\ Global_Dup_Value[idx] = NoFn
        BY <1>3, <1>4, <1>7, <3>2 DEF NoIndex, DupValue
      <4> QED BY <1>4, <2>3, <4>1, <4>2
    <3> QED BY <3>1, <3>2
  <2> HIDE DEF idx, dup
  <2>5. /\ value'[e] = f /\ f # NoFn
        /\ \A x \in Entities : x # e => value'[x] = value[x]
    BY <1>4, <2>1 DEF NoFn
  <2>6. TypeOK'
    <3>1. value' \in [Entities -> 0 .. Len(fns')] /\ builtin' \in [Builtins -> 0 .. Len(fns')]
      BY <1>1, <1>4, <2>1, <2>3
    <3>2. created' \in Seq(Entities)
      BY <1>4, <2>1
    <3> QED BY <1>1, <1>2, <2>3, <2>4, <3>1, <3>2 DEF TypeOK
  <2>7. Phases'
    <3>1. \A i \in DOMAIN created' : created'[i] = e \/ \E j \in DOMAIN created : created'[i] = created[j]
      BY <1>4, <2>1
    <3>2. ASSUME NEW i \in DOMAIN created' PROVE value'[created'[i]] # NoFn
      <4>1. CASE created'[i] = e
        BY <2>5, <4>1
      <4>2. CASE created'[i] # e
        <5>1. PICK j \in DOMAIN created : created'[i] = created[j]
          BY <3>1, <4>2
        <5>2. created[j] \in Entities /\ value[created[j]] # NoFn
          BY <1>2, <1>4 DEF Phases
        <5> QED BY <2>5, <4>2, <5>1, <5>2
      <4> QED BY <4>1, <4>2
    <3>3. \A x \in added : value'[x] # NoFn
      BY <1>2, <1>4, <2>5 DEF Phases
    <3> QED BY <1>1, <1>2, <3>2, <3>3 DEF Phases
  <2>8. ValuesShared'
    <3>1. ASSUME NEW x \in Entities, value'[x] # NoFn
          PROVE  /\ fns'[value'[x]].name = NameOf[x]
                 /\ Global_Dup[x] # NoIndex => Global_Dup_Value'[Global_Dup[x]] = value'[x]
      <4>1. CASE x = e
        BY <2>3, <2>4, <2>5, <4>1 DEF idx, NewFn
      <4>2. CASE x # e
        <5>1. value'[x] = value[x] /\ value[x] \in 1 .. Len(fns)
          BY <1>4, <2>5, <3>1, <4>2 DEF NoFn
        <5>2. /\ fns[value[x]].name = NameOf[x]
              /\ Global_Dup[x] # NoIndex => Global_Dup_Value[Global_Dup[x]] = value[x]
          BY <1>2, <3>1, <5>1 DEF ValuesShared
        <5>3. ASSUME Global_Dup[x] # NoIndex
              PROVE  Global_Dup[x] # idx /\ Global_Dup[x] \in 1 .. Len(Global_Dup_Value)
          <6>1. Global_Dup[x] = Index(NameOf[x]) /\ NameOf[x] \in Names
            BY <1>2, <1>3, ConstantsAssumption DEF NamesKnown
          <6>2. Global_Dup[x] \in 0 .. Len(Global_Dup_Value)
            BY <1>2, <6>1 DEF NamesKnown
          <6> QED BY <1>4, <2>4, <3>1, <5>1, <5>2, <5>3, <6>2 DEF NoIndex
        <5> QED BY <2>3, <2>4, <5>1, <5>2, <5>3
      <4> QED BY <4>1, <4>2
    <3>2. ASSUME NEW n \in Names, Index(n) # NoIndex, Global_Dup_Value'[Index(n)] # NoFn
          PROVE  fns'[Global_Dup_Value'[Index(n)]].name = n
      <4>1. Index(n) \in 1 .. Len(Global_Dup_Value)
        BY <1>2, <1>4, <3>2 DEF NamesKnown, NoIndex
      <4>2. CASE Index(n) = idx
        <5>1. n = NameOf[e]
          BY <1>2, <1>3, <3>2, <4>2 DEF NamesKnown
        <5> QED BY <2>3, <2>4, <3>2, <4>2, <5>1 DEF NewFn
      <4>3. CASE Index(n) # idx
        <5>1. Global_Dup_Value'[Index(n)] = Global_Dup_Value[Index(n)]
          BY <2>4, <4>1, <4>3
        <5>2. Global_Dup_Value[Index(n)] \in 1 .. Len(fns)
          BY <1>4, <3>2, <4>1, <5>1 DEF NoFn
        <5> QED BY <1>2, <2>3, <3>2, <5>1, <5>2 DEF ValuesShared
      <4> QED BY <4>2, <4>3
    <3> QED BY <1>1, <3>1, <3>2 DEF ValuesShared, Index
  <2>9. FnsKnown'
    <3>1. ASSUME NEW g \in 1 .. Len(fns)
          PROVE  /\ fns'[g].llvm \in {fns'[g].name, Renamed}
                 /\ ~fns'[g].inModule => fns'[g].llvm = fns'[g].name
                 /\ fns'[g].body => fns'[g].inModule /\ \E x \in added' : value'[x] = g
      <4>1. fns'[g] = fns[g] /\ g \in DOMAIN fns
        BY <1>4, <2>3
      <4>2. ASSUME fns[g].body PROVE \E x \in added : value'[x] = g
        <5>1. PICK x \in added : value[x] = g
          BY <1>2, <4>1, <4>2 DEF FnsKnown
        <5>2. x # e
          BY <1>1, <1>4, <5>1 DEF NoFn
        <5> QED BY <1>4, <2>5, <5>1, <5>2
      <4> QED BY <1>1, <1>2, <4>1, <4>2 DEF FnsKnown
    <3>2. /\ fns'[f].llvm \in {fns'[f].name, Renamed} /\ fns'[f].llvm = fns'[f].name
          /\ ~fns'[f].body
      BY <2>3 DEF NewFn
    <3>3. \A g \in DOMAIN fns' : g = f \/ g \in 1 .. Len(fns)
      BY <1>4, <2>3
    <3> QED BY <3>1, <3>2, <3>3 DEF FnsKnown
  <2> QED BY <1>5, <2>6, <2>7, <2>8, <2>9 DEF IInv
<1> QED BY <1>6, <1>7

\* A step that changes what is in the module, not which functions there are.
LEMMA SameFns ==
    ASSUME IInv, UNCHANGED <<tables, defined, value, builtin, created>>,
           fns' \in Seq(Fns), Len(fns') = Len(fns),
           \A f \in DOMAIN fns : fns'[f].name = fns[f].name
    PROVE  NamesKnown' /\ ValuesShared'
<1>1. TypeOK /\ NamesKnown /\ ValuesShared
  BY DEF IInv
<1>2. NamesKnown'
  BY <1>1 DEF NamesKnown, Index, tables
<1>3. /\ value \in [Entities -> 0 .. Len(fns)] /\ Global_Dup_Value \in Seq(0 .. Len(fns))
      /\ fns \in Seq(Fns) /\ Len(fns) \in Nat
  BY <1>1 DEF TypeOK
<1>4. \A x \in Entities : value[x] # NoFn => value[x] \in DOMAIN fns
  BY <1>3 DEF NoFn
<1>5. \A n \in Names : Index(n) # NoIndex /\ Global_Dup_Value[Index(n)] # NoFn =>
          Global_Dup_Value[Index(n)] \in DOMAIN fns
  <2> SUFFICES ASSUME NEW n \in Names, Index(n) # NoIndex, Global_Dup_Value[Index(n)] # NoFn
               PROVE  Global_Dup_Value[Index(n)] \in DOMAIN fns
    OBVIOUS
  <2>1. Index(n) \in 1 .. Len(Global_Dup_Value)
    BY <1>1, <1>3 DEF NamesKnown, NoIndex
  <2> QED BY <1>3, <2>1 DEF NoFn
<1>6. ValuesShared'
  BY <1>1, <1>4, <1>5 DEF ValuesShared, Index, tables
<1> QED BY <1>2, <1>6

\* The body of an entity is emitted: its function enters the module.
LEMMA EmitBodyIInv ==
    ASSUME IInv, NEW e \in Entities, EmitBody(e)
    PROVE  IInv'
<1> DEFINE v == value[e]
           gs == AddFunctionToModule(fns, v, TRUE)
<1>1. /\ phase = "emit" /\ v # NoFn /\ fns' = [gs EXCEPT ![v].body = TRUE]
      /\ added' = added \cup {e}
      /\ UNCHANGED <<tables, defined, value, builtin, created, calls, phase, next>>
  BY DEF EmitBody
<1>2. TypeOK /\ NamesKnown /\ Phases /\ ValuesShared /\ FnsKnown
  BY DEF IInv
<1>3. fns \in Seq(Fns) /\ v \in DOMAIN fns
  BY <1>1, <1>2 DEF TypeOK, NoFn
<1>4. /\ gs \in Seq(Fns) /\ Len(gs) = Len(fns)
      /\ \A i \in DOMAIN fns : i # v => gs[i] = fns[i]
      /\ gs[v].name = fns[v].name /\ gs[v].llvm \in {fns[v].llvm, Renamed} /\ gs[v].inModule
  BY <1>3, AddedFns
<1> HIDE DEF gs
<1> DEFINE r == [gs[v] EXCEPT !.body = TRUE]
<1>5. v \in DOMAIN gs /\ gs[v] \in Fns
  BY <1>3, <1>4
<1>6. /\ r \in Fns /\ r.name = fns[v].name /\ r.inModule
      /\ r.llvm \in {fns[v].llvm, Renamed}
  BY <1>4, <1>5 DEF Fns
<1>7. fns' = [gs EXCEPT ![v] = r]
  BY <1>1
<1> HIDE DEF r
<1>8. /\ fns' \in Seq(Fns) /\ Len(fns') = Len(fns) /\ fns'[v] = r
      /\ \A i \in DOMAIN fns : i # v => fns'[i] = fns[i]
  BY <1>3, <1>4, <1>5, <1>6, <1>7
<1>9. NamesKnown' /\ ValuesShared'
  BY <1>1, <1>6, <1>8, SameFns
<1>10. TypeOK'
  BY <1>1, <1>2, <1>8 DEF TypeOK, tables
<1>11. Phases'
  BY <1>1, <1>2 DEF Phases, tables
<1>12. FnsKnown'
  <2>1. ASSUME NEW f \in DOMAIN fns'
        PROVE  /\ fns'[f].llvm \in {fns'[f].name, Renamed}
               /\ ~fns'[f].inModule => fns'[f].llvm = fns'[f].name
               /\ fns'[f].body => fns'[f].inModule /\ \E x \in added' : value'[x] = f
    <3>1. f \in DOMAIN fns
      BY <1>3, <1>8
    <3>2. CASE f = v
      BY <1>1, <1>2, <1>3, <1>6, <1>8, <3>2 DEF FnsKnown
    <3>3. CASE f # v
      BY <1>1, <1>2, <1>8, <3>1, <3>3 DEF FnsKnown
    <3> QED BY <3>2, <3>3
  <2> QED BY <2>1 DEF FnsKnown
<1> QED BY <1>9, <1>10, <1>11, <1>12 DEF IInv

\* A created function is added at the end, or merged.
LEMMA AddCreatedIInv ==
    ASSUME IInv, AddCreated
    PROVE  IInv'
<1> DEFINE e == created[next]
           v == value[e]
<1>1. /\ phase = "add" /\ next <= Len(created) /\ next' = next + 1
      /\ UNCHANGED <<tables, defined, value, builtin, created, added, phase>>
      /\ fns' = fns \/ fns' = AddFunctionToModule(fns, v, DeclsOnly)
  BY DEF AddCreated
<1>2. TypeOK /\ NamesKnown /\ Phases /\ ValuesShared /\ FnsKnown
  BY DEF IInv
<1>3. next \in DOMAIN created /\ e \in Entities
  BY <1>1, <1>2 DEF TypeOK
<1>4. fns \in Seq(Fns) /\ v \in DOMAIN fns
  BY <1>2, <1>3 DEF TypeOK, Phases, NoFn
<1> HIDE DEF e, v
<1>5. /\ fns' \in Seq(Fns) /\ Len(fns') = Len(fns)
      /\ \A i \in DOMAIN fns : i # v => fns'[i] = fns[i]
      /\ fns'[v].name = fns[v].name /\ fns'[v].body = fns[v].body
      /\ fns'[v].llvm \in {fns[v].llvm, Renamed}
      /\ fns[v].inModule => fns'[v].inModule
      /\ ~fns'[v].inModule => fns'[v].llvm = fns[v].llvm
  <2>1. CASE fns' = fns
    BY <1>4, <2>1
  <2>2. CASE fns' = AddFunctionToModule(fns, v, DeclsOnly)
    BY <1>4, <2>2, AddedFns, ConstantsAssumption
  <2> QED BY <1>1, <2>1, <2>2
<1>6. NamesKnown' /\ ValuesShared'
  BY <1>1, <1>5, SameFns
<1>7. TypeOK'
  <2>1. next' \in Nat \ {0}
    BY <1>1, <1>2 DEF TypeOK
  <2>2. /\ Global_Dup_Value' = Global_Dup_Value /\ value' = value /\ builtin' = builtin
        /\ Interface_Names' = Interface_Names /\ Global_Dup' = Global_Dup
        /\ scanned' = scanned /\ defined' = defined /\ added' = added
        /\ created' = created /\ phase' = phase
    BY <1>1 DEF tables
  <2>3. PICK k : k = Len(fns) /\ k = Len(fns')
    BY <1>5
  <2>4. TypeOK
    BY <1>2
  <2> HIDE <1>1, <1>2
  <2> QED BY <1>5, <2>1, <2>2, <2>3, <2>4 DEF TypeOK
<1>8. Phases'
  BY <1>1, <1>2 DEF Phases, tables
<1>9. FnsKnown'
  <2>1. ASSUME NEW f \in DOMAIN fns'
        PROVE  /\ fns'[f].llvm \in {fns'[f].name, Renamed}
               /\ ~fns'[f].inModule => fns'[f].llvm = fns'[f].name
               /\ fns'[f].body => fns'[f].inModule /\ \E x \in added' : value'[x] = f
    <3>1. f \in DOMAIN fns
      BY <1>4, <1>5
    <3>2. CASE f = v
      <4>1. /\ fns[v].llvm \in {fns[v].name, Renamed}
            /\ ~fns[v].inModule => fns[v].llvm = fns[v].name
            /\ fns[v].body => fns[v].inModule /\ \E x \in added : value[x] = v
        BY <1>2, <1>4 DEF FnsKnown
      <4> QED BY <1>1, <1>5, <3>2, <4>1
    <3>3. CASE f # v
      BY <1>1, <1>2, <1>5, <3>1, <3>3 DEF FnsKnown
    <3> QED BY <3>2, <3>3
  <2> QED BY <2>1 DEF FnsKnown
<1> QED BY <1>6, <1>7, <1>8, <1>9 DEF IInv

\* What a call of builtin N does to the functions.
LEMMA CallBuiltinFns ==
    ASSUME IInv, NEW n \in Builtins, CallBuiltin(n)
    PROVE  LET idx == Index(n)
               dup == DupValue(idx)
               f == IF builtin[n] # NoFn THEN builtin[n] ELSE IF dup # NoFn THEN dup ELSE Len(fns) + 1
           IN  /\ f \in 1 .. (Len(fns) + 1) /\ builtin' = [builtin EXCEPT ![n] = f]
               /\ f # Len(fns) + 1 => UNCHANGED <<fns, Global_Dup_Value>>
               /\ f = Len(fns) + 1 =>
                    /\ builtin[n] = NoFn /\ (idx # NoIndex => Global_Dup_Value[idx] = NoFn)
                    /\ fns' = Entered(Append(fns, NewFn(n)), f)
                    /\ fns' \in Seq(Fns) /\ Len(fns') = f
                    /\ \A g \in 1 .. Len(fns) : fns'[g] = fns[g]
                    /\ fns'[f].name = n /\ fns'[f].inModule /\ ~fns'[f].body
                    /\ fns'[f].llvm \in {n, Renamed}
                    /\ idx # NoIndex => Global_Dup_Value'[idx] = f
                    /\ \A i \in 1 .. Len(Global_Dup_Value) :
                          i # idx => Global_Dup_Value'[i] = Global_Dup_Value[i]
                    /\ Global_Dup_Value' \in Seq(0 .. Len(fns'))
                    /\ Len(Global_Dup_Value') = Len(Global_Dup_Value)
<1> DEFINE idx == Index(n)
           dup == DupValue(idx)
           f == IF builtin[n] # NoFn THEN builtin[n] ELSE IF dup # NoFn THEN dup ELSE Len(fns) + 1
           new == f = Len(fns) + 1
<1>1. /\ fns' = IF new THEN Entered(Append(fns, NewFn(n)), f) ELSE fns
      /\ Global_Dup_Value' = IF new THEN SetDupValue(idx, f) ELSE Global_Dup_Value
      /\ builtin' = [builtin EXCEPT ![n] = f]
  BY DEF CallBuiltin, Index
<1>2. TypeOK /\ NamesKnown
  BY DEF IInv
<1>3. n \in Names /\ idx \in 0 .. Len(Global_Dup_Value)
  BY <1>2, ConstantsAssumption DEF NamesKnown
<1>4. /\ Global_Dup_Value \in Seq(0 .. Len(fns)) /\ fns \in Seq(Fns) /\ Len(fns) \in Nat
      /\ builtin \in [Builtins -> 0 .. Len(fns)] /\ builtin[n] \in 0 .. Len(fns)
  BY <1>2 DEF TypeOK
<1>5. dup \in 0 .. Len(fns) /\ (idx # NoIndex => dup = Global_Dup_Value[idx])
  BY <1>3, <1>4 DEF DupValue, NoIndex, NoFn
<1>6. SetDupValue(idx, f) = IF idx = NoIndex THEN Global_Dup_Value ELSE [Global_Dup_Value EXCEPT ![idx] = f]
  BY DEF SetDupValue
<1> HIDE DEF idx, dup
<1>7. f \in 1 .. (Len(fns) + 1) /\ (new => builtin[n] = NoFn /\ dup = NoFn)
  BY <1>4, <1>5 DEF NoFn
<1> HIDE DEF f
<1>8. CASE ~new
  BY <1>1, <1>7, <1>8 DEF idx, dup, f
<1>9. CASE new
  <2> DEFINE fs == Append(fns, NewFn(n))
  <2>1. NewFn(n) \in Fns
    BY <1>3 DEF NewFn, Fns
  <2>2. /\ fs \in Seq(Fns) /\ Len(fs) = f /\ f \in DOMAIN fs /\ fs[f] = NewFn(n)
        /\ \A g \in 1 .. Len(fns) : g # f /\ g \in DOMAIN fs /\ fs[g] = fns[g]
    BY <1>4, <1>9, <2>1
  <2>3. fns' = Entered(fs, f)
    BY <1>1, <1>9
  <2> HIDE DEF fs
  <2>4. /\ fns' \in Seq(Fns) /\ Len(fns') = f
        /\ \A g \in 1 .. Len(fns) : fns'[g] = fns[g]
        /\ fns'[f].name = fs[f].name /\ fns'[f].body = fs[f].body /\ fns'[f].inModule
        /\ fns'[f].llvm \in {fs[f].llvm, Renamed}
    BY <2>2, <2>3, EnteredFns
  <2>5. fns'[f].name = n /\ ~fns'[f].body /\ fns'[f].llvm \in {n, Renamed}
    BY <2>2, <2>4 DEF NewFn
  <2>6. /\ idx # NoIndex => Global_Dup_Value'[idx] = f
        /\ \A i \in 1 .. Len(Global_Dup_Value) : i # idx => Global_Dup_Value'[i] = Global_Dup_Value[i]
        /\ Global_Dup_Value' \in Seq(0 .. f)
        /\ Len(Global_Dup_Value') = Len(Global_Dup_Value)
    <3>1. CASE idx = NoIndex
      BY <1>1, <1>4, <1>6, <1>9, <3>1
    <3>2. CASE idx # NoIndex
      <4>1. Global_Dup_Value' = [Global_Dup_Value EXCEPT ![idx] = f]
        BY <1>1, <1>6, <1>9, <3>2
      <4>2. idx \in 1 .. Len(Global_Dup_Value)
        BY <1>3, <3>2 DEF NoIndex
      <4> QED BY <1>4, <1>9, <4>1, <4>2
    <3> QED BY <3>1, <3>2
  <2> QED BY <1>1, <1>5, <1>7, <1>9, <2>3, <2>4, <2>5, <2>6 DEF idx, dup, f, fs
<1> QED BY <1>8, <1>9

\* The compiler calls a builtin.
LEMMA CallBuiltinIInv ==
    ASSUME IInv, NEW n \in Builtins, CallBuiltin(n)
    PROVE  IInv'
<1> DEFINE idx == Index(n)
           f == IF builtin[n] # NoFn THEN builtin[n]
                ELSE IF DupValue(idx) # NoFn THEN DupValue(idx) ELSE Len(fns) + 1
<1>1. /\ phase = "emit"
      /\ UNCHANGED <<Interface_Names, Global_Dup, scanned, defined, value, created, added, phase, next>>
  BY DEF CallBuiltin
<1>2. TypeOK /\ NamesKnown /\ Phases /\ ValuesShared /\ FnsKnown
  BY DEF IInv
<1>3. /\ n \in Names /\ scanned = Entities
  BY <1>1, <1>2, ConstantsAssumption DEF Phases
<1>4. /\ Global_Dup_Value \in Seq(0 .. Len(fns)) /\ fns \in Seq(Fns) /\ Len(fns) \in Nat
      /\ value \in [Entities -> 0 .. Len(fns)]
      /\ builtin \in [Builtins -> 0 .. Len(fns)]
  BY <1>2 DEF TypeOK
<1>5. Phases'
  BY <1>1, <1>2 DEF Phases
<1>6. f \in 1 .. (Len(fns) + 1) /\ builtin' = [builtin EXCEPT ![n] = f]
  BY CallBuiltinFns
<1>7. CASE f # Len(fns) + 1
  <2>1. UNCHANGED <<fns, Global_Dup_Value>>
    BY <1>7, CallBuiltinFns
  <2> HIDE DEF f
  <2>2. builtin' \in [Builtins -> 0 .. Len(fns')]
    BY <1>4, <1>6, <1>7, <2>1
  <2>3. TypeOK'
    BY <1>1, <1>2, <2>1, <2>2 DEF TypeOK
  <2>4. NamesKnown' /\ ValuesShared' /\ FnsKnown'
    BY <1>1, <1>2, <2>1 DEF NamesKnown, ValuesShared, FnsKnown, Index
  <2> QED BY <1>5, <2>3, <2>4 DEF IInv
<1>8. CASE f = Len(fns) + 1
  <2>1. /\ builtin[n] = NoFn /\ (idx # NoIndex => Global_Dup_Value[idx] = NoFn)
        /\ fns' \in Seq(Fns) /\ Len(fns') = f
        /\ \A g \in 1 .. Len(fns) : fns'[g] = fns[g]
        /\ fns'[f].name = n /\ fns'[f].inModule /\ ~fns'[f].body
        /\ fns'[f].llvm \in {n, Renamed}
        /\ idx # NoIndex => Global_Dup_Value'[idx] = f
        /\ \A i \in 1 .. Len(Global_Dup_Value) : i # idx => Global_Dup_Value'[i] = Global_Dup_Value[i]
        /\ Global_Dup_Value' \in Seq(0 .. Len(fns'))
        /\ Len(Global_Dup_Value') = Len(Global_Dup_Value)
    BY <1>8, CallBuiltinFns
  <2> HIDE DEF f
  <2>2. TypeOK'
    <3>1. value' \in [Entities -> 0 .. Len(fns')] /\ builtin' \in [Builtins -> 0 .. Len(fns')]
      BY <1>1, <1>4, <1>6, <1>8, <2>1
    <3> QED BY <1>1, <1>2, <2>1, <3>1 DEF TypeOK
  <2>3. NamesKnown'
    BY <1>1, <1>2, <2>1 DEF NamesKnown, Index
  <2>4. \A m \in Names : Index(m) \in 0 .. Len(Global_Dup_Value)
    BY <1>2 DEF NamesKnown
  <2>5. ValuesShared'
    <3>1. ASSUME NEW x \in Entities, value[x] # NoFn
          PROVE  /\ fns'[value[x]].name = NameOf[x]
                 /\ Global_Dup[x] # NoIndex => Global_Dup_Value'[Global_Dup[x]] = value[x]
      <4>1. value[x] \in 1 .. Len(fns)
        BY <1>4, <3>1 DEF NoFn
      <4>2. /\ fns[value[x]].name = NameOf[x]
            /\ Global_Dup[x] # NoIndex => Global_Dup_Value[Global_Dup[x]] = value[x]
        BY <1>2, <3>1 DEF ValuesShared
      <4>3. ASSUME Global_Dup[x] # NoIndex
            PROVE  Global_Dup[x] # idx /\ Global_Dup[x] \in 1 .. Len(Global_Dup_Value)
        <5>1. Global_Dup[x] = Index(NameOf[x]) /\ NameOf[x] \in Names
          BY <1>2, <1>3, ConstantsAssumption DEF NamesKnown
        <5> QED BY <1>4, <2>1, <2>4, <3>1, <4>2, <4>3, <5>1 DEF NoIndex
      <4> QED BY <2>1, <4>1, <4>2, <4>3
    <3>2. ASSUME NEW m \in Names, Index(m) # NoIndex, Global_Dup_Value'[Index(m)] # NoFn
          PROVE  fns'[Global_Dup_Value'[Index(m)]].name = m
      <4>1. Index(m) \in 1 .. Len(Global_Dup_Value)
        BY <1>4, <2>4, <3>2 DEF NoIndex
      <4>2. CASE Index(m) = idx
        <5>1. m = n
          BY <1>2, <1>3, <3>2, <4>2 DEF NamesKnown
        <5> QED BY <2>1, <3>2, <4>2, <5>1
      <4>3. CASE Index(m) # idx
        <5>1. Global_Dup_Value'[Index(m)] = Global_Dup_Value[Index(m)]
          BY <2>1, <4>1, <4>3
        <5>2. Global_Dup_Value[Index(m)] \in 1 .. Len(fns)
          BY <1>4, <3>2, <4>1, <5>1 DEF NoFn
        <5> QED BY <1>2, <2>1, <3>2, <5>1, <5>2 DEF ValuesShared
      <4> QED BY <4>2, <4>3
    <3> QED BY <1>1, <3>1, <3>2 DEF ValuesShared, Index
  <2>6. FnsKnown'
    <3>1. ASSUME NEW g \in DOMAIN fns'
          PROVE  /\ fns'[g].llvm \in {fns'[g].name, Renamed}
                 /\ ~fns'[g].inModule => fns'[g].llvm = fns'[g].name
                 /\ fns'[g].body => fns'[g].inModule /\ \E x \in added' : value'[x] = g
      <4>1. CASE g = f
        BY <2>1, <4>1
      <4>2. CASE g # f
        <5>1. g \in 1 .. Len(fns) /\ g \in DOMAIN fns
          BY <1>4, <1>8, <2>1, <4>2
        <5> QED BY <1>1, <1>2, <2>1, <5>1 DEF FnsKnown
      <4> QED BY <4>1, <4>2
    <3> QED BY <3>1 DEF FnsKnown
  <2> QED BY <1>5, <2>2, <2>3, <2>5, <2>6 DEF IInv
<1> QED BY <1>7, <1>8

\* The steps that change neither the functions nor what is known of names.
LEMMA PhaseStepsIInv ==
    ASSUME IInv, EndScan \/ EndEmission \/ EndAdd \/ \E e \in Entities : Call(e)
    PROVE  IInv'
<1>1. /\ UNCHANGED <<tables, defined, fns, value, builtin, created, added, next>>
      /\ phase' \in {"scan", "emit", "add", "done"} /\ (phase' = "scan" => phase = "scan")
      /\ phase' # "scan" => scanned = Entities
  BY DEF EndScan, EndEmission, EndAdd, Call, IInv, TypeOK, Phases
<1>2. TypeOK /\ NamesKnown /\ Phases /\ ValuesShared /\ FnsKnown
  BY DEF IInv
<1>3. TypeOK'
  BY <1>1, <1>2 DEF TypeOK, tables
<1>4. NamesKnown' /\ Phases'
  BY <1>1, <1>2 DEF NamesKnown, Phases, Index, tables
<1>5. ValuesShared' /\ FnsKnown'
  BY <1>1, <1>2 DEF ValuesShared, FnsKnown, Index, tables
<1> QED BY <1>3, <1>4, <1>5 DEF IInv

LEMMA NextIInv == IInv /\ [Next]_vars => IInv'
<1> SUFFICES ASSUME IInv, [Next]_vars PROVE IInv'
  OBVIOUS
<1>1. CASE \E e \in Entities : ScanEntity(e) \/ Declare(e) \/ EmitBody(e)
  BY <1>1, ScanEntityIInv, DeclareIInv, EmitBodyIInv
<1>2. CASE \E n \in Builtins : CallBuiltin(n)
  BY <1>2, CallBuiltinIInv
<1>3. CASE EndScan \/ EndEmission \/ EndAdd \/ \E e \in Entities : Call(e)
  BY <1>3, PhaseStepsIInv
<1>4. CASE AddCreated
  BY <1>4, AddCreatedIInv
<1>5. CASE UNCHANGED vars
  BY <1>5 DEF vars, tables, IInv, TypeOK, NamesKnown, Phases, ValuesShared, FnsKnown, Index
<1> QED BY <1>1, <1>2, <1>3, <1>4, <1>5 DEF Next

LEMMA IInvHolds == Spec => []IInv
<1>1. Init => IInv
  BY InitIInv
<1>2. IInv /\ [Next]_vars => IInv'
  BY NextIInv
<1> QED BY <1>1, <1>2, PTL DEF Spec

(***************************************************************************)
(* The properties                                                          *)
(***************************************************************************)
LEMMA IInvSameName == IInv => SameNameSameFunction
<1> SUFFICES ASSUME IInv, NEW d \in Entities, NEW e \in Entities, NameOf[d] = NameOf[e],
                    value[d] # NoFn, value[e] # NoFn
             PROVE  value[d] = value[e]
  BY DEF SameNameSameFunction
<1>1. NamesKnown /\ Phases /\ ValuesShared
  BY DEF IInv
<1>2. scanned = Entities
  BY <1>1 DEF Phases
<1>3. CASE Index(NameOf[d]) = NoIndex
  BY <1>1, <1>2, <1>3 DEF NamesKnown
<1>4. CASE Index(NameOf[d]) # NoIndex
  BY <1>1, <1>2, <1>4 DEF NamesKnown, ValuesShared
<1> QED BY <1>3, <1>4

\* Two entities with the same external name, both declared, have the same
\* function: the search for duplicate names and Create_Subprogram agree on it,
\* for any program.
THEOREM GlobalNamesShared == Spec => []SameNameSameFunction
<1>1. IInv => SameNameSameFunction
  BY IInvSameName
<1> QED BY <1>1, IInvHolds, PTL

LEMMA IInvMerged == IInv => OnlyDeclarationsMerged
<1> DEFINE e == created[next]
           f == value[e]
<1> SUFFICES ASSUME IInv, phase = "add", next <= Len(created), e \notin added,
                    Merges(fns, f, DeclsOnly)
             PROVE  ~fns[f].body /\ \A g \in Existing(fns, f) : ~fns[g].body
  BY DEF OnlyDeclarationsMerged
<1>1. TypeOK /\ Phases /\ ValuesShared /\ FnsKnown
  BY DEF IInv
<1>2. next \in DOMAIN created /\ e \in Entities /\ f # NoFn
  BY <1>1 DEF TypeOK, Phases
<1>3. f \in DOMAIN fns
  BY <1>1, <1>2 DEF TypeOK, NoFn
<1>4. ~fns[f].inModule
  BY <1>3 DEF Merges, Existing
<1>5. fns[f].name = NameOf[e] /\ fns[f].llvm = NameOf[e]
  BY <1>1, <1>2, <1>3, <1>4 DEF ValuesShared, FnsKnown
<1>6. ASSUME NEW g \in Existing(fns, f), fns[g].body PROVE FALSE
  <2>1. g \in DOMAIN fns /\ fns[g].inModule /\ fns[g].llvm = NameOf[e]
    BY <1>5 DEF Existing
  <2>2. PICK d \in added : value[d] = g
    BY <1>1, <1>6, <2>1 DEF FnsKnown
  <2>3. d \in Entities /\ value[d] # NoFn
    BY <1>1, <2>2 DEF TypeOK, Phases
  <2>4. fns[g].name = NameOf[d] /\ NameOf[e] # Renamed
    BY <1>1, <1>2, <2>2, <2>3, ConstantsAssumption DEF ValuesShared
  <2>5. NameOf[d] = NameOf[e]
    BY <1>1, <2>1, <2>4 DEF FnsKnown
  <2>6. g = f
    BY <1>2, <2>2, <2>3, <2>5, IInvSameName DEF SameNameSameFunction
  <2> QED BY <1>4, <2>1, <2>6
<1>7. ~fns[f].body
  BY <1>1, <1>3, <1>4 DEF FnsKnown
<1> QED BY <1>6, <1>7

\* The assertion of Add_Function_To_Module: of two functions that are merged,
\* neither has a body.
THEOREM MergedHaveNoBody == Spec => []OnlyDeclarationsMerged
<1>1. IInv => OnlyDeclarationsMerged
  BY IInvMerged
<1> QED BY <1>1, IInvHolds, PTL

(***************************************************************************)
(* Calls: every one is in the end a call of the function of the module     *)
(* that has the name that was meant, if the unit is compiled to code and   *)
(* defines no function that the compiler calls by itself without having    *)
(* registered its name.                                                    *)
(***************************************************************************)
\* The unit is compiled to code, and the names its bodies define that the
\* compiler also calls by itself are registered.
CodeEmitted == ~DeclsOnly /\ Definable \cap Builtins \subseteq Registered

\* The loop of Add_Functions_To_Module has still to come to F.
Pending(f) == \E i \in next .. Len(created) : value[created[i]] = f

\* A registered name has an index as soon as one entity with it is scanned.
RegisteredKnown ==
    \A n \in Registered : Interface_Names[n].present /\ Interface_Names[n].e = NoEntity

Bodies ==
    /\ \A e \in defined : NameOf[e] \in Definable
    /\ added \subseteq defined
    /\ \A e \in added : fns[value[e]].inModule

BuiltinsKnown ==
    \A n \in Builtins : builtin[n] # NoFn =>
        /\ phase # "scan"
        /\ fns[builtin[n]].name = n
        /\ Index(n) # NoIndex => Global_Dup_Value[Index(n)] = builtin[n]

NeverRenamed == \A f \in DOMAIN fns : fns[f].llvm = fns[f].name

\* During emission every function is in the module or will be added to it, and
\* those of the module have a body or are builtins.
Emitting ==
    phase \in {"scan", "emit"} =>
        /\ next = 1
        /\ \A f \in DOMAIN fns :
              /\ fns[f].inModule \/ Pending(f)
              /\ fns[f].inModule => fns[f].body \/ \E n \in Builtins : builtin[n] = f

CallsKnown ==
    \A c \in calls : \E n \in Names, f \in DOMAIN fns :
        c = <<n, f>> /\ fns[f].name = n /\ (fns[f].inModule \/ Pending(f))

AllAdded == phase = "done" => next > Len(created)

CInv ==
    /\ RegisteredKnown /\ Bodies /\ BuiltinsKnown /\ NeverRenamed
    /\ Emitting /\ CallsKnown /\ AllAdded

(***************************************************************************)
(* Names in the module                                                     *)
(***************************************************************************)
\* A function keeps its name when it enters a module where no other has it.
LEMMA EnteredKeepsName ==
    ASSUME NEW fs \in Seq(Fns), NEW f \in DOMAIN fs,
           \A g \in Existing(fs, f) : g = f
    PROVE  Entered(fs, f)[f].llvm = fs[f].llvm
<1> DEFINE taken == \E g \in DOMAIN fs : g # f /\ fs[g].inModule /\ fs[g].llvm = fs[f].llvm
           r == [fs[f] EXCEPT !.inModule = TRUE, !.llvm = IF taken THEN Renamed ELSE @]
<1>1. ~taken
  BY DEF Existing
<1>2. Entered(fs, f)[f] = r
  BY DEF Entered
<1>3. fs[f] \in Fns
  OBVIOUS
<1>4. r.llvm = fs[f].llvm
  BY <1>1, <1>3 DEF Fns
<1> QED BY <1>2, <1>4

\* And when it is added without duplicates; it is in the module then, unless
\* it was merged.
LEMMA AddedKeepsName ==
    ASSUME NEW fs \in Seq(Fns), NEW f \in DOMAIN fs, NEW allow \in BOOLEAN,
           ~allow \/ \A g \in Existing(fs, f) : g = f
    PROVE  LET gs == AddFunctionToModule(fs, f, allow)
           IN  /\ gs[f].llvm = fs[f].llvm
               /\ Merges(fs, f, allow) \/ gs[f].inModule
<1>1. CASE f \in Existing(fs, f)
  BY <1>1 DEF AddFunctionToModule, Existing
<1>2. CASE f \notin Existing(fs, f) /\ Merges(fs, f, allow)
  <2> DEFINE r == [fs[f] EXCEPT !.deleted = TRUE]
  <2>1. AddFunctionToModule(fs, f, allow)[f] = r
    BY <1>2 DEF AddFunctionToModule
  <2>2. fs[f] \in Fns
    OBVIOUS
  <2>3. r.llvm = fs[f].llvm
    BY <2>2 DEF Fns
  <2> QED BY <1>2, <2>1, <2>3
<1>3. CASE f \notin Existing(fs, f) /\ ~Merges(fs, f, allow)
  <2>1. AddFunctionToModule(fs, f, allow) = Entered(fs, f)
    BY <1>3 DEF AddFunctionToModule
  <2>2. \A g \in Existing(fs, f) : g = f
    BY <1>3 DEF Merges
  <2> QED BY <2>1, <2>2, EnteredFns, EnteredKeepsName
<1> QED BY <1>1, <1>2, <1>3

\* A registered name that a scanned entity has is a duplicate name.
LEMMA RegisteredHasIndex ==
    ASSUME IInv, RegisteredKnown, NEW e \in scanned, NameOf[e] \in Registered
    PROVE  Index(NameOf[e]) # NoIndex
<1>1. e \in Entities
  BY DEF IInv, TypeOK
<1>2. Interface_Names[NameOf[e]].e = NoEntity
  BY DEF RegisteredKnown
<1>3. Index(NameOf[e]) = NoIndex => Interface_Names[NameOf[e]].e = e
  BY DEF IInv, NamesKnown
<1> QED BY <1>1, <1>2, <1>3, ConstantsAssumption

\* While bodies are emitted, the function that is in the module with the name
\* of an entity that has a body is the function of that entity.
LEMMA BodyNameFree ==
    ASSUME CodeEmitted, IInv, CInv, phase = "emit",
           NEW e \in defined, value[e] # NoFn
    PROVE  \A g \in Existing(fns, value[e]) : g = value[e]
<1> SUFFICES ASSUME NEW g \in Existing(fns, value[e]) PROVE g = value[e]
  OBVIOUS
<1>1. /\ TypeOK /\ NamesKnown /\ Phases /\ ValuesShared /\ FnsKnown
      /\ RegisteredKnown /\ Bodies /\ BuiltinsKnown /\ NeverRenamed /\ Emitting
  BY DEF IInv, CInv
<1>2. /\ e \in Entities /\ e \in scanned /\ value[e] \in DOMAIN fns
      /\ NameOf[e] \in Names /\ NameOf[e] \in Definable
  BY <1>1, ConstantsAssumption DEF TypeOK, Phases, NoFn, Bodies
<1>3. g \in DOMAIN fns /\ fns[g].inModule /\ fns[g].llvm = fns[value[e]].llvm
  BY DEF Existing
<1>4. fns[g].name = NameOf[e]
  BY <1>1, <1>2, <1>3 DEF NeverRenamed, ValuesShared
<1>5. CASE fns[g].body
  <2>1. PICK d \in added : value[d] = g
    BY <1>1, <1>3, <1>5 DEF FnsKnown
  <2>2. d \in Entities /\ value[d] # NoFn /\ NameOf[d] = NameOf[e]
    BY <1>1, <1>4, <2>1 DEF TypeOK, Phases, ValuesShared
  <2> QED BY <1>2, <2>1, <2>2, IInvSameName DEF SameNameSameFunction
<1>6. CASE ~fns[g].body
  <2>1. PICK n \in Builtins : builtin[n] = g
    BY <1>1, <1>3, <1>6 DEF Emitting
  <2>2. g # NoFn
    BY <1>1, <1>3 DEF TypeOK, NoFn
  <2>3. n = NameOf[e]
    BY <1>1, <1>4, <2>1, <2>2 DEF BuiltinsKnown
  <2>4. Index(n) # NoIndex
    BY <1>1, <1>2, <2>3, RegisteredHasIndex DEF CodeEmitted
  <2>5. Global_Dup_Value[Index(n)] = g
    BY <1>1, <2>1, <2>2, <2>4 DEF BuiltinsKnown
  <2>6. Global_Dup[e] = Index(n)
    BY <1>1, <1>2, <2>3 DEF NamesKnown
  <2> QED BY <1>1, <1>2, <2>4, <2>5, <2>6 DEF ValuesShared
<1> QED BY <1>5, <1>6

\* The compiler makes a function for a builtin only if none in the module has
\* its name.
LEMMA BuiltinNameFree ==
    ASSUME CodeEmitted, IInv, CInv, phase = "emit", NEW n \in Builtins,
           builtin[n] = NoFn, Index(n) # NoIndex => Global_Dup_Value[Index(n)] = NoFn,
           NEW g \in DOMAIN fns, fns[g].inModule
    PROVE  fns[g].llvm # n
<1> SUFFICES ASSUME fns[g].llvm = n PROVE FALSE
  OBVIOUS
<1>1. /\ TypeOK /\ NamesKnown /\ Phases /\ ValuesShared /\ FnsKnown
      /\ RegisteredKnown /\ Bodies /\ BuiltinsKnown /\ NeverRenamed /\ Emitting
  BY DEF IInv, CInv
<1>2. fns[g].name = n /\ g # NoFn
  BY <1>1 DEF NeverRenamed, TypeOK, NoFn
<1>3. CASE fns[g].body
  <2>1. PICK d \in added : value[d] = g
    BY <1>1, <1>3 DEF FnsKnown
  <2>2. d \in Entities /\ d \in scanned /\ NameOf[d] = n /\ NameOf[d] \in Definable
    BY <1>1, <1>2, <2>1 DEF TypeOK, Phases, ValuesShared, Bodies
  <2>3. Index(n) # NoIndex
    BY <1>1, <2>2, RegisteredHasIndex DEF CodeEmitted
  <2>4. Global_Dup[d] = Index(n)
    BY <1>1, <2>2 DEF NamesKnown
  <2> QED BY <1>1, <1>2, <2>1, <2>2, <2>3, <2>4 DEF ValuesShared
<1>4. CASE ~fns[g].body
  <2>1. PICK m \in Builtins : builtin[m] = g
    BY <1>1, <1>4 DEF Emitting
  <2> QED BY <1>1, <1>2, <2>1 DEF BuiltinsKnown
<1> QED BY <1>3, <1>4

(***************************************************************************)
(* The steps                                                               *)
(***************************************************************************)
LEMMA InitCInv == Init => CInv
<1> SUFFICES ASSUME Init PROVE CInv
  OBVIOUS
<1> USE DEF Init
<1>1. RegisteredKnown
  BY ConstantsAssumption DEF RegisteredKnown
<1>2. Bodies
  BY DEF Bodies
<1>3. BuiltinsKnown
  BY DEF BuiltinsKnown
<1>4. NeverRenamed /\ Emitting /\ CallsKnown /\ AllAdded
  BY DEF NeverRenamed, Emitting, CallsKnown, AllAdded
<1> QED BY <1>1, <1>2, <1>3, <1>4 DEF CInv

LEMMA ScanEntityCInv ==
    ASSUME IInv, CInv, NEW e \in Entities, ScanEntity(e)
    PROVE  CInv'
<1>1. /\ phase = "scan"
      /\ UNCHANGED <<defined, fns, value, builtin, created, added, calls, phase, next>>
  BY DEF ScanEntity
<1>2. /\ RegisteredKnown /\ Bodies /\ BuiltinsKnown /\ NeverRenamed
      /\ Emitting /\ CallsKnown /\ AllAdded
  BY DEF CInv
<1>3. RegisteredKnown'
  <2> DEFINE n == NameOf[e]
  <2>1. Interface_Names \in [Names -> [present : BOOLEAN, e : Entities \cup {NoEntity}, index : Nat]]
    BY DEF IInv, TypeOK
  <2>2. n \in Names
    BY ConstantsAssumption
  <2>3. Interface_Names[n].present =>
           \E i : Interface_Names' = [Interface_Names EXCEPT ![n].index = i]
    BY DEF ScanEntity
  <2>4. ~Interface_Names[n].present =>
           \E r : Interface_Names' = [Interface_Names EXCEPT ![n] = r]
    BY DEF ScanEntity
  <2>5. ASSUME NEW m \in Registered
        PROVE  Interface_Names'[m].present /\ Interface_Names'[m].e = NoEntity
    <3>1. m \in Names /\ Interface_Names[m].present /\ Interface_Names[m].e = NoEntity
      BY <1>2, ConstantsAssumption DEF RegisteredKnown
    <3>2. CASE m = n
      <4>1. PICK i : Interface_Names' = [Interface_Names EXCEPT ![n].index = i]
        BY <2>3, <3>1, <3>2
      <4>2. Interface_Names'[n] = [Interface_Names[n] EXCEPT !.index = i]
        BY <2>1, <2>2, <4>1
      <4>3. Interface_Names[n] \in [present : BOOLEAN, e : Entities \cup {NoEntity}, index : Nat]
        BY <2>1, <2>2
      <4> QED BY <3>1, <3>2, <4>2, <4>3
    <3>3. CASE m # n
      <4>1. Interface_Names'[m] = Interface_Names[m]
        BY <2>1, <2>2, <2>3, <2>4, <3>1, <3>3
      <4> QED BY <3>1, <4>1
    <3> QED BY <3>2, <3>3
  <2> QED BY <2>5 DEF RegisteredKnown
<1>4. Bodies' /\ NeverRenamed' /\ AllAdded'
  BY <1>1, <1>2 DEF Bodies, NeverRenamed, AllAdded
<1>5. BuiltinsKnown'
  BY <1>1, <1>2 DEF BuiltinsKnown
<1>6. Emitting' /\ CallsKnown'
  BY <1>1, <1>2 DEF Emitting, CallsKnown, Pending
<1> QED BY <1>3, <1>4, <1>5, <1>6 DEF CInv

\* What a declaration does to the functions and the duplicate names.
LEMMA DeclareGrows ==
    ASSUME IInv, CInv, NEW e \in Entities, Declare(e)
    PROVE  /\ \A f \in DOMAIN fns : f \in DOMAIN fns' /\ fns'[f] = fns[f]
           /\ \A f \in DOMAIN fns' : f \in DOMAIN fns \/ (fns'[f] = NewFn(NameOf[e]) /\ Pending(f)')
           /\ \A f \in DOMAIN fns : Pending(f) => Pending(f)'
           /\ \A i \in 1 .. Len(Global_Dup_Value) :
                 Global_Dup_Value[i] # NoFn => Global_Dup_Value'[i] = Global_Dup_Value[i]
           /\ \A x \in Entities : value[x] # NoFn => value'[x] = value[x]
<1> DEFINE idx == Global_Dup[e]
           dup == DupValue(idx)
<1>1. phase = "emit" /\ value[e] = NoFn /\ next' = next /\ next = 1
  BY DEF Declare, CInv, Emitting
<1>2. TypeOK /\ Phases
  BY DEF IInv
<1>3. /\ Global_Dup_Value \in Seq(0 .. Len(fns)) /\ fns \in Seq(Fns) /\ Len(fns) \in Nat
      /\ value \in [Entities -> 0 .. Len(fns)] /\ created \in Seq(Entities) /\ Len(created) \in Nat
  BY <1>2 DEF TypeOK
<1>4. \A x \in Entities : value[x] # NoFn => value'[x] = value[x]
  <2>1. PICK f : f = IF dup # NoFn THEN dup ELSE Len(fns) + 1
    OBVIOUS
  <2>2. value' = [value EXCEPT ![e] = f]
    BY <2>1 DEF Declare, Create
  <2>3. \A x \in Entities : x # e => value'[x] = value[x]
    BY <1>3, <2>2
  <2> QED BY <1>1, <2>3
<1>5. \A i \in DOMAIN created : value'[created[i]] = value[created[i]]
  <2>1. \A i \in DOMAIN created : created[i] \in Entities /\ value[created[i]] # NoFn
    BY <1>2, <1>3 DEF Phases
  <2> QED BY <1>4, <2>1
<1>6. CASE dup # NoFn
  <2>1. UNCHANGED <<Global_Dup_Value, created, fns>>
    BY <1>6 DEF Declare, Create, FnsWith
  <2>2. ASSUME NEW f \in DOMAIN fns, Pending(f) PROVE Pending(f)'
    <3>1. PICK i \in next .. Len(created) : value[created[i]] = f
      BY <2>2 DEF Pending
    <3>2. i \in DOMAIN created
      BY <1>1, <1>3
    <3>3. i \in next' .. Len(created') /\ value'[created'[i]] = f
      BY <1>1, <1>5, <2>1, <3>1, <3>2
    <3> QED BY <3>3 DEF Pending
  <2> QED BY <1>4, <2>1, <2>2
<1>7. CASE dup = NoFn
  <2>1. PICK k : k = Len(fns) + 1
    OBVIOUS
  <2>2. /\ value' = [value EXCEPT ![e] = k] /\ Global_Dup_Value' = SetDupValue(idx, k)
        /\ created' = Append(created, e) /\ fns' = Append(fns, NewFn(NameOf[e]))
    BY <1>7, <2>1 DEF Declare, Create, FnsWith
  <2>3. /\ \A g \in DOMAIN fns : g \in DOMAIN fns' /\ fns'[g] = fns[g]
        /\ \A g \in DOMAIN fns' : g \in DOMAIN fns \/ g = k
        /\ fns'[k] = NewFn(NameOf[e])
    BY <1>3, <2>1, <2>2
  <2>4. /\ Len(created') = Len(created) + 1 /\ created'[Len(created')] = e
        /\ \A i \in 1 .. Len(created) : created'[i] = created[i]
    BY <1>3, <2>2
  <2>5. Pending(k)'
    <3>1. value'[created'[Len(created')]] = k
      BY <1>3, <2>2, <2>4
    <3>2. Len(created') \in next' .. Len(created')
      BY <1>1, <1>3, <2>4
    <3> QED BY <3>1, <3>2 DEF Pending
  <2>6. \A g \in DOMAIN fns : Pending(g) => Pending(g)'
    <3> SUFFICES ASSUME NEW g \in DOMAIN fns, Pending(g) PROVE Pending(g)'
      OBVIOUS
    <3>1. PICK i \in next .. Len(created) : value[created[i]] = g
      BY DEF Pending
    <3>2. i \in next' .. Len(created') /\ i \in 1 .. Len(created) /\ i \in DOMAIN created
      BY <1>1, <1>3, <2>4, <3>1
    <3>3. value'[created'[i]] = g
      BY <1>5, <2>4, <3>1, <3>2
    <3> QED BY <3>2, <3>3 DEF Pending
  <2>7. \A i \in 1 .. Len(Global_Dup_Value) :
           Global_Dup_Value[i] # NoFn => Global_Dup_Value'[i] = Global_Dup_Value[i]
    <3>1. CASE idx = NoIndex
      BY <2>2, <3>1 DEF SetDupValue
    <3>2. CASE idx # NoIndex
      <4>1. /\ Global_Dup_Value' = [Global_Dup_Value EXCEPT ![idx] = k]
            /\ Global_Dup_Value[idx] = NoFn
        BY <1>7, <2>2, <3>2 DEF SetDupValue, DupValue
      <4> QED BY <1>3, <4>1
    <3> QED BY <3>1, <3>2
  <2> QED BY <1>4, <2>3, <2>5, <2>6, <2>7
<1> QED BY <1>6, <1>7

LEMMA DeclareCInv ==
    ASSUME IInv, CInv, NEW e \in Entities, Declare(e)
    PROVE  CInv'
<1>1. /\ phase = "emit"
      /\ UNCHANGED <<Interface_Names, Global_Dup, scanned, defined, builtin, added, calls, phase, next>>
  BY DEF Declare
<1>2. /\ RegisteredKnown /\ Bodies /\ BuiltinsKnown /\ NeverRenamed
      /\ Emitting /\ CallsKnown /\ AllAdded /\ TypeOK /\ NamesKnown /\ Phases
  BY DEF CInv, IInv
<1>3. /\ \A f \in DOMAIN fns : f \in DOMAIN fns' /\ fns'[f] = fns[f]
      /\ \A f \in DOMAIN fns' : f \in DOMAIN fns \/ (fns'[f] = NewFn(NameOf[e]) /\ Pending(f)')
      /\ \A f \in DOMAIN fns : Pending(f) => Pending(f)'
      /\ \A i \in 1 .. Len(Global_Dup_Value) :
            Global_Dup_Value[i] # NoFn => Global_Dup_Value'[i] = Global_Dup_Value[i]
      /\ \A x \in Entities : value[x] # NoFn => value'[x] = value[x]
  BY DeclareGrows
<1>4. RegisteredKnown' /\ AllAdded'
  BY <1>1, <1>2 DEF RegisteredKnown, AllAdded
<1>5. Bodies'
  <2>1. \A x \in added : value'[x] = value[x] /\ value[x] \in DOMAIN fns
    BY <1>2, <1>3 DEF Phases, TypeOK, NoFn
  <2> QED BY <1>1, <1>2, <1>3, <2>1 DEF Bodies
<1>6. BuiltinsKnown'
  <2>1. ASSUME NEW n \in Builtins, builtin[n] # NoFn
        PROVE  /\ fns'[builtin[n]].name = n
               /\ Index(n) # NoIndex => Global_Dup_Value'[Index(n)] = builtin[n]
    <3>1. builtin[n] \in DOMAIN fns
      BY <1>2, <2>1 DEF TypeOK, NoFn
    <3>2. n \in Names /\ Index(n) \in 0 .. Len(Global_Dup_Value) /\ Len(Global_Dup_Value) \in Nat
      BY <1>2, ConstantsAssumption DEF NamesKnown, TypeOK
    <3>3. /\ fns[builtin[n]].name = n
          /\ Index(n) # NoIndex => Global_Dup_Value[Index(n)] = builtin[n]
      BY <1>2, <2>1 DEF BuiltinsKnown
    <3>4. Index(n) # NoIndex => Index(n) \in 1 .. Len(Global_Dup_Value)
      BY <3>2 DEF NoIndex
    <3> QED BY <1>3, <2>1, <3>1, <3>3, <3>4
  <2> QED BY <1>1, <1>2, <2>1 DEF BuiltinsKnown, Index
<1>7. NeverRenamed'
  BY <1>2, <1>3 DEF NeverRenamed, NewFn
<1>8. Emitting'
  <2>1. next' = 1
    BY <1>1, <1>2 DEF Emitting
  <2>2. ASSUME NEW f \in DOMAIN fns'
        PROVE  /\ fns'[f].inModule \/ Pending(f)'
               /\ fns'[f].inModule => fns'[f].body \/ \E n \in Builtins : builtin[n] = f
    <3>1. CASE f \in DOMAIN fns
      BY <1>1, <1>2, <1>3, <3>1 DEF Emitting
    <3>2. CASE f \notin DOMAIN fns
      BY <1>3, <3>2 DEF NewFn
    <3> QED BY <3>1, <3>2
  <2> QED BY <1>1, <2>1, <2>2 DEF Emitting
<1>9. CallsKnown'
  BY <1>1, <1>2, <1>3 DEF CallsKnown
<1> QED BY <1>4, <1>5, <1>6, <1>7, <1>8, <1>9 DEF CInv

LEMMA CallCInv ==
    ASSUME IInv, CInv, NEW e \in Entities, Call(e)
    PROVE  CInv'
<1>1. /\ phase = "emit" /\ value[e] # NoFn /\ calls' = calls \cup {<<NameOf[e], value[e]>>}
      /\ UNCHANGED <<tables, defined, fns, value, builtin, created, added, phase, next>>
  BY DEF Call
<1>2. /\ RegisteredKnown /\ Bodies /\ BuiltinsKnown /\ NeverRenamed
      /\ Emitting /\ CallsKnown /\ AllAdded /\ TypeOK /\ ValuesShared
  BY DEF CInv, IInv
<1>3. /\ value[e] \in DOMAIN fns /\ fns[value[e]].name = NameOf[e] /\ NameOf[e] \in Names
      /\ fns[value[e]].inModule \/ Pending(value[e])
  BY <1>1, <1>2, ConstantsAssumption DEF TypeOK, ValuesShared, Emitting, NoFn
<1>4. CallsKnown'
  <2>1. ASSUME NEW c \in calls'
        PROVE  \E n \in Names, f \in DOMAIN fns :
                  c = <<n, f>> /\ fns[f].name = n /\ (fns[f].inModule \/ Pending(f))
    <3>1. CASE c \in calls
      BY <1>2, <3>1 DEF CallsKnown
    <3>2. CASE c = <<NameOf[e], value[e]>>
      BY <1>3, <3>2
    <3> QED BY <1>1, <2>1, <3>1, <3>2
  <2> QED BY <1>1, <2>1 DEF CallsKnown, Pending
<1>5. RegisteredKnown' /\ Bodies' /\ BuiltinsKnown' /\ NeverRenamed' /\ Emitting' /\ AllAdded'
  BY <1>1, <1>2 DEF RegisteredKnown, Bodies, BuiltinsKnown, NeverRenamed, Emitting, AllAdded,
                    Pending, Index, tables
<1> QED BY <1>4, <1>5 DEF CInv

LEMMA EmitBodyCInv ==
    ASSUME CodeEmitted, IInv, CInv, NEW e \in Entities, EmitBody(e)
    PROVE  CInv'
<1>1. PICK v : v = value[e]
  OBVIOUS
<1> DEFINE gs == AddFunctionToModule(fns, v, TRUE)
<1>2. /\ phase = "emit" /\ v # NoFn /\ e \in defined /\ fns' = [gs EXCEPT ![v].body = TRUE]
      /\ added' = added \cup {e}
      /\ UNCHANGED <<tables, defined, value, builtin, created, calls, phase, next>>
  BY <1>1 DEF EmitBody
<1>3. /\ RegisteredKnown /\ Bodies /\ BuiltinsKnown /\ NeverRenamed
      /\ Emitting /\ CallsKnown /\ AllAdded /\ TypeOK /\ Phases
  BY DEF CInv, IInv
<1>4. fns \in Seq(Fns) /\ v \in DOMAIN fns
  BY <1>1, <1>2, <1>3 DEF TypeOK, NoFn
<1>5. /\ gs \in Seq(Fns) /\ Len(gs) = Len(fns)
      /\ \A i \in DOMAIN fns : i # v => gs[i] = fns[i]
      /\ gs[v].name = fns[v].name /\ gs[v].inModule
  BY <1>4, AddedFns
<1>6. gs[v].llvm = fns[v].llvm
  BY <1>1, <1>2, <1>4, BodyNameFree, AddedKeepsName
<1> HIDE DEF gs
<1> DEFINE r == [gs[v] EXCEPT !.body = TRUE]
<1>7. v \in DOMAIN gs /\ gs[v] \in Fns
  BY <1>4, <1>5
<1>8. r.name = fns[v].name /\ r.inModule /\ r.llvm = fns[v].llvm /\ r.body
  BY <1>5, <1>6, <1>7 DEF Fns
<1>9. fns' = [gs EXCEPT ![v] = r]
  BY <1>2
<1> HIDE DEF r
<1>10. /\ DOMAIN fns' = DOMAIN fns /\ fns'[v] = r
       /\ \A i \in DOMAIN fns : i # v => fns'[i] = fns[i]
  BY <1>4, <1>5, <1>7, <1>9
<1>11. \A f \in DOMAIN fns : /\ fns'[f].name = fns[f].name /\ fns'[f].llvm = fns[f].llvm
                             /\ fns[f].inModule => fns'[f].inModule
  BY <1>8, <1>10
<1>12. RegisteredKnown' /\ NeverRenamed' /\ AllAdded'
  BY <1>2, <1>3, <1>10, <1>11 DEF RegisteredKnown, NeverRenamed, AllAdded, tables
<1>13. Bodies'
  <2>1. \A x \in added : value[x] \in DOMAIN fns
    BY <1>3 DEF TypeOK, Phases, NoFn
  <2> QED BY <1>1, <1>2, <1>3, <1>8, <1>10, <1>11, <2>1 DEF Bodies
<1>14. BuiltinsKnown'
  <2>1. \A n \in Builtins : builtin[n] # NoFn => builtin[n] \in DOMAIN fns
    BY <1>3 DEF TypeOK, NoFn
  <2> QED BY <1>2, <1>3, <1>11, <2>1 DEF BuiltinsKnown, Index, tables
<1>15. \A f : Pending(f)' <=> Pending(f)
  BY <1>2 DEF Pending
<1>16. Emitting'
  <2>1. ASSUME NEW f \in DOMAIN fns
        PROVE  /\ fns'[f].inModule \/ Pending(f)
               /\ fns'[f].inModule => fns'[f].body \/ \E n \in Builtins : builtin[n] = f
    <3>1. CASE f = v
      BY <1>8, <1>10, <3>1
    <3>2. CASE f # v
      BY <1>2, <1>3, <1>10, <3>2 DEF Emitting
    <3> QED BY <3>1, <3>2
  <2> QED BY <1>2, <1>3, <1>10, <1>15, <2>1 DEF Emitting
<1>17. CallsKnown'
  BY <1>2, <1>3, <1>10, <1>11, <1>15 DEF CallsKnown
<1> QED BY <1>12, <1>13, <1>14, <1>16, <1>17 DEF CInv

LEMMA CallBuiltinCInv ==
    ASSUME CodeEmitted, IInv, CInv, NEW n \in Builtins, CallBuiltin(n)
    PROVE  CInv'
<1> DEFINE idx == Index(n)
           dup == DupValue(idx)
<1>1. PICK f : f = IF builtin[n] # NoFn THEN builtin[n] ELSE IF dup # NoFn THEN dup ELSE Len(fns) + 1
  OBVIOUS
<1>2. /\ phase = "emit" /\ calls' = calls \cup {<<n, f>>}
      /\ UNCHANGED <<Interface_Names, Global_Dup, scanned, defined, value, created, added, phase, next>>
  BY <1>1 DEF CallBuiltin, Index
<1>3. /\ RegisteredKnown /\ Bodies /\ BuiltinsKnown /\ NeverRenamed
      /\ Emitting /\ CallsKnown /\ AllAdded /\ TypeOK /\ Phases /\ NamesKnown /\ ValuesShared
  BY DEF CInv, IInv
<1>4. /\ f \in 1 .. (Len(fns) + 1) /\ builtin' = [builtin EXCEPT ![n] = f]
      /\ builtin \in [Builtins -> 0 .. Len(fns)] /\ Len(fns) \in Nat /\ fns \in Seq(Fns)
      /\ Global_Dup_Value \in Seq(0 .. Len(fns))
      /\ n \in Names /\ idx \in 0 .. Len(Global_Dup_Value)
  BY <1>1, <1>3, CallBuiltinFns, ConstantsAssumption DEF TypeOK, NamesKnown
<1>5. /\ builtin'[n] = f /\ \A m \in Builtins : m # n => builtin'[m] = builtin[m]
  BY <1>4
<1>6. \A g : Pending(g)' <=> Pending(g)
  BY <1>2 DEF Pending
<1>7. RegisteredKnown' /\ AllAdded'
  BY <1>2, <1>3 DEF RegisteredKnown, AllAdded
<1>8. CASE f # Len(fns) + 1
  <2>1. UNCHANGED <<fns, Global_Dup_Value>>
    BY <1>1, <1>8, CallBuiltinFns
  <2>2. f \in DOMAIN fns /\ f # NoFn
    BY <1>4, <1>8 DEF NoFn
  <2>3. fns[f].name = n /\ (idx # NoIndex => Global_Dup_Value[idx] = f)
    <3>1. CASE builtin[n] # NoFn
      BY <1>1, <1>3, <3>1 DEF BuiltinsKnown
    <3>2. CASE builtin[n] = NoFn
      <4>1. dup # NoFn /\ f = dup
        BY <1>1, <1>8, <3>2
      <4>2. idx # NoIndex /\ dup = Global_Dup_Value[idx]
        BY <4>1 DEF DupValue
      <4> QED BY <1>3, <1>4, <4>1, <4>2 DEF ValuesShared
    <3> QED BY <3>1, <3>2
  <2>4. BuiltinsKnown'
    <3>1. ASSUME NEW m \in Builtins, builtin'[m] # NoFn
          PROVE  /\ fns[builtin'[m]].name = m
                 /\ Index(m) # NoIndex => Global_Dup_Value[Index(m)] = builtin'[m]
      <4>1. CASE m = n
        BY <1>5, <2>3, <4>1
      <4>2. CASE m # n
        BY <1>3, <1>5, <3>1, <4>2 DEF BuiltinsKnown
      <4> QED BY <4>1, <4>2
    <3> QED BY <1>2, <2>1, <3>1 DEF BuiltinsKnown, Index
  <2>5. Bodies' /\ NeverRenamed'
    BY <1>2, <1>3, <2>1 DEF Bodies, NeverRenamed
  <2>6. Emitting'
    <3>1. \A m \in Builtins : builtin[m] # NoFn => builtin'[m] = builtin[m]
      BY <1>1, <1>5
    <3>2. \A g \in DOMAIN fns : g # NoFn
      BY <1>4 DEF NoFn
    <3> QED BY <1>2, <1>3, <1>6, <2>1, <3>1, <3>2 DEF Emitting
  <2>7. CallsKnown'
    <3>1. fns[f].inModule \/ Pending(f)
      BY <1>2, <1>3, <2>2 DEF Emitting
    <3>2. ASSUME NEW c \in calls'
          PROVE  \E m \in Names, g \in DOMAIN fns :
                    c = <<m, g>> /\ fns[g].name = m /\ (fns[g].inModule \/ Pending(g))
      <4>1. CASE c \in calls
        BY <1>3, <4>1 DEF CallsKnown
      <4>2. CASE c = <<n, f>>
        BY <1>4, <2>2, <2>3, <3>1, <4>2
      <4> QED BY <1>2, <3>2, <4>1, <4>2
    <3> QED BY <1>6, <2>1, <3>2 DEF CallsKnown
  <2> QED BY <1>7, <2>4, <2>5, <2>6, <2>7 DEF CInv
<1>9. CASE f = Len(fns) + 1
  <2>1. /\ builtin[n] = NoFn /\ (idx # NoIndex => Global_Dup_Value[idx] = NoFn)
        /\ fns' = Entered(Append(fns, NewFn(n)), f)
        /\ fns' \in Seq(Fns) /\ Len(fns') = f
        /\ \A g \in 1 .. Len(fns) : fns'[g] = fns[g]
        /\ fns'[f].name = n /\ fns'[f].inModule
        /\ idx # NoIndex => Global_Dup_Value'[idx] = f
        /\ \A i \in 1 .. Len(Global_Dup_Value) : i # idx => Global_Dup_Value'[i] = Global_Dup_Value[i]
    BY <1>1, <1>9, CallBuiltinFns
  <2>2. \A g \in DOMAIN fns : fns[g].inModule => fns[g].llvm # n
    BY <1>2, <2>1, BuiltinNameFree
  <2>3. fns'[f].llvm = n
    <3> DEFINE fs == Append(fns, NewFn(n))
    <3>1. NewFn(n) \in Fns
      BY <1>4 DEF NewFn, Fns
    <3>2. /\ fs \in Seq(Fns) /\ f \in DOMAIN fs /\ fs[f] = NewFn(n)
          /\ \A g \in DOMAIN fs : g = f \/ (g \in DOMAIN fns /\ fs[g] = fns[g])
      BY <1>4, <1>9, <3>1
    <3>3. fs[f].llvm = n
      BY <3>2 DEF NewFn
    <3> HIDE DEF fs
    <3>4. \A g \in Existing(fs, f) : g = f
      BY <2>2, <3>2, <3>3 DEF Existing
    <3>5. Entered(fs, f)[f].llvm = n
      BY <3>2, <3>3, <3>4, EnteredKeepsName
    <3> QED BY <2>1, <3>5 DEF fs
  <2>4. /\ \A g \in DOMAIN fns : g \in DOMAIN fns' /\ fns'[g] = fns[g] /\ g # f
        /\ \A g \in DOMAIN fns' : g \in DOMAIN fns \/ g = f
        /\ f \in DOMAIN fns'
    <3>1. DOMAIN fns = 1 .. Len(fns) /\ DOMAIN fns' = 1 .. (Len(fns) + 1)
      BY <1>4, <1>9, <2>1
    <3> QED BY <1>4, <1>9, <2>1, <3>1
  <2>5. NeverRenamed'
    BY <1>3, <2>1, <2>3, <2>4 DEF NeverRenamed
  <2>6. Bodies'
    <3>1. \A x \in added : value[x] \in DOMAIN fns
      BY <1>3 DEF TypeOK, Phases, NoFn
    <3> QED BY <1>2, <1>3, <2>4, <3>1 DEF Bodies
  <2>7. BuiltinsKnown'
    <3>1. ASSUME NEW m \in Builtins, builtin'[m] # NoFn
          PROVE  /\ fns'[builtin'[m]].name = m
                 /\ Index(m) # NoIndex => Global_Dup_Value'[Index(m)] = builtin'[m]
      <4>1. CASE m = n
        BY <1>5, <2>1, <4>1
      <4>2. CASE m # n
        <5>1. builtin'[m] = builtin[m] /\ builtin[m] \in DOMAIN fns /\ builtin[m] # NoFn
          BY <1>4, <1>5, <3>1, <4>2 DEF NoFn
        <5>2. /\ fns[builtin[m]].name = m
              /\ Index(m) # NoIndex => Global_Dup_Value[Index(m)] = builtin[m]
          BY <1>3, <5>1 DEF BuiltinsKnown
        <5>3. Index(m) # NoIndex => Index(m) # idx /\ Index(m) \in 1 .. Len(Global_Dup_Value)
          BY <1>3, <1>4, <4>2, ConstantsAssumption DEF NamesKnown, NoIndex
        <5> QED BY <2>1, <2>4, <5>1, <5>2, <5>3
      <4> QED BY <4>1, <4>2
    <3> QED BY <1>2, <3>1 DEF BuiltinsKnown, Index
  <2>8. Emitting'
    <3>1. ASSUME NEW g \in DOMAIN fns'
          PROVE  /\ fns'[g].inModule \/ Pending(g)
                 /\ fns'[g].inModule => fns'[g].body \/ \E m \in Builtins : builtin'[m] = g
      <4>1. CASE g = f
        BY <1>5, <2>1, <4>1
      <4>2. CASE g # f
        <5>1. g \in DOMAIN fns /\ fns'[g] = fns[g] /\ g # NoFn
          BY <1>4, <2>4, <4>2 DEF NoFn
        <5>2. /\ fns[g].inModule \/ Pending(g)
              /\ fns[g].inModule => fns[g].body \/ \E m \in Builtins : builtin[m] = g
          BY <1>2, <1>3, <5>1 DEF Emitting
        <5>3. \A m \in Builtins : builtin[m] = g => builtin'[m] = g
          BY <1>5, <2>1, <5>1
        <5> QED BY <5>1, <5>2, <5>3
      <4> QED BY <4>1, <4>2
    <3> QED BY <1>2, <1>3, <1>6, <3>1 DEF Emitting
  <2>9. CallsKnown'
    <3>1. ASSUME NEW c \in calls'
          PROVE  \E m \in Names, g \in DOMAIN fns' :
                    c = <<m, g>> /\ fns'[g].name = m /\ (fns'[g].inModule \/ Pending(g))
      <4>1. CASE c \in calls
        BY <1>3, <2>4, <4>1 DEF CallsKnown
      <4>2. CASE c = <<n, f>>
        BY <1>4, <2>1, <2>4, <4>2
      <4> QED BY <1>2, <3>1, <4>1, <4>2
    <3> QED BY <1>6, <3>1 DEF CallsKnown
  <2> QED BY <1>7, <2>5, <2>6, <2>7, <2>8, <2>9 DEF CInv
<1> QED BY <1>8, <1>9

LEMMA AddCreatedCInv ==
    ASSUME CodeEmitted, IInv, CInv, AddCreated
    PROVE  CInv'
<1>1. PICK e : e = created[next]
  OBVIOUS
<1>2. PICK v : v = value[e]
  OBVIOUS
<1>3. /\ phase = "add" /\ next <= Len(created) /\ next' = next + 1
      /\ UNCHANGED <<tables, defined, value, builtin, created, added, phase>>
  BY DEF AddCreated
<1>4. /\ RegisteredKnown /\ Bodies /\ BuiltinsKnown /\ NeverRenamed
      /\ Emitting /\ CallsKnown /\ AllAdded /\ TypeOK /\ Phases /\ ValuesShared
  BY DEF CInv, IInv
<1>5. next \in DOMAIN created /\ e \in Entities /\ next \in Nat /\ Len(created) \in Nat
  BY <1>1, <1>3, <1>4 DEF TypeOK
<1>6. fns \in Seq(Fns) /\ v \in DOMAIN fns /\ fns[v].name = NameOf[e] /\ NameOf[e] \in Names
  BY <1>1, <1>2, <1>4, <1>5, ConstantsAssumption DEF TypeOK, Phases, NoFn, ValuesShared
<1>7. \A f : Pending(f) => f = v \/ Pending(f)'
  <2> SUFFICES ASSUME NEW f, Pending(f), f # v PROVE Pending(f)'
    OBVIOUS
  <2>1. PICK i \in next .. Len(created) : value[created[i]] = f
    BY DEF Pending
  <2>2. i # next
    BY <1>1, <1>2, <2>1
  <2>3. i \in next' .. Len(created')
    BY <1>3, <1>5, <2>1, <2>2
  <2> QED BY <1>3, <2>1, <2>3 DEF Pending
<1> DEFINE gs == AddFunctionToModule(fns, v, FALSE)
           g0 == CHOOSE g \in Existing(fns, v) : TRUE
<1>8. \/ e \in added /\ UNCHANGED <<fns, calls>>
      \/ /\ fns' = gs
         /\ calls' = IF Merges(fns, v, FALSE) THEN Replaced(calls, v, g0) ELSE calls
  <2>1. DeclsOnly = FALSE
    BY ConstantsAssumption DEF CodeEmitted
  <2>2. IF e \in added THEN UNCHANGED <<fns, calls>>
        ELSE /\ fns' = AddFunctionToModule(fns, v, DeclsOnly)
             /\ calls' = IF Merges(fns, v, DeclsOnly) THEN Replaced(calls, v, g0) ELSE calls
    BY <1>1, <1>2 DEF AddCreated
  <2> HIDE DEF g0
  <2> QED BY <2>1, <2>2
<1>9. /\ gs \in Seq(Fns) /\ Len(gs) = Len(fns)
      /\ \A i \in DOMAIN fns : i # v => gs[i] = fns[i]
      /\ gs[v].name = fns[v].name /\ (fns[v].inModule => gs[v].inModule)
      /\ gs[v].llvm = fns[v].llvm
      /\ Merges(fns, v, FALSE) \/ gs[v].inModule
  BY <1>6, AddedFns, AddedKeepsName
<1> HIDE DEF gs, g0
<1>10. /\ DOMAIN fns' = DOMAIN fns
       /\ \A i \in DOMAIN fns : /\ fns'[i].name = fns[i].name /\ fns'[i].llvm = fns[i].llvm
                                /\ fns[i].inModule => fns'[i].inModule
  <2>1. CASE fns' = fns
    BY <2>1
  <2>2. CASE fns' = gs
    <3>1. DOMAIN fns' = DOMAIN fns
      BY <1>6, <1>9, <2>2
    <3>2. ASSUME NEW i \in DOMAIN fns
          PROVE  /\ fns'[i].name = fns[i].name /\ fns'[i].llvm = fns[i].llvm
                 /\ fns[i].inModule => fns'[i].inModule
      BY <1>9, <2>2
    <3> QED BY <3>1, <3>2
  <2> QED BY <1>8, <2>1, <2>2
<1>11. RegisteredKnown' /\ NeverRenamed' /\ AllAdded' /\ Emitting'
  BY <1>3, <1>4, <1>10 DEF RegisteredKnown, NeverRenamed, AllAdded, Emitting, tables
<1>12. Bodies'
  <2>1. \A x \in added : value[x] \in DOMAIN fns
    BY <1>4 DEF TypeOK, Phases, NoFn
  <2> QED BY <1>3, <1>4, <1>10, <2>1 DEF Bodies
<1>13. BuiltinsKnown'
  <2>1. \A n \in Builtins : builtin[n] # NoFn => builtin[n] \in DOMAIN fns
    BY <1>4 DEF TypeOK, NoFn
  <2> QED BY <1>3, <1>4, <1>10, <2>1 DEF BuiltinsKnown, Index, tables
<1>14. CallsKnown'
  <2>1. ASSUME NEW n \in Names, NEW f \in DOMAIN fns, fns[f].name = n,
               fns[f].inModule \/ Pending(f), f # v \/ fns'[v].inModule
        PROVE  fns'[f].name = n /\ (fns'[f].inModule \/ Pending(f)')
    BY <1>7, <1>10, <2>1
  <2>2. CASE fns'[v].inModule /\ calls' = calls
    BY <1>4, <1>10, <2>1, <2>2 DEF CallsKnown
  <2>3. CASE Merges(fns, v, FALSE) /\ fns' = gs /\ calls' = Replaced(calls, v, g0)
    <3>1. g0 \in Existing(fns, v) /\ v \notin Existing(fns, v)
      BY <2>3 DEF Merges, g0
    <3>2. g0 \in DOMAIN fns /\ fns[g0].inModule /\ fns[g0].name = fns[v].name
      BY <1>4, <1>6, <3>1 DEF Existing, NeverRenamed
    <3>3. ASSUME NEW c \in calls'
          PROVE  \E n \in Names, f \in DOMAIN fns' :
                    c = <<n, f>> /\ fns'[f].name = n /\ (fns'[f].inModule \/ Pending(f)')
      <4>1. PICK b \in calls : c = <<b[1], IF b[2] = v THEN g0 ELSE b[2]>>
        BY <2>3, <3>3 DEF Replaced
      <4>2. PICK n \in Names, f \in DOMAIN fns :
               b = <<n, f>> /\ fns[f].name = n /\ (fns[f].inModule \/ Pending(f))
        BY <1>4 DEF CallsKnown
      <4>3. CASE f = v
        <5>1. c = <<n, g0>> /\ fns'[g0].name = n /\ fns'[g0].inModule
          BY <1>10, <3>2, <4>1, <4>2, <4>3
        <5> QED BY <1>10, <3>2, <5>1
      <4>4. CASE f # v
        BY <1>10, <2>1, <4>1, <4>2, <4>4
      <4> QED BY <4>3, <4>4
    <3> QED BY <3>3 DEF CallsKnown
  <2>4. e \in added => fns[v].inModule
    BY <1>2, <1>4 DEF Bodies
  <2> QED BY <1>8, <1>9, <2>2, <2>3, <2>4
<1> QED BY <1>11, <1>12, <1>13, <1>14 DEF CInv

LEMMA PhaseStepsCInv ==
    ASSUME IInv, CInv, EndScan \/ EndEmission \/ EndAdd
    PROVE  CInv'
<1>1. /\ UNCHANGED <<tables, defined, fns, value, builtin, created, added, calls, next>>
      /\ phase' \in {"emit", "add", "done"} /\ (phase' = "emit" => phase = "scan")
      /\ phase' = "done" => next > Len(created)
  BY DEF EndScan, EndEmission, EndAdd
<1>2. /\ RegisteredKnown /\ Bodies /\ BuiltinsKnown /\ NeverRenamed
      /\ Emitting /\ CallsKnown /\ AllAdded
  BY DEF CInv
<1>3. RegisteredKnown' /\ Bodies' /\ NeverRenamed' /\ AllAdded'
  BY <1>1, <1>2 DEF RegisteredKnown, Bodies, NeverRenamed, AllAdded, tables
<1>4. BuiltinsKnown'
  BY <1>1, <1>2 DEF BuiltinsKnown, Index, tables
<1>5. Emitting' /\ CallsKnown'
  BY <1>1, <1>2 DEF Emitting, CallsKnown, Pending
<1> QED BY <1>3, <1>4, <1>5 DEF CInv

LEMMA NextCInv ==
    ASSUME CodeEmitted
    PROVE  IInv /\ CInv /\ [Next]_vars => CInv'
<1> SUFFICES ASSUME IInv, CInv, [Next]_vars PROVE CInv'
  OBVIOUS
<1>1. CASE \E e \in Entities : ScanEntity(e) \/ Declare(e) \/ Call(e) \/ EmitBody(e)
  BY <1>1, ScanEntityCInv, DeclareCInv, CallCInv, EmitBodyCInv
<1>2. CASE \E n \in Builtins : CallBuiltin(n)
  BY <1>2, CallBuiltinCInv
<1>3. CASE EndScan \/ EndEmission \/ EndAdd
  BY <1>3, PhaseStepsCInv
<1>4. CASE AddCreated
  BY <1>4, AddCreatedCInv
<1>5. CASE UNCHANGED vars
  BY <1>5 DEF vars, tables, CInv, RegisteredKnown, Bodies, BuiltinsKnown, NeverRenamed,
              Emitting, CallsKnown, AllAdded, Pending, Index
<1> QED BY <1>1, <1>2, <1>3, <1>4, <1>5 DEF Next

LEMMA CInvResolve == IInv /\ CInv => CallsResolve
<1> SUFFICES ASSUME IInv, CInv, phase = "done", NEW c \in calls
             PROVE  fns[c[2]].inModule /\ fns[c[2]].llvm = c[1]
  BY DEF CallsResolve
<1>1. NeverRenamed /\ CallsKnown /\ AllAdded
  BY DEF CInv
<1>2. PICK n \in Names, f \in DOMAIN fns :
         c = <<n, f>> /\ fns[f].name = n /\ (fns[f].inModule \/ Pending(f))
  BY <1>1 DEF CallsKnown
<1>3. next .. Len(created) = {}
  BY <1>1 DEF AllAdded, IInv, TypeOK
<1>4. ~Pending(f)
  BY <1>3 DEF Pending
<1> QED BY <1>1, <1>2, <1>4 DEF NeverRenamed

\* In the end every call is a call of a function of the module that has the
\* name that was meant: none is renamed by LLVM, and the calls of a function
\* that Add_Function_To_Module merges go to the one that stays.
THEOREM CallsGetTheirFunction ==
    ASSUME CodeEmitted
    PROVE  Spec => []CallsResolve
<1>1. Init => IInv /\ CInv
  BY InitIInv, InitCInv
<1>2. IInv /\ CInv /\ [Next]_vars => (IInv /\ CInv)'
  BY NextIInv, NextCInv
<1>3. IInv /\ CInv => CallsResolve
  BY CInvResolve
<1> QED BY <1>1, <1>2, <1>3, PTL DEF Spec
=============================================================================
