----------------------------- MODULE FlowProofs -----------------------------
(***************************************************************************)
(* The use counts of the flows are right at every step of the passes, for  *)
(* functions of any size.                                                  *)
(***************************************************************************)
EXTENDS Flow, TLAPS, FiniteSetTheorems, FunctionTheorems, SequenceTheorems

(***************************************************************************)
(* Induction and loops                                                     *)
(***************************************************************************)
LEMMA SmallestExists ==
    ASSUME NEW T, T \subseteq Nat, T # {}
    PROVE  \E x \in T : \A y \in T : x <= y
<1>1. PICK x \in T : \A y \in T : ~ (<<y, x>> \in OpToRel(<, Nat))
  BY NatLessThanWellFounded, WFMin
<1>2. ASSUME NEW y \in T PROVE x <= y
  <2>1. <<y, x>> \notin {ss \in Nat \X Nat : ss[1] < ss[2]}
    BY <1>1 DEF OpToRel
  <2>2. ~ (y < x)
    BY <2>1
  <2> QED BY <2>2
<1> QED BY <1>2

\* Induction over a set.
LEMMA SetInduction ==
    ASSUME NEW T, 0 \in T, \A n \in Nat : n \in T => n + 1 \in T
    PROVE  Nat \subseteq T
<1> DEFINE R == Nat \ T
<1> SUFFICES ASSUME R # {} PROVE FALSE
  OBVIOUS
<1>1. PICK x \in R : \A y \in R : x <= y
  BY SmallestExists
<1>2. x # 0 /\ x - 1 \in Nat /\ x - 1 + 1 = x
  OBVIOUS
<1>3. x - 1 \in R
  BY <1>2
<1> QED BY <1>1, <1>2, <1>3

\* What holds of the start of a loop and is kept by its turns holds at its end.
LEMMA LoopHolds ==
    ASSUME NEW n \in Nat, NEW D, NEW h, h[0] \in D[0],
           \A k \in 1 .. n : h[k - 1] \in D[k - 1] => h[k] \in D[k]
    PROVE  \A k \in 0 .. n : h[k] \in D[k]
<1> DEFINE T == {k \in Nat : k <= n => h[k] \in D[k]}
<1>1. 0 \in T
  OBVIOUS
<1>2. ASSUME NEW k \in Nat, k \in T PROVE k + 1 \in T
  <2> SUFFICES ASSUME k + 1 <= n PROVE h[k + 1] \in D[k + 1]
    OBVIOUS
  <2>1. h[k] \in D[k]
    BY <1>2
  <2>2. k + 1 \in 1 .. n /\ k + 1 - 1 = k
    OBVIOUS
  <2> QED BY <2>1, <2>2
<1>3. Nat \subseteq T
  <2> HIDE DEF T
  <2> QED BY <1>1, <1>2, SetInduction
<1> QED BY <1>3

\* f is the loop of n turns from x.
Turns(f, n, x, step) == f = [k \in 0 .. n |-> IF k = 0 THEN x ELSE step[<<k, f[k - 1]>>]]

\* Every loop of a given number of turns can be run.
LEMMA TurnsExist ==
    ASSUME NEW x, NEW step, NEW n \in Nat
    PROVE  \E f : Turns(f, n, x, step)
<1> DEFINE T == {m \in Nat : \E f : Turns(f, m, x, step)}
<1>1. 0 \in T
  <2> DEFINE f == [k \in 0 .. 0 |-> x]
  <2>1. Turns(f, 0, x, step)
    BY DEF Turns
  <2> HIDE DEF f
  <2> QED BY <2>1
<1>2. ASSUME NEW m \in Nat, m \in T PROVE m + 1 \in T
  <2>1. PICK g : Turns(g, m, x, step)
    BY <1>2
  <2> DEFINE last == step[<<m + 1, g[m]>>]
             f == [k \in 0 .. m + 1 |-> IF k = m + 1 THEN last ELSE g[k]]
  <2>2. \A k \in 0 .. m : g[k] = IF k = 0 THEN x ELSE step[<<k, g[k - 1]>>]
    BY <2>1 DEF Turns
  <2> HIDE DEF last
  <2>3. f[m + 1] = last /\ \A k \in 0 .. m : f[k] = g[k]
    OBVIOUS
  <2>4. f = [k \in 0 .. m + 1 |-> f[k]]
    OBVIOUS
  <2> HIDE DEF f
  <2>5. \A k \in 0 .. m + 1 : f[k] = IF k = 0 THEN x ELSE step[<<k, f[k - 1]>>]
    <3> SUFFICES ASSUME NEW k \in 0 .. m + 1
                 PROVE  f[k] = IF k = 0 THEN x ELSE step[<<k, f[k - 1]>>]
      OBVIOUS
    <3>1. CASE k = m + 1
      <4>1. k # 0 /\ k - 1 = m /\ m \in 0 .. m
        BY <3>1
      <4> QED BY <2>3, <3>1, <4>1 DEF last
    <3>2. CASE k # m + 1
      <4>1. k \in 0 .. m /\ (k # 0 => k - 1 \in 0 .. m)
        BY <3>2
      <4> QED BY <2>2, <2>3, <4>1
    <3> QED BY <3>1, <3>2
  <2>6. Turns(f, m + 1, x, step)
    BY <2>4, <2>5, Zenon DEF Turns
  <2> QED BY <2>6
<1>3. Nat \subseteq T
  <2> HIDE DEF T
  <2> QED BY <1>1, <1>2, SetInduction
<1> QED BY <1>3

\* A loop whose turns stay in D.
LoopIn(f, n, D, x, step) ==
  /\ DOMAIN f = 0 .. n /\ f = [k \in 0 .. n |-> f[k]]
  /\ f[0] = x
  /\ \A k \in 0 .. n : f[k] \in D
  /\ \A k \in 1 .. n : f[k] = step[<<k, f[k - 1]>>]

\* A loop whose turns stay in D has a run that stays in D.
LEMMA LoopExists ==
    ASSUME NEW n \in Nat, NEW D, NEW x \in D, NEW step,
           \A k \in 1 .. n : \A y \in D : step[<<k, y>>] \in D
    PROVE  \E f : LoopIn(f, n, D, x, step)
<1>1. PICK f : Turns(f, n, x, step)
  BY TurnsExist
<1>2. \A k \in 0 .. n : f[k] = IF k = 0 THEN x ELSE step[<<k, f[k - 1]>>]
  BY <1>1 DEF Turns
<1>3. DOMAIN f = 0 .. n /\ f = [k \in 0 .. n |-> f[k]]
  BY <1>1 DEF Turns
<1>4. f[0] = x /\ \A k \in 1 .. n : f[k] = step[<<k, f[k - 1]>>]
  <2>1. 0 \in 0 .. n /\ \A k \in 1 .. n : k \in 0 .. n /\ k # 0
    OBVIOUS
  <2> QED BY <1>2, <2>1
<1> DEFINE DD == [k \in 0 .. n |-> D]
<1>5. \A k \in 1 .. n : f[k - 1] \in DD[k - 1] => f[k] \in DD[k]
  <2>1. \A k \in 1 .. n : k \in 0 .. n /\ k - 1 \in 0 .. n
    OBVIOUS
  <2>2. \A k \in 0 .. n : DD[k] = D
    OBVIOUS
  <2> HIDE DEF DD
  <2> QED BY <1>4, <2>1, <2>2
<1>6. f[0] \in DD[0]
  BY <1>4
<1> HIDE DEF DD
<1>7. \A k \in 0 .. n : f[k] \in DD[k]
  BY <1>5, <1>6, LoopHolds
<1>8. \A k \in 0 .. n : f[k] \in D
  BY <1>7 DEF DD
<1>9. LoopIn(f, n, D, x, step)
  BY <1>3, <1>4, <1>8 DEF LoopIn
<1> QED BY <1>9

(***************************************************************************)
(* Counting                                                                *)
(***************************************************************************)

\* The number of references in R to flow j.
Number(R, j) == Cardinality({r \in R : r[3] = j})

\* The number of references is a natural number.
LEMMA NumberType ==
    ASSUME NEW R, NEW j, IsFiniteSet(R)
    PROVE  Number(R, j) \in Nat /\ IsFiniteSet({r \in R : r[3] = j})
BY FS_Subset, FS_CardinalityType DEF Number

\* No reference leads anywhere when there is none.
LEMMA NumberEmpty ==
    ASSUME NEW j
    PROVE  Number({}, j) = 0
<1>1. {r \in {} : r[3] = j} = {}
  OBVIOUS
<1> QED BY <1>1, FS_EmptySet DEF Number

\* References are counted part by part.
LEMMA NumberSplit ==
    ASSUME NEW R, NEW T, NEW j, IsFiniteSet(R), T \subseteq R
    PROVE  Number(R, j) = Number(R \ T, j) + Number(T, j)
<1> DEFINE A == {r \in R \ T : r[3] = j}
           B == {r \in T : r[3] = j}
           C == {r \in R : r[3] = j}
<1>1. IsFiniteSet(T) /\ IsFiniteSet(R \ T)
  BY FS_Subset
<1>2. IsFiniteSet(A) /\ IsFiniteSet(B) /\ Cardinality(A) \in Nat /\ Cardinality(B) \in Nat
  BY <1>1, FS_Subset, FS_CardinalityType
<1>3. A \cup B = C /\ A \cap B = {}
  OBVIOUS
<1>4. Cardinality(A \cup B) = Cardinality(A) + Cardinality(B) - Cardinality(A \cap B)
  BY <1>2, FS_Union
<1>5. Cardinality(A \cap B) = 0
  BY <1>3, FS_EmptySet
<1>6. Cardinality(C) = Cardinality(A) + Cardinality(B)
  <2> HIDE DEF A, B, C
  <2> QED BY <1>2, <1>3, <1>4, <1>5
<1> QED BY <1>6 DEF Number

\* A single reference counts once, for the flow it leads to.
LEMMA NumberOne ==
    ASSUME NEW x, NEW j
    PROVE  Number({x}, j) = IF x[3] = j THEN 1 ELSE 0
<1>1. CASE x[3] = j
  <2>1. {r \in {x} : r[3] = j} = {x}
    BY <1>1
  <2> QED BY <1>1, <2>1, FS_Singleton DEF Number
<1>2. CASE x[3] # j
  <2>1. {r \in {x} : r[3] = j} = {}
    BY <1>2
  <2> QED BY <1>2, <2>1, FS_EmptySet DEF Number
<1> QED BY <1>1, <1>2

\* Taking a reference away takes one from the number of its flow.
LEMMA NumberRemove ==
    ASSUME NEW R, NEW x \in R, NEW j, IsFiniteSet(R)
    PROVE  Number(R, j) = Number(R \ {x}, j) + IF x[3] = j THEN 1 ELSE 0
<1>1. Number(R, j) = Number(R \ {x}, j) + Number({x}, j)
  BY NumberSplit
<1>2. Number({x}, j) = IF x[3] = j THEN 1 ELSE 0
  BY NumberOne
<1> QED BY <1>1, <1>2

\* A new reference adds one to the number of its flow.
LEMMA NumberAdd ==
    ASSUME NEW R, NEW x, x \notin R, NEW j, IsFiniteSet(R)
    PROVE  Number(R \cup {x}, j) = Number(R, j) + IF x[3] = j THEN 1 ELSE 0
<1>1. IsFiniteSet(R \cup {x})
  BY FS_AddElement
<1>2. (R \cup {x}) \ {x} = R
  OBVIOUS
<1> QED BY <1>1, <1>2, NumberRemove

\* A flow has a positive number when some reference leads to it.
LEMMA NumberSome ==
    ASSUME NEW R, NEW j, IsFiniteSet(R)
    PROVE  Number(R, j) > 0 <=> \E r \in R : r[3] = j
<1>1. Number(R, j) = 0 <=> {r \in R : r[3] = j} = {}
  BY NumberType, FS_EmptySet DEF Number
<1>2. Number(R, j) \in Nat
  BY NumberType
<1>3. {r \in R : r[3] = j} = {} <=> ~ \E r \in R : r[3] = j
  OBVIOUS
<1>4. Number(R, j) > 0 <=> Number(R, j) # 0
  BY <1>2
<1> QED BY <1>1, <1>3, <1>4, Zenon

\* Two references to a flow make a number of two at least.
LEMMA NumberTwo ==
    ASSUME NEW R, NEW x \in R, NEW y \in R, x # y, NEW j, x[3] = j, y[3] = j, IsFiniteSet(R)
    PROVE  Number(R, j) >= 2
<1>1. IsFiniteSet(R \ {x})
  BY FS_RemoveElement
<1>2. Number(R \ {x}, j) > 0
  BY <1>1, NumberSome
<1>3. Number(R \ {x}, j) \in Nat
  BY <1>1, NumberType
<1> QED BY <1>2, <1>3, NumberRemove

(***************************************************************************)
(* Flows and the references they make                                      *)
(***************************************************************************)
IfSet == [test : Nat, target : Nat]
CaseSet == [value : Nat, target : Nat, same : BOOLEAN, line : Nat]
FlowSet == [ block : Nat, lines : BOOLEAN, uses : Nat, next : Nat, ret : Nat,
             ifs : Seq(IfSet), cases : Seq(CaseSet) ]

PartSet(flow) == Range(Parts(flow))
Used(F) == {j \in DOMAIN F : F[j].uses > 0}
SameParts(f, g) == f.next = g.next /\ f.ifs = g.ifs /\ f.cases = g.cases

\* A function over the places of a sequence is a sequence as long.
LEMMA SameDomain ==
    ASSUME NEW S, NEW T, NEW s \in Seq(S), NEW t \in [DOMAIN s -> T]
    PROVE  t \in Seq(T) /\ Len(t) = Len(s) /\ DOMAIN t = DOMAIN s
<1>1. DOMAIN s = 1 .. Len(s) /\ Len(s) \in Nat
  BY LenProperties
<1>2. t \in [1 .. Len(s) -> T]
  BY <1>1
<1> HIDE <1>2
<1> QED BY <1>1, <1>2

\* The components of a flow have their types.
LEMMA FlowParts ==
    ASSUME NEW flow \in FlowSet
    PROVE  /\ flow.next \in Nat /\ flow.uses \in Nat /\ flow.block \in Nat /\ flow.ret \in Nat
           /\ flow.ifs \in Seq(IfSet) /\ flow.cases \in Seq(CaseSet)
           /\ Len(flow.ifs) \in Nat /\ DOMAIN flow.ifs = 1 .. Len(flow.ifs)
           /\ Len(flow.cases) \in Nat /\ DOMAIN flow.cases = 1 .. Len(flow.cases)
           /\ \A k \in DOMAIN flow.ifs : flow.ifs[k] \in IfSet /\ flow.ifs[k].target \in Nat
           /\ \A k \in DOMAIN flow.cases : flow.cases[k] \in CaseSet /\ flow.cases[k].target \in Nat
<1>1. /\ flow.next \in Nat /\ flow.uses \in Nat /\ flow.block \in Nat /\ flow.ret \in Nat
      /\ flow.ifs \in Seq(IfSet) /\ flow.cases \in Seq(CaseSet)
  BY DEF FlowSet
<1>2. /\ Len(flow.ifs) \in Nat /\ DOMAIN flow.ifs = 1 .. Len(flow.ifs)
      /\ Len(flow.cases) \in Nat /\ DOMAIN flow.cases = 1 .. Len(flow.cases)
  BY <1>1, LenProperties
<1>3. /\ \A k \in DOMAIN flow.ifs : flow.ifs[k] \in IfSet
      /\ \A k \in DOMAIN flow.cases : flow.cases[k] \in CaseSet
  BY <1>1, <1>2, ElementOfSeq
<1>4. (\A x \in IfSet : x.target \in Nat) /\ (\A x \in CaseSet : x.target \in Nat)
  BY DEF IfSet, CaseSet
<1> QED BY <1>1, <1>2, <1>3, <1>4

\* A sequence of elements of S made of one element and two sequences.
Joined(u, S, a, s, m, t, n) ==
  /\ u \in Seq(S) /\ Len(u) = 1 + m + n /\ DOMAIN u = 1 .. 1 + m + n
  /\ u[1] = a
  /\ \A k \in 1 .. m : u[1 + k] = s[k]
  /\ \A k \in 1 .. n : u[1 + m + k] = t[k]
  /\ \A k \in 1 .. 1 + m + n : \/ k = 1
                               \/ \E l \in 1 .. m : k = 1 + l
                               \/ \E l \in 1 .. n : k = 1 + m + l

\* What stands where in an element followed by two sequences.
LEMMA JoinedParts ==
    ASSUME NEW S, NEW a \in S, NEW s \in Seq(S), NEW t \in Seq(S),
           NEW m \in Nat, NEW n \in Nat, Len(s) = m, Len(t) = n
    PROVE  Joined(<<a>> \o s \o t, S, a, s, m, t, n)
<1> DEFINE one == <<a>>
           two == one \o s
           u == two \o t
<1>1. one \in Seq(S) /\ Len(one) = 1 /\ one[1] = a
  OBVIOUS
<1> HIDE DEF one
<1>2. /\ two \in Seq(S) /\ Len(two) = Len(one) + Len(s)
      /\ \A i \in 1 .. Len(one) + Len(s) : two[i] = IF i <= Len(one) THEN one[i] ELSE s[i - Len(one)]
  BY <1>1, ConcatProperties
<1> HIDE DEF two
<1>3. /\ u \in Seq(S) /\ Len(u) = Len(two) + Len(t)
      /\ \A i \in 1 .. Len(two) + Len(t) : u[i] = IF i <= Len(two) THEN two[i] ELSE t[i - Len(two)]
  BY <1>2, ConcatProperties
<1> HIDE DEF u
<1>4. Len(two) = 1 + m /\ Len(u) = 1 + m + n
  BY <1>1, <1>2, <1>3
<1>5. /\ \A i \in 1 .. 1 + m : two[i] = IF i <= 1 THEN one[i] ELSE s[i - 1]
      /\ \A i \in 1 .. 1 + m + n : u[i] = IF i <= 1 + m THEN two[i] ELSE t[i - (1 + m)]
  BY <1>1, <1>2, <1>3, <1>4
<1>6. DOMAIN u = 1 .. 1 + m + n
  <2>1. DOMAIN u = 1 .. Len(u)
    BY <1>3, LenProperties
  <2> QED BY <2>1, <1>4
<1>7. u[1] = a
  <2>1. 1 \in 1 .. 1 + m + n /\ 1 <= 1 + m /\ 1 \in 1 .. 1 + m /\ 1 <= 1
    OBVIOUS
  <2> QED BY <1>1, <1>5, <2>1
<1>8. ASSUME NEW k \in 1 .. m PROVE u[1 + k] = s[k]
  <2>1. /\ 1 + k \in 1 .. 1 + m /\ 1 + k \in 1 .. 1 + m + n /\ 1 + k - 1 = k
        /\ ~(1 + k <= 1) /\ 1 + k <= 1 + m
    OBVIOUS
  <2> QED BY <1>5, <2>1
<1>9. ASSUME NEW k \in 1 .. n PROVE u[1 + m + k] = t[k]
  <2>1. /\ 1 + m + k \in 1 .. 1 + m + n /\ ~(1 + m + k <= 1 + m) /\ 1 + m + k - (1 + m) = k
    OBVIOUS
  <2> QED BY <1>5, <2>1
<1>10. ASSUME NEW k \in 1 .. 1 + m + n, k # 1, ~ \E l \in 1 .. m : k = 1 + l
       PROVE  \E l \in 1 .. n : k = 1 + m + l
  <2>1. k - 1 \notin 1 .. m
    BY <1>10
  <2>2. k - 1 - m \in 1 .. n /\ k = 1 + m + (k - 1 - m)
    BY <1>10, <2>1
  <2> QED BY <2>2
<1>11. Joined(u, S, a, s, m, t, n)
  BY <1>3, <1>4, <1>6, <1>7, <1>8, <1>9, <1>10 DEF Joined
<1> QED BY <1>11 DEF u, two, one

\* The parts of a flow and their targets, in the same order.
LEMMA PartsAre ==
    ASSUME NEW flow \in FlowSet
    PROVE  /\ PartSet(flow) = {<<"next", 0>>} \cup {<<"if", k>> : k \in DOMAIN flow.ifs}
                                              \cup {<<"case", k>> : k \in DOMAIN flow.cases}
           /\ IsFiniteSet(PartSet(flow))
           /\ \A p \in PartSet(flow) : Target(flow, p) \in Nat
           /\ Parts(flow) \in Seq(PartSet(flow)) /\ Refs(flow) \in Seq(Nat)
           /\ Len(Parts(flow)) = Len(Refs(flow))
           /\ DOMAIN Parts(flow) = DOMAIN Refs(flow) /\ DOMAIN Refs(flow) = 1 .. Len(Refs(flow))
           /\ \A q \in DOMAIN Refs(flow) : /\ Parts(flow)[q] \in PartSet(flow)
                                           /\ Refs(flow)[q] = Target(flow, Parts(flow)[q])
           /\ \A q, s \in DOMAIN Refs(flow) : Parts(flow)[q] = Parts(flow)[s] => q = s
<1> DEFINE S == {<<"next", 0>>} \cup {<<"if", k>> : k \in DOMAIN flow.ifs}
                                \cup {<<"case", k>> : k \in DOMAIN flow.cases}
           is == [k \in DOMAIN flow.ifs |-> flow.ifs[k].target]
           cs == [k \in DOMAIN flow.cases |-> flow.cases[k].target]
<1>1. PICK m \in Nat : m = Len(flow.ifs) /\ DOMAIN flow.ifs = 1 .. m
  BY FlowParts
<1>2. PICK n \in Nat : n = Len(flow.cases) /\ DOMAIN flow.cases = 1 .. n
  BY FlowParts
<1>3. IfParts(flow) \in Seq(S) /\ Len(IfParts(flow)) = m /\ \A k \in 1 .. m : IfParts(flow)[k] = <<"if", k>>
  <2>1. \A k \in DOMAIN flow.ifs : IfParts(flow)[k] = <<"if", k>>
    BY DEF IfParts
  <2>2. IfParts(flow) \in [DOMAIN flow.ifs -> S]
    BY DEF IfParts
  <2>3. flow.ifs \in Seq(IfSet)
    BY FlowParts
  <2> HIDE DEF S
  <2>4. IfParts(flow) \in Seq(S) /\ Len(IfParts(flow)) = Len(flow.ifs)
    BY <2>1, <2>2, <2>3, SameDomain
  <2> QED BY <1>1, <2>1, <2>4
<1>4. CaseParts(flow) \in Seq(S) /\ Len(CaseParts(flow)) = n /\ \A k \in 1 .. n : CaseParts(flow)[k] = <<"case", k>>
  <2>1. \A k \in DOMAIN flow.cases : CaseParts(flow)[k] = <<"case", k>>
    BY DEF CaseParts
  <2>2. CaseParts(flow) \in [DOMAIN flow.cases -> S]
    BY DEF CaseParts
  <2>3. flow.cases \in Seq(CaseSet)
    BY FlowParts
  <2> HIDE DEF S
  <2>4. CaseParts(flow) \in Seq(S) /\ Len(CaseParts(flow)) = Len(flow.cases)
    BY <2>1, <2>2, <2>3, SameDomain
  <2> QED BY <1>2, <2>1, <2>4
<1>5. is \in Seq(Nat) /\ Len(is) = m /\ \A k \in 1 .. m : is[k] = flow.ifs[k].target
  <2>1. flow.ifs \in Seq(IfSet) /\ \A k \in DOMAIN flow.ifs : flow.ifs[k].target \in Nat
    BY FlowParts
  <2>2. \A k \in DOMAIN flow.ifs : is[k] = flow.ifs[k].target
    OBVIOUS
  <2>3. is \in [DOMAIN flow.ifs -> Nat]
    BY <2>1
  <2> HIDE DEF is
  <2>4. is \in Seq(Nat) /\ Len(is) = Len(flow.ifs)
    BY <2>1, <2>3, SameDomain
  <2> QED BY <1>1, <2>2, <2>4
<1>6. cs \in Seq(Nat) /\ Len(cs) = n /\ \A k \in 1 .. n : cs[k] = flow.cases[k].target
  <2>1. flow.cases \in Seq(CaseSet) /\ \A k \in DOMAIN flow.cases : flow.cases[k].target \in Nat
    BY FlowParts
  <2>2. \A k \in DOMAIN flow.cases : cs[k] = flow.cases[k].target
    OBVIOUS
  <2>3. cs \in [DOMAIN flow.cases -> Nat]
    BY <2>1
  <2> HIDE DEF cs
  <2>4. cs \in Seq(Nat) /\ Len(cs) = Len(flow.cases)
    BY <2>1, <2>3, SameDomain
  <2> QED BY <1>2, <2>2, <2>4
<1>7. Parts(flow) = << <<"next", 0>> >> \o IfParts(flow) \o CaseParts(flow)
  BY DEF Parts
<1>8. Refs(flow) = <<flow.next>> \o is \o cs
  BY DEF Refs
<1>9. <<"next", 0>> \in S /\ flow.next \in Nat
  BY FlowParts
<1> HIDE DEF is, cs
<1>10. S = {<<"next", 0>>} \cup {<<"if", k>> : k \in 1 .. m} \cup {<<"case", k>> : k \in 1 .. n}
  BY <1>1, <1>2
<1> HIDE DEF S
<1>11. /\ Parts(flow) \in Seq(S) /\ Len(Parts(flow)) = 1 + m + n /\ DOMAIN Parts(flow) = 1 .. 1 + m + n
       /\ Parts(flow)[1] = <<"next", 0>>
       /\ \A k \in 1 .. m : Parts(flow)[1 + k] = IfParts(flow)[k]
       /\ \A k \in 1 .. n : Parts(flow)[1 + m + k] = CaseParts(flow)[k]
       /\ \A k \in 1 .. 1 + m + n : \/ k = 1
                                    \/ \E l \in 1 .. m : k = 1 + l
                                    \/ \E l \in 1 .. n : k = 1 + m + l
  <2>1. Joined(<< <<"next", 0>> >> \o IfParts(flow) \o CaseParts(flow), S, <<"next", 0>>,
               IfParts(flow), m, CaseParts(flow), n)
    BY <1>3, <1>4, <1>9, JoinedParts
  <2>2. Joined(Parts(flow), S, <<"next", 0>>, IfParts(flow), m, CaseParts(flow), n)
    BY <1>7, <2>1
  <2> QED BY <2>2 DEF Joined
<1>12. /\ Refs(flow) \in Seq(Nat) /\ Len(Refs(flow)) = 1 + m + n /\ DOMAIN Refs(flow) = 1 .. 1 + m + n
       /\ Refs(flow)[1] = flow.next
       /\ \A k \in 1 .. m : Refs(flow)[1 + k] = is[k]
       /\ \A k \in 1 .. n : Refs(flow)[1 + m + k] = cs[k]
  <2>1. Joined(<<flow.next>> \o is \o cs, Nat, flow.next, is, m, cs, n)
    BY <1>5, <1>6, <1>9, JoinedParts
  <2>2. Joined(Refs(flow), Nat, flow.next, is, m, cs, n)
    BY <1>8, <2>1
  <2> QED BY <2>2 DEF Joined
<1>13. PartSet(flow) = {Parts(flow)[q] : q \in 1 .. 1 + m + n}
  BY <1>11 DEF PartSet, Range
<1>14. PartSet(flow) = S
  <2>1. ASSUME NEW q \in 1 .. 1 + m + n PROVE Parts(flow)[q] \in S
    BY <1>3, <1>4, <1>10, <1>11
  <2>2. <<"next", 0>> \in PartSet(flow)
    <3>1. 1 \in 1 .. 1 + m + n
      OBVIOUS
    <3> QED BY <1>11, <1>13, <3>1
  <2>3. ASSUME NEW k \in 1 .. m PROVE <<"if", k>> \in PartSet(flow)
    <3>1. 1 + k \in 1 .. 1 + m + n
      OBVIOUS
    <3>2. Parts(flow)[1 + k] = <<"if", k>>
      BY <1>3, <1>11
    <3> QED BY <1>13, <3>1, <3>2
  <2>4. ASSUME NEW k \in 1 .. n PROVE <<"case", k>> \in PartSet(flow)
    <3>1. 1 + m + k \in 1 .. 1 + m + n
      OBVIOUS
    <3>2. Parts(flow)[1 + m + k] = <<"case", k>>
      BY <1>4, <1>11
    <3> QED BY <1>13, <3>1, <3>2
  <2> QED BY <1>10, <1>13, <2>1, <2>2, <2>3, <2>4
<1>15. IsFiniteSet(PartSet(flow))
  <2> DEFINE f == [q \in 1 .. 1 + m + n |-> Parts(flow)[q]]
  <2>1. f \in Surjection(1 .. 1 + m + n, PartSet(flow))
    <3>1. DOMAIN f = 1 .. 1 + m + n /\ \A q \in 1 .. 1 + m + n : f[q] = Parts(flow)[q]
      OBVIOUS
    <3>2. f \in [1 .. 1 + m + n -> PartSet(flow)]
      BY <1>13
    <3> HIDE DEF f
    <3> QED BY <1>13, <3>1, <3>2 DEF Surjection
  <2>2. 1 \in Int /\ 1 + m + n \in Int
    OBVIOUS
  <2>3. IsFiniteSet(1 .. 1 + m + n)
    BY <2>2, FS_Interval
  <2> HIDE DEF f
  <2> QED BY <2>1, <2>3, FS_Surjection
<1>16. ASSUME NEW p \in PartSet(flow) PROVE Target(flow, p) \in Nat
  <2>1. /\ \A k \in DOMAIN flow.ifs : flow.ifs[k].target \in Nat
        /\ \A k \in DOMAIN flow.cases : flow.cases[k].target \in Nat
    BY FlowParts
  <2>2. CASE p = <<"next", 0>>
    BY <1>9, <2>2 DEF Target
  <2>3. ASSUME NEW k \in 1 .. m, p = <<"if", k>> PROVE Target(flow, p) \in Nat
    BY <1>1, <2>1, <2>3 DEF Target
  <2>4. ASSUME NEW k \in 1 .. n, p = <<"case", k>> PROVE Target(flow, p) \in Nat
    BY <1>2, <2>1, <2>4 DEF Target
  <2> QED BY <1>10, <1>14, <2>2, <2>3, <2>4
<1>17. ASSUME NEW q \in 1 .. 1 + m + n PROVE Refs(flow)[q] = Target(flow, Parts(flow)[q])
  <2>1. CASE q = 1
    BY <1>11, <1>12, <2>1 DEF Target
  <2>2. ASSUME NEW l \in 1 .. m, q = 1 + l PROVE Refs(flow)[q] = Target(flow, Parts(flow)[q])
    <3>1. Parts(flow)[q] = <<"if", l>> /\ Refs(flow)[q] = flow.ifs[l].target
      BY <1>3, <1>5, <1>11, <1>12, <2>2
    <3> QED BY <3>1 DEF Target
  <2>3. ASSUME NEW l \in 1 .. n, q = 1 + m + l PROVE Refs(flow)[q] = Target(flow, Parts(flow)[q])
    <3>1. Parts(flow)[q] = <<"case", l>> /\ Refs(flow)[q] = flow.cases[l].target
      BY <1>4, <1>6, <1>11, <1>12, <2>3
    <3> QED BY <3>1 DEF Target
  <2> QED BY <1>11, <2>1, <2>2, <2>3
<1>18. ASSUME NEW q \in 1 .. 1 + m + n, NEW s \in 1 .. 1 + m + n, Parts(flow)[q] = Parts(flow)[s]
       PROVE  q = s
  <2>1. ASSUME NEW k \in 1 .. 1 + m + n
        PROVE  \/ k = 1 /\ Parts(flow)[k] = <<"next", 0>>
               \/ \E l \in 1 .. m : k = 1 + l /\ Parts(flow)[k] = <<"if", l>>
               \/ \E l \in 1 .. n : k = 1 + m + l /\ Parts(flow)[k] = <<"case", l>>
    <3>1. CASE k = 1
      BY <1>11, <3>1
    <3>2. ASSUME NEW l \in 1 .. m, k = 1 + l PROVE Parts(flow)[k] = <<"if", l>>
      BY <1>3, <1>11, <3>2
    <3>3. ASSUME NEW l \in 1 .. n, k = 1 + m + l PROVE Parts(flow)[k] = <<"case", l>>
      BY <1>4, <1>11, <3>3
    <3> QED BY <1>11, <3>1, <3>2, <3>3
  <2> QED BY <1>18, <2>1
<1>19. \A q \in 1 .. 1 + m + n : Parts(flow)[q] \in PartSet(flow)
  BY <1>13
<1>20. PartSet(flow) = {<<"next", 0>>} \cup {<<"if", k>> : k \in DOMAIN flow.ifs}
                                       \cup {<<"case", k>> : k \in DOMAIN flow.cases}
  BY <1>14 DEF S
<1>21. /\ Parts(flow) \in Seq(PartSet(flow)) /\ Refs(flow) \in Seq(Nat)
       /\ Len(Parts(flow)) = Len(Refs(flow))
       /\ DOMAIN Parts(flow) = DOMAIN Refs(flow) /\ DOMAIN Refs(flow) = 1 .. Len(Refs(flow))
  BY <1>11, <1>12, <1>14
<1> QED BY <1>12, <1>15, <1>16, <1>17, <1>18, <1>19, <1>20, <1>21

\* A reference is made by a part of a flow.
LEMMA ReferenceIs ==
    ASSUME NEW F, NEW js, NEW r
    PROVE  r \in References(F, js) <=>
             \E j \in js : \E p \in PartSet(F[j]) : r = <<j, p, Target(F[j], p)>>
BY DEF References, PartSet

\* The components of a reference.
LEMMA ReferenceParts ==
    ASSUME NEW F, NEW js, NEW r \in References(F, js)
    PROVE  /\ r[1] \in js /\ r[2] \in PartSet(F[r[1]]) /\ r[3] = Target(F[r[1]], r[2])
           /\ r = <<r[1], r[2], r[3]>>
BY ReferenceIs

\* The flows of a graph make finitely many references.
LEMMA ReferencesFinite ==
    ASSUME NEW F \in Seq(FlowSet), NEW js, js \subseteq DOMAIN F
    PROVE  IsFiniteSet(References(F, js))
<1> DEFINE refs == [j \in js |-> {<<j, p, Target(F[j], p)>> : p \in PartSet(F[j])}]
           S == {refs[j] : j \in js}
<1>1. IsFiniteSet(js)
  <2>1. DOMAIN F = 1 .. Len(F) /\ Len(F) \in Nat
    BY LenProperties
  <2>2. 1 \in Int /\ Len(F) \in Int
    BY <2>1
  <2>3. IsFiniteSet(DOMAIN F)
    BY <2>1, <2>2, FS_Interval
  <2> QED BY <2>3, FS_Subset
<1>2. \A j \in js : IsFiniteSet(refs[j])
  <2> SUFFICES ASSUME NEW j \in js PROVE IsFiniteSet(refs[j])
    OBVIOUS
  <2> DEFINE f == [p \in PartSet(F[j]) |-> <<j, p, Target(F[j], p)>>]
  <2>1. F[j] \in FlowSet
    OBVIOUS
  <2>2. IsFiniteSet(PartSet(F[j]))
    BY <2>1, PartsAre
  <2>3. refs[j] = {<<j, p, Target(F[j], p)>> : p \in PartSet(F[j])}
    OBVIOUS
  <2> HIDE DEF refs
  <2>4. f \in Surjection(PartSet(F[j]), refs[j])
    BY <2>3 DEF Surjection
  <2> QED BY <2>2, <2>4, FS_Surjection
<1> HIDE DEF refs
<1>3. IsFiniteSet(S)
  <2> DEFINE f == [j \in js |-> refs[j]]
  <2>1. f \in Surjection(js, S)
    BY DEF Surjection
  <2> QED BY <1>1, <2>1, FS_Surjection
<1>4. IsFiniteSet(UNION S)
  BY <1>2, <1>3, FS_UNION
<1>5. References(F, js) = UNION S
  BY DEF References, refs, PartSet
<1> QED BY <1>4, <1>5

\* References are those of one set of flows and of the other.
LEMMA ReferencesSplit ==
    ASSUME NEW F, NEW js, NEW ks
    PROVE  /\ References(F, js \cup ks) = References(F, js) \cup References(F, ks)
           /\ js \cap ks = {} => References(F, js) \cap References(F, ks) = {}
           /\ js \subseteq ks => References(F, js) \subseteq References(F, ks)
<1>1. References(F, js \cup ks) = References(F, js) \cup References(F, ks)
  BY ReferenceIs
<1>2. js \cap ks = {} => References(F, js) \cap References(F, ks) = {}
  BY ReferenceParts
<1>3. js \subseteq ks => References(F, js) \subseteq References(F, ks)
  BY ReferenceIs
<1> QED BY <1>1, <1>2, <1>3

\* Flows with the same parts make the same references.
LEMMA ReferencesSame ==
    ASSUME NEW F, NEW G, NEW js, \A j \in js : SameParts(F[j], G[j])
    PROVE  /\ References(F, js) = References(G, js)
           /\ \A j \in js : /\ Parts(F[j]) = Parts(G[j]) /\ PartSet(F[j]) = PartSet(G[j])
                            /\ Refs(F[j]) = Refs(G[j])
                            /\ \A p \in PartSet(F[j]) : Target(F[j], p) = Target(G[j], p)
<1>1. \A j \in js : Parts(F[j]) = Parts(G[j]) /\ Refs(F[j]) = Refs(G[j])
  BY ZenonT(40) DEF SameParts, Parts, Refs, IfParts, CaseParts
<1>2. \A j \in js : PartSet(F[j]) = PartSet(G[j])
  BY <1>1 DEF PartSet
<1>3. \A j \in js : \A p : Target(F[j], p) = Target(G[j], p)
  BY DEF SameParts, Target
<1>4. \A r : r \in References(F, js) <=> r \in References(G, js)
  BY <1>2, <1>3, ReferenceIs
<1> QED BY <1>1, <1>2, <1>3, <1>4

(***************************************************************************)
(* Counting the uses                                                       *)
(***************************************************************************)

\* G has the flows of F, with the same parts for those of B.
Kept(F, G, B) ==
  /\ DOMAIN G = DOMAIN F
  /\ \A j \in DOMAIN F : G[j].block = F[j].block
  /\ \A j \in B : SameParts(F[j], G[j])

\* G is F with other counts.
Recounted(F, G, u) ==
  /\ G \in Seq(FlowSet)
  /\ Kept(F, G, DOMAIN F)
  /\ \A j \in DOMAIN F : G[j].uses = u[j]

\* The uses are those that are given and the references of the flows in use, the
\* references of X apart.
Counted(F, e, X) ==
  \A j \in DOMAIN F : F[j].uses = e[j] + Number(References(F, Used(F)) \ X, j)

\* The flows of A are in use whatever happens to other flows.
Held(F, e, A, X) ==
  /\ A \subseteq Used(F)
  /\ \A r \in X : r[1] \in A
  /\ \A k \in A : e[k] > 0 \/ \E r \in References(F, A) \ X : r[3] = k

\* Flows can be given any counts.
LEMMA RecountAll ==
    ASSUME NEW F \in Seq(FlowSet), NEW u \in [DOMAIN F -> Nat]
    PROVE  Recounted(F, [j \in DOMAIN F |-> [F[j] EXCEPT !.uses = u[j]]], u)
<1> DEFINE G == [j \in DOMAIN F |-> [F[j] EXCEPT !.uses = u[j]]]
<1>1. ASSUME NEW j \in DOMAIN F
      PROVE  /\ G[j] \in FlowSet /\ G[j].uses = u[j] /\ G[j].block = F[j].block
             /\ SameParts(F[j], G[j])
  <2>1. F[j] \in FlowSet /\ u[j] \in Nat
    BY LenProperties, ElementOfSeq
  <2>2. G[j] = [F[j] EXCEPT !.uses = u[j]]
    OBVIOUS
  <2> QED BY <2>1, <2>2 DEF FlowSet, SameParts
<1>2. DOMAIN G = DOMAIN F
  OBVIOUS
<1>3. G \in [DOMAIN F -> FlowSet]
  BY <1>1
<1> HIDE DEF G
<1>4. G \in Seq(FlowSet)
  BY <1>3, SameDomain
<1>5. Recounted(F, G, u)
  BY <1>1, <1>2, <1>4 DEF Recounted, Kept
<1> QED BY <1>5 DEF G

\* One flow can be given any count.
LEMMA RecountOne ==
    ASSUME NEW F \in Seq(FlowSet), NEW i \in DOMAIN F, NEW n \in Nat
    PROVE  Recounted(F, [F EXCEPT ![i].uses = n],
                     [j \in DOMAIN F |-> IF j = i THEN n ELSE F[j].uses])
<1> DEFINE G == [F EXCEPT ![i].uses = n]
           u == [j \in DOMAIN F |-> IF j = i THEN n ELSE F[j].uses]
<1>1. ASSUME NEW j \in DOMAIN F
      PROVE  /\ G[j] \in FlowSet /\ G[j].uses = u[j] /\ G[j].block = F[j].block
             /\ SameParts(F[j], G[j])
  <2>1. F[j] \in FlowSet
    BY LenProperties, ElementOfSeq
  <2>2. G[j] = IF j = i THEN [F[j] EXCEPT !.uses = n] ELSE F[j]
    OBVIOUS
  <2> QED BY <2>1, <2>2 DEF FlowSet, SameParts
<1>2. DOMAIN G = DOMAIN F
  OBVIOUS
<1>3. G \in [DOMAIN F -> FlowSet]
  BY <1>1
<1> HIDE DEF G, u
<1>4. G \in Seq(FlowSet)
  BY <1>3, SameDomain
<1>5. Recounted(F, G, u)
  BY <1>1, <1>2, <1>4 DEF Recounted, Kept
<1> QED BY <1>5 DEF G, u

\* The flows of a graph and of its parts are finitely many.
LEMMA UsedFinite ==
    ASSUME NEW F \in Seq(FlowSet)
    PROVE  /\ IsFiniteSet(DOMAIN F) /\ Cardinality(DOMAIN F) = Len(F) /\ Len(F) \in Nat
           /\ Used(F) \subseteq DOMAIN F
           /\ IsFiniteSet(Used(F))
           /\ \A B : B \subseteq DOMAIN F => IsFiniteSet(B) /\ IsFiniteSet(References(F, B))
           /\ \A j \in DOMAIN F : F[j] \in FlowSet /\ F[j].uses \in Nat
<1>1. DOMAIN F = 1 .. Len(F) /\ Len(F) \in Nat
  BY LenProperties
<1>2. 1 \in Int /\ Len(F) \in Int
  BY <1>1
<1>3. IsFiniteSet(1 .. Len(F)) /\ Cardinality(1 .. Len(F)) = IF 1 > Len(F) THEN 0 ELSE Len(F) - 1 + 1
  BY <1>2, FS_Interval
<1>4. Cardinality(1 .. Len(F)) = Len(F)
  BY <1>1, <1>3
<1>5. Used(F) \subseteq DOMAIN F
  BY DEF Used
<1>6. \A B : B \subseteq DOMAIN F => IsFiniteSet(B)
  BY <1>1, <1>3, FS_Subset
<1>7. \A B : B \subseteq DOMAIN F => IsFiniteSet(References(F, B))
  BY ReferencesFinite
<1>8. \A j \in DOMAIN F : F[j] \in FlowSet
  BY <1>1, ElementOfSeq
<1>9. \A j \in DOMAIN F : F[j].uses \in Nat
  BY <1>8, FlowParts
<1> QED BY <1>1, <1>3, <1>4, <1>5, <1>6, <1>7, <1>8, <1>9

(***************************************************************************)
(* Remove_Use                                                              *)
(***************************************************************************)

\* What is true while references are released: F is the graph before, e and X
\* tell what the counts will be.
Releasing(s, F, e, A, X) ==
  /\ s.flows \in Seq(FlowSet) /\ Kept(F, s.flows, DOMAIN F)
  /\ s.refs \subseteq References(F, DOMAIN F)
  /\ A \subseteq Used(s.flows)
  /\ \A j \in DOMAIN F :
       s.flows[j].uses = e[j] + Number(References(F, Used(s.flows)) \ X, j) + Number(s.refs, j)

\* Each round leaves fewer flows in use, or is the last one.
LEMMA ReleaseStep ==
    ASSUME NEW F \in Seq(FlowSet), NEW e \in [DOMAIN F -> Nat], NEW A, NEW X, Held(F, e, A, X),
           NEW s, Releasing(s, F, e, A, X)
    PROVE  /\ Releasing(Release(s), F, e, A, X)
           /\ \/ Release(s).refs = {}
              \/ Cardinality(Used(Release(s).flows)) < Cardinality(Used(s.flows))
<1> DEFINE G == [j \in DOMAIN s.flows |->
                   [s.flows[j] EXCEPT !.uses = @ - Cardinality({r \in s.refs : r[3] = j})]]
           unused == {j \in DOMAIN G : s.flows[j].uses > 0 /\ G[j].uses = 0}
           live == References(F, Used(s.flows)) \ X
<1>1. CASE s.refs = {}
  <2>1. Release(s) = s
    BY <1>1 DEF Release
  <2> QED BY <1>1, <2>1
<1>2. CASE s.refs # {}
  <2>1. Release(s) = [flows |-> G, refs |-> References(G, unused)]
    BY <1>2 DEF Release
  <2>2. /\ s.flows \in Seq(FlowSet) /\ DOMAIN s.flows = DOMAIN F
        /\ s.refs \subseteq References(F, DOMAIN F) /\ IsFiniteSet(s.refs)
        /\ Used(s.flows) \subseteq DOMAIN F
    <3>1. IsFiniteSet(References(F, DOMAIN F))
      BY UsedFinite
    <3>2. s.refs \subseteq References(F, DOMAIN F)
      BY DEF Releasing
    <3>3. IsFiniteSet(s.refs)
      BY <3>1, <3>2, FS_Subset
    <3> QED BY <3>2, <3>3 DEF Releasing, Kept, Used
  <2>3. IsFiniteSet(live)
    BY <2>2, UsedFinite, FS_Difference
  <2> DEFINE u == [j \in DOMAIN F |-> e[j] + Number(live, j)]
  <2>4. ASSUME NEW j \in DOMAIN F
        PROVE  /\ u[j] \in Nat /\ s.flows[j].uses \in Nat
               /\ u[j] = s.flows[j].uses - Cardinality({r \in s.refs : r[3] = j})
               /\ u[j] <= s.flows[j].uses
    <3>1. Number(live, j) \in Nat /\ Number(s.refs, j) \in Nat
      BY <2>2, <2>3, NumberType
    <3>2. s.flows[j].uses = e[j] + Number(live, j) + Number(s.refs, j)
      BY DEF Releasing
    <3>3. Number(s.refs, j) = Cardinality({r \in s.refs : r[3] = j})
      BY DEF Number
    <3> HIDE DEF live
    <3>4. u[j] = e[j] + Number(live, j)
      OBVIOUS
    <3>5. e[j] \in Nat
      OBVIOUS
    <3> HIDE DEF u
    <3> QED BY <3>1, <3>2, <3>3, <3>4, <3>5
  <2>5. u \in [DOMAIN F -> Nat]
    BY <2>4
  <2>6. G = [j \in DOMAIN s.flows |-> [s.flows[j] EXCEPT !.uses = u[j]]]
    BY <2>2, <2>4
  <2> HIDE DEF u
  <2>7. Recounted(s.flows, G, u)
    BY <2>2, <2>5, <2>6, RecountAll
  <2> HIDE DEF G
  <2>8. G \in Seq(FlowSet) /\ Kept(F, G, DOMAIN F) /\ \A j \in DOMAIN F : G[j].uses = u[j]
    <3>1. Kept(F, s.flows, DOMAIN F)
      BY DEF Releasing
    <3> QED BY <2>7, <3>1, <2>2 DEF Recounted, Kept, SameParts
  <2>9. /\ Used(G) \subseteq Used(s.flows) /\ unused = Used(s.flows) \ Used(G)
        /\ unused \subseteq DOMAIN F
    <3>1. DOMAIN G = DOMAIN F
      BY <2>8 DEF Kept
    <3>2. ASSUME NEW j \in DOMAIN F
          PROVE  /\ G[j].uses \in Nat /\ s.flows[j].uses \in Nat /\ G[j].uses <= s.flows[j].uses
      BY <2>4, <2>8
    <3>3. Used(s.flows) = {j \in DOMAIN F : s.flows[j].uses > 0}
      BY <2>2 DEF Used
    <3>4. Used(G) = {j \in DOMAIN F : G[j].uses > 0}
      BY <3>1 DEF Used
    <3>5. unused = {j \in DOMAIN F : s.flows[j].uses > 0 /\ G[j].uses = 0}
      BY <3>1
    <3> HIDE DEF unused
    <3>6. \A j \in DOMAIN F : G[j].uses > 0 => s.flows[j].uses > 0
      BY <3>2
    <3>7. \A j \in DOMAIN F : G[j].uses = 0 <=> ~ (G[j].uses > 0)
      BY <3>2
    <3> QED BY <3>3, <3>4, <3>5, <3>6, <3>7
  <2> HIDE DEF unused
  <2>10. A \subseteq Used(G)
    <3> SUFFICES ASSUME NEW k \in A PROVE k \in Used(G)
      OBVIOUS
    <3>1. k \in DOMAIN F /\ A \subseteq Used(s.flows)
      BY <2>2 DEF Releasing
    <3>2. G[k].uses = e[k] + Number(live, k)
      BY <2>8, <3>1 DEF u
    <3>3. Number(live, k) \in Nat /\ e[k] \in Nat
      BY <2>3, <3>1, NumberType
    <3>4. CASE e[k] > 0
      <4>1. G[k].uses > 0
        BY <3>2, <3>3, <3>4
      <4> QED BY <4>1, <2>8, <3>1 DEF Used, Kept
    <3>5. ASSUME NEW r \in References(F, A) \ X, r[3] = k PROVE k \in Used(G)
      <4>1. r \in live
        BY <3>1, ReferencesSplit
      <4> HIDE DEF live
      <4>2. Number(live, k) > 0
        BY <2>3, <3>5, <4>1, NumberSome
      <4>3. G[k].uses > 0
        BY <3>2, <3>3, <4>2
      <4> QED BY <4>3, <2>8, <3>1 DEF Used, Kept
    <3> QED BY <3>4, <3>5 DEF Held
  <2>11. References(G, unused) = References(F, unused)
    <3>1. \A j \in unused : SameParts(F[j], G[j])
      BY <2>8, <2>9 DEF Kept
    <3> QED BY <3>1, ReferencesSame
  <2>12. References(F, unused) \subseteq References(F, DOMAIN F)
    BY <2>9, ReferencesSplit
  <2>13. ASSUME NEW j \in DOMAIN F
         PROVE  G[j].uses = e[j] + Number(References(F, Used(G)) \ X, j)
                              + Number(References(F, unused), j)
    <3>1. References(F, unused) \subseteq live
      <4>1. References(F, unused) \subseteq References(F, Used(s.flows))
        BY <2>9, ReferencesSplit
      <4>2. ASSUME NEW r \in References(F, unused) PROVE r \notin X
        <5>1. r[1] \in unused
          BY ReferenceParts
        <5> QED BY <5>1, <2>9, <2>10 DEF Held
      <4> QED BY <4>1, <4>2
    <3>2. live \ References(F, unused) = References(F, Used(G)) \ X
      <4>1. Used(s.flows) = Used(G) \cup unused /\ Used(G) \cap unused = {}
        BY <2>9
      <4>2. /\ References(F, Used(s.flows)) = References(F, Used(G)) \cup References(F, unused)
            /\ References(F, Used(G)) \cap References(F, unused) = {}
        BY <4>1, ReferencesSplit
      <4> QED BY <4>2
    <3> HIDE DEF live
    <3>3. Number(live, j) = Number(live \ References(F, unused), j) + Number(References(F, unused), j)
      BY <2>3, <3>1, NumberSplit
    <3>4. G[j].uses = e[j] + Number(live, j)
      BY <2>8 DEF u
    <3>5. Number(live \ References(F, unused), j) \in Nat /\ Number(References(F, unused), j) \in Nat
      <4>1. IsFiniteSet(live \ References(F, unused)) /\ IsFiniteSet(References(F, unused))
        BY <2>3, <3>1, FS_Subset
      <4> QED BY <4>1, NumberType
    <3>6. e[j] \in Nat
      OBVIOUS
    <3>7. Number(live, j) = Number(References(F, Used(G)) \ X, j) + Number(References(F, unused), j)
      BY <3>2, <3>3
    <3>8. PICK a \in Nat : a = Number(References(F, Used(G)) \ X, j)
      BY <3>2, <3>5
    <3>9. PICK b \in Nat : b = Number(References(F, unused), j)
      BY <3>5
    <3> QED BY <3>4, <3>6, <3>7, <3>8, <3>9
  <2>14. Releasing(Release(s), F, e, A, X)
    <3>1. Release(s).flows = G /\ Release(s).refs = References(F, unused)
      BY <2>1, <2>11
    <3> QED BY <2>8, <2>10, <2>12, <2>13, <3>1 DEF Releasing
  <2>15. CASE unused = {}
    <3>1. References(G, unused) = {}
      BY <2>15 DEF References
    <3> QED BY <2>1, <2>14, <3>1
  <2>16. CASE unused # {}
    <3>1. IsFiniteSet(Used(s.flows))
      BY <2>2, UsedFinite
    <3>2. Cardinality(Used(G)) <= Cardinality(Used(s.flows))
          /\ (Cardinality(Used(s.flows)) = Cardinality(Used(G)) => Used(s.flows) = Used(G))
          /\ IsFiniteSet(Used(G))
      BY <2>9, <3>1, FS_Subset
    <3>3. Used(s.flows) # Used(G)
      BY <2>9, <2>16
    <3>4. Cardinality(Used(s.flows)) \in Nat /\ Cardinality(Used(G)) \in Nat
      BY <3>1, <3>2, FS_CardinalityType
    <3>5. Cardinality(Used(G)) < Cardinality(Used(s.flows))
      BY <3>2, <3>3, <3>4
    <3> QED BY <2>1, <2>14, <3>5
  <2> QED BY <2>15, <2>16
<1> QED BY <1>1, <1>2

\* The rounds of releases end with no reference left to release.
LEMMA ReleaseAllEnds ==
    ASSUME NEW F \in Seq(FlowSet), NEW e \in [DOMAIN F -> Nat], NEW A, NEW X, Held(F, e, A, X),
           NEW s \in [flows : Seq(FlowSet), refs : SUBSET References(F, DOMAIN F)],
           Releasing(s, F, e, A, X), Cardinality(Used(s.flows)) <= Len(F) - 1
    PROVE  /\ Releasing(ReleaseAll(s, Len(F)), F, e, A, X)
           /\ ReleaseAll(s, Len(F)).refs = {}
<1> DEFINE Loop(h) == h = [n \in 0 .. Len(F) |-> IF n = 0 THEN s ELSE Release(h[n - 1])]
           D == {t \in [flows : Seq(FlowSet), refs : SUBSET References(F, DOMAIN F)] :
                   Releasing(t, F, e, A, X)}
           step == [y \in (1 .. Len(F)) \X D |-> Release(y[2])]
<1>1. Len(F) \in Nat
  BY LenProperties
<1>2. s \in D
  OBVIOUS
<1>3. \A t \in D : Release(t) \in D
  <2> SUFFICES ASSUME NEW t \in D PROVE Release(t) \in D
    OBVIOUS
  <2>1. Releasing(Release(t), F, e, A, X)
    BY ReleaseStep
  <2>2. Release(t) = [flows |-> Release(t).flows, refs |-> Release(t).refs]
    BY DEF Release
  <2>3. Release(t).flows \in Seq(FlowSet) /\ Release(t).refs \in SUBSET References(F, DOMAIN F)
    BY <2>1 DEF Releasing
  <2> QED BY <2>1, <2>2, <2>3
<1>4. \A k \in 1 .. Len(F) : \A y \in D : step[<<k, y>>] = Release(y) /\ step[<<k, y>>] \in D
  <2> HIDE DEF D
  <2> QED BY <1>3
<1> HIDE DEF D, step
<1>5. PICK f : LoopIn(f, Len(F), D, s, step)
  <2>1. \A k \in 1 .. Len(F) : \A y \in D : step[<<k, y>>] \in D
    BY <1>4
  <2> QED BY <1>1, <1>2, <2>1, LoopExists
<1>6. \A k \in 0 .. Len(F) : f[k] = IF k = 0 THEN s ELSE Release(f[k - 1])
  <2> SUFFICES ASSUME NEW k \in 0 .. Len(F), k # 0 PROVE f[k] = Release(f[k - 1])
    BY <1>5 DEF LoopIn
  <2>1. k \in 1 .. Len(F) /\ k - 1 \in 0 .. Len(F)
    BY <1>1
  <2> QED BY <1>4, <1>5, <2>1 DEF LoopIn
<1>7. Loop(f)
  <2>1. f = [k \in 0 .. Len(F) |-> f[k]]
    BY <1>5 DEF LoopIn
  <2> QED BY <1>6, <2>1, Zenon
<1> DEFINE h == CHOOSE g : Loop(g)
<1>8. Loop(h)
  BY <1>7, Zenon
<1> HIDE DEF h
<1>9. h[0] = s /\ \A k \in 1 .. Len(F) : h[k] = Release(h[k - 1])
  <2>1. \A k \in 0 .. Len(F) : h[k] = IF k = 0 THEN s ELSE Release(h[k - 1])
    BY <1>8, Zenon
  <2>2. 0 \in 0 .. Len(F) /\ \A k \in 1 .. Len(F) : k \in 0 .. Len(F) /\ k # 0
    BY <1>1
  <2> QED BY <2>1, <2>2
<1> DEFINE E == [k \in 0 .. Len(F) |->
                   {t \in D : t.refs = {} \/ Cardinality(Used(t.flows)) <= Len(F) - 1 - k}]
<1>10. h[0] \in E[0]
  <2>1. 0 \in 0 .. Len(F) /\ Len(F) - 1 - 0 = Len(F) - 1
    BY <1>1
  <2>2. E[0] = {t \in D : t.refs = {} \/ Cardinality(Used(t.flows)) <= Len(F) - 1 - 0}
    BY <2>1
  <2> QED BY <1>2, <1>9, <2>1, <2>2
<1>11. ASSUME NEW k \in 1 .. Len(F), h[k - 1] \in E[k - 1] PROVE h[k] \in E[k]
  <2> DEFINE t == h[k - 1]
  <2>1. k \in 0 .. Len(F) /\ k - 1 \in 0 .. Len(F) /\ Len(F) - 1 - k = Len(F) - 1 - (k - 1) - 1
    BY <1>1
  <2>2. t \in D /\ (t.refs = {} \/ Cardinality(Used(t.flows)) <= Len(F) - 1 - (k - 1))
    BY <1>11, <2>1
  <2>3. h[k] = Release(t)
    BY <1>9
  <2> HIDE DEF t
  <2>4. Release(t) \in D
    BY <1>3, <2>2
  <2>5. Release(t).refs = {} \/ Cardinality(Used(Release(t).flows)) <= Len(F) - 1 - k
    <3>1. CASE t.refs = {}
      BY <3>1 DEF Release
    <3>2. CASE t.refs # {}
      <4>1. Releasing(t, F, e, A, X)
        BY <2>2 DEF D
      <4>2. \/ Release(t).refs = {}
            \/ Cardinality(Used(Release(t).flows)) < Cardinality(Used(t.flows))
        BY <4>1, ReleaseStep
      <4>3. Cardinality(Used(Release(t).flows)) \in Nat /\ Cardinality(Used(t.flows)) \in Nat
        <5>1. t.flows \in Seq(FlowSet) /\ Release(t).flows \in Seq(FlowSet)
          BY <2>2, <2>4 DEF D
        <5> QED BY <5>1, UsedFinite, FS_CardinalityType
      <4>4. PICK a \in Nat : a = Cardinality(Used(Release(t).flows))
        BY <4>3
      <4>5. PICK b \in Nat : b = Cardinality(Used(t.flows))
        BY <4>3
      <4>6. b <= Len(F) - 1 - (k - 1)
        BY <2>2, <3>2, <4>5
      <4>7. Release(t).refs = {} \/ a < b
        BY <4>2, <4>4, <4>5
      <4>8. a < b => a <= Len(F) - 1 - k
        BY <1>1, <4>6
      <4> QED BY <4>4, <4>7, <4>8
    <3> QED BY <3>1, <3>2
  <2> QED BY <2>1, <2>3, <2>4, <2>5
<1>12. h[Len(F)] \in E[Len(F)]
  <2>1. \A k \in 1 .. Len(F) : h[k - 1] \in E[k - 1] => h[k] \in E[k]
    BY <1>11
  <2>2. Len(F) \in 0 .. Len(F)
    BY <1>1
  <2> HIDE DEF E
  <2>3. \A k \in 0 .. Len(F) : h[k] \in E[k]
    BY <1>1, <1>10, <2>1, LoopHolds
  <2> QED BY <2>2, <2>3
<1>13. Releasing(h[Len(F)], F, e, A, X) /\ h[Len(F)].refs = {}
  <2> DEFINE t == h[Len(F)]
  <2>1. Len(F) \in 0 .. Len(F) /\ Len(F) - 1 - Len(F) = -1
    BY <1>1
  <2>2. t \in D /\ (t.refs = {} \/ Cardinality(Used(t.flows)) <= -1)
    BY <1>12, <2>1
  <2> HIDE DEF t
  <2>3. Cardinality(Used(t.flows)) \in Nat
    <3>1. t.flows \in Seq(FlowSet)
      BY <2>2 DEF D
    <3> QED BY <3>1, UsedFinite, FS_CardinalityType
  <2>4. t.refs = {}
    BY <2>2, <2>3
  <2> QED BY <2>2, <2>4 DEF D, t
<1>14. ReleaseAll(s, Len(F)) = h[Len(F)]
  BY DEF ReleaseAll, h
<1> QED BY <1>13, <1>14

\* The outcome of Remove_Use.
Removed(F, G, e, A, X) ==
  /\ G \in Seq(FlowSet) /\ Kept(F, G, DOMAIN F)
  /\ Counted(G, e, X) /\ Held(G, e, A, X)

\* Flows that keep their parts keep their references.
LEMMA KeptReferences ==
    ASSUME NEW F, NEW G, NEW B, NEW C, Kept(F, G, B), C \subseteq B
    PROVE  References(G, C) = References(F, C)
<1>1. \A j \in C : SameParts(F[j], G[j])
  BY DEF Kept
<1> QED BY <1>1, ReferencesSame

\* Remove_Use leaves the counts right when the flow has one use too many.
LEMMA RemoveUseCounted ==
    ASSUME NEW F \in Seq(FlowSet), NEW e \in [DOMAIN F -> Nat], NEW A, NEW X, Held(F, e, A, X),
           NEW i \in DOMAIN F,
           \A j \in DOMAIN F :
             F[j].uses = e[j] + Number(References(F, Used(F)) \ X, j) + (IF j = i THEN 1 ELSE 0)
    PROVE  Removed(F, RemoveUse(F, i), e, A, X)
<1> DEFINE G == [F EXCEPT ![i].uses = @ - 1]
           live == References(F, Used(F)) \ X
           s == [flows |-> G, refs |-> References(G, {i})]
<1> DEFINE w == [j \in DOMAIN F |-> e[j] + Number(live, j)]
<1>1. /\ F[i] \in FlowSet /\ F[i].uses \in Nat /\ i # 0
      /\ Used(F) \subseteq DOMAIN F /\ IsFiniteSet(Used(F)) /\ IsFiniteSet(DOMAIN F)
      /\ Cardinality(DOMAIN F) = Len(F) /\ Len(F) \in Nat
  <2>1. DOMAIN F = 1 .. Len(F)
    BY LenProperties
  <2>2. i # 0
    BY <2>1
  <2> QED BY <2>2, UsedFinite
<1>2. IsFiniteSet(live)
  <2>1. IsFiniteSet(References(F, Used(F)))
    BY UsedFinite
  <2> QED BY <2>1, FS_Difference
<1>3. ASSUME NEW j \in DOMAIN F
      PROVE  /\ w[j] \in Nat
             /\ F[j].uses = w[j] + (IF j = i THEN 1 ELSE 0)
             /\ w[j] = e[j] + Number(live, j)
             /\ e[j] > 0 => w[j] > 0
             /\ Number(live, j) > 0 => w[j] > 0
  <2> HIDE DEF live
  <2>1. PICK a \in Nat : a = Number(live, j)
    BY <1>2, NumberType
  <2>2. PICK b \in Nat : b = e[j]
    OBVIOUS
  <2>3. w[j] = b + a
    BY <2>1, <2>2
  <2>4. F[j].uses = b + a + (IF j = i THEN 1 ELSE 0)
    BY <2>1, <2>2 DEF live
  <2> HIDE DEF w
  <2> QED BY <2>1, <2>2, <2>3, <2>4
<1> HIDE DEF w
<1>4. F[i].uses = w[i] + 1 /\ F[i].uses - 1 = w[i]
  <2>1. PICK a \in Nat : a = w[i]
    BY <1>3
  <2>2. F[i].uses = a + 1
    BY <1>3, <2>1
  <2> QED BY <2>1, <2>2
<1>5. F[i].uses - 1 \in Nat
  BY <1>3, <1>4
<1>6. G = [F EXCEPT ![i].uses = F[i].uses - 1]
  OBVIOUS
<1> HIDE DEF G
<1> DEFINE u == [j \in DOMAIN F |-> IF j = i THEN F[i].uses - 1 ELSE F[j].uses]
<1>7. Recounted(F, G, u)
  <2>1. Recounted(F, [F EXCEPT ![i].uses = F[i].uses - 1], u)
    BY <1>5, RecountOne
  <2> QED BY <1>6, <2>1
<1>8. G \in Seq(FlowSet) /\ Kept(F, G, DOMAIN F) /\ DOMAIN G = DOMAIN F
  BY <1>7 DEF Recounted, Kept
<1>9. ASSUME NEW j \in DOMAIN F
      PROVE  G[j].uses = w[j]
  <2>1. G[j].uses = IF j = i THEN F[i].uses - 1 ELSE F[j].uses
    BY <1>7 DEF Recounted
  <2>2. CASE j = i
    BY <1>4, <2>1, <2>2
  <2>3. CASE j # i
    <3>1. F[j].uses = w[j] + 0 /\ w[j] \in Nat
      BY <1>3, <2>3
    <3> QED BY <2>1, <2>3, <3>1
  <2> QED BY <2>2, <2>3
<1>10. Used(F) = Used(G) \cup {i}
  <2>1. \A j \in DOMAIN F : F[j].uses > 0 <=> (j = i \/ w[j] > 0)
    <3> SUFFICES ASSUME NEW j \in DOMAIN F PROVE F[j].uses > 0 <=> (j = i \/ w[j] > 0)
      OBVIOUS
    <3>1. PICK a \in Nat : a = w[j]
      BY <1>3
    <3>2. F[j].uses = a + (IF j = i THEN 1 ELSE 0)
      BY <1>3, <3>1
    <3> QED BY <3>1, <3>2
  <2>2. Used(G) = {j \in DOMAIN F : w[j] > 0}
    BY <1>8, <1>9 DEF Used
  <2> QED BY <2>1, <2>2 DEF Used
<1>11. ASSUME NEW k \in A PROVE k \in DOMAIN F /\ w[k] > 0
  <2>1. k \in DOMAIN F
    BY DEF Held, Used
  <2>2. CASE e[k] > 0
    BY <1>3, <2>1, <2>2
  <2>3. ASSUME NEW r \in References(F, A) \ X, r[3] = k PROVE w[k] > 0
    <3>1. r \in live
      BY ReferencesSplit DEF Held
    <3>2. Number(live, k) > 0
      BY <1>2, <2>3, <3>1, NumberSome
    <3> QED BY <1>3, <2>1, <3>2
  <2> QED BY <2>1, <2>2, <2>3 DEF Held
<1>12. A \subseteq Used(G)
  BY <1>8, <1>9, <1>11 DEF Used
<1>13. \A B : B \subseteq DOMAIN F => References(G, B) = References(F, B)
  BY <1>8, KeptReferences
<1>14. CASE G[i].uses # 0
  <2>1. RemoveUse(F, i) = G
    BY <1>1, <1>14 DEF RemoveUse, G
  <2>2. Used(G) = Used(F)
    <3>1. G[i].uses > 0
      <4>1. G[i].uses \in Nat
        BY <1>3, <1>9
      <4> QED BY <4>1, <1>14
    <3> QED BY <1>8, <1>10, <3>1 DEF Used
  <2>3. Counted(G, e, X)
    <3>1. References(G, Used(G)) = References(F, Used(F))
      BY <1>1, <1>13, <2>2
    <3> QED BY <1>3, <1>8, <1>9, <3>1 DEF Counted
  <2>4. Held(G, e, A, X)
    <3>1. A \subseteq DOMAIN F
      BY <1>11
    <3>2. References(G, A) = References(F, A)
      BY <1>13, <3>1
    <3> QED BY <1>12, <3>2 DEF Held
  <2> QED BY <1>8, <2>1, <2>3, <2>4 DEF Removed
<1>15. CASE G[i].uses = 0
  <2>1. i \notin Used(G) /\ i \notin A
    BY <1>12, <1>15 DEF Used
  <2>2. References(G, {i}) = References(F, {i}) /\ References(F, {i}) \subseteq References(F, DOMAIN F)
    BY <1>13, ReferencesSplit
  <2>3. ASSUME NEW j \in DOMAIN F
        PROVE  G[j].uses = e[j] + Number(References(F, Used(G)) \ X, j) + Number(References(F, {i}), j)
    <3>1. References(F, Used(F)) = References(F, Used(G)) \cup References(F, {i})
          /\ References(F, Used(G)) \cap References(F, {i}) = {}
      <4>1. Used(F) = Used(G) \cup {i} /\ Used(G) \cap {i} = {}
        BY <1>10, <2>1
      <4>2. /\ References(F, Used(G) \cup {i}) = References(F, Used(G)) \cup References(F, {i})
            /\ Used(G) \cap {i} = {} => References(F, Used(G)) \cap References(F, {i}) = {}
        BY ReferencesSplit
      <4> QED BY <4>1, <4>2
    <3>2. References(F, {i}) \cap X = {}
      <4>1. \A r \in References(F, {i}) : r[1] = i
        BY ReferenceParts
      <4>2. \A r \in X : r[1] \in A
        BY DEF Held
      <4> QED BY <2>1, <4>1, <4>2
    <3>3. References(F, {i}) \subseteq live /\ live \ References(F, {i}) = References(F, Used(G)) \ X
      BY <3>1, <3>2
    <3>4. IsFiniteSet(References(F, {i})) /\ IsFiniteSet(live \ References(F, {i}))
      BY <1>2, <3>3, FS_Subset
    <3> DEFINE own == References(F, {i})
    <3>5. own \subseteq live
      BY <3>3
    <3> HIDE DEF live, own
    <3>6. Number(live, j) = Number(live \ own, j) + Number(own, j)
      BY <1>2, <3>5, NumberSplit
    <3>7. Number(live, j) = Number(live \ References(F, {i}), j) + Number(References(F, {i}), j)
      BY <3>6 DEF own
    <3>8. Number(live \ References(F, {i}), j) \in Nat /\ Number(References(F, {i}), j) \in Nat
      BY <3>4, NumberType
    <3>9. PICK a \in Nat : a = Number(References(F, Used(G)) \ X, j)
      BY <3>3, <3>8
    <3>10. PICK b \in Nat : b = Number(References(F, {i}), j)
      BY <3>8
    <3>11. Number(live, j) = a + b
      BY <3>3, <3>7, <3>9, <3>10
    <3>12. PICK c \in Nat : c = e[j]
      OBVIOUS
    <3>13. G[j].uses = c + (a + b)
      BY <1>3, <1>9, <3>11, <3>12
    <3> QED BY <3>9, <3>10, <3>12, <3>13
  <2>4. s.flows = G /\ s.refs = References(F, {i})
    BY <2>2
  <2>5. Releasing(s, F, e, A, X)
    BY <1>8, <1>12, <2>2, <2>3, <2>4 DEF Releasing
  <2>6. Cardinality(Used(s.flows)) <= Len(F) - 1
    <3>1. Used(G) \subseteq DOMAIN F \ {i}
      BY <1>8, <2>1 DEF Used
    <3>2. IsFiniteSet(DOMAIN F \ {i}) /\ Cardinality(DOMAIN F \ {i}) = Len(F) - 1
      BY <1>1, FS_RemoveElement
    <3>3. Cardinality(Used(G)) <= Cardinality(DOMAIN F \ {i})
      BY <3>1, <3>2, FS_Subset
    <3>4. IsFiniteSet(Used(G))
      BY <3>1, <3>2, FS_Subset
    <3>5. PICK c \in Nat : c = Cardinality(Used(G))
      BY <3>4, FS_CardinalityType
    <3>6. PICK n \in Nat : n = Len(F)
      BY <1>1
    <3>7. c <= n - 1
      BY <3>2, <3>3, <3>5, <3>6
    <3> QED BY <2>4, <3>5, <3>6, <3>7
  <2>7. s \in [flows : Seq(FlowSet), refs : SUBSET References(F, DOMAIN F)]
    BY <1>8, <2>2
  <2> HIDE DEF s
  <2>8. Releasing(ReleaseAll(s, Len(F)), F, e, A, X) /\ ReleaseAll(s, Len(F)).refs = {}
    BY <2>5, <2>6, <2>7, ReleaseAllEnds
  <2>9. RemoveUse(F, i) = ReleaseAll(s, Len(F)).flows
    <3>1. ~ (i = 0) /\ ~ (i # 0 /\ G[i].uses # 0)
      BY <1>1, <1>15
    <3> QED BY <3>1, Zenon DEF RemoveUse, G, s
  <2> DEFINE H == ReleaseAll(s, Len(F)).flows
  <2>10. /\ H \in Seq(FlowSet) /\ Kept(F, H, DOMAIN F) /\ A \subseteq Used(H)
         /\ \A j \in DOMAIN F : H[j].uses = e[j] + Number(References(F, Used(H)) \ X, j) + Number({}, j)
    BY <2>8 DEF Releasing
  <2> HIDE DEF H
  <2>11. DOMAIN H = DOMAIN F /\ Used(H) \subseteq DOMAIN F /\ A \subseteq DOMAIN F
    BY <2>10 DEF Kept, Used
  <2>12. References(H, Used(H)) = References(F, Used(H)) /\ References(H, A) = References(F, A)
    BY <2>10, <2>11, KeptReferences
  <2>13. ASSUME NEW j \in DOMAIN F
         PROVE  H[j].uses = e[j] + Number(References(H, Used(H)) \ X, j)
    <3>1. IsFiniteSet(References(H, Used(H)) \ X)
      BY <2>10, UsedFinite, FS_Difference
    <3>2. Number(References(H, Used(H)) \ X, j) \in Nat /\ Number({}, j) = 0
      BY <3>1, NumberType, NumberEmpty
    <3>3. PICK a \in Nat : a = Number(References(H, Used(H)) \ X, j)
      BY <3>2
    <3>4. PICK b \in Nat : b = e[j]
      OBVIOUS
    <3>5. H[j].uses = b + a + 0
      BY <2>10, <2>12, <3>2, <3>3, <3>4
    <3> QED BY <3>3, <3>4, <3>5
  <2>14. Counted(H, e, X)
    BY <2>11, <2>13 DEF Counted
  <2>15. Held(H, e, A, X)
    BY <2>10, <2>12 DEF Held
  <2>16. Removed(F, H, e, A, X)
    BY <2>10, <2>14, <2>15 DEF Removed
  <2> QED BY <2>9, <2>16 DEF H
<1> QED BY <1>14, <1>15

(***************************************************************************)
(* Set_Next and Set_Target                                                 *)
(***************************************************************************)

\* Every reference leads to a flow, which is not that of the entry.
GraphOK(F) ==
  /\ F \in Seq(FlowSet)
  /\ \A r \in References(F, DOMAIN F) : r[3] # 0 => r[3] \in DOMAIN F /\ F[r[3]].block # 1

\* G is F with another target in a part of flow i.
Retargeted(F, G, i, part, t) ==
  /\ G \in Seq(FlowSet) /\ DOMAIN G = DOMAIN F
  /\ \A j \in DOMAIN F : j # i => G[j] = F[j]
  /\ G[i].uses = F[i].uses /\ G[i].block = F[i].block /\ G[i].ret = F[i].ret
  /\ PartSet(G[i]) = PartSet(F[i])
  /\ \A p \in PartSet(F[i]) : Target(G[i], p) = IF p = part THEN t ELSE Target(F[i], p)

\* One flow of a graph is replaced.
LEMMA ChangeOne ==
    ASSUME NEW F \in Seq(FlowSet), NEW i \in DOMAIN F, NEW flow \in FlowSet
    PROVE  /\ [F EXCEPT ![i] = flow] \in Seq(FlowSet)
           /\ DOMAIN [F EXCEPT ![i] = flow] = DOMAIN F
           /\ [F EXCEPT ![i] = flow][i] = flow
           /\ \A j \in DOMAIN F : j # i => [F EXCEPT ![i] = flow][j] = F[j]
<1>1. \A j \in DOMAIN F : F[j] \in FlowSet
  BY LenProperties, ElementOfSeq
<1>2. [F EXCEPT ![i] = flow] \in [DOMAIN F -> FlowSet]
  BY <1>1
<1>3. [F EXCEPT ![i] = flow] \in Seq(FlowSet)
  BY <1>2, SameDomain
<1> QED BY <1>3

\* The target of a part of a flow.
NewTarget(flow, part, t) ==
  CASE part[1] = "next" -> [flow EXCEPT !.next = t]
    [] part[1] = "if"   -> [flow EXCEPT !.ifs[part[2]].target = t]
    [] part[1] = "case" -> [flow EXCEPT !.cases[part[2]].target = t]

\* Setting the target of a part leaves the other parts theirs.
LEMMA NewTargetIs ==
    ASSUME NEW flow \in FlowSet, NEW part \in PartSet(flow), NEW t \in Nat
    PROVE  LET new == NewTarget(flow, part, t)
           IN  /\ new \in FlowSet
               /\ new.uses = flow.uses /\ new.block = flow.block /\ new.ret = flow.ret
               /\ PartSet(new) = PartSet(flow)
               /\ \A p \in PartSet(flow) : Target(new, p) = IF p = part THEN t ELSE Target(flow, p)
<1> DEFINE new == NewTarget(flow, part, t)
<1>1. PartSet(flow) = {<<"next", 0>>} \cup {<<"if", k>> : k \in DOMAIN flow.ifs}
                                      \cup {<<"case", k>> : k \in DOMAIN flow.cases}
  BY PartsAre
<1>2. /\ flow.ifs \in Seq(IfSet) /\ flow.cases \in Seq(CaseSet)
      /\ \A k \in DOMAIN flow.ifs : flow.ifs[k] \in IfSet
      /\ \A k \in DOMAIN flow.cases : flow.cases[k] \in CaseSet
  BY FlowParts
<1> SUFFICES /\ new \in FlowSet
             /\ new.uses = flow.uses /\ new.block = flow.block /\ new.ret = flow.ret
             /\ DOMAIN new.ifs = DOMAIN flow.ifs /\ DOMAIN new.cases = DOMAIN flow.cases
             /\ \A p \in PartSet(flow) : Target(new, p) = IF p = part THEN t ELSE Target(flow, p)
  <2>1. new \in FlowSet => PartSet(new) = {<<"next", 0>>} \cup {<<"if", k>> : k \in DOMAIN new.ifs}
                                      \cup {<<"case", k>> : k \in DOMAIN new.cases}
    BY PartsAre
  <2> HIDE DEF new
  <2>2. \A a, b, c, d : a = c /\ b = d =>
          {<<"next", 0>>} \cup {<<"if", k>> : k \in a} \cup {<<"case", k>> : k \in b}
          = {<<"next", 0>>} \cup {<<"if", k>> : k \in c} \cup {<<"case", k>> : k \in d}
    OBVIOUS
  <2> QED BY <1>1, <2>1, <2>2 DEF new
<1>3. CASE part = <<"next", 0>>
  <2>1. new = [flow EXCEPT !.next = t]
    BY <1>3 DEF NewTarget
  <2>2. new \in FlowSet /\ new.uses = flow.uses /\ new.block = flow.block /\ new.ret = flow.ret
        /\ new.ifs = flow.ifs /\ new.cases = flow.cases /\ new.next = t
    BY <2>1 DEF FlowSet
  <2> HIDE DEF new
  <2>3. ASSUME NEW p \in PartSet(flow) PROVE Target(new, p) = IF p = part THEN t ELSE Target(flow, p)
    BY <1>1, <1>3, <2>2 DEF Target
  <2> QED BY <2>2, <2>3
<1>4. ASSUME NEW k \in DOMAIN flow.ifs, part = <<"if", k>>
      PROVE  /\ new \in FlowSet
             /\ new.uses = flow.uses /\ new.block = flow.block /\ new.ret = flow.ret
             /\ DOMAIN new.ifs = DOMAIN flow.ifs /\ DOMAIN new.cases = DOMAIN flow.cases
             /\ \A p \in PartSet(flow) : Target(new, p) = IF p = part THEN t ELSE Target(flow, p)
  <2> DEFINE ifs == [flow.ifs EXCEPT ![k].target = t]
  <2>1. new = [flow EXCEPT !.ifs = ifs]
    BY <1>4 DEF NewTarget
  <2>2. [flow.ifs[k] EXCEPT !.target = t] \in IfSet
    BY <1>2 DEF IfSet
  <2>3. ifs \in [DOMAIN flow.ifs -> IfSet]
    BY <1>2, <2>2
  <2>4. DOMAIN ifs = DOMAIN flow.ifs /\ \A l \in DOMAIN flow.ifs : ifs[l].target = IF l = k THEN t ELSE flow.ifs[l].target
    <3>1. \A l \in DOMAIN flow.ifs : flow.ifs[l] \in IfSet
      BY <1>2
    <3> QED BY <3>1 DEF IfSet
  <2> HIDE DEF ifs
  <2>5. ifs \in Seq(IfSet)
    BY <1>2, <2>3, SameDomain
  <2>6. new \in FlowSet /\ new.uses = flow.uses /\ new.block = flow.block /\ new.ret = flow.ret
        /\ new.ifs = ifs /\ new.cases = flow.cases /\ new.next = flow.next
    BY <2>1, <2>5 DEF FlowSet
  <2> HIDE DEF new
  <2>7. ASSUME NEW p \in PartSet(flow) PROVE Target(new, p) = IF p = part THEN t ELSE Target(flow, p)
    BY <1>1, <1>4, <2>4, <2>6 DEF Target
  <2> QED BY <2>4, <2>6, <2>7
<1>5. ASSUME NEW k \in DOMAIN flow.cases, part = <<"case", k>>
      PROVE  /\ new \in FlowSet
             /\ new.uses = flow.uses /\ new.block = flow.block /\ new.ret = flow.ret
             /\ DOMAIN new.ifs = DOMAIN flow.ifs /\ DOMAIN new.cases = DOMAIN flow.cases
             /\ \A p \in PartSet(flow) : Target(new, p) = IF p = part THEN t ELSE Target(flow, p)
  <2> DEFINE cs == [flow.cases EXCEPT ![k].target = t]
  <2>1. new = [flow EXCEPT !.cases = cs]
    BY <1>5 DEF NewTarget
  <2>2. [flow.cases[k] EXCEPT !.target = t] \in CaseSet
    BY <1>2 DEF CaseSet
  <2>3. cs \in [DOMAIN flow.cases -> CaseSet]
    BY <1>2, <2>2
  <2>4. DOMAIN cs = DOMAIN flow.cases /\ \A l \in DOMAIN flow.cases : cs[l].target = IF l = k THEN t ELSE flow.cases[l].target
    <3>1. \A l \in DOMAIN flow.cases : flow.cases[l] \in CaseSet
      BY <1>2
    <3> QED BY <3>1 DEF CaseSet
  <2> HIDE DEF cs
  <2>5. cs \in Seq(CaseSet)
    BY <1>2, <2>3, SameDomain
  <2>6. new \in FlowSet /\ new.uses = flow.uses /\ new.block = flow.block /\ new.ret = flow.ret
        /\ new.ifs = flow.ifs /\ new.cases = cs /\ new.next = flow.next
    BY <2>1, <2>5 DEF FlowSet
  <2> HIDE DEF new
  <2>7. ASSUME NEW p \in PartSet(flow) PROVE Target(new, p) = IF p = part THEN t ELSE Target(flow, p)
    BY <1>1, <1>5, <2>4, <2>6 DEF Target
  <2> QED BY <2>4, <2>6, <2>7
<1> QED BY <1>1, <1>3, <1>4, <1>5

\* The assignment of Set_Target to a graph changes one target of one flow.
LEMMA RetargetedIs ==
    ASSUME NEW F \in Seq(FlowSet), NEW i \in DOMAIN F, NEW part \in PartSet(F[i]), NEW t \in Nat,
           NEW G, G = CASE part[1] = "next" -> [F EXCEPT ![i].next = t]
                        [] part[1] = "if"   -> [F EXCEPT ![i].ifs[part[2]].target = t]
                        [] part[1] = "case" -> [F EXCEPT ![i].cases[part[2]].target = t]
    PROVE  Retargeted(F, G, i, part, t)
<1> DEFINE new == NewTarget(F[i], part, t)
<1>1. F[i] \in FlowSet
  BY UsedFinite
<1>2. /\ new \in FlowSet
      /\ new.uses = F[i].uses /\ new.block = F[i].block /\ new.ret = F[i].ret
      /\ PartSet(new) = PartSet(F[i])
      /\ \A p \in PartSet(F[i]) : Target(new, p) = IF p = part THEN t ELSE Target(F[i], p)
  BY <1>1, NewTargetIs
<1>3. G = [F EXCEPT ![i] = new]
  <2>1. part[1] \in {"next", "if", "case"}
    BY <1>1, PartsAre
  <2>2. CASE part[1] = "next"
    BY <2>2 DEF NewTarget
  <2>3. CASE part[1] = "if"
    BY <2>3 DEF NewTarget
  <2>4. CASE part[1] = "case"
    BY <2>4 DEF NewTarget
  <2> QED BY <2>1, <2>2, <2>3, <2>4
<1> HIDE DEF new
<1>4. /\ G \in Seq(FlowSet) /\ DOMAIN G = DOMAIN F /\ G[i] = new
      /\ \A j \in DOMAIN F : j # i => G[j] = F[j]
  <2>1. new \in FlowSet
    BY <1>2
  <2>2. /\ [F EXCEPT ![i] = new] \in Seq(FlowSet)
        /\ DOMAIN [F EXCEPT ![i] = new] = DOMAIN F
        /\ [F EXCEPT ![i] = new][i] = new
        /\ \A j \in DOMAIN F : j # i => [F EXCEPT ![i] = new][j] = F[j]
    BY <2>1, ChangeOne
  <2> QED BY <1>3, <2>2
<1> QED BY <1>2, <1>4 DEF Retargeted

\* Each part of a flow makes a reference.
LEMMA IsReference ==
    ASSUME NEW F, NEW js, NEW j \in js, NEW p \in PartSet(F[j])
    PROVE  <<j, p, Target(F[j], p)>> \in References(F, js)
BY ReferenceIs

\* Flows with the same parts have the same targets.
LEMMA SamePart ==
    ASSUME NEW f, NEW g, SameParts(f, g)
    PROVE  /\ PartSet(g) = PartSet(f) /\ Parts(g) = Parts(f) /\ Refs(g) = Refs(f)
           /\ \A p : Target(g, p) = Target(f, p)
<1>1. Parts(g) = Parts(f) /\ Refs(g) = Refs(f)
  BY DEF SameParts, Parts, Refs, IfParts, CaseParts
<1>2. PartSet(g) = PartSet(f)
  BY <1>1 DEF PartSet
<1>3. \A p : Target(g, p) = Target(f, p)
  BY DEF SameParts, Target
<1> QED BY <1>1, <1>2, <1>3

\* The outcome of Set_Next and Set_Target.
TargetSet(F, G, e, A, i, part, t) ==
  /\ GraphOK(G) /\ Kept(F, G, DOMAIN F \ {i})
  /\ Counted(G, e, {}) /\ A \subseteq Used(G)
  /\ PartSet(G[i]) = PartSet(F[i])
  /\ \A p \in PartSet(F[i]) : Target(G[i], p) = IF p = part THEN t ELSE Target(F[i], p)

\* The graph of flow i is changed while the flows of A stay in use.
LEMMA SetTargetCounted ==
    ASSUME NEW F, GraphOK(F), NEW e \in [DOMAIN F -> Nat], Counted(F, e, {}),
           NEW A, NEW i \in A, NEW part \in PartSet(F[i]),
           Held(F, e, A, {<<i, part, Target(F[i], part)>>}),
           NEW t, t = 0 \/ (t \in Used(F) /\ F[t].block # 1)
    PROVE  TargetSet(F, SetTarget(F, i, part, t), e, A, i, part, t)
<1> DEFINE old == Target(F[i], part)
           x == <<i, part, old>>
           F1 == AddUse(F, t)
           e1 == [j \in DOMAIN F |-> IF j = t THEN e[j] + 1 ELSE e[j]]
           live == References(F, Used(F))
<1>1. /\ F \in Seq(FlowSet) /\ A \subseteq Used(F) /\ Used(F) \subseteq DOMAIN F /\ i \in DOMAIN F
      /\ F[i] \in FlowSet /\ IsFiniteSet(live) /\ 0 \notin DOMAIN F /\ t \in Nat
  <2>1. F \in Seq(FlowSet)
    BY DEF GraphOK
  <2>2. A \subseteq Used(F) /\ Used(F) \subseteq DOMAIN F
    BY DEF Held, Used
  <2>3. DOMAIN F = 1 .. Len(F) /\ Len(F) \in Nat
    BY <2>1, LenProperties
  <2>4. 0 \notin DOMAIN F /\ t \in Nat
    BY <2>2, <2>3
  <2>5. IsFiniteSet(live)
    BY <2>1, UsedFinite
  <2>6. F[i] \in FlowSet
    BY <2>1, <2>2, UsedFinite
  <2> QED BY <2>1, <2>2, <2>4, <2>5, <2>6
<1>2. x \in live /\ old \in Nat /\ (old # 0 => old \in DOMAIN F)
  <2>1. x \in live
    <3>1. i \in Used(F)
      BY <1>1
    <3>2. <<i, part, Target(F[i], part)>> \in References(F, Used(F))
      BY <3>1, IsReference
    <3> QED BY <3>2
  <2>2. x \in References(F, DOMAIN F)
    <3>1. References(F, Used(F)) \subseteq References(F, DOMAIN F)
      BY <1>1, ReferencesSplit
    <3> QED BY <2>1, <3>1
  <2>3. old \in Nat
    BY <1>1, PartsAre
  <2>4. x[3] = old
    OBVIOUS
  <2> HIDE DEF x
  <2> QED BY <2>1, <2>2, <2>3, <2>4 DEF GraphOK
<1>3. /\ F1 \in Seq(FlowSet) /\ Kept(F, F1, DOMAIN F) /\ DOMAIN F1 = DOMAIN F
      /\ \A j \in DOMAIN F : F1[j].uses = IF j = t THEN F[j].uses + 1 ELSE F[j].uses
  <2>1. CASE t = 0
    <3>1. F1 = F
      BY <2>1 DEF AddUse
    <3> QED BY <1>1, <2>1, <3>1 DEF Kept, SameParts
  <2>2. CASE t # 0
    <3>1. t \in DOMAIN F
      BY <1>1, <2>2
    <3>2. PICK n \in Nat : n = F[t].uses + 1
      BY <1>1, <3>1, UsedFinite
    <3>3. F1 = [F EXCEPT ![t].uses = n]
      BY <2>2, <3>2 DEF AddUse
    <3>4. Recounted(F, F1, [j \in DOMAIN F |-> IF j = t THEN n ELSE F[j].uses])
      <4>1. Recounted(F, [F EXCEPT ![t].uses = n], [j \in DOMAIN F |-> IF j = t THEN n ELSE F[j].uses])
        BY <1>1, <3>1, RecountOne
      <4> QED BY <3>3, <4>1
    <3> QED BY <3>2, <3>4 DEF Recounted, Kept
  <2> QED BY <2>1, <2>2
<1> HIDE DEF F1
<1>4. Used(F1) = Used(F)
  <2>1. \A j \in DOMAIN F : F[j].uses \in Nat
    BY <1>1, UsedFinite
  <2>2. \A j \in DOMAIN F : F1[j].uses > 0 <=> F[j].uses > 0
    BY <1>1, <1>3, <2>1 DEF Used
  <2> QED BY <1>3, <2>2 DEF Used
<1>5. \A B : B \subseteq DOMAIN F => References(F1, B) = References(F, B)
  BY <1>3, KeptReferences
<1>6. e1 \in [DOMAIN F1 -> Nat] /\ \A j \in DOMAIN F : e[j] > 0 => e1[j] > 0
  BY <1>3
<1>7. ASSUME NEW j \in DOMAIN F
      PROVE  F1[j].uses = e1[j] + Number(live \ {x}, j) + (IF j = old THEN 1 ELSE 0)
  <2>1. Number(live, j) = Number(live \ {x}, j) + IF x[3] = j THEN 1 ELSE 0
    <3> HIDE DEF x, live
    <3> QED BY <1>1, <1>2, NumberRemove
  <2>2. live \ {} = live /\ x[3] = old
    OBVIOUS
  <2>3. F[j].uses = e[j] + Number(live, j)
    BY <2>2 DEF Counted
  <2>4. PICK a \in Nat : a = Number(live \ {x}, j)
    <3>1. IsFiniteSet(live \ {x})
      BY <1>1, FS_Difference
    <3> QED BY <3>1, NumberType
  <2>5. PICK b \in Nat : b = e[j]
    OBVIOUS
  <2>6. e1[j] = IF j = t THEN b + 1 ELSE b
    BY <2>5
  <2>7. F[j].uses = b + a + (IF j = old THEN 1 ELSE 0)
    BY <2>1, <2>2, <2>3, <2>4, <2>5
  <2>8. F1[j].uses = (IF j = t THEN 1 ELSE 0) + b + a + (IF j = old THEN 1 ELSE 0)
    <3>1. PICK n \in Nat : n = F[j].uses
      BY <1>1, UsedFinite
    <3>2. F1[j].uses = (IF j = t THEN 1 ELSE 0) + n
      BY <1>3, <3>1
    <3>3. n = b + a + (IF j = old THEN 1 ELSE 0)
      BY <2>7, <3>1
    <3> HIDE DEF old
    <3> QED BY <3>2, <3>3
  <2> HIDE DEF e1, live, x, old
  <2> QED BY <2>4, <2>6, <2>8
<1>8. Held(F1, e1, A, {x})
  <2>1. References(F1, A) = References(F, A)
    BY <1>1, <1>5
  <2> QED BY <1>1, <1>4, <1>6, <2>1 DEF Held
<1> HIDE DEF e1
<1> DEFINE F2 == RemoveUse(F1, old)
<1>9. Removed(F1, F2, e1, A, {x})
  <2>1. References(F1, Used(F1)) \ {x} = live \ {x}
    BY <1>1, <1>4, <1>5
  <2>2. CASE old = 0
    <3>1. F2 = F1
      BY <2>2 DEF RemoveUse
    <3>2. Counted(F1, e1, {x})
      <4>1. ASSUME NEW j \in DOMAIN F PROVE F1[j].uses = e1[j] + Number(live \ {x}, j)
        <5>1. PICK a \in Nat : a = Number(live \ {x}, j)
          <6>1. IsFiniteSet(live \ {x})
            BY <1>1, FS_Difference
          <6> QED BY <6>1, NumberType
        <5>2. PICK b \in Nat : b = e1[j]
          BY <1>3, <1>6
        <5>3. j # old
          BY <1>1, <2>2
        <5>4. F1[j].uses = b + a + 0
          BY <1>7, <5>1, <5>2, <5>3
        <5> QED BY <5>1, <5>2, <5>4
      <4> QED BY <1>3, <2>1, <4>1 DEF Counted
    <3> QED BY <1>3, <1>8, <3>1, <3>2 DEF Removed, Kept, SameParts
  <2>3. CASE old # 0
    <3>1. old \in DOMAIN F1
      BY <1>2, <1>3, <2>3
    <3>2. \A j \in DOMAIN F1 :
             F1[j].uses = e1[j] + Number(References(F1, Used(F1)) \ {x}, j) + (IF j = old THEN 1 ELSE 0)
      BY <1>3, <1>7, <2>1
    <3> HIDE DEF x, old
    <3> QED BY <1>3, <1>6, <1>8, <3>1, <3>2, RemoveUseCounted
  <2> QED BY <2>2, <2>3
<1> HIDE DEF F2
<1>10. /\ F2 \in Seq(FlowSet) /\ DOMAIN F2 = DOMAIN F /\ Counted(F2, e1, {x})
       /\ A \subseteq Used(F2) /\ Used(F2) \subseteq DOMAIN F
       /\ Kept(F, F2, DOMAIN F)
  <2>1. Kept(F, F2, DOMAIN F)
    BY <1>3, <1>9 DEF Removed, Kept, SameParts
  <2> QED BY <1>3, <1>9, <2>1 DEF Removed, Held, Kept, Used
<1>11. /\ \A j \in DOMAIN F : PartSet(F2[j]) = PartSet(F[j])
       /\ \A j \in DOMAIN F : \A p \in PartSet(F[j]) : Target(F2[j], p) = Target(F[j], p)
  <2>1. \A j \in DOMAIN F : SameParts(F[j], F2[j])
    BY <1>10 DEF Kept
  <2> QED BY <2>1, SamePart
<1> DEFINE G == SetTarget(F, i, part, t)
<1>12. Retargeted(F2, G, i, part, t)
  <2>1. G = CASE part[1] = "next" -> [F2 EXCEPT ![i].next = t]
              [] part[1] = "if"   -> [F2 EXCEPT ![i].ifs[part[2]].target = t]
              [] part[1] = "case" -> [F2 EXCEPT ![i].cases[part[2]].target = t]
    BY DEF SetTarget, Moved, F2, F1
  <2>2. part \in PartSet(F2[i])
    BY <1>1, <1>11
  <2> HIDE DEF G
  <2> QED BY <1>1, <1>10, <2>1, <2>2, RetargetedIs
<1> HIDE DEF G
<1>13. /\ G \in Seq(FlowSet) /\ DOMAIN G = DOMAIN F
       /\ Kept(F, G, DOMAIN F \ {i})
       /\ PartSet(G[i]) = PartSet(F[i])
       /\ \A p \in PartSet(F[i]) : Target(G[i], p) = IF p = part THEN t ELSE Target(F[i], p)
       /\ \A j \in DOMAIN F : G[j].uses = F2[j].uses
       /\ Used(G) = Used(F2)
  <2>1. \A j \in DOMAIN F : G[j].uses = F2[j].uses
    BY <1>10, <1>12 DEF Retargeted
  <2>2. DOMAIN G = DOMAIN F
    BY <1>10, <1>12 DEF Retargeted
  <2>3. Used(G) = Used(F2)
    BY <1>10, <2>1, <2>2 DEF Used
  <2>4. /\ PartSet(G[i]) = PartSet(F[i])
        /\ \A p \in PartSet(F[i]) : Target(G[i], p) = IF p = part THEN t ELSE Target(F[i], p)
    BY <1>1, <1>11, <1>12 DEF Retargeted
  <2>5. Kept(F, G, DOMAIN F \ {i})
    BY <1>10, <1>12, <2>2 DEF Retargeted, Kept
  <2> QED BY <1>12, <2>1, <2>2, <2>3, <2>4, <2>5 DEF Retargeted
<1>14. \A B : B \subseteq DOMAIN F /\ i \in B =>
         References(G, B) = (References(F, B) \ {x}) \cup {<<i, part, t>>}
  <2> SUFFICES ASSUME NEW B, B \subseteq DOMAIN F, i \in B
               PROVE  References(G, B) = (References(F, B) \ {x}) \cup {<<i, part, t>>}
    OBVIOUS
  <2>1. \A j \in DOMAIN F \ {i} : SameParts(F[j], G[j])
    BY <1>13 DEF Kept
  <2>2. \A j \in B \ {i} : /\ PartSet(F[j]) = PartSet(G[j])
                           /\ \A p \in PartSet(F[j]) : Target(F[j], p) = Target(G[j], p)
    BY <2>1, SamePart
  <2>3. ASSUME NEW r \in References(G, B) PROVE r \in (References(F, B) \ {x}) \cup {<<i, part, t>>}
    <3>1. PICK j \in B : \E p \in PartSet(G[j]) : r = <<j, p, Target(G[j], p)>>
      BY ReferenceIs
    <3>2. PICK p \in PartSet(G[j]) : r = <<j, p, Target(G[j], p)>>
      BY <3>1
    <3>3. CASE j # i
      <4>1. r \in References(F, B)
        BY <2>2, <3>2, <3>3, ReferenceIs
      <4> QED BY <3>2, <3>3, <4>1
    <3>4. CASE j = i /\ p = part
      BY <1>13, <3>2, <3>4
    <3>5. CASE j = i /\ p # part
      <4>1. r = <<i, p, Target(F[i], p)>> /\ p \in PartSet(F[i])
        BY <1>13, <3>2, <3>5
      <4>2. r \in References(F, B)
        BY <4>1, ReferenceIs
      <4> QED BY <3>5, <4>1, <4>2
    <3> QED BY <3>3, <3>4, <3>5
  <2>4. ASSUME NEW r \in References(F, B), r # x PROVE r \in References(G, B)
    <3>1. PICK j \in B : \E p \in PartSet(F[j]) : r = <<j, p, Target(F[j], p)>>
      BY ReferenceIs
    <3>2. PICK p \in PartSet(F[j]) : r = <<j, p, Target(F[j], p)>>
      BY <3>1
    <3>3. CASE j # i
      <4>1. p \in PartSet(G[j]) /\ r = <<j, p, Target(G[j], p)>>
        BY <2>2, <3>2, <3>3
      <4> QED BY <4>1, ReferenceIs
    <3>4. CASE j = i
      <4>1. p # part
        BY <2>4, <3>2, <3>4
      <4>2. p \in PartSet(G[j]) /\ r = <<j, p, Target(G[j], p)>>
        BY <1>13, <3>2, <3>4, <4>1
      <4> QED BY <4>2, ReferenceIs
    <3> QED BY <3>3, <3>4
  <2>5. <<i, part, t>> \in References(G, B)
    <3>1. part \in PartSet(G[i]) /\ Target(G[i], part) = t
      BY <1>13
    <3> QED BY <3>1, ReferenceIs
  <2> QED BY <2>3, <2>4, <2>5
<1>15. Counted(G, e, {})
  <2> SUFFICES ASSUME NEW j \in DOMAIN F
               PROVE  G[j].uses = e[j] + Number(References(G, Used(G)) \ {}, j)
    BY <1>13 DEF Counted
  <2> DEFINE y == <<i, part, t>>
             R == References(F, Used(F2)) \ {x}
  <2>1. References(G, Used(G)) \ {} = R \cup {y}
    <3>1. i \in Used(F2)
      BY <1>10
    <3> QED BY <1>10, <1>13, <1>14, <3>1
  <2>2. IsFiniteSet(R)
    <3>1. IsFiniteSet(References(F, Used(F2)))
      BY <1>1, <1>10, UsedFinite
    <3> QED BY <3>1, FS_Difference
  <2>3. F2[j].uses = e1[j] + Number(R, j)
    <3>1. References(F2, Used(F2)) = References(F, Used(F2))
      BY <1>10, KeptReferences
    <3> QED BY <1>10, <3>1 DEF Counted
  <2>4. Number(R \cup {y}, j) = Number(R, j) + IF j = t THEN 1 ELSE 0
    <3>1. CASE y \in R
      <4>1. t = old
        <5>1. y \in References(F, Used(F2))
          BY <3>1
        <5>2. y[3] = Target(F[y[1]], y[2])
          BY <5>1, ReferenceParts
        <5> QED BY <5>2
      <4>2. y = x
        BY <4>1
      <4> QED BY <3>1, <4>2
    <3>2. CASE y \notin R
      <4>1. y[3] = t
        OBVIOUS
      <4> HIDE DEF R, y
      <4>2. Number(R \cup {y}, j) = Number(R, j) + IF y[3] = j THEN 1 ELSE 0
        BY <2>2, <3>2, NumberAdd
      <4> QED BY <4>1, <4>2
    <3> QED BY <3>1, <3>2
  <2>5. PICK a \in Nat : a = Number(R, j)
    BY <2>2, NumberType
  <2>6. PICK b \in Nat : b = e[j]
    OBVIOUS
  <2>7. e1[j] = IF j = t THEN b + 1 ELSE b
    BY <2>6 DEF e1
  <2>8. G[j].uses = e1[j] + a
    BY <1>13, <2>3, <2>5
  <2> HIDE DEF R, y
  <2>9. Number(R \cup {y}, j) = a + IF j = t THEN 1 ELSE 0
    BY <2>4, <2>5
  <2> QED BY <2>1, <2>5, <2>6, <2>7, <2>8, <2>9
<1>16. GraphOK(G)
  <2> SUFFICES ASSUME NEW r \in References(G, DOMAIN G), r[3] # 0
               PROVE  r[3] \in DOMAIN G /\ G[r[3]].block # 1
    BY <1>13 DEF GraphOK
  <2>1. r \in (References(F, DOMAIN F) \ {x}) \cup {<<i, part, t>>}
    BY <1>1, <1>13, <1>14
  <2>2. r[3] \in DOMAIN F /\ F[r[3]].block # 1
    <3>1. CASE r \in References(F, DOMAIN F)
      BY <3>1 DEF GraphOK
    <3>2. CASE r = <<i, part, t>>
      BY <1>1, <3>2
    <3> QED BY <2>1, <3>1, <3>2
  <2> QED BY <1>13, <2>2 DEF Kept
<1>17. TargetSet(F, G, e, A, i, part, t)
  BY <1>10, <1>13, <1>15, <1>16 DEF TargetSet
<1> QED BY <1>17 DEF G

(***************************************************************************)
(* What the operations on flow i keep                                      *)
(***************************************************************************)

\* A is the flows of the walk, i the last of them: each of A is used by another
\* one than i, or by what is not a flow.
Safe(F, e, A, i) ==
  /\ GraphOK(F) /\ e \in [DOMAIN F -> Nat] /\ Counted(F, e, {})
  /\ A \subseteq Used(F) /\ i \in A
  /\ \A k \in A : e[k] > 0 \/ \E r \in References(F, A \ {i}) : r[3] = k

\* The types of a safe graph.
LEMMA SafeType ==
    ASSUME NEW F, NEW e, NEW A, NEW i, Safe(F, e, A, i)
    PROVE  /\ F \in Seq(FlowSet) /\ Used(F) \subseteq DOMAIN F /\ A \subseteq DOMAIN F
           /\ i \in DOMAIN F /\ i \in Used(F) /\ F[i] \in FlowSet /\ 0 \notin DOMAIN F
           /\ References(F, Used(F)) \subseteq References(F, DOMAIN F)
           /\ IsFiniteSet(References(F, Used(F)))
           /\ \A j \in DOMAIN F : F[j] \in FlowSet /\ F[j].uses \in Nat /\ e[j] \in Nat
<1>1. F \in Seq(FlowSet) /\ A \subseteq Used(F) /\ Used(F) \subseteq DOMAIN F /\ i \in A
  BY DEF Safe, GraphOK, Used
<1>2. DOMAIN F = 1 .. Len(F) /\ Len(F) \in Nat
  BY <1>1, LenProperties
<1>3. 0 \notin DOMAIN F
  BY <1>2
<1>4. References(F, Used(F)) \subseteq References(F, DOMAIN F)
  BY <1>1, ReferencesSplit
<1>5. IsFiniteSet(References(F, Used(F)))
  BY <1>1, UsedFinite
<1>6. \A j \in DOMAIN F : F[j] \in FlowSet /\ F[j].uses \in Nat
  BY <1>1, UsedFinite
<1>7. \A j \in DOMAIN F : e[j] \in Nat
  BY DEF Safe
<1> QED BY <1>1, <1>3, <1>4, <1>5, <1>6, <1>7

\* What is left of the references and the uses that are given.
LEMMA SafeUses ==
    ASSUME NEW F, NEW e, NEW A, NEW i, Safe(F, e, A, i), NEW j \in DOMAIN F
    PROVE  \E a, b \in Nat : /\ a = Number(References(F, Used(F)), j) /\ b = e[j]
                             /\ F[j].uses = b + a
<1>1. IsFiniteSet(References(F, Used(F))) /\ e[j] \in Nat
  BY SafeType
<1>2. Number(References(F, Used(F)), j) \in Nat
  BY <1>1, NumberType
<1>3. References(F, Used(F)) \ {} = References(F, Used(F))
  OBVIOUS
<1>4. F[j].uses = e[j] + Number(References(F, Used(F)), j)
  BY <1>3 DEF Safe, Counted
<1> QED BY <1>1, <1>2, <1>4

\* References of flow i may go without the flows of the walk going out of use.
LEMMA SafeHeld ==
    ASSUME NEW F, NEW e, NEW A, NEW i, Safe(F, e, A, i), NEW X, \A r \in X : r[1] = i
    PROVE  Held(F, e, A, X)
<1>1. A \subseteq Used(F) /\ \A r \in X : r[1] \in A
  BY DEF Safe
<1>2. ASSUME NEW k \in A PROVE e[k] > 0 \/ \E r \in References(F, A) \ X : r[3] = k
  <2>1. ASSUME NEW r \in References(F, A \ {i}) PROVE r \in References(F, A) \ X
    <3>1. r[1] \in A \ {i}
      BY ReferenceParts
    <3>2. References(F, A \ {i}) \subseteq References(F, A)
      BY ReferencesSplit
    <3> QED BY <3>1, <3>2
  <2> QED BY <2>1 DEF Safe
<1> QED BY <1>1, <1>2 DEF Held

\* A graph stays safe when the flows of the walk but flow i keep their parts.
LEMMA SafeKept ==
    ASSUME NEW F, NEW e, NEW A, NEW i, Safe(F, e, A, i),
           NEW G, GraphOK(G), Counted(G, e, {}), A \subseteq Used(G), Kept(F, G, A \ {i})
    PROVE  Safe(G, e, A, i)
<1>1. References(G, A \ {i}) = References(F, A \ {i})
  BY KeptReferences
<1>2. DOMAIN G = DOMAIN F
  BY DEF Kept
<1> QED BY <1>1, <1>2 DEF Safe

\* The target of a flow in use is in use.
LEMMA SafeTarget ==
    ASSUME NEW F, NEW e, NEW A, NEW i, Safe(F, e, A, i),
           NEW j \in Used(F), NEW p \in PartSet(F[j])
    PROVE  LET t == Target(F[j], p)
           IN  /\ t \in Nat
               /\ <<j, p, t>> \in References(F, Used(F))
               /\ t = 0 \/ (t \in Used(F) /\ F[t].block # 1)
<1> DEFINE t == Target(F[j], p)
           x == <<j, p, t>>
<1>1. x \in References(F, Used(F))
  BY IsReference
<1>2. F[j] \in FlowSet
  BY SafeType
<1>3. t \in Nat
  BY <1>2, PartsAre
<1>4. ASSUME t # 0 PROVE t \in Used(F) /\ F[t].block # 1
  <2>1. x \in References(F, DOMAIN F) /\ x[3] = t
    BY <1>1, SafeType
  <2> HIDE DEF t, x
  <2>2. t \in DOMAIN F /\ F[t].block # 1
    BY <1>4, <2>1 DEF Safe, GraphOK
  <2>3. IsFiniteSet(References(F, Used(F)))
    BY SafeType
  <2>4. Number(References(F, Used(F)), t) > 0
    BY <1>1, <2>1, <2>3, NumberSome
  <2>5. F[t].uses > 0
    <3>1. PICK a, b \in Nat : a = Number(References(F, Used(F)), t) /\ b = e[t] /\ F[t].uses = b + a
      BY <2>2, SafeUses
    <3> QED BY <2>4, <3>1
  <2> QED BY <2>2, <2>5 DEF Used
<1> QED BY <1>1, <1>3, <1>4

\* A flow with one use, by another than the callers of i, is not in the walk.
LEMMA NotInWalk ==
    ASSUME NEW F, NEW e, NEW A, NEW i, Safe(F, e, A, i),
           NEW y \in References(F, Used(F)), y[1] \notin A \ {i}, y[3] # 0,
           F[y[3]].uses = 1
    PROVE  y[3] \notin A
<1> SUFFICES ASSUME y[3] \in A PROVE FALSE
  OBVIOUS
<1> DEFINE live == References(F, Used(F))
<1>1. y[3] \in DOMAIN F /\ IsFiniteSet(live) /\ A \subseteq Used(F)
  <2>1. A \subseteq Used(F)
    BY DEF Safe
  <2>2. A \subseteq DOMAIN F /\ IsFiniteSet(live)
    BY SafeType
  <2> QED BY <2>1, <2>2
<1>2. PICK a, b \in Nat : a = Number(live, y[3]) /\ b = e[y[3]] /\ F[y[3]].uses = b + a
  BY <1>1, SafeUses
<1>3. a > 0
  <2>1. \E r \in live : r[3] = y[3]
    OBVIOUS
  <2> HIDE DEF live
  <2>2. Number(live, y[3]) > 0
    BY <1>1, <2>1, NumberSome
  <2> QED BY <1>2, <2>2
<1>4. CASE e[y[3]] > 0
  BY <1>2, <1>3, <1>4
<1>5. ASSUME NEW r \in References(F, A \ {i}), r[3] = y[3] PROVE FALSE
  <2>1. r[1] \in A \ {i}
    BY ReferenceParts
  <2>2. r # y
    BY <2>1
  <2>3. r \in live
    <3>1. A \ {i} \subseteq Used(F)
      BY <1>1
    <3>2. References(F, A \ {i}) \subseteq live
      BY <3>1, ReferencesSplit
    <3> QED BY <3>2
  <2>4. y \in live /\ IsFiniteSet(live)
    BY <1>1
  <2> HIDE DEF live
  <2>5. PICK k : k = y[3]
    OBVIOUS
  <2>6. Number(live, k) >= 2
    BY <1>5, <2>2, <2>3, <2>4, <2>5, NumberTwo
  <2>7. Number(live, y[3]) >= 2
    BY <2>5, <2>6
  <2> QED BY <1>2, <2>7
<1> QED BY <1>4, <1>5 DEF Safe

\* What an operation on flow i does.
Worked(F, G, e, A, i) == Safe(G, e, A, i) /\ Kept(F, G, A \ {i})

\* One operation on flow i after another is one.
LEMMA WorkedOn ==
    ASSUME NEW F, NEW G, NEW H, NEW e, NEW A, NEW i, Worked(F, G, e, A, i), Worked(G, H, e, A, i),
           A \subseteq DOMAIN F
    PROVE  Worked(F, H, e, A, i)
<1>1. DOMAIN H = DOMAIN F /\ \A j \in DOMAIN F : H[j].block = F[j].block
  BY DEF Worked, Kept
<1>2. \A j \in A \ {i} : SameParts(F[j], H[j])
  BY DEF Worked, Kept, SameParts
<1> QED BY <1>1, <1>2 DEF Worked, Kept

\* What all flows of a set keep, those of a part of it keep.
LEMMA KeptSubset ==
    ASSUME NEW F, NEW G, NEW B, NEW C, Kept(F, G, B), C \subseteq B
    PROVE  Kept(F, G, C)
BY DEF Kept

\* Set_Next and Set_Target on flow i.
LEMMA SafeSetTarget ==
    ASSUME NEW F, NEW e, NEW A, NEW i, Safe(F, e, A, i),
           NEW part \in PartSet(F[i]), NEW t, t = 0 \/ (t \in Used(F) /\ F[t].block # 1)
    PROVE  /\ Worked(F, SetTarget(F, i, part, t), e, A, i)
           /\ TargetSet(F, SetTarget(F, i, part, t), e, A, i, part, t)
<1> DEFINE G == SetTarget(F, i, part, t)
           X == {<<i, part, Target(F[i], part)>>}
<1>1. GraphOK(F) /\ e \in [DOMAIN F -> Nat] /\ Counted(F, e, {}) /\ i \in A
  BY DEF Safe
<1>2. \A r \in X : r[1] = i
  OBVIOUS
<1> HIDE DEF X
<1>3. Held(F, e, A, X)
  BY <1>2, SafeHeld
<1>4. TargetSet(F, G, e, A, i, part, t)
  BY <1>1, <1>3, SetTargetCounted DEF X
<1> HIDE DEF G
<1>5. A \subseteq DOMAIN F
  BY SafeType
<1>6. Kept(F, G, A \ {i})
  BY <1>4, <1>5 DEF TargetSet, Kept
<1>7. Safe(G, e, A, i)
  BY <1>4, <1>6, SafeKept DEF TargetSet
<1> QED BY <1>4, <1>6, <1>7 DEF Worked, G

\* Set_Next on a flow that is not in the walk, when what followed stays in use.
LEMMA SafeSetNext ==
    ASSUME NEW F, NEW e, NEW A, NEW i, Safe(F, e, A, i),
           NEW c \in Used(F) \ A, F[c].next = 0 \/ F[F[c].next].uses >= 2
    PROVE  /\ Worked(F, SetNext(F, c, 0), e, A, i)
           /\ Kept(F, SetNext(F, c, 0), DOMAIN F \ {c})
<1> DEFINE G == SetNext(F, c, 0)
           part == <<"next", 0>>
           old == Target(F[c], part)
           x == <<c, part, old>>
           live == References(F, Used(F))
<1>1. /\ GraphOK(F) /\ e \in [DOMAIN F -> Nat] /\ Counted(F, e, {}) /\ A \subseteq Used(F)
      /\ i \in A
  BY DEF Safe
<1>2. /\ c \in DOMAIN F /\ F[c] \in FlowSet /\ IsFiniteSet(live) /\ Used(F) \subseteq DOMAIN F
      /\ A \subseteq DOMAIN F
  BY SafeType
<1>3. part \in PartSet(F[c]) /\ old = F[c].next /\ c \in Used(F)
  BY <1>2, PartsAre DEF Target
<1> HIDE DEF part
<1>4. x \in live /\ x[3] = old /\ x[1] = c
  BY <1>3, IsReference
<1>5. ASSUME NEW k \in Used(F) PROVE e[k] > 0 \/ \E r \in live \ {x} : r[3] = k
  <2>1. k \in DOMAIN F /\ F[k].uses > 0
    BY DEF Used
  <2>2. PICK a, b \in Nat : a = Number(live, k) /\ b = e[k] /\ F[k].uses = b + a
    BY <2>1, SafeUses
  <2> HIDE DEF live, x
  <2>3. Number(live, k) = Number(live \ {x}, k) + IF x[3] = k THEN 1 ELSE 0
    BY <1>2, <1>4, NumberRemove
  <2>4. IsFiniteSet(live \ {x})
    BY <1>2, FS_Difference
  <2>5. PICK d \in Nat : d = Number(live \ {x}, k)
    BY <2>4, NumberType
  <2>6. a = d + IF x[3] = k THEN 1 ELSE 0
    BY <2>2, <2>3, <2>5
  <2>7. CASE x[3] = k
    <3>1. k # 0 /\ k = F[c].next
      BY <1>3, <1>4, <2>1, <2>7, SafeType
    <3>2. F[k].uses >= 2
      BY <3>1
    <3>3. b > 0 \/ d > 0
      BY <2>2, <2>6, <2>7, <3>2
    <3> QED BY <2>2, <2>4, <2>5, <3>3, NumberSome
  <2>8. CASE x[3] # k
    <3>1. b > 0 \/ d > 0
      BY <2>1, <2>2, <2>6, <2>8
    <3> QED BY <2>2, <2>4, <2>5, <3>1, NumberSome
  <2> QED BY <2>7, <2>8
<1>6. Held(F, e, Used(F), {x})
  BY <1>3, <1>4, <1>5 DEF Held
<1>7. TargetSet(F, G, e, Used(F), c, part, 0)
  <2>1. G = SetTarget(F, c, part, 0)
    BY DEF SetNext, part
  <2>2. TargetSet(F, SetTarget(F, c, part, 0), e, Used(F), c, part, 0)
    BY <1>1, <1>3, <1>6, SetTargetCounted
  <2> QED BY <2>1, <2>2
<1> HIDE DEF G
<1>8. Kept(F, G, DOMAIN F \ {c}) /\ GraphOK(G) /\ Counted(G, e, {}) /\ A \subseteq Used(G)
  BY <1>1, <1>7 DEF TargetSet
<1>9. Kept(F, G, A \ {i})
  <2>1. A \ {i} \subseteq DOMAIN F \ {c}
    BY <1>2
  <2> QED BY <1>8, <2>1, KeptSubset
<1>10. Safe(G, e, A, i)
  BY <1>8, <1>9, SafeKept
<1> QED BY <1>8, <1>9, <1>10 DEF Worked, G

\* One use of flow t more is given.
Plus(e, t) == [j \in DOMAIN e |-> IF j = t THEN e[j] + 1 ELSE e[j]]

\* Add_Use makes the counts right for one use more that is given.
LEMMA SafeAddUse ==
    ASSUME NEW F, NEW e, NEW A, NEW i, Safe(F, e, A, i), NEW t \in Used(F)
    PROVE  /\ Safe(AddUse(F, t), Plus(e, t), A, i)
           /\ Kept(F, AddUse(F, t), DOMAIN F)
           /\ Used(AddUse(F, t)) = Used(F)
           /\ AddUse(F, t)[t].uses >= 2
<1> DEFINE G == AddUse(F, t)
           e1 == Plus(e, t)
<1>1. /\ F \in Seq(FlowSet) /\ Used(F) \subseteq DOMAIN F /\ t \in DOMAIN F /\ t # 0
      /\ \A j \in DOMAIN F : F[j].uses \in Nat /\ e[j] \in Nat
      /\ F[t].uses > 0 /\ A \subseteq DOMAIN F
  BY SafeType DEF Used
<1>2. e \in [DOMAIN F -> Nat] /\ Counted(F, e, {}) /\ A \subseteq Used(F) /\ i \in A /\ GraphOK(F)
  BY DEF Safe
<1>3. PICK n \in Nat : n = F[t].uses /\ n + 1 \in Nat /\ n > 0
  BY <1>1
<1>4. G = [F EXCEPT ![t].uses = n + 1]
  BY <1>1, <1>3 DEF AddUse
<1> HIDE DEF G
<1>5. /\ G \in Seq(FlowSet) /\ Kept(F, G, DOMAIN F) /\ DOMAIN G = DOMAIN F
      /\ \A j \in DOMAIN F : G[j].uses = IF j = t THEN n + 1 ELSE F[j].uses
  <2>1. n + 1 \in Nat
    BY <1>3
  <2>2. Recounted(F, [F EXCEPT ![t].uses = n + 1], [j \in DOMAIN F |-> IF j = t THEN n + 1 ELSE F[j].uses])
    BY <1>1, <2>1, RecountOne
  <2>3. Recounted(F, G, [j \in DOMAIN F |-> IF j = t THEN n + 1 ELSE F[j].uses])
    BY <1>4, <2>2
  <2> QED BY <2>3 DEF Recounted, Kept
<1>6. Used(G) = Used(F)
  <2>1. \A j \in DOMAIN F : G[j].uses > 0 <=> F[j].uses > 0
    BY <1>3, <1>5
  <2> QED BY <1>5, <2>1 DEF Used
<1>7. \A B : B \subseteq DOMAIN F => References(G, B) = References(F, B)
  BY <1>5, KeptReferences
<1>8. GraphOK(G)
  <2>1. References(G, DOMAIN G) = References(F, DOMAIN F)
    BY <1>5, <1>7
  <2> QED BY <1>2, <1>5, <2>1 DEF GraphOK, Kept
<1>9. DOMAIN e = DOMAIN F /\ e1 \in [DOMAIN G -> Nat]
      /\ \A j \in DOMAIN F : e1[j] = IF j = t THEN e[j] + 1 ELSE e[j]
  BY <1>1, <1>2, <1>5 DEF Plus
<1> HIDE DEF e1
<1>10. Counted(G, e1, {})
  <2> SUFFICES ASSUME NEW j \in DOMAIN F
               PROVE  G[j].uses = e1[j] + Number(References(G, Used(G)) \ {}, j)
    BY <1>5 DEF Counted
  <2>1. PICK a, b \in Nat : a = Number(References(F, Used(F)), j) /\ b = e[j] /\ F[j].uses = b + a
    BY SafeUses
  <2>2. References(G, Used(G)) \ {} = References(F, Used(F))
    BY <1>1, <1>6, <1>7
  <2>3. e1[j] = IF j = t THEN b + 1 ELSE b
    BY <1>9, <2>1
  <2>4. G[j].uses = IF j = t THEN b + a + 1 ELSE b + a
    BY <1>3, <1>5, <2>1
  <2> QED BY <2>1, <2>2, <2>3, <2>4
<1>11. Safe(G, e1, A, i)
  <2>1. References(G, A \ {i}) = References(F, A \ {i})
    <3>1. A \ {i} \subseteq DOMAIN F
      BY <1>1
    <3> QED BY <1>7, <3>1
  <2>2. \A k \in A : e[k] > 0 => e1[k] > 0
    <3> SUFFICES ASSUME NEW k \in A, e[k] > 0 PROVE e1[k] > 0
      OBVIOUS
    <3>1. PICK b \in Nat : b = e[k]
      BY <1>1
    <3>2. k \in DOMAIN F
      BY <1>1
    <3>3. e1[k] = IF k = t THEN b + 1 ELSE b
      BY <1>9, <3>1, <3>2
    <3> QED BY <3>1, <3>3
  <2>3. ASSUME NEW k \in A PROVE e1[k] > 0 \/ \E r \in References(G, A \ {i}) : r[3] = k
    BY <2>1, <2>2 DEF Safe
  <2>4. A \subseteq Used(G)
    BY <1>2, <1>6
  <2> QED BY <1>2, <1>8, <1>9, <1>10, <2>3, <2>4 DEF Safe
<1>12. G[t].uses >= 2
  BY <1>1, <1>3, <1>5
<1> QED BY <1>5, <1>6, <1>11, <1>12 DEF G, e1

\* Remove_Use makes the counts right when the use that was given is taken back.
LEMMA SafeRemoveUse ==
    ASSUME NEW F0, NEW e, NEW A, NEW i, Safe(F0, e, A, i),
           NEW F, Kept(F0, F, A \ {i}), NEW t \in DOMAIN F, Safe(F, Plus(e, t), A, i)
    PROVE  Worked(F0, RemoveUse(F, t), e, A, i) /\ Kept(F, RemoveUse(F, t), DOMAIN F)
<1> DEFINE G == RemoveUse(F, t)
           e1 == Plus(e, t)
<1>1. /\ F \in Seq(FlowSet) /\ Used(F) \subseteq DOMAIN F /\ A \subseteq DOMAIN F /\ DOMAIN F = DOMAIN F0
      /\ e \in [DOMAIN F -> Nat] /\ GraphOK(F)
      /\ IsFiniteSet(References(F, Used(F))) /\ A \subseteq Used(F) /\ i \in A
  <2>1. DOMAIN F = DOMAIN F0
    BY DEF Kept
  <2>2. e \in [DOMAIN F -> Nat]
    BY <2>1 DEF Safe
  <2>3. GraphOK(F) /\ A \subseteq Used(F) /\ i \in A
    BY DEF Safe
  <2> QED BY <2>1, <2>2, <2>3, SafeType
<1>2. Held(F, e, A, {})
  <2>1. References(F, A \ {i}) = References(F0, A \ {i})
    BY KeptReferences
  <2>2. References(F, A \ {i}) \subseteq References(F, A)
    BY ReferencesSplit
  <2>3. \A k \in A : e[k] > 0 \/ \E r \in References(F, A \ {i}) : r[3] = k
    BY <2>1 DEF Safe
  <2> QED BY <1>1, <2>2, <2>3 DEF Held
<1>3. ASSUME NEW j \in DOMAIN F
      PROVE  F[j].uses = e[j] + Number(References(F, Used(F)) \ {}, j) + (IF j = t THEN 1 ELSE 0)
  <2>1. PICK a, b \in Nat : a = Number(References(F, Used(F)), j) /\ b = e1[j] /\ F[j].uses = b + a
    BY SafeUses
  <2>2. PICK d \in Nat : d = e[j]
    BY <1>1
  <2>3. b = IF j = t THEN d + 1 ELSE d
    BY <1>1, <2>1, <2>2 DEF Plus
  <2>4. References(F, Used(F)) \ {} = References(F, Used(F))
    OBVIOUS
  <2>5. a = Number(References(F, Used(F)) \ {}, j)
    BY <2>1, <2>4
  <2>6. F[j].uses = d + a + (IF j = t THEN 1 ELSE 0)
    BY <2>1, <2>2, <2>3
  <2> QED BY <2>2, <2>5, <2>6
<1>4. Removed(F, G, e, A, {})
  BY <1>1, <1>2, <1>3, RemoveUseCounted
<1> HIDE DEF G, e1
<1>5. /\ G \in Seq(FlowSet) /\ Kept(F, G, DOMAIN F) /\ Counted(G, e, {}) /\ A \subseteq Used(G)
      /\ DOMAIN G = DOMAIN F
  BY <1>4 DEF Removed, Held, Kept
<1>6. GraphOK(G)
  <2>1. References(G, DOMAIN G) = References(F, DOMAIN F)
    BY <1>5, KeptReferences
  <2> QED BY <1>1, <1>5, <2>1 DEF GraphOK, Kept
<1>7. Kept(F0, G, A \ {i})
  BY <1>1, <1>5 DEF Kept, SameParts
<1>8. Safe(G, e, A, i)
  BY <1>5, <1>6, <1>7, SafeKept
<1> QED BY <1>5, <1>7, <1>8 DEF Worked, G

\* The references that a flow makes.
Own(i, flow) == {<<i, p, Target(flow, p)>> : p \in PartSet(flow)}

\* The parts of flow i are others, with the same targets.
LEMMA SafeReshape ==
    ASSUME NEW F, NEW e, NEW A, NEW i, Safe(F, e, A, i),
           NEW flow \in FlowSet, flow.uses = F[i].uses, flow.block = F[i].block,
           \A j \in DOMAIN F : Number(Own(i, flow), j) = Number(Own(i, F[i]), j),
           \A p \in PartSet(flow) : \/ Target(flow, p) = 0
                                    \/ \E q \in PartSet(F[i]) : Target(F[i], q) = Target(flow, p)
    PROVE  Worked(F, [F EXCEPT ![i] = flow], e, A, i)
<1> DEFINE G == [F EXCEPT ![i] = flow]
<1>1. /\ F \in Seq(FlowSet) /\ Used(F) \subseteq DOMAIN F /\ A \subseteq DOMAIN F /\ i \in DOMAIN F
      /\ i \in Used(F) /\ IsFiniteSet(References(F, Used(F)))
      /\ References(F, Used(F)) \subseteq References(F, DOMAIN F)
  BY SafeType
<1>2. /\ G \in Seq(FlowSet) /\ DOMAIN G = DOMAIN F /\ G[i] = flow
      /\ \A j \in DOMAIN F : j # i => G[j] = F[j]
  BY <1>1, ChangeOne
<1> HIDE DEF G
<1>3. Kept(F, G, DOMAIN F \ {i})
  BY <1>2 DEF Kept, SameParts
<1>4. Used(G) = Used(F)
  <2>1. \A j \in DOMAIN F : G[j].uses = F[j].uses
    BY <1>2
  <2> QED BY <1>2, <2>1 DEF Used
<1> DEFINE rest == References(F, Used(F) \ {i})
<1>5. /\ References(F, Used(F)) = rest \cup Own(i, F[i]) /\ rest \cap Own(i, F[i]) = {}
      /\ References(G, Used(G)) = rest \cup Own(i, flow) /\ rest \cap Own(i, flow) = {}
  <2>1. Used(F) = (Used(F) \ {i}) \cup {i} /\ (Used(F) \ {i}) \cap {i} = {}
    BY <1>1
  <2>2. References(F, {i}) = Own(i, F[i]) /\ References(G, {i}) = Own(i, flow)
    BY <1>2 DEF References, Own, PartSet
  <2>3. References(G, Used(F) \ {i}) = rest
    <3>1. Used(F) \ {i} \subseteq DOMAIN F \ {i}
      BY <1>1
    <3> QED BY <1>3, <3>1, KeptReferences
  <2> DEFINE others == Used(F) \ {i}
  <2>4. Used(F) = others \cup {i} /\ others \cap {i} = {}
    BY <2>1
  <2> HIDE DEF others
  <2>5. /\ References(F, others \cup {i}) = References(F, others) \cup References(F, {i})
        /\ References(F, others) \cap References(F, {i}) = {}
        /\ References(G, others \cup {i}) = References(G, others) \cup References(G, {i})
        /\ References(G, others) \cap References(G, {i}) = {}
    BY <2>4, ReferencesSplit
  <2>6. References(F, Used(F)) = rest \cup References(F, {i}) /\ rest \cap References(F, {i}) = {}
    BY <2>4, <2>5 DEF others
  <2>7. References(G, Used(F)) = References(G, Used(F) \ {i}) \cup References(G, {i})
        /\ References(G, Used(F) \ {i}) \cap References(G, {i}) = {}
    BY <2>4, <2>5 DEF others
  <2> QED BY <1>4, <2>2, <2>3, <2>6, <2>7
<1>6. /\ IsFiniteSet(rest) /\ IsFiniteSet(Own(i, flow)) /\ IsFiniteSet(Own(i, F[i]))
      /\ IsFiniteSet(References(G, Used(G)))
  <2>1. IsFiniteSet(References(G, Used(G)))
    BY <1>2, UsedFinite
  <2> HIDE DEF rest
  <2> QED BY <1>1, <1>5, <2>1, FS_Subset
<1> HIDE DEF rest
<1>7. Counted(G, e, {})
  <2> SUFFICES ASSUME NEW j \in DOMAIN F
               PROVE  G[j].uses = e[j] + Number(References(G, Used(G)) \ {}, j)
    BY <1>2 DEF Counted
  <2>1. PICK a, b \in Nat : a = Number(References(F, Used(F)), j) /\ b = e[j] /\ F[j].uses = b + a
    BY SafeUses
  <2>2. Number(References(F, Used(F)), j) = Number(rest, j) + Number(Own(i, F[i]), j)
    <3>1. /\ rest \subseteq References(F, Used(F))
          /\ References(F, Used(F)) \ rest = Own(i, F[i])
      BY <1>5
    <3>2. Number(References(F, Used(F)), j)
            = Number(References(F, Used(F)) \ rest, j) + Number(rest, j)
      BY <1>1, <3>1, NumberSplit
    <3>3. PICK c \in Nat : c = Number(rest, j)
      BY <1>6, NumberType
    <3>4. PICK d \in Nat : d = Number(Own(i, F[i]), j)
      BY <1>6, NumberType
    <3>5. Number(References(F, Used(F)), j) = d + c
      BY <3>1, <3>2, <3>3, <3>4
    <3> QED BY <3>3, <3>4, <3>5
  <2>3. Number(References(G, Used(G)), j) = Number(rest, j) + Number(Own(i, flow), j)
    <3>1. /\ rest \subseteq References(G, Used(G))
          /\ References(G, Used(G)) \ rest = Own(i, flow)
      BY <1>5
    <3>2. Number(References(G, Used(G)), j)
            = Number(References(G, Used(G)) \ rest, j) + Number(rest, j)
      BY <1>6, <3>1, NumberSplit
    <3>3. PICK c \in Nat : c = Number(rest, j)
      BY <1>6, NumberType
    <3>4. PICK d \in Nat : d = Number(Own(i, flow), j)
      BY <1>6, NumberType
    <3>5. Number(References(G, Used(G)), j) = d + c
      BY <3>1, <3>2, <3>3, <3>4
    <3> QED BY <3>3, <3>4, <3>5
  <2>4. Number(References(G, Used(G)), j) = Number(References(F, Used(F)), j)
    BY <2>2, <2>3
  <2>5. G[j].uses = F[j].uses
    BY <1>2
  <2>6. References(G, Used(G)) \ {} = References(G, Used(G))
    OBVIOUS
  <2> QED BY <2>1, <2>4, <2>5, <2>6
<1>8. GraphOK(G)
  <2> SUFFICES ASSUME NEW r \in References(G, DOMAIN G), r[3] # 0
               PROVE  r[3] \in DOMAIN G /\ G[r[3]].block # 1
    BY <1>2 DEF GraphOK
  <2>1. r[1] \in DOMAIN F /\ r[2] \in PartSet(G[r[1]]) /\ r[3] = Target(G[r[1]], r[2])
        /\ r = <<r[1], r[2], r[3]>>
    BY <1>2, ReferenceParts
  <2>2. \E s \in References(F, DOMAIN F) : s[3] = r[3]
    <3>1. CASE r[1] = i
      <4>1. PICK q \in PartSet(F[i]) : Target(F[i], q) = r[3]
        BY <1>2, <2>1, <3>1
      <4>2. <<i, q, Target(F[i], q)>> \in References(F, DOMAIN F)
        BY <1>1, IsReference
      <4> QED BY <4>1, <4>2
    <3>2. CASE r[1] # i
      <4>1. r[2] \in PartSet(F[r[1]]) /\ r[3] = Target(F[r[1]], r[2])
        BY <1>2, <2>1, <3>2
      <4>2. <<r[1], r[2], Target(F[r[1]], r[2])>> \in References(F, DOMAIN F)
        BY <2>1, <4>1, IsReference
      <4> QED BY <4>1, <4>2
    <3> QED BY <3>1, <3>2
  <2>3. r[3] \in DOMAIN F /\ F[r[3]].block # 1
    BY <2>2 DEF Safe, GraphOK
  <2> QED BY <1>2, <2>3
<1>9. Kept(F, G, A \ {i})
  <2>1. A \ {i} \subseteq DOMAIN F \ {i}
    BY <1>1
  <2> QED BY <1>3, <2>1, KeptSubset
<1>10. Safe(G, e, A, i)
  <2>1. A \subseteq Used(G)
    BY <1>4 DEF Safe
  <2> QED BY <1>7, <1>8, <1>9, <2>1, SafeKept
<1> QED BY <1>9, <1>10 DEF Worked, G

\* A flow makes finitely many references.
LEMMA OwnFinite ==
    ASSUME NEW i, NEW flow \in FlowSet
    PROVE  IsFiniteSet(Own(i, flow))
<1>1. IsFiniteSet(PartSet(flow))
  BY PartsAre
<1> DEFINE f == [p \in PartSet(flow) |-> <<i, p, Target(flow, p)>>]
<1>2. \A r \in Own(i, flow) : \E p \in PartSet(flow) : f[p] = r
  BY DEF Own
<1>3. \A p \in PartSet(flow) : f[p] \in Own(i, flow)
  BY DEF Own
<1> HIDE DEF f
<1>4. f \in Surjection(PartSet(flow), Own(i, flow))
  <2>1. f \in [PartSet(flow) -> Own(i, flow)]
    BY <1>3 DEF f
  <2> QED BY <1>2, <2>1 DEF Surjection
<1> QED BY <1>1, <1>4, FS_Surjection

\* A part without target is taken out.
LEMMA OwnDrop ==
    ASSUME NEW i, NEW flow \in FlowSet, NEW new \in FlowSet, NEW p \in PartSet(flow),
           PartSet(new) = PartSet(flow) \ {p},
           \A q \in PartSet(new) : Target(new, q) = Target(flow, q),
           NEW j, Target(flow, p) # j
    PROVE  Number(Own(i, new), j) = Number(Own(i, flow), j)
<1> DEFINE x == <<i, p, Target(flow, p)>>
<1>1. Own(i, flow) = Own(i, new) \cup {x} /\ x \notin Own(i, new)
  <2>1. Own(i, new) = {<<i, q, Target(flow, q)>> : q \in PartSet(flow) \ {p}}
    BY DEF Own
  <2> QED BY <2>1 DEF Own
<1>2. IsFiniteSet(Own(i, new))
  BY OwnFinite
<1>3. x[3] # j
  OBVIOUS
<1> HIDE DEF x
<1>4. Number(Own(i, new) \cup {x}, j) = Number(Own(i, new), j) + IF x[3] = j THEN 1 ELSE 0
  BY <1>1, <1>2, NumberAdd
<1>5. PICK a \in Nat : a = Number(Own(i, new), j)
  BY <1>2, NumberType
<1>6. Number(Own(i, new) \cup {x}, j) = a
  BY <1>3, <1>4, <1>5
<1> QED BY <1>1, <1>5, <1>6

\* Two parts exchange their targets.
LEMMA OwnSwap ==
    ASSUME NEW i, NEW flow \in FlowSet, NEW new \in FlowSet,
           NEW p \in PartSet(flow), NEW q \in PartSet(flow), p # q,
           PartSet(new) = PartSet(flow),
           Target(new, p) = Target(flow, q), Target(new, q) = Target(flow, p),
           \A s \in PartSet(flow) \ {p, q} : Target(new, s) = Target(flow, s),
           NEW j
    PROVE  Number(Own(i, new), j) = Number(Own(i, flow), j)
<1> DEFINE a == Target(flow, p)
           b == Target(flow, q)
           rest == {<<i, s, Target(flow, s)>> : s \in PartSet(flow) \ {p, q}}
           x == <<i, p, a>>
           y == <<i, q, b>>
           v == <<i, p, b>>
           w == <<i, q, a>>
<1>1. /\ Own(i, flow) = (rest \cup {x}) \cup {y} /\ x \notin rest /\ y \notin rest \cup {x}
      /\ Own(i, new) = (rest \cup {v}) \cup {w} /\ v \notin rest /\ w \notin rest \cup {v}
  <2>1. Own(i, flow) = (rest \cup {x}) \cup {y}
    BY DEF Own
  <2>2. Own(i, new) = {<<i, s, Target(new, s)>> : s \in PartSet(flow)}
    BY DEF Own
  <2>3. rest = {<<i, s, Target(new, s)>> : s \in PartSet(flow) \ {p, q}}
    OBVIOUS
  <2>4. Own(i, new) = (rest \cup {v}) \cup {w}
    BY <2>2, <2>3
  <2> QED BY <2>1, <2>4
<1>2. IsFiniteSet(rest) /\ IsFiniteSet(rest \cup {x}) /\ IsFiniteSet(rest \cup {v})
  <2>1. IsFiniteSet(Own(i, flow)) /\ IsFiniteSet(Own(i, new))
    BY OwnFinite
  <2> HIDE DEF rest, x, y, v, w
  <2> QED BY <1>1, <2>1, FS_Subset
<1>3. x[3] = a /\ y[3] = b /\ v[3] = b /\ w[3] = a
  OBVIOUS
<1> HIDE DEF rest, x, y, v, w, a, b
<1>4. PICK n \in Nat : n = Number(rest, j)
  BY <1>2, NumberType
<1>5. /\ Number(rest \cup {x}, j) = n + IF a = j THEN 1 ELSE 0
      /\ Number(rest \cup {v}, j) = n + IF b = j THEN 1 ELSE 0
  <2>1. Number(rest \cup {x}, j) = Number(rest, j) + IF x[3] = j THEN 1 ELSE 0
    BY <1>1, <1>2, NumberAdd
  <2>2. Number(rest \cup {v}, j) = Number(rest, j) + IF v[3] = j THEN 1 ELSE 0
    BY <1>1, <1>2, NumberAdd
  <2> QED BY <1>3, <1>4, <2>1, <2>2
<1>6. PICK c \in Nat : c = Number(rest \cup {x}, j)
  BY <1>2, NumberType
<1>7. PICK d \in Nat : d = Number(rest \cup {v}, j)
  BY <1>2, NumberType
<1>8. Number((rest \cup {x}) \cup {y}, j) = c + IF b = j THEN 1 ELSE 0
  <2> DEFINE R == rest \cup {x}
  <2>1. y \notin R /\ IsFiniteSet(R)
    BY <1>1, <1>2
  <2> HIDE DEF R
  <2>2. Number(R \cup {y}, j) = Number(R, j) + IF y[3] = j THEN 1 ELSE 0
    BY <2>1, NumberAdd
  <2> QED BY <1>3, <1>6, <2>2 DEF R
<1>9. Number((rest \cup {v}) \cup {w}, j) = d + IF a = j THEN 1 ELSE 0
  <2> DEFINE R == rest \cup {v}
  <2>1. w \notin R /\ IsFiniteSet(R)
    BY <1>1, <1>2
  <2> HIDE DEF R
  <2>2. Number(R \cup {w}, j) = Number(R, j) + IF w[3] = j THEN 1 ELSE 0
    BY <2>1, NumberAdd
  <2> QED BY <1>3, <1>7, <2>2 DEF R
<1>10. c + (IF b = j THEN 1 ELSE 0) = d + IF a = j THEN 1 ELSE 0
  BY <1>4, <1>5, <1>6, <1>7
<1> QED BY <1>1, <1>8, <1>9, <1>10

\* Flow i loses a part without target.
LEMMA SafeDrop ==
    ASSUME NEW F, NEW e, NEW A, NEW i, Safe(F, e, A, i),
           NEW new \in FlowSet, new.uses = F[i].uses, new.block = F[i].block,
           NEW p \in PartSet(F[i]), Target(F[i], p) = 0,
           PartSet(new) = PartSet(F[i]) \ {p},
           \A q \in PartSet(new) : Target(new, q) = Target(F[i], q)
    PROVE  Worked(F, [F EXCEPT ![i] = new], e, A, i)
<1>1. F[i] \in FlowSet /\ 0 \notin DOMAIN F
  BY SafeType
<1>2. ASSUME NEW j \in DOMAIN F PROVE Number(Own(i, new), j) = Number(Own(i, F[i]), j)
  <2>1. Target(F[i], p) # j
    BY <1>1
  <2> QED BY <1>1, <2>1, OwnDrop
<1>3. \A q \in PartSet(new) : \/ Target(new, q) = 0
                              \/ \E s \in PartSet(F[i]) : Target(F[i], s) = Target(new, q)
  OBVIOUS
<1> QED BY <1>2, <1>3, SafeReshape

\* A sequence without its last element.
LEMMA FrontIs ==
    ASSUME NEW S, NEW s \in Seq(S), s # <<>>
    PROVE  /\ Front(s) \in Seq(S) /\ DOMAIN Front(s) = DOMAIN s \ {Len(s)}
           /\ \A k \in DOMAIN Front(s) : Front(s)[k] = s[k]
           /\ Len(s) \in DOMAIN s /\ Last(s) = s[Len(s)]
<1>1. Len(s) \in Nat /\ DOMAIN s = 1 .. Len(s) /\ Len(s) # 0
  BY LenProperties, EmptySeq
<1>2. Front(s) = SubSeq(s, 1, Len(s) - 1) /\ Last(s) = s[Len(s)]
  BY DEF Front, Last
<1>3. Len(s) - 1 \in Nat
  BY <1>1
<1>4. Front(s) = [k \in 1 .. Len(s) - 1 |-> s[k]]
  <2>1. SubSeq(s, 1, Len(s) - 1) = [k \in 1 .. Len(s) - 1 |-> s[1 + k - 1]]
    BY <1>1, <1>3
  <2>2. \A k \in 1 .. Len(s) - 1 : 1 + k - 1 = k
    BY <1>1
  <2>3. \A k \in 1 .. Len(s) - 1 : s[1 + k - 1] = s[k]
    BY <2>2
  <2> QED BY <1>2, <2>1, <2>3
<1>5. 1 .. Len(s) - 1 = DOMAIN s \ {Len(s)}
  BY <1>1
<1>6. Front(s) \in [1 .. Len(s) - 1 -> S]
  BY <1>1, <1>4, <1>5
<1>7. Front(s) \in Seq(S)
  BY <1>3, <1>6
<1> QED BY <1>1, <1>2, <1>4, <1>5, <1>7

\* Delete_If.
LEMMA DeleteElseSafe ==
    ASSUME NEW F, NEW e, NEW A, NEW i, Safe(F, e, A, i), F[i].ifs # <<>>
    PROVE  Worked(F, DeleteElse(F, i), e, A, i)
<1> DEFINE ifs == F[i].ifs
           new == [F[i] EXCEPT !.ifs = Front(ifs)]
           p == <<"if", Len(ifs)>>
<1>1. F \in Seq(FlowSet) /\ F[i] \in FlowSet /\ i \in DOMAIN F /\ A \subseteq DOMAIN F
  BY SafeType
<1>2. CASE Last(ifs).target = 0
  <2>1. DeleteElse(F, i) = [F EXCEPT ![i] = new]
    BY <1>2 DEF DeleteElse
  <2>2. /\ Front(ifs) \in Seq(IfSet) /\ DOMAIN Front(ifs) = DOMAIN ifs \ {Len(ifs)}
        /\ \A k \in DOMAIN Front(ifs) : Front(ifs)[k] = ifs[k]
        /\ Len(ifs) \in DOMAIN ifs /\ Last(ifs) = ifs[Len(ifs)]
    BY <1>1, FlowParts, FrontIs
  <2>3. /\ new \in FlowSet /\ new.uses = F[i].uses /\ new.block = F[i].block
        /\ new.ifs = Front(ifs) /\ new.cases = F[i].cases /\ new.next = F[i].next
    BY <1>1, <2>2 DEF FlowSet
  <2>4. /\ PartSet(F[i]) = {<<"next", 0>>} \cup {<<"if", k>> : k \in DOMAIN ifs}
                                           \cup {<<"case", k>> : k \in DOMAIN F[i].cases}
        /\ PartSet(new) = {<<"next", 0>>} \cup {<<"if", k>> : k \in DOMAIN new.ifs}
                                           \cup {<<"case", k>> : k \in DOMAIN new.cases}
    BY <1>1, <2>3, PartsAre
  <2>5. PartSet(new) = PartSet(F[i]) \ {p} /\ p \in PartSet(F[i])
    BY <2>2, <2>3, <2>4
  <2>6. Target(F[i], p) = 0
    BY <1>2, <2>2 DEF Target
  <2>7. \A q \in PartSet(new) : Target(new, q) = Target(F[i], q)
    <3>1. ASSUME NEW k \in DOMAIN new.ifs PROVE Target(new, <<"if", k>>) = Target(F[i], <<"if", k>>)
      BY <2>2, <2>3 DEF Target
    <3>2. Target(new, <<"next", 0>>) = Target(F[i], <<"next", 0>>)
      BY <2>3 DEF Target
    <3>3. ASSUME NEW k \in DOMAIN new.cases
          PROVE  Target(new, <<"case", k>>) = Target(F[i], <<"case", k>>)
      BY <2>3 DEF Target
    <3> QED BY <2>4, <3>1, <3>2, <3>3
  <2> HIDE DEF new, p
  <2>8. new.uses = F[i].uses /\ new.block = F[i].block /\ new \in FlowSet
    BY <2>3
  <2>9. Worked(F, [F EXCEPT ![i] = new], e, A, i)
    BY <2>5, <2>6, <2>7, <2>8, SafeDrop
  <2> QED BY <2>1, <2>9
<1>3. CASE Last(ifs).target # 0
  <2>1. DeleteElse(F, i) = F
    BY <1>3 DEF DeleteElse
  <2> QED BY <2>1 DEF Worked, Kept, SameParts
<1> QED BY <1>2, <1>3

\* Maybe_Delete_Default.
LEMMA MaybeDeleteDefaultSafe ==
    ASSUME NEW F, NEW e, NEW A, NEW i, Safe(F, e, A, i)
    PROVE  Worked(F, MaybeDeleteDefault(F, i), e, A, i)
<1> DEFINE cases == F[i].cases
           n == Len(cases)
           new == [F[i] EXCEPT !.cases = Front(cases)]
           p == <<"case", n>>
           gone == n > 0 /\ cases[n].value = 0 /\ cases[n].target = 0
                   /\ (n > 1 => ~cases[n - 1].same)
<1>1. F \in Seq(FlowSet) /\ F[i] \in FlowSet /\ i \in DOMAIN F /\ A \subseteq DOMAIN F
  BY SafeType
<1>2. CASE gone
  <2>1. MaybeDeleteDefault(F, i) = [F EXCEPT ![i] = new]
    BY <1>2 DEF MaybeDeleteDefault
  <2>2. cases # <<>>
    BY <1>2
  <2>3. /\ Front(cases) \in Seq(CaseSet) /\ DOMAIN Front(cases) = DOMAIN cases \ {n}
        /\ \A k \in DOMAIN Front(cases) : Front(cases)[k] = cases[k]
        /\ n \in DOMAIN cases /\ Last(cases) = cases[n]
    BY <1>1, <2>2, FlowParts, FrontIs
  <2>4. /\ new \in FlowSet /\ new.uses = F[i].uses /\ new.block = F[i].block
        /\ new.cases = Front(cases) /\ new.ifs = F[i].ifs /\ new.next = F[i].next
    BY <1>1, <2>3 DEF FlowSet
  <2>5. /\ PartSet(F[i]) = {<<"next", 0>>} \cup {<<"if", k>> : k \in DOMAIN F[i].ifs}
                                           \cup {<<"case", k>> : k \in DOMAIN cases}
        /\ PartSet(new) = {<<"next", 0>>} \cup {<<"if", k>> : k \in DOMAIN new.ifs}
                                           \cup {<<"case", k>> : k \in DOMAIN new.cases}
    BY <1>1, <2>4, PartsAre
  <2>6. PartSet(new) = PartSet(F[i]) \ {p} /\ p \in PartSet(F[i])
    BY <2>3, <2>4, <2>5
  <2>7. Target(F[i], p) = 0
    BY <1>2, <2>3 DEF Target
  <2>8. \A q \in PartSet(new) : Target(new, q) = Target(F[i], q)
    <3>1. ASSUME NEW k \in DOMAIN new.ifs PROVE Target(new, <<"if", k>>) = Target(F[i], <<"if", k>>)
      BY <2>4 DEF Target
    <3>2. Target(new, <<"next", 0>>) = Target(F[i], <<"next", 0>>)
      BY <2>4 DEF Target
    <3>3. ASSUME NEW k \in DOMAIN new.cases
          PROVE  Target(new, <<"case", k>>) = Target(F[i], <<"case", k>>)
      BY <2>3, <2>4 DEF Target
    <3> QED BY <2>5, <3>1, <3>2, <3>3
  <2> HIDE DEF new, p
  <2>9. new.uses = F[i].uses /\ new.block = F[i].block /\ new \in FlowSet
    BY <2>4
  <2>10. Worked(F, [F EXCEPT ![i] = new], e, A, i)
    BY <2>6, <2>7, <2>8, <2>9, SafeDrop
  <2> QED BY <2>1, <2>10
<1>3. CASE ~gone
  <2>1. MaybeDeleteDefault(F, i) = F
    BY <1>3, Zenon DEF MaybeDeleteDefault
  <2> QED BY <2>1 DEF Worked, Kept, SameParts
<1> QED BY <1>2, <1>3

\* G is F after some work on flow i that leaves it its parts.
WorkedParts(F, G, e, A, i) == Worked(F, G, e, A, i) /\ PartSet(G[i]) = PartSet(F[i])

\* One operation that leaves the parts after another is one.
LEMMA WorkedPartsOn ==
    ASSUME NEW F, NEW G, NEW H, NEW e, NEW A, NEW i, A \subseteq DOMAIN F,
           WorkedParts(F, G, e, A, i), WorkedParts(G, H, e, A, i)
    PROVE  WorkedParts(F, H, e, A, i)
BY WorkedOn DEF WorkedParts

\* Doing nothing is an operation.
LEMMA WorkedNone ==
    ASSUME NEW F, NEW e, NEW A, NEW i, Safe(F, e, A, i)
    PROVE  WorkedParts(F, F, e, A, i)
BY DEF WorkedParts, Worked, Kept, SameParts

\* So is Set_Target to a flow in use.
LEMMA WorkedTarget ==
    ASSUME NEW F, NEW e, NEW A, NEW i, Safe(F, e, A, i),
           NEW part \in PartSet(F[i]), NEW t, t = 0 \/ (t \in Used(F) /\ F[t].block # 1)
    PROVE  WorkedParts(F, SetTarget(F, i, part, t), e, A, i)
<1>1. TargetSet(F, SetTarget(F, i, part, t), e, A, i, part, t)
      /\ Worked(F, SetTarget(F, i, part, t), e, A, i)
  BY SafeSetTarget
<1>2. PartSet(SetTarget(F, i, part, t)[i]) = PartSet(F[i])
  BY <1>1 DEF TargetSet
<1> QED BY <1>1, <1>2 DEF WorkedParts

\* The parts of a flow by their kind and place, and their targets.
LEMMA CasePart ==
    ASSUME NEW flow \in FlowSet, NEW k
    PROVE  /\ <<"case", k>> \in PartSet(flow) <=> k \in 1 .. Len(flow.cases)
           /\ <<"if", k>> \in PartSet(flow) <=> k \in 1 .. Len(flow.ifs)
           /\ Target(flow, <<"case", k>>) = flow.cases[k].target
           /\ Target(flow, <<"if", k>>) = flow.ifs[k].target
           /\ Target(flow, <<"next", 0>>) = flow.next /\ <<"next", 0>> \in PartSet(flow)
<1>1. /\ PartSet(flow) = {<<"next", 0>>} \cup {<<"if", q>> : q \in DOMAIN flow.ifs}
                                         \cup {<<"case", q>> : q \in DOMAIN flow.cases}
      /\ DOMAIN flow.ifs = 1 .. Len(flow.ifs) /\ DOMAIN flow.cases = 1 .. Len(flow.cases)
  BY PartsAre, FlowParts
<1> QED BY <1>1 DEF Target

\* The cases of flow i are others with the same number.
LEMMA OtherCases ==
    ASSUME NEW flow \in FlowSet, NEW cases \in [DOMAIN flow.cases -> CaseSet]
    PROVE  LET new == [flow EXCEPT !.cases = cases]
           IN  /\ new \in FlowSet /\ new.uses = flow.uses /\ new.block = flow.block
               /\ new.cases = cases /\ PartSet(new) = PartSet(flow)
               /\ \A p \in PartSet(flow) :
                    Target(new, p) = IF p[1] = "case" THEN cases[p[2]].target ELSE Target(flow, p)
<1> DEFINE new == [flow EXCEPT !.cases = cases]
<1>1. cases \in Seq(CaseSet) /\ DOMAIN cases = DOMAIN flow.cases
  BY FlowParts, SameDomain
<1>2. /\ new \in FlowSet /\ new.uses = flow.uses /\ new.block = flow.block
      /\ new.cases = cases /\ new.ifs = flow.ifs /\ new.next = flow.next
  BY <1>1 DEF FlowSet
<1> HIDE DEF new
<1>3. /\ PartSet(flow) = {<<"next", 0>>} \cup {<<"if", k>> : k \in DOMAIN flow.ifs}
                                         \cup {<<"case", k>> : k \in DOMAIN flow.cases}
      /\ PartSet(new) = {<<"next", 0>>} \cup {<<"if", k>> : k \in DOMAIN new.ifs}
                                         \cup {<<"case", k>> : k \in DOMAIN new.cases}
  BY <1>2, PartsAre
<1>4. PartSet(new) = PartSet(flow)
  BY <1>1, <1>2, <1>3
<1>5. \A p \in PartSet(flow) :
        Target(new, p) = IF p[1] = "case" THEN cases[p[2]].target ELSE Target(flow, p)
  BY <1>2, <1>3 DEF Target
<1> QED BY <1>2, <1>4, <1>5 DEF new

\* Swap_Cases.
LEMMA OrderedSafe ==
    ASSUME NEW F, NEW e, NEW A, NEW i, Safe(F, e, A, i),
           NEW k \in DOMAIN F[i].cases, NEW l \in DOMAIN F[i].cases
    PROVE  WorkedParts(F, Ordered(F, i, k, l), e, A, i)
<1> DEFINE c == F[i].cases
           cases == [c EXCEPT ![k] = c[l], ![l] = c[k]]
           new == [F[i] EXCEPT !.cases = cases]
           p == <<"case", k>>
           q == <<"case", l>>
<1>1. F \in Seq(FlowSet) /\ F[i] \in FlowSet /\ i \in DOMAIN F /\ A \subseteq DOMAIN F
  BY SafeType
<1>2. CASE ~(k < l /\ CaseBefore(c[l], c[k]))
  <2>1. Ordered(F, i, k, l) = F
    BY <1>2 DEF Ordered
  <2> QED BY <2>1, WorkedNone
<1>3. CASE k < l /\ CaseBefore(c[l], c[k])
  <2>1. Ordered(F, i, k, l) = [F EXCEPT ![i] = new]
    BY <1>3 DEF Ordered
  <2>2. c \in Seq(CaseSet) /\ DOMAIN c = 1 .. Len(c) /\ \A m \in DOMAIN c : c[m] \in CaseSet
    BY <1>1, FlowParts
  <2>3. k # l
    BY <1>3, <2>2
  <2>4. /\ cases \in [DOMAIN c -> CaseSet] /\ cases[k] = c[l] /\ cases[l] = c[k]
        /\ \A m \in DOMAIN c : m # k /\ m # l => cases[m] = c[m]
    BY <2>2, <2>3
  <2> HIDE DEF cases
  <2>5. /\ new \in FlowSet /\ new.uses = F[i].uses /\ new.block = F[i].block
        /\ new.cases = cases /\ PartSet(new) = PartSet(F[i])
        /\ \A s \in PartSet(F[i]) :
             Target(new, s) = IF s[1] = "case" THEN cases[s[2]].target ELSE Target(F[i], s)
    BY <1>1, <2>4, OtherCases
  <2> HIDE DEF new
  <2>6. p \in PartSet(F[i]) /\ q \in PartSet(F[i]) /\ p # q
    BY <1>1, <2>2, <2>3, CasePart
  <2>7. Target(new, p) = Target(F[i], q) /\ Target(new, q) = Target(F[i], p)
    <3>1. Target(F[i], p) = c[k].target /\ Target(F[i], q) = c[l].target
      BY <1>1, CasePart
    <3> QED BY <2>4, <2>5, <2>6, <3>1
  <2>8. \A s \in PartSet(F[i]) \ {p, q} : Target(new, s) = Target(F[i], s)
    <3> SUFFICES ASSUME NEW s \in PartSet(F[i]) \ {p, q}, s[1] = "case"
                 PROVE  Target(new, s) = Target(F[i], s)
      BY <2>5
    <3>1. PICK m \in DOMAIN c : s = <<"case", m>>
      BY <1>1, PartsAre
    <3>2. m # k /\ m # l /\ Target(F[i], s) = c[m].target
      BY <1>1, <3>1, CasePart
    <3> QED BY <2>4, <2>5, <3>1, <3>2
  <2> HIDE DEF p, q
  <2>9. ASSUME NEW j \in DOMAIN F PROVE Number(Own(i, new), j) = Number(Own(i, F[i]), j)
    <3>1. new \in FlowSet /\ PartSet(new) = PartSet(F[i])
      BY <2>5
    <3> QED BY <1>1, <2>6, <2>7, <2>8, <3>1, OwnSwap
  <2>10. \A s \in PartSet(new) : \E r \in PartSet(F[i]) : Target(F[i], r) = Target(new, s)
    BY <2>5, <2>6, <2>7, <2>8
  <2>11. new \in FlowSet /\ new.uses = F[i].uses /\ new.block = F[i].block
    BY <2>5
  <2>12. Worked(F, [F EXCEPT ![i] = new], e, A, i)
    BY <2>9, <2>10, <2>11, SafeReshape
  <2>13. [F EXCEPT ![i] = new][i] = new
    BY <1>1
  <2> QED BY <2>1, <2>5, <2>12, <2>13 DEF WorkedParts
<1> QED BY <1>2, <1>3

\* A case that shares the output of the next one gives up its target.
LEMMA ShareCaseSafe ==
    ASSUME NEW F, NEW e, NEW A, NEW i, Safe(F, e, A, i), NEW k \in DOMAIN F[i].cases
    PROVE  WorkedParts(F, ShareCase(F, i, k), e, A, i)
<1> DEFINE c == F[i].cases
           cases == [c EXCEPT ![k].same = TRUE]
           new == [F[i] EXCEPT !.cases = cases]
           G == [F EXCEPT ![i] = new]
<1>1. F \in Seq(FlowSet) /\ F[i] \in FlowSet /\ i \in DOMAIN F /\ A \subseteq DOMAIN F
  BY SafeType
<1>2. CASE c[k].target # c[k + 1].target
  <2>1. ShareCase(F, i, k) = F
    BY <1>2 DEF ShareCase
  <2> QED BY <2>1, WorkedNone
<1>3. CASE c[k].target = c[k + 1].target
  <2>1. ShareCase(F, i, k) = SetTarget(G, i, <<"case", k>>, 0)
    <3>1. [F EXCEPT ![i].cases[k].same = TRUE] = G
      OBVIOUS
    <3> QED BY <1>3, <3>1 DEF ShareCase
  <2>2. c \in Seq(CaseSet) /\ DOMAIN c = 1 .. Len(c) /\ \A m \in DOMAIN c : c[m] \in CaseSet
    BY <1>1, FlowParts
  <2>3. /\ cases \in [DOMAIN c -> CaseSet]
        /\ \A m \in DOMAIN c : cases[m].target = c[m].target
    BY <2>2 DEF CaseSet
  <2> HIDE DEF cases
  <2>4. /\ new \in FlowSet /\ new.uses = F[i].uses /\ new.block = F[i].block
        /\ new.cases = cases /\ PartSet(new) = PartSet(F[i])
        /\ \A s \in PartSet(F[i]) :
             Target(new, s) = IF s[1] = "case" THEN cases[s[2]].target ELSE Target(F[i], s)
    BY <1>1, <2>3, OtherCases
  <2> HIDE DEF new
  <2>5. \A s \in PartSet(F[i]) : Target(new, s) = Target(F[i], s)
    <3> SUFFICES ASSUME NEW s \in PartSet(F[i]), s[1] = "case"
                 PROVE  Target(new, s) = Target(F[i], s)
      BY <2>4
    <3>1. PICK m \in DOMAIN c : s = <<"case", m>>
      BY <1>1, PartsAre
    <3>2. Target(F[i], s) = c[m].target
      BY <1>1, <3>1, CasePart
    <3> QED BY <2>3, <2>4, <3>1, <3>2
  <2>6. Own(i, new) = Own(i, F[i])
    BY <2>4, <2>5 DEF Own
  <2>7. \A s \in PartSet(new) : \E r \in PartSet(F[i]) : Target(F[i], r) = Target(new, s)
    BY <2>4, <2>5
  <2>8. new \in FlowSet /\ new.uses = F[i].uses /\ new.block = F[i].block
    BY <2>4
  <2>9. Worked(F, G, e, A, i)
    BY <2>6, <2>7, <2>8, SafeReshape
  <2>10. G[i] = new
    BY <1>1
  <2> HIDE DEF G
  <2>11. WorkedParts(F, G, e, A, i)
    BY <2>4, <2>9, <2>10 DEF WorkedParts
  <2>12. Safe(G, e, A, i) /\ <<"case", k>> \in PartSet(G[i])
    BY <1>1, <2>2, <2>4, <2>9, <2>10, CasePart DEF Worked
  <2>13. WorkedParts(G, SetTarget(G, i, <<"case", k>>, 0), e, A, i)
    BY <2>12, WorkedTarget
  <2> QED BY <1>1, <2>1, <2>11, <2>13, WorkedPartsOn
<1> QED BY <1>2, <1>3

\* What a loop keeps.
LEMMA LoopStays ==
    ASSUME NEW n \in Nat, NEW D, NEW h, h[0] \in D,
           \A k \in 1 .. n : h[k - 1] \in D => h[k] \in D
    PROVE  h[n] \in D
<1> DEFINE E == [k \in 0 .. n |-> D]
<1>1. 0 \in 0 .. n /\ n \in 0 .. n /\ \A k \in 1 .. n : k \in 0 .. n /\ k - 1 \in 0 .. n
  OBVIOUS
<1>2. h[0] \in E[0] /\ \A k \in 1 .. n : h[k - 1] \in E[k - 1] => h[k] \in E[k]
  BY <1>1
<1>3. \A k \in 0 .. n : E[k] = D
  OBVIOUS
<1> HIDE DEF E
<1>4. \A k \in 0 .. n : h[k] \in E[k]
  BY <1>2, LoopHolds
<1> QED BY <1>1, <1>3, <1>4

\* The graphs that work on flow i leads to.
Graphs(F, e, A, i) == {G \in Seq(FlowSet) : WorkedParts(F, G, e, A, i)}

\* The graph before the work is one of them.
LEMMA GraphsStart ==
    ASSUME NEW F, NEW e, NEW A, NEW i, Safe(F, e, A, i)
    PROVE  F \in Graphs(F, e, A, i)
BY SafeType, WorkedNone DEF Graphs

\* So is what an operation makes of one of them.
LEMMA GraphsOn ==
    ASSUME NEW F, NEW e, NEW A, NEW i, Safe(F, e, A, i), NEW G \in Graphs(F, e, A, i),
           NEW H, WorkedParts(G, H, e, A, i)
    PROVE  H \in Graphs(F, e, A, i)
<1>1. A \subseteq DOMAIN F
  BY SafeType
<1>2. WorkedParts(F, H, e, A, i)
  BY <1>1, WorkedPartsOn DEF Graphs
<1>3. H \in Seq(FlowSet)
  BY <1>2 DEF WorkedParts, Worked, Safe, GraphOK
<1> QED BY <1>2, <1>3 DEF Graphs

\* All of them are safe, and flow i has its parts.
LEMMA GraphsAre ==
    ASSUME NEW F, NEW e, NEW A, NEW i, Safe(F, e, A, i), NEW G \in Graphs(F, e, A, i)
    PROVE  /\ Safe(G, e, A, i) /\ WorkedParts(F, G, e, A, i)
           /\ PartSet(G[i]) = PartSet(F[i])
           /\ DOMAIN G[i].cases = DOMAIN F[i].cases /\ DOMAIN G[i].ifs = DOMAIN F[i].ifs
           /\ Len(G[i].cases) = Len(F[i].cases) /\ Len(G[i].ifs) = Len(F[i].ifs)
<1>1. Safe(G, e, A, i) /\ WorkedParts(F, G, e, A, i) /\ PartSet(G[i]) = PartSet(F[i])
  BY DEF Graphs, WorkedParts, Worked
<1>2. F[i] \in FlowSet /\ G[i] \in FlowSet
  BY <1>1, SafeType
<1>3. /\ DOMAIN F[i].ifs = 1 .. Len(F[i].ifs) /\ DOMAIN F[i].cases = 1 .. Len(F[i].cases)
      /\ DOMAIN G[i].ifs = 1 .. Len(G[i].ifs) /\ DOMAIN G[i].cases = 1 .. Len(G[i].cases)
      /\ Len(F[i].ifs) \in Nat /\ Len(G[i].ifs) \in Nat
      /\ Len(F[i].cases) \in Nat /\ Len(G[i].cases) \in Nat
  BY <1>2, FlowParts
<1>4. \A k : k \in 1 .. Len(F[i].cases) <=> k \in 1 .. Len(G[i].cases)
  BY <1>1, <1>2, CasePart
<1>5. \A k : k \in 1 .. Len(F[i].ifs) <=> k \in 1 .. Len(G[i].ifs)
  BY <1>1, <1>2, CasePart
<1>6. Len(G[i].cases) = Len(F[i].cases)
  <2>1. PICK a \in Nat : a = Len(F[i].cases)
    BY <1>3
  <2>2. PICK b \in Nat : b = Len(G[i].cases)
    BY <1>3
  <2>3. \A k : k \in 1 .. a <=> k \in 1 .. b
    BY <1>4, <2>1, <2>2
  <2>4. a = b
    <3>1. a \in 1 .. a <=> a \in 1 .. b
      BY <2>3
    <3>2. b \in 1 .. a <=> b \in 1 .. b
      BY <2>3
    <3> QED BY <3>1, <3>2
  <2> QED BY <2>1, <2>2, <2>4
<1>7. Len(G[i].ifs) = Len(F[i].ifs)
  <2>1. PICK a \in Nat : a = Len(F[i].ifs)
    BY <1>3
  <2>2. PICK b \in Nat : b = Len(G[i].ifs)
    BY <1>3
  <2>3. \A k : k \in 1 .. a <=> k \in 1 .. b
    BY <1>5, <2>1, <2>2
  <2>4. a = b
    <3>1. a \in 1 .. a <=> a \in 1 .. b
      BY <2>3
    <3>2. b \in 1 .. a <=> b \in 1 .. b
      BY <2>3
    <3> QED BY <3>1, <3>2
  <2> QED BY <2>1, <2>2, <2>4
<1> QED BY <1>1, <1>3, <1>6, <1>7

\* All of them are the outcome of an operation.
LEMMA GraphsWorked ==
    ASSUME NEW F, NEW e, NEW A, NEW i, Safe(F, e, A, i), NEW G \in Graphs(F, e, A, i)
    PROVE  WorkedParts(F, G, e, A, i)
BY DEF Graphs

\* The inner loop of the sort.
LEMMA FirstToPlaceSafe ==
    ASSUME NEW F, NEW e, NEW A, NEW i, Safe(F, e, A, i), NEW m \in DOMAIN F[i].cases
    PROVE  WorkedParts(F, FirstToPlace(F, i, m), e, A, i)
<1> DEFINE Loop(h) == h = [k \in 0 .. Len(F[i].cases) |-> IF k = 0 THEN F ELSE Ordered(h[k - 1], i, m, k)]
           D == Graphs(F, e, A, i)
           step == [y \in (1 .. Len(F[i].cases)) \X D |-> Ordered(y[2], i, m, y[1])]
<1>1. Len(F[i].cases) \in Nat
  BY SafeType, FlowParts
<1>2. F \in D
  BY GraphsStart
<1>3. \A k \in 1 .. Len(F[i].cases) : \A y \in D : Ordered(y, i, m, k) \in D
  <2> SUFFICES ASSUME NEW k \in 1 .. Len(F[i].cases), NEW y \in D PROVE Ordered(y, i, m, k) \in D
    OBVIOUS
  <2>1. Safe(y, e, A, i) /\ DOMAIN y[i].cases = DOMAIN F[i].cases
    BY GraphsAre
  <2>2. k \in DOMAIN F[i].cases
    BY SafeType, FlowParts
  <2>3. WorkedParts(y, Ordered(y, i, m, k), e, A, i)
    BY <2>1, <2>2, OrderedSafe
  <2> QED BY <2>3, GraphsOn
<1>4. \A k \in 1 .. Len(F[i].cases) : \A y \in D : step[<<k, y>>] = Ordered(y, i, m, k) /\ step[<<k, y>>] \in D
  <2> HIDE DEF D
  <2> QED BY <1>3
<1> HIDE DEF D, step
<1>5. PICK f : LoopIn(f, Len(F[i].cases), D, F, step)
  <2>1. \A k \in 1 .. Len(F[i].cases) : \A y \in D : step[<<k, y>>] \in D
    BY <1>4
  <2> QED BY <1>1, <1>2, <2>1, LoopExists
<1>6. \A k \in 0 .. Len(F[i].cases) : f[k] = IF k = 0 THEN F ELSE Ordered(f[k - 1], i, m, k)
  <2> SUFFICES ASSUME NEW k \in 0 .. Len(F[i].cases), k # 0 PROVE f[k] = Ordered(f[k - 1], i, m, k)
    BY <1>5 DEF LoopIn
  <2>1. k \in 1 .. Len(F[i].cases) /\ k - 1 \in 0 .. Len(F[i].cases)
    BY <1>1
  <2> QED BY <1>4, <1>5, <2>1 DEF LoopIn
<1>7. Loop(f)
  <2>1. f = [k \in 0 .. Len(F[i].cases) |-> f[k]]
    BY <1>5 DEF LoopIn
  <2> QED BY <1>6, <2>1, Zenon
<1> DEFINE h == CHOOSE g : Loop(g)
<1>8. Loop(h)
  BY <1>7, Zenon
<1> HIDE DEF h
<1>9. h[0] = F /\ \A k \in 1 .. Len(F[i].cases) : h[k] = Ordered(h[k - 1], i, m, k)
  <2>1. \A k \in 0 .. Len(F[i].cases) : h[k] = IF k = 0 THEN F ELSE Ordered(h[k - 1], i, m, k)
    BY <1>8, Zenon
  <2>2. 0 \in 0 .. Len(F[i].cases) /\ \A k \in 1 .. Len(F[i].cases) : k \in 0 .. Len(F[i].cases) /\ k # 0
    BY <1>1
  <2> QED BY <2>1, <2>2
<1>10. h[Len(F[i].cases)] \in D
  <2>1. h[0] \in D
    BY <1>2, <1>9
  <2>2. \A k \in 1 .. Len(F[i].cases) : h[k - 1] \in D => h[k] \in D
    BY <1>3, <1>9
  <2> QED BY <1>1, <2>1, <2>2, LoopStays
<1>11. FirstToPlace(F, i, m) = h[Len(F[i].cases)]
  BY DEF FirstToPlace, h
<1> QED BY <1>10, <1>11, GraphsWorked DEF D

\* The sort.
LEMMA SortedSafe ==
    ASSUME NEW F, NEW e, NEW A, NEW i, Safe(F, e, A, i)
    PROVE  WorkedParts(F, Sorted(F, i), e, A, i)
<1> DEFINE Loop(h) == h = [k \in 0 .. Len(F[i].cases) |-> IF k = 0 THEN F ELSE FirstToPlace(h[k - 1], i, k)]
           D == Graphs(F, e, A, i)
           step == [y \in (1 .. Len(F[i].cases)) \X D |-> FirstToPlace(y[2], i, y[1])]
<1>1. Len(F[i].cases) \in Nat
  BY SafeType, FlowParts
<1>2. F \in D
  BY GraphsStart
<1>3. \A k \in 1 .. Len(F[i].cases) : \A y \in D : FirstToPlace(y, i, k) \in D
  <2> SUFFICES ASSUME NEW k \in 1 .. Len(F[i].cases), NEW y \in D PROVE FirstToPlace(y, i, k) \in D
    OBVIOUS
  <2>1. Safe(y, e, A, i) /\ DOMAIN y[i].cases = DOMAIN F[i].cases
    BY GraphsAre
  <2>2. k \in DOMAIN F[i].cases
    BY SafeType, FlowParts
  <2>3. WorkedParts(y, FirstToPlace(y, i, k), e, A, i)
    BY <2>1, <2>2, FirstToPlaceSafe
  <2> QED BY <2>3, GraphsOn
<1>4. \A k \in 1 .. Len(F[i].cases) : \A y \in D : step[<<k, y>>] = FirstToPlace(y, i, k) /\ step[<<k, y>>] \in D
  <2> HIDE DEF D
  <2> QED BY <1>3
<1> HIDE DEF D, step
<1>5. PICK f : LoopIn(f, Len(F[i].cases), D, F, step)
  <2>1. \A k \in 1 .. Len(F[i].cases) : \A y \in D : step[<<k, y>>] \in D
    BY <1>4
  <2> QED BY <1>1, <1>2, <2>1, LoopExists
<1>6. \A k \in 0 .. Len(F[i].cases) : f[k] = IF k = 0 THEN F ELSE FirstToPlace(f[k - 1], i, k)
  <2> SUFFICES ASSUME NEW k \in 0 .. Len(F[i].cases), k # 0 PROVE f[k] = FirstToPlace(f[k - 1], i, k)
    BY <1>5 DEF LoopIn
  <2>1. k \in 1 .. Len(F[i].cases) /\ k - 1 \in 0 .. Len(F[i].cases)
    BY <1>1
  <2> QED BY <1>4, <1>5, <2>1 DEF LoopIn
<1>7. Loop(f)
  <2>1. f = [k \in 0 .. Len(F[i].cases) |-> f[k]]
    BY <1>5 DEF LoopIn
  <2> QED BY <1>6, <2>1, Zenon
<1> DEFINE h == CHOOSE g : Loop(g)
<1>8. Loop(h)
  BY <1>7, Zenon
<1> HIDE DEF h
<1>9. h[0] = F /\ \A k \in 1 .. Len(F[i].cases) : h[k] = FirstToPlace(h[k - 1], i, k)
  <2>1. \A k \in 0 .. Len(F[i].cases) : h[k] = IF k = 0 THEN F ELSE FirstToPlace(h[k - 1], i, k)
    BY <1>8, Zenon
  <2>2. 0 \in 0 .. Len(F[i].cases) /\ \A k \in 1 .. Len(F[i].cases) : k \in 0 .. Len(F[i].cases) /\ k # 0
    BY <1>1
  <2> QED BY <2>1, <2>2
<1>10. h[Len(F[i].cases)] \in D
  <2>1. h[0] \in D
    BY <1>2, <1>9
  <2>2. \A k \in 1 .. Len(F[i].cases) : h[k - 1] \in D => h[k] \in D
    BY <1>3, <1>9
  <2> QED BY <1>1, <2>1, <2>2, LoopStays
<1>11. Sorted(F, i) = h[Len(F[i].cases)]
  BY DEF Sorted, h
<1> QED BY <1>10, <1>11, GraphsWorked DEF D

\* The loop over the cases that may share their target.
LEMMA ShareCasesSafe ==
    ASSUME NEW F, NEW e, NEW A, NEW i, Safe(F, e, A, i), F[i].cases # <<>>
    PROVE  WorkedParts(F, ShareCases(F, i), e, A, i)
<1> DEFINE Loop(h) == h = [k \in 0 .. Len(F[i].cases) - 1 |-> IF k = 0 THEN F ELSE ShareCase(h[k - 1], i, k)]
           D == Graphs(F, e, A, i)
           step == [y \in (1 .. Len(F[i].cases) - 1) \X D |-> ShareCase(y[2], i, y[1])]
<1>1. Len(F[i].cases) - 1 \in Nat
  <2>1. F[i].cases \in Seq(CaseSet)
    BY SafeType, FlowParts
  <2>2. Len(F[i].cases) \in Nat /\ Len(F[i].cases) # 0
    BY <2>1, LenProperties, EmptySeq
  <2> QED BY <2>2
<1>2. F \in D
  BY GraphsStart
<1>3. \A k \in 1 .. Len(F[i].cases) - 1 : \A y \in D : ShareCase(y, i, k) \in D
  <2> SUFFICES ASSUME NEW k \in 1 .. Len(F[i].cases) - 1, NEW y \in D PROVE ShareCase(y, i, k) \in D
    OBVIOUS
  <2>1. Safe(y, e, A, i) /\ DOMAIN y[i].cases = DOMAIN F[i].cases
    BY GraphsAre
  <2>2. k \in DOMAIN F[i].cases
    BY SafeType, FlowParts
  <2>3. WorkedParts(y, ShareCase(y, i, k), e, A, i)
    BY <2>1, <2>2, ShareCaseSafe
  <2> QED BY <2>3, GraphsOn
<1>4. \A k \in 1 .. Len(F[i].cases) - 1 : \A y \in D : step[<<k, y>>] = ShareCase(y, i, k) /\ step[<<k, y>>] \in D
  <2> HIDE DEF D
  <2> QED BY <1>3
<1> HIDE DEF D, step
<1>5. PICK f : LoopIn(f, Len(F[i].cases) - 1, D, F, step)
  <2>1. \A k \in 1 .. Len(F[i].cases) - 1 : \A y \in D : step[<<k, y>>] \in D
    BY <1>4
  <2> QED BY <1>1, <1>2, <2>1, LoopExists
<1>6. \A k \in 0 .. Len(F[i].cases) - 1 : f[k] = IF k = 0 THEN F ELSE ShareCase(f[k - 1], i, k)
  <2> SUFFICES ASSUME NEW k \in 0 .. Len(F[i].cases) - 1, k # 0 PROVE f[k] = ShareCase(f[k - 1], i, k)
    BY <1>5 DEF LoopIn
  <2>1. k \in 1 .. Len(F[i].cases) - 1 /\ k - 1 \in 0 .. Len(F[i].cases) - 1
    BY <1>1
  <2> QED BY <1>4, <1>5, <2>1 DEF LoopIn
<1>7. Loop(f)
  <2>1. f = [k \in 0 .. Len(F[i].cases) - 1 |-> f[k]]
    BY <1>5 DEF LoopIn
  <2> QED BY <1>6, <2>1, Zenon
<1> DEFINE h == CHOOSE g : Loop(g)
<1>8. Loop(h)
  BY <1>7, Zenon
<1> HIDE DEF h
<1>9. h[0] = F /\ \A k \in 1 .. Len(F[i].cases) - 1 : h[k] = ShareCase(h[k - 1], i, k)
  <2>1. \A k \in 0 .. Len(F[i].cases) - 1 : h[k] = IF k = 0 THEN F ELSE ShareCase(h[k - 1], i, k)
    BY <1>8, Zenon
  <2>2. 0 \in 0 .. Len(F[i].cases) - 1 /\ \A k \in 1 .. Len(F[i].cases) - 1 : k \in 0 .. Len(F[i].cases) - 1 /\ k # 0
    BY <1>1
  <2> QED BY <2>1, <2>2
<1>10. h[Len(F[i].cases) - 1] \in D
  <2>1. h[0] \in D
    BY <1>2, <1>9
  <2>2. \A k \in 1 .. Len(F[i].cases) - 1 : h[k - 1] \in D => h[k] \in D
    BY <1>3, <1>9
  <2> QED BY <1>1, <2>1, <2>2, LoopStays
<1>11. ShareCases(F, i) = h[Len(F[i].cases) - 1]
  BY DEF ShareCases, h
<1> QED BY <1>10, <1>11, GraphsWorked DEF D

\* Simplify_Cases.
LEMMA SimplifyCasesSafe ==
    ASSUME NEW F, NEW e, NEW A, NEW i, Safe(F, e, A, i)
    PROVE  Worked(F, SimplifyCases(F, i), e, A, i)
<1>1. CASE F[i].cases = <<>>
  BY <1>1, WorkedNone DEF SimplifyCases, WorkedParts
<1>2. CASE F[i].cases # <<>>
  <2> DEFINE G == Sorted(F, i)
  <2>1. WorkedParts(F, G, e, A, i)
    BY SortedSafe
  <2>2. G \in Graphs(F, e, A, i) /\ Safe(G, e, A, i)
    BY <2>1 DEF Graphs, WorkedParts, Worked, Safe, GraphOK
  <2>3. G[i].cases # <<>>
    <3> HIDE DEF G
    <3>1. Len(G[i].cases) = Len(F[i].cases)
      BY <2>2, GraphsAre
    <3>2. F[i].cases \in Seq(CaseSet) /\ G[i].cases \in Seq(CaseSet)
      BY <2>2, SafeType, FlowParts
    <3> QED BY <1>2, <3>1, <3>2, EmptySeq
  <2>4. WorkedParts(G, ShareCases(G, i), e, A, i)
    <3> HIDE DEF G
    <3> QED BY <2>2, <2>3, ShareCasesSafe
  <2>5. SimplifyCases(F, i) = ShareCases(G, i)
    BY <1>2 DEF SimplifyCases
  <2>6. A \subseteq DOMAIN F
    BY SafeType
  <2> HIDE DEF G
  <2> QED BY <2>1, <2>4, <2>5, <2>6, WorkedPartsOn DEF WorkedParts
<1> QED BY <1>1, <1>2

\* What a part of a flow can lead to.
Goals(F) == {t \in Nat : t = 0 \/ (t \in Used(F) /\ F[t].block # 1)}

\* The target of a part of a flow in use is a goal.
LEMMA GoalOf ==
    ASSUME NEW F, NEW e, NEW A, NEW i, Safe(F, e, A, i), NEW j \in Used(F), NEW p \in PartSet(F[j])
    PROVE  Target(F[j], p) \in Goals(F)
BY SafeTarget DEF Goals

\* So is the flow that comes next.
LEMMA GoalNext ==
    ASSUME NEW F, NEW e, NEW A, NEW i, Safe(F, e, A, i), NEW j \in Used(F)
    PROVE  F[j].next \in Goals(F)
<1>1. j \in DOMAIN F /\ F[j] \in FlowSet
  BY SafeType
<1>2. <<"next", 0>> \in PartSet(F[j]) /\ Target(F[j], <<"next", 0>>) = F[j].next
  BY <1>1, CasePart
<1> QED BY <1>2, GoalOf

\* Final_Target.
LEMMA FollowedIs ==
    ASSUME NEW F, NEW e, NEW A, NEW i, Safe(F, e, A, i), NEW t \in Goals(F)
    PROVE  Followed(F, t) \in Goals(F)
<1> DEFINE Loop(h) == h = [k \in 0 .. MaxFollow |-> IF k = 0 THEN t ELSE PastEmpty(F, h[k - 1])]
           D == Goals(F)
           step == [y \in (1 .. MaxFollow) \X D |-> PastEmpty(F, y[2])]
<1>1. MaxFollow \in Nat
  BY DEF MaxFollow
<1>2. t \in D
  OBVIOUS
<1>3. \A k \in 1 .. MaxFollow : \A y \in D : PastEmpty(F, y) \in D
  <2> SUFFICES ASSUME NEW y \in D PROVE PastEmpty(F, y) \in D
    OBVIOUS
  <2>1. CASE PastEmpty(F, y) = y
    BY <2>1
  <2>2. CASE PastEmpty(F, y) # y
    <3>1. y # 0 /\ PastEmpty(F, y) = F[y].next
      BY <2>2 DEF PastEmpty
    <3>2. y \in Used(F)
      BY <3>1 DEF Goals
    <3> QED BY <3>1, <3>2, GoalNext
  <2> QED BY <2>1, <2>2
<1>4. \A k \in 1 .. MaxFollow : \A y \in D : step[<<k, y>>] = PastEmpty(F, y) /\ step[<<k, y>>] \in D
  <2> HIDE DEF D
  <2> QED BY <1>3
<1> HIDE DEF D, step
<1>5. PICK f : LoopIn(f, MaxFollow, D, t, step)
  <2>1. \A k \in 1 .. MaxFollow : \A y \in D : step[<<k, y>>] \in D
    BY <1>4
  <2> QED BY <1>1, <1>2, <2>1, LoopExists
<1>6. \A k \in 0 .. MaxFollow : f[k] = IF k = 0 THEN t ELSE PastEmpty(F, f[k - 1])
  <2> SUFFICES ASSUME NEW k \in 0 .. MaxFollow, k # 0 PROVE f[k] = PastEmpty(F, f[k - 1])
    BY <1>5 DEF LoopIn
  <2>1. k \in 1 .. MaxFollow /\ k - 1 \in 0 .. MaxFollow
    BY <1>1
  <2> QED BY <1>4, <1>5, <2>1 DEF LoopIn
<1>7. Loop(f)
  <2>1. f = [k \in 0 .. MaxFollow |-> f[k]]
    BY <1>5 DEF LoopIn
  <2> QED BY <1>6, <2>1, Zenon
<1> DEFINE h == CHOOSE g : Loop(g)
<1>8. Loop(h)
  BY <1>7, Zenon
<1> HIDE DEF h
<1>9. h[0] = t /\ \A k \in 1 .. MaxFollow : h[k] = PastEmpty(F, h[k - 1])
  <2>1. \A k \in 0 .. MaxFollow : h[k] = IF k = 0 THEN t ELSE PastEmpty(F, h[k - 1])
    BY <1>8, Zenon
  <2>2. 0 \in 0 .. MaxFollow /\ \A k \in 1 .. MaxFollow : k \in 0 .. MaxFollow /\ k # 0
    BY <1>1
  <2> QED BY <2>1, <2>2
<1>10. h[MaxFollow] \in D
  <2>1. h[0] \in D
    BY <1>2, <1>9
  <2>2. \A k \in 1 .. MaxFollow : h[k - 1] \in D => h[k] \in D
    BY <1>3, <1>9
  <2> QED BY <1>1, <2>1, <2>2, LoopStays
<1>11. Followed(F, t) = h[MaxFollow]
  BY DEF Followed, h
<1> QED BY <1>10, <1>11 DEF D

\* Simplify_Final_Target on a part: the target of the empty flows it follows
\* takes its place.
LEMMA FollowPartSafe ==
    ASSUME NEW F, NEW e, NEW A, NEW i, Safe(F, e, A, i), NEW p \in PartSet(F[i])
    PROVE  WorkedParts(F, FollowPart(F, i, p), e, A, i)
<1>1. i \in Used(F)
  BY SafeType
<1> DEFINE t == Followed(F, Target(F[i], p))
<1>2. t \in Goals(F)
  BY <1>1, GoalOf, FollowedIs
<1>3. t = 0 \/ (t \in Used(F) /\ F[t].block # 1)
  BY <1>2 DEF Goals
<1>4. FollowPart(F, i, p) = SetTarget(F, i, p, t)
  BY DEF FollowPart
<1> HIDE DEF t
<1> QED BY <1>3, <1>4, WorkedTarget

\* Simplify_Final_Target.
LEMMA SimplifyFinalTargetSafe ==
    ASSUME NEW F, NEW e, NEW A, NEW i, Safe(F, e, A, i)
    PROVE  WorkedParts(F, SimplifyFinalTarget(F, i), e, A, i)
<1> DEFINE Loop(h) == h = [k \in 0 .. Len(Parts(F[i])) |-> IF k = 0 THEN F ELSE FollowPart(h[k - 1], i, Parts(F[i])[k])]
           D == Graphs(F, e, A, i)
           step == [y \in (1 .. Len(Parts(F[i]))) \X D |-> FollowPart(y[2], i, Parts(F[i])[y[1]])]
<1>1. Len(Parts(F[i])) \in Nat
  BY SafeType, PartsAre, LenProperties
<1>2. F \in D
  BY GraphsStart
<1>3. \A k \in 1 .. Len(Parts(F[i])) : \A y \in D : FollowPart(y, i, Parts(F[i])[k]) \in D
  <2> SUFFICES ASSUME NEW k \in 1 .. Len(Parts(F[i])), NEW y \in D PROVE FollowPart(y, i, Parts(F[i])[k]) \in D
    OBVIOUS
  <2>1. Safe(y, e, A, i) /\ PartSet(y[i]) = PartSet(F[i])
    BY GraphsAre
  <2>2. Parts(F[i])[k] \in PartSet(F[i])
    BY SafeType, PartsAre
  <2>3. WorkedParts(y, FollowPart(y, i, Parts(F[i])[k]), e, A, i)
    BY <2>1, <2>2, FollowPartSafe
  <2> QED BY <2>3, GraphsOn
<1>4. \A k \in 1 .. Len(Parts(F[i])) : \A y \in D : step[<<k, y>>] = FollowPart(y, i, Parts(F[i])[k]) /\ step[<<k, y>>] \in D
  <2> HIDE DEF D
  <2> QED BY <1>3
<1> HIDE DEF D, step
<1>5. PICK f : LoopIn(f, Len(Parts(F[i])), D, F, step)
  <2>1. \A k \in 1 .. Len(Parts(F[i])) : \A y \in D : step[<<k, y>>] \in D
    BY <1>4
  <2> QED BY <1>1, <1>2, <2>1, LoopExists
<1>6. \A k \in 0 .. Len(Parts(F[i])) : f[k] = IF k = 0 THEN F ELSE FollowPart(f[k - 1], i, Parts(F[i])[k])
  <2> SUFFICES ASSUME NEW k \in 0 .. Len(Parts(F[i])), k # 0 PROVE f[k] = FollowPart(f[k - 1], i, Parts(F[i])[k])
    BY <1>5 DEF LoopIn
  <2>1. k \in 1 .. Len(Parts(F[i])) /\ k - 1 \in 0 .. Len(Parts(F[i]))
    BY <1>1
  <2> QED BY <1>4, <1>5, <2>1 DEF LoopIn
<1>7. Loop(f)
  <2>1. f = [k \in 0 .. Len(Parts(F[i])) |-> f[k]]
    BY <1>5 DEF LoopIn
  <2> QED BY <1>6, <2>1, Zenon
<1> DEFINE h == CHOOSE g : Loop(g)
<1>8. Loop(h)
  BY <1>7, Zenon
<1> HIDE DEF h
<1>9. h[0] = F /\ \A k \in 1 .. Len(Parts(F[i])) : h[k] = FollowPart(h[k - 1], i, Parts(F[i])[k])
  <2>1. \A k \in 0 .. Len(Parts(F[i])) : h[k] = IF k = 0 THEN F ELSE FollowPart(h[k - 1], i, Parts(F[i])[k])
    BY <1>8, Zenon
  <2>2. 0 \in 0 .. Len(Parts(F[i])) /\ \A k \in 1 .. Len(Parts(F[i])) : k \in 0 .. Len(Parts(F[i])) /\ k # 0
    BY <1>1
  <2> QED BY <2>1, <2>2
<1>10. h[Len(Parts(F[i]))] \in D
  <2>1. h[0] \in D
    BY <1>2, <1>9
  <2>2. \A k \in 1 .. Len(Parts(F[i])) : h[k - 1] \in D => h[k] \in D
    BY <1>3, <1>9
  <2> QED BY <1>1, <2>1, <2>2, LoopStays
<1>11. SimplifyFinalTarget(F, i) = h[Len(Parts(F[i]))]
  BY DEF SimplifyFinalTarget, h
<1> QED BY <1>10, <1>11, GraphsWorked DEF D

\* The places that the search for the end of a part comes to.
Chain(F, A, i, t) ==
  {c \in [prev : Nat, idx : Nat] :
     /\ c.idx \in Used(F) /\ c.idx \in Goals(F)
     /\ \E y \in References(F, Used(F)) : y[1] \notin A \ {i} /\ y[3] = c.idx
     /\ c.prev = 0 => c.idx = t
     /\ c.prev # 0 => c.prev \in Used(F) \ A /\ F[c.prev].next = c.idx}

\* The search of Replace_Target goes from one such place to another.
LEMMA ChainStepIn ==
    ASSUME NEW F, NEW e, NEW A, NEW i, Safe(F, e, A, i), NEW t, NEW wanted, NEW c \in Chain(F, A, i, t)
    PROVE  ChainStep(F, c, wanted) \in Chain(F, A, i, t)
<1>1. CASE ~(F[c.idx].uses = 1 /\ F[c.idx].next # 0 /\ c.idx # wanted)
  <2>1. ChainStep(F, c, wanted) = c
    BY <1>1 DEF ChainStep
  <2> QED BY <2>1
<1>2. CASE F[c.idx].uses = 1 /\ F[c.idx].next # 0 /\ c.idx # wanted
  <2> DEFINE j == c.idx
             n == F[j].next
             part == <<"next", 0>>
             d == [prev |-> j, idx |-> n]
  <2>1. ChainStep(F, c, wanted) = d
    BY <1>2 DEF ChainStep
  <2>2. j \in Used(F) /\ j \in Nat /\ n # 0 /\ j \in DOMAIN F /\ F[j] \in FlowSet /\ 0 \notin DOMAIN F
    BY <1>2, SafeType DEF Chain
  <2>3. PICK y \in References(F, Used(F)) : y[1] \notin A \ {i} /\ y[3] = j
    BY DEF Chain
  <2>4. j \notin A
    <3>1. y[3] # 0 /\ F[y[3]].uses = 1
      BY <1>2, <2>2, <2>3
    <3> QED BY <2>3, <3>1, NotInWalk
  <2>5. n \in Goals(F)
    BY <2>2, GoalNext
  <2>6. n \in Used(F) /\ n \in Nat
    BY <2>2, <2>5 DEF Goals
  <2>7. part \in PartSet(F[j]) /\ Target(F[j], part) = n
    BY <2>2, CasePart
  <2>8. <<j, part, n>> \in References(F, Used(F))
    <3> HIDE DEF part, n
    <3> QED BY <2>2, <2>7, IsReference
  <2>9. \E z \in References(F, Used(F)) : z[1] \notin A \ {i} /\ z[3] = n
    <3> DEFINE z == <<j, part, n>>
    <3>1. z[1] = j /\ z[3] = n
      OBVIOUS
    <3> HIDE DEF z, n
    <3>2. z \in References(F, Used(F))
      BY <2>8 DEF z
    <3> QED BY <2>4, <3>1, <3>2
  <2>10. d.prev = j /\ d.idx = n /\ d \in [prev : Nat, idx : Nat]
    BY <2>2, <2>6
  <2>11. j # 0
    BY <2>2
  <2>12. d.prev # 0 => d.prev \in Used(F) \ A /\ F[d.prev].next = d.idx
    BY <2>2, <2>4, <2>10
  <2> HIDE DEF d, n
  <2> QED BY <2>1, <2>5, <2>6, <2>9, <2>10, <2>11, <2>12 DEF Chain
<1> QED BY <1>1, <1>2

\* So it ends at one.
LEMMA ChainEndIn ==
    ASSUME NEW F, NEW e, NEW A, NEW i, Safe(F, e, A, i), NEW part \in PartSet(F[i]), NEW wanted,
           Target(F[i], part) # 0
    PROVE  ChainEnd(F, Target(F[i], part), wanted) \in Chain(F, A, i, Target(F[i], part))
<1> DEFINE t == Target(F[i], part)
           first == [prev |-> 0, idx |-> t]
<1> DEFINE Loop(h) == h = [k \in 0 .. Len(F) |-> IF k = 0 THEN first ELSE ChainStep(F, h[k - 1], wanted)]
           D == Chain(F, A, i, t)
           step == [y \in (1 .. Len(F)) \X D |-> ChainStep(F, y[2], wanted)]
<1>1. Len(F) \in Nat
  BY SafeType, LenProperties
<1>2. first \in D
  <2>1. i \in Used(F)
    BY SafeType
  <2>2. t \in Goals(F)
    BY <2>1, GoalOf
  <2>3. t \in Used(F) /\ t \in Nat
    BY <2>2 DEF Goals
  <2>4. <<i, part, t>> \in References(F, Used(F))
    BY <2>1, IsReference
  <2>5. \E y \in References(F, Used(F)) : y[1] \notin A \ {i} /\ y[3] = t
    <3> DEFINE y == <<i, part, t>>
    <3>1. y[1] = i /\ y[3] = t
      OBVIOUS
    <3> HIDE DEF t
    <3> HIDE DEF y
    <3> QED BY <2>4, <3>1 DEF y
  <2>6. first.prev = 0 /\ first.idx = t /\ first \in [prev : Nat, idx : Nat]
    BY <2>3
  <2> HIDE DEF first, t
  <2> QED BY <2>2, <2>3, <2>5, <2>6 DEF Chain
<1>3. \A k \in 1 .. Len(F) : \A y \in D : ChainStep(F, y, wanted) \in D
  BY ChainStepIn
<1>4. \A k \in 1 .. Len(F) : \A y \in D : step[<<k, y>>] = ChainStep(F, y, wanted) /\ step[<<k, y>>] \in D
  <2> HIDE DEF D
  <2> QED BY <1>3
<1> HIDE DEF D, step
<1>5. PICK f : LoopIn(f, Len(F), D, first, step)
  <2>1. \A k \in 1 .. Len(F) : \A y \in D : step[<<k, y>>] \in D
    BY <1>4
  <2> QED BY <1>1, <1>2, <2>1, LoopExists
<1>6. \A k \in 0 .. Len(F) : f[k] = IF k = 0 THEN first ELSE ChainStep(F, f[k - 1], wanted)
  <2> SUFFICES ASSUME NEW k \in 0 .. Len(F), k # 0 PROVE f[k] = ChainStep(F, f[k - 1], wanted)
    BY <1>5 DEF LoopIn
  <2>1. k \in 1 .. Len(F) /\ k - 1 \in 0 .. Len(F)
    BY <1>1
  <2> QED BY <1>4, <1>5, <2>1 DEF LoopIn
<1>7. Loop(f)
  <2>1. f = [k \in 0 .. Len(F) |-> f[k]]
    BY <1>5 DEF LoopIn
  <2> QED BY <1>6, <2>1, Zenon
<1> DEFINE h == CHOOSE g : Loop(g)
<1>8. Loop(h)
  BY <1>7, Zenon
<1> HIDE DEF h
<1>9. h[0] = first /\ \A k \in 1 .. Len(F) : h[k] = ChainStep(F, h[k - 1], wanted)
  <2>1. \A k \in 0 .. Len(F) : h[k] = IF k = 0 THEN first ELSE ChainStep(F, h[k - 1], wanted)
    BY <1>8, Zenon
  <2>2. 0 \in 0 .. Len(F) /\ \A k \in 1 .. Len(F) : k \in 0 .. Len(F) /\ k # 0
    BY <1>1
  <2> QED BY <2>1, <2>2
<1>10. h[Len(F)] \in D
  <2>1. h[0] \in D
    BY <1>2, <1>9
  <2>2. \A k \in 1 .. Len(F) : h[k - 1] \in D => h[k] \in D
    BY <1>3, <1>9
  <2> QED BY <1>1, <2>1, <2>2, LoopStays
<1>11. ChainEnd(F, t, wanted) = h[Len(F)]
  BY DEF ChainEnd, h
<1> QED BY <1>10, <1>11 DEF D

\* What Replace_Target leaves to its caller.
Replaced(F, R, e, A, i) ==
  IF R.taken = 0 THEN R.flows = F
  ELSE /\ R.taken \in DOMAIN F /\ R.taken \in Goals(R.flows)
       /\ WorkedParts(F, R.flows, Plus(e, R.taken), A, i)

\* Replace_Target gives its caller a use of the flow it cuts out, or does
\* nothing.
LEMMA ReplaceTargetSafe ==
    ASSUME NEW F, NEW e, NEW A, NEW i, Safe(F, e, A, i), NEW part \in PartSet(F[i]), NEW wanted
    PROVE  Replaced(F, ReplaceTarget(F, i, part, wanted), e, A, i)
<1> DEFINE t == Target(F[i], part)
           end == ChainEnd(F, t, wanted)
           m == end.idx
           c == end.prev
           G == AddUse(F, m)
           e1 == Plus(e, m)
           R == ReplaceTarget(F, i, part, wanted)
           H == IF c = 0 THEN SetTarget(G, i, part, 0) ELSE SetNext(G, c, 0)
<1>1. CASE t = 0 \/ (wanted # 0 /\ m # wanted)
  <2>1. R = [flows |-> F, taken |-> 0]
    BY <1>1 DEF ReplaceTarget
  <2> QED BY <2>1 DEF Replaced
<1>2. CASE ~(t = 0 \/ (wanted # 0 /\ m # wanted))
  <2>1. R = [flows |-> H, taken |-> m]
    BY <1>2 DEF ReplaceTarget
  <2>2. end \in Chain(F, A, i, t)
    BY <1>2, ChainEndIn
  <2> HIDE DEF end
  <2>3. m \in Used(F) /\ m \in Goals(F) /\ m \in DOMAIN F /\ m # 0
    BY <2>2, SafeType DEF Chain
  <2>4. /\ Safe(G, e1, A, i) /\ Kept(F, G, DOMAIN F) /\ Used(G) = Used(F) /\ G[m].uses >= 2
    BY <2>3, SafeAddUse
  <2>5. A \subseteq DOMAIN F /\ i \in DOMAIN F /\ DOMAIN G = DOMAIN F
    BY <2>4, SafeType DEF Kept
  <2> HIDE DEF G, e1, H
  <2>6. WorkedParts(F, G, e1, A, i)
    <3>1. Kept(F, G, A \ {i})
      <4>1. A \ {i} \subseteq DOMAIN F
        BY <2>5
      <4> QED BY <2>4, <4>1, KeptSubset
    <3>2. SameParts(F[i], G[i])
      BY <2>4, <2>5 DEF Kept
    <3>3. PartSet(G[i]) = PartSet(F[i])
      BY <3>2, SamePart
    <3> QED BY <2>4, <3>1, <3>3 DEF WorkedParts, Worked
  <2>7. WorkedParts(G, H, e1, A, i)
    <3>1. CASE c = 0
      <4>1. H = SetTarget(G, i, part, 0)
        BY <3>1 DEF H
      <4>2. part \in PartSet(G[i])
        BY <2>6 DEF WorkedParts
      <4> QED BY <2>4, <4>1, <4>2, WorkedTarget
    <3>2. CASE c # 0
      <4>1. H = SetNext(G, c, 0)
        BY <3>2 DEF H
      <4>2. c \in Used(F) \ A /\ F[c].next = m
        BY <2>2, <3>2 DEF Chain
      <4>3. c \in DOMAIN F /\ c \in Used(G) \ A /\ c # i
        BY <2>4, <4>2, SafeType DEF Safe
      <4>4. G[c].next = m
        BY <2>4, <4>2, <4>3 DEF Kept, SameParts
      <4>5. G[c].next = 0 \/ G[G[c].next].uses >= 2
        BY <2>4, <4>4
      <4>6. Worked(G, SetNext(G, c, 0), e1, A, i) /\ Kept(G, SetNext(G, c, 0), DOMAIN G \ {c})
        BY <2>4, <4>3, <4>5, SafeSetNext
      <4>7. SameParts(G[i], H[i])
        BY <2>5, <4>1, <4>3, <4>6 DEF Kept
      <4>8. PartSet(H[i]) = PartSet(G[i])
        BY <4>7, SamePart
      <4> QED BY <4>1, <4>6, <4>8 DEF WorkedParts
    <3> QED BY <3>1, <3>2
  <2>8. WorkedParts(F, H, e1, A, i)
    BY <2>5, <2>6, <2>7, WorkedPartsOn
  <2>9. m \in Goals(H)
    <3>1. Safe(H, e1, A, i) /\ DOMAIN H = DOMAIN F /\ H[m].block = F[m].block
      BY <2>3, <2>8 DEF WorkedParts, Worked, Kept
    <3>2. PICK a, b \in Nat : a = Number(References(H, Used(H)), m) /\ b = e1[m] /\ H[m].uses = b + a
      BY <2>3, <3>1, SafeUses
    <3>3. e[m] \in Nat /\ DOMAIN e = DOMAIN F
      BY <2>3, SafeType DEF Safe
    <3>4. e1[m] = e[m] + 1
      BY <2>3, <3>3 DEF e1, Plus
    <3>5. PICK d \in Nat : d = e[m]
      BY <3>3
    <3>6. H[m].uses > 0
      BY <3>2, <3>4, <3>5
    <3> QED BY <2>3, <3>1, <3>6 DEF Goals, Used
  <2>10. R.taken = m /\ R.flows = H
    BY <2>1
  <2> HIDE DEF R, m
  <2> QED BY <2>3, <2>8, <2>9, <2>10 DEF Replaced, R, e1
<1> QED BY <1>1, <1>2

\* Remove_Use for what Replace_Target took.
LEMMA GiveBack ==
    ASSUME NEW F, NEW e, NEW A, NEW i, Safe(F, e, A, i), NEW t \in DOMAIN F,
           NEW G, WorkedParts(F, G, Plus(e, t), A, i)
    PROVE  WorkedParts(F, RemoveUse(G, t), e, A, i)
<1>1. Safe(G, Plus(e, t), A, i) /\ Kept(F, G, A \ {i}) /\ DOMAIN G = DOMAIN F
      /\ PartSet(G[i]) = PartSet(F[i])
  BY DEF WorkedParts, Worked, Kept
<1>2. t \in DOMAIN G /\ i \in DOMAIN G
  BY <1>1, SafeType
<1> DEFINE H == RemoveUse(G, t)
<1>3. Worked(F, H, e, A, i) /\ Kept(G, H, DOMAIN G)
  BY <1>1, <1>2, SafeRemoveUse
<1> HIDE DEF H
<1>4. SameParts(G[i], H[i])
  BY <1>2, <1>3 DEF Kept
<1>5. PartSet(H[i]) = PartSet(G[i])
  BY <1>4, SamePart
<1> QED BY <1>1, <1>3, <1>5 DEF WorkedParts, H

\* Factor: the next flow is taken out of a part.
LEMMA TakeNextSafe ==
    ASSUME NEW F, NEW e, NEW A, NEW i, Safe(F, e, A, i), NEW part \in PartSet(F[i])
    PROVE  WorkedParts(F, TakeNext(F, i, part), e, A, i)
<1> DEFINE r == ReplaceTarget(F, i, part, 0)
           G == SetNext(r.flows, i, r.taken)
<1>1. Replaced(F, r, e, A, i) /\ TakeNext(F, i, part) = RemoveUse(G, r.taken)
  BY ReplaceTargetSafe DEF TakeNext
<1>2. F[i] \in FlowSet /\ A \subseteq DOMAIN F
  BY SafeType
<1> HIDE DEF r
<1>3. CASE r.taken = 0
  <2>1. TakeNext(F, i, part) = SetTarget(F, i, <<"next", 0>>, 0)
    BY <1>1, <1>3 DEF Replaced, RemoveUse, SetNext
  <2>2. <<"next", 0>> \in PartSet(F[i])
    BY <1>2, CasePart
  <2> QED BY <2>1, <2>2, WorkedTarget
<1>4. CASE r.taken # 0
  <2> DEFINE t == r.taken
             K == r.flows
             e1 == Plus(e, t)
  <2>1. t \in DOMAIN F /\ t \in Goals(K) /\ WorkedParts(F, K, e1, A, i)
    BY <1>1, <1>4 DEF Replaced
  <2> HIDE DEF e1
  <2>2. Safe(K, e1, A, i) /\ PartSet(K[i]) = PartSet(F[i])
    BY <2>1 DEF WorkedParts, Worked
  <2>3. <<"next", 0>> \in PartSet(K[i])
    BY <1>2, <2>2, CasePart
  <2>4. t = 0 \/ (t \in Used(K) /\ K[t].block # 1)
    BY <2>1 DEF Goals
  <2> HIDE DEF t, K
  <2>5. WorkedParts(K, SetTarget(K, i, <<"next", 0>>, t), e1, A, i)
    BY <2>2, <2>3, <2>4, WorkedTarget
  <2>6. G = SetTarget(K, i, <<"next", 0>>, t)
    BY DEF SetNext, K, t
  <2> HIDE DEF G
  <2>7. WorkedParts(F, G, e1, A, i)
    BY <1>2, <2>1, <2>5, <2>6, WorkedPartsOn
  <2>8. WorkedParts(F, RemoveUse(G, t), e, A, i)
    BY <2>1, <2>7, GiveBack DEF e1
  <2> QED BY <1>1, <2>8 DEF t
<1> QED BY <1>3, <1>4

\* Factor: the parts that end in the common next flow lose it.
LEMMA CutNextSafe ==
    ASSUME NEW F, NEW e, NEW A, NEW i, Safe(F, e, A, i), NEW part \in PartSet(F[i])
    PROVE  WorkedParts(F, CutNext(F, i, part), e, A, i)
<1> DEFINE r == ReplaceTarget(F, i, part, F[i].next)
<1>1. Replaced(F, r, e, A, i) /\ CutNext(F, i, part) = RemoveUse(r.flows, r.taken)
  BY ReplaceTargetSafe DEF CutNext
<1> HIDE DEF r
<1>2. CASE r.taken = 0
  <2>1. CutNext(F, i, part) = F
    BY <1>1, <1>2 DEF Replaced, RemoveUse
  <2> QED BY <2>1, WorkedNone
<1>3. CASE r.taken # 0
  <2> DEFINE t == r.taken
             K == r.flows
  <2>1. t \in DOMAIN F /\ WorkedParts(F, K, Plus(e, t), A, i)
    BY <1>1, <1>3 DEF Replaced
  <2> HIDE DEF t, K
  <2>2. WorkedParts(F, RemoveUse(K, t), e, A, i)
    BY <2>1, GiveBack
  <2> QED BY <1>1, <2>2 DEF t, K
<1> QED BY <1>2, <1>3

\* The loops over the ifs or the cases.
LEMMA CutAllSafe ==
    ASSUME NEW F, NEW e, NEW A, NEW i, Safe(F, e, A, i), NEW parts \in Seq(PartSet(F[i]))
    PROVE  WorkedParts(F, CutAll(F, i, parts), e, A, i)
<1> DEFINE Loop(h) == h = [k \in 0 .. Len(parts) |-> IF k = 0 THEN F ELSE CutNext(h[k - 1], i, parts[k])]
           D == Graphs(F, e, A, i)
           step == [y \in (1 .. Len(parts)) \X D |-> CutNext(y[2], i, parts[y[1]])]
<1>1. Len(parts) \in Nat
  BY LenProperties
<1>2. F \in D
  BY GraphsStart
<1>3. \A k \in 1 .. Len(parts) : \A y \in D : CutNext(y, i, parts[k]) \in D
  <2> SUFFICES ASSUME NEW k \in 1 .. Len(parts), NEW y \in D PROVE CutNext(y, i, parts[k]) \in D
    OBVIOUS
  <2>1. Safe(y, e, A, i) /\ PartSet(y[i]) = PartSet(F[i])
    BY GraphsAre
  <2>2. parts[k] \in PartSet(F[i])
    BY LenProperties, ElementOfSeq
  <2>3. WorkedParts(y, CutNext(y, i, parts[k]), e, A, i)
    BY <2>1, <2>2, CutNextSafe
  <2> QED BY <2>3, GraphsOn
<1>4. \A k \in 1 .. Len(parts) : \A y \in D : step[<<k, y>>] = CutNext(y, i, parts[k]) /\ step[<<k, y>>] \in D
  <2> HIDE DEF D
  <2> QED BY <1>3
<1> HIDE DEF D, step
<1>5. PICK f : LoopIn(f, Len(parts), D, F, step)
  <2>1. \A k \in 1 .. Len(parts) : \A y \in D : step[<<k, y>>] \in D
    BY <1>4
  <2> QED BY <1>1, <1>2, <2>1, LoopExists
<1>6. \A k \in 0 .. Len(parts) : f[k] = IF k = 0 THEN F ELSE CutNext(f[k - 1], i, parts[k])
  <2> SUFFICES ASSUME NEW k \in 0 .. Len(parts), k # 0 PROVE f[k] = CutNext(f[k - 1], i, parts[k])
    BY <1>5 DEF LoopIn
  <2>1. k \in 1 .. Len(parts) /\ k - 1 \in 0 .. Len(parts)
    BY <1>1
  <2> QED BY <1>4, <1>5, <2>1 DEF LoopIn
<1>7. Loop(f)
  <2>1. f = [k \in 0 .. Len(parts) |-> f[k]]
    BY <1>5 DEF LoopIn
  <2> QED BY <1>6, <2>1, Zenon
<1> DEFINE h == CHOOSE g : Loop(g)
<1>8. Loop(h)
  BY <1>7, Zenon
<1> HIDE DEF h
<1>9. h[0] = F /\ \A k \in 1 .. Len(parts) : h[k] = CutNext(h[k - 1], i, parts[k])
  <2>1. \A k \in 0 .. Len(parts) : h[k] = IF k = 0 THEN F ELSE CutNext(h[k - 1], i, parts[k])
    BY <1>8, Zenon
  <2>2. 0 \in 0 .. Len(parts) /\ \A k \in 1 .. Len(parts) : k \in 0 .. Len(parts) /\ k # 0
    BY <1>1
  <2> QED BY <2>1, <2>2
<1>10. h[Len(parts)] \in D
  <2>1. h[0] \in D
    BY <1>2, <1>9
  <2>2. \A k \in 1 .. Len(parts) : h[k - 1] \in D => h[k] \in D
    BY <1>3, <1>9
  <2> QED BY <1>1, <2>1, <2>2, LoopStays
<1>11. CutAll(F, i, parts) = h[Len(parts)]
  BY DEF CutAll, h
<1> QED BY <1>10, <1>11, GraphsWorked DEF D

\* The ifs and the cases of a flow as sequences of parts.
LEMMA PartLists ==
    ASSUME NEW flow \in FlowSet
    PROVE  /\ IfParts(flow) \in Seq(PartSet(flow)) /\ CaseParts(flow) \in Seq(PartSet(flow))
           /\ Len(IfParts(flow)) = Len(flow.ifs) /\ Len(CaseParts(flow)) = Len(flow.cases)
           /\ \A k \in 1 .. Len(flow.ifs) : IfParts(flow)[k] = <<"if", k>>
           /\ \A k \in 1 .. Len(flow.cases) : CaseParts(flow)[k] = <<"case", k>>
<1>1. /\ flow.ifs \in Seq(IfSet) /\ flow.cases \in Seq(CaseSet)
      /\ DOMAIN flow.ifs = 1 .. Len(flow.ifs) /\ DOMAIN flow.cases = 1 .. Len(flow.cases)
  BY FlowParts
<1>2. \A k \in DOMAIN flow.ifs : <<"if", k>> \in PartSet(flow)
  BY <1>1, CasePart
<1>3. \A k \in DOMAIN flow.cases : <<"case", k>> \in PartSet(flow)
  BY <1>1, CasePart
<1>4. IfParts(flow) \in [DOMAIN flow.ifs -> PartSet(flow)]
  BY <1>2 DEF IfParts
<1>5. CaseParts(flow) \in [DOMAIN flow.cases -> PartSet(flow)]
  BY <1>3 DEF CaseParts
<1>6. IfParts(flow) \in Seq(PartSet(flow)) /\ Len(IfParts(flow)) = Len(flow.ifs)
  BY <1>1, <1>4, SameDomain
<1>7. CaseParts(flow) \in Seq(PartSet(flow)) /\ Len(CaseParts(flow)) = Len(flow.cases)
  <2>1. flow.cases \in Seq(CaseSet)
    BY <1>1
  <2> QED BY <1>5, <2>1, SameDomain
<1>8. \A k \in 1 .. Len(flow.ifs) : IfParts(flow)[k] = <<"if", k>>
  BY <1>1 DEF IfParts
<1>9. \A k \in 1 .. Len(flow.cases) : CaseParts(flow)[k] = <<"case", k>>
  BY <1>1 DEF CaseParts
<1> QED BY <1>6, <1>7, <1>8, <1>9

\* What an operation leaves is safe.
LEMMA WorkedSafe ==
    ASSUME NEW F, NEW G, NEW e, NEW A, NEW i, Worked(F, G, e, A, i)
    PROVE  Safe(G, e, A, i) /\ G[i] \in FlowSet /\ A \subseteq DOMAIN F
<1>1. Safe(G, e, A, i) /\ DOMAIN G = DOMAIN F
  BY DEF Worked, Kept
<1> QED BY <1>1, SafeType

\* Factor_One_If.
LEMMA FactorIfSafe ==
    ASSUME NEW F, NEW e, NEW A, NEW i, Safe(F, e, A, i)
    PROVE  Worked(F, FactorIf(F, i), e, A, i)
<1> DEFINE last == Len(F[i].ifs)
           K == TakeNext(F, i, <<"if", last>>)
           G == DeleteElse(K, i)
<1>1. F[i] \in FlowSet /\ A \subseteq DOMAIN F /\ last \in Nat
  BY SafeType, FlowParts
<1>2. CASE last = 0
  <2>1. FactorIf(F, i) = F
    BY <1>2 DEF FactorIf
  <2> QED BY <2>1, WorkedNone DEF WorkedParts
<1>3. CASE last # 0 /\ F[i].next = 0 /\ F[i].ifs[last].test = 0
  <2>1. FactorIf(F, i) = CutAll(G, i, IfParts(G[i]))
    BY <1>3 DEF FactorIf
  <2>2. <<"if", last>> \in PartSet(F[i])
    <3>1. last \in 1 .. last
      BY <1>1, <1>3
    <3> QED BY <1>1, <3>1, CasePart
  <2>3. WorkedParts(F, K, e, A, i)
    BY <2>2, TakeNextSafe
  <2>4. Worked(F, K, e, A, i) /\ PartSet(K[i]) = PartSet(F[i])
    BY <2>3 DEF WorkedParts
  <2> HIDE DEF K
  <2>5. Safe(K, e, A, i) /\ K[i] \in FlowSet
    BY <2>4, WorkedSafe
  <2>6. K[i].ifs # <<>>
    <3>1. last \in 1 .. Len(K[i].ifs)
      BY <2>2, <2>4, <2>5, CasePart
    <3>2. K[i].ifs = <<>> => Len(K[i].ifs) = 0
      OBVIOUS
    <3> QED BY <1>1, <3>1, <3>2
  <2>7. Worked(K, G, e, A, i)
    BY <2>5, <2>6, DeleteElseSafe
  <2> HIDE DEF G
  <2>8. Worked(F, G, e, A, i)
    BY <1>1, <2>4, <2>7, WorkedOn
  <2>9. Safe(G, e, A, i) /\ IfParts(G[i]) \in Seq(PartSet(G[i]))
    BY <2>8, WorkedSafe, PartLists
  <2>10. WorkedParts(G, CutAll(G, i, IfParts(G[i])), e, A, i)
    BY <2>9, CutAllSafe
  <2> QED BY <1>1, <2>1, <2>8, <2>10, WorkedOn DEF WorkedParts
<1>4. CASE ~(last # 0 /\ F[i].next = 0 /\ F[i].ifs[last].test = 0) /\ last # 0
  <2>1. FactorIf(F, i) = CutAll(F, i, IfParts(F[i]))
    BY <1>4 DEF FactorIf
  <2>2. IfParts(F[i]) \in Seq(PartSet(F[i]))
    BY <1>1, PartLists
  <2>3. WorkedParts(F, CutAll(F, i, IfParts(F[i])), e, A, i)
    BY <2>2, CutAllSafe
  <2> QED BY <2>1, <2>3 DEF WorkedParts
<1> QED BY <1>2, <1>3, <1>4

\* Factor_One_Case.
LEMMA FactorCaseSafe ==
    ASSUME NEW F, NEW e, NEW A, NEW i, Safe(F, e, A, i)
    PROVE  Worked(F, FactorCase(F, i), e, A, i)
<1> DEFINE G == MaybeDeleteDefault(F, i)
           last == Len(G[i].cases)
           H == TakeNext(G, i, <<"case", last>>)
<1>1. A \subseteq DOMAIN F /\ Worked(F, G, e, A, i)
  BY SafeType, MaybeDeleteDefaultSafe
<1>2. Safe(G, e, A, i) /\ G[i] \in FlowSet /\ A \subseteq DOMAIN G
  BY <1>1, WorkedSafe, SafeType
<1>3. last \in Nat
  BY <1>2, FlowParts
<1> DEFINE taking == last # 0 /\ G[i].next = 0 /\ G[i].cases[last].target # 0
           K == CutAll(H, i, CaseParts(H[i]))
           L == CutAll(G, i, CaseParts(G[i]))
<1>4. FactorCase(F, i) = CASE last = 0 -> G
                           [] taking -> MaybeDeleteDefault(K, i)
                           [] OTHER -> MaybeDeleteDefault(L, i)
  BY Zenon DEF FactorCase
<1> HIDE DEF G
<1>5. CASE last = 0
  BY <1>1, <1>4, <1>5
<1>6. CASE taking
  <2>1. FactorCase(F, i) = MaybeDeleteDefault(K, i)
    BY <1>4, <1>6
  <2>2. <<"case", last>> \in PartSet(G[i])
    <3>1. last \in 1 .. last
      BY <1>3, <1>6
    <3> QED BY <1>2, <3>1, CasePart
  <2>3. Worked(G, H, e, A, i)
    BY <1>2, <2>2, TakeNextSafe DEF WorkedParts
  <2> HIDE DEF H
  <2>4. Safe(H, e, A, i) /\ CaseParts(H[i]) \in Seq(PartSet(H[i]))
    BY <2>3, WorkedSafe, PartLists
  <2>5. Worked(H, K, e, A, i)
    BY <2>4, CutAllSafe DEF WorkedParts
  <2> HIDE DEF K
  <2>6. Worked(F, K, e, A, i)
    BY <1>1, <1>2, <2>3, <2>5, WorkedOn
  <2>7. Worked(K, MaybeDeleteDefault(K, i), e, A, i)
    BY <2>6, WorkedSafe, MaybeDeleteDefaultSafe
  <2> QED BY <1>1, <2>1, <2>6, <2>7, WorkedOn
<1>7. CASE ~taking /\ last # 0
  <2>1. FactorCase(F, i) = MaybeDeleteDefault(L, i)
    BY <1>4, <1>7
  <2>2. CaseParts(G[i]) \in Seq(PartSet(G[i]))
    BY <1>2, PartLists
  <2>3. Worked(G, L, e, A, i)
    BY <1>2, <2>2, CutAllSafe DEF WorkedParts
  <2> HIDE DEF L
  <2>4. Worked(F, L, e, A, i)
    BY <1>1, <2>3, WorkedOn
  <2>5. Worked(L, MaybeDeleteDefault(L, i), e, A, i)
    BY <2>4, WorkedSafe, MaybeDeleteDefaultSafe
  <2> QED BY <1>1, <2>1, <2>4, <2>5, WorkedOn
<1> QED BY <1>5, <1>6, <1>7

\* The references of flow i that the ifs of another flow become, after n own ones.
Copied(i, n, ifs) == {<<i, <<"if", n + k>>, ifs[k].target>> : k \in DOMAIN ifs}

\* How many of the ifs lead to flow j.
Leading(ifs, j) == Cardinality({k \in DOMAIN ifs : ifs[k].target = j})

\* Copied ifs lead to a flow as often as they did.
LEMMA CopiedNumber ==
    ASSUME NEW i, NEW n \in Nat, NEW ifs \in Seq(IfSet), NEW j
    PROVE  /\ Number(Copied(i, n, ifs), j) = Leading(ifs, j) /\ Leading(ifs, j) \in Nat
           /\ IsFiniteSet(Copied(i, n, ifs))
<1>1. DOMAIN ifs = 1 .. Len(ifs) /\ Len(ifs) \in Nat
  BY LenProperties
<1>2. IsFiniteSet(DOMAIN ifs)
  BY <1>1, FS_Interval
<1> DEFINE S == {k \in DOMAIN ifs : ifs[k].target = j}
           T == {r \in Copied(i, n, ifs) : r[3] = j}
           f == [k \in S |-> <<i, <<"if", n + k>>, ifs[k].target>>]
           g == [k \in DOMAIN ifs |-> <<i, <<"if", n + k>>, ifs[k].target>>]
<1>3. IsFiniteSet(S) /\ Cardinality(S) \in Nat
  BY <1>2, FS_Subset, FS_CardinalityType
<1>4. /\ f \in [S -> T]
      /\ \A r \in T : \E k \in S : f[k] = r
      /\ \A k, l \in S : f[k] = f[l] => k = l
  <2>1. ASSUME NEW k \in S PROVE f[k] \in T
    BY DEF Copied
  <2>2. ASSUME NEW r \in T PROVE \E k \in S : f[k] = r
    <3>1. PICK k \in DOMAIN ifs : r = <<i, <<"if", n + k>>, ifs[k].target>>
      BY DEF Copied
    <3>2. r[3] = ifs[k].target
      BY <3>1
    <3>3. k \in S
      BY <3>2
    <3> QED BY <3>1, <3>3
  <2>3. ASSUME NEW k \in S, NEW l \in S, f[k] = f[l] PROVE k = l
    <3>1. k \in 1 .. Len(ifs) /\ l \in 1 .. Len(ifs)
      BY <1>1
    <3>2. f[k][2] = <<"if", n + k>> /\ f[l][2] = <<"if", n + l>>
      OBVIOUS
    <3>3. f[k][2][2] = n + k /\ f[l][2][2] = n + l
      BY <3>2
    <3>4. n + k = n + l
      BY <2>3, <3>3
    <3> QED BY <1>1, <3>1, <3>4
  <2> QED BY <2>1, <2>2, <2>3
<1>5. ExistsBijection(S, T)
  <2> HIDE DEF f, S, T
  <2>1. f \in Bijection(S, T)
    BY <1>4, Fun_IsBij
  <2> QED BY <2>1 DEF ExistsBijection
<1>6. Cardinality(T) = Cardinality(S)
  <2> HIDE DEF S, T
  <2> QED BY <1>3, <1>5, FS_Bijection
<1>7. IsFiniteSet(Copied(i, n, ifs))
  <2>1. g \in Surjection(DOMAIN ifs, Copied(i, n, ifs))
    <3>1. g \in [DOMAIN ifs -> Copied(i, n, ifs)]
      BY DEF Copied
    <3>2. \A r \in Copied(i, n, ifs) : \E k \in DOMAIN ifs : g[k] = r
      BY DEF Copied
    <3> QED BY <3>1, <3>2 DEF Surjection
  <2> HIDE DEF g
  <2> QED BY <1>2, <2>1, FS_Surjection
<1> QED BY <1>3, <1>6, <1>7 DEF Number, Leading

\* The ifs of flow "other" take the place of the last if of the flow.
Merged(flow, new, i, other) ==
  LET x == <<i, <<"if", Len(flow.ifs)>>, Last(flow.ifs).target>>
  IN  /\ new \in FlowSet /\ new.uses = flow.uses /\ new.block = flow.block
      /\ x \in Own(i, flow)
      /\ Own(i, new) = (Own(i, flow) \ {x}) \cup Copied(i, Len(flow.ifs) - 1, other.ifs)
      /\ (Own(i, flow) \ {x}) \cap Copied(i, Len(flow.ifs) - 1, other.ifs) = {}

\* The references of a flow whose last if is replaced by the ifs of another
\* flow.
LEMMA MergedIs ==
    ASSUME NEW flow \in FlowSet, NEW other \in FlowSet, flow.ifs # <<>>, NEW i
    PROVE  Merged(flow, [flow EXCEPT !.ifs = Front(flow.ifs) \o other.ifs], i, other)
<1> DEFINE n == Len(flow.ifs)
           m == Len(other.ifs)
           front == Front(flow.ifs)
           ifs == front \o other.ifs
           new == [flow EXCEPT !.ifs = ifs]
           x == <<i, <<"if", n>>, Last(flow.ifs).target>>
           rest == Own(i, flow) \ {x}
           copied == Copied(i, n - 1, other.ifs)
<1>1. /\ flow.ifs \in Seq(IfSet) /\ other.ifs \in Seq(IfSet) /\ n \in Nat /\ m \in Nat
      /\ DOMAIN flow.ifs = 1 .. n /\ DOMAIN other.ifs = 1 .. m
  BY FlowParts
<1>2. /\ front \in Seq(IfSet) /\ DOMAIN front = DOMAIN flow.ifs \ {n}
      /\ \A k \in DOMAIN front : front[k] = flow.ifs[k]
      /\ n \in DOMAIN flow.ifs /\ Last(flow.ifs) = flow.ifs[n]
  BY <1>1, FrontIs
<1>3. n # 0 /\ n - 1 \in Nat /\ Len(front) = n - 1
  <2>1. n # 0 /\ n - 1 \in Nat
    BY <1>1, <1>2
  <2>2. DOMAIN front = 1 .. n - 1
    BY <1>1, <1>2, <2>1
  <2> QED BY <1>2, <2>1, <2>2, LenProperties
<1>4. PICK p \in Nat : p = n - 1 /\ n = p + 1
  BY <1>1, <1>3
<1>5. PICK q \in Nat : q = m
  BY <1>1
<1>6. Len(front) = p /\ Len(other.ifs) = q /\ DOMAIN front = 1 .. p /\ DOMAIN other.ifs = 1 .. q
       /\ DOMAIN flow.ifs = 1 .. p + 1
  BY <1>1, <1>2, <1>3, <1>4, <1>5, LenProperties
<1>7. /\ ifs \in Seq(IfSet) /\ Len(ifs) = p + q
      /\ \A k \in 1 .. p + q : ifs[k] = IF k <= p THEN front[k] ELSE other.ifs[k - p]
  <2> HIDE DEF front, n, m
  <2>1. /\ front \o other.ifs \in Seq(IfSet)
        /\ Len(front \o other.ifs) = Len(front) + Len(other.ifs)
        /\ \A k \in 1 .. Len(front) + Len(other.ifs) :
             (front \o other.ifs)[k] = IF k <= Len(front) THEN front[k] ELSE other.ifs[k - Len(front)]
    BY <1>1, <1>2, ConcatProperties
  <2>2. Len(front) = p /\ Len(other.ifs) = q
    BY <1>6
  <2> QED BY <2>1, <2>2
<1> HIDE DEF ifs
<1>8. DOMAIN ifs = 1 .. p + q
  BY <1>7, LenProperties
<1>9. \A k \in 1 .. p : k \in DOMAIN ifs /\ ifs[k] = flow.ifs[k]
  <2> SUFFICES ASSUME NEW k \in 1 .. p PROVE k \in DOMAIN ifs /\ ifs[k] = flow.ifs[k]
    OBVIOUS
  <2>1. k \in 1 .. p + q /\ k <= p
    OBVIOUS
  <2>2. k \in DOMAIN front
    BY <1>6
  <2> QED BY <1>2, <1>7, <1>8, <2>1, <2>2
<1>10. \A k \in 1 .. q : p + k \in DOMAIN ifs /\ ifs[p + k] = other.ifs[k]
  <2> SUFFICES ASSUME NEW k \in 1 .. q PROVE p + k \in DOMAIN ifs /\ ifs[p + k] = other.ifs[k]
    OBVIOUS
  <2>1. p + k \in 1 .. p + q /\ ~(p + k <= p) /\ p + k - p = k
    OBVIOUS
  <2>2. ifs[p + k] = IF p + k <= p THEN front[p + k] ELSE other.ifs[p + k - p]
    BY <1>7, <2>1
  <2> QED BY <1>8, <2>1, <2>2
<1>11. \A k \in DOMAIN ifs : k \in 1 .. p \/ \E l \in 1 .. q : k = p + l
  <2> SUFFICES ASSUME NEW k \in 1 .. p + q, k \notin 1 .. p
               PROVE  \E l \in 1 .. q : k = p + l
    BY <1>8
  <2>1. k - p \in 1 .. q /\ k = p + (k - p)
    OBVIOUS
  <2> QED BY <2>1
<1>12. copied = Copied(i, p, other.ifs)
  BY <1>4
<1>13. /\ new \in FlowSet /\ new.uses = flow.uses /\ new.block = flow.block
      /\ new.ifs = ifs /\ new.cases = flow.cases /\ new.next = flow.next
  BY <1>7 DEF FlowSet
<1> HIDE DEF new
<1>14. /\ PartSet(flow) = {<<"next", 0>>} \cup {<<"if", k>> : k \in DOMAIN flow.ifs}
                                          \cup {<<"case", k>> : k \in DOMAIN flow.cases}
       /\ PartSet(new) = {<<"next", 0>>} \cup {<<"if", k>> : k \in DOMAIN ifs}
                                         \cup {<<"case", k>> : k \in DOMAIN flow.cases}
  BY <1>13, PartsAre
<1> HIDE DEF copied
<1> DEFINE one == {<<i, <<"next", 0>>, flow.next>>}
           cs == {<<i, <<"case", k>>, flow.cases[k].target>> : k \in DOMAIN flow.cases}
           before == {<<i, <<"if", k>>, flow.ifs[k].target>> : k \in 1 .. p}
<1>15. Own(i, flow) = one \cup cs \cup before \cup {x} /\ x \notin one \cup cs \cup before
  <2>1. Own(i, flow) = one \cup cs \cup {<<i, <<"if", k>>, flow.ifs[k].target>> : k \in DOMAIN flow.ifs}
    BY <1>14 DEF Own, Target
  <2>2. DOMAIN flow.ifs = (1 .. p) \cup {n} /\ n \notin 1 .. p
    BY <1>4, <1>6
  <2>3. x = <<i, <<"if", n>>, flow.ifs[n].target>>
    BY <1>2
  <2>4. {<<i, <<"if", k>>, flow.ifs[k].target>> : k \in DOMAIN flow.ifs} = before \cup {x}
    BY <2>2, <2>3
  <2>5. x \notin before
    BY <2>2
  <2>6. x \notin one /\ x \notin cs
    OBVIOUS
  <2> HIDE DEF x, one, cs, before
  <2> QED BY <2>1, <2>4, <2>5, <2>6
<1>16. Own(i, new) = one \cup cs \cup before \cup copied
  <2>1. Own(i, new) = one \cup cs \cup {<<i, <<"if", k>>, ifs[k].target>> : k \in DOMAIN ifs}
    BY <1>13, <1>14 DEF Own, Target
  <2>2. {<<i, <<"if", k>>, ifs[k].target>> : k \in DOMAIN ifs} = before \cup copied
    <3> DEFINE all == {<<i, <<"if", k>>, ifs[k].target>> : k \in DOMAIN ifs}
    <3>1. before \subseteq all
      BY <1>9
    <3>2. copied \subseteq all
      <4> SUFFICES ASSUME NEW k \in 1 .. q
                   PROVE  <<i, <<"if", p + k>>, other.ifs[k].target>> \in all
        BY <1>6, <1>12 DEF Copied
      <4> QED BY <1>10
    <3>3. all \subseteq before \cup copied
      <4> SUFFICES ASSUME NEW k \in DOMAIN ifs
                   PROVE  <<i, <<"if", k>>, ifs[k].target>> \in before \cup copied
        OBVIOUS
      <4>1. CASE k \in 1 .. p
        BY <1>9, <4>1
      <4>2. CASE \E l \in 1 .. q : k = p + l
        <5>1. PICK l \in 1 .. q : k = p + l
          BY <4>2
        <5>2. <<i, <<"if", p + l>>, other.ifs[l].target>> \in copied
          BY <1>6, <1>12 DEF Copied
        <5> QED BY <1>10, <5>1, <5>2
      <4> QED BY <1>11, <4>1, <4>2
    <3> QED BY <3>1, <3>2, <3>3
  <2> HIDE DEF one, cs, before, copied
  <2> QED BY <2>1, <2>2
<1>17. (one \cup cs \cup before) \cap copied = {}
  <2>1. one \cap copied = {} /\ cs \cap copied = {}
    BY <1>12 DEF Copied
  <2>2. before \cap copied = {}
    <3> SUFFICES ASSUME NEW k \in 1 .. p, NEW l \in 1 .. q,
                        <<i, <<"if", k>>, flow.ifs[k].target>>
                          = <<i, <<"if", p + l>>, other.ifs[l].target>>
                 PROVE  FALSE
      BY <1>6, <1>12 DEF Copied
    <3>1. k = p + l
      OBVIOUS
    <3> QED BY <3>1
  <2> HIDE DEF one, cs, before, copied
  <2> QED BY <2>1, <2>2
<1>18. rest = one \cup cs \cup before
  <2> HIDE DEF one, cs, before, x
  <2> QED BY <1>15
<1> HIDE DEF one, cs, before, copied
<1>19. x \in Own(i, flow) /\ Own(i, new) = rest \cup copied /\ rest \cap copied = {}
  <2> HIDE DEF x
  <2> QED BY <1>15, <1>16, <1>17, <1>18
<1> QED BY <1>13, <1>19 DEF Merged, new, copied, ifs

\* The uses that a flow of the graph gets by the copy of the ifs of flow m.
LEMMA CopyIfsIs ==
    ASSUME NEW F, NEW e, NEW A, NEW i, Safe(F, e, A, i), NEW m \in Used(F)
    PROVE  /\ Recounted(F, CopyIfs(F, m), [j \in DOMAIN F |-> F[j].uses + Leading(F[m].ifs, j)])
           /\ Used(CopyIfs(F, m)) = Used(F)
<1> DEFINE ifs == F[m].ifs
           w == [j \in DOMAIN F |-> F[j].uses + Leading(ifs, j)]
           G == CopyIfs(F, m)
<1>1. F \in Seq(FlowSet) /\ m \in DOMAIN F /\ F[m] \in FlowSet /\ 0 \notin DOMAIN F
      /\ Used(F) \subseteq DOMAIN F /\ \A j \in DOMAIN F : F[j].uses \in Nat
  BY SafeType
<1>2. ifs \in Seq(IfSet) /\ DOMAIN ifs = 1 .. Len(ifs) /\ Len(ifs) \in Nat
  BY <1>1, FlowParts
<1>3. \A j : Leading(ifs, j) \in Nat
  <2> HIDE DEF ifs
  <2>1. 0 \in Nat
    OBVIOUS
  <2> QED BY <1>2, <2>1, CopiedNumber
<1>4. w \in [DOMAIN F -> Nat]
  BY <1>1, <1>3
<1>5. G = [j \in DOMAIN F |-> [F[j] EXCEPT !.uses = w[j]]]
  BY DEF CopyIfs, Leading
<1> HIDE DEF w, G
<1>6. Recounted(F, G, w)
  BY <1>1, <1>4, <1>5, RecountAll
<1>7. ASSUME NEW j \in DOMAIN F PROVE G[j].uses > 0 <=> F[j].uses > 0
  <2>1. PICK a \in Nat : a = F[j].uses
    BY <1>1
  <2>2. PICK b \in Nat : b = Leading(ifs, j)
    BY <1>3
  <2>3. G[j].uses = a + b
    BY <1>6, <2>1, <2>2 DEF Recounted, w
  <2>4. b > 0 => a > 0
    <3> SUFFICES ASSUME b > 0 PROVE F[j].uses > 0
      BY <2>1
    <3>1. \E k \in DOMAIN ifs : ifs[k].target = j
      <4> DEFINE S == {k \in DOMAIN ifs : ifs[k].target = j}
      <4>1. S # {}
        <5> SUFFICES ASSUME S = {} PROVE FALSE
          OBVIOUS
        <5>1. Leading(ifs, j) = Cardinality({})
          BY DEF Leading
        <5> QED BY <2>2, <5>1, FS_EmptySet
      <4> QED BY <4>1
    <3>2. PICK k \in DOMAIN ifs : ifs[k].target = j
      BY <3>1
    <3>3. <<"if", k>> \in PartSet(F[m]) /\ Target(F[m], <<"if", k>>) = j
      BY <1>1, <1>2, <3>2, CasePart
    <3>4. j \in Goals(F)
      BY <3>3, GoalOf
    <3> QED BY <1>1, <3>4 DEF Goals, Used
  <2> QED BY <2>1, <2>3, <2>4
<1>8. Used(G) = Used(F)
  BY <1>6, <1>7 DEF Used, Recounted, Kept
<1> QED BY <1>6, <1>8 DEF w, G

\* One turn of Try_Merge_Ifs.
LEMMA MergeElseSafe ==
    ASSUME NEW F, NEW e, NEW A, NEW i, Safe(F, e, A, i)
    PROVE  Worked(F, MergeElse(F, i), e, A, i)
<1> DEFINE ifs == F[i].ifs
           n == Len(ifs)
           m == Last(ifs).target
           merging == ifs # <<>> /\ Last(ifs).test = 0 /\ Mergeable(F, i, m)
<1>1. CASE ~merging
  <2>1. MergeElse(F, i) = F
    BY <1>1, Zenon DEF MergeElse
  <2> QED BY <2>1, WorkedNone DEF WorkedParts
<1>2. CASE merging
  <2> DEFINE other == F[m].ifs
             F1 == CopyIfs(F, m)
             G == RemoveUse(F1, m)
             new == Front(ifs) \o other
             H == [G EXCEPT ![i].ifs = new]
             x == <<i, <<"if", n>>, m>>
             e1 == [j \in DOMAIN F |-> e[j] + Leading(other, j)]
             w == [j \in DOMAIN F |-> F[j].uses + Leading(other, j)]
             live == References(F, Used(F))
             copied == Copied(i, n - 1, other)
  <2>1. MergeElse(F, i) = H
    BY <1>2, Zenon DEF MergeElse
  <2>2. /\ F \in Seq(FlowSet) /\ i \in DOMAIN F /\ i \in Used(F) /\ F[i] \in FlowSet
        /\ Used(F) \subseteq DOMAIN F /\ A \subseteq DOMAIN F /\ IsFiniteSet(live) /\ 0 \notin DOMAIN F
        /\ e \in [DOMAIN F -> Nat] /\ GraphOK(F) /\ A \subseteq Used(F)
        /\ \A j \in DOMAIN F : F[j].uses \in Nat /\ e[j] \in Nat
    <3>1. e \in [DOMAIN F -> Nat] /\ GraphOK(F) /\ A \subseteq Used(F)
      BY DEF Safe
    <3> QED BY <3>1, SafeType
  <2>3. ifs # <<>> /\ m # 0 /\ F[m].uses = 1
    BY <1>2 DEF Mergeable
  <2>4. ifs \in Seq(IfSet) /\ n \in Nat /\ n \in DOMAIN ifs /\ DOMAIN ifs = 1 .. n /\ m = ifs[n].target
    <3>1. ifs \in Seq(IfSet) /\ n \in Nat /\ DOMAIN ifs = 1 .. n
      BY <2>2, FlowParts
    <3> HIDE DEF ifs
    <3> QED BY <2>3, <3>1, FrontIs
  <2>5. <<"if", n>> \in PartSet(F[i]) /\ Target(F[i], <<"if", n>>) = m
    BY <2>2, <2>4, CasePart
  <2>6. m \in Used(F) /\ m \in DOMAIN F /\ F[m] \in FlowSet /\ F[m].block # 1
    <3>1. m \in Goals(F)
      BY <2>2, <2>5, GoalOf
    <3> QED BY <2>2, <2>3, <3>1, SafeType DEF Goals
  <2>7. x \in live /\ x[1] = i /\ x[3] = m
    <3> HIDE DEF m, n
    <3> QED BY <2>2, <2>5, IsReference
  <2>8. m \notin A
    <3>1. x[1] \notin A \ {i} /\ x[3] # 0 /\ F[x[3]].uses = 1
      BY <2>3, <2>7
    <3> HIDE DEF x, live
    <3> QED BY <2>7, <3>1, NotInWalk DEF live
  <2>9. m # i
    BY <2>8 DEF Safe
  <2>10. other \in Seq(IfSet) /\ n - 1 \in Nat
    BY <2>4, <2>6, FlowParts
  <2>11. \A j : Leading(other, j) \in Nat
    <3> HIDE DEF other
    <3> QED BY <2>10, CopiedNumber
  <2>12. Recounted(F, F1, w) /\ Used(F1) = Used(F)
    BY <2>6, CopyIfsIs
  <2>13. F1 \in Seq(FlowSet) /\ Kept(F, F1, DOMAIN F) /\ DOMAIN F1 = DOMAIN F
         /\ \A j \in DOMAIN F : F1[j].uses = w[j]
    BY <2>12 DEF Recounted, Kept
  <2>14. e1 \in [DOMAIN F1 -> Nat]
    BY <2>2, <2>11, <2>13
  <2> HIDE DEF F1
  <2>15. ASSUME NEW B, B \subseteq DOMAIN F PROVE References(F1, B) = References(F, B)
    BY <2>13, <2>15, KeptReferences
  <2>16. ASSUME NEW j \in DOMAIN F1
         PROVE  F1[j].uses = e1[j] + Number(References(F1, Used(F1)) \ {x}, j) + (IF j = m THEN 1 ELSE 0)
    <3>1. PICK a, b \in Nat : a = Number(live, j) /\ b = e[j] /\ F[j].uses = b + a
      <4>1. j \in DOMAIN F
        BY <2>13
      <4> QED BY <4>1, SafeUses
    <3>2. PICK c \in Nat : c = Leading(other, j)
      BY <2>11
    <3> HIDE DEF live, x, other
    <3>3. Number(live, j) = Number(live \ {x}, j) + IF x[3] = j THEN 1 ELSE 0
      BY <2>2, <2>7, NumberRemove
    <3>4. IsFiniteSet(live \ {x})
      BY <2>2, FS_Difference
    <3>5. PICK d \in Nat : d = Number(live \ {x}, j)
      BY <3>4, NumberType
    <3>6. a = d + IF j = m THEN 1 ELSE 0
      BY <2>7, <3>1, <3>3, <3>5
    <3>7. w[j] = b + a + c /\ e1[j] = b + c
      BY <2>13, <3>1, <3>2
    <3>8. References(F1, Used(F1)) = live
      BY <2>2, <2>12, <2>15 DEF live
    <3>9. F1[j].uses = w[j]
      BY <2>13
    <3>10. F1[j].uses = (b + c) + d + (IF j = m THEN 1 ELSE 0)
      BY <3>6, <3>7, <3>9
    <3> QED BY <3>5, <3>7, <3>8, <3>10
  <2>17. Held(F1, e1, A, {x})
    <3>1. Held(F, e, A, {x})
      <4>1. \A r \in {x} : r[1] = i
        BY <2>7
      <4> HIDE DEF x
      <4> QED BY <4>1, SafeHeld
    <3>2. References(F1, A) = References(F, A)
      BY <2>2, <2>15
    <3>3. \A k \in A : e[k] > 0 => e1[k] > 0
      <4> SUFFICES ASSUME NEW k \in A, e[k] > 0 PROVE e1[k] > 0
        OBVIOUS
      <4>1. k \in DOMAIN F
        BY <2>2
      <4>2. PICK b \in Nat : b = e[k]
        BY <2>2, <4>1
      <4>3. PICK c \in Nat : c = Leading(other, k)
        BY <2>11
      <4>4. e1[k] = b + c
        BY <4>1, <4>2, <4>3
      <4> QED BY <4>2, <4>4
    <3> HIDE DEF e1, x
    <3>4. \A k \in A : e1[k] > 0 \/ \E r \in References(F1, A) \ {x} : r[3] = k
      BY <3>1, <3>2, <3>3 DEF Held
    <3>5. A \subseteq Used(F1) /\ \A r \in {x} : r[1] \in A
      BY <2>12, <3>1 DEF Held
    <3> QED BY <3>4, <3>5 DEF Held
  <2>18. Removed(F1, G, e1, A, {x})
    <3> HIDE DEF e1, x
    <3>1. m \in DOMAIN F1
      BY <2>6, <2>13
    <3> HIDE DEF m
    <3> QED BY <2>13, <2>14, <2>16, <2>17, <3>1, RemoveUseCounted
  <2> HIDE DEF G
  <2>19. /\ G \in Seq(FlowSet) /\ Kept(F, G, DOMAIN F) /\ DOMAIN G = DOMAIN F
         /\ Counted(G, e1, {x}) /\ A \subseteq Used(G)
    BY <2>13, <2>18 DEF Removed, Held, Kept, SameParts
  <2>20. G[i] \in FlowSet /\ SameParts(F[i], G[i]) /\ Used(G) \subseteq DOMAIN F /\ i \in Used(G)
         /\ i \in DOMAIN G
    BY <2>2, <2>19, UsedFinite DEF Kept, Safe
  <2>21. G[i].ifs = ifs /\ Own(i, G[i]) = Own(i, F[i])
    <3>1. PartSet(G[i]) = PartSet(F[i]) /\ \A p : Target(G[i], p) = Target(F[i], p)
      BY <2>20, SamePart
    <3>2. G[i].ifs = ifs
      BY <2>20 DEF SameParts
    <3> QED BY <3>1, <3>2 DEF Own
  <2> DEFINE flow == [G[i] EXCEPT !.ifs = new]
  <2>22. Merged(G[i], flow, i, F[m])
    <3>1. Merged(G[i], [G[i] EXCEPT !.ifs = Front(G[i].ifs) \o F[m].ifs], i, F[m])
      BY <2>3, <2>6, <2>20, <2>21, MergedIs
    <3> QED BY <2>21, <3>1
  <2>23. H = [G EXCEPT ![i] = flow]
    OBVIOUS
  <2> HIDE DEF flow
  <2>24. /\ flow \in FlowSet /\ flow.uses = G[i].uses /\ flow.block = G[i].block
         /\ x \in Own(i, F[i]) /\ Own(i, flow) = (Own(i, F[i]) \ {x}) \cup copied
         /\ (Own(i, F[i]) \ {x}) \cap copied = {}
    BY <2>21, <2>22 DEF Merged
  <2>25. /\ H \in Seq(FlowSet) /\ DOMAIN H = DOMAIN F /\ H[i] = flow
         /\ \A j \in DOMAIN F : j # i => H[j] = G[j]
    BY <2>2, <2>19, <2>23, <2>24, ChangeOne
  <2> HIDE DEF H, x, copied
  <2>26. Used(H) = Used(G) /\ \A j \in DOMAIN F : H[j].uses = G[j].uses /\ H[j].block = G[j].block
    <3>1. \A j \in DOMAIN F : H[j].uses = G[j].uses /\ H[j].block = G[j].block
      BY <2>24, <2>25
    <3> QED BY <2>19, <2>25, <3>1 DEF Used
  <2>27. Kept(F, H, DOMAIN F \ {i})
    <3>1. \A j \in DOMAIN F : H[j].block = F[j].block
      BY <2>19, <2>26 DEF Kept
    <3>2. \A j \in DOMAIN F \ {i} : SameParts(F[j], H[j])
      BY <2>19, <2>25 DEF Kept
    <3> QED BY <2>25, <3>1, <3>2 DEF Kept
  <2> DEFINE others == Used(G) \ {i}
             rest == References(F, others)
  <2>28. /\ References(G, Used(G)) = rest \cup Own(i, F[i]) /\ rest \cap Own(i, F[i]) = {}
         /\ References(H, Used(H)) = rest \cup Own(i, flow) /\ rest \cap Own(i, flow) = {}
    <3>1. Used(G) = others \cup {i} /\ others \cap {i} = {} /\ others \subseteq DOMAIN F
          /\ others \subseteq DOMAIN F \ {i}
      BY <2>20
    <3> HIDE DEF others
    <3>2. References(G, others) = rest
      BY <2>19, <3>1, KeptReferences
    <3>3. References(H, others) = rest
      BY <2>27, <3>1, KeptReferences
    <3>4. References(G, {i}) = Own(i, G[i]) /\ References(H, {i}) = Own(i, flow)
      BY <2>25 DEF References, Own, PartSet
    <3>5. /\ References(G, others \cup {i}) = References(G, others) \cup References(G, {i})
          /\ References(G, others) \cap References(G, {i}) = {}
          /\ References(H, others \cup {i}) = References(H, others) \cup References(H, {i})
          /\ References(H, others) \cap References(H, {i}) = {}
      BY <3>1, ReferencesSplit
    <3> HIDE DEF rest
    <3> QED BY <2>21, <2>26, <3>1, <3>2, <3>3, <3>4, <3>5
  <2> HIDE DEF rest
  <2> DEFINE R == References(G, Used(G)) \ {x}
             own == Own(i, F[i])
  <2>29. References(H, Used(H)) = R \cup copied /\ R \cap copied = {}
    <3>1. rest \cap copied = {} /\ x \notin rest /\ x \in own
      BY <2>24, <2>28
    <3>2. R = rest \cup (own \ {x})
      BY <2>28, <3>1
    <3> HIDE DEF R, own
    <3> QED BY <2>24, <2>28, <3>1, <3>2 DEF own
  <2>30. IsFiniteSet(References(H, Used(H))) /\ IsFiniteSet(R) /\ IsFiniteSet(copied)
    <3>1. IsFiniteSet(References(H, Used(H)))
      BY <2>25, UsedFinite
    <3> HIDE DEF R
    <3> QED BY <2>29, <3>1, FS_Subset
  <2>31. \A j : Number(copied, j) = Leading(other, j)
    <3> HIDE DEF other
    <3> QED BY <2>10, CopiedNumber DEF copied
  <2>32. Counted(H, e, {})
    <3> SUFFICES ASSUME NEW j \in DOMAIN F
                 PROVE  H[j].uses = e[j] + Number(References(H, Used(H)) \ {}, j)
      BY <2>25 DEF Counted
    <3>1. G[j].uses = e1[j] + Number(R, j)
      BY <2>19 DEF Counted
    <3> DEFINE all == References(H, Used(H))
    <3>2. copied \subseteq all /\ all \ copied = R
      BY <2>29
    <3> HIDE DEF R, all
    <3>3. Number(all, j) = Number(all \ copied, j) + Number(copied, j)
      BY <2>30, <3>2, NumberSplit DEF all
    <3>4. PICK a \in Nat : a = Number(R, j)
      BY <2>30, NumberType
    <3>5. PICK b \in Nat : b = e[j]
      BY <2>2
    <3>6. PICK c \in Nat : c = Leading(other, j)
      BY <2>11
    <3>7. e1[j] = b + c
      BY <3>5, <3>6
    <3>8. G[j].uses = b + c + a
      BY <3>1, <3>4, <3>7
    <3>9. Number(all, j) = a + c
      BY <2>31, <3>2, <3>3, <3>4, <3>6
    <3>10. H[j].uses = b + (a + c)
      BY <2>26, <3>8
    <3>11. all \ {} = all
      OBVIOUS
    <3> QED BY <3>5, <3>9, <3>10, <3>11 DEF all
  <2>33. GraphOK(H)
    <3> SUFFICES ASSUME NEW r \in References(H, DOMAIN H), r[3] # 0
                 PROVE  r[3] \in DOMAIN H /\ H[r[3]].block # 1
      BY <2>25 DEF GraphOK
    <3>1. r \in References(F, DOMAIN F \ {i}) \/ r \in Own(i, flow)
      <4>1. r[1] \in DOMAIN F /\ r[2] \in PartSet(H[r[1]]) /\ r[3] = Target(H[r[1]], r[2])
            /\ r = <<r[1], r[2], r[3]>>
        BY <2>25, ReferenceParts
      <4>2. CASE r[1] = i
        BY <2>25, <4>1, <4>2 DEF Own
      <4>3. CASE r[1] # i
        <5>1. r \in References(H, DOMAIN F \ {i})
          BY <4>1, <4>3, ReferenceIs
        <5>2. References(H, DOMAIN F \ {i}) = References(F, DOMAIN F \ {i})
          BY <2>27, KeptReferences
        <5> QED BY <5>1, <5>2
      <4> QED BY <4>2, <4>3
    <3>2. \E s \in References(F, DOMAIN F) : s[3] = r[3]
      <4>1. CASE r \in References(F, DOMAIN F \ {i})
        <5>1. References(F, DOMAIN F \ {i}) \subseteq References(F, DOMAIN F)
          BY ReferencesSplit
        <5> QED BY <4>1, <5>1
      <4>2. CASE r \in Own(i, F[i])
        <5>1. PICK p \in PartSet(F[i]) : r = <<i, p, Target(F[i], p)>>
          BY <4>2 DEF Own
        <5> QED BY <2>2, <5>1, IsReference
      <4>3. CASE r \in copied
        <5>1. PICK k \in DOMAIN other : r = <<i, <<"if", n - 1 + k>>, other[k].target>>
          BY <4>3 DEF copied, Copied
        <5>2. r[3] = other[k].target
          BY <5>1
        <5>3. <<"if", k>> \in PartSet(F[m]) /\ Target(F[m], <<"if", k>>) = other[k].target
          BY <2>6, FlowParts, CasePart
        <5> DEFINE s == <<m, <<"if", k>>, Target(F[m], <<"if", k>>)>>
        <5>4. s \in References(F, DOMAIN F)
          BY <2>6, <5>3, IsReference
        <5>5. s[3] = r[3]
          BY <5>2, <5>3
        <5> QED BY <5>4, <5>5
      <4> QED BY <2>24, <3>1, <4>1, <4>2, <4>3
    <3>3. r[3] \in DOMAIN F /\ F[r[3]].block # 1
      BY <2>2, <3>2 DEF GraphOK
    <3> QED BY <2>25, <2>27, <3>3 DEF Kept
  <2>34. Kept(F, H, A \ {i})
    <3>1. A \ {i} \subseteq DOMAIN F \ {i}
      BY <2>2
    <3> QED BY <2>27, <3>1, KeptSubset
  <2>35. Safe(H, e, A, i)
    <3>1. A \subseteq Used(H)
      BY <2>19, <2>26
    <3> QED BY <2>32, <2>33, <2>34, <3>1, SafeKept
  <2> QED BY <2>1, <2>34, <2>35 DEF Worked
<1> QED BY <1>1, <1>2

\* Try_Merge_Ifs.
LEMMA TryMergeIfsSafe ==
    ASSUME NEW F, NEW e, NEW A, NEW i, Safe(F, e, A, i)
    PROVE  Worked(F, TryMergeIfs(F, i), e, A, i)
<1> DEFINE Loop(h) == h = [k \in 0 .. Len(F) |-> IF k = 0 THEN F ELSE MergeElse(h[k - 1], i)]
           D == {G \in Seq(FlowSet) : Worked(F, G, e, A, i)}
           step == [y \in (1 .. Len(F)) \X D |-> MergeElse(y[2], i)]
<1>1. Len(F) \in Nat
  BY SafeType, LenProperties
<1>2. F \in D
  BY SafeType, WorkedNone DEF WorkedParts
<1>3. \A k \in 1 .. Len(F) : \A y \in D : MergeElse(y, i) \in D
  <2> SUFFICES ASSUME NEW y \in D PROVE MergeElse(y, i) \in D
    OBVIOUS
  <2>1. Safe(y, e, A, i) /\ Worked(F, y, e, A, i)
    BY DEF Worked
  <2>2. Worked(y, MergeElse(y, i), e, A, i)
    BY <2>1, MergeElseSafe
  <2>3. Worked(F, MergeElse(y, i), e, A, i)
    BY <2>1, <2>2, WorkedOn, SafeType
  <2>4. MergeElse(y, i) \in Seq(FlowSet)
    BY <2>3 DEF Worked, Safe, GraphOK
  <2> QED BY <2>3, <2>4
<1>4. \A k \in 1 .. Len(F) : \A y \in D : step[<<k, y>>] = MergeElse(y, i) /\ step[<<k, y>>] \in D
  <2> HIDE DEF D
  <2> QED BY <1>3
<1> HIDE DEF D, step
<1>5. PICK f : LoopIn(f, Len(F), D, F, step)
  <2>1. \A k \in 1 .. Len(F) : \A y \in D : step[<<k, y>>] \in D
    BY <1>4
  <2> QED BY <1>1, <1>2, <2>1, LoopExists
<1>6. \A k \in 0 .. Len(F) : f[k] = IF k = 0 THEN F ELSE MergeElse(f[k - 1], i)
  <2> SUFFICES ASSUME NEW k \in 0 .. Len(F), k # 0 PROVE f[k] = MergeElse(f[k - 1], i)
    BY <1>5 DEF LoopIn
  <2>1. k \in 1 .. Len(F) /\ k - 1 \in 0 .. Len(F)
    BY <1>1
  <2> QED BY <1>4, <1>5, <2>1 DEF LoopIn
<1>7. Loop(f)
  <2>1. f = [k \in 0 .. Len(F) |-> f[k]]
    BY <1>5 DEF LoopIn
  <2> QED BY <1>6, <2>1, Zenon
<1> DEFINE h == CHOOSE g : Loop(g)
<1>8. Loop(h)
  BY <1>7, Zenon
<1> HIDE DEF h
<1>9. h[0] = F /\ \A k \in 1 .. Len(F) : h[k] = MergeElse(h[k - 1], i)
  <2>1. \A k \in 0 .. Len(F) : h[k] = IF k = 0 THEN F ELSE MergeElse(h[k - 1], i)
    BY <1>8, Zenon
  <2>2. 0 \in 0 .. Len(F) /\ \A k \in 1 .. Len(F) : k \in 0 .. Len(F) /\ k # 0
    BY <1>1
  <2> QED BY <2>1, <2>2
<1>10. h[Len(F)] \in D
  <2>1. h[0] \in D
    BY <1>2, <1>9
  <2>2. \A k \in 1 .. Len(F) : h[k - 1] \in D => h[k] \in D
    BY <1>3, <1>9
  <2> QED BY <1>1, <2>1, <2>2, LoopStays
<1>11. TryMergeIfs(F, i) = h[Len(F)]
  BY DEF TryMergeIfs, h
<1> QED BY <1>10, <1>11 DEF D

\* Remove_Nested_Next on a part: a next that all the nested parts share is
\* dropped.
LEMMA CutNestedSafe ==
    ASSUME NEW F, NEW e, NEW A, NEW i, Safe(F, e, A, i), NEW part \in PartSet(F[i])
    PROVE  WorkedParts(F, CutNested(F, i, part), e, A, i)
<1> DEFINE t == Target(F[i], part)
           n == F[i].next
           live == References(F, Used(F))
           next == <<"next", 0>>
<1>1. CASE ~(t # 0 /\ F[t].uses = 1 /\ F[t].next = n)
  <2>1. CutNested(F, i, part) = F
    BY <1>1 DEF CutNested
  <2> QED BY <2>1, WorkedNone
<1>2. CASE t # 0 /\ F[t].uses = 1 /\ F[t].next = n
  <2> DEFINE G == SetNext(F, t, 0)
             x == <<i, part, t>>
             y == <<i, next, n>>
             z == <<t, next, n>>
  <2>1. CutNested(F, i, part) = G
    BY <1>2 DEF CutNested
  <2>2. i \in Used(F) /\ i \in DOMAIN F /\ F[i] \in FlowSet /\ IsFiniteSet(live) /\ 0 \notin DOMAIN F
    BY SafeType
  <2>3. t \in Goals(F)
    BY <2>2, GoalOf
  <2>4. t \in Used(F) /\ t \in DOMAIN F /\ F[t] \in FlowSet
    BY <1>2, <2>3, SafeType DEF Goals
  <2>5. x \in live
    BY <2>2, IsReference
  <2>6. t \notin A
    <3>1. x[1] = i /\ x[3] = t
      OBVIOUS
    <3> HIDE DEF x, t
    <3>2. x[1] \notin A \ {i} /\ x[3] # 0 /\ F[x[3]].uses = 1
      BY <1>2, <3>1
    <3> QED BY <2>5, <3>1, <3>2, NotInWalk
  <2>7. t # i
    BY <2>6 DEF Safe
  <2>8. y \in live /\ z \in live
    <3>1. next \in PartSet(F[i]) /\ Target(F[i], next) = n
      BY <2>2, CasePart
    <3>2. next \in PartSet(F[t]) /\ Target(F[t], next) = n
      BY <1>2, <2>4, CasePart
    <3> HIDE DEF next, t, n
    <3> QED BY <2>2, <2>4, <3>1, <3>2, IsReference
  <2>9. F[t].next = 0 \/ F[F[t].next].uses >= 2
    <3> SUFFICES ASSUME n # 0 PROVE F[n].uses >= 2
      BY <1>2
    <3>1. y # z /\ y[3] = n /\ z[3] = n
      BY <2>7
    <3>2. n \in Goals(F)
      BY <2>2, GoalNext
    <3>3. n \in DOMAIN F
      BY <3>2, SafeType DEF Goals
    <3>4. PICK a, b \in Nat : a = Number(live, n) /\ b = e[n] /\ F[n].uses = b + a
      BY <3>3, SafeUses
    <3> HIDE DEF y, z, live, n
    <3>5. Number(live, n) >= 2
      BY <2>2, <2>8, <3>1, NumberTwo
    <3> QED BY <3>4, <3>5
  <2>10. t \in Used(F) \ A
    BY <2>4, <2>6
  <2>11. Worked(F, G, e, A, i) /\ Kept(F, G, DOMAIN F \ {t})
    <3> HIDE DEF t
    <3> QED BY <2>9, <2>10, SafeSetNext
  <2> HIDE DEF G
  <2>12. SameParts(F[i], G[i])
    BY <2>2, <2>7, <2>11 DEF Kept
  <2>13. PartSet(G[i]) = PartSet(F[i])
    BY <2>12, SamePart
  <2> QED BY <2>1, <2>11, <2>13 DEF WorkedParts
<1> QED BY <1>1, <1>2

\* Remove_Nested_Next.
LEMMA RemoveNestedNextSafe ==
    ASSUME NEW F, NEW e, NEW A, NEW i, Safe(F, e, A, i)
    PROVE  Worked(F, RemoveNestedNext(F, i), e, A, i)
<1> DEFINE parts == IfParts(F[i]) \o CaseParts(F[i])
<1> DEFINE Loop(h) == h = [k \in 0 .. Len(parts) |-> IF k = 0 THEN F ELSE CutNested(h[k - 1], i, parts[k])]
           D == Graphs(F, e, A, i)
           step == [y \in (1 .. Len(parts)) \X D |-> CutNested(y[2], i, parts[y[1]])]
<1>1. parts \in Seq(PartSet(F[i]))
  BY SafeType, PartLists, ConcatProperties
<1>2. Len(parts) \in Nat
  BY <1>1, LenProperties
<1> HIDE DEF parts
<1>3. F \in D
  BY GraphsStart
<1>4. \A k \in 1 .. Len(parts) : \A y \in D : CutNested(y, i, parts[k]) \in D
  <2> SUFFICES ASSUME NEW k \in 1 .. Len(parts), NEW y \in D PROVE CutNested(y, i, parts[k]) \in D
    OBVIOUS
  <2>1. Safe(y, e, A, i) /\ PartSet(y[i]) = PartSet(F[i])
    BY GraphsAre
  <2>2. parts[k] \in PartSet(F[i])
    BY <1>1, LenProperties, ElementOfSeq
  <2>3. WorkedParts(y, CutNested(y, i, parts[k]), e, A, i)
    BY <2>1, <2>2, CutNestedSafe
  <2> QED BY <2>3, GraphsOn
<1>5. \A k \in 1 .. Len(parts) : \A y \in D : step[<<k, y>>] = CutNested(y, i, parts[k]) /\ step[<<k, y>>] \in D
  <2> HIDE DEF D
  <2> QED BY <1>4
<1> HIDE DEF D, step
<1>6. PICK f : LoopIn(f, Len(parts), D, F, step)
  <2>1. \A k \in 1 .. Len(parts) : \A y \in D : step[<<k, y>>] \in D
    BY <1>5
  <2> QED BY <1>2, <1>3, <2>1, LoopExists
<1>7. \A k \in 0 .. Len(parts) : f[k] = IF k = 0 THEN F ELSE CutNested(f[k - 1], i, parts[k])
  <2> SUFFICES ASSUME NEW k \in 0 .. Len(parts), k # 0 PROVE f[k] = CutNested(f[k - 1], i, parts[k])
    BY <1>6 DEF LoopIn
  <2>1. k \in 1 .. Len(parts) /\ k - 1 \in 0 .. Len(parts)
    BY <1>2
  <2> QED BY <1>5, <1>6, <2>1 DEF LoopIn
<1>8. Loop(f)
  <2>1. f = [k \in 0 .. Len(parts) |-> f[k]]
    BY <1>6 DEF LoopIn
  <2> QED BY <1>7, <2>1, Zenon
<1> DEFINE h == CHOOSE g : Loop(g)
<1>9. Loop(h)
  BY <1>8, Zenon
<1> HIDE DEF h
<1>10. h[0] = F /\ \A k \in 1 .. Len(parts) : h[k] = CutNested(h[k - 1], i, parts[k])
  <2>1. \A k \in 0 .. Len(parts) : h[k] = IF k = 0 THEN F ELSE CutNested(h[k - 1], i, parts[k])
    BY <1>9, Zenon
  <2>2. 0 \in 0 .. Len(parts) /\ \A k \in 1 .. Len(parts) : k \in 0 .. Len(parts) /\ k # 0
    BY <1>2
  <2> QED BY <2>1, <2>2
<1>11. h[Len(parts)] \in D
  <2>1. h[0] \in D
    BY <1>3, <1>10
  <2>2. \A k \in 1 .. Len(parts) : h[k - 1] \in D => h[k] \in D
    BY <1>4, <1>10
  <2> QED BY <1>2, <2>1, <2>2, LoopStays
<1>12. RemoveNestedNext(F, i) = IF F[i].next = 0 THEN F ELSE h[Len(parts)]
  BY DEF RemoveNestedNext, parts, h
<1>13. WorkedParts(F, F, e, A, i) /\ WorkedParts(F, h[Len(parts)], e, A, i)
  BY <1>11, GraphsWorked, WorkedNone DEF D
<1> QED BY <1>12, <1>13 DEF WorkedParts

(***************************************************************************)
(* The walk over the graph                                                 *)
(***************************************************************************)
CallSet == [flow : Nat, at : Nat \ {0}]

\* The active calls are for different flows in use, each made for the reference
\* before "at" of the flow of the call before it.
WalkOK(F, w, done) ==
  /\ w \in Seq(CallSet) /\ w # <<>> /\ w[1].flow = Root /\ done \in SUBSET Nat
  /\ \A n \in DOMAIN w : w[n].flow \in Used(F)
  /\ \A m, n \in DOMAIN w : m # n => w[m].flow # w[n].flow
  /\ \A n \in 1 .. Len(w) - 1 :
       /\ w[n].at - 1 \in DOMAIN Refs(F[w[n].flow])
       /\ Refs(F[w[n].flow])[w[n].at - 1] = w[n + 1].flow
       /\ w[n + 1].flow \in done

InWalk(w) == {w[n].flow : n \in DOMAIN w}

\* The uses are counted, with e for those that are no references.
Ready(F, e) ==
  /\ GraphOK(F) /\ e \in [DOMAIN F -> Nat] /\ Counted(F, e, {})
  /\ Root \in DOMAIN F /\ e[Root] > 0 /\ F[Root].block = 1

\* The types of a walk.
LEMMA WalkType ==
    ASSUME NEW F, NEW w, NEW done, WalkOK(F, w, done)
    PROVE  /\ Len(w) \in Nat \ {0} /\ DOMAIN w = 1 .. Len(w) /\ 1 \in DOMAIN w /\ Len(w) \in DOMAIN w
           /\ Last(w) = w[Len(w)] /\ Last(w) \in CallSet
           /\ Last(w).flow \in InWalk(w) /\ Last(w).flow \in Used(F)
           /\ \A n \in DOMAIN w : w[n] \in CallSet
<1>1. w \in Seq(CallSet) /\ w # <<>>
  BY DEF WalkOK
<1>2. Len(w) \in Nat /\ DOMAIN w = 1 .. Len(w) /\ Len(w) # 0
  BY <1>1, LenProperties, EmptySeq
<1>3. 1 \in DOMAIN w /\ Len(w) \in DOMAIN w
  BY <1>2
<1>4. Last(w) = w[Len(w)]
  BY DEF Last
<1>5. \A n \in DOMAIN w : w[n] \in CallSet
  BY <1>1, LenProperties, ElementOfSeq
<1>6. Last(w).flow \in Used(F)
  BY <1>3, <1>4 DEF WalkOK
<1> QED BY <1>2, <1>3, <1>4, <1>5, <1>6 DEF InWalk

\* During the walk of a pass the graph is safe for the flow at hand: the others
\* of the walk are used by one before them.
LEMMA WalkSafe ==
    ASSUME NEW F, NEW e, Ready(F, e), NEW w, NEW done, WalkOK(F, w, done)
    PROVE  Safe(F, e, InWalk(w), Last(w).flow)
<1> DEFINE A == InWalk(w)
           i == Last(w).flow
<1>1. A \subseteq Used(F) /\ i \in A
  <2>1. \A n \in DOMAIN w : w[n].flow \in Used(F)
    BY DEF WalkOK
  <2> QED BY <2>1, WalkType DEF InWalk
<1>2. GraphOK(F) /\ e \in [DOMAIN F -> Nat] /\ Counted(F, e, {}) /\ e[Root] > 0
  BY DEF Ready
<1>3. Used(F) \subseteq DOMAIN F
  BY DEF Used
<1>4. ASSUME NEW k \in A PROVE e[k] > 0 \/ \E r \in References(F, A \ {i}) : r[3] = k
  <2>1. PICK n \in DOMAIN w : k = w[n].flow
    BY DEF InWalk
  <2>2. CASE n = 1
    <3>1. k = Root
      BY <2>1, <2>2 DEF WalkOK
    <3> QED BY <1>2, <3>1
  <2>3. CASE n # 1
    <3>1. PICK m \in 1 .. Len(w) - 1 : n = m + 1
      <4>1. n - 1 \in 1 .. Len(w) - 1 /\ n = n - 1 + 1
        BY <2>3, WalkType
      <4> QED BY <4>1
    <3>2. m \in DOMAIN w /\ m # Len(w) /\ Len(w) \in DOMAIN w
      BY WalkType
    <3> DEFINE j == w[m].flow
               q == w[m].at - 1
    <3>3. q \in DOMAIN Refs(F[j]) /\ Refs(F[j])[q] = k
      BY <2>1, <3>1 DEF WalkOK
    <3>4. j # i /\ j \in A
      <4>1. w[m].flow # w[Len(w)].flow
        BY <3>2 DEF WalkOK
      <4>2. i = w[Len(w)].flow
        BY WalkType
      <4> QED BY <3>2, <4>1, <4>2 DEF InWalk
    <3>5. F[j] \in FlowSet
      BY <1>1, <1>2, <1>3, <3>4, UsedFinite DEF GraphOK
    <3> HIDE DEF j, q
    <3>6. Parts(F[j])[q] \in PartSet(F[j]) /\ Target(F[j], Parts(F[j])[q]) = k
      BY <3>3, <3>5, PartsAre
    <3> DEFINE p == Parts(F[j])[q]
               r == <<j, p, Target(F[j], p)>>
    <3>7. r \in References(F, A \ {i})
      BY <3>4, <3>6, IsReference
    <3>8. r[3] = k
      BY <3>6
    <3> QED BY <3>7, <3>8
  <2> QED BY <2>2, <2>3
<1> QED BY <1>1, <1>2, <1>4 DEF Safe

\* A call of Process_Flow_Graph returns.
LEMMA WalkBack ==
    ASSUME NEW F, NEW w, NEW done, WalkOK(F, w, done), Len(w) # 1,
           NEW G, Kept(F, G, InWalk(w) \ {Last(w).flow}), InWalk(w) \subseteq Used(G)
    PROVE  WalkOK(G, Front(w), done)
<1> DEFINE v == Front(w)
<1>1. PICK n \in Nat : Len(w) = n + 1 /\ n # 0
  <2>1. Len(w) - 1 \in Nat /\ Len(w) = Len(w) - 1 + 1 /\ Len(w) - 1 # 0
    BY WalkType
  <2> QED BY <2>1, ZenonT(40)
<1>2. /\ v \in Seq(CallSet) /\ DOMAIN v = DOMAIN w \ {Len(w)}
      /\ \A k \in DOMAIN v : v[k] = w[k]
  BY FrontIs DEF WalkOK
<1>3. DOMAIN w = 1 .. n + 1 /\ DOMAIN v = 1 .. n
  <2>1. DOMAIN w = 1 .. n + 1
    BY <1>1, WalkType
  <2> QED BY <1>1, <1>2, <2>1
<1>4. Len(v) = n
  BY <1>1, <1>2, <1>3, LenProperties
<1> HIDE DEF v
<1>5. v # <<>>
  <2>1. v = <<>> => Len(v) = 0
    OBVIOUS
  <2> QED BY <1>1, <1>4, <2>1
<1>6. v[1].flow = Root /\ done \in SUBSET Nat
  <2>1. 1 \in DOMAIN v
    BY <1>1, <1>3
  <2> QED BY <1>2, <2>1 DEF WalkOK
<1>7. ASSUME NEW k \in DOMAIN v
      PROVE  /\ v[k].flow \in Used(G) /\ v[k].flow \in InWalk(w) \ {Last(w).flow}
             /\ Refs(G[v[k].flow]) = Refs(F[v[k].flow])
  <2>1. v[k] = w[k] /\ k \in DOMAIN w /\ k # Len(w) /\ Len(w) \in DOMAIN w /\ Last(w) = w[Len(w)]
    BY <1>2, WalkType
  <2>2. w[k].flow # w[Len(w)].flow
    BY <2>1 DEF WalkOK
  <2>3. v[k].flow \in InWalk(w) \ {Last(w).flow}
    BY <2>1, <2>2 DEF InWalk
  <2>4. SameParts(F[v[k].flow], G[v[k].flow])
    BY <2>3 DEF Kept
  <2> QED BY <2>3, <2>4, SamePart
<1>8. \A k, l \in DOMAIN v : k # l => v[k].flow # v[l].flow
  <2>1. \A k \in DOMAIN v : k \in DOMAIN w /\ v[k] = w[k]
    BY <1>2
  <2> QED BY <2>1 DEF WalkOK
<1>9. ASSUME NEW k \in 1 .. Len(v) - 1
      PROVE  /\ v[k].at - 1 \in DOMAIN Refs(G[v[k].flow])
             /\ Refs(G[v[k].flow])[v[k].at - 1] = v[k + 1].flow
             /\ v[k + 1].flow \in done
  <2>1. k \in DOMAIN v /\ k + 1 \in DOMAIN v /\ k \in 1 .. Len(w) - 1
    BY <1>1, <1>3, <1>4
  <2>2. v[k] = w[k] /\ v[k + 1] = w[k + 1]
    BY <1>2, <2>1
  <2>3. Refs(G[v[k].flow]) = Refs(F[v[k].flow])
    BY <1>7, <2>1
  <2>4. /\ w[k].at - 1 \in DOMAIN Refs(F[w[k].flow])
        /\ Refs(F[w[k].flow])[w[k].at - 1] = w[k + 1].flow
        /\ w[k + 1].flow \in done
    BY <2>1 DEF WalkOK
  <2> QED BY <2>2, <2>3, <2>4
<1> QED BY <1>2, <1>5, <1>6, <1>7, <1>8, <1>9 DEF WalkOK, v

\* One turn of Process_Flow_Graph.
Walks(F) == {s \in [walk : Seq(CallSet), processed : SUBSET Nat] : WalkOK(F, s.walk, s.processed)}

\* The walk goes on to a flow that is used by the one at hand.
LEMMA DescendOK ==
    ASSUME NEW e, Ready(flows, e), NEW s \in Walks(flows)
    PROVE  Descend(s) \in Walks(flows)
<1> DEFINE w == s.walk
           done == s.processed
           top == Last(w)
           i == top.flow
           refs == Refs(flows[i])
           n == Len(w)
           t == refs[top.at]
           next == [w EXCEPT ![n].at = @ + 1]
<1>1. WalkOK(flows, w, done)
  BY DEF Walks
<1>2. /\ n \in Nat \ {0} /\ DOMAIN w = 1 .. n /\ 1 \in DOMAIN w /\ n \in DOMAIN w /\ top = w[n]
      /\ top \in CallSet /\ i \in Used(flows)
      /\ \A k \in DOMAIN w : w[k] \in CallSet
  BY <1>1, WalkType
<1>3. Safe(flows, e, InWalk(w), i)
  BY <1>1, WalkSafe
<1>4. flows[i] \in FlowSet /\ i \in DOMAIN flows
  BY <1>3, SafeType
<1>5. top.at \in Nat \ {0} /\ top.flow \in Nat
  BY <1>2 DEF CallSet
<1>6. refs \in Seq(Nat) /\ DOMAIN refs = 1 .. Len(refs) /\ Len(refs) \in Nat
  BY <1>4, PartsAre, LenProperties
<1>7. w \in Seq(CallSet) /\ done \in SUBSET Nat /\ w[1].flow = Root
  BY <1>1 DEF WalkOK
<1>8. /\ next \in Seq(CallSet) /\ Len(next) = n /\ DOMAIN next = DOMAIN w
      /\ \A k \in DOMAIN w : next[k].flow = w[k].flow
      /\ \A k \in DOMAIN w : k # n => next[k] = w[k]
      /\ next[n].at = top.at + 1
  <2>1. next \in [DOMAIN w -> CallSet]
    <3>1. w \in [DOMAIN w -> CallSet]
      BY <1>2, <1>7, LenProperties
    <3>2. top.at + 1 \in Nat \ {0}
      BY <1>5
    <3>3. [w[n] EXCEPT !.at = top.at + 1] \in CallSet
      BY <1>2, <3>2 DEF CallSet
    <3>4. next = [w EXCEPT ![n] = [w[n] EXCEPT !.at = top.at + 1]]
      BY <1>2
    <3> QED BY <3>1, <3>3, <3>4
  <2>2. next \in Seq(CallSet) /\ Len(next) = n /\ DOMAIN next = DOMAIN w
    BY <1>7, <2>1, SameDomain
  <2>3. \A k \in DOMAIN w : next[k] = IF k = n THEN [w[n] EXCEPT !.at = top.at + 1] ELSE w[k]
    BY <1>2
  <2>4. next[n].at = top.at + 1 /\ next[n].flow = w[n].flow
    BY <1>2, <2>3 DEF CallSet
  <2> QED BY <2>2, <2>3, <2>4
<1> DEFINE linked(v, k) == /\ v[k].at - 1 \in DOMAIN Refs(flows[v[k].flow])
                           /\ Refs(flows[v[k].flow])[v[k].at - 1] = v[k + 1].flow
<1>9. \A k \in 1 .. n - 1 : linked(w, k) /\ w[k + 1].flow \in done
  BY <1>1 DEF WalkOK
<1>10. \A k \in 1 .. n - 1 : linked(next, k) /\ next[k + 1].flow \in done
  <2> SUFFICES ASSUME NEW k \in 1 .. n - 1 PROVE linked(next, k) /\ next[k + 1].flow \in done
    OBVIOUS
  <2>1. k \in DOMAIN w /\ k # n /\ k + 1 \in DOMAIN w
    BY <1>2
  <2>2. next[k] = w[k] /\ next[k + 1].flow = w[k + 1].flow
    BY <1>8, <2>1
  <2> QED BY <1>9, <2>2
<1>11. CASE top.at > Len(refs)
  <2>1. Descend(s) = s
    BY <1>5, <1>6, <1>11 DEF Descend
  <2> QED BY <2>1
<1>12. CASE top.at <= Len(refs) /\ (t = 0 \/ t \in done)
  <2>1. Descend(s) = [s EXCEPT !.walk = next]
    BY <1>12, <1>5, <1>6 DEF Descend
  <2>2. next # <<>>
    <3>1. next = <<>> => Len(next) = 0
      OBVIOUS
    <3> HIDE DEF next
    <3> QED BY <1>2, <1>8, <3>1
  <2> HIDE DEF next, n
  <2>3. next[1].flow = Root
    BY <1>2, <1>7, <1>8
  <2>4. \A k \in DOMAIN next : next[k].flow \in Used(flows)
    BY <1>1, <1>8 DEF WalkOK
  <2>5. \A k, l \in DOMAIN next : k # l => next[k].flow # next[l].flow
    BY <1>1, <1>8 DEF WalkOK
  <2>6. WalkOK(flows, next, done)
    BY <1>7, <1>8, <1>10, <2>2, <2>3, <2>4, <2>5 DEF WalkOK
  <2>7. [s EXCEPT !.walk = next].walk = next /\ [s EXCEPT !.walk = next].processed = done
        /\ [s EXCEPT !.walk = next] \in [walk : Seq(CallSet), processed : SUBSET Nat]
    BY <1>7, <1>8 DEF Walks
  <2> QED BY <2>1, <2>6, <2>7 DEF Walks
<1>13. CASE top.at <= Len(refs) /\ ~(t = 0 \/ t \in done)
  <2> DEFINE call == [flow |-> t, at |-> 1]
             v == Append(next, call)
             after == done \cup {t}
  <2>1. Descend(s) = [walk |-> v, processed |-> after]
    BY <1>13, <1>5, <1>6 DEF Descend
  <2>2. top.at \in DOMAIN refs
    BY <1>5, <1>6, <1>13
  <2>3. t \in Goals(flows)
    <3>1. Parts(flows[i])[top.at] \in PartSet(flows[i])
          /\ t = Target(flows[i], Parts(flows[i])[top.at])
      BY <1>4, <2>2, PartsAre
    <3> QED BY <1>2, <1>3, <3>1, GoalOf
  <2>4. t \in Used(flows) /\ t \in Nat /\ flows[t].block # 1
    BY <1>13, <2>3 DEF Goals
  <2>5. \A k \in DOMAIN w : w[k].flow # t
    <3> SUFFICES ASSUME NEW k \in DOMAIN w, w[k].flow = t PROVE FALSE
      OBVIOUS
    <3>1. CASE k = 1
      BY <1>7, <2>4, <3>1 DEF Ready
    <3>2. CASE k # 1
      <4>1. k - 1 \in 1 .. n - 1 /\ k - 1 + 1 = k
        BY <1>2, <3>2
      <4>2. w[k - 1 + 1].flow \in done
        BY <1>9, <4>1
      <4> QED BY <1>13, <4>1, <4>2
    <3> QED BY <3>1, <3>2
  <2>6. call \in CallSet
    BY <2>4 DEF CallSet
  <2> HIDE DEF next, n, call
  <2>7. /\ v \in Seq(CallSet) /\ Len(v) = n + 1 /\ v[n + 1] = call
        /\ \A k \in 1 .. n : v[k] = next[k]
    BY <1>8, <2>6, AppendProperties
  <2> HIDE DEF v
  <2>8. DOMAIN v = 1 .. n + 1
    BY <2>7, LenProperties
  <2>9. v # <<>>
    <3>1. v = <<>> => Len(v) = 0
      OBVIOUS
    <3> QED BY <1>2, <2>7, <3>1
  <2>10. v[1].flow = Root /\ v[n + 1].flow = t
    BY <1>2, <1>7, <1>8, <2>7 DEF call
  <2>11. \A k \in DOMAIN v : k = n + 1 \/ (k \in DOMAIN w /\ v[k].flow = w[k].flow)
    BY <1>2, <1>8, <2>7, <2>8
  <2>12. \A k \in DOMAIN v : v[k].flow \in Used(flows)
    BY <1>1, <2>4, <2>10, <2>11 DEF WalkOK
  <2>13. \A k, l \in DOMAIN v : k # l => v[k].flow # v[l].flow
    <3>1. \A k, l \in DOMAIN w : k # l => w[k].flow # w[l].flow
      BY <1>1 DEF WalkOK
    <3> HIDE DEF t, w
    <3> QED BY <2>5, <2>10, <2>11, <3>1
  <2>14. ASSUME NEW k \in 1 .. Len(v) - 1
         PROVE  linked(v, k) /\ v[k + 1].flow \in after
    <3>1. CASE k = n
      <4>1. v[k] = next[n] /\ v[k + 1].flow = t
        BY <1>2, <2>7, <2>10, <3>1
      <4>2. v[k].at - 1 = top.at /\ v[k].flow = i
        BY <1>2, <1>5, <1>8, <4>1
      <4> QED BY <2>2, <4>1, <4>2
    <3>2. CASE k # n
      <4>1. k \in 1 .. n - 1 /\ k \in 1 .. n /\ k + 1 \in 1 .. n
        BY <1>2, <2>7, <3>2
      <4>2. v[k] = next[k] /\ v[k + 1] = next[k + 1]
        BY <2>7, <4>1
      <4> HIDE DEF t
      <4> QED BY <1>10, <4>1, <4>2
    <3> QED BY <3>1, <3>2
  <2>15. after \in SUBSET Nat
    BY <1>7, <2>4
  <2> HIDE DEF after
  <2>16. WalkOK(flows, v, after)
    BY <2>7, <2>9, <2>10, <2>12, <2>13, <2>14, <2>15 DEF WalkOK
  <2> QED BY <2>1, <2>7, <2>15, <2>16 DEF Walks
<1> QED BY <1>5, <1>6, <1>11, <1>12, <1>13

\* So the walk may go as deep as it wants.
LEMMA DescentOK ==
    ASSUME NEW e, Ready(flows, e), WalkOK(flows, walk, processed)
    PROVE  Descent \in Walks(flows)
<1> DEFINE turns == Cardinality(References(flows, DOMAIN flows))
           first == [walk |-> walk, processed |-> processed]
<1> DEFINE Loop(h) == h = [k \in 0 .. turns |-> IF k = 0 THEN first ELSE Descend(h[k - 1])]
           D == Walks(flows)
           step == [y \in (1 .. turns) \X D |-> Descend(y[2])]
<1>1. turns \in Nat
  BY ReferencesFinite, FS_CardinalityType DEF Ready, GraphOK
<1>2. first \in D
  BY DEF Walks, WalkOK
<1>3. \A k \in 1 .. turns : \A y \in D : Descend(y) \in D
  BY DescendOK
<1> HIDE DEF turns
<1>4. \A k \in 1 .. turns : \A y \in D : step[<<k, y>>] = Descend(y) /\ step[<<k, y>>] \in D
  <2> HIDE DEF D
  <2> QED BY <1>3
<1> HIDE DEF D, step
<1>5. PICK f : LoopIn(f, turns, D, first, step)
  <2>1. \A k \in 1 .. turns : \A y \in D : step[<<k, y>>] \in D
    BY <1>4
  <2> QED BY <1>1, <1>2, <2>1, LoopExists
<1>6. \A k \in 0 .. turns : f[k] = IF k = 0 THEN first ELSE Descend(f[k - 1])
  <2> SUFFICES ASSUME NEW k \in 0 .. turns, k # 0 PROVE f[k] = Descend(f[k - 1])
    BY <1>5 DEF LoopIn
  <2>1. k \in 1 .. turns /\ k - 1 \in 0 .. turns
    BY <1>1
  <2> QED BY <1>4, <1>5, <2>1 DEF LoopIn
<1>7. Loop(f)
  <2>1. f = [k \in 0 .. turns |-> f[k]]
    BY <1>5 DEF LoopIn
  <2> QED BY <1>6, <2>1, Zenon
<1> DEFINE h == CHOOSE g : Loop(g)
<1>8. Loop(h)
  BY <1>7, Zenon
<1> HIDE DEF h
<1>9. h[0] = first /\ \A k \in 1 .. turns : h[k] = Descend(h[k - 1])
  <2>1. \A k \in 0 .. turns : h[k] = IF k = 0 THEN first ELSE Descend(h[k - 1])
    BY <1>8, Zenon
  <2>2. 0 \in 0 .. turns /\ \A k \in 1 .. turns : k \in 0 .. turns /\ k # 0
    BY <1>1
  <2> QED BY <2>1, <2>2
<1>10. h[turns] \in D
  <2>1. h[0] \in D
    BY <1>2, <1>9
  <2>2. \A k \in 1 .. turns : h[k - 1] \in D => h[k] \in D
    BY <1>3, <1>9
  <2> QED BY <1>1, <2>1, <2>2, LoopStays
<1>11. Descent = h[turns]
  BY DEF Descent, h, turns
<1> QED BY <1>10, <1>11 DEF D

(***************************************************************************)
(* The inductive invariant                                                 *)
(***************************************************************************)

\* The uses by the functions made before.
Given0(j) == IF j = 1 /\ Earlier > 0 THEN Earlier ELSE 0

\* While the flows are made all of their references count.
AllCounted(F) ==
  \A j \in DOMAIN F : F[j].uses = Given0(j) + Number(References(F, DOMAIN F), j)

BlockSet == [ kind : {"ret", "br", "cond", "switch", "unreachable"}, ret : Nat,
              to : Seq(2 .. MaxBlocks), lines : BOOLEAN, line : Nat ]

SourceOK(s, known) ==
  /\ DOMAIN s = known /\ known \subseteq Nat \ {0}
  /\ \A b \in DOMAIN s : s[b] \in BlockSet

VisitSet == [flow : Nat, todo : Seq({"next", "if", "case"} \X Nat)]

\* The block whose flow call v of Get_Or_Create_Flow needs.
WantedBy(F, s, v) ==
  IF v.flow = 0 THEN 1
  ELSE LET to == s[F[v.flow].block].to IN to[Len(to) - Len(v.todo) + 1]

\* The parts that call v has yet to set are different ones without target.
VisitOK(F, s, v) ==
  /\ v.flow \in DOMAIN F /\ F[v.flow].block \in DOMAIN s
  /\ Len(v.todo) <= Len(s[F[v.flow].block].to)
  /\ \A k \in DOMAIN v.todo :
       /\ v.todo[k] \in PartSet(F[v.flow]) /\ Target(F[v.flow], v.todo[k]) = 0
       /\ \A l \in DOMAIN v.todo : k # l => v.todo[k] # v.todo[l]

\* Every call was made for the flow that the one before it needs.
VisitsOK(F, s, of, v) ==
  /\ v \in Seq(VisitSet) /\ v # <<>> /\ v[1] = [flow |-> 0, todo |-> << <<"next", 0>> >>]
  /\ \A n \in 2 .. Len(v) :
       /\ VisitOK(F, s, v[n])
       /\ v[n - 1].todo # <<>>
       /\ WantedBy(F, s, v[n - 1]) \in DOMAIN of
       /\ of[WantedBy(F, s, v[n - 1])] = v[n].flow
  /\ \A m, n \in DOMAIN v : m # n => v[m].flow # v[n].flow

\* A flow that is not used yet is being made, or the innermost call needs it.
Reached(F, s, of, v) ==
  \A j \in DOMAIN F : F[j].uses = 0 =>
    \/ \E n \in DOMAIN v : v[n].flow = j
    \/ /\ v[Len(v)].todo # <<>>
       /\ WantedBy(F, s, v[Len(v)]) \in DOMAIN of
       /\ of[WantedBy(F, s, v[Len(v)])] = j

ReturnsOK(F) == \A j \in DOMAIN F : F[j].ret # 0 => F[j].block = 0

Making ==
  /\ SourceOK(src, DOMAIN flowOf)
  /\ AllCounted(flows)
  /\ ReturnsOK(flows)
  /\ VisitsOK(flows, src, flowOf, visits)
  /\ Reached(flows, src, flowOf, visits)
  /\ processed = {}

Placed(F, of) ==
  /\ \A b \in DOMAIN of : of[b] \in DOMAIN F /\ F[of[b]].block = b
  /\ Earlier > 0 => 1 \in DOMAIN F /\ F[1].block = 0

\* The uses that are not references.
Extra(F) == [j \in DOMAIN F |-> Given(j)]

Passing ==
  /\ 1 \in DOMAIN flowOf
  /\ Counted(flows, Extra(flows), {})
  /\ WalkOK(flows, walk, processed)

IInv ==
  /\ pass \in 0 .. LastPass + 1
  /\ GraphOK(flows)
  /\ Placed(flows, flowOf)
  /\ pass = 0 => Making
  /\ pass > 0 => Passing

\* The uses that no flow makes are natural numbers.
LEMMA GivenType ==
    ASSUME NEW j
    PROVE  Given(j) \in Nat /\ Given0(j) \in Nat
BY FlowAssumption DEF Given, Given0

\* In every pass the uses are those that are given and the references.
LEMMA PassingReady ==
    ASSUME IInv, pass > 0
    PROVE  Ready(flows, Extra(flows))
<1>1. Root \in DOMAIN flows /\ flows[Root].block = 1
  BY DEF IInv, Passing, Placed, Root
<1>2. Given(Root) > 0
  BY FlowAssumption DEF Given
<1>3. Extra(flows) \in [DOMAIN flows -> Nat]
  BY GivenType DEF Extra
<1>4. Extra(flows)[Root] > 0
  BY <1>1, <1>2 DEF Extra
<1> QED BY <1>1, <1>3, <1>4 DEF IInv, Passing, Ready

\* The walk of the next pass starts at the entry.
LEMMA WalkStart ==
    ASSUME NEW F, F \in Seq(FlowSet), Root \in Used(F)
    PROVE  WalkOK(F, RootCall, {})
<1>1. Root \in Nat
  <2>1. DOMAIN F = 1 .. Len(F) /\ Root \in DOMAIN F
    BY LenProperties DEF Used
  <2> QED BY <2>1
<1>2. RootCall \in Seq(CallSet) /\ Len(RootCall) = 1 /\ RootCall[1].flow = Root
  BY <1>1 DEF RootCall, CallSet
<1>3. DOMAIN RootCall = {1} /\ RootCall # <<>> /\ 1 .. Len(RootCall) - 1 = {}
  BY <1>2 DEF RootCall
<1>4. \A n \in DOMAIN RootCall : RootCall[n].flow \in Used(F)
  BY <1>2, <1>3
<1>5. \A m, n \in DOMAIN RootCall : m # n => RootCall[m].flow # RootCall[n].flow
  BY <1>3
<1> HIDE DEF RootCall
<1> QED BY <1>2, <1>3, <1>4, <1>5 DEF WalkOK

\* One call of the operation of a pass.
LEMMA PassKept ==
    ASSUME IInv, pass \in 1 .. LastPass,
           Worked(flows, flows', Extra(flows), InWalk(Descent.walk), Last(Descent.walk).flow),
           IF Len(Descent.walk) = 1
           THEN pass' = pass + 1 /\ walk' = RootCall /\ processed' = {}
           ELSE pass' = pass /\ walk' = Front(Descent.walk) /\ processed' = Descent.processed,
           flowOf' = flowOf
    PROVE  IInv'
<1> DEFINE e == Extra(flows)
           w == Descent.walk
           done == Descent.processed
           A == InWalk(w)
           i == Last(w).flow
           G == flows'
<1>1. pass \in Nat /\ pass > 0 /\ pass' \in 0 .. LastPass + 1 /\ pass' > 0 /\ pass' # 0
  BY DEF LastPass
<1>2. Ready(flows, e) /\ WalkOK(flows, walk, processed)
  BY <1>1, PassingReady DEF IInv, Passing
<1>3. WalkOK(flows, w, done)
  BY <1>2, DescentOK DEF Walks
<1>4. Safe(G, e, A, i) /\ Kept(flows, G, A \ {i})
  BY DEF Worked
<1>5. GraphOK(G) /\ Counted(G, e, {}) /\ A \subseteq Used(G)
  BY <1>4 DEF Safe
<1>6. DOMAIN G = DOMAIN flows /\ \A j \in DOMAIN flows : G[j].block = flows[j].block
  BY <1>4 DEF Kept
<1>7. Placed(G, flowOf)
  BY <1>6 DEF IInv, Placed
<1>8. Root' = Root /\ RootCall' = RootCall
  BY DEF Root, RootCall
<1>9. Extra(flows)' = e
  <2>1. \A j : Given(j)' = Given(j)
    BY <1>1, <1>8 DEF Given
  <2> QED BY <1>6, <2>1 DEF Extra
<1>10. WalkOK(G, walk', processed')
  <2>1. CASE Len(w) = 1
    <3>1. Root \in A
      <4>1. w[1].flow = Root /\ 1 \in DOMAIN w
        BY <1>3, WalkType DEF WalkOK
      <4> QED BY <4>1 DEF InWalk
    <3>2. G \in Seq(FlowSet) /\ Root \in Used(G)
      BY <1>5, <3>1 DEF GraphOK
    <3>3. WalkOK(G, RootCall, {})
      BY <3>2, WalkStart
    <3> QED BY <2>1, <3>3
  <2>2. CASE Len(w) # 1
    <3>1. walk' = Front(w) /\ processed' = done
      BY <2>2
    <3> HIDE DEF w, done
    <3>2. WalkOK(G, Front(w), done)
      BY <1>3, <1>4, <1>5, <2>2, WalkBack
    <3> QED BY <3>1, <3>2
  <2> QED BY <2>1, <2>2
<1>11. WalkOK(flows, walk, processed)'
  BY <1>8, <1>10 DEF WalkOK
<1>12. Passing'
  <2>1. 1 \in DOMAIN flowOf
    BY <1>1 DEF IInv, Passing
  <2> QED BY <1>5, <1>9, <1>11, <2>1 DEF Passing
<1> QED BY <1>1, <1>5, <1>7, <1>12 DEF IInv

\* The flow that a pass works on is safe to work on.
LEMMA PassSafe ==
    ASSUME IInv, pass \in 1 .. LastPass
    PROVE  Safe(flows, Extra(flows), InWalk(Descent.walk), Last(Descent.walk).flow)
<1>1. pass > 0
  OBVIOUS
<1>2. Ready(flows, Extra(flows)) /\ WalkOK(flows, walk, processed)
  BY <1>1, PassingReady DEF IInv, Passing
<1>3. WalkOK(flows, Descent.walk, Descent.processed)
  BY <1>2, DescentOK DEF Walks
<1> QED BY <1>2, <1>3, WalkSafe

\* The operation of every pass keeps the inductive invariant.
LEMMA ProcessKeeps ==
    ASSUME IInv, Process
    PROVE  IInv'
<1> DEFINE e == Extra(flows)
           A == InWalk(Descent.walk)
           i == Last(Descent.walk).flow
           moved == IF Len(Descent.walk) = 1
                    THEN pass' = pass + 1 /\ walk' = RootCall /\ processed' = {}
                    ELSE pass' = pass /\ walk' = Front(Descent.walk) /\ processed' = Descent.processed
<1>1. CASE pass = 1
  <2>1. pass = 1 /\ flows' = SimplifyFinalTarget(flows, i) /\ flowOf' = flowOf /\ moved
    BY <1>1 DEF Process, Operation
  <2>2. pass \in 1 .. LastPass
    BY <2>1 DEF LastPass
  <2>3. Worked(flows, SimplifyFinalTarget(flows, i), e, A, i)
    BY <2>2, PassSafe, SimplifyFinalTargetSafe DEF WorkedParts
  <2> QED BY <2>1, <2>2, <2>3, PassKept
<1>2. CASE pass = 2
  <2>1. pass = 2 /\ flows' = SimplifyCases(flows, i) /\ flowOf' = flowOf /\ moved
    BY <1>2 DEF Process, Operation
  <2>2. pass \in 1 .. LastPass
    BY <2>1 DEF LastPass
  <2>3. Worked(flows, SimplifyCases(flows, i), e, A, i)
    BY <2>2, PassSafe, SimplifyCasesSafe
  <2> QED BY <2>1, <2>2, <2>3, PassKept
<1>3. CASE pass = 3
  <2>1. pass = 3 /\ flows' = FactorIf(flows, i) /\ flowOf' = flowOf /\ moved
    BY <1>3 DEF Process, Operation
  <2>2. pass \in 1 .. LastPass
    BY <2>1 DEF LastPass
  <2>3. Worked(flows, FactorIf(flows, i), e, A, i)
    BY <2>2, PassSafe, FactorIfSafe
  <2> QED BY <2>1, <2>2, <2>3, PassKept
<1>4. CASE pass = 4
  <2>1. pass = 4 /\ flows' = FactorCase(flows, i) /\ flowOf' = flowOf /\ moved
    BY <1>4 DEF Process, Operation
  <2>2. pass \in 1 .. LastPass
    BY <2>1 DEF LastPass
  <2>3. Worked(flows, FactorCase(flows, i), e, A, i)
    BY <2>2, PassSafe, FactorCaseSafe
  <2> QED BY <2>1, <2>2, <2>3, PassKept
<1>5. CASE pass = 5
  <2>1. pass = 5 /\ flows' = TryMergeIfs(flows, i) /\ flowOf' = flowOf /\ moved
    BY <1>5 DEF Process, Operation
  <2>2. pass \in 1 .. LastPass
    BY <2>1 DEF LastPass
  <2>3. Worked(flows, TryMergeIfs(flows, i), e, A, i)
    BY <2>2, PassSafe, TryMergeIfsSafe
  <2> QED BY <2>1, <2>2, <2>3, PassKept
<1>6. CASE pass = 6
  <2>1. pass = 6 /\ flows' = RemoveNestedNext(flows, i) /\ flowOf' = flowOf /\ moved
    BY <1>6 DEF Process, Operation
  <2>2. pass \in 1 .. LastPass
    BY <2>1 DEF LastPass
  <2>3. Worked(flows, RemoveNestedNext(flows, i), e, A, i)
    BY <2>2, PassSafe, RemoveNestedNextSafe
  <2> QED BY <2>1, <2>2, <2>3, PassKept
<1>7. pass \in 1 .. 6
  BY DEF Process, LastPass
<1> QED BY <1>1, <1>2, <1>3, <1>4, <1>5, <1>6, <1>7

\* The inductive invariant says that uses are counted.
LEMMA CountedThen ==
    ASSUME IInv
    PROVE  UsesCounted
<1> DEFINE live == {j \in DOMAIN flows : flows[j].uses > 0 \/ pass = 0}
<1>1. pass \in Nat
  BY DEF IInv, LastPass
<1>2. CASE pass = 0
  <2>1. live = DOMAIN flows
    BY <1>2
  <2>2. \A j : Given(j) = Given0(j)
    BY <1>2 DEF Given, Given0
  <2>3. \A j \in DOMAIN flows :
          flows[j].uses = Given0(j) + Cardinality({r \in References(flows, DOMAIN flows) : r[3] = j})
    BY <1>2 DEF IInv, Making, AllCounted, Number
  <2>4. \A j \in live :
          flows[j].uses = Given(j) + Cardinality({r \in References(flows, live) : r[3] = j})
    BY <2>1, <2>2, <2>3
  <2> QED BY <2>4 DEF UsesCounted
<1>3. CASE pass # 0
  <2>1. live = Used(flows)
    BY <1>3 DEF Used
  <2>2. Counted(flows, Extra(flows), {})
    BY <1>1, <1>3 DEF IInv, Passing
  <2>3. References(flows, Used(flows)) \ {} = References(flows, Used(flows))
    OBVIOUS
  <2>4. \A j \in DOMAIN flows :
          flows[j].uses = Given(j) + Cardinality({r \in References(flows, Used(flows)) : r[3] = j})
    BY <2>2, <2>3 DEF Counted, Extra, Number
  <2>5. \A j \in live :
          flows[j].uses = Given(j) + Cardinality({r \in References(flows, live) : r[3] = j})
    BY <2>1, <2>4
  <2> QED BY <2>5 DEF UsesCounted
<1> QED BY <1>2, <1>3

(***************************************************************************)
(* Making the flows                                                        *)
(***************************************************************************)

\* G is F with another target in a part of flow i, and one use more of the target.
Linked(F, G, i, part, t) ==
  /\ GraphOK(G) /\ AllCounted(G) /\ DOMAIN G = DOMAIN F
  /\ \A j \in DOMAIN F :
       /\ G[j].block = F[j].block /\ G[j].ret = F[j].ret
       /\ G[j].uses = F[j].uses + IF j = t THEN 1 ELSE 0
       /\ PartSet(G[j]) = PartSet(F[j])
       /\ \A p \in PartSet(F[j]) :
            Target(G[j], p) = IF j = i /\ p = part THEN t ELSE Target(F[j], p)

\* One use more of flow t.
LEMMA OneMore ==
    ASSUME NEW F \in Seq(FlowSet), NEW t \in DOMAIN F
    PROVE  /\ AddUse(F, t) \in Seq(FlowSet) /\ DOMAIN AddUse(F, t) = DOMAIN F
           /\ \A j \in DOMAIN F :
                /\ AddUse(F, t)[j].block = F[j].block /\ AddUse(F, t)[j].ret = F[j].ret
                /\ AddUse(F, t)[j].uses = F[j].uses + IF j = t THEN 1 ELSE 0
                /\ PartSet(AddUse(F, t)[j]) = PartSet(F[j])
                /\ \A p : Target(AddUse(F, t)[j], p) = Target(F[j], p)
           /\ \A B : B \subseteq DOMAIN F => References(AddUse(F, t), B) = References(F, B)
<1> DEFINE G == AddUse(F, t)
<1>1. t # 0 /\ \A j \in DOMAIN F : F[j] \in FlowSet /\ F[j].uses \in Nat
  <2>1. DOMAIN F = 1 .. Len(F)
    BY LenProperties
  <2> QED BY <2>1, UsedFinite
<1>2. PICK n \in Nat : n = F[t].uses + 1
  BY <1>1
<1>3. G = [F EXCEPT ![t].uses = n]
  BY <1>1, <1>2 DEF AddUse
<1>4. Recounted(F, G, [j \in DOMAIN F |-> IF j = t THEN n ELSE F[j].uses])
  <2>1. Recounted(F, [F EXCEPT ![t].uses = n], [j \in DOMAIN F |-> IF j = t THEN n ELSE F[j].uses])
    BY RecountOne
  <2> QED BY <1>3, <2>1
<1>5. \A j \in DOMAIN F : G[j].ret = F[j].ret
  BY <1>3
<1> HIDE DEF G
<1>6. G \in Seq(FlowSet) /\ Kept(F, G, DOMAIN F)
      /\ \A j \in DOMAIN F : G[j].uses = IF j = t THEN n ELSE F[j].uses
  BY <1>4 DEF Recounted
<1>7. ASSUME NEW j \in DOMAIN F PROVE G[j].uses = F[j].uses + IF j = t THEN 1 ELSE 0
  <2>1. PICK m \in Nat : m = F[j].uses
    BY <1>1
  <2> QED BY <1>2, <1>6, <2>1
<1>8. \A j \in DOMAIN F : SameParts(F[j], G[j])
  BY <1>6 DEF Kept
<1>9. \A j \in DOMAIN F : /\ PartSet(G[j]) = PartSet(F[j])
                          /\ \A p : Target(G[j], p) = Target(F[j], p)
  BY <1>8, SamePart
<1>10. \A B : B \subseteq DOMAIN F => References(G, B) = References(F, B)
  BY <1>6, KeptReferences
<1>11. DOMAIN G = DOMAIN F /\ \A j \in DOMAIN F : G[j].block = F[j].block
  BY <1>6 DEF Kept
<1> QED BY <1>5, <1>6, <1>7, <1>9, <1>10, <1>11 DEF G

\* A part without target gets one.
LEMMA LinkCounted ==
    ASSUME NEW F, GraphOK(F), AllCounted(F), NEW i \in DOMAIN F, NEW part \in PartSet(F[i]),
           Target(F[i], part) = 0, NEW t \in DOMAIN F, F[t].block # 1
    PROVE  Linked(F, SetTarget(F, i, part, t), i, part, t)
<1> DEFINE G == SetTarget(F, i, part, t)
           F1 == AddUse(F, t)
           all == References(F, DOMAIN F)
           x == <<i, part, 0>>
           y == <<i, part, t>>
           R == all \ {x}
<1>1. F \in Seq(FlowSet) /\ DOMAIN F = 1 .. Len(F) /\ 0 \notin DOMAIN F /\ t # 0 /\ t \in Nat
      /\ IsFiniteSet(all) /\ \A j \in DOMAIN F : F[j] \in FlowSet /\ F[j].uses \in Nat
  <2>1. F \in Seq(FlowSet)
    BY DEF GraphOK
  <2>2. DOMAIN F = 1 .. Len(F) /\ Len(F) \in Nat
    BY <2>1, LenProperties
  <2> QED BY <2>1, <2>2, UsedFinite
<1>2. /\ F1 \in Seq(FlowSet) /\ DOMAIN F1 = DOMAIN F
      /\ \A j \in DOMAIN F :
           /\ F1[j].block = F[j].block /\ F1[j].ret = F[j].ret
           /\ F1[j].uses = F[j].uses + IF j = t THEN 1 ELSE 0
           /\ PartSet(F1[j]) = PartSet(F[j])
           /\ \A p : Target(F1[j], p) = Target(F[j], p)
  BY <1>1, OneMore
<1>3. Retargeted(F1, G, i, part, t)
  <2>1. Moved(F, 0, t) = F1
    BY DEF Moved, RemoveUse
  <2>2. G = CASE part[1] = "next" -> [F1 EXCEPT ![i].next = t]
              [] part[1] = "if"   -> [F1 EXCEPT ![i].ifs[part[2]].target = t]
              [] part[1] = "case" -> [F1 EXCEPT ![i].cases[part[2]].target = t]
    BY <2>1 DEF SetTarget
  <2>3. part \in PartSet(F1[i]) /\ i \in DOMAIN F1
    BY <1>2
  <2> HIDE DEF F1, G
  <2> QED BY <1>1, <1>2, <2>2, <2>3, RetargetedIs
<1> HIDE DEF F1, G
<1>4. G \in Seq(FlowSet) /\ DOMAIN G = DOMAIN F
  BY <1>2, <1>3 DEF Retargeted
<1>5. ASSUME NEW j \in DOMAIN F
      PROVE  /\ G[j].block = F[j].block /\ G[j].ret = F[j].ret
             /\ G[j].uses = F[j].uses + IF j = t THEN 1 ELSE 0
             /\ PartSet(G[j]) = PartSet(F[j])
             /\ \A p \in PartSet(F[j]) :
                  Target(G[j], p) = IF j = i /\ p = part THEN t ELSE Target(F[j], p)
  <2>1. CASE j = i
    <3>1. /\ G[j].block = F1[j].block /\ G[j].ret = F1[j].ret /\ G[j].uses = F1[j].uses
          /\ PartSet(G[j]) = PartSet(F1[j])
          /\ \A p \in PartSet(F1[j]) : Target(G[j], p) = IF p = part THEN t ELSE Target(F1[j], p)
      BY <1>3, <2>1 DEF Retargeted
    <3> QED BY <1>2, <2>1, <3>1
  <2>2. CASE j # i
    <3>1. G[j] = F1[j]
      BY <1>2, <1>3, <2>2 DEF Retargeted
    <3> QED BY <1>2, <2>2, <3>1
  <2> QED BY <2>1, <2>2
<1>6. References(G, DOMAIN F) = R \cup {y}
  <2>1. ASSUME NEW r \in References(G, DOMAIN F) PROVE r \in R \cup {y}
    <3>1. PICK j \in DOMAIN F : \E p \in PartSet(G[j]) : r = <<j, p, Target(G[j], p)>>
      BY ReferenceIs
    <3>2. PICK p \in PartSet(F[j]) : r = <<j, p, Target(G[j], p)>>
      BY <1>5, <3>1
    <3>3. CASE j = i /\ p = part
      BY <1>5, <3>2, <3>3
    <3>4. CASE ~(j = i /\ p = part)
      <4>1. r = <<j, p, Target(F[j], p)>> /\ r # x
        BY <1>5, <3>2, <3>4
      <4> QED BY <4>1, ReferenceIs
    <3> QED BY <3>3, <3>4
  <2>2. ASSUME NEW r \in R PROVE r \in References(G, DOMAIN F)
    <3>1. PICK j \in DOMAIN F : \E p \in PartSet(F[j]) : r = <<j, p, Target(F[j], p)>>
      BY ReferenceIs
    <3>2. PICK p \in PartSet(F[j]) : r = <<j, p, Target(F[j], p)>>
      BY <3>1
    <3>3. ~(j = i /\ p = part)
      BY <3>2
    <3>4. r = <<j, p, Target(G[j], p)>> /\ p \in PartSet(G[j])
      BY <1>5, <3>2, <3>3
    <3> QED BY <3>4, ReferenceIs
  <2>3. y \in References(G, DOMAIN F)
    <3>1. part \in PartSet(G[i]) /\ Target(G[i], part) = t
      BY <1>5
    <3> QED BY <3>1, ReferenceIs
  <2> QED BY <2>1, <2>2, <2>3
<1>7. x \in all /\ y \notin R /\ IsFiniteSet(R)
  <2>1. x \in all
    BY IsReference
  <2>2. ASSUME y \in R PROVE FALSE
    <3>1. y[3] = Target(F[y[1]], y[2])
      BY <2>2, ReferenceParts
    <3> QED BY <1>1, <3>1
  <2> QED BY <1>1, <2>1, <2>2, FS_Difference
<1>8. AllCounted(G)
  <2> SUFFICES ASSUME NEW j \in DOMAIN F
               PROVE  G[j].uses = Given0(j) + Number(R \cup {y}, j)
    BY <1>4, <1>6 DEF AllCounted
  <2>1. F[j].uses = Given0(j) + Number(all, j)
    BY DEF AllCounted
  <2>2. x[3] = 0 /\ y[3] = t /\ j # 0
    BY <1>1
  <2> HIDE DEF all, x, y
  <2>3. PICK a \in Nat : a = Number(R, j)
    BY <1>7, NumberType
  <2>4. PICK b \in Nat : b = Given0(j)
    BY GivenType
  <2>5. Number(all, j) = Number(R, j) + IF x[3] = j THEN 1 ELSE 0
    BY <1>1, <1>7, NumberRemove
  <2> HIDE DEF R
  <2>6. Number(R \cup {y}, j) = Number(R, j) + IF y[3] = j THEN 1 ELSE 0
    BY <1>7, NumberAdd
  <2>7. F[j].uses = b + a
    BY <2>1, <2>2, <2>3, <2>4, <2>5
  <2>8. G[j].uses = b + a + IF j = t THEN 1 ELSE 0
    BY <1>5, <2>7
  <2> QED BY <2>2, <2>3, <2>4, <2>6, <2>8
<1>9. GraphOK(G)
  <2> SUFFICES ASSUME NEW r \in R \cup {y}, r[3] # 0
               PROVE  r[3] \in DOMAIN F /\ G[r[3]].block # 1
    BY <1>4, <1>6 DEF GraphOK
  <2>1. r[3] \in DOMAIN F /\ F[r[3]].block # 1
    <3>1. CASE r \in all
      BY <3>1 DEF GraphOK
    <3>2. CASE r = y
      BY <3>2
    <3> QED BY <3>1, <3>2
  <2> QED BY <1>5, <2>1
<1>10. Linked(F, G, i, part, t)
  BY <1>4, <1>5, <1>8, <1>9 DEF Linked
<1> QED BY <1>10 DEF G

\* G is F with one flow more, which neither uses a flow nor is used.
Grown(F, G, flow) ==
  /\ GraphOK(G) /\ AllCounted(G) /\ Len(G) = Len(F) + 1 /\ DOMAIN G = DOMAIN F \cup {Len(F) + 1}
  /\ Len(F) + 1 \notin DOMAIN F /\ G[Len(F) + 1] = flow
  /\ \A j \in DOMAIN F : G[j] = F[j]

\* A new flow without targets and uses leaves the counts right.
LEMMA AppendCounted ==
    ASSUME NEW F, GraphOK(F), AllCounted(F), Earlier > 0 => 1 \in DOMAIN F,
           NEW flow \in FlowSet, flow.uses = 0, \A p \in PartSet(flow) : Target(flow, p) = 0
    PROVE  Grown(F, Append(F, flow), flow)
<1> DEFINE G == Append(F, flow)
<1>1. PICK n \in Nat : n = Len(F)
  BY LenProperties DEF GraphOK
<1>2. F \in Seq(FlowSet) /\ DOMAIN F = 1 .. n
  BY <1>1, LenProperties DEF GraphOK
<1>3. /\ G \in Seq(FlowSet) /\ Len(G) = n + 1 /\ G[n + 1] = flow
      /\ \A j \in 1 .. n : G[j] = F[j]
  BY <1>1, <1>2, AppendProperties
<1>4. DOMAIN G = DOMAIN F \cup {n + 1} /\ n + 1 \notin DOMAIN F /\ 0 \notin DOMAIN F
  <2>1. DOMAIN G = 1 .. n + 1
    BY <1>3, LenProperties
  <2> QED BY <1>2, <2>1
<1> HIDE DEF G
<1>5. References(G, DOMAIN G) = References(F, DOMAIN F) \cup References(G, {n + 1})
  <2>1. References(G, DOMAIN G) = References(G, DOMAIN F) \cup References(G, {n + 1})
    BY <1>4, ReferencesSplit
  <2>2. \A j \in DOMAIN F : SameParts(F[j], G[j])
    BY <1>2, <1>3 DEF SameParts
  <2>3. References(G, DOMAIN F) = References(F, DOMAIN F)
    BY <2>2, ReferencesSame
  <2> QED BY <2>1, <2>3
<1>6. ASSUME NEW r \in References(G, {n + 1}) PROVE r[3] = 0
  <2>1. r[1] \in {n + 1} /\ r[2] \in PartSet(G[r[1]]) /\ r[3] = Target(G[r[1]], r[2])
    BY ReferenceParts
  <2> QED BY <1>3, <2>1
<1>7. GraphOK(G)
  <2> SUFFICES ASSUME NEW r \in References(G, DOMAIN G), r[3] # 0
               PROVE  r[3] \in DOMAIN G /\ G[r[3]].block # 1
    BY <1>3 DEF GraphOK
  <2>1. r \in References(F, DOMAIN F)
    BY <1>5, <1>6
  <2>2. r[3] \in DOMAIN F /\ F[r[3]].block # 1
    BY <2>1 DEF GraphOK
  <2> QED BY <1>2, <1>3, <1>4, <2>2
<1>8. ASSUME NEW j \in DOMAIN G PROVE G[j].uses = Given0(j) + Number(References(G, DOMAIN G), j)
  <2>1. j # 0
    BY <1>4
  <2>2. {r \in References(G, DOMAIN G) : r[3] = j} = {r \in References(F, DOMAIN F) : r[3] = j}
    BY <1>5, <1>6, <2>1
  <2>3. Number(References(G, DOMAIN G), j) = Number(References(F, DOMAIN F), j)
    BY <2>2 DEF Number
  <2>4. CASE j \in DOMAIN F
    BY <1>2, <1>3, <2>3, <2>4 DEF AllCounted
  <2>5. CASE j = n + 1
    <3>1. \A r \in References(F, DOMAIN F) : r[3] # j
      BY <1>4, <2>1, <2>5 DEF GraphOK
    <3>2. {r \in References(F, DOMAIN F) : r[3] = j} = {}
      BY <3>1
    <3>3. Number(References(F, DOMAIN F), j) = 0
      BY <3>2, FS_EmptySet DEF Number
    <3>4. Given0(j) = 0
      BY <1>4, <2>5, FlowAssumption DEF Given0
    <3> QED BY <1>3, <2>3, <2>5, <3>3, <3>4
  <2> QED BY <1>4, <2>4, <2>5
<1>9. Grown(F, G, flow)
  BY <1>1, <1>2, <1>3, <1>4, <1>7, <1>8 DEF Grown, AllCounted
<1> QED BY <1>9 DEF G

\* The line of a case is another.
LEMMA LineKept ==
    ASSUME NEW F, GraphOK(F), AllCounted(F), NEW i \in DOMAIN F,
           NEW k, <<"case", k>> \in PartSet(F[i]), NEW line \in Nat
    PROVE  LET G == [F EXCEPT ![i].cases[k].line = line]
           IN  /\ GraphOK(G) /\ AllCounted(G) /\ DOMAIN G = DOMAIN F
               /\ \A j \in DOMAIN F :
                    /\ G[j].block = F[j].block /\ G[j].ret = F[j].ret /\ G[j].uses = F[j].uses
                    /\ PartSet(G[j]) = PartSet(F[j])
                    /\ \A p \in PartSet(F[j]) : Target(G[j], p) = Target(F[j], p)
<1> DEFINE cases == [F[i].cases EXCEPT ![k].line = line]
           new == [F[i] EXCEPT !.cases = cases]
           G == [F EXCEPT ![i].cases[k].line = line]
<1>1. F \in Seq(FlowSet) /\ F[i] \in FlowSet
  BY UsedFinite DEF GraphOK
<1>2. k \in DOMAIN F[i].cases /\ \A l \in DOMAIN F[i].cases : F[i].cases[l] \in CaseSet
  <2>1. DOMAIN F[i].cases = 1 .. Len(F[i].cases)
    BY <1>1, FlowParts
  <2> QED BY <1>1, <2>1, CasePart, FlowParts
<1>3. cases \in [DOMAIN F[i].cases -> CaseSet]
  <2>1. [F[i].cases[k] EXCEPT !.line = line] \in CaseSet
    BY <1>2 DEF CaseSet
  <2> QED BY <1>2, <2>1
<1>4. \A l \in DOMAIN F[i].cases : cases[l].target = F[i].cases[l].target
  BY <1>2 DEF CaseSet
<1>5. G = [F EXCEPT ![i] = new] /\ new.ret = F[i].ret
  BY <1>1 DEF FlowSet
<1> HIDE DEF cases
<1>6. /\ new \in FlowSet /\ new.uses = F[i].uses /\ new.block = F[i].block
      /\ PartSet(new) = PartSet(F[i])
      /\ \A p \in PartSet(F[i]) :
           Target(new, p) = IF p[1] = "case" THEN cases[p[2]].target ELSE Target(F[i], p)
  BY <1>1, <1>3, OtherCases
<1> HIDE DEF new, G
<1>7. ASSUME NEW p \in PartSet(F[i]) PROVE Target(new, p) = Target(F[i], p)
  <2>1. CASE p[1] = "case"
    <3>1. p[2] \in DOMAIN F[i].cases /\ Target(F[i], p) = F[i].cases[p[2]].target
      <4>1. PartSet(F[i]) = {<<"next", 0>>} \cup {<<"if", l>> : l \in DOMAIN F[i].ifs}
                                            \cup {<<"case", l>> : l \in DOMAIN F[i].cases}
        BY <1>1, PartsAre
      <4>2. PICK l \in DOMAIN F[i].cases : p = <<"case", l>>
        BY <2>1, <4>1
      <4> QED BY <4>2 DEF Target
    <3> QED BY <1>4, <1>6, <2>1, <3>1
  <2>2. CASE p[1] # "case"
    BY <1>6, <2>2
  <2> QED BY <2>1, <2>2
<1>8. G \in Seq(FlowSet) /\ DOMAIN G = DOMAIN F /\ G[i] = new /\ \A j \in DOMAIN F : j # i => G[j] = F[j]
  <2>1. new \in FlowSet
    BY <1>6
  <2> QED BY <1>1, <1>5, <2>1, ChangeOne
<1>9. ASSUME NEW j \in DOMAIN F
      PROVE  /\ G[j].block = F[j].block /\ G[j].ret = F[j].ret /\ G[j].uses = F[j].uses
             /\ PartSet(G[j]) = PartSet(F[j])
             /\ \A p \in PartSet(F[j]) : Target(G[j], p) = Target(F[j], p)
  BY <1>5, <1>6, <1>7, <1>8
<1>10. References(G, DOMAIN F) = References(F, DOMAIN F)
  <2>1. ASSUME NEW r PROVE r \in References(G, DOMAIN F) <=> r \in References(F, DOMAIN F)
    <3>1. r \in References(G, DOMAIN F) <=>
            \E j \in DOMAIN F : \E p \in PartSet(G[j]) : r = <<j, p, Target(G[j], p)>>
      BY ReferenceIs
    <3>2. r \in References(F, DOMAIN F) <=>
            \E j \in DOMAIN F : \E p \in PartSet(F[j]) : r = <<j, p, Target(F[j], p)>>
      BY ReferenceIs
    <3> QED BY <1>9, <3>1, <3>2
  <2> QED BY <2>1
<1>11. AllCounted(G)
  BY <1>8, <1>9, <1>10 DEF AllCounted
<1>12. GraphOK(G)
  BY <1>8, <1>9, <1>10 DEF GraphOK
<1> QED BY <1>8, <1>9, <1>11, <1>12 DEF G

\* The types while the graph is made.
LEMMA MakingIs ==
    ASSUME IInv, pass = 0
    PROVE  \E n \in Nat \ {0} :
             /\ n = Len(visits) /\ DOMAIN visits = 1 .. n /\ Visiting = visits[n]
             /\ visits[n] = [flow |-> visits[n].flow, todo |-> visits[n].todo]
             /\ \A m \in 1 .. n : visits[m] \in VisitSet
             /\ visits[1].flow = 0 /\ Len(visits[1].todo) = 1
             /\ \A m \in 2 .. n : visits[m].flow \in DOMAIN flows
             /\ \A m \in 1 .. n : visits[m].flow = 0 => m = 1
             /\ 0 \notin DOMAIN flows
             /\ Wanted = WantedBy(flows, src, visits[n])
<1>1. VisitsOK(flows, src, flowOf, visits) /\ GraphOK(flows)
  BY DEF IInv, Making
<1>2. visits \in Seq(VisitSet) /\ visits # <<>>
      /\ visits[1] = [flow |-> 0, todo |-> << <<"next", 0>> >>]
  BY <1>1 DEF VisitsOK
<1>3. PICK n \in Nat \ {0} : n = Len(visits) /\ DOMAIN visits = 1 .. n
  BY <1>2, LenProperties, EmptySeq
<1>4. \A m \in 1 .. n : visits[m] \in VisitSet
  BY <1>2, <1>3, ElementOfSeq
<1>5. \A m \in 2 .. n : visits[m].flow \in DOMAIN flows
  BY <1>1, <1>3 DEF VisitsOK, VisitOK
<1>6. 0 \notin DOMAIN flows
  <2>1. DOMAIN flows = 1 .. Len(flows) /\ Len(flows) \in Nat
    BY <1>1, LenProperties DEF GraphOK
  <2> QED BY <2>1
<1>7. Visiting = visits[n] /\ Wanted = WantedBy(flows, src, visits[n])
  BY <1>3 DEF Visiting, Wanted, WantedBy
<1>8. ASSUME NEW m \in 1 .. n, visits[m].flow = 0 PROVE m = 1
  <2>1. m \notin 2 .. n
    BY <1>5, <1>6, <1>8
  <2> QED BY <2>1
<1>9. visits[n] = [flow |-> visits[n].flow, todo |-> visits[n].todo]
  <2>1. visits[n] \in VisitSet
    BY <1>4
  <2> QED BY <2>1 DEF VisitSet
<1>10. visits[1].flow = 0 /\ Len(visits[1].todo) = 1
  BY <1>2
<1> QED BY <1>3, <1>4, <1>5, <1>6, <1>7, <1>8, <1>9, <1>10

\* Setting the root's use when all flows are made keeps the invariant.
LEMMA StartPassesKeeps ==
    ASSUME IInv, StartPasses
    PROVE  IInv'
<1> DEFINE G == flows'
<1>1. /\ pass = 0 /\ pass' = 1 /\ flowOf' = flowOf /\ processed' = processed
      /\ Visiting.flow = 0 /\ 1 \in DOMAIN flowOf
      /\ G = AddUse(flows, Root) /\ walk' = RootCall
  BY DEF StartPasses
<1>2. PICK n \in Nat \ {0} :
        /\ n = Len(visits) /\ DOMAIN visits = 1 .. n /\ Visiting = visits[n]
        /\ visits[1].flow = 0
        /\ \A m \in 1 .. n : visits[m].flow = 0 => m = 1
        /\ 0 \notin DOMAIN flows
  BY <1>1, MakingIs
<1>3. n = 1
  BY <1>1, <1>2
<1>4. Root \in DOMAIN flows /\ flows[Root].block = 1 /\ (Earlier > 0 => flows[1].block = 0)
  BY <1>1 DEF IInv, Placed, Root
<1>5. flows \in Seq(FlowSet) /\ \A j \in DOMAIN flows : flows[j].uses \in Nat
  <2>1. flows \in Seq(FlowSet)
    BY DEF IInv, GraphOK
  <2> QED BY <2>1, UsedFinite
<1>6. \A j \in DOMAIN flows : flows[j].uses > 0 \/ j = Root
  <2> SUFFICES ASSUME NEW j \in DOMAIN flows, flows[j].uses = 0 PROVE j = Root
    BY <1>5
  <2>1. \/ \E m \in DOMAIN visits : visits[m].flow = j
        \/ flowOf[WantedBy(flows, src, visits[Len(visits)])] = j
    BY <1>1 DEF IInv, Making, Reached
  <2>2. \A m \in DOMAIN visits : visits[m].flow # j
    BY <1>2, <1>3
  <2>3. WantedBy(flows, src, visits[Len(visits)]) = 1
    BY <1>2, <1>3 DEF WantedBy
  <2> QED BY <2>1, <2>2, <2>3 DEF Root
<1>7. /\ G \in Seq(FlowSet) /\ DOMAIN G = DOMAIN flows
      /\ \A j \in DOMAIN flows : /\ G[j].block = flows[j].block
                                 /\ G[j].uses = flows[j].uses + IF j = Root THEN 1 ELSE 0
      /\ References(G, DOMAIN flows) = References(flows, DOMAIN flows)
  <2>1. /\ AddUse(flows, Root) \in Seq(FlowSet) /\ DOMAIN AddUse(flows, Root) = DOMAIN flows
        /\ \A j \in DOMAIN flows :
             /\ AddUse(flows, Root)[j].block = flows[j].block
             /\ AddUse(flows, Root)[j].uses = flows[j].uses + IF j = Root THEN 1 ELSE 0
        /\ References(AddUse(flows, Root), DOMAIN flows) = References(flows, DOMAIN flows)
    BY <1>4, <1>5, OneMore
  <2> QED BY <1>1, <2>1
<1> HIDE DEF G
<1>8. Used(G) = DOMAIN G
  <2>1. ASSUME NEW j \in DOMAIN flows PROVE G[j].uses > 0
    <3>1. PICK a \in Nat : a = flows[j].uses
      BY <1>5
    <3> QED BY <1>6, <1>7, <3>1
  <2> QED BY <1>7, <2>1 DEF Used
<1>9. GraphOK(G)
  <2>1. \A r \in References(G, DOMAIN G) : r[3] # 0 => r[3] \in DOMAIN G /\ G[r[3]].block # 1
    BY <1>7 DEF IInv, GraphOK
  <2> QED BY <1>7, <2>1 DEF GraphOK
<1>10. Root' = Root /\ RootCall' = RootCall
  BY <1>1 DEF Root, RootCall
<1>11. Counted(G, Extra(flows)', {})
  <2> SUFFICES ASSUME NEW j \in DOMAIN flows
               PROVE  G[j].uses = Extra(flows)'[j] + Number(References(G, Used(G)) \ {}, j)
    BY <1>7 DEF Counted
  <2>1. References(G, Used(G)) \ {} = References(flows, DOMAIN flows)
    BY <1>7, <1>8
  <2>2. flows[j].uses = Given0(j) + Number(References(flows, DOMAIN flows), j)
    BY <1>1 DEF IInv, Making, AllCounted
  <2>3. Extra(flows)'[j] = Given(j)'
    BY <1>7 DEF Extra, G
  <2>4. Given(j)' = IF j = 1 /\ Earlier > 0 THEN Earlier ELSE IF j = Root THEN 1 ELSE 0
    BY <1>1, <1>10 DEF Given
  <2>5. Given(j)' = Given0(j) + IF j = Root THEN 1 ELSE 0
    BY <1>4, <2>4, FlowAssumption DEF Given0
  <2>6. PICK a \in Nat : a = Number(References(flows, DOMAIN flows), j)
    <3>1. IsFiniteSet(References(flows, DOMAIN flows))
      BY <1>5, UsedFinite
    <3> QED BY <3>1, NumberType
  <2>7. PICK b \in Nat : b = Given0(j)
    BY GivenType
  <2> QED BY <1>7, <2>1, <2>2, <2>3, <2>5, <2>6, <2>7
<1>12. WalkOK(flows, walk, processed)'
  <2>1. Root \in Used(G)
    BY <1>4, <1>7, <1>8
  <2>2. WalkOK(G, RootCall, {})
    BY <1>7, <2>1, WalkStart
  <2>3. processed' = {}
    BY <1>1 DEF IInv, Making
  <2>4. WalkOK(flows', walk', processed')
    BY <1>1, <2>2, <2>3 DEF G
  <2> QED BY <1>10, <2>4 DEF WalkOK
<1>13. Placed(G, flowOf)
  BY <1>7 DEF IInv, Placed
<1>14. Passing'
  BY <1>1, <1>11, <1>12 DEF Passing, G
<1>15. GraphOK(flows)' /\ Placed(flows, flowOf)'
  BY <1>1, <1>9, <1>13 DEF G
<1>16. pass' \in 0 .. LastPass + 1 /\ pass' # 0 /\ LastPass' = LastPass
  BY <1>1 DEF LastPass
<1> QED BY <1>14, <1>15, <1>16 DEF IInv

\* So does a return from a call of Get_Or_Create_Flow.
LEMMA ReturnFromVisitKeeps ==
    ASSUME IInv, ReturnFromVisit
    PROVE  IInv'
<1> DEFINE v == Front(visits)
<1>1. /\ pass = 0 /\ pass' = 0 /\ flowOf' = flowOf /\ processed' = processed
      /\ src' = src /\ flows' = flows /\ visits' = v /\ Visiting.todo = <<>>
  BY DEF ReturnFromVisit
<1>2. PICK n \in Nat \ {0} :
        /\ n = Len(visits) /\ DOMAIN visits = 1 .. n /\ Visiting = visits[n]
        /\ Len(visits[1].todo) = 1
  BY <1>1, MakingIs
<1>3. n # 1
  <2>1. Len(<<>>) = 0
    BY EmptySeq
  <2> QED BY <1>1, <1>2, <2>1
<1>4. VisitsOK(flows, src, flowOf, visits) /\ Reached(flows, src, flowOf, visits)
  BY <1>1 DEF IInv, Making
<1>5. visits \in Seq(VisitSet) /\ visits # <<>>
  BY <1>4 DEF VisitsOK
<1>6. v \in Seq(VisitSet) /\ DOMAIN v = 1 .. n - 1 /\ \A m \in 1 .. n - 1 : v[m] = visits[m]
  <2>1. /\ v \in Seq(VisitSet) /\ DOMAIN v = DOMAIN visits \ {Len(visits)}
        /\ \A k \in DOMAIN v : v[k] = visits[k]
    BY <1>5, FrontIs
  <2> HIDE DEF v
  <2>2. DOMAIN v = 1 .. n - 1
    BY <1>2, <2>1
  <2> QED BY <2>1, <2>2
<1> HIDE DEF v
<1>7. Len(v) = n - 1 /\ v # <<>>
  <2>1. DOMAIN v = 1 .. Len(v) /\ Len(v) \in Nat
    BY <1>6, LenProperties
  <2>2. n - 1 \in DOMAIN v
    BY <1>3, <1>6
  <2>3. Len(v) = n - 1
    BY <1>6, <2>1, <2>2
  <2> QED BY <2>2, <2>3, EmptySeq
<1>8. VisitsOK(flows, src, flowOf, v)
  <2>1. v[1] = visits[1]
    BY <1>3, <1>6
  <2>2. ASSUME NEW m \in 2 .. Len(v)
        PROVE  /\ VisitOK(flows, src, v[m])
               /\ v[m - 1].todo # <<>>
               /\ WantedBy(flows, src, v[m - 1]) \in DOMAIN flowOf
               /\ flowOf[WantedBy(flows, src, v[m - 1])] = v[m].flow
    <3>1. m \in 2 .. Len(visits) /\ v[m] = visits[m] /\ v[m - 1] = visits[m - 1]
      BY <1>2, <1>6, <1>7
    <3> QED BY <1>4, <3>1 DEF VisitsOK
  <2>3. \A m, k \in DOMAIN v : m # k => v[m].flow # v[k].flow
    <3>1. DOMAIN v \subseteq DOMAIN visits
      BY <1>2, <1>6
    <3> QED BY <1>4, <1>6, <3>1 DEF VisitsOK
  <2> QED BY <1>4, <1>6, <1>7, <2>1, <2>2, <2>3 DEF VisitsOK
<1>9. Reached(flows, src, flowOf, v)
  <2> SUFFICES ASSUME NEW j \in DOMAIN flows, flows[j].uses = 0
               PROVE  \/ \E m \in DOMAIN v : v[m].flow = j
                      \/ /\ v[Len(v)].todo # <<>>
                         /\ WantedBy(flows, src, v[Len(v)]) \in DOMAIN flowOf
                         /\ flowOf[WantedBy(flows, src, v[Len(v)])] = j
    BY DEF Reached
  <2>1. PICK m \in DOMAIN visits : visits[m].flow = j
    BY <1>1, <1>2, <1>4 DEF Reached
  <2>2. CASE m = n
    <3>1. n \in 2 .. Len(visits)
      BY <1>2, <1>3
    <3>2. /\ visits[n - 1].todo # <<>>
          /\ WantedBy(flows, src, visits[n - 1]) \in DOMAIN flowOf
          /\ flowOf[WantedBy(flows, src, visits[n - 1])] = visits[n].flow
      BY <1>4, <3>1 DEF VisitsOK
    <3>3. v[Len(v)] = visits[n - 1]
      BY <1>3, <1>6, <1>7
    <3> QED BY <2>1, <2>2, <3>2, <3>3
  <2>3. CASE m # n
    <3>1. m \in DOMAIN v /\ v[m] = visits[m]
      BY <1>2, <1>6, <2>3
    <3> QED BY <2>1, <3>1
  <2> QED BY <2>2, <2>3
<1>10. Making'
  BY <1>1, <1>8, <1>9 DEF IInv, Making
<1>11. GraphOK(flows)' /\ Placed(flows, flowOf)'
  BY <1>1 DEF IInv
<1> QED BY <1>1, <1>10, <1>11 DEF IInv, LastPass

\* The block that is needed next.
LEMMA WantedIs ==
    ASSUME IInv, pass = 0, Visiting.todo # <<>>
    PROVE  /\ Wanted \in Nat \ {0}
           /\ Visiting.flow # 0 => Wanted \in 2 .. MaxBlocks
<1>1. PICK n \in Nat \ {0} :
        /\ n = Len(visits) /\ DOMAIN visits = 1 .. n /\ Visiting = visits[n]
        /\ \A m \in 1 .. n : visits[m] \in VisitSet
        /\ visits[1].flow = 0
        /\ Wanted = WantedBy(flows, src, visits[n])
  BY MakingIs
<1>2. CASE Visiting.flow = 0
  BY <1>1, <1>2 DEF WantedBy
<1>3. CASE Visiting.flow # 0
  <2> DEFINE i == Visiting.flow
             to == src[flows[i].block].to
  <2>1. n \in 2 .. n
    <3>1. visits[n].flow # 0
      BY <1>1, <1>3
    <3>2. n # 1
      BY <1>1, <3>1
    <3> QED BY <3>2
  <2>2. VisitOK(flows, src, Visiting)
    BY <1>1, <2>1 DEF IInv, Making, VisitsOK
  <2>3. flows[i].block \in DOMAIN src /\ Len(Visiting.todo) <= Len(to)
    BY <2>2 DEF VisitOK
  <2>4. src[flows[i].block] \in BlockSet
    BY <2>3 DEF IInv, Making, SourceOK
  <2>5. to \in Seq(2 .. MaxBlocks)
    BY <2>4 DEF BlockSet
  <2>6. DOMAIN to = 1 .. Len(to) /\ Len(to) \in Nat
    BY <2>5, LenProperties
  <2>7. Wanted = to[Len(to) - Len(Visiting.todo) + 1]
    BY <1>1, <1>3 DEF WantedBy
  <2>8. Len(Visiting.todo) \in Nat \ {0}
    <3>1. Visiting \in VisitSet
      BY <1>1
    <3>2. Visiting.todo \in Seq({"next", "if", "case"} \X Nat)
      BY <3>1 DEF VisitSet
    <3> QED BY <3>2, LenProperties, EmptySeq
  <2> HIDE DEF to, i
  <2>9. Len(to) - Len(Visiting.todo) + 1 \in 1 .. Len(to)
    BY <2>3, <2>6, <2>8
  <2>10. \A k \in 1 .. Len(to) : to[k] \in 2 .. MaxBlocks
    BY <2>5, ElementOfSeq
  <2>11. Wanted \in 2 .. MaxBlocks
    BY <2>7, <2>9, <2>10
  <2> QED BY <2>11
<1> QED BY <1>2, <1>3

\* What the operation of LinkFlow does to the graph.
LEMMA LinkFlowIs ==
    ASSUME IInv, LinkFlow
    PROVE  /\ Linked(flows, flows', Visiting.flow, Visiting.todo[1], flowOf[Wanted])
           /\ Visiting.flow \in DOMAIN flows /\ flowOf[Wanted] \in DOMAIN flows
           /\ Visiting.todo[1] \in PartSet(flows[Visiting.flow])
<1> DEFINE i == Visiting.flow
           part == Visiting.todo[1]
           t == flowOf[Wanted]
           H == SetTarget(flows, i, part, t)
<1>1. flows' = IF part[1] = "case" THEN [H EXCEPT ![i].cases[part[2]].line = src[Wanted].line]
                                   ELSE H
  BY ZenonT(20) DEF LinkFlow
<1>2. pass = 0 /\ i # 0 /\ Visiting.todo # <<>> /\ Wanted \in DOMAIN flowOf
  BY ZenonT(20) DEF LinkFlow
<1> HIDE DEF H
<1>3. PICK n \in Nat \ {0} :
        /\ n = Len(visits) /\ DOMAIN visits = 1 .. n /\ Visiting = visits[n]
        /\ \A m \in 1 .. n : visits[m] \in VisitSet
        /\ visits[1].flow = 0
        /\ \A m \in 2 .. n : visits[m].flow \in DOMAIN flows
        /\ Wanted = WantedBy(flows, src, visits[n])
  BY <1>2, MakingIs
<1>4. n \in 2 .. n
  <2>1. visits[n].flow # 0 /\ visits[1].flow = 0
    BY <1>2, <1>3
  <2>2. n # 1
    BY <2>1
  <2> QED BY <2>2
<1>5. VisitOK(flows, src, Visiting)
  BY <1>2, <1>3, <1>4 DEF IInv, Making, VisitsOK
<1>6. Visiting.todo \in Seq({"next", "if", "case"} \X Nat) /\ 1 \in DOMAIN Visiting.todo
      /\ Len(Visiting.todo) \in Nat \ {0}
  <2>1. Visiting \in VisitSet
    BY <1>3
  <2>2. Visiting.todo \in Seq({"next", "if", "case"} \X Nat)
    BY <2>1 DEF VisitSet
  <2>3. /\ DOMAIN Visiting.todo = 1 .. Len(Visiting.todo) /\ Len(Visiting.todo) \in Nat
        /\ Len(Visiting.todo) # 0
    BY <1>2, <2>2, LenProperties, EmptySeq
  <2>4. 1 \in DOMAIN Visiting.todo
    BY <2>3
  <2> QED BY <2>2, <2>3, <2>4
<1>7. i \in DOMAIN flows /\ part \in PartSet(flows[i]) /\ Target(flows[i], part) = 0
  BY <1>5, <1>6 DEF VisitOK
<1>8. Wanted \in 2 .. MaxBlocks
  BY <1>2, WantedIs
<1>9. t \in DOMAIN flows /\ flows[t].block = Wanted
  BY <1>2 DEF IInv, Placed
<1>10. Wanted # 1
  BY <1>8
<1>11. GraphOK(flows) /\ AllCounted(flows)
  BY <1>2 DEF IInv, Making
<1> HIDE DEF i, part, t
<1>12. Linked(flows, H, i, part, t)
  BY <1>7, <1>9, <1>10, <1>11, LinkCounted DEF H
<1>13. CASE part[1] # "case"
  BY <1>7, <1>9, <1>12, <1>1, <1>13 DEF i, part, t
<1>14. CASE part[1] = "case"
  <2> DEFINE k == part[2]
             line == src[Wanted].line
             G == [H EXCEPT ![i].cases[k].line = line]
  <2>1. part = <<"case", k>>
    <3>1. part \in {"next", "if", "case"} \X Nat
      BY <1>6, ElementOfSeq DEF part
    <3> QED BY <1>14, <3>1
  <2>2. line \in Nat
    <3>1. Wanted \in DOMAIN src /\ src[Wanted] \in BlockSet
      BY <1>2 DEF IInv, Making, SourceOK
    <3> QED BY <3>1 DEF BlockSet
  <2>3. GraphOK(H) /\ AllCounted(H) /\ i \in DOMAIN H /\ <<"case", k>> \in PartSet(H[i])
    BY <1>7, <1>12, <2>1 DEF Linked
  <2>4. /\ GraphOK(G) /\ AllCounted(G) /\ DOMAIN G = DOMAIN H
        /\ \A j \in DOMAIN H :
             /\ G[j].block = H[j].block /\ G[j].ret = H[j].ret /\ G[j].uses = H[j].uses
             /\ PartSet(G[j]) = PartSet(H[j])
             /\ \A p \in PartSet(H[j]) : Target(G[j], p) = Target(H[j], p)
    <3> HIDE DEF k, line
    <3> QED BY <2>2, <2>3, LineKept
  <2>5. flows' = G
    BY <1>1, <1>14
  <2> HIDE DEF G, k, line
  <2>6. Linked(flows, G, i, part, t)
    BY <1>12, <2>4 DEF Linked
  <2> QED BY <1>7, <1>9, <2>5, <2>6 DEF i, part, t
<1> QED BY <1>13, <1>14

\* So does finding a flow that is there already and adding a use to it.
LEMMA LinkFlowKeeps ==
    ASSUME IInv, LinkFlow
    PROVE  IInv'
<1> DEFINE G == flows'
           v == visits'
           i == Visiting.flow
           part == Visiting.todo[1]
           t == flowOf[Wanted]
           rest == Tail(Visiting.todo)
<1>1. /\ pass = 0 /\ pass' = 0 /\ flowOf' = flowOf /\ src' = src /\ processed' = processed
      /\ i # 0 /\ Visiting.todo # <<>> /\ Wanted \in DOMAIN flowOf
  BY ZenonT(20) DEF LinkFlow
<1>2. v = [visits EXCEPT ![Len(visits)].todo = Tail(@)]
  BY ZenonT(20) DEF LinkFlow
<1>3. PICK n \in Nat \ {0} :
        /\ n = Len(visits) /\ DOMAIN visits = 1 .. n /\ Visiting = visits[n]
        /\ visits[n] = [flow |-> visits[n].flow, todo |-> visits[n].todo]
        /\ \A m \in 1 .. n : visits[m] \in VisitSet
        /\ visits[1].flow = 0
        /\ Wanted = WantedBy(flows, src, visits[n])
        /\ \A m \in 2 .. n : visits[m].flow \in DOMAIN flows
  BY <1>1, MakingIs
<1>4. n \in 2 .. n
  <2>1. visits[n].flow # 0 /\ visits[1].flow = 0
    BY <1>1, <1>3
  <2>2. n # 1
    BY <2>1
  <2> QED BY <2>2
<1>5. Linked(flows, G, i, part, t) /\ i \in DOMAIN flows /\ t \in DOMAIN flows
      /\ part \in PartSet(flows[i])
  BY LinkFlowIs
<1>6. VisitsOK(flows, src, flowOf, visits) /\ Reached(flows, src, flowOf, visits)
  BY <1>1 DEF IInv, Making
<1>7. visits \in Seq(VisitSet) /\ visits # <<>> /\ VisitOK(flows, src, visits[n])
  BY <1>3, <1>4, <1>6 DEF VisitsOK
<1>8. PICK l \in Nat :
        /\ Len(Visiting.todo) = l + 1 /\ DOMAIN Visiting.todo = 1 .. l + 1
        /\ rest \in Seq({"next", "if", "case"} \X Nat)
        /\ Len(rest) = l /\ DOMAIN rest = 1 .. l
        /\ \A k \in 1 .. l : rest[k] = Visiting.todo[k + 1]
  <2> DEFINE todo == Visiting.todo
             S == {"next", "if", "case"} \X Nat
  <2>1. todo \in Seq(S)
    <3>1. Visiting \in VisitSet
      BY <1>3
    <3> QED BY <3>1 DEF VisitSet
  <2>2. todo # <<>> /\ rest = Tail(todo)
    BY <1>1
  <2> HIDE DEF todo, S
  <2>3. /\ Tail(todo) \in Seq(S) /\ Len(Tail(todo)) = Len(todo) - 1
        /\ \A k \in 1 .. Len(Tail(todo)) : Tail(todo)[k] = todo[k + 1]
    BY <2>1, <2>2, HeadTailProperties
  <2>4. Len(todo) \in Nat /\ Len(todo) # 0 /\ DOMAIN todo = 1 .. Len(todo)
    BY <2>1, <2>2, LenProperties, EmptySeq
  <2>5. PICK l \in Nat : Len(todo) = l + 1
    <3> DEFINE m == Len(todo)
    <3>1. m \in Nat /\ m # 0
      BY <2>4
    <3> HIDE DEF m
    <3>2. m - 1 \in Nat /\ m = m - 1 + 1
      BY <3>1
    <3>3. \E x \in Nat : m = x + 1
      BY <3>2
    <3> QED BY <3>3, ZenonT(20) DEF m
  <2>6. Len(Tail(todo)) = l
    BY <2>3, <2>5
  <2>7. DOMAIN Tail(todo) = 1 .. l
    BY <2>3, <2>6, LenProperties, ZenonT(40)
  <2> QED BY <2>2, <2>3, <2>4, <2>5, <2>6, <2>7 DEF todo, S
<1>9. /\ v \in Seq(VisitSet) /\ Len(v) = n /\ DOMAIN v = 1 .. n
      /\ \A m \in 1 .. n : m # n => v[m] = visits[m]
      /\ v[n].flow = i /\ v[n].todo = rest
  <2> DEFINE new == [flow |-> i, todo |-> rest]
             S == {"next", "if", "case"} \X Nat
  <2>1. new \in VisitSet
    <3>1. rest \in Seq(S)
      BY <1>8
    <3>2. visits[n] \in VisitSet /\ i = visits[n].flow
      BY <1>3
    <3>3. VisitSet = [flow : Nat, todo : Seq(S)]
      BY DEF VisitSet
    <3> HIDE DEF S, rest, i
    <3> QED BY <3>1, <3>2, <3>3
  <2>2. v = [visits EXCEPT ![n] = new]
    <3>1. [visits[n] EXCEPT !.todo = rest] = new
      <4>1. visits[n] = [flow |-> i, todo |-> visits[n].todo]
        BY <1>3
      <4>2. \A a, b, c : [[flow |-> a, todo |-> b] EXCEPT !.todo = c] = [flow |-> a, todo |-> c]
        OBVIOUS
      <4> HIDE DEF i, rest
      <4> QED BY <4>1, <4>2
    <3>2. v = [visits EXCEPT ![n] = [visits[n] EXCEPT !.todo = rest]]
      BY <1>2, <1>3
    <3> HIDE DEF v, new, rest
    <3> QED BY <3>1, <3>2
  <2>3. new.flow = i /\ new.todo = rest
    OBVIOUS
  <2> HIDE DEF v, new, i, rest
  <2>4. v \in [DOMAIN visits -> VisitSet]
    BY <1>3, <2>1, <2>2
  <2>5. v \in Seq(VisitSet) /\ Len(v) = Len(visits) /\ DOMAIN v = DOMAIN visits
    BY <1>7, <2>4, SameDomain
  <2>6. v[n] = new /\ \A m \in 1 .. n : m # n => v[m] = visits[m]
    BY <1>3, <2>2
  <2> QED BY <1>3, <2>3, <2>5, <2>6
<1> HIDE DEF G, v, i, part, t, rest
<1>10. /\ GraphOK(G) /\ AllCounted(G) /\ DOMAIN G = DOMAIN flows
      /\ \A j \in DOMAIN flows :
           /\ G[j].block = flows[j].block /\ G[j].ret = flows[j].ret
           /\ G[j].uses = flows[j].uses + IF j = t THEN 1 ELSE 0
           /\ PartSet(G[j]) = PartSet(flows[j])
           /\ \A p \in PartSet(flows[j]) :
                Target(G[j], p) = IF j = i /\ p = part THEN t ELSE Target(flows[j], p)
  BY <1>5 DEF Linked
<1>11. \A m \in 1 .. n : m # n => WantedBy(G, src, v[m]) = WantedBy(flows, src, visits[m])
  <2> SUFFICES ASSUME NEW m \in 1 .. n, m # n
               PROVE  WantedBy(G, src, visits[m]) = WantedBy(flows, src, visits[m])
    BY <1>9
  <2>1. CASE visits[m].flow = 0
    BY <2>1 DEF WantedBy
  <2>2. CASE visits[m].flow # 0
    <3>1. m # 1
      BY <1>3, <2>2
    <3>2. visits[m].flow \in DOMAIN flows
      BY <1>3, <3>1
    <3>3. G[visits[m].flow].block = flows[visits[m].flow].block
      BY <1>10, <3>2
    <3> QED BY <3>3 DEF WantedBy
  <2> QED BY <2>1, <2>2
<1>12. \A m, k \in 1 .. n : m # k => v[m].flow # v[k].flow
  <2>1. \A m \in 1 .. n : v[m].flow = visits[m].flow
    BY <1>3, <1>9 DEF i
  <2>2. \A m, k \in 1 .. n : m # k => visits[m].flow # visits[k].flow
    BY <1>3, <1>6 DEF VisitsOK
  <2> QED BY <2>1, <2>2
<1>13. ASSUME NEW m \in 2 .. n PROVE VisitOK(G, src, v[m])
  <2>1. VisitOK(flows, src, visits[m]) /\ m \in 1 .. n
    BY <1>3, <1>6 DEF VisitsOK
  <2>2. CASE m # n
    <3> DEFINE w == visits[m]
    <3>1. v[m] = w /\ w.flow # i /\ w.flow \in DOMAIN flows
      <4>1. v[m].flow # v[n].flow
        BY <1>12, <2>1, <2>2
      <4> QED BY <1>3, <1>9, <2>1, <2>2, <4>1
    <3> HIDE DEF w
    <3>2. VisitOK(flows, src, w)
      BY <2>1 DEF w
    <3>3. G[w.flow].block = flows[w.flow].block /\ PartSet(G[w.flow]) = PartSet(flows[w.flow])
          /\ \A p \in PartSet(flows[w.flow]) : Target(G[w.flow], p) = Target(flows[w.flow], p)
      BY <1>10, <3>1
    <3>4. VisitOK(G, src, w)
      BY <1>10, <3>2, <3>3 DEF VisitOK
    <3> QED BY <3>1, <3>4
  <2>3. CASE m = n
    <3>1. /\ i \in DOMAIN flows /\ flows[i].block \in DOMAIN src
          /\ l + 1 <= Len(src[flows[i].block].to)
          /\ \A k \in 1 .. l + 1 :
               /\ Visiting.todo[k] \in PartSet(flows[i]) /\ Target(flows[i], Visiting.todo[k]) = 0
               /\ \A h \in 1 .. l + 1 : k # h => Visiting.todo[k] # Visiting.todo[h]
      BY <1>3, <1>7, <1>8, ZenonT(40) DEF VisitOK, i
    <3>2. G[i].block = flows[i].block /\ PartSet(G[i]) = PartSet(flows[i])
      BY <1>10, <3>1
    <3>3. l <= Len(src[flows[i].block].to)
      <4>1. src[flows[i].block] \in BlockSet
        BY <1>1, <3>1 DEF IInv, Making, SourceOK
      <4>2. src[flows[i].block].to \in Seq(2 .. MaxBlocks)
        BY <4>1 DEF BlockSet
      <4>3. Len(src[flows[i].block].to) \in Nat
        BY <4>2, LenProperties
      <4> QED BY <3>1, <4>3
    <3>4. ASSUME NEW k \in 1 .. l
          PROVE  /\ rest[k] \in PartSet(G[i]) /\ Target(G[i], rest[k]) = 0
                 /\ \A h \in 1 .. l : k # h => rest[k] # rest[h]
      <4>1. k + 1 \in 1 .. l + 1 /\ 1 \in 1 .. l + 1 /\ k + 1 # 1
            /\ \A h \in 1 .. l : h + 1 \in 1 .. l + 1 /\ (k # h => k + 1 # h + 1)
        OBVIOUS
      <4>2. rest[k] \in PartSet(flows[i]) /\ Target(flows[i], rest[k]) = 0 /\ rest[k] # part
        <5>1. rest[k] = Visiting.todo[k + 1]
          BY <1>8
        <5>2. /\ Visiting.todo[k + 1] \in PartSet(flows[i])
              /\ Target(flows[i], Visiting.todo[k + 1]) = 0
              /\ Visiting.todo[k + 1] # Visiting.todo[1]
          BY <3>1, <4>1
        <5> QED BY <5>1, <5>2 DEF part
      <4>3. Target(G[i], rest[k]) = 0
        BY <1>10, <3>1, <4>2
      <4>4. ASSUME NEW h \in 1 .. l, k # h PROVE rest[k] # rest[h]
        <5>1. k + 1 \in 1 .. l + 1 /\ h + 1 \in 1 .. l + 1 /\ k + 1 # h + 1
          BY <4>4
        <5>2. Visiting.todo[k + 1] # Visiting.todo[h + 1]
          BY <3>1, <5>1
        <5> QED BY <1>8, <5>2
      <4> QED BY <3>2, <4>2, <4>3, <4>4
    <3>5. v[m].flow = i /\ v[m].todo = rest /\ DOMAIN rest = 1 .. l /\ Len(rest) = l
      BY <1>8, <1>9, <2>3
    <3> QED BY <1>10, <3>1, <3>2, <3>3, <3>4, <3>5 DEF VisitOK
  <2> QED BY <2>2, <2>3
<1>14. VisitsOK(G, src, flowOf, v)
  <2>1. v[1] = visits[1] /\ v # <<>>
    <3>1. 1 \in 1 .. n /\ 1 # n
      BY <1>4
    <3> QED BY <1>3, <1>9, <3>1, EmptySeq
  <2>2. ASSUME NEW m \in 2 .. n
        PROVE  /\ v[m - 1].todo # <<>>
               /\ WantedBy(G, src, v[m - 1]) \in DOMAIN flowOf
               /\ flowOf[WantedBy(G, src, v[m - 1])] = v[m].flow
    <3>1. m - 1 \in 1 .. n /\ m - 1 # n /\ m \in 1 .. n
      OBVIOUS
    <3>2. v[m - 1] = visits[m - 1] /\ v[m].flow = visits[m].flow
          /\ WantedBy(G, src, v[m - 1]) = WantedBy(flows, src, visits[m - 1])
      BY <1>3, <1>9, <1>11, <3>1 DEF i
    <3>3. /\ visits[m - 1].todo # <<>>
          /\ WantedBy(flows, src, visits[m - 1]) \in DOMAIN flowOf
          /\ flowOf[WantedBy(flows, src, visits[m - 1])] = visits[m].flow
      BY <1>3, <1>6 DEF VisitsOK
    <3> QED BY <3>2, <3>3
  <2>3. visits[1] = [flow |-> 0, todo |-> << <<"next", 0>> >>]
    BY <1>6 DEF VisitsOK
  <2> QED BY <1>9, <1>12, <1>13, <2>1, <2>2, <2>3 DEF VisitsOK
<1>15. Reached(G, src, flowOf, v)
  <2> SUFFICES ASSUME NEW j \in DOMAIN flows, G[j].uses = 0 PROVE \E m \in DOMAIN v : v[m].flow = j
    BY <1>10 DEF Reached
  <2>1. flows[j].uses = 0 /\ j # t
    <3>1. PICK a \in Nat : a = flows[j].uses
      BY UsedFinite DEF IInv, GraphOK
    <3> QED BY <1>10, <3>1
  <2>2. flowOf[WantedBy(flows, src, visits[Len(visits)])] = t
    BY <1>3 DEF t
  <2>3. PICK m \in DOMAIN visits : visits[m].flow = j
    BY <1>6, <2>1, <2>2 DEF Reached
  <2>4. v[m].flow = j
    BY <1>3, <1>9, <2>3 DEF i
  <2> QED BY <1>3, <1>9, <2>3, <2>4
<1>16. ReturnsOK(G) /\ Placed(G, flowOf)
  BY <1>1, <1>10 DEF IInv, Making, ReturnsOK, Placed
<1>17. Making'
  BY <1>1, <1>10, <1>14, <1>15, <1>16 DEF IInv, Making, G, v
<1>18. GraphOK(flows)' /\ Placed(flows, flowOf)'
  BY <1>1, <1>10, <1>16 DEF G
<1> QED BY <1>1, <1>17, <1>18 DEF IInv, LastPass

\* What a block of the function can be.
LEMMA BlockIs ==
    ASSUME NEW x \in Blocks
    PROVE  /\ x \in BlockSet
           /\ x.kind \in {"ret", "unreachable"} => DOMAIN x.to = {}
           /\ x.kind = "ret" => x.ret \in Nat \ {0}
           /\ x.kind = "br" => DOMAIN x.to = {1}
           /\ x.kind = "cond" => DOMAIN x.to = {1, 2}
           /\ DOMAIN x.to = 1 .. Len(x.to) /\ Len(x.to) \in Nat
<1>1. MaxBlocks \in Nat /\ MaxSourceLine \in Nat /\ MaxReturns \in Nat /\ MaxCases \in Nat
  BY FlowAssumption
<1> DEFINE S == 2 .. MaxBlocks
<1>2. ASSUME NEW n \in Nat, NEW to \in TargetLists(n)
      PROVE  to \in Seq(S) /\ DOMAIN to = 1 .. n /\ Len(to) = n
  <2>1. to \in [1 .. n -> S]
    BY DEF TargetLists
  <2> HIDE DEF S
  <2>2. to \in Seq(S)
    BY <2>1
  <2>3. DOMAIN to = 1 .. n
    BY <2>1
  <2>4. DOMAIN to = 1 .. Len(to) /\ Len(to) \in Nat
    BY <2>2, LenProperties
  <2>5. Len(to) = n
    BY <2>3, <2>4
  <2> QED BY <2>2, <2>3, <2>5
<1>3. <<>> \in Seq(S) /\ DOMAIN <<>> = {} /\ Len(<<>>) = 0
  BY EmptySeq
<1>4. BlockSet = [ kind : {"ret", "br", "cond", "switch", "unreachable"}, ret : Nat,
                   to : Seq(S), lines : BOOLEAN, line : Nat ]
  BY DEF BlockSet
<1> HIDE DEF S
<1>5. PICK kind \in {"ret", "br", "cond", "switch", "unreachable"},
           ret \in Nat, n \in Nat, to \in Seq(S) :
        /\ x \in Block(kind, ret, {to})
        /\ kind \in {"ret", "unreachable"} => to = <<>>
        /\ kind = "ret" => ret # 0
        /\ kind \in {"br", "cond", "switch"} => to \in TargetLists(n)
        /\ kind = "br" => n = 1
        /\ kind = "cond" => n = 2
  <2>1. \A kind, ret, T : x \in Block(kind, ret, T) => \E to \in T : x \in Block(kind, ret, {to})
    BY DEF Block
  <2>2. CASE x \in Block("unreachable", 0, {<<>>})
    BY <1>3, <2>2
  <2>3. CASE x \in Block("br", 0, TargetLists(1))
    <3>1. PICK to \in TargetLists(1) : x \in Block("br", 0, {to})
      BY <2>1, <2>3
    <3>2. to \in Seq(S)
      BY <1>2, <3>1
    <3> QED BY <3>1, <3>2
  <2>4. CASE x \in Block("cond", 0, TargetLists(2))
    <3>1. PICK to \in TargetLists(2) : x \in Block("cond", 0, {to})
      BY <2>1, <2>4
    <3>2. to \in Seq(S)
      BY <1>2, <3>1
    <3> QED BY <3>1, <3>2
  <2>5. CASE \E r \in 1 .. MaxReturns : x \in Block("ret", r, {<<>>})
    <3>1. PICK r \in 1 .. MaxReturns : x \in Block("ret", r, {<<>>})
      BY <2>5
    <3>2. r \in Nat /\ r # 0
      BY <1>1
    <3> QED BY <1>3, <3>1, <3>2
  <2>6. CASE \E n \in 1 .. MaxCases : x \in Block("switch", 0, TargetLists(n + 1))
    <3>1. PICK n \in 1 .. MaxCases : x \in Block("switch", 0, TargetLists(n + 1))
      BY <2>6
    <3>2. PICK to \in TargetLists(n + 1) : x \in Block("switch", 0, {to})
      BY <2>1, <3>1
    <3>3. n + 1 \in Nat
      BY <1>1
    <3>4. to \in Seq(S)
      BY <1>2, <3>2, <3>3
    <3> QED BY <3>2, <3>3, <3>4
  <2>7. x \in Block("unreachable", 0, {<<>>}) \cup Block("br", 0, TargetLists(1))
              \cup Block("cond", 0, TargetLists(2))
              \cup UNION ( {Block("ret", r, {<<>>}) : r \in 1 .. MaxReturns}
                           \cup {Block("switch", 0, TargetLists(n + 1)) : n \in 1 .. MaxCases} )
    BY DEF Blocks
  <2> QED BY <2>2, <2>3, <2>4, <2>5, <2>6, <2>7
<1>6. x = [kind |-> kind, ret |-> ret, to |-> to, lines |-> x.lines, line |-> x.line]
      /\ x.lines \in BOOLEAN /\ x.line \in Nat
  <2>1. x \in Block(kind, ret, {to})
    BY <1>5
  <2>2. \A m \in 1 .. MaxSourceLine : m \in Nat
    BY <1>1
  <2> QED BY <2>1, <2>2 DEF Block
<1>7. x.kind = kind /\ x.ret = ret /\ x.to = to
  BY <1>6
<1>8. CASE kind \in {"ret", "unreachable"}
  <2>1. to = <<>>
    BY <1>5, <1>8
  <2>2. to \in Seq(S)
    BY <1>3, <2>1
  <2>3. x \in BlockSet
    BY <1>4, <1>6, <2>2
  <2>4. 1 .. Len(x.to) = {}
    BY <1>3, <1>7, <2>1
  <2> QED BY <1>3, <1>5, <1>7, <1>8, <2>1, <2>3, <2>4
<1>9. CASE kind \in {"br", "cond", "switch"}
  <2>1. to \in Seq(S) /\ DOMAIN to = 1 .. n /\ Len(to) = n
    BY <1>2, <1>5, <1>9
  <2>2. x \in BlockSet
    BY <1>4, <1>6, <2>1
  <2>3. (n = 1 => DOMAIN to = {1}) /\ (n = 2 => DOMAIN to = {1, 2})
    BY <2>1
  <2> QED BY <1>5, <1>7, <1>9, <2>1, <2>2, <2>3
<1> QED BY <1>8, <1>9

\* A flow without parts but Next.
LEMMA BareFlow ==
    ASSUME NEW b \in Nat, NEW lines \in BOOLEAN, NEW ret \in Nat
    PROVE  /\ NewFlow(b, lines, ret) \in FlowSet
           /\ NewFlow(b, lines, ret).uses = 0
           /\ \A p \in PartSet(NewFlow(b, lines, ret)) : Target(NewFlow(b, lines, ret), p) = 0
<1> DEFINE new == NewFlow(b, lines, ret)
<1>1. <<>> \in Seq(IfSet) /\ <<>> \in Seq(CaseSet) /\ DOMAIN <<>> = {}
  BY EmptySeq
<1>2. new \in FlowSet
  BY <1>1 DEF NewFlow, FlowSet
<1>3. new.uses = 0 /\ new.next = 0 /\ new.ifs = <<>> /\ new.cases = <<>>
  BY DEF NewFlow
<1> HIDE DEF new
<1>4. PartSet(new) = {<<"next", 0>>} \cup {<<"if", k>> : k \in DOMAIN new.ifs}
                                     \cup {<<"case", k>> : k \in DOMAIN new.cases}
  BY <1>2, PartsAre
<1>5. PartSet(new) = {<<"next", 0>>}
  BY <1>1, <1>3, <1>4
<1>6. Target(new, <<"next", 0>>) = 0
  BY <1>3 DEF Target
<1> QED BY <1>2, <1>3, <1>5, <1>6 DEF new

\* The flow of block b that Get_Or_Create_Flow starts with.
StartFlow(b, x) ==
  [NewFlow(b, x.lines, 0) EXCEPT
     !.ifs = IF x.kind = "cond" THEN <<[test |-> b, target |-> 0],
                                       [test |-> 0, target |-> 0]>> ELSE <<>>,
     !.cases = IF x.kind = "switch"
               THEN [k \in DOMAIN x.to |-> [value |-> k - 1, target |-> 0,
                                            same |-> FALSE, line |-> 0]]
               ELSE <<>>]

\* What a flow is before its parts are linked.
LEMMA StartFlowIs ==
    ASSUME NEW b \in Nat, NEW x \in Blocks
    PROVE  LET new == StartFlow(b, x)
           IN  /\ new \in FlowSet /\ new.uses = 0 /\ new.ret = 0 /\ new.block = b
               /\ \A p \in PartSet(new) : Target(new, p) = 0
               /\ <<"next", 0>> \in PartSet(new)
               /\ x.kind = "cond" => \A k \in {1, 2} : <<"if", k>> \in PartSet(new)
               /\ x.kind = "switch" => \A k \in DOMAIN x.to : <<"case", k>> \in PartSet(new)
<1> DEFINE new == StartFlow(b, x)
           ifs == IF x.kind = "cond" THEN <<[test |-> b, target |-> 0], [test |-> 0, target |-> 0]>>
                                     ELSE <<>>
           all == [k \in DOMAIN x.to |-> [value |-> k - 1, target |-> 0, same |-> FALSE, line |-> 0]]
           cases == IF x.kind = "switch" THEN all ELSE <<>>
<1>1. x \in BlockSet /\ DOMAIN x.to = 1 .. Len(x.to) /\ Len(x.to) \in Nat
  BY BlockIs
<1>2. x.lines \in BOOLEAN /\ x.to \in Seq(2 .. MaxBlocks)
  BY <1>1 DEF BlockSet
<1>3. /\ <<>> \in Seq(IfSet) /\ <<>> \in Seq(CaseSet) /\ DOMAIN <<>> = {}
  BY EmptySeq
<1>4. /\ ifs \in Seq(IfSet) /\ \A k \in DOMAIN ifs : ifs[k].target = 0
      /\ x.kind = "cond" => DOMAIN ifs = {1, 2}
  <2>1. CASE x.kind = "cond"
    <3> DEFINE one == [test |-> b, target |-> 0]
               two == [test |-> 0, target |-> 0]
    <3>1. one \in IfSet /\ two \in IfSet /\ one.target = 0 /\ two.target = 0
      BY DEF IfSet
    <3>2. ifs = <<one, two>>
      BY <2>1
    <3> HIDE DEF one, two, ifs
    <3>3. /\ <<one, two>> \in Seq(IfSet) /\ Len(<<one, two>>) = 2
          /\ <<one, two>>[1] = one /\ <<one, two>>[2] = two
      BY <3>1
    <3>4. DOMAIN ifs = {1, 2}
      <4>1. DOMAIN ifs = 1 .. 2
        BY <3>2, <3>3, LenProperties
      <4> QED BY <4>1
    <3> QED BY <3>1, <3>2, <3>3, <3>4
  <2>2. CASE x.kind # "cond"
    <3>1. ifs = <<>>
      BY <2>2
    <3> QED BY <1>3, <2>2, <3>1
  <2> QED BY <2>1, <2>2
<1>5. /\ cases \in Seq(CaseSet) /\ \A k \in DOMAIN cases : cases[k].target = 0
      /\ x.kind = "switch" => DOMAIN cases = DOMAIN x.to
  <2>1. CASE x.kind = "switch"
    <3>1. all \in [DOMAIN x.to -> CaseSet]
      <4>1. \A k \in DOMAIN x.to : k - 1 \in Nat
        BY <1>1
      <4>2. \A k \in DOMAIN x.to : [value |-> k - 1, target |-> 0, same |-> FALSE, line |-> 0] \in CaseSet
        BY <4>1 DEF CaseSet
      <4> QED BY <4>2
    <3>2. DOMAIN all = DOMAIN x.to /\ \A k \in DOMAIN x.to : all[k].target = 0
      OBVIOUS
    <3> HIDE DEF all
    <3>3. all \in Seq(CaseSet)
      BY <1>2, <3>1, SameDomain
    <3>4. cases = all
      BY <2>1
    <3> QED BY <3>2, <3>3, <3>4
  <2>2. CASE x.kind # "switch"
    <3>1. cases = <<>>
      BY <2>2
    <3> QED BY <1>3, <2>2, <3>1
  <2> QED BY <2>1, <2>2
<1> DEFINE bare == NewFlow(b, x.lines, 0)
<1>6. /\ bare \in FlowSet /\ bare.uses = 0 /\ bare.ret = 0 /\ bare.block = b /\ bare.next = 0
      /\ new = [bare EXCEPT !.ifs = ifs, !.cases = cases]
  <2>1. bare \in FlowSet
    BY <1>2, BareFlow
  <2>2. new = [bare EXCEPT !.ifs = ifs, !.cases = cases]
    BY DEF StartFlow
  <2> QED BY <2>1, <2>2 DEF NewFlow
<1> HIDE DEF ifs, cases, bare, new
<1>7. new \in FlowSet
  <2>1. [bare EXCEPT !.ifs = ifs] \in FlowSet
    BY <1>4, <1>6 DEF FlowSet
  <2>2. new = [[bare EXCEPT !.ifs = ifs] EXCEPT !.cases = cases]
    BY <1>6
  <2> QED BY <1>5, <2>1, <2>2 DEF FlowSet
<1>8. /\ new.uses = 0 /\ new.ret = 0 /\ new.block = b /\ new.next = 0
      /\ new.ifs = ifs /\ new.cases = cases
  BY <1>6 DEF FlowSet
<1>9. PartSet(new) = {<<"next", 0>>} \cup {<<"if", k>> : k \in DOMAIN new.ifs}
                                     \cup {<<"case", k>> : k \in DOMAIN new.cases}
  BY <1>7, PartsAre
<1>10. \A p \in PartSet(new) : Target(new, p) = 0
  <2> SUFFICES ASSUME NEW p \in PartSet(new) PROVE Target(new, p) = 0
    OBVIOUS
  <2>1. CASE p = <<"next", 0>>
    BY <1>8, <2>1 DEF Target
  <2>2. CASE \E k \in DOMAIN new.ifs : p = <<"if", k>>
    BY <1>4, <1>8, <2>2 DEF Target
  <2>3. CASE \E k \in DOMAIN new.cases : p = <<"case", k>>
    BY <1>5, <1>8, <2>3 DEF Target
  <2> QED BY <1>9, <2>1, <2>2, <2>3
<1>11. x.kind = "cond" => \A k \in {1, 2} : <<"if", k>> \in PartSet(new)
  BY <1>4, <1>8, <1>9
<1>12. x.kind = "switch" => \A k \in DOMAIN x.to : <<"case", k>> \in PartSet(new)
  BY <1>5, <1>8, <1>9
<1> QED BY <1>7, <1>8, <1>9, <1>10, <1>11, <1>12 DEF new

\* The parts that the call for a block has to set.
LEMMA TargetPartsAre ==
    ASSUME NEW b \in Nat, NEW x \in Blocks
    PROVE  LET todo == TargetParts(x)
           IN  /\ todo \in Seq({"next", "if", "case"} \X Nat) /\ Len(todo) = Len(x.to)
               /\ DOMAIN todo = DOMAIN x.to
               /\ \A k \in DOMAIN todo :
                    /\ todo[k] \in PartSet(StartFlow(b, x))
                    /\ \A l \in DOMAIN todo : k # l => todo[k] # todo[l]
<1> DEFINE todo == TargetParts(x)
           S == {"next", "if", "case"} \X Nat
<1>1. /\ x \in BlockSet
      /\ x.kind \in {"ret", "unreachable"} => DOMAIN x.to = {}
      /\ x.kind = "br" => DOMAIN x.to = {1}
      /\ x.kind = "cond" => DOMAIN x.to = {1, 2}
      /\ DOMAIN x.to = 1 .. Len(x.to) /\ Len(x.to) \in Nat
  BY BlockIs
<1>2. x.kind \in {"ret", "br", "cond", "switch", "unreachable"} /\ x.to \in Seq(2 .. MaxBlocks)
  BY <1>1 DEF BlockSet
<1>3. /\ <<"next", 0>> \in PartSet(StartFlow(b, x))
      /\ x.kind = "cond" => \A k \in {1, 2} : <<"if", k>> \in PartSet(StartFlow(b, x))
      /\ x.kind = "switch" => \A k \in DOMAIN x.to : <<"case", k>> \in PartSet(StartFlow(b, x))
  BY StartFlowIs
<1>4. DOMAIN todo = DOMAIN x.to
  BY DEF TargetParts
<1>5. ASSUME NEW k \in DOMAIN x.to
      PROVE  /\ todo[k] \in S /\ todo[k] \in PartSet(StartFlow(b, x))
             /\ \A l \in DOMAIN x.to : k # l => todo[k] # todo[l]
  <2>1. \A l \in DOMAIN x.to : todo[l] = CASE x.kind = "br" -> <<"next", 0>>
                                           [] x.kind = "cond" -> <<"if", l>>
                                           [] x.kind = "switch" -> <<"case", l>>
    BY DEF TargetParts
  <2>2. k \in Nat
    BY <1>1
  <2> HIDE DEF todo
  <2>3. CASE x.kind = "br"
    <3>1. todo[k] = <<"next", 0>>
      BY <2>1, <2>3
    <3> QED BY <1>1, <1>3, <2>3, <3>1
  <2>4. CASE x.kind = "cond"
    <3>1. \A l \in DOMAIN x.to : todo[l] = <<"if", l>>
      BY <2>1, <2>4
    <3> QED BY <1>1, <1>3, <2>2, <2>4, <3>1
  <2>5. CASE x.kind = "switch"
    <3>1. \A l \in DOMAIN x.to : todo[l] = <<"case", l>>
      BY <2>1, <2>5
    <3> QED BY <1>3, <2>2, <2>5, <3>1
  <2> QED BY <1>1, <1>2, <2>3, <2>4, <2>5
<1>6. todo \in [DOMAIN x.to -> S]
  <2>1. todo = [k \in DOMAIN x.to |-> todo[k]]
    <3> DEFINE part(k) == CASE x.kind = "br" -> <<"next", 0>>
                            [] x.kind = "cond" -> <<"if", k>>
                            [] x.kind = "switch" -> <<"case", k>>
    <3>1. todo = [k \in DOMAIN x.to |-> part(k)]
      BY DEF TargetParts
    <3> HIDE DEF todo, part
    <3> QED BY <3>1
  <2> HIDE DEF todo, S
  <2> QED BY <1>5, <2>1
<1> HIDE DEF todo, S
<1>7. todo \in Seq(S) /\ Len(todo) = Len(x.to)
  BY <1>2, <1>6, SameDomain
<1> QED BY <1>4, <1>5, <1>7 DEF todo, S

\* G is F with the flow of block b, and perhaps the return flow it leads to.
Created(F, G, b, x) ==
  LET n == Len(F) + 1
  IN  /\ GraphOK(G) /\ AllCounted(G) /\ ReturnsOK(G)
      /\ n \notin DOMAIN F /\ n \in DOMAIN G /\ DOMAIN F \subseteq DOMAIN G
      /\ G[n].block = b
      /\ x.to # <<>> => G[n] = StartFlow(b, x)
      /\ \A j \in DOMAIN F :
           /\ G[j].block = F[j].block /\ PartSet(G[j]) = PartSet(F[j])
           /\ \A p \in PartSet(F[j]) : Target(G[j], p) = Target(F[j], p)
           /\ G[j].uses = 0 => F[j].uses = 0
      /\ \A j \in DOMAIN G : j \in DOMAIN F \/ j = n \/ G[j].uses # 0

\* The graph once the flow of a block is added to it.
LEMMA WithFlowOfIs ==
    ASSUME NEW F, GraphOK(F), AllCounted(F), ReturnsOK(F), Earlier > 0 => 1 \in DOMAIN F,
           NEW b \in Nat, NEW x \in Blocks
    PROVE  Created(F, WithFlowOf(F, b, x), b, x)
<1> DEFINE new == StartFlow(b, x)
           G == Append(F, new)
           found == {i \in DOMAIN F : F[i].ret = x.ret}
           n == Len(F) + 1
           next == <<"next", 0>>
           back == NewFlow(0, FALSE, x.ret)
           H == Append(G, back)
           R == WithFlowOf(F, b, x)
<1>1. /\ new \in FlowSet /\ new.uses = 0 /\ new.ret = 0 /\ new.block = b
      /\ \A p \in PartSet(new) : Target(new, p) = 0
      /\ next \in PartSet(new)
  BY StartFlowIs
<1>2. /\ x.kind = "ret" => x.to = <<>> /\ x.ret \in Nat \ {0}
      /\ \A j \in DOMAIN F : F[j] \in FlowSet /\ F[j].uses \in Nat
      /\ F \in Seq(FlowSet)
  <2>1. F \in Seq(FlowSet)
    BY DEF GraphOK
  <2>2. x \in BlockSet
    BY BlockIs
  <2>3. ASSUME DOMAIN x.to = {} PROVE x.to = <<>>
    <3>1. x.to \in Seq(2 .. MaxBlocks)
      BY <2>2 DEF BlockSet
    <3>2. DOMAIN x.to = 1 .. Len(x.to) /\ Len(x.to) \in Nat
      BY <3>1, LenProperties
    <3>3. Len(x.to) = 0
      <4>1. PICK m \in Nat : m = Len(x.to)
        BY <3>2
      <4>2. 1 .. m = {}
        BY <2>3, <3>2, <4>1
      <4>3. m # 0 => 1 \in 1 .. m
        OBVIOUS
      <4> QED BY <4>1, <4>2, <4>3
    <3> QED BY <3>1, <3>3, EmptySeq
  <2> QED BY <2>1, <2>3, BlockIs, UsedFinite
<1>3. R = CASE x.kind # "ret" -> G
            [] x.kind = "ret" /\ found # {} -> SetNext(G, Len(G), CHOOSE i \in found : TRUE)
            [] OTHER -> SetNext(H, Len(G), Len(G) + 1)
  BY Zenon DEF WithFlowOf, StartFlow
<1> HIDE DEF new, R
<1>4. Grown(F, G, new)
  BY <1>1, AppendCounted
<1>5. /\ GraphOK(G) /\ AllCounted(G) /\ Len(G) = n /\ DOMAIN G = DOMAIN F \cup {n}
      /\ n \notin DOMAIN F /\ G[n] = new /\ \A j \in DOMAIN F : G[j] = F[j]
  BY <1>4 DEF Grown
<1> HIDE DEF G
<1>6. ReturnsOK(G)
  BY <1>1, <1>5 DEF ReturnsOK
<1>7. CASE x.kind # "ret"
  <2>1. R = G
    BY <1>3, <1>7
  <2>2. Created(F, G, b, x)
    BY <1>1, <1>5, <1>6 DEF Created, new
  <2> QED BY <2>1, <2>2 DEF R
<1>8. CASE x.kind = "ret" /\ found # {}
  <2> DEFINE t == CHOOSE i \in found : TRUE
  <2>1. t \in DOMAIN F /\ F[t].ret # 0
    <3>1. t \in found
      BY <1>8
    <3> HIDE DEF t
    <3> QED BY <1>2, <1>8, <3>1
  <2>2. R = SetNext(G, n, t)
    BY <1>3, <1>5, <1>8
  <2> HIDE DEF t, found
  <2>3. t \in DOMAIN G /\ G[t].block # 1 /\ n \in DOMAIN G
        /\ next \in PartSet(G[n]) /\ Target(G[n], next) = 0
    BY <1>1, <1>5, <2>1 DEF ReturnsOK
  <2>4. Linked(G, SetTarget(G, n, next, t), n, next, t)
    BY <1>5, <2>3, LinkCounted
  <2>5. R = SetTarget(G, n, next, t)
    BY <2>2 DEF SetNext
  <2>6. Linked(G, R, n, next, t)
    BY <2>4, <2>5
  <2>7. ASSUME NEW j \in DOMAIN F
        PROVE  /\ R[j].block = F[j].block /\ R[j].ret = F[j].ret /\ PartSet(R[j]) = PartSet(F[j])
               /\ \A p \in PartSet(F[j]) : Target(R[j], p) = Target(F[j], p)
               /\ R[j].uses = 0 => F[j].uses = 0
    <3>1. j # n /\ j \in DOMAIN G /\ G[j] = F[j]
      BY <1>5
    <3>2. PICK u \in Nat : u = F[j].uses
      BY <1>2
    <3> QED BY <2>6, <3>1, <3>2 DEF Linked
  <2>8. GraphOK(R) /\ AllCounted(R) /\ DOMAIN R = DOMAIN G
        /\ R[n].block = b /\ R[n].ret = 0
    BY <1>1, <1>5, <2>3, <2>6 DEF Linked
  <2>9. ReturnsOK(R)
    BY <1>5, <2>7, <2>8 DEF ReturnsOK
  <2>10. x.to = <<>>
    BY <1>2, <1>8
  <2>11. Created(F, R, b, x)
    BY <1>5, <2>7, <2>8, <2>9, <2>10 DEF Created
  <2> QED BY <2>11 DEF R
<1>9. CASE x.kind = "ret" /\ found = {}
  <2> DEFINE t == n + 1
  <2>1. R = SetNext(H, n, t)
    BY <1>3, <1>5, <1>9
  <2>2. back \in FlowSet /\ back.uses = 0 /\ back.block = 0
        /\ \A p \in PartSet(back) : Target(back, p) = 0
    <3>1. x.ret \in Nat
      BY <1>2, <1>9
    <3> QED BY <3>1, BareFlow DEF NewFlow
  <2>3. Earlier > 0 => 1 \in DOMAIN G
    BY <1>5
  <2> HIDE DEF back, found
  <2>4. Grown(G, H, back)
    BY <1>5, <2>2, <2>3, AppendCounted
  <2>5. /\ GraphOK(H) /\ AllCounted(H) /\ DOMAIN H = DOMAIN G \cup {t} /\ t \notin DOMAIN G
        /\ H[t] = back /\ \A j \in DOMAIN G : H[j] = G[j]
    BY <1>5, <2>4 DEF Grown
  <2> HIDE DEF H
  <2>6. t \in DOMAIN H /\ H[t].block # 1 /\ n \in DOMAIN H /\ H[n] = new
        /\ next \in PartSet(H[n]) /\ Target(H[n], next) = 0
    BY <1>1, <1>5, <2>2, <2>5
  <2> HIDE DEF t
  <2>7. Linked(H, SetTarget(H, n, next, t), n, next, t)
    BY <2>5, <2>6, LinkCounted
  <2>8. R = SetTarget(H, n, next, t)
    BY <2>1 DEF SetNext
  <2>9. Linked(H, R, n, next, t)
    BY <2>7, <2>8
  <2>10. ASSUME NEW j \in DOMAIN F
         PROVE  /\ R[j].block = F[j].block /\ R[j].ret = F[j].ret /\ PartSet(R[j]) = PartSet(F[j])
                /\ \A p \in PartSet(F[j]) : Target(R[j], p) = Target(F[j], p)
                /\ R[j].uses = 0 => F[j].uses = 0
    <3>1. j # n /\ j # t /\ j \in DOMAIN H /\ H[j] = F[j]
      BY <1>5, <2>5
    <3>2. PICK u \in Nat : u = F[j].uses
      BY <1>2
    <3> QED BY <2>9, <3>1, <3>2 DEF Linked
  <2>11. GraphOK(R) /\ AllCounted(R) /\ DOMAIN R = DOMAIN F \cup {n, t}
         /\ R[n].block = b /\ R[n].ret = 0 /\ R[t].block = 0
    BY <1>1, <1>5, <2>2, <2>5, <2>6, <2>9 DEF Linked
  <2>12. R[t].uses # 0
    <3>1. R[t].uses = 0 + 1
      BY <2>2, <2>5, <2>6, <2>9 DEF Linked
    <3> QED BY <3>1
  <2>13. ReturnsOK(R)
    BY <2>10, <2>11 DEF ReturnsOK
  <2>14. x.to = <<>>
    BY <1>2, <1>9
  <2>15. Created(F, R, b, x)
    BY <1>5, <2>10, <2>11, <2>12, <2>13, <2>14 DEF Created
  <2> QED BY <2>15 DEF R
<1> QED BY <1>7, <1>8, <1>9

\* Making the flow of a block and calling Get_Or_Create_Flow for its first part
\* keeps the invariant.
LEMMA CreateFlowKeeps ==
    ASSUME IInv, CreateFlow
    PROVE  IInv'
<1> DEFINE G == flows'
           s == src'
           of == flowOf'
           v == visits'
           f == Len(flows) + 1
           b == Wanted
<1>1. /\ pass = 0 /\ pass' = 0 /\ processed' = processed
      /\ Visiting.todo # <<>> /\ b \notin DOMAIN flowOf
  BY DEF CreateFlow
<1>2. PICK x \in Blocks :
        /\ s = With(src, b, x) /\ of = With(flowOf, b, f)
        /\ G = WithFlowOf(flows, b, x)
        /\ v = Append(visits, [flow |-> f, todo |-> TargetParts(x)])
  BY DEF CreateFlow
<1> DEFINE new == [flow |-> f, todo |-> TargetParts(x)]
<1>3. PICK n \in Nat \ {0} :
        /\ n = Len(visits) /\ DOMAIN visits = 1 .. n /\ Visiting = visits[n]
        /\ \A m \in 1 .. n : visits[m] \in VisitSet
        /\ visits[1].flow = 0
        /\ b = WantedBy(flows, src, visits[n])
        /\ \A m \in 2 .. n : visits[m].flow \in DOMAIN flows
        /\ \A m \in 1 .. n : visits[m].flow = 0 => m = 1
  BY <1>1, MakingIs
<1>4. b \in Nat \ {0}
  BY <1>1, WantedIs
<1>5. /\ GraphOK(flows) /\ AllCounted(flows) /\ ReturnsOK(flows) /\ Placed(flows, flowOf)
      /\ VisitsOK(flows, src, flowOf, visits) /\ Reached(flows, src, flowOf, visits)
      /\ SourceOK(src, DOMAIN flowOf) /\ processed = {}
  BY <1>1 DEF IInv, Making
<1>6. Created(flows, G, b, x)
  <2>1. Earlier > 0 => 1 \in DOMAIN flows
    BY <1>5 DEF Placed
  <2>2. Created(flows, WithFlowOf(flows, b, x), b, x)
    BY <1>4, <1>5, <2>1, WithFlowOfIs
  <2> QED BY <1>2, <2>2
<1>7. x \in BlockSet /\ Len(x.to) \in Nat
  BY BlockIs
<1>8. DOMAIN src = DOMAIN flowOf
  BY <1>5 DEF SourceOK
<1>9. /\ DOMAIN s = DOMAIN src \cup {b} /\ s[b] = x /\ \A c \in DOMAIN src : s[c] = src[c]
      /\ DOMAIN of = DOMAIN flowOf \cup {b} /\ of[b] = f /\ \A c \in DOMAIN flowOf : of[c] = flowOf[c]
  <2>1. b \notin DOMAIN src
    BY <1>1, <1>8
  <2> HIDE DEF b, f
  <2>2. /\ DOMAIN With(src, b, x) = DOMAIN src \cup {b} /\ With(src, b, x)[b] = x
        /\ \A c \in DOMAIN src : With(src, b, x)[c] = src[c]
    BY <2>1 DEF With
  <2>3. /\ DOMAIN With(flowOf, b, f) = DOMAIN flowOf \cup {b} /\ With(flowOf, b, f)[b] = f
        /\ \A c \in DOMAIN flowOf : With(flowOf, b, f)[c] = flowOf[c]
    BY <1>1 DEF With
  <2> QED BY <1>2, <2>2, <2>3
<1>10. /\ v \in Seq(VisitSet) /\ Len(v) = n + 1 /\ DOMAIN v = 1 .. n + 1
       /\ v[n + 1].flow = f /\ v[n + 1].todo = TargetParts(x)
       /\ \A m \in 1 .. n : v[m] = visits[m]
  <2>1. TargetParts(x) \in Seq({"next", "if", "case"} \X Nat)
    BY <1>4, TargetPartsAre
  <2>2. f \in Nat
    BY <1>5, LenProperties DEF GraphOK
  <2> HIDE DEF f
  <2>3. new \in VisitSet
    <3> DEFINE S == {"next", "if", "case"} \X Nat
    <3>1. VisitSet = [flow : Nat, todo : Seq(S)]
      BY DEF VisitSet
    <3>2. TargetParts(x) \in Seq(S)
      BY <2>1
    <3> HIDE DEF S
    <3> QED BY <2>2, <3>1, <3>2
  <2>4. new.flow = f /\ new.todo = TargetParts(x)
    OBVIOUS
  <2>5. visits \in Seq(VisitSet)
    BY <1>5 DEF VisitsOK
  <2>6. v = Append(visits, new)
    BY <1>2
  <2> HIDE DEF new, v
  <2>7. /\ v \in Seq(VisitSet) /\ Len(v) = n + 1 /\ v[n + 1] = new
        /\ \A m \in 1 .. n : v[m] = visits[m]
    BY <1>3, <2>3, <2>5, <2>6, AppendProperties
  <2>8. DOMAIN v = 1 .. n + 1
    BY <2>7, LenProperties
  <2> QED BY <2>4, <2>7, <2>8
<1> HIDE DEF G, s, of, v, new
<1>11. /\ GraphOK(G) /\ AllCounted(G) /\ ReturnsOK(G)
       /\ f \notin DOMAIN flows /\ f \in DOMAIN G /\ DOMAIN flows \subseteq DOMAIN G
       /\ G[f].block = b
       /\ x.to # <<>> => G[f] = StartFlow(b, x)
       /\ \A j \in DOMAIN flows :
            /\ G[j].block = flows[j].block /\ PartSet(G[j]) = PartSet(flows[j])
            /\ \A p \in PartSet(flows[j]) : Target(G[j], p) = Target(flows[j], p)
            /\ G[j].uses = 0 => flows[j].uses = 0
       /\ \A j \in DOMAIN G : j \in DOMAIN flows \/ j = f \/ G[j].uses # 0
  BY <1>6 DEF Created
<1> HIDE DEF f, b
<1>12. ASSUME NEW m \in 2 .. n
       PROVE  /\ visits[m].flow \in DOMAIN flows /\ VisitOK(flows, src, visits[m])
              /\ G[visits[m].flow].block = flows[visits[m].flow].block
              /\ flows[visits[m].flow].block \in DOMAIN src
              /\ s[flows[visits[m].flow].block] = src[flows[visits[m].flow].block]
  <2>1. VisitOK(flows, src, visits[m])
    BY <1>3, <1>5 DEF VisitsOK
  <2>2. visits[m].flow \in DOMAIN flows /\ flows[visits[m].flow].block \in DOMAIN src
    BY <2>1 DEF VisitOK
  <2> QED BY <1>9, <1>11, <2>1, <2>2
<1>13. \A m \in 1 .. n : WantedBy(G, s, visits[m]) = WantedBy(flows, src, visits[m])
  <2> SUFFICES ASSUME NEW m \in 1 .. n
               PROVE  WantedBy(G, s, visits[m]) = WantedBy(flows, src, visits[m])
    OBVIOUS
  <2>1. CASE visits[m].flow = 0
    BY <2>1 DEF WantedBy
  <2>2. CASE visits[m].flow # 0
    <3>1. m \in 2 .. n
      <4>1. m # 1
        BY <1>3, <2>2
      <4> QED BY <4>1
    <3> QED BY <1>12, <2>2, <3>1 DEF WantedBy
  <2> QED BY <2>1, <2>2
<1>14. ASSUME NEW m \in 2 .. n + 1 PROVE VisitOK(G, s, v[m])
  <2>1. CASE m # n + 1
    <3> DEFINE w == visits[m]
    <3>1. m \in 2 .. n /\ v[m] = w
      BY <1>10, <2>1
    <3>2. /\ w.flow \in DOMAIN flows /\ VisitOK(flows, src, w)
          /\ G[w.flow].block = flows[w.flow].block
          /\ flows[w.flow].block \in DOMAIN src
          /\ s[flows[w.flow].block] = src[flows[w.flow].block]
      BY <1>12, <3>1
    <3> HIDE DEF w
    <3>3. /\ w.flow \in DOMAIN G /\ PartSet(G[w.flow]) = PartSet(flows[w.flow])
          /\ \A p \in PartSet(flows[w.flow]) : Target(G[w.flow], p) = Target(flows[w.flow], p)
      BY <1>11, <3>2
    <3>4. flows[w.flow].block \in DOMAIN s
      BY <1>9, <3>2
    <3>5. VisitOK(G, s, w)
      BY <3>2, <3>3, <3>4 DEF VisitOK
    <3> QED BY <3>1, <3>5
  <2>2. CASE m = n + 1
    <3> DEFINE todo == TargetParts(x)
    <3>1. v[m].flow = f /\ v[m].todo = todo
      BY <1>10, <2>2
    <3>2. /\ Len(todo) = Len(x.to) /\ DOMAIN todo = DOMAIN x.to
          /\ \A k \in DOMAIN todo :
               /\ todo[k] \in PartSet(StartFlow(b, x))
               /\ \A l \in DOMAIN todo : k # l => todo[k] # todo[l]
      BY <1>4, TargetPartsAre
    <3>3. \A p \in PartSet(StartFlow(b, x)) : Target(StartFlow(b, x), p) = 0
      BY <1>4, StartFlowIs
    <3>4. ASSUME NEW k \in DOMAIN todo PROVE G[f] = StartFlow(b, x)
      <4>1. DOMAIN x.to # {}
        BY <3>2
      <4>2. x.to # <<>>
        <5>1. DOMAIN <<>> = {}
          BY EmptySeq
        <5> QED BY <4>1, <5>1
      <4> QED BY <1>11, <4>2
    <3> HIDE DEF todo
    <3>5. \A k \in DOMAIN todo :
            /\ todo[k] \in PartSet(G[f]) /\ Target(G[f], todo[k]) = 0
            /\ \A l \in DOMAIN todo : k # l => todo[k] # todo[l]
      BY <3>2, <3>3, <3>4
    <3>6. Len(todo) <= Len(s[G[f].block].to)
      BY <1>7, <1>9, <1>11, <3>2
    <3>7. f \in DOMAIN G /\ G[f].block \in DOMAIN s
      BY <1>9, <1>11
    <3> QED BY <3>1, <3>5, <3>6, <3>7 DEF VisitOK
  <2> QED BY <2>1, <2>2
<1>15. \A m, k \in 1 .. n + 1 : m # k => v[m].flow # v[k].flow
  <2>1. \A m, k \in 1 .. n : m # k => v[m].flow # v[k].flow
    <3>1. \A m, k \in 1 .. n : m # k => visits[m].flow # visits[k].flow
      BY <1>3, <1>5 DEF VisitsOK
    <3> QED BY <1>10, <3>1
  <2>2. ASSUME NEW m \in 1 .. n PROVE v[m].flow # f
    <3>1. f # 0
      <4>1. Len(flows) \in Nat
        BY <1>5, LenProperties DEF GraphOK
      <4> QED BY <4>1 DEF f
    <3>2. CASE m = 1
      BY <1>3, <1>10, <3>1, <3>2
    <3>3. CASE m # 1
      <4>1. m \in 2 .. n
        BY <3>3
      <4>2. v[m].flow \in DOMAIN flows
        BY <1>3, <1>10, <4>1
      <4> QED BY <1>11, <4>2
    <3> QED BY <3>2, <3>3
  <2>3. \A m \in 1 .. n + 1 : m \in 1 .. n \/ m = n + 1
    OBVIOUS
  <2> QED BY <1>10, <2>1, <2>2, <2>3
<1>16. VisitsOK(G, s, of, v)
  <2>1. v[1] = [flow |-> 0, todo |-> << <<"next", 0>> >>] /\ v # <<>>
    <3>1. 1 \in 1 .. n
      OBVIOUS
    <3>2. visits[1] = [flow |-> 0, todo |-> << <<"next", 0>> >>]
      BY <1>5 DEF VisitsOK
    <3> QED BY <1>10, <3>1, <3>2, EmptySeq
  <2>2. ASSUME NEW m \in 2 .. n + 1
        PROVE  /\ v[m - 1].todo # <<>>
               /\ WantedBy(G, s, v[m - 1]) \in DOMAIN of
               /\ of[WantedBy(G, s, v[m - 1])] = v[m].flow
    <3>1. m - 1 \in 1 .. n
      OBVIOUS
    <3>2. v[m - 1] = visits[m - 1] /\ WantedBy(G, s, v[m - 1]) = WantedBy(flows, src, visits[m - 1])
      BY <1>10, <1>13, <3>1
    <3>3. CASE m = n + 1
      <4>1. v[m - 1] = Visiting /\ WantedBy(G, s, v[m - 1]) = b
        BY <1>3, <3>2, <3>3
      <4> QED BY <1>1, <1>9, <1>10, <3>3, <4>1
    <3>4. CASE m # n + 1
      <4>1. m \in 2 .. n
        BY <3>4
      <4>2. /\ visits[m - 1].todo # <<>>
            /\ WantedBy(flows, src, visits[m - 1]) \in DOMAIN flowOf
            /\ flowOf[WantedBy(flows, src, visits[m - 1])] = visits[m].flow
        BY <1>3, <1>5, <4>1 DEF VisitsOK
      <4>3. v[m] = visits[m]
        BY <1>10, <4>1
      <4> QED BY <1>9, <3>2, <4>2, <4>3
    <3> QED BY <3>3, <3>4
  <2> QED BY <1>10, <1>14, <1>15, <2>1, <2>2 DEF VisitsOK
<1>17. Reached(G, s, of, v)
  <2> SUFFICES ASSUME NEW j \in DOMAIN G, G[j].uses = 0 PROVE \E m \in DOMAIN v : v[m].flow = j
    BY DEF Reached
  <2>1. CASE j = f
    <3>1. n + 1 \in DOMAIN v
      BY <1>10
    <3> QED BY <1>10, <2>1, <3>1
  <2>2. CASE j # f
    <3>1. j \in DOMAIN flows /\ flows[j].uses = 0
      BY <1>11, <2>2
    <3>2. ~ (b \in DOMAIN flowOf)
      BY <1>1 DEF b
    <3>3. PICK m \in DOMAIN visits : visits[m].flow = j
      BY <1>3, <1>5, <3>1, <3>2 DEF Reached
    <3>4. m \in DOMAIN v /\ v[m] = visits[m]
      BY <1>3, <1>10, <3>3
    <3> QED BY <3>3, <3>4
  <2> QED BY <2>1, <2>2
<1>18. SourceOK(s, DOMAIN of)
  <2>1. DOMAIN of \subseteq Nat \ {0}
    BY <1>4, <1>5, <1>9 DEF SourceOK
  <2>2. \A c \in DOMAIN s : s[c] \in BlockSet
    BY <1>5, <1>7, <1>9 DEF SourceOK
  <2> QED BY <1>8, <1>9, <2>1, <2>2 DEF SourceOK
<1>19. Placed(G, of)
  <2>1. ASSUME NEW c \in DOMAIN of PROVE of[c] \in DOMAIN G /\ G[of[c]].block = c
    <3>1. CASE c = b
      BY <1>9, <1>11, <3>1
    <3>2. CASE c # b
      <4>1. c \in DOMAIN flowOf /\ of[c] = flowOf[c]
        BY <1>9, <3>2
      <4>2. flowOf[c] \in DOMAIN flows /\ flows[flowOf[c]].block = c
        BY <1>5, <4>1 DEF Placed
      <4> QED BY <1>11, <4>1, <4>2
    <3> QED BY <3>1, <3>2
  <2>2. Earlier > 0 => 1 \in DOMAIN G /\ G[1].block = 0
    BY <1>5, <1>11 DEF Placed
  <2> QED BY <2>1, <2>2 DEF Placed
<1>20. Making'
  BY <1>1, <1>5, <1>11, <1>16, <1>17, <1>18 DEF Making, G, s, of, v
<1>21. GraphOK(flows)' /\ Placed(flows, flowOf)'
  BY <1>11, <1>19 DEF G, of
<1> QED BY <1>1, <1>20, <1>21 DEF IInv, LastPass

\* The invariant holds before the first block is visited.
LEMMA InitCounted ==
    ASSUME Init
    PROVE  IInv
<1>1. /\ src = <<>> /\ flowOf = <<>> /\ pass = 0 /\ processed = {}
      /\ visits = <<[flow |-> 0, todo |-> << <<"next", 0>> >>]>>
      /\ Earlier = 0 => flows = <<>>
      /\ Earlier # 0 => flows = <<[NewFlow(0, FALSE, 1) EXCEPT !.uses = Earlier]>>
  BY DEF Init
<1>2. DOMAIN flowOf = {} /\ DOMAIN src = {}
  BY <1>1, EmptySeq
<1>3. Earlier \in Nat
  BY FlowAssumption
<1>4. /\ flows \in Seq(FlowSet)
      /\ \A j \in DOMAIN flows :
           /\ j = 1 /\ Earlier # 0 /\ flows[j].uses = Earlier /\ flows[j].block = 0
           /\ \A p \in PartSet(flows[j]) : Target(flows[j], p) = 0
      /\ Earlier # 0 => DOMAIN flows = {1}
  <2>1. CASE Earlier = 0
    BY <1>1, <2>1, EmptySeq
  <2>2. CASE Earlier # 0
    <3> DEFINE bare == NewFlow(0, FALSE, 1)
               one == [bare EXCEPT !.uses = Earlier]
    <3>1. /\ bare \in FlowSet /\ bare.block = 0
          /\ \A p \in PartSet(bare) : Target(bare, p) = 0
      BY BareFlow DEF NewFlow
    <3>2. flows = <<one>>
      BY <1>1, <2>2
    <3> HIDE DEF bare
    <3>3. one \in FlowSet /\ one.uses = Earlier /\ one.block = 0 /\ SameParts(bare, one)
      BY <1>3, <3>1 DEF FlowSet, SameParts
    <3> HIDE DEF one
    <3>4. \A p \in PartSet(one) : Target(one, p) = 0
      BY <3>1, <3>3, SamePart
    <3>5. flows \in Seq(FlowSet) /\ Len(flows) = 1 /\ flows[1] = one
      BY <3>2, <3>3
    <3>6. DOMAIN flows = {1}
      <4>1. DOMAIN flows = 1 .. 1
        BY <3>5, LenProperties
      <4> QED BY <4>1
    <3> QED BY <2>2, <3>3, <3>4, <3>5, <3>6
  <2> QED BY <2>1, <2>2
<1>5. \A r \in References(flows, DOMAIN flows) : r[3] = 0
  <2> SUFFICES ASSUME NEW r \in References(flows, DOMAIN flows) PROVE r[3] = 0
    OBVIOUS
  <2>1. r[1] \in DOMAIN flows /\ r[2] \in PartSet(flows[r[1]]) /\ r[3] = Target(flows[r[1]], r[2])
    BY ReferenceParts
  <2> QED BY <1>4, <2>1
<1>6. GraphOK(flows)
  BY <1>4, <1>5 DEF GraphOK
<1>7. AllCounted(flows)
  <2> SUFFICES ASSUME NEW j \in DOMAIN flows
               PROVE  flows[j].uses = Given0(j) + Number(References(flows, DOMAIN flows), j)
    BY DEF AllCounted
  <2>1. j = 1 /\ flows[j].uses = Earlier /\ Earlier > 0
    BY <1>3, <1>4
  <2>2. {r \in References(flows, DOMAIN flows) : r[3] = j} = {}
    BY <1>5, <2>1
  <2>3. Number(References(flows, DOMAIN flows), j) = 0
    BY <2>2, FS_EmptySet DEF Number
  <2>4. Given0(j) = Earlier
    BY <2>1 DEF Given0
  <2> QED BY <1>3, <2>1, <2>3, <2>4
<1>8. ReturnsOK(flows) /\ Placed(flows, flowOf)
  <2>1. Earlier > 0 => Earlier # 0
    BY <1>3
  <2> QED BY <1>2, <1>4, <2>1 DEF ReturnsOK, Placed
<1>9. SourceOK(src, DOMAIN flowOf)
  BY <1>2 DEF SourceOK
<1>10. /\ visits \in Seq(VisitSet) /\ Len(visits) = 1 /\ DOMAIN visits = {1} /\ visits # <<>>
       /\ visits[1] = [flow |-> 0, todo |-> << <<"next", 0>> >>]
  <2> DEFINE S == {"next", "if", "case"} \X Nat
             todo == << <<"next", 0>> >>
             call == [flow |-> 0, todo |-> todo]
  <2>1. <<"next", 0>> \in S
    OBVIOUS
  <2>2. todo \in Seq(S)
    BY <2>1
  <2>3. VisitSet = [flow : Nat, todo : Seq(S)]
    BY DEF VisitSet
  <2>4. visits = <<call>>
    BY <1>1
  <2> HIDE DEF S, todo
  <2>5. call \in VisitSet
    BY <2>2, <2>3
  <2> HIDE DEF call
  <2>6. visits \in Seq(VisitSet) /\ Len(visits) = 1 /\ visits[1] = call
    BY <2>4, <2>5
  <2>7. DOMAIN visits = {1} /\ visits # <<>>
    <3>1. DOMAIN visits = 1 .. 1
      BY <2>6, LenProperties
    <3>2. DOMAIN visits = {1}
      BY <3>1
    <3> QED BY <3>2, EmptySeq
  <2> QED BY <2>6, <2>7 DEF call, todo
<1>11. VisitsOK(flows, src, flowOf, visits)
  <2>1. 2 .. Len(visits) = {}
    BY <1>10
  <2> QED BY <1>10, <2>1 DEF VisitsOK
<1>12. Reached(flows, src, flowOf, visits)
  BY <1>4 DEF Reached
<1>13. Making
  BY <1>1, <1>7, <1>8, <1>9, <1>11, <1>12 DEF Making
<1> QED BY <1>1, <1>6, <1>8, <1>13 DEF IInv, LastPass

\* Steps of the environment that change nothing keep it.
LEMMA NothingCounted ==
    ASSUME IInv, UNCHANGED vars
    PROVE  IInv'
<1>1. /\ src' = src /\ flows' = flows /\ flowOf' = flowOf /\ visits' = visits
      /\ pass' = pass /\ walk' = walk /\ processed' = processed
  BY DEF vars
<1>2. Making => Making'
  BY <1>1 DEF Making
<1>3. Passing => Passing'
  <2>1. Extra(flows)' = Extra(flows)
    BY <1>1 DEF Extra, Given, Root
  <2>2. WalkOK(flows, walk, processed) => WalkOK(flows, walk, processed)'
    BY <1>1 DEF WalkOK, Root
  <2> QED BY <1>1, <2>1, <2>2 DEF Passing
<1> QED BY <1>1, <1>2, <1>3 DEF IInv, LastPass

(***************************************************************************)
(* The theorems                                                            *)
(***************************************************************************)
\* In every state the graph is well formed, the uses of each flow are those that
\* are given to it and the references of the flows in use, and each flow of the
\* walk is used by one that is before it in the walk.
THEOREM IInvHolds == Spec => []IInv
<1>1. Init => IInv
  BY InitCounted
<1>2. IInv /\ [Next]_vars => IInv'
  <2> SUFFICES ASSUME IInv, [Next]_vars PROVE IInv'
    OBVIOUS
  <2>1. CASE CreateFlow
    BY <2>1, CreateFlowKeeps
  <2>2. CASE LinkFlow
    BY <2>2, LinkFlowKeeps
  <2>3. CASE ReturnFromVisit
    BY <2>3, ReturnFromVisitKeeps
  <2>4. CASE StartPasses
    BY <2>4, StartPassesKeeps
  <2>5. CASE Process
    BY <2>5, ProcessKeeps
  <2>6. CASE UNCHANGED vars
    BY <2>6, NothingCounted
  <2> QED BY <2>1, <2>2, <2>3, <2>4, <2>5, <2>6 DEF Next
<1> QED BY <1>1, <1>2, PTL DEF Spec

\* For a function of any size, whatever its blocks end with: through all the
\* passes the count of uses of a flow is the number of references to it, so that
\* Output_Flow may write a flow with one use in the place of its only goto, and
\* Remove_Use reaches 0 for those flows alone that nothing leads to any more.
THEOREM UsesAlwaysCounted == Spec => []UsesCounted
<1>1. IInv => UsesCounted
  BY CountedThen
<1> QED BY <1>1, IInvHolds, PTL
=============================================================================
