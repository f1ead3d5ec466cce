-------------------------- MODULE BlocksPathsProofs --------------------------
(***************************************************************************)
(* Theorems about what runs on the way out of a block that is left by a    *)
(* jump, a return or its end: cleanups, ends of lifetimes and restored     *)
(* stack pointers.                                                         *)
(***************************************************************************)
EXTENDS BlocksProofs

-----------------------------------------------------------------------------
(* FlattenSeq                                                              *)

\* f is the concatenation of the first n sequences of s, for each n up to m.
Joins(f, s, m) ==
  f = [i \in 1 .. m |-> IF i = 1 THEN s[i] ELSE f[i - 1] \o s[i]]

\* The recursive function of FlattenSeq exists.
LEMMA JoinsExist ==
  ASSUME NEW s, NEW n \in Nat \ {0}
  PROVE  \E f : Joins(f, s, n)
<1> DEFINE T == {m \in 1 .. n : ~ \E f : Joins(f, s, m)}
<1> SUFFICES T = {}
  <2>1. n \in 1 .. n
    OBVIOUS
  <2> QED
    BY <2>1
<1> SUFFICES ASSUME T # {} PROVE FALSE
  OBVIOUS
<1>1. T \subseteq Nat
  OBVIOUS
<1>2. PICK x \in T : \A y \in T : x <= y
  <2> HIDE DEF T
  <2> QED
    BY <1>1, SmallestExists
<1>3. x \in 1 .. n /\ ~ \E f : Joins(f, s, x)
  OBVIOUS
<1>4. CASE x = 1
  <2> DEFINE f == [i \in 1 .. 1 |-> s[i]]
  <2>1. Joins(f, s, 1)
    BY DEF Joins
  <2> HIDE DEF f
  <2> QED
    BY <1>3, <1>4, <2>1
<1>5. CASE x # 1
  <2>1. x - 1 \in 1 .. n /\ x - 1 \notin T
    BY <1>2, <1>3, <1>5
  <2>2. PICK g : Joins(g, s, x - 1)
    BY <2>1
  <2> DEFINE last == g[x - 1] \o s[x]
             f == [i \in 1 .. x |-> IF i = x THEN last ELSE g[i]]
  <2>3. \A i \in 1 .. x - 1 : g[i] = IF i = 1 THEN s[i] ELSE g[i - 1] \o s[i]
    BY <2>2 DEF Joins
  <2>7. f[x] = last /\ \A m \in 1 .. x : m # x => f[m] = g[m]
    <3> HIDE DEF last, T
    <3>1. x \in 1 .. x
      BY <1>3
    <3> QED
      BY <3>1
  <2>5. f = [i \in 1 .. x |-> f[i]]
    OBVIOUS
  <2> HIDE DEF f
  <2>4. \A i \in 1 .. x : f[i] = IF i = 1 THEN s[i] ELSE f[i - 1] \o s[i]
    <3> SUFFICES ASSUME NEW i \in 1 .. x
                 PROVE  f[i] = IF i = 1 THEN s[i] ELSE f[i - 1] \o s[i]
      OBVIOUS
    <3>1. CASE i = x
      <4>1. x - 1 \in 1 .. x /\ x - 1 # x
        BY <1>3, <1>5
      <4>2. f[x - 1] = g[x - 1] /\ f[x] = g[x - 1] \o s[x]
        BY <2>7, <4>1
      <4> QED
        BY <1>5, <3>1, <4>2
    <3>2. CASE i # x
      <4>1. i \in 1 .. x - 1 /\ f[i] = g[i]
        BY <1>3, <2>7, <3>2
      <4>2. i # 1 => f[i - 1] = g[i - 1]
        BY <1>3, <2>7, <4>1
      <4> QED
        BY <2>3, <4>1, <4>2
    <3> QED
      BY <3>1, <3>2
  <2>6. f = [i \in 1 .. x |-> IF i = 1 THEN s[i] ELSE f[i - 1] \o s[i]]
    BY <2>4, <2>5
  <2> QED
    BY <1>3, <2>6 DEF Joins
<1> QED
  BY <1>4, <1>5

LEMMA FlattenJoins ==
  ASSUME NEW s, Len(s) \in Nat \ {0}
  PROVE  \E f : Joins(f, s, Len(s)) /\ FlattenSeq(s) = f[Len(s)]
<1> DEFINE n == Len(s)
           f == CHOOSE g : Joins(g, s, n)
<1>1. Joins(f, s, n)
  BY JoinsExist, Zenon
<1>2. FlattenSeq(s) = f[n]
  BY DEF FlattenSeq, Joins
<1> HIDE DEF f
<1> QED
  BY <1>1, <1>2

LEMMA FlattenEmpty ==
  ASSUME NEW s, Len(s) = 0
  PROVE  FlattenSeq(s) = s
BY DEF FlattenSeq

\* Up to three sequences.
LEMMA FlattenFew ==
  ASSUME NEW s, Len(s) \in 1 .. 3
  PROVE  /\ Len(s) = 1 => FlattenSeq(s) = s[1]
         /\ Len(s) = 2 => FlattenSeq(s) = s[1] \o s[2]
         /\ Len(s) = 3 => FlattenSeq(s) = (s[1] \o s[2]) \o s[3]
<1>1. PICK f : Joins(f, s, Len(s)) /\ FlattenSeq(s) = f[Len(s)]
  BY FlattenJoins
<1>2. \A i \in 1 .. Len(s) : f[i] = IF i = 1 THEN s[i] ELSE f[i - 1] \o s[i]
  BY <1>1 DEF Joins
<1>3. f[1] = s[1]
  BY <1>2
<1>4. ASSUME Len(s) > 1 PROVE f[2] = s[1] \o s[2]
  <2>1. 2 \in 1 .. Len(s) /\ 2 # 1 /\ 2 - 1 = 1
    BY <1>4
  <2> QED
    BY <1>2, <1>3, <2>1
<1>5. ASSUME Len(s) > 2 PROVE f[3] = (s[1] \o s[2]) \o s[3]
  <2>1. 3 \in 1 .. Len(s) /\ 3 # 1 /\ 3 - 1 = 2 /\ Len(s) > 1
    BY <1>5
  <2> QED
    BY <1>2, <1>4, <2>1
<1>6. CASE Len(s) = 1
  BY <1>1, <1>3, <1>6
<1>7. CASE Len(s) = 2
  BY <1>1, <1>4, <1>7
<1>8. CASE Len(s) = 3
  BY <1>1, <1>5, <1>8
<1> QED
  BY <1>6, <1>7, <1>8

\* Sequences of one element each.
LEMMA FlattenSingles ==
  ASSUME NEW S, NEW s \in Seq(Seq(S)), \A i \in 1 .. Len(s) : Len(s[i]) = 1
  PROVE  FlattenSeq(s) = [i \in 1 .. Len(s) |-> s[i][1]]
<1> DEFINE n == Len(s)
           first(m) == [i \in 1 .. m |-> s[i][1]]
<1>1. n \in Nat /\ \A i \in 1 .. n : s[i] \in Seq(S) /\ s[i][1] \in S
  OBVIOUS
<1>2. CASE n = 0
  <2>1. s = <<>> /\ first(0) = <<>>
    BY <1>2
  <2> QED
    BY <1>2, <2>1, FlattenEmpty
<1>3. CASE n # 0
  <2>1. PICK f : Joins(f, s, n) /\ FlattenSeq(s) = f[n]
    BY <1>1, <1>3, FlattenJoins
  <2>2. \A i \in 1 .. n : f[i] = IF i = 1 THEN s[i] ELSE f[i - 1] \o s[i]
    BY <2>1 DEF Joins
  <2> DEFINE T == {m \in 1 .. n : f[m] # first(m)}
  <2>3. T = {}
    <3> SUFFICES ASSUME T # {} PROVE FALSE
      OBVIOUS
    <3>1. T \subseteq Nat
      OBVIOUS
    <3>2. PICK x \in T : \A y \in T : x <= y
      <4> HIDE DEF T
      <4> QED
        BY <3>1, SmallestExists
    <3>3. x \in 1 .. n /\ f[x] # first(x)
      OBVIOUS
    <3>4. s[x] = <<s[x][1]>>
      <4> DEFINE e == s[x]
      <4>1. e \in Seq(S) /\ Len(e) = 1 /\ e[1] \in S
        BY <1>1, <3>3
      <4> HIDE DEF e
      <4>2. <<e[1]>> \in Seq(S) /\ Len(<<e[1]>>) = 1 /\ <<e[1]>>[1] = e[1]
        BY <4>1
      <4>3. e = <<e[1]>>
        BY <4>1, <4>2, SeqEqual
      <4> QED
        BY <4>3 DEF e
    <3>5. x # 1
      <4> SUFFICES ASSUME x = 1 PROVE FALSE
        OBVIOUS
      <4>1. f[1] = <<s[1][1]>>
        BY <2>2, <3>3, <3>4
      <4>2. first(1) = <<s[1][1]>>
        OBVIOUS
      <4> QED
        BY <3>3, <4>1, <4>2
    <3>6. x - 1 \in 1 .. n /\ f[x - 1] = first(x - 1)
      <4>1. x - 1 \in 1 .. n /\ ~ (x <= x - 1)
        BY <3>3, <3>5
      <4>2. x - 1 \notin T
        BY <3>2, <4>1
      <4> QED
        BY <4>1, <4>2
    <3>7. f[x] = first(x - 1) \o <<s[x][1]>>
      BY <2>2, <3>3, <3>4, <3>5, <3>6
    <3>8. first(x - 1) \o <<s[x][1]>> = first(x)
      <4> DEFINE g(i) == s[i][1]
      <4>1. \A i \in 1 .. n : g(i) \in S
        BY <1>1
      <4>2. x - 1 \in Nat /\ x \in Nat /\ x - 1 + 1 = x
        BY <3>3
      <4> HIDE DEF g
      <4>3. /\ [i \in 1 .. (x - 1) |-> g(i)] \in Seq(S) /\ [i \in 1 .. x |-> g(i)] \in Seq(S)
            /\ Len([i \in 1 .. (x - 1) |-> g(i)]) = x - 1 /\ Len([i \in 1 .. x |-> g(i)]) = x
        <5>1. \A i \in 1 .. x : g(i) \in S
          BY <3>3, <4>1
        <5>2. \A i \in 1 .. (x - 1) : g(i) \in S
          BY <3>3, <4>1
        <5> QED
          BY <4>2, <5>1, <5>2, IsASeq
      <4>4. <<g(x)>> \in Seq(S) /\ Len(<<g(x)>>) = 1 /\ <<g(x)>>[1] = g(x)
        BY <3>3, <4>1
      <4>5. [i \in 1 .. (x - 1) |-> g(i)] \o <<g(x)>> = [i \in 1 .. x |-> g(i)]
        BY <3>3, <4>2, <4>3, <4>4, SeqEqual
      <4> QED
        BY <4>5 DEF g
    <3> QED
      BY <3>3, <3>7, <3>8
  <2>4. f[n] = first(n)
    BY <1>1, <1>3, <2>3
  <2> QED
    BY <2>1, <2>4
<1> QED
  BY <1>2, <1>3

\* Every prefix of a sequence of sequences of S is a sequence of S.
LEMMA JoinsType ==
  ASSUME NEW S, NEW s \in Seq(Seq(S)), NEW n \in 1 .. Len(s), NEW f, Joins(f, s, n)
  PROVE  \A m \in 1 .. n : f[m] \in Seq(S)
<1> DEFINE T == {m \in 1 .. n : f[m] \notin Seq(S)}
<1> SUFFICES ASSUME T # {} PROVE FALSE
  OBVIOUS
<1>1. PICK x \in T : \A y \in T : x <= y
  <2>1. T \subseteq Nat
    OBVIOUS
  <2> HIDE DEF T
  <2> QED
    BY <2>1, SmallestExists
<1>2. x \in 1 .. n /\ f[x] \notin Seq(S) /\ s[x] \in Seq(S)
  OBVIOUS
<1>3. f[x] = IF x = 1 THEN s[x] ELSE f[x - 1] \o s[x]
  BY <1>2 DEF Joins
<1>4. x # 1
  BY <1>2, <1>3
<1>5. x - 1 \in 1 .. n /\ ~ (x <= x - 1)
  BY <1>2, <1>4
<1>6. f[x - 1] \in Seq(S)
  BY <1>1, <1>5
<1>7. f[x - 1] \o s[x] \in Seq(S)
  BY <1>2, <1>6, ConcatProperties
<1> QED
  BY <1>2, <1>3, <1>4, <1>7

\* Empty sequences at the start.
LEMMA FlattenSkips ==
  ASSUME NEW S, NEW s \in Seq(Seq(S)), NEW t \in Seq(Seq(S)), NEW k \in Nat,
         Len(s) = k + Len(t),
         \A i \in 1 .. k : s[i] = <<>>,
         \A i \in 1 .. Len(t) : s[k + i] = t[i]
  PROVE  FlattenSeq(s) = FlattenSeq(t)
<1> DEFINE n == Len(s)
           p == Len(t)
<1>1. n \in Nat /\ p \in Nat /\ n = k + p
  OBVIOUS
<1>2. CASE n = 0
  <2>1. s = <<>> /\ t = <<>>
    BY <1>1, <1>2
  <2> QED
    BY <2>1
<1>3. CASE n # 0
  <2>1. PICK f : Joins(f, s, n) /\ FlattenSeq(s) = f[n]
    BY <1>1, <1>3, FlattenJoins
  <2>2. \A i \in 1 .. n : f[i] = IF i = 1 THEN s[i] ELSE f[i - 1] \o s[i]
    BY <2>1 DEF Joins
  <2>3. \A m \in 1 .. k : f[m] = <<>>
    <3> DEFINE T == {m \in 1 .. k : f[m] # <<>>}
    <3> SUFFICES ASSUME T # {} PROVE FALSE
      OBVIOUS
    <3>1. PICK x \in T : \A y \in T : x <= y
      <4>1. T \subseteq Nat
        OBVIOUS
      <4> HIDE DEF T
      <4> QED
        BY <4>1, SmallestExists
    <3>2. x \in 1 .. k /\ x \in 1 .. n /\ f[x] # <<>> /\ s[x] = <<>>
      BY <1>1
    <3>3. x # 1
      BY <2>2, <3>2
    <3>4. x - 1 \in 1 .. k /\ ~ (x <= x - 1)
      BY <3>2, <3>3
    <3>5. f[x - 1] = <<>>
      BY <3>1, <3>4
    <3>6. f[x] = <<>> \o <<>>
      BY <2>2, <3>2, <3>3, <3>5
    <3>7. <<>> \o <<>> = <<>>
      OBVIOUS
    <3> QED
      BY <3>2, <3>6, <3>7
  <2>4. CASE p = 0
    <3>1. t = <<>> /\ n \in 1 .. k
      BY <1>1, <1>3, <2>4
    <3> QED
      BY <2>1, <2>3, <3>1, FlattenEmpty
  <2>5. CASE p # 0
    <3>1. PICK g : Joins(g, t, p) /\ FlattenSeq(t) = g[p]
      BY <1>1, <2>5, FlattenJoins
    <3>2. \A i \in 1 .. p : g[i] = IF i = 1 THEN t[i] ELSE g[i - 1] \o t[i]
      BY <3>1 DEF Joins
    <3>3. \A m \in 1 .. p : f[k + m] = g[m]
      <4> DEFINE T == {m \in 1 .. p : f[k + m] # g[m]}
      <4> SUFFICES ASSUME T # {} PROVE FALSE
        OBVIOUS
      <4>1. PICK x \in T : \A y \in T : x <= y
        <5>1. T \subseteq Nat
          OBVIOUS
        <5> HIDE DEF T
        <5> QED
          BY <5>1, SmallestExists
      <4>2. /\ x \in 1 .. p /\ f[k + x] # g[x] /\ s[k + x] = t[x]
            /\ k + x \in 1 .. n /\ t[x] \in Seq(S)
        BY <1>1
      <4>3. CASE x = 1
        <5>1. g[x] = t[x]
          BY <3>2, <4>2, <4>3
        <5>2. CASE k = 0
          BY <2>2, <4>2, <4>3, <5>1, <5>2
        <5>3. CASE k # 0
          <6>1. k + x # 1 /\ (k + x) - 1 = k /\ k \in 1 .. k
            <7> HIDE DEF T, n, p
            <7> QED
              BY <4>3, <5>3
          <6>2. f[k + x] = <<>> \o t[x]
            BY <2>2, <2>3, <4>2, <6>1, ZenonT(40)
          <6>3. <<>> \o t[x] = t[x]
            BY <4>2, ConcatEmptySeq
          <6> QED
            BY <4>2, <5>1, <6>2, <6>3
        <5> QED
          BY <5>2, <5>3
      <4>4. CASE x # 1
        <5>1. x - 1 \in 1 .. p /\ ~ (x <= x - 1) /\ (k + x) - 1 = k + (x - 1) /\ k + x # 1
          BY <4>2, <4>4
        <5>2. f[k + (x - 1)] = g[x - 1]
          BY <4>1, <5>1
        <5>3. f[k + x] = f[k + (x - 1)] \o t[x]
          BY <2>2, <4>2, <5>1
        <5>4. g[x] = g[x - 1] \o t[x]
          BY <3>2, <4>2, <4>4
        <5> QED
          BY <4>2, <5>2, <5>3, <5>4
      <4> QED
        BY <4>3, <4>4
    <3> QED
      BY <1>1, <2>1, <2>5, <3>1, <3>3
  <2> QED
    BY <2>4, <2>5
<1> QED
  BY <1>2, <1>3

-----------------------------------------------------------------------------
(* The code for one block                                                  *)

\* Short tuples.
LEMMA ConcatTwo ==
  ASSUME NEW x, NEW y
  PROVE  <<x>> \o <<y>> = <<x, y>>
<1> DEFINE S == {x, y}
           s == <<x>> \o <<y>>
           t == <<x, y>>
<1>1. /\ <<x>> \in Seq(S) /\ Len(<<x>>) = 1 /\ <<x>>[1] = x
      /\ <<y>> \in Seq(S) /\ Len(<<y>>) = 1 /\ <<y>>[1] = y
  OBVIOUS
<1>2. t \in Seq(S) /\ Len(t) = 2 /\ t[1] = x /\ t[2] = y
  OBVIOUS
<1> HIDE DEF S
<1>3. s \in Seq(S) /\ Len(s) = 2 /\ s[1] = x /\ s[2] = y
  BY <1>1, ConcatProperties
<1> HIDE DEF s, t
<1>4. \A i \in 1 .. 2 : s[i] = t[i]
  <2>1. \A i \in 1 .. 2 : i = 1 \/ i = 2
    OBVIOUS
  <2> QED
    BY <1>2, <1>3, <2>1
<1>5. s = t
  BY <1>2, <1>3, <1>4, SeqEqual
<1> QED
  BY <1>5 DEF s, t

LEMMA ConcatThree ==
  ASSUME NEW x, NEW y, NEW z
  PROVE  <<x, y>> \o <<z>> = <<x, y, z>>
<1> DEFINE S == {x, y, z}
           s == <<x, y>> \o <<z>>
           t == <<x, y, z>>
<1>1. /\ <<x, y>> \in Seq(S) /\ Len(<<x, y>>) = 2
      /\ <<x, y>>[1] = x /\ <<x, y>>[2] = y
      /\ <<z>> \in Seq(S) /\ Len(<<z>>) = 1 /\ <<z>>[1] = z
  OBVIOUS
<1>2. t \in Seq(S) /\ Len(t) = 3 /\ t[1] = x /\ t[2] = y /\ t[3] = z
  OBVIOUS
<1> HIDE DEF S
<1>3. s \in Seq(S) /\ Len(s) = 3 /\ s[1] = x /\ s[2] = y /\ s[3] = z
  <2>1. s \in Seq(S) /\ Len(s) = 3
    BY <1>1, ConcatProperties
  <2>2. \A i \in 1 .. 3 : s[i] = IF i <= 2 THEN <<x, y>>[i] ELSE <<z>>[i - 2]
    BY <1>1, ConcatProperties
  <2>3. s[1] = <<x, y>>[1] /\ s[2] = <<x, y>>[2]
    BY <2>2
  <2>4. s[3] = <<z>>[1]
    <3>1. 3 \in 1 .. 3 /\ ~ (3 <= 2) /\ 3 - 2 = 1
      OBVIOUS
    <3> QED
      BY <2>2, <3>1
  <2> QED
    BY <1>1, <2>1, <2>3, <2>4
<1> HIDE DEF s, t
<1>4. \A i \in 1 .. 3 : s[i] = t[i]
  <2>1. \A i \in 1 .. 3 : i = 1 \/ i = 2 \/ i = 3
    OBVIOUS
  <2> QED
    BY <1>2, <1>3, <2>1
<1>5. s = t
  BY <1>2, <1>3, <1>4, SeqEqual
<1> QED
  BY <1>5 DEF s, t

\* What a segment of one, two or three operations calls.
CallOf(id, op) == If(op # "lifetime_end", <<id, op>>)

LEMMA CallsOfFew ==
  ASSUME NEW seg, NEW n \in 0 .. 3, DOMAIN seg.ops = 1 .. n
  PROVE  /\ n = 0 => CallsOf(seg) = <<>>
         /\ n = 1 => CallsOf(seg) = CallOf(seg.blk, seg.ops[1])
         /\ n = 2 => CallsOf(seg) = CallOf(seg.blk, seg.ops[1]) \o CallOf(seg.blk, seg.ops[2])
         /\ n = 3 => CallsOf(seg) = (CallOf(seg.blk, seg.ops[1]) \o CallOf(seg.blk, seg.ops[2]))
                                      \o CallOf(seg.blk, seg.ops[3])
<1> DEFINE s == [k \in 1 .. n |-> CallOf(seg.blk, seg.ops[k])]
<1>1. CallsOf(seg) = FlattenSeq(s)
  BY DEF CallsOf, CallOf
<1>2. Len(s) = n /\ \A k \in 1 .. n : s[k] = CallOf(seg.blk, seg.ops[k])
  OBVIOUS
<1>3. ASSUME n = 0 PROVE CallsOf(seg) = <<>>
  <2>1. s = <<>>
    BY <1>3
  <2> HIDE DEF s
  <2> QED
    BY <1>1, <1>2, <1>3, <2>1, FlattenEmpty
<1> HIDE DEF s
<1>4. n # 0 => Len(s) \in 1 .. 3
  BY <1>2
<1>5. n = 1 => s[1] = CallOf(seg.blk, seg.ops[1])
  BY <1>2
<1>6. n = 2 => s[1] = CallOf(seg.blk, seg.ops[1]) /\ s[2] = CallOf(seg.blk, seg.ops[2])
  BY <1>2
<1>7. n = 3 => /\ s[1] = CallOf(seg.blk, seg.ops[1]) /\ s[2] = CallOf(seg.blk, seg.ops[2])
               /\ s[3] = CallOf(seg.blk, seg.ops[3])
  BY <1>2
<1>8. /\ n = 1 => FlattenSeq(s) = s[1]
      /\ n = 2 => FlattenSeq(s) = s[1] \o s[2]
      /\ n = 3 => FlattenSeq(s) = (s[1] \o s[2]) \o s[3]
  <2>1. n = 1 \/ n = 2 \/ n = 3 => n # 0
    OBVIOUS
  <2> QED
    BY <1>2, <1>4, <2>1, FlattenFew, Zenon
<1> QED
  BY <1>1, <1>3, <1>5, <1>6, <1>7, <1>8, Zenon

\* Cleanup does for a block what Ada requires, whichever lifetimes end first.
LEMMA CleanupCalls ==
  ASSUME NEW stk, NEW b \in Block
  PROVE  /\ CallsOf(Cleanup(stk, b)) = Duty(b)
         /\ b.life => \E k \in DOMAIN Cleanup(stk, b).ops :
                         Cleanup(stk, b).ops[k] = "lifetime_end"
         /\ Cleanup(stk, b).ops = <<>> => Duty(b) = <<>> /\ ~b.life
<1> DEFINE seg == Cleanup(stk, b)
           F == "finally"
           A == "at_end"
           L == "lifetime_end"
           f == <<b.id, F>>
           a == <<b.id, A>>
<1>1. b.life \in BOOLEAN /\ b.finally \in BOOLEAN /\ b.atEnd \in BOOLEAN
  BY DEF Block
<1>2. seg.blk = b.id /\ seg.ops = (If(b.life, L) \o If(b.finally, F)) \o If(b.atEnd, A)
  BY DEF Cleanup
<1>3. /\ CallOf(b.id, L) = <<>> /\ CallOf(b.id, F) = <<f>> /\ CallOf(b.id, A) = <<a>>
  BY DEF CallOf, If
<1>4. Duty(b) = If(b.finally, f) \o If(b.atEnd, a)
  BY DEF Duty
<1>5. /\ <<>> \o <<>> = <<>>
      /\ <<>> \o <<f>> = <<f>> /\ <<>> \o <<a>> = <<a>> /\ <<f>> \o <<>> = <<f>>
      /\ <<f>> \o <<a>> = <<f, a>>
  BY ConcatTwo
<1>6. /\ <<>> \o <<L>> = <<L>> /\ <<L>> \o <<>> = <<L>> /\ <<>> \o <<F>> = <<F>>
      /\ <<F>> \o <<>> = <<F>> /\ <<>> \o <<A>> = <<A>>
      /\ <<L>> \o <<F>> = <<L, F>> /\ <<L, F>> \o <<>> = <<L, F>>
      /\ <<L>> \o <<A>> = <<L, A>> /\ <<F>> \o <<A>> = <<F, A>>
      /\ <<L, F>> \o <<A>> = <<L, F, A>>
  BY ConcatTwo, ConcatThree
<1> HIDE DEF seg, F, A, L, f, a
<1>7. SUFFICES /\ CallsOf(seg) = Duty(b)
               /\ b.life => 1 \in DOMAIN seg.ops /\ seg.ops[1] = L
               /\ seg.ops = <<>> => Duty(b) = <<>> /\ ~b.life
  BY DEF seg, L
<1>8. CASE ~b.life /\ ~b.finally /\ ~b.atEnd
  <2>1. seg.ops = <<>> /\ Duty(b) = <<>>
    BY <1>2, <1>4, <1>5, <1>6, <1>8 DEF If
  <2>2. DOMAIN seg.ops = 1 .. 0
    BY <2>1
  <2>3. CallsOf(seg) = <<>>
    <3>1. 0 \in 0 .. 3 /\ 1 \in 0 .. 3 /\ 2 \in 0 .. 3 /\ 3 \in 0 .. 3
      OBVIOUS
    <3> QED
      BY <2>2, <3>1, CallsOfFew, Zenon
  <2>4. CallsOf(seg) = Duty(b)
    BY <1>2, <1>3, <1>5, <2>1, <2>2, <2>3
  <2> QED
    BY <1>8, <2>1, <2>2, <2>4
<1>9. CASE ~b.life /\ ~b.finally /\ b.atEnd
  <2>1. seg.ops = <<A>> /\ Duty(b) = <<a>>
    BY <1>2, <1>4, <1>5, <1>6, <1>9 DEF If
  <2>2. DOMAIN seg.ops = 1 .. 1 /\ seg.ops[1] = A
    BY <2>1
  <2>3. CallsOf(seg) = CallOf(seg.blk, seg.ops[1])
    <3>1. 0 \in 0 .. 3 /\ 1 \in 0 .. 3 /\ 2 \in 0 .. 3 /\ 3 \in 0 .. 3
      OBVIOUS
    <3> QED
      BY <2>2, <3>1, CallsOfFew, Zenon
  <2>4. CallsOf(seg) = Duty(b)
    BY <1>2, <1>3, <1>5, <2>1, <2>2, <2>3
  <2> QED
    BY <1>9, <2>1, <2>2, <2>4
<1>10. CASE ~b.life /\ b.finally /\ ~b.atEnd
  <2>1. seg.ops = <<F>> /\ Duty(b) = <<f>>
    BY <1>2, <1>4, <1>5, <1>6, <1>10 DEF If
  <2>2. DOMAIN seg.ops = 1 .. 1 /\ seg.ops[1] = F
    BY <2>1
  <2>3. CallsOf(seg) = CallOf(seg.blk, seg.ops[1])
    <3>1. 0 \in 0 .. 3 /\ 1 \in 0 .. 3 /\ 2 \in 0 .. 3 /\ 3 \in 0 .. 3
      OBVIOUS
    <3> QED
      BY <2>2, <3>1, CallsOfFew, Zenon
  <2>4. CallsOf(seg) = Duty(b)
    BY <1>2, <1>3, <1>5, <2>1, <2>2, <2>3
  <2> QED
    BY <1>10, <2>1, <2>2, <2>4
<1>11. CASE ~b.life /\ b.finally /\ b.atEnd
  <2>1. seg.ops = <<F, A>> /\ Duty(b) = <<f, a>>
    BY <1>2, <1>4, <1>5, <1>6, <1>11 DEF If
  <2>2. DOMAIN seg.ops = 1 .. 2 /\ seg.ops[1] = F /\ seg.ops[2] = A
    BY <2>1
  <2>3. CallsOf(seg) = CallOf(seg.blk, seg.ops[1]) \o CallOf(seg.blk, seg.ops[2])
    <3>1. 0 \in 0 .. 3 /\ 1 \in 0 .. 3 /\ 2 \in 0 .. 3 /\ 3 \in 0 .. 3
      OBVIOUS
    <3> QED
      BY <2>2, <3>1, CallsOfFew, Zenon
  <2>4. CallsOf(seg) = Duty(b)
    BY <1>2, <1>3, <1>5, <2>1, <2>2, <2>3
  <2> QED
    BY <1>11, <2>1, <2>2, <2>4
<1>12. CASE b.life /\ ~b.finally /\ ~b.atEnd
  <2>1. seg.ops = <<L>> /\ Duty(b) = <<>>
    BY <1>2, <1>4, <1>5, <1>6, <1>12 DEF If
  <2>2. DOMAIN seg.ops = 1 .. 1 /\ seg.ops[1] = L
    BY <2>1
  <2>3. CallsOf(seg) = CallOf(seg.blk, seg.ops[1])
    <3>1. 0 \in 0 .. 3 /\ 1 \in 0 .. 3 /\ 2 \in 0 .. 3 /\ 3 \in 0 .. 3
      OBVIOUS
    <3> QED
      BY <2>2, <3>1, CallsOfFew, Zenon
  <2>4. CallsOf(seg) = Duty(b)
    BY <1>2, <1>3, <1>5, <2>1, <2>2, <2>3
  <2> QED
    BY <1>12, <2>1, <2>2, <2>4
<1>13. CASE b.life /\ ~b.finally /\ b.atEnd
  <2>1. seg.ops = <<L, A>> /\ Duty(b) = <<a>>
    BY <1>2, <1>4, <1>5, <1>6, <1>13 DEF If
  <2>2. DOMAIN seg.ops = 1 .. 2 /\ seg.ops[1] = L /\ seg.ops[2] = A
    BY <2>1
  <2>3. CallsOf(seg) = CallOf(seg.blk, seg.ops[1]) \o CallOf(seg.blk, seg.ops[2])
    <3>1. 0 \in 0 .. 3 /\ 1 \in 0 .. 3 /\ 2 \in 0 .. 3 /\ 3 \in 0 .. 3
      OBVIOUS
    <3> QED
      BY <2>2, <3>1, CallsOfFew, Zenon
  <2>4. CallsOf(seg) = Duty(b)
    BY <1>2, <1>3, <1>5, <2>1, <2>2, <2>3
  <2> QED
    BY <1>13, <2>1, <2>2, <2>4
<1>14. CASE b.life /\ b.finally /\ ~b.atEnd
  <2>1. seg.ops = <<L, F>> /\ Duty(b) = <<f>>
    BY <1>2, <1>4, <1>5, <1>6, <1>14 DEF If
  <2>2. DOMAIN seg.ops = 1 .. 2 /\ seg.ops[1] = L /\ seg.ops[2] = F
    BY <2>1
  <2>3. CallsOf(seg) = CallOf(seg.blk, seg.ops[1]) \o CallOf(seg.blk, seg.ops[2])
    <3>1. 0 \in 0 .. 3 /\ 1 \in 0 .. 3 /\ 2 \in 0 .. 3 /\ 3 \in 0 .. 3
      OBVIOUS
    <3> QED
      BY <2>2, <3>1, CallsOfFew, Zenon
  <2>4. CallsOf(seg) = Duty(b)
    BY <1>2, <1>3, <1>5, <2>1, <2>2, <2>3
  <2> QED
    BY <1>14, <2>1, <2>2, <2>4
<1>15. CASE b.life /\ b.finally /\ b.atEnd
  <2>1. seg.ops = <<L, F, A>> /\ Duty(b) = <<f, a>>
    BY <1>2, <1>4, <1>5, <1>6, <1>15 DEF If
  <2>2. DOMAIN seg.ops = 1 .. 3 /\ seg.ops[1] = L /\ seg.ops[2] = F /\ seg.ops[3] = A
    BY <2>1
  <2>3. CallsOf(seg) = (CallOf(seg.blk, seg.ops[1]) \o CallOf(seg.blk, seg.ops[2]))
                         \o CallOf(seg.blk, seg.ops[3])
    <3>1. 0 \in 0 .. 3 /\ 1 \in 0 .. 3 /\ 2 \in 0 .. 3 /\ 3 \in 0 .. 3
      OBVIOUS
    <3> QED
      BY <2>2, <3>1, CallsOfFew, Zenon
  <2>4. CallsOf(seg) = Duty(b)
    BY <1>2, <1>3, <1>5, <2>1, <2>2, <2>3
  <2> QED
    BY <1>15, <2>1, <2>2, <2>4
<1> QED
  BY <1>1, <1>8, <1>9, <1>10, <1>11, <1>12, <1>13, <1>14, <1>15

-----------------------------------------------------------------------------
(* What a step does to the blocks that are open                            *)

\* Block c is b some steps later: what was pushed is still there, and what has
\* been added or requested since is never taken back.
Kept(b, c) ==
  /\ c.id = b.id
  /\ c.eh = b.eh /\ c.atEnd = b.atEnd /\ c.finally = b.finally
  /\ c.catchUnhandled = b.catchUnhandled /\ c.handler = b.handler
  /\ b.stackSave => c.stackSave
  /\ b.life => c.life
  /\ b.landingPad => c.landingPad
  /\ b.dispatch => c.dispatch

\* Block c is b some steps later, the block not having been popped meanwhile;
\* the landing pad of a block that is being popped is not requested any more.
Undisturbed(b, c) ==
  /\ Kept(b, c)
  /\ c.unprotected = b.unprotected
  /\ c.ehWork = b.ehWork
  /\ c.todo \subseteq b.todo
  /\ b.unprotected => c.landingPad = b.landingPad /\ c.dispatch = b.dispatch

Stays(s, t) ==
  /\ t \in Seq(Block) /\ Len(t) = Len(s)
  /\ \A j \in 1 .. Len(s) : Undisturbed(s[j], t[j])

LEMMA StaysReflexive ==
  ASSUME NEW s \in Seq(Block)
  PROVE  Stays(s, s)
BY DEF Stays, Undisturbed, Kept

LEMMA StaysTransitive ==
  ASSUME NEW r, NEW s, NEW t, Stays(r, s), Stays(s, t)
  PROVE  Stays(r, t)
<1>1. t \in Seq(Block) /\ Len(t) = Len(r)
  BY DEF Stays
<1>2. ASSUME NEW j \in 1 .. Len(r) PROVE Undisturbed(r[j], t[j])
  <2>1. Undisturbed(r[j], s[j]) /\ Undisturbed(s[j], t[j])
    BY DEF Stays
  <2> QED
    BY <2>1 DEF Undisturbed, Kept
<1> QED
  BY <1>1, <1>2 DEF Stays

LEMMA StaysNonEmpty ==
  ASSUME NEW s \in Seq(Block), s # <<>>, NEW t, Stays(s, t)
  PROVE  t \in Seq(Block) /\ t # <<>> /\ Len(t) = Len(s) /\ Len(s) \in Nat \ {0}
<1>1. t \in Seq(Block) /\ Len(t) = Len(s) /\ Len(s) \in Nat \ {0}
  BY EmptySeq DEF Stays
<1> QED
  BY <1>1

LEMMA ReplaceStays ==
  ASSUME NEW s \in Seq(Block), NEW l \in DOMAIN s, NEW b \in Block,
         Undisturbed(s[l], b)
  PROVE  Stays(s, [s EXCEPT ![l] = b])
<1> DEFINE t == [s EXCEPT ![l] = b]
<1>1. /\ t \in Seq(Block) /\ Len(t) = Len(s)
      /\ \A j \in 1 .. Len(s) : t[j] = IF j = l THEN b ELSE s[j]
  BY ReplaceBlock
<1> HIDE DEF t
<1>2. \A j \in 1 .. Len(s) : Undisturbed(s[j], t[j])
  <2> SUFFICES ASSUME NEW j \in 1 .. Len(s) PROVE Undisturbed(s[j], t[j])
    OBVIOUS
  <2>1. CASE j = l
    BY <1>1, <2>1
  <2>2. CASE j # l
    <3>1. t[j] = s[j]
      BY <1>1, <2>2
    <3> QED
      BY <3>1 DEF Undisturbed, Kept
  <2> QED
    BY <2>1, <2>2
<1>3. Stays(s, t)
  BY <1>1, <1>2 DEF Stays
<1> QED
  BY <1>3 DEF t

\* The level whose landing pad protects a call is that of a block that is not
\* being popped.
LEMMA LandingPadLevelProtects ==
  ASSUME NEW stk \in Seq(Block), LandingPadLevel(stk) # 0
  PROVE  LET l == LandingPadLevel(stk)
         IN  l \in 1 .. Len(stk) /\ ~stk[l].unprotected
<1> DEFINE S == {j \in DOMAIN stk :
                   /\ HasCleanup(stk[j]) \/ stk[j].eh # {} \/ stk[j].catchUnhandled
                   /\ ~stk[j].unprotected}
<1>1. Len(stk) \in Nat /\ S \subseteq 1 .. Len(stk)
  BY StackDomain
<1>2. LandingPadLevel(stk) = Innermost(S)
  BY DEF LandingPadLevel
<1>3. \A j \in S : j \in 1 .. Len(stk) /\ ~stk[j].unprotected
  BY StackDomain
<1> HIDE DEF S
<1>4. S # {}
  BY <1>2 DEF Innermost
<1>5. LandingPadLevel(stk) \in S
  BY <1>1, <1>2, <1>4, InnermostIn
<1> QED
  BY <1>3, <1>5

LEMMA QuietBlocks ==
  ASSUME NEW stk \in Seq(Block), stk # <<>>
  PROVE  /\ Quiet(stk) \in Seq(Block) /\ Len(Quiet(stk)) = Len(stk)
         /\ \A j \in 1 .. Len(stk) :
              Quiet(stk)[j] = IF j = Len(stk) THEN [stk[j] EXCEPT !.unprotected = TRUE]
                              ELSE stk[j]
         /\ Quiet(stk)[Len(stk)].unprotected
         /\ Kept(stk[Len(stk)], Quiet(stk)[Len(stk)])
<1> DEFINE d == Len(stk)
           b == [stk[d] EXCEPT !.unprotected = TRUE]
<1>1. d \in 1 .. Len(stk) /\ d \in DOMAIN stk /\ stk[d] \in Block
  BY StackDomain
<1>2. b \in Block /\ b.unprotected /\ Kept(stk[d], b)
  BY <1>1 DEF Block, Kept
<1>3. Quiet(stk) = [stk EXCEPT ![d] = b]
  BY DEF Quiet
<1> HIDE DEF b
<1>4. /\ Quiet(stk) \in Seq(Block) /\ Len(Quiet(stk)) = Len(stk)
      /\ \A j \in 1 .. Len(stk) : Quiet(stk)[j] = IF j = d THEN b ELSE stk[j]
  BY <1>1, <1>2, <1>3, ReplaceBlock
<1>5. Quiet(stk)[d] = b
  BY <1>1, <1>4
<1>6. \A j \in 1 .. Len(stk) : j = d => stk[j] = stk[d]
  OBVIOUS
<1> QED
  BY <1>2, <1>4, <1>5, <1>6 DEF b

\* The pad that the cleanups of the block at the top use is outside that block.
LEMMA QuietLevel ==
  ASSUME NEW stk \in Seq(Block), stk # <<>>,
         NEW l, l = LandingPadLevel(Quiet(stk)), l # 0
  PROVE  l \in 1 .. (Len(stk) - 1) /\ ~stk[l].unprotected
<1>1. l \in 1 .. Len(Quiet(stk)) /\ ~Quiet(stk)[l].unprotected
  BY QuietBlocks, LandingPadLevelProtects
<1>2. l \in 1 .. Len(stk) /\ l # Len(stk)
  BY <1>1, QuietBlocks
<1>3. Quiet(stk)[l] = stk[l]
  BY <1>2, QuietBlocks
<1>4. l \in 1 .. (Len(stk) - 1)
  BY <1>2, StackDomain
<1> QED
  BY <1>1, <1>3, <1>4

LEMMA RequestedStays ==
  ASSUME NEW stk \in Seq(Block), NEW l \in 0 .. Len(stk),
         l # 0 => ~stk[l].unprotected
  PROVE  /\ Stays(stk, Requested(stk, l))
         /\ l # 0 => Requested(stk, l)[l].landingPad
         /\ \A j \in 1 .. Len(stk) : j # l => Requested(stk, l)[j] = stk[j]
<1>1. CASE l = 0
  BY <1>1, StaysReflexive DEF Requested
<1>2. CASE l # 0
  <2> DEFINE b == [stk[l] EXCEPT !.landingPad = TRUE]
  <2>1. l \in DOMAIN stk /\ stk[l] \in Block /\ l \in 1 .. Len(stk)
    BY <1>2, StackDomain
  <2>2. b \in Block /\ b.landingPad /\ Undisturbed(stk[l], b)
    BY <1>2, <2>1 DEF Block, Undisturbed, Kept
  <2>3. Requested(stk, l) = [stk EXCEPT ![l] = b]
    BY <1>2 DEF Requested
  <2> HIDE DEF b
  <2>4. Stays(stk, [stk EXCEPT ![l] = b])
    BY <2>1, <2>2, ReplaceStays
  <2>5. \A j \in 1 .. Len(stk) : [stk EXCEPT ![l] = b][j] = IF j = l THEN b ELSE stk[j]
    BY <2>1, <2>2, ReplaceBlock
  <2> QED
    BY <2>1, <2>2, <2>3, <2>4, <2>5
<1> QED
  BY <1>1, <1>2

\* Emitting cleanups at the top of the stack requests the pad they use.
LEMMA EmittingStays ==
  ASSUME NEW stk \in Seq(Block), stk # <<>>, NEW frag
  PROVE  LET l == LandingPadLevel(Quiet(stk))
         IN  /\ Stays(stk, AfterEmitting(stk, frag))
             /\ AfterEmitting(stk, frag)[Len(stk)] = stk[Len(stk)]
             /\ MayThrow(frag) /\ l # 0 => AfterEmitting(stk, frag)[l].landingPad
<1> DEFINE l == LandingPadLevel(Quiet(stk))
<1>1. Len(stk) \in Nat \ {0} /\ Len(stk) \in 1 .. Len(stk)
  BY EmptySeq
<1>2. l # 0 => l \in 1 .. (Len(stk) - 1) /\ ~stk[l].unprotected
  BY QuietLevel
<1>3. l \in 0 .. Len(stk) /\ l # Len(stk)
  <2> HIDE DEF l
  <2> QED
    BY <1>1, <1>2
<1> HIDE DEF l
<1>4. CASE MayThrow(frag)
  BY <1>1, <1>2, <1>3, <1>4, RequestedStays DEF AfterEmitting, l
<1>5. CASE ~MayThrow(frag)
  BY <1>5, StaysReflexive DEF AfterEmitting
<1> QED
  BY <1>4, <1>5 DEF l

\* A block that has just been pushed.
JustPushed(b, n) ==
  /\ b.id = n /\ b.todo = {} /\ ~b.unprotected /\ ~b.landingPad /\ ~b.dispatch
  /\ b.eh # {} => ~b.finally /\ ~b.atEnd

\* A step that pushes one: on a block that is not being popped, or that is
\* emitting its handlers.  Only the outermost block can be that of "main".
Opens(s, t, n) ==
  \E r \in Seq(Block), b \in Block :
    /\ Stays(s, r) /\ JustPushed(b, n) /\ t = Append(r, b)
    /\ s # <<>> /\ s[Len(s)].unprotected => s[Len(s)].todo # {}
    /\ s # <<>> => ~b.catchUnhandled

LEMMA PushedOpens ==
  ASSUME TypeInv, PushBody \/ PushBlock \/ PushLoop
  PROVE  Opens(stack, stack', nextId) /\ nextId' = nextId + 1
<1> DEFINE new == NewBlock(nextId)
<1>1. stack \in Seq(Block) /\ nextId \in Nat /\ new \in Block
  BY NewBlockType DEF TypeInv, TypeOK
<1>2. /\ [new EXCEPT !.atEnd = TRUE] \in Block
      /\ [new EXCEPT !.finally = TRUE] \in Block
      /\ [new EXCEPT !.catchUnhandled = TRUE] \in Block
      /\ [new EXCEPT !.loop = TRUE] \in Block
      /\ \A E \in SUBSET Exceptions \ {{}} : [new EXCEPT !.eh = E] \in Block
  BY <1>1 DEF Block
<1>3. /\ JustPushed(new, nextId)
      /\ JustPushed([new EXCEPT !.atEnd = TRUE], nextId)
      /\ JustPushed([new EXCEPT !.finally = TRUE], nextId)
      /\ JustPushed([new EXCEPT !.catchUnhandled = TRUE], nextId)
      /\ JustPushed([new EXCEPT !.loop = TRUE], nextId)
      /\ \A E \in SUBSET Exceptions \ {{}} : JustPushed([new EXCEPT !.eh = E], nextId)
  BY DEF JustPushed, NewBlock
<1>4. /\ ~new.catchUnhandled
      /\ ~[new EXCEPT !.atEnd = TRUE].catchUnhandled
      /\ ~[new EXCEPT !.finally = TRUE].catchUnhandled
      /\ ~[new EXCEPT !.loop = TRUE].catchUnhandled
      /\ \A E \in SUBSET Exceptions \ {{}} : ~[new EXCEPT !.eh = E].catchUnhandled
  BY DEF NewBlock
<1>5. \/ Pushed(new)
      \/ Pushed([new EXCEPT !.atEnd = TRUE])
      \/ Pushed([new EXCEPT !.finally = TRUE])
      \/ stack = <<>> /\ Pushed([new EXCEPT !.catchUnhandled = TRUE])
      \/ Pushed([new EXCEPT !.loop = TRUE])
      \/ \E E \in SUBSET Exceptions \ {{}} : Pushed([new EXCEPT !.eh = E])
  BY DEF PushBody, PushBlock, PushLoop
<1> HIDE DEF new
<1>6. PICK b \in Block : /\ JustPushed(b, nextId) /\ Pushed(b)
                         /\ stack # <<>> => ~b.catchUnhandled
  BY <1>1, <1>2, <1>3, <1>5, <1>4
<1>7. stack # <<>> => ~stack[Len(stack)].unprotected
  BY DEF PushBody, PushBlock, PushLoop, CanPush, Statement, Top
<1>8. Stays(stack, stack)
  BY <1>1, StaysReflexive
<1> QED
  BY <1>1, <1>6, <1>7, <1>8 DEF Opens, Pushed

LEMMA HandlerOpens ==
  ASSUME TypeInv, NEW e \in Exceptions, PushHandler(e)
  PROVE  Opens(stack, stack', nextId) /\ nextId' = nextId + 1
<1> DEFINE d == Len(stack)
           t == [stack[d] EXCEPT !.todo = @ \ {e}]
           b == [NewBlock(nextId) EXCEPT !.atEnd = TRUE, !.handler = TRUE]
<1>1. /\ stack \in Seq(Block) /\ nextId \in Nat /\ d \in DOMAIN stack /\ stack[d] \in Block
      /\ stack[d].todo # {}
  BY StackDomain DEF TypeInv, TypeOK, PushHandler, Top
<1>2. t \in Block /\ Undisturbed(stack[d], t)
  BY <1>1 DEF Block, Undisturbed, Kept
<1>3. b \in Block /\ JustPushed(b, nextId) /\ ~b.catchUnhandled
  <2>1. NewBlock(nextId) \in Block
    BY <1>1, NewBlockType
  <2> QED
    BY <2>1 DEF Block, NewBlock, JustPushed
<1>4. stack' = Append([stack EXCEPT ![d] = t], b) /\ nextId' = nextId + 1
  BY DEF PushHandler
<1> HIDE DEF t, b, d
<1>5. Stays(stack, [stack EXCEPT ![d] = t])
  BY <1>1, <1>2, ReplaceStays
<1>6. [stack EXCEPT ![d] = t] \in Seq(Block)
  BY <1>5 DEF Stays
<1> QED
  BY <1>1, <1>3, <1>4, <1>5, <1>6 DEF Opens, d

\* A statement that opens no block.
LEMMA StatementStays ==
  ASSUME TypeInv, Next, ~BeginPop, ~EndPop, ~ResetBlockTables
  PROVE  \/ Stays(stack, stack') /\ nextId' = nextId
         \/ Opens(stack, stack', nextId) /\ nextId' = nextId + 1
<1> DEFINE d == Len(stack)
<1>1. stack \in Seq(Block)
  BY DEF TypeInv, TypeOK
<1>2. ASSUME NEW f, stack # <<>>, stack' = stack \/ stack' = AfterEmitting(stack, f)
      PROVE  Stays(stack, stack')
  BY <1>1, <1>2, StaysReflexive, EmittingStays
<1>3. CASE PushBody \/ PushBlock \/ PushLoop
  BY <1>3, PushedOpens
<1>4. ASSUME NEW e \in Exceptions, PushHandler(e)
      PROVE  Opens(stack, stack', nextId) /\ nextId' = nextId + 1
  BY <1>4, HandlerOpens
<1>5. CASE SaveStackPointer \/ AddLifetimeEntry
  <2> DEFINE a == [stack[d] EXCEPT !.stackSave = TRUE]
             c == [stack[d] EXCEPT !.life = TRUE]
  <2>1. d \in DOMAIN stack /\ stack[d] \in Block
    BY <1>1, <1>5, StackDomain DEF SaveStackPointer, AddLifetimeEntry, Statement
  <2>2. a \in Block /\ Undisturbed(stack[d], a) /\ c \in Block /\ Undisturbed(stack[d], c)
    BY <2>1 DEF Block, Undisturbed, Kept
  <2>3. stack' = [stack EXCEPT ![d] = a] \/ stack' = [stack EXCEPT ![d] = c]
    BY <1>5 DEF SaveStackPointer, AddLifetimeEntry
  <2>4. nextId' = nextId
    BY <1>5 DEF SaveStackPointer, AddLifetimeEntry
  <2> HIDE DEF a, c, d
  <2> QED
    BY <1>1, <2>1, <2>2, <2>3, <2>4, ReplaceStays
<1>6. CASE (\E returns \in BOOLEAN : CallMayThrow(returns)) \/ Reraise
  <2>1. stack' = Requested(stack, LandingPadLevel(stack)) /\ nextId' = nextId
    BY <1>6 DEF CallMayThrow, Reraise
  <2>2. /\ LandingPadLevel(stack) \in 0 .. Len(stack)
        /\ LandingPadLevel(stack) # 0 => ~stack[LandingPadLevel(stack)].unprotected
    BY <1>1, LandingPadLevelType, LandingPadLevelProtects
  <2> QED
    BY <1>1, <2>1, <2>2, RequestedStays
<1>7. ASSUME NEW l \in Labels, NEW cond \in BOOLEAN, GotoKnown(l, cond)
      PROVE  Stays(stack, stack') /\ nextId' = nextId
  <2> DEFINE f == IF Cached(labels[l]) THEN labels[l].fixup
                  ELSE Fixups(stack, Len(stack), labels[l].depth)
  <2>1. /\ stack # <<>> /\ nextId' = nextId
        /\ stack' = IF Cached(labels[l]) THEN stack ELSE AfterEmitting(stack, f)
    BY <1>7 DEF GotoKnown, Statement
  <2> HIDE DEF f
  <2> QED
    BY <1>2, <2>1
<1>8. ASSUME NEW i \in DOMAIN exits, NEW cond \in BOOLEAN, Exit(i, cond)
      PROVE  Stays(stack, stack') /\ nextId' = nextId
  <2> DEFINE f == IF Cached(exits[i]) THEN exits[i].fixup
                  ELSE Fixups(stack, Len(stack), exits[i].depth)
  <2>1. /\ stack # <<>> /\ nextId' = nextId
        /\ stack' = IF Cached(exits[i]) THEN stack ELSE AfterEmitting(stack, f)
    BY <1>8 DEF Exit, Statement
  <2> HIDE DEF f
  <2> QED
    BY <1>2, <2>1
<1>9. CASE Return
  <2>1. /\ stack # <<>> /\ nextId' = nextId
        /\ stack' = AfterEmitting(stack, Fixups(stack, Len(stack), 0))
    BY <1>9 DEF Return, Statement
  <2> QED
    BY <1>2, <2>1
<1>10. CASE \/ \E l \in Labels, cond \in BOOLEAN : GotoOpen(l, cond)
            \/ \E l \in Labels : DefineLabel(l)
  <2>1. stack' = stack /\ nextId' = nextId
    BY <1>10 DEF GotoOpen, DefineLabel
  <2> QED
    BY <1>1, <2>1, StaysReflexive
<1> QED
  BY <1>3, <1>4, <1>5, <1>6, <1>7, <1>8, <1>9, <1>10 DEF Next

\* BeginPop disturbs only the block at the top, which stops protecting.
LEMMA BeginPopBlocks ==
  ASSUME TypeInv, BeginPop
  PROVE  LET d == Len(stack)
         IN  /\ stack' \in Seq(Block) /\ Len(stack') = d /\ d \in Nat \ {0}
             /\ \A j \in 1 .. (d - 1) : Undisturbed(stack[j], stack'[j])
             /\ Kept(stack[d], stack'[d]) /\ stack'[d].unprotected
             /\ stack'[d].landingPad = stack[d].landingPad
             /\ stack'[d].dispatch = stack[d].dispatch
             /\ stack'[d].ehWork = EHWork(stack[d])
             /\ stack'[d].todo \subseteq stack[d].eh
             /\ LET quiet == Quiet(stack)
                    frag == Fixups(quiet, d, d - 1)
                    l == LandingPadLevel(Quiet(quiet))
                IN  done' # <<>> /\ MayThrow(frag) /\ l # 0 => stack'[l].landingPad
<1> DEFINE d == Len(stack)
           quiet == Quiet(stack)
           frag == Fixups(quiet, d, d - 1)
           after == IF dead' THEN quiet ELSE AfterEmitting(quiet, frag)
           work == EHWork(Top)
           todo == IF EHWork(Top) THEN Top.eh ELSE {}
           c == [after[d] EXCEPT !.ehWork = work, !.todo = todo]
           l == LandingPadLevel(Quiet(quiet))
<1>1. /\ stack \in Seq(Block) /\ stack # <<>> /\ d \in Nat \ {0}
      /\ stack[d] \in Block /\ Top = stack[d]
  BY StackDomain DEF TypeInv, TypeOK, BeginPop, Statement, Top
<1>2. /\ quiet \in Seq(Block) /\ Len(quiet) = d /\ quiet # <<>>
      /\ \A j \in 1 .. (d - 1) : quiet[j] = stack[j]
      /\ quiet[d] = [stack[d] EXCEPT !.unprotected = TRUE]
  <2>1. /\ quiet \in Seq(Block) /\ Len(quiet) = d
        /\ \A j \in 1 .. d : quiet[j] = IF j = d THEN [stack[j] EXCEPT !.unprotected = TRUE]
                                        ELSE stack[j]
    BY <1>1, QuietBlocks
  <2> HIDE DEF quiet
  <2>2. quiet # <<>>
    BY <1>1, <2>1, EmptySeq
  <2>3. d \in 1 .. d /\ \A j \in 1 .. (d - 1) : j \in 1 .. d /\ j # d
    BY <1>1
  <2> QED
    BY <2>1, <2>2, <2>3
<1>3. stack' = [after EXCEPT ![d].ehWork = work, ![d].todo = todo]
  BY DEF BeginPop, Quiet
<1>4. done' # <<>> => ~dead'
  BY DEF BeginPop
<1> HIDE DEF quiet, frag, d
<1>5. /\ Stays(quiet, after) /\ after[d] = quiet[d]
      /\ ~dead' /\ MayThrow(frag) /\ l # 0 => after[l].landingPad
  BY <1>2, EmittingStays, StaysReflexive
<1>6. l # 0 => l \in 1 .. (d - 1)
  BY <1>2, QuietLevel
<1> HIDE DEF after, work, todo, l
<1>7. after \in Seq(Block) /\ Len(after) = d /\ d \in DOMAIN after /\ after[d] \in Block
  BY <1>1, <1>2, <1>5, StackDomain DEF Stays
<1>8. work \in BOOLEAN /\ todo \in SUBSET Exceptions /\ todo \subseteq stack[d].eh
      /\ work = EHWork(stack[d])
  BY <1>1 DEF work, todo, EHWork, Block
<1>9. c \in Block
  BY <1>7, <1>8 DEF Block
<1>10. stack' = [after EXCEPT ![d] = c]
  BY <1>3, <1>7
<1>11. /\ Kept(stack[d], c) /\ c.unprotected
       /\ c.landingPad = stack[d].landingPad /\ c.dispatch = stack[d].dispatch
       /\ c.ehWork = work /\ c.todo = todo
  BY <1>1, <1>2, <1>5, <1>7 DEF Kept, Block
<1> HIDE DEF c
<1>12. /\ stack' \in Seq(Block) /\ Len(stack') = d
       /\ \A j \in 1 .. d : stack'[j] = IF j = d THEN c ELSE after[j]
  BY <1>7, <1>9, <1>10, ReplaceBlock
<1>13. stack'[d] = c /\ \A j \in 1 .. (d - 1) : stack'[j] = after[j]
  BY <1>1, <1>12
<1>14. \A j \in 1 .. (d - 1) : Undisturbed(stack[j], stack'[j])
  <2> SUFFICES ASSUME NEW j \in 1 .. (d - 1) PROVE Undisturbed(stack[j], stack'[j])
    OBVIOUS
  <2>1. j \in 1 .. Len(quiet)
    BY <1>1, <1>2
  <2>2. Undisturbed(quiet[j], after[j])
    BY <1>5, <2>1 DEF Stays
  <2> QED
    BY <1>2, <1>13, <2>2
<1>15. done' # <<>> /\ MayThrow(frag) /\ l # 0 => stack'[l].landingPad
  BY <1>4, <1>5, <1>6, <1>13
<1> QED
  BY <1>1, <1>8, <1>11, <1>12, <1>13, <1>14, <1>15 DEF d, quiet, frag, l

\* What has been requested or added since does not change which block protects.
LEMMA QuietLevelStays ==
  ASSUME NEW s \in Seq(Block), s # <<>>, NEW t, Stays(s, t)
  PROVE  LandingPadLevel(Quiet(t)) = LandingPadLevel(Quiet(s))
<1> DEFINE n == Len(s)
           P(b) == HasCleanup(b) \/ b.eh # {} \/ b.catchUnhandled
           S(stk) == {j \in DOMAIN stk :
                        /\ HasCleanup(stk[j]) \/ stk[j].eh # {} \/ stk[j].catchUnhandled
                        /\ ~stk[j].unprotected}
           q == Quiet(s)
           r == Quiet(t)
<1>1. t \in Seq(Block) /\ t # <<>> /\ Len(t) = n /\ n \in Nat \ {0}
  BY StaysNonEmpty
<1>2. /\ q \in Seq(Block) /\ Len(q) = n /\ q[n].unprotected
      /\ \A j \in 1 .. n : j # n => q[j] = s[j]
  BY QuietBlocks
<1>3. /\ r \in Seq(Block) /\ Len(r) = n /\ r[n].unprotected
      /\ \A j \in 1 .. n : j # n => r[j] = t[j]
  <2>1. /\ r \in Seq(Block) /\ Len(r) = Len(t) /\ r[Len(t)].unprotected
        /\ \A j \in 1 .. Len(t) : j # Len(t) => r[j] = t[j]
    BY <1>1, QuietBlocks
  <2> QED
    BY <1>1, <2>1
<1> HIDE DEF n, q, r
<1>4. DOMAIN q = 1 .. n /\ DOMAIN r = 1 .. n
  BY <1>2, <1>3, StackDomain
<1>5. \A j \in 1 .. n : Undisturbed(s[j], t[j])
  BY DEF Stays, n
<1>6. ASSUME NEW j \in 1 .. n
      PROVE  (P(q[j]) /\ ~q[j].unprotected) <=> (P(r[j]) /\ ~r[j].unprotected)
  <2>1. CASE j = n
    BY <1>2, <1>3, <2>1
  <2>2. CASE j # n
    <3>1. q[j] = s[j] /\ r[j] = t[j] /\ Undisturbed(s[j], t[j])
      BY <1>2, <1>3, <1>5, <2>2
    <3>2. P(s[j]) <=> P(t[j])
      BY <3>1 DEF Undisturbed, Kept, HasCleanup
    <3>3. s[j].unprotected = t[j].unprotected
      BY <3>1 DEF Undisturbed
    <3> QED
      BY <3>1, <3>2, <3>3
  <2> QED
    BY <2>1, <2>2
<1>7. S(q) = S(r)
  BY <1>4, <1>6
<1>8. LandingPadLevel(q) = Innermost(S(q)) /\ LandingPadLevel(r) = Innermost(S(r))
  BY DEF LandingPadLevel
<1> QED
  BY <1>7, <1>8 DEF q, r

\* Emit_Handlers requests the pads of its calls and the dispatcher it continues
\* to, of blocks outside the one that is popped.
LEMMA HandlersStay ==
  ASSUME TypeInv, stack # <<>>
  PROVE  LET d == Len(stack)
             r == Dispatched(d)
             l == LandingPadLevel(Quiet(stack))
             t == AfterHandlers(d)
         IN  /\ Stays(stack, t) /\ t[d].landingPad = stack[d].landingPad
             /\ stack[d].ehWork /\ l # 0 =>
                  \/ t[l].landingPad
                  \/ ~MayThrow(r.rest) /\ ~MayThrow([segs |-> <<r.self>>, restore |-> 0])
             /\ stack[d].ehWork /\ OuterDispatch(d) # 0 => t[OuterDispatch(d)].dispatch
<1> DEFINE d == Len(stack)
           r == Dispatched(d)
           j == OuterDispatch(d)
           l == LandingPadLevel(Quiet(stack))
           inner == AfterEmitting(stack, r.rest)
           own == [segs |-> <<r.self>>, restore |-> 0]
           calls == AfterEmitting(inner, own)
           b == [calls[j] EXCEPT !.dispatch = TRUE]
           u == [calls EXCEPT ![j].dispatch = TRUE]
           t == AfterHandlers(d)
<1>1. stack \in Seq(Block) /\ d \in Nat \ {0} /\ d \in 1 .. Len(stack)
  BY StackDomain DEF TypeInv, TypeOK
<1>2. j \in 0 .. (d - 1) /\ j # d
  BY <1>1, OuterDispatchType
<1>3. j # 0 => ~stack[j].unprotected
  <2> DEFINE S == {k \in 1 .. (d - 1) :
                     (stack[k].atEnd \/ stack[k].eh # {}) /\ ~stack[k].unprotected}
  <2>1. j = Innermost(S) /\ S \subseteq 1 .. (d - 1) /\ (d - 1) \in Nat
    BY <1>1 DEF OuterDispatch
  <2>2. \A k \in S : ~stack[k].unprotected
    OBVIOUS
  <2> HIDE DEF S, j
  <2>3. j # 0 => S # {}
    BY <2>1 DEF Innermost
  <2>4. j # 0 => j \in S
    BY <2>1, <2>3, InnermostIn
  <2> QED
    BY <2>2, <2>4
<1>4. t = IF ~stack[d].ehWork THEN stack ELSE IF j = 0 THEN calls ELSE u
  BY DEF AfterHandlers
<1> HIDE DEF r, own
<1>5. /\ Stays(stack, inner) /\ inner[d] = stack[d]
      /\ MayThrow(r.rest) /\ l # 0 => inner[l].landingPad
  BY <1>1, EmittingStays
<1>6. l # 0 => l \in 1 .. (d - 1)
  BY <1>1, QuietLevel
<1>7. /\ inner \in Seq(Block) /\ inner # <<>> /\ Len(inner) = d
      /\ LandingPadLevel(Quiet(inner)) = l
  BY <1>1, <1>5, StaysNonEmpty, QuietLevelStays
<1> HIDE DEF l, inner
<1>8. /\ Stays(inner, calls) /\ calls[d] = inner[d]
      /\ MayThrow(own) /\ l # 0 => calls[l].landingPad
  BY <1>7, EmittingStays
<1>9. calls \in Seq(Block) /\ Len(calls) = d /\ Stays(stack, calls)
  BY <1>1, <1>5, <1>7, <1>8, StaysTransitive DEF Stays
<1>10. l # 0 => \/ calls[l].landingPad
                \/ ~MayThrow(r.rest) /\ ~MayThrow(own)
  <2> SUFFICES ASSUME l # 0, MayThrow(r.rest) \/ MayThrow(own)
               PROVE  calls[l].landingPad
    OBVIOUS
  <2>1. l \in 1 .. Len(inner)
    BY <1>1, <1>6, <1>7
  <2>2. inner[l].landingPad => calls[l].landingPad
    BY <1>8, <2>1 DEF Stays, Undisturbed, Kept
  <2> QED
    BY <1>5, <1>8, <2>2
<1> HIDE DEF calls
<1>11. ASSUME j # 0
       PROVE  /\ Stays(stack, u) /\ u[j].dispatch
              /\ \A k \in 1 .. d : u[k].landingPad = calls[k].landingPad
  <2>1. j \in DOMAIN calls /\ calls[j] \in Block /\ j \in 1 .. d
    BY <1>1, <1>2, <1>9, <1>11, StackDomain
  <2>2. ~calls[j].unprotected
    <3>1. calls[j].unprotected = stack[j].unprotected
      BY <1>1, <1>9, <2>1 DEF Stays, Undisturbed
    <3> QED
      BY <1>3, <1>11, <3>1
  <2>3. /\ b \in Block /\ Undisturbed(calls[j], b) /\ b.dispatch
        /\ b.landingPad = calls[j].landingPad
    BY <2>1, <2>2 DEF Block, Undisturbed, Kept
  <2>4. u = [calls EXCEPT ![j] = b]
    BY <2>1
  <2> HIDE DEF b, u, j
  <2>5. Stays(calls, u)
    BY <1>9, <2>1, <2>3, <2>4, ReplaceStays
  <2>6. \A k \in 1 .. d : u[k] = IF k = j THEN b ELSE calls[k]
    BY <1>9, <2>1, <2>3, <2>4, ReplaceBlock
  <2>7. \A k \in 1 .. d : u[k].landingPad = calls[k].landingPad
    BY <2>3, <2>6
  <2>8. u[j].dispatch
    BY <2>1, <2>3, <2>6
  <2> QED
    BY <1>9, <2>5, <2>7, <2>8, StaysTransitive
<1>12. calls[d].landingPad = stack[d].landingPad
  BY <1>5, <1>8 DEF calls
<1> HIDE DEF u, j, t
<1>13. CASE ~stack[d].ehWork
  <2>1. Stays(stack, stack)
    BY <1>1, StaysReflexive
  <2>2. t = stack
    BY <1>4, <1>13
  <2> QED
    BY <1>13, <2>1, <2>2 DEF t, d
<1>14. CASE stack[d].ehWork /\ j = 0
  <2>1. t = calls
    BY <1>4, <1>14
  <2> QED
    BY <1>9, <1>10, <1>12, <1>14, <2>1 DEF t, d, j, l, r, own
<1>15. CASE stack[d].ehWork /\ j # 0
  <2>1. t = u
    BY <1>4, <1>15
  <2>2. l # 0 => t[l].landingPad = calls[l].landingPad
    BY <1>1, <1>6, <1>11, <1>15, <2>1
  <2>3. t[d].landingPad = stack[d].landingPad
    BY <1>1, <1>11, <1>12, <1>15, <2>1
  <2> QED
    BY <1>10, <1>11, <1>15, <2>1, <2>2, <2>3 DEF t, d, j, l, r, own
<1> QED
  BY <1>13, <1>14, <1>15

\* The end of a pop removes the block at the top, and requests what its code
\* needs of the others.
LEMMA EndPopBlocks ==
  ASSUME TypeInv, EndPop
  PROVE  LET d == Len(stack)
             r == Dispatched(d)
             l == LandingPadLevel(Quiet(stack))
             frag == Fixups(stack, d, d - 1)
         IN  /\ stack' \in Seq(Block) /\ Len(stack') = d - 1 /\ d \in Nat \ {0}
             /\ \A j \in 1 .. (d - 1) : Undisturbed(stack[j], stack'[j])
             /\ stack[d].ehWork /\ l # 0 =>
                  \/ stack'[l].landingPad
                  \/ ~MayThrow(r.rest) /\ ~MayThrow([segs |-> <<r.self>>, restore |-> 0])
             /\ (\E i \in DOMAIN open : open[i].from = d) /\ MayThrow(frag) /\ l # 0
                  => stack'[l].landingPad
             /\ stack[d].ehWork /\ OuterDispatch(d) # 0 => stack'[OuterDispatch(d)].dispatch
<1> DEFINE d == Len(stack)
           e == d - 1
           r == Dispatched(d)
           l == LandingPadLevel(Quiet(stack))
           j == OuterDispatch(d)
           frag == Fixups(stack, d, e)
           fixes == \E i \in DOMAIN open : open[i].from = d
           handled == AfterHandlers(d)
           after == IF fixes THEN AfterEmitting(handled, frag) ELSE handled
           quietly == ~MayThrow(r.rest) /\ ~MayThrow([segs |-> <<r.self>>, restore |-> 0])
<1>1. stack \in Seq(Block) /\ stack # <<>> /\ d \in Nat \ {0} /\ e \in Nat
  BY StackDomain DEF TypeInv, TypeOK, EndPop
<1>2. /\ Stays(stack, handled)
      /\ stack[d].ehWork /\ l # 0 => handled[l].landingPad \/ quietly
      /\ stack[d].ehWork /\ j # 0 => handled[j].dispatch
  BY <1>1, HandlersStay
<1>3. stack' = SubSeq(after, 1, e)
  BY DEF EndPop
<1>4. l # 0 => l \in 1 .. e
  BY <1>1, QuietLevel
<1>5. j # 0 => j \in 1 .. e
  BY <1>1, OuterDispatchType
<1>6. handled \in Seq(Block) /\ handled # <<>> /\ Len(handled) = d
  BY <1>1, <1>2, StaysNonEmpty
<1>7. LandingPadLevel(Quiet(handled)) = l
  BY <1>1, <1>2, QuietLevelStays
<1> HIDE DEF handled, frag, r, j, l, quietly, fixes
<1>8. Stays(handled, after) /\ (fixes /\ MayThrow(frag) /\ l # 0 => after[l].landingPad)
  BY <1>6, <1>7, EmittingStays, StaysReflexive
<1> HIDE DEF after
<1>9. Stays(stack, after)
  BY <1>2, <1>8, StaysTransitive
<1>10. after \in Seq(Block) /\ Len(after) = d /\ \A k \in 1 .. e : after[k] \in Block
  <2>1. after \in Seq(Block) /\ Len(after) = d
    BY <1>9 DEF Stays
  <2>2. \A k \in 1 .. e : k \in 1 .. Len(after)
    BY <1>1, <2>1
  <2> HIDE DEF d, e
  <2> QED
    BY <2>1, <2>2, StackDomain
<1>11. /\ stack' \in Seq(Block) /\ Len(stack') = e
       /\ \A k \in 1 .. e : stack'[k] = after[k]
  <2> HIDE DEF e
  <2>1. /\ SubSeq(after, 1, e) \in Seq(Block)
        /\ Len(SubSeq(after, 1, e)) = IF 1 <= e THEN e - 1 + 1 ELSE 0
        /\ \A k \in 1 .. (e - 1 + 1) : SubSeq(after, 1, e)[k] = after[1 + k - 1]
    BY <1>1, <1>10, SubSeqProperties
  <2>2. ASSUME NEW k \in 1 .. e PROVE stack'[k] = after[k]
    <3>1. k \in 1 .. (e - 1 + 1) /\ 1 + k - 1 = k
      BY <1>1
    <3> QED
      BY <1>3, <2>1, <3>1
  <2>3. Len(stack') = e
    BY <1>1, <1>3, <2>1
  <2> QED
    BY <1>3, <2>1, <2>2, <2>3
<1>12. \A k \in 1 .. e : Undisturbed(stack[k], stack'[k])
  <2> SUFFICES ASSUME NEW k \in 1 .. e PROVE Undisturbed(stack[k], stack'[k])
    OBVIOUS
  <2>1. k \in 1 .. Len(stack)
    BY <1>1
  <2>2. Undisturbed(stack[k], after[k])
    BY <1>9, <2>1 DEF Stays
  <2> QED
    BY <1>11, <2>2
<1>13. ASSUME NEW k \in 1 .. e
       PROVE  /\ handled[k].landingPad => stack'[k].landingPad
              /\ handled[k].dispatch => stack'[k].dispatch
  <2>1. k \in 1 .. Len(handled)
    BY <1>1, <1>6
  <2>2. Undisturbed(handled[k], after[k])
    BY <1>8, <2>1 DEF Stays
  <2> QED
    BY <1>11, <2>2 DEF Undisturbed, Kept
<1>14. l # 0 /\ after[l].landingPad => stack'[l].landingPad
  BY <1>4, <1>11
<1>15. stack[d].ehWork /\ l # 0 => stack'[l].landingPad \/ quietly
  BY <1>2, <1>4, <1>13
<1>16. stack[d].ehWork /\ j # 0 => stack'[j].dispatch
  BY <1>2, <1>5, <1>13
<1>17. fixes /\ MayThrow(frag) /\ l # 0 => stack'[l].landingPad
  BY <1>8, <1>14
<1> QED
  BY <1>1, <1>11, <1>12, <1>15, <1>16, <1>17 DEF r, l, j, frag, quietly, fixes

-----------------------------------------------------------------------------
(* The blocks that are open                                                *)

\* The identities of the open blocks grow inwards.  The front end gives a block
\* handlers or cleanups, and only one with handlers has blocks inside it while it
\* is being popped.
StackInv(stk, n) ==
  /\ n \in Nat \ {0}
  /\ \A j \in 1 .. Len(stk) : stk[j].id \in 1 .. (n - 1)
  /\ \A i, j \in 1 .. Len(stk) : i < j => stk[i].id < stk[j].id
  /\ \A j \in 1 .. Len(stk) : stk[j].eh # {} => ~stk[j].finally /\ ~stk[j].atEnd
  /\ \A j \in 1 .. Len(stk) : stk[j].todo \subseteq stk[j].eh
  /\ \A j \in 1 .. (Len(stk) - 1) : stk[j].unprotected => stk[j].eh # {}

\* The first m blocks of s are those of t, some steps later.
KeptUpTo(s, t, m) == \A j \in 1 .. m : Kept(s[j], t[j])

LEMMA UndisturbedKept ==
  ASSUME NEW b, NEW c, Undisturbed(b, c)
  PROVE  Kept(b, c)
BY DEF Undisturbed

LEMMA OpensBlocks ==
  ASSUME NEW s \in Seq(Block), NEW t, NEW n, Opens(s, t, n)
  PROVE  /\ Len(s) \in Nat /\ Len(t) = Len(s) + 1
         /\ \A j \in 1 .. Len(s) : Undisturbed(s[j], t[j])
         /\ JustPushed(t[Len(t)], n)
         /\ Len(s) # 0 /\ s[Len(s)].unprotected => s[Len(s)].todo # {}
         /\ Len(s) # 0 => ~t[Len(t)].catchUnhandled
<1>1. PICK r \in Seq(Block), b \in Block :
        /\ Stays(s, r) /\ JustPushed(b, n) /\ t = Append(r, b)
        /\ s # <<>> /\ s[Len(s)].unprotected => s[Len(s)].todo # {}
        /\ s # <<>> => ~b.catchUnhandled
  BY DEF Opens
<1>2. /\ Len(s) \in Nat /\ Len(r) = Len(s)
      /\ \A j \in 1 .. Len(s) : Undisturbed(s[j], r[j])
  BY <1>1, StackDomain DEF Stays
<1>3. /\ Len(Append(r, b)) = Len(r) + 1
      /\ \A j \in 1 .. Len(r) : Append(r, b)[j] = r[j]
      /\ Append(r, b)[Len(r) + 1] = b
  BY <1>1, AppendProperties
<1>4. \A j \in 1 .. Len(s) : t[j] = r[j]
  BY <1>1, <1>2, <1>3
<1>5. Len(t) = Len(s) + 1 /\ t[Len(t)] = b
  BY <1>1, <1>2, <1>3
<1>6. Len(s) # 0 => s # <<>>
  BY EmptySeq
<1> QED
  BY <1>1, <1>2, <1>4, <1>5, <1>6

\* What a step other than the end of a pop or of a subprogram does to the blocks.
LEMMA StepBlocks ==
  ASSUME TypeInv, Next, ~EndPop, ~ResetBlockTables
  PROVE  /\ stack' \in Seq(Block) /\ Len(stack) \in Nat
         /\ KeptUpTo(stack, stack', Len(stack))
         /\ \/ Len(stack') = Len(stack) /\ nextId' = nextId
            \/ /\ Len(stack') = Len(stack) + 1 /\ nextId' = nextId + 1
               /\ JustPushed(stack'[Len(stack')], nextId)
<1>1. stack \in Seq(Block) /\ Len(stack) \in Nat /\ stack' \in Seq(Block)
  <2>1. TypeInv'
    BY TypeNext
  <2> QED
    BY <2>1, StackDomain DEF TypeInv, TypeOK
<1>2. CASE BeginPop
  <2>1. /\ Len(stack') = Len(stack) /\ nextId' = nextId
        /\ \A j \in 1 .. (Len(stack) - 1) : Undisturbed(stack[j], stack'[j])
        /\ Kept(stack[Len(stack)], stack'[Len(stack)])
    BY <1>2, BeginPopBlocks DEF BeginPop
  <2>2. ASSUME NEW j \in 1 .. Len(stack) PROVE Kept(stack[j], stack'[j])
    <3>1. j = Len(stack) \/ j \in 1 .. (Len(stack) - 1)
      BY <1>1
    <3> QED
      BY <2>1, <3>1, UndisturbedKept
  <2> QED
    BY <1>1, <2>1, <2>2, SMTT(40) DEF KeptUpTo
<1>3. CASE ~BeginPop
  <2>1. CASE Stays(stack, stack') /\ nextId' = nextId
    BY <1>1, <2>1, UndisturbedKept DEF Stays, KeptUpTo
  <2>2. CASE Opens(stack, stack', nextId) /\ nextId' = nextId + 1
    BY <1>1, <2>2, OpensBlocks, UndisturbedKept DEF KeptUpTo
  <2> QED
    BY <1>3, <2>1, <2>2, StatementStays
<1> QED
  BY <1>2, <1>3

\* The invariant of the stack is that of its blocks, which only change as
\* Undisturbed says.
LEMMA StackInvKept ==
  ASSUME NEW s, NEW t, NEW m \in Nat, NEW n, Len(s) \in Nat, m <= Len(s),
         StackInv(s, n), Len(t) = m,
         \A j \in 1 .. m : Undisturbed(s[j], t[j])
  PROVE  StackInv(t, n)
<1>1. \A j \in 1 .. m : j \in 1 .. Len(s)
  OBVIOUS
<1>2. ASSUME NEW j \in 1 .. m
      PROVE  /\ t[j].id = s[j].id /\ t[j].eh = s[j].eh /\ t[j].todo \subseteq s[j].todo
             /\ t[j].finally = s[j].finally /\ t[j].atEnd = s[j].atEnd
             /\ t[j].unprotected = s[j].unprotected
  BY DEF Undisturbed, Kept
<1>3. \A j \in 1 .. (m - 1) : j \in 1 .. m /\ j \in 1 .. (Len(s) - 1)
  OBVIOUS
<1>4. \A j \in 1 .. m : t[j].todo \subseteq t[j].eh
  BY <1>1, <1>2 DEF StackInv
<1>5. \A i, j \in 1 .. m : i < j => t[i].id < t[j].id
  BY <1>1, <1>2 DEF StackInv
<1>6. \A j \in 1 .. (m - 1) : t[j].unprotected => t[j].eh # {}
  BY <1>2, <1>3 DEF StackInv
<1> QED
  BY <1>1, <1>2, <1>4, <1>5, <1>6 DEF StackInv

LEMMA StackInvInit == Init => StackInv(stack, nextId)
<1> SUFFICES ASSUME Init PROVE StackInv(stack, nextId)
  OBVIOUS
<1>1. Len(stack) = 0 /\ nextId = 1
  BY DEF Init
<1> QED
  BY <1>1 DEF StackInv

LEMMA StackInvNext ==
  ASSUME TypeInv, StackInv(stack, nextId), [Next]_vars
  PROVE  StackInv(stack', nextId')
<1> DEFINE d == Len(stack)
<1>1. stack \in Seq(Block) /\ d \in Nat
  BY StackDomain DEF TypeInv, TypeOK
<1>2. CASE UNCHANGED vars
  BY <1>2 DEF vars
<1>3. CASE ResetBlockTables
  <2>1. Len(stack') = 0 /\ nextId' = 1
    BY <1>3 DEF ResetBlockTables
  <2> QED
    BY <2>1 DEF StackInv
<1>4. CASE EndPop
  <2>1. /\ nextId' = nextId /\ d \in Nat \ {0} /\ Len(stack') = d - 1
        /\ \A j \in 1 .. (d - 1) : Undisturbed(stack[j], stack'[j])
    BY <1>4, EndPopBlocks DEF EndPop
  <2>2. d - 1 \in Nat /\ d - 1 <= d
    BY <2>1
  <2> QED
    BY <1>1, <2>1, <2>2, StackInvKept
<1>5. CASE BeginPop
  <2>1. /\ nextId' = nextId /\ d \in Nat \ {0} /\ Len(stack') = d
        /\ \A j \in 1 .. (d - 1) : Undisturbed(stack[j], stack'[j])
        /\ Kept(stack[d], stack'[d])
        /\ stack'[d].todo \subseteq stack[d].eh
    BY <1>5, BeginPopBlocks DEF BeginPop
  <2> HIDE DEF d
  <2>2. \A j \in 1 .. (d - 1) :
          /\ Kept(stack[j], stack'[j]) /\ stack'[j].todo \subseteq stack[j].todo
          /\ stack'[j].unprotected = stack[j].unprotected
    BY <2>1 DEF Undisturbed
  <2>3. \A j \in 1 .. d : j = d \/ j \in 1 .. (d - 1)
    BY <2>1
  <2>4. \A j \in 1 .. d :
          /\ stack'[j].id = stack[j].id /\ stack'[j].eh = stack[j].eh
          /\ stack'[j].finally = stack[j].finally /\ stack'[j].atEnd = stack[j].atEnd
    BY <2>1, <2>2, <2>3 DEF Kept
  <2>5. StackInv(stack, nextId) /\ Len(stack) = d
    BY DEF d
  <2>6. \A j \in 1 .. d : stack'[j].todo \subseteq stack'[j].eh
    BY <2>1, <2>2, <2>3, <2>4, <2>5 DEF StackInv
  <2>7. \A j \in 1 .. (d - 1) : stack'[j].unprotected => stack'[j].eh # {}
    <3>1. \A j \in 1 .. (d - 1) : j \in 1 .. d
      BY <2>1
    <3> QED
      BY <2>2, <2>4, <2>5, <3>1 DEF StackInv
  <2> QED
    BY <2>1, <2>4, <2>5, <2>6, <2>7, SMTT(40) DEF StackInv
<1>6. CASE Next /\ ~BeginPop /\ ~EndPop /\ ~ResetBlockTables
  <2>1. CASE Stays(stack, stack') /\ nextId' = nextId
    <3>1. /\ Len(stack') = d /\ d <= d
          /\ \A j \in 1 .. d : Undisturbed(stack[j], stack'[j])
      BY <1>1, <2>1 DEF Stays
    <3> QED
      BY <1>1, <2>1, <3>1, StackInvKept
  <2>2. CASE Opens(stack, stack', nextId) /\ nextId' = nextId + 1
    <3> DEFINE t == stack'
               n == nextId
    <3>1. /\ Len(t) = d + 1
          /\ \A j \in 1 .. d : Undisturbed(stack[j], t[j])
          /\ JustPushed(t[Len(t)], n)
          /\ d # 0 /\ stack[d].unprotected => stack[d].todo # {}
          /\ StackInv(stack, n) /\ Len(stack) = d /\ nextId' = n + 1
      BY <1>1, <2>2, OpensBlocks
    <3> HIDE DEF t, d, n
    <3>2. \A j \in 1 .. d :
            /\ t[j].id = stack[j].id /\ t[j].eh = stack[j].eh
            /\ t[j].finally = stack[j].finally /\ t[j].atEnd = stack[j].atEnd
            /\ t[j].todo \subseteq stack[j].todo
            /\ t[j].unprotected = stack[j].unprotected
      BY <3>1 DEF Undisturbed, Kept
    <3>3. \A j \in 1 .. d + 1 : j = d + 1 \/ j \in 1 .. d
      BY <1>1
    <3>4. /\ n \in Nat \ {0} /\ t[d + 1].id = n /\ t[d + 1].todo = {}
          /\ t[d + 1].eh # {} => ~t[d + 1].finally /\ ~t[d + 1].atEnd
      BY <3>1 DEF JustPushed, StackInv
    <3>5. \A j \in 1 .. d + 1 : t[j].id \in 1 .. n
      BY <3>1, <3>2, <3>3, <3>4 DEF StackInv
    <3>6. \A i, j \in 1 .. d + 1 : i < j => t[i].id < t[j].id
      <4>1. \A i \in 1 .. d : t[i].id < n
        BY <3>1, <3>2, <3>4 DEF StackInv
      <4>2. \A i, j \in 1 .. d : i < j => t[i].id < t[j].id
        BY <3>1, <3>2 DEF StackInv
      <4>3. \A i, j \in 1 .. d + 1 : i < j => i \in 1 .. d
        BY <1>1
      <4> QED
        BY <3>3, <3>4, <4>1, <4>2, <4>3
    <3>7. \A j \in 1 .. d + 1 : t[j].eh # {} => ~t[j].finally /\ ~t[j].atEnd
      BY <3>1, <3>2, <3>3, <3>4 DEF StackInv
    <3>8. \A j \in 1 .. d + 1 : t[j].todo \subseteq t[j].eh
      BY <3>1, <3>2, <3>3, <3>4 DEF StackInv
    <3>9. \A j \in 1 .. d : t[j].unprotected => t[j].eh # {}
      <4>1. \A j \in 1 .. d : j = d \/ j \in 1 .. (d - 1)
        BY <1>1
      <4>2. \A j \in 1 .. d : d # 0 /\ stack[j].todo \subseteq stack[j].eh
        BY <1>1, <3>1 DEF StackInv
      <4> QED
        BY <3>1, <3>2, <4>1, <4>2, SMTT(40) DEF StackInv
    <3>10. n + 1 \in Nat \ {0} /\ n + 1 - 1 = n /\ d + 1 - 1 = d
      BY <1>1, <3>4
    <3> QED
      BY <3>1, <3>5, <3>6, <3>7, <3>8, <3>9, <3>10 DEF StackInv, t
  <2> QED
    BY <1>6, <2>1, <2>2, StatementStays
<1> QED
  BY <1>2, <1>3, <1>4, <1>5, <1>6

-----------------------------------------------------------------------------
(* Fixups                                                                  *)

\* A segment that leaves block b.
LeavesBlock(seg, b) ==
  /\ seg.blk = b.id /\ CallsOf(seg) = Duty(b)
  /\ b.life => b.unprotected \/ \E k \in DOMAIN seg.ops : seg.ops[k] = "lifetime_end"

\* Build_Fixups_From_To passes over blocks that have nothing left to do.
LEMMA FixupsCalls ==
  ASSUME NEW stk \in Seq(Block), NEW n, StackInv(stk, n), stk # <<>>,
         NEW from \in 0 .. Len(stk), NEW to \in 0 .. from
  PROVE  LET f == Fixups(stk, from, to)
         IN  /\ DOMAIN f.segs = 1 .. (from - to)
             /\ \A i \in 1 .. (from - to) : LeavesBlock(f.segs[i], stk[from + 1 - i])
<1> DEFINE f == Fixups(stk, from, to)
<1>1. /\ DOMAIN f.segs = 1 .. (from - to)
      /\ \A i \in 1 .. (from - to) : f.segs[i].blk = stk[from + 1 - i].id
  BY FixupsType
<1>2. ASSUME NEW i \in 1 .. (from - to)
      PROVE  f.segs[i] = IF Runs(stk, from + 1 - i, from)
                         THEN Cleanup(stk, stk[from + 1 - i]) ELSE Skip(stk[from + 1 - i])
  BY DEF Fixups
<1> HIDE DEF f
<1>3. ASSUME NEW i \in 1 .. (from - to)
      PROVE  LeavesBlock(f.segs[i], stk[from + 1 - i])
  <2> DEFINE j == from + 1 - i
             b == stk[j]
  <2>1. j \in 1 .. Len(stk) /\ (j # from => j \in 1 .. (Len(stk) - 1))
    BY StackDomain
  <2>2. b \in Block
    BY <2>1, StackDomain
  <2>3. f.segs[i] = IF Runs(stk, j, from) THEN Cleanup(stk, b) ELSE Skip(b)
    BY <1>2
  <2>4. CASE Runs(stk, j, from)
    <3>1. /\ CallsOf(Cleanup(stk, b)) = Duty(b)
          /\ b.life => \E k \in DOMAIN Cleanup(stk, b).ops :
                          Cleanup(stk, b).ops[k] = "lifetime_end"
      BY <2>2, CleanupCalls
    <3> HIDE DEF j
    <3> QED
      BY <1>1, <2>3, <2>4, <3>1 DEF LeavesBlock, j
  <2>5. CASE ~Runs(stk, j, from)
    <3>1. b.unprotected /\ j # from
      BY <2>5 DEF Runs
    <3>2. ~b.finally /\ ~b.atEnd
      BY <2>1, <3>1 DEF StackInv
    <3>3. Duty(b) = <<>>
      BY <3>2 DEF Duty, If
    <3>4. f.segs[i] = Skip(b) /\ Skip(b).ops = <<>> /\ Skip(b).blk = b.id
      BY <2>3, <2>5 DEF Skip
    <3>5. CallsOf(Skip(b)) = <<>>
      <4>1. DOMAIN Skip(b).ops = 1 .. 0
        BY <3>4
      <4> QED
        BY <4>1, CallsOfFew
    <3> HIDE DEF j
    <3> QED
      BY <3>1, <3>3, <3>4, <3>5 DEF LeavesBlock, j
  <2> QED
    BY <2>4, <2>5
<1> QED
  BY <1>1, <1>3 DEF f

\* So do the calls of fixups that leave the blocks of scope, each in turn.
LEMMA CallsRequired ==
  ASSUME NEW scope, NEW to, NEW segs, DOMAIN segs = 1 .. (Len(scope) - to),
         \A i \in 1 .. (Len(scope) - to) :
           CallsOf(segs[i]) = Duty(scope[Len(scope) + 1 - i])
  PROVE  Calls(segs) = Required(scope, to)
<1>1. [i \in DOMAIN segs |-> CallsOf(segs[i])]
        = [i \in 1 .. (Len(scope) - to) |-> Duty(scope[Len(scope) + 1 - i])]
  OBVIOUS
<1> QED
  BY <1>1 DEF Calls, Required

-----------------------------------------------------------------------------
(* Cached fixups leave what a jump from their level has to leave           *)

Leads(c, stk) ==
  c.from # Unknown =>
    /\ c.depth \in 0 .. c.from
    /\ DOMAIN c.fixup.segs = 1 .. (c.from - c.depth)
    /\ \A n \in 1 .. (c.from - c.depth) :
         CallsOf(c.fixup.segs[n]) = Duty(stk[c.from + 1 - n])

CachesLead == /\ \A l \in Labels : Leads(labels[l], stack)
              /\ \A i \in DOMAIN exits : Leads(exits[i], stack)

LEMMA DutyKept ==
  ASSUME NEW b, NEW c, Kept(b, c)
  PROVE  Duty(c) = Duty(b)
BY DEF Kept, Duty

LEMMA LeadsKept ==
  ASSUME NEW s, NEW t, NEW m \in Nat, KeptUpTo(s, t, m),
         NEW c, c.from \in Unknown .. m, Leads(c, s)
  PROVE  Leads(c, t)
<1> SUFFICES ASSUME c.from # Unknown, NEW n \in 1 .. (c.from - c.depth)
             PROVE  CallsOf(c.fixup.segs[n]) = Duty(t[c.from + 1 - n])
  BY DEF Leads
<1>1. c.from \in Nat /\ c.depth \in 0 .. c.from
  BY DEF Leads, Unknown
<1>2. c.from + 1 - n \in 1 .. m
  BY <1>1
<1>3. CallsOf(c.fixup.segs[n]) = Duty(s[c.from + 1 - n])
  BY DEF Leads
<1> QED
  BY <1>2, <1>3, DutyKept DEF KeptUpTo

\* A cached or a new fixup of c, used at the top of the stack.
LEMMA UsedLeads ==
  ASSUME TypeInv, StackInv(stack, nextId), stack # <<>>,
         NEW c, Leads(c, stack), NEW to, c.depth = to, to \in 0 .. Len(stack),
         NEW frag,
         frag = IF Cached(c) THEN c.fixup ELSE Fixups(stack, Len(stack), to)
  PROVE  /\ DOMAIN frag.segs = 1 .. (Len(stack) - to)
         /\ \A n \in 1 .. (Len(stack) - to) :
              CallsOf(frag.segs[n]) = Duty(stack[Len(stack) + 1 - n])
<1> DEFINE d == Len(stack)
<1>1. stack \in Seq(Block) /\ d \in Nat
  BY StackDomain DEF TypeInv, TypeOK
<1>2. CASE Cached(c)
  <2>1. c.from = d /\ frag = c.fixup /\ c.from # Unknown
    BY <1>1, <1>2 DEF Cached, Unknown
  <2> QED
    BY <2>1 DEF Leads
<1>3. CASE ~Cached(c)
  <2>1. d \in 0 .. Len(stack) /\ to \in 0 .. d /\ frag = Fixups(stack, d, to)
    BY <1>1, <1>3
  <2>2. /\ DOMAIN frag.segs = 1 .. (d - to)
        /\ \A i \in 1 .. (d - to) : LeavesBlock(frag.segs[i], stack[d + 1 - i])
    BY <1>1, <2>1, FixupsCalls
  <2> QED
    BY <2>2 DEF LeavesBlock
<1> QED
  BY <1>2, <1>3

LEMMA GotoKnownLeads ==
  ASSUME TypeInv, StackInv(stack, nextId), CachesLead,
         NEW l \in Labels, NEW cond \in BOOLEAN, GotoKnown(l, cond)
  PROVE  /\ \A k \in Labels : /\ labels'[k].from \in Unknown .. Len(stack)
                              /\ Leads(labels'[k], stack)
         /\ \A i \in DOMAIN done' :
              Calls(done'[i].frag.segs) = Required(done'[i].scope, done'[i].to)
<1> DEFINE d == Len(stack)
           to == labels[l].depth
           frag == IF Cached(labels[l]) THEN labels[l].fixup ELSE Fixups(stack, d, to)
           x == [kind |-> "goto", scope |-> stack, to |-> to, frag |-> frag]
<1>1. /\ stack \in Seq(Block) /\ stack # <<>> /\ d \in Nat /\ DOMAIN stack = 1 .. d
      /\ labels \in [Labels -> LabelData(d)]
  BY StackDomain DEF TypeInv, TypeOK, GotoKnown, Statement
<1>2. to \in 0 .. d /\ Leads(labels[l], stack)
  BY <1>1 DEF GotoKnown, Visible, CachesLead
<1>3. /\ labels' = [labels EXCEPT ![l].from = d, ![l].fixup = frag]
      /\ done' = <<x>>
  BY DEF GotoKnown, Compiled
<1>4. /\ DOMAIN frag.segs = 1 .. (d - to)
      /\ \A n \in 1 .. (d - to) : CallsOf(frag.segs[n]) = Duty(stack[d + 1 - n])
  BY <1>1, <1>2, UsedLeads
<1>5. /\ x.frag = frag /\ x.scope = stack /\ x.to = to
  OBVIOUS
<1>6. labels'[l].from = d /\ labels'[l].fixup = frag /\ labels'[l].depth = to
  <2>1. labels[l] \in LabelData(d)
    BY <1>1
  <2> HIDE DEF frag, d
  <2> QED
    BY <1>1, <1>3, <2>1 DEF LabelData
<1>7. \A k \in Labels : k # l => labels'[k] = labels[k]
  BY <1>1, <1>3
<1> HIDE DEF frag, x, to
<1>8. Leads(labels'[l], stack)
  BY <1>2, <1>4, <1>6 DEF Leads
<1>9. Calls(frag.segs) = Required(stack, to)
  BY <1>4, CallsRequired
<1>10. DOMAIN done' = {1} /\ done'[1] = x
  BY <1>3
<1>11. \A k \in Labels : labels'[k].from \in Unknown .. d
  <2>1. d \in Unknown .. d
    BY <1>1 DEF Unknown
  <2>2. \A k \in Labels : labels[k].from \in Unknown .. d
    BY <1>1 DEF LabelData
  <2> QED
    BY <1>6, <1>7, <2>1, <2>2
<1> QED
  BY <1>5, <1>7, <1>8, <1>9, <1>10, <1>11 DEF CachesLead

LEMMA ExitLeads ==
  ASSUME TypeInv, StackInv(stack, nextId), CachesLead,
         NEW i \in DOMAIN exits, NEW cond \in BOOLEAN, Exit(i, cond)
  PROVE  /\ \A k \in DOMAIN exits' : /\ exits'[k].from \in Unknown .. Len(stack)
                                    /\ Leads(exits'[k], stack)
         /\ \A k \in DOMAIN done' :
              Calls(done'[k].frag.segs) = Required(done'[k].scope, done'[k].to)
<1> DEFINE d == Len(stack)
           to == exits[i].depth
           frag == IF Cached(exits[i]) THEN exits[i].fixup ELSE Fixups(stack, d, to)
           x == [kind |-> "exit", scope |-> stack, to |-> to, frag |-> frag]
<1>1. /\ stack \in Seq(Block) /\ stack # <<>> /\ d \in Nat
      /\ exits \in Seq(ExitPoint(d)) /\ exits[i] \in ExitPoint(d)
  BY StackDomain, LenProperties, ElementOfSeq DEF TypeInv, TypeOK, Exit, Statement
<1>2. to \in 0 .. d /\ Leads(exits[i], stack)
  BY <1>1 DEF ExitPoint, CachesLead
<1>3. /\ exits' = [exits EXCEPT ![i].from = d, ![i].fixup = frag]
      /\ done' = <<x>>
  BY DEF Exit, Compiled
<1>4. /\ DOMAIN frag.segs = 1 .. (d - to)
      /\ \A n \in 1 .. (d - to) : CallsOf(frag.segs[n]) = Duty(stack[d + 1 - n])
  BY <1>1, <1>2, UsedLeads
<1>5. /\ x.frag = frag /\ x.scope = stack /\ x.to = to
  OBVIOUS
<1>6. exits'[i].from = d /\ exits'[i].fixup = frag /\ exits'[i].depth = to
  <2> HIDE DEF frag, d
  <2> QED
    BY <1>1, <1>3 DEF ExitPoint
<1>7. DOMAIN exits' = DOMAIN exits /\ \A k \in DOMAIN exits : k # i => exits'[k] = exits[k]
  BY <1>3
<1> HIDE DEF frag, x, to
<1>8. Leads(exits'[i], stack)
  BY <1>2, <1>4, <1>6 DEF Leads
<1>9. Calls(frag.segs) = Required(stack, to)
  BY <1>4, CallsRequired
<1>10. DOMAIN done' = {1} /\ done'[1] = x
  BY <1>3
<1>11. \A k \in DOMAIN exits' : exits'[k].from \in Unknown .. d
  <2>1. d \in Unknown .. d
    BY <1>1 DEF Unknown
  <2>2. \A k \in DOMAIN exits : exits[k].from \in Unknown .. d
    <3> HIDE DEF d
    <3>1. \A k \in DOMAIN exits : exits[k] \in ExitPoint(d)
      BY <1>1
    <3> QED
      BY <3>1 DEF ExitPoint
  <2> QED
    BY <1>6, <1>7, <2>1, <2>2
<1> QED
  BY <1>5, <1>7, <1>8, <1>9, <1>10, <1>11 DEF CachesLead

\* A cache that is not set leads nowhere.
LEMMA LeadsUnset ==
  ASSUME NEW c, c.from = Unknown, NEW stk
  PROVE  Leads(c, stk)
BY DEF Leads

LEMMA CachesLeadNext ==
  ASSUME TypeInv, StackInv(stack, nextId), CachesLead, [Next]_vars
  PROVE  CachesLead'
<1>1. CASE EndPop
  BY <1>1, EndPopClears, LeadsUnset DEF CachesLead
<1>2. CASE ResetBlockTables
  <2>1. exits = <<>>
    <3>1. exits \in Seq(ExitPoint(0))
      BY <1>2 DEF ResetBlockTables, TypeInv, TypeOK
    <3>2. \A i \in DOMAIN exits : FALSE
      BY <1>2 DEF ResetBlockTables, TypeInv, LoopsMatch
    <3> QED
      BY <3>1, <3>2
  <2>2. exits' = <<>> /\ labels' = [l \in Labels |-> NoLabel]
    BY <1>2, <2>1 DEF ResetBlockTables
  <2>3. NoLabel.from = Unknown
    BY DEF NoLabel
  <2> QED
    BY <2>2, <2>3, LeadsUnset DEF CachesLead
<1>3. CASE UNCHANGED vars
  BY <1>3 DEF vars, CachesLead
<1>4. CASE Next /\ ~EndPop /\ ~ResetBlockTables
  <2> DEFINE d == Len(stack)
  <2>1. d \in Nat /\ KeptUpTo(stack, stack', d)
    BY <1>4, StepBlocks
  <2>2. /\ \A l \in Labels : labels[l].from \in Unknown .. d
        /\ \A i \in DOMAIN exits : exits[i].from \in Unknown .. d
    <3>1. labels \in [Labels -> LabelData(d)] /\ exits \in Seq(ExitPoint(d))
      BY DEF TypeInv, TypeOK
    <3> HIDE DEF d
    <3>2. /\ \A l \in Labels : labels[l] \in LabelData(d)
          /\ \A i \in DOMAIN exits : exits[i] \in ExitPoint(d)
      BY <3>1
    <3> QED
      BY <3>2 DEF LabelData, ExitPoint
  <2>3. /\ \A l \in Labels : Leads(labels[l], stack')
        /\ \A i \in DOMAIN exits : Leads(exits[i], stack')
    BY <2>1, <2>2, LeadsKept DEF CachesLead
  <2>4. CASE labels' = labels /\ exits' = exits
    BY <2>3, <2>4 DEF CachesLead
  <2>5. ASSUME NEW l \in Labels, NEW cond \in BOOLEAN, GotoKnown(l, cond)
        PROVE  CachesLead'
    <3>1. \A k \in Labels : labels'[k].from \in Unknown .. d /\ Leads(labels'[k], stack)
      BY <2>5, GotoKnownLeads
    <3>2. exits' = exits
      BY <2>5 DEF GotoKnown
    <3> QED
      BY <2>1, <2>3, <3>1, <3>2, LeadsKept DEF CachesLead
  <2>6. ASSUME NEW i \in DOMAIN exits, NEW cond \in BOOLEAN, Exit(i, cond)
        PROVE  CachesLead'
    <3>1. \A k \in DOMAIN exits' : exits'[k].from \in Unknown .. d /\ Leads(exits'[k], stack)
      BY <2>6, ExitLeads
    <3>2. labels' = labels
      BY <2>6 DEF Exit
    <3> QED
      BY <2>1, <2>3, <3>1, <3>2, LeadsKept DEF CachesLead
  <2>7. ASSUME NEW l \in Labels, DefineLabel(l)
        PROVE  CachesLead'
    <3>1. /\ exits' = exits /\ labels[l].depth = Unknown
          /\ labels' = [labels EXCEPT ![l].depth = d, ![l].owner = Top.id]
      BY <2>7 DEF DefineLabel
    <3>2. /\ labels \in [Labels -> LabelData(d)] /\ labels[l] \in LabelData(d)
      BY DEF TypeInv, TypeOK
    <3>3. labels'[l].from = labels[l].from /\ \A k \in Labels : k # l => labels'[k] = labels[k]
      <4> HIDE DEF d
      <4> QED
        BY <3>1, <3>2 DEF LabelData
    <3>4. labels[l].from = Unknown
      BY <3>1 DEF CachesLead, Leads, Unknown
    <3> QED
      BY <2>3, <3>1, <3>3, <3>4, LeadsUnset DEF CachesLead
  <2>8. CASE PushLoop
    <3> DEFINE x == [depth |-> d, from |-> Unknown, fixup |-> NoFragment]
               S == ExitPoint(d)
    <3>1. labels' = labels /\ exits' = Append(exits, x) /\ exits \in Seq(S)
      BY <2>8 DEF PushLoop, TypeInv, TypeOK
    <3>2. Leads(x, stack')
      BY LeadsUnset
    <3> HIDE DEF x, S
    <3>3. \A i \in DOMAIN exits' : exits'[i] = x \/ (i \in DOMAIN exits /\ exits'[i] = exits[i])
      BY <3>1
    <3> QED
      BY <2>3, <3>1, <3>2, <3>3 DEF CachesLead
  <2> QED
    <3>1. \/ labels' = labels /\ exits' = exits
          \/ \E l \in Labels, cond \in BOOLEAN : GotoKnown(l, cond)
          \/ \E i \in DOMAIN exits, cond \in BOOLEAN : Exit(i, cond)
          \/ \E l \in Labels : DefineLabel(l)
          \/ PushLoop
      BY <1>4 DEF Next, PushBody, PushBlock, SaveStackPointer, AddLifetimeEntry,
         CallMayThrow, Reraise, GotoOpen, Return, BeginPop, PushHandler
    <3> QED
      BY <2>4, <2>5, <2>6, <2>7, <2>8, <3>1
<1> QED
  BY <1>1, <1>2, <1>3, <1>4

-----------------------------------------------------------------------------
(* Leaving one block                                                       *)

EndsLife(seg) == \E k \in DOMAIN seg.ops : seg.ops[k] = "lifetime_end"

\* What Pop_Block adds to leave block b, which it may have saved the stack for.
Leaves(frag, b) ==
  /\ DOMAIN frag.segs = 1 .. 1
  /\ frag.segs[1].blk = b.id
  /\ CallsOf(frag.segs[1]) = Duty(b)
  /\ b.life => EndsLife(frag.segs[1])
  /\ frag.restore \in {0, b.id}

GivesBack(frag, b) == b.stackSave => frag.restore = b.id

LEMMA LeavesKept ==
  ASSUME NEW b, NEW c, Kept(b, c), NEW frag
  PROVE  /\ Leaves(frag, c) => Leaves(frag, b)
         /\ GivesBack(frag, c) => GivesBack(frag, b)
<1>1. Duty(c) = Duty(b) /\ c.id = b.id /\ (b.life => c.life) /\ (b.stackSave => c.stackSave)
  BY DutyKept DEF Kept
<1> QED
  BY <1>1 DEF Leaves, GivesBack

LEMMA TopFixup ==
  ASSUME NEW stk \in Seq(Block), stk # <<>>
  PROVE  LET d == Len(stk)
             frag == Fixups(stk, d, d - 1)
         IN  Leaves(frag, stk[d]) /\ (d # 1 => GivesBack(frag, stk[d]))
<1> DEFINE d == Len(stk)
           to == d - 1
           frag == Fixups(stk, d, to)
           b == stk[d]
           saved == {j \in (to + 1) .. d : Runs(stk, j, d) /\ stk[j].stackSave}
<1>1. d \in Nat \ {0} /\ b \in Block /\ d \in 0 .. Len(stk) /\ to \in 0 .. d
  BY StackDomain, EmptySeq
<1>2. /\ DOMAIN frag.segs = 1 .. (d - to)
      /\ \A i \in 1 .. (d - to) : frag.segs[i].blk = stk[d + 1 - i].id
  BY <1>1, FixupsType
<1>3. \A i \in 1 .. (d - to) :
        frag.segs[i] = IF Runs(stk, d + 1 - i, d) THEN Cleanup(stk, stk[d + 1 - i])
                       ELSE Skip(stk[d + 1 - i])
  BY DEF Fixups
<1>4. frag.restore = IF to = 0 \/ saved = {} THEN 0 ELSE stk[Outermost(saved)].id
  BY DEF Fixups
<1>5. d - to = 1 /\ d + 1 - 1 = d /\ 1 \in 1 .. (d - to) /\ to + 1 = d
  BY <1>1
<1>6. Runs(stk, d, d)
  BY DEF Runs
<1>7. saved = IF b.stackSave THEN {d} ELSE {}
  BY <1>1, <1>5, <1>6
<1> HIDE DEF frag, saved, to, d
<1>8. frag.segs[1] = Cleanup(stk, b) /\ frag.segs[1].blk = b.id
  BY <1>2, <1>3, <1>5, <1>6
<1>9. b.stackSave => Outermost(saved) = d
  <2> HIDE DEF b
  <2>1. \A S : S = {d} => Outermost(S) \in S
    <3> SUFFICES ASSUME NEW S, S = {d} PROVE Outermost(S) \in S
      OBVIOUS
    <3>1. S \subseteq 1 .. d /\ d \in Nat /\ S # {}
      BY <1>1
    <3> QED
      BY <3>1, OutermostIn
  <2> QED
    BY <1>7, <2>1
<1>10. frag.restore = IF to # 0 /\ b.stackSave THEN b.id ELSE 0
  BY <1>4, <1>7, <1>9 DEF b
<1>11. /\ CallsOf(Cleanup(stk, b)) = Duty(b)
       /\ b.life => EndsLife(Cleanup(stk, b))
  BY <1>1, CleanupCalls DEF EndsLife
<1>12. DOMAIN frag.segs = 1 .. 1
  BY <1>2, <1>5
<1>13. d # 1 => to # 0
  BY <1>5
<1>14. frag.restore \in {0, b.id} /\ (d # 1 => GivesBack(frag, b))
  BY <1>10, <1>13 DEF GivesBack
<1>15. Leaves(frag, b)
  BY <1>8, <1>11, <1>12, <1>14 DEF Leaves
<1> QED
  BY <1>14, <1>15 DEF frag, b, to, d

\* A path whose first k fragments restore nothing, and whose others leave the
\* blocks of scope above "to" one by one, restores the stack as it should.
LEMMA PathRestores ==
  ASSUME NEW scope, Len(scope) \in Nat, NEW to \in 0 .. Len(scope), NEW k \in Nat,
         NEW path, DOMAIN path = 1 .. (k + (Len(scope) - to)),
         \A j \in 1 .. Len(scope) : scope[j].id # 0,
         \A i \in 1 .. k : path[i].restore = 0,
         \A n \in 1 .. (Len(scope) - to) :
           /\ path[k + n].restore \in {0, scope[Len(scope) + 1 - n].id}
           /\ GivesBack(path[k + n], scope[Len(scope) + 1 - n])
  PROVE  Restores(path, scope, to)
<1> DEFINE m == Len(scope)
           saved == SavedLevels(scope, to)
           o == Outermost(saved)
           S == {i \in DOMAIN path : path[i].restore # 0}
           e == Innermost(S)
<1> SUFFICES ASSUME saved # {}
             PROVE  \E j \in (to + 1) .. o : LastRestore(path) = scope[j].id
  BY DEF Restores
<1>1. saved \subseteq 1 .. m
  BY DEF SavedLevels
<1> HIDE DEF saved
<1>2. o \in saved
  BY <1>1, OutermostIn
<1>3. o \in (to + 1) .. m /\ scope[o].stackSave
  BY <1>2 DEF saved, SavedLevels
<1> HIDE DEF o
<1> DEFINE n == m + 1 - o
<1>4. n \in 1 .. (m - to) /\ m + 1 - n = o /\ k + n \in DOMAIN path
  BY <1>3
<1>5. path[k + n].restore = scope[o].id /\ scope[o].id # 0
  <2> HIDE DEF n
  <2>1. GivesBack(path[k + n], scope[o])
    BY <1>4
  <2> QED
    BY <1>3, <2>1 DEF GivesBack
<1>6. k + n \in S
  BY <1>4, <1>5
<1>7. S \subseteq 1 .. (k + (m - to)) /\ k + (m - to) \in Nat
  OBVIOUS
<1>8. e \in S /\ \A i \in S : i <= e
  <2> HIDE DEF S, n
  <2> QED
    BY <1>6, <1>7, InnermostIn
<1>9. e \in 1 .. (k + (m - to)) /\ k + n <= e /\ path[e].restore # 0
  BY <1>6, <1>8
<1> HIDE DEF S, e
<1> DEFINE q == e - k
           j == m + 1 - q
<1>10. q \in 1 .. (m - to) /\ k + q = e /\ j \in (to + 1) .. o
  <2> HIDE DEF m
  <2>1. m \in Nat /\ to \in 0 .. m /\ k \in Nat
    BY DEF m
  <2>2. o \in Nat /\ e \in Nat /\ m + 1 - o <= e - k /\ e - k <= m - to /\ o <= m
    BY <1>3, <1>9, <2>1, SMTT(40)
  <2>3. q \in Nat /\ 1 <= q /\ q <= m - to /\ m + 1 - o <= q /\ k + q = e
    BY <2>1, <2>2
  <2> HIDE DEF q, n
  <2>4. m + 1 - q \in Nat /\ to + 1 <= m + 1 - q /\ m + 1 - q <= o
    BY ONLY <2>1, <2>2, <2>3
  <2> QED
    BY ONLY <2>1, <2>2, <2>3, <2>4 DEF j
<1>11. path[e].restore = scope[j].id
  <2> HIDE DEF q
  <2>1. path[k + q].restore \in {0, scope[m + 1 - q].id}
    BY <1>10
  <2> QED
    BY <1>9, <1>10, <2>1 DEF j
<1>12. LastRestore(path) = path[e].restore
  <2>1. e # 0
    BY <1>9
  <2> QED
    BY <2>1 DEF LastRestore, e, S
<1> QED
  BY <1>10, <1>11, <1>12 DEF o

-----------------------------------------------------------------------------
(* The transfers of control whose code is complete                         *)

\* What the properties say of the transfer of control x.
RightTransfer(x) ==
  /\ Calls(x.frag.segs) = Required(x.scope, x.to)
  /\ x.kind = "fall" /\ x.to > 0 => Restores(<<x.frag>>, x.scope, x.to)
  /\ x.kind \in {"fall", "return"} =>
       \A j \in (x.to + 1) .. Len(x.scope) :
         x.scope[j].life => x.scope[j].unprotected \/ EndsLifetime(x.frag.segs, x.scope[j])

DoneRight == \A i \in DOMAIN done : RightTransfer(done[i])

LEMMA QuietInv ==
  ASSUME NEW stk \in Seq(Block), stk # <<>>, NEW n, StackInv(stk, n)
  PROVE  StackInv(Quiet(stk), n)
<1> DEFINE d == Len(stk)
           q == Quiet(stk)
<1>1. /\ d \in Nat /\ Len(q) = d /\ \A j \in 1 .. d : stk[j] \in Block
      /\ \A j \in 1 .. d : q[j] = IF j = d THEN [stk[j] EXCEPT !.unprotected = TRUE] ELSE stk[j]
  BY QuietBlocks, StackDomain
<1> HIDE DEF q
<1>2. \A j \in 1 .. d : /\ q[j].id = stk[j].id /\ q[j].eh = stk[j].eh
                        /\ q[j].finally = stk[j].finally /\ q[j].atEnd = stk[j].atEnd
                        /\ q[j].todo = stk[j].todo
  BY <1>1 DEF Block
<1>3. \A j \in 1 .. (d - 1) : j \in 1 .. d /\ j # d
  BY <1>1
<1>4. \A j \in 1 .. (d - 1) : j \in 1 .. d /\ q[j] = stk[j]
  <2> HIDE DEF d
  <2> QED
    BY <1>1, <1>3
<1> QED
  BY <1>1, <1>2, <1>4, ZenonT(40) DEF StackInv, q

LEMMA FallRight ==
  ASSUME TypeInv, StackInv(stack, nextId), BeginPop
  PROVE  DoneRight'
<1> DEFINE d == Len(stack)
           to == d - 1
           q == Quiet(stack)
           frag == Fixups(q, d, to)
           x == [kind |-> "fall", scope |-> stack, to |-> to, frag |-> frag]
<1>1. /\ stack \in Seq(Block) /\ stack # <<>> /\ d \in Nat \ {0} /\ StackInv(q, nextId)
      /\ stack[d] \in Block
  BY QuietInv, StackDomain, EmptySeq DEF TypeInv, TypeOK, BeginPop, Statement
<1>2. /\ q \in Seq(Block) /\ q # <<>> /\ Len(q) = d /\ Kept(stack[d], q[d])
  <2>1. q \in Seq(Block) /\ Len(q) = d /\ Kept(stack[d], q[d])
    BY <1>1, QuietBlocks
  <2> QED
    BY <1>1, <2>1, EmptySeq
<1>3. done' = <<>> \/ done' = <<x>>
  BY DEF BeginPop, Compiled, Quiet
<1>4. x.kind = "fall" /\ x.scope = stack /\ x.to = to /\ x.frag = frag
  OBVIOUS
<1>5. Leaves(frag, stack[d]) /\ (d # 1 => GivesBack(frag, stack[d]))
  BY <1>2, TopFixup, LeavesKept
<1> HIDE DEF frag, x, q
<1>6. to \in Nat /\ d - to = 1 /\ to + 1 = d /\ d + 1 - 1 = d /\ (to > 0 => d # 1)
  <2>1. d \in Nat \ {0}
    BY <1>1
  <2> HIDE DEF d
  <2> QED
    BY <2>1
<1> HIDE DEF to
<1>7. Calls(frag.segs) = Required(stack, to)
  <2>1. DOMAIN frag.segs = 1 .. (d - to)
    BY <1>5, <1>6 DEF Leaves
  <2>2. ASSUME NEW i \in 1 .. (d - to)
        PROVE  CallsOf(frag.segs[i]) = Duty(stack[d + 1 - i])
    <3>1. i = 1 /\ d + 1 - i = d
      BY <1>1, <1>6
    <3> QED
      BY <1>5, <3>1 DEF Leaves
  <2> QED
    BY <2>1, <2>2, CallsRequired
<1>8. to > 0 => Restores(<<frag>>, stack, to)
  <2> SUFFICES ASSUME to > 0 PROVE Restores(<<frag>>, stack, to)
    OBVIOUS
  <2> DEFINE path == <<frag>>
  <2>1. DOMAIN path = 1 .. (0 + (d - to)) /\ path[1] = frag
    BY <1>6
  <2>2. \A j \in 1 .. d : stack[j].id # 0
    BY <1>1 DEF StackInv
  <2>3. to \in 0 .. d
    BY <1>1, <1>6
  <2> HIDE DEF path
  <2>4. ASSUME NEW n \in 1 .. (d - to)
        PROVE  /\ path[0 + n].restore \in {0, stack[d + 1 - n].id}
               /\ GivesBack(path[0 + n], stack[d + 1 - n])
    <3>1. 0 + n = 1 /\ d + 1 - n = d
      BY <1>1, <1>6
    <3> QED
      BY <1>5, <1>6, <2>1, <3>1 DEF Leaves
  <2>5. \A i \in 1 .. 0 : path[i].restore = 0
    OBVIOUS
  <2>6. Restores(path, stack, to)
    BY <1>1, <2>1, <2>2, <2>3, <2>4, <2>5, PathRestores
  <2> QED
    BY <2>6 DEF path
<1>9. ASSUME NEW j \in (to + 1) .. d, stack[j].life
      PROVE  EndsLifetime(frag.segs, stack[j])
  <2>1. j = d
    BY <1>1, <1>6, <1>9
  <2>2. /\ 1 \in DOMAIN frag.segs /\ frag.segs[1].blk = stack[d].id
        /\ EndsLife(frag.segs[1])
    BY <1>5, <1>9, <2>1 DEF Leaves
  <2> QED
    BY <2>1, <2>2 DEF EndsLifetime, EndsLife
<1>10. RightTransfer(x)
  BY <1>4, <1>7, <1>8, <1>9 DEF RightTransfer
<1>11. \A i \in DOMAIN done' : done'[i] = x
  BY <1>3
<1> QED
  BY <1>10, <1>11 DEF DoneRight

LEMMA ReturnRight ==
  ASSUME TypeInv, StackInv(stack, nextId), Return
  PROVE  DoneRight'
<1> DEFINE d == Len(stack)
           frag == Fixups(stack, d, 0)
           x == [kind |-> "return", scope |-> stack, to |-> 0, frag |-> frag]
<1>1. stack \in Seq(Block) /\ stack # <<>> /\ d \in Nat /\ d \in 0 .. Len(stack) /\ 0 \in 0 .. d
  BY StackDomain DEF TypeInv, TypeOK, Return, Statement
<1>2. done' = <<x>>
  BY DEF Return, Compiled
<1>3. x.kind = "return" /\ x.scope = stack /\ x.to = 0 /\ x.frag = frag
  OBVIOUS
<1>4. /\ DOMAIN frag.segs = 1 .. (d - 0)
      /\ \A i \in 1 .. (d - 0) : LeavesBlock(frag.segs[i], stack[d + 1 - i])
  BY <1>1, FixupsCalls
<1> HIDE DEF frag, x
<1>5. Calls(frag.segs) = Required(stack, 0)
  BY <1>4, CallsRequired DEF LeavesBlock
<1>6. ASSUME NEW j \in 1 .. d, stack[j].life
      PROVE  stack[j].unprotected \/ EndsLifetime(frag.segs, stack[j])
  <2> DEFINE i == d + 1 - j
  <2>1. i \in 1 .. (d - 0) /\ d + 1 - i = j
    BY <1>1
  <2> HIDE DEF i
  <2>2. i \in DOMAIN frag.segs /\ LeavesBlock(frag.segs[i], stack[j])
    BY <1>4, <2>1
  <2> QED
    BY <1>6, <2>2 DEF LeavesBlock, EndsLifetime
<1>7. RightTransfer(x)
  BY <1>3, <1>5, <1>6 DEF RightTransfer
<1>8. \A i \in DOMAIN done' : done'[i] = x
  BY <1>2
<1> QED
  BY <1>7, <1>8 DEF DoneRight

LEMMA DoneNext ==
  ASSUME TypeInv, StackInv(stack, nextId), CachesLead, DoneRight, [Next]_vars
  PROVE  DoneRight'
<1>1. CASE BeginPop
  BY <1>1, FallRight
<1>2. CASE Return
  BY <1>2, ReturnRight
<1>3. ASSUME NEW l \in Labels, NEW cond \in BOOLEAN, GotoKnown(l, cond)
      PROVE  DoneRight'
  <2>1. \A i \in DOMAIN done' :
          Calls(done'[i].frag.segs) = Required(done'[i].scope, done'[i].to)
    BY <1>3, GotoKnownLeads
  <2>2. \A i \in DOMAIN done' : done'[i].kind = "goto"
    BY <1>3 DEF GotoKnown, Compiled
  <2> QED
    BY <2>1, <2>2 DEF DoneRight, RightTransfer
<1>4. ASSUME NEW i \in DOMAIN exits, NEW cond \in BOOLEAN, Exit(i, cond)
      PROVE  DoneRight'
  <2>1. \A k \in DOMAIN done' :
          Calls(done'[k].frag.segs) = Required(done'[k].scope, done'[k].to)
    BY <1>4, ExitLeads
  <2>2. \A k \in DOMAIN done' : done'[k].kind = "exit"
    BY <1>4 DEF Exit, Compiled
  <2> QED
    BY <2>1, <2>2 DEF DoneRight, RightTransfer
<1>5. CASE done' = <<>>
  BY <1>5 DEF DoneRight
<1>6. CASE UNCHANGED vars
  BY <1>6 DEF vars, DoneRight
<1>7. ASSUME Next
      PROVE  \/ BeginPop \/ Return \/ done' = <<>>
             \/ \E l \in Labels, cond \in BOOLEAN : GotoKnown(l, cond)
             \/ \E i \in DOMAIN exits, cond \in BOOLEAN : Exit(i, cond)
  BY <1>7 DEF Next, PushBody, PushBlock, PushLoop, Pushed, SaveStackPointer,
     AddLifetimeEntry, CallMayThrow, Reraise, GotoOpen, DefineLabel, PushHandler,
     EndPop, ResetBlockTables
<1> QED
  BY <1>1, <1>2, <1>3, <1>4, <1>5, <1>6, <1>7

-----------------------------------------------------------------------------
(* Forward gotos                                                           *)

BranchInv(o, lab) ==
  /\ o.made \in 0 .. Len(o.code)
  /\ \A i \in 1 .. Len(o.code) : DOMAIN o.code[i].segs = 1 .. 1
  /\ o.from = Unknown => lab[o.label].depth # Unknown
  /\ o.to # Unknown => o.from = Unknown

\* The level that the branch o has been fixed up to, or that it goes to.
Reached(o) == IF o.from = Unknown THEN o.to ELSE o.from

\* The fragments that the goto g runs for no block that it leaves: they were
\* emitted before it, and do nothing.
Idle(g, o) == Len(o.code) - g.off - (Len(g.scope) - Reached(o))

\* What the branch o does for the goto g: it leaves the blocks above the level
\* reached, one by one.  These are closed, and those below are still open.
PathInv(g, o, stk, n) ==
  /\ g.label = o.label
  /\ \A j \in 1 .. Len(g.scope) : g.scope[j].id \in 1 .. (n - 1)
  /\ Reached(o) \in 1 .. Len(g.scope)
  /\ g.off \in 0 .. Len(o.code) /\ Idle(g, o) \in Nat
  /\ \A i \in 1 .. Idle(g, o) : ~NonEmpty(o.code[g.off + i])
  /\ \A i \in 1 .. (Len(g.scope) - Reached(o)) :
       /\ Leaves(o.code[g.off + Idle(g, o) + i], g.scope[Len(g.scope) + 1 - i])
       /\ GivesBack(o.code[g.off + Idle(g, o) + i], g.scope[Len(g.scope) + 1 - i])
  /\ o.from # Unknown =>
       /\ \A j \in 1 .. o.from : Kept(g.scope[j], stk[j])
       /\ \A j \in (o.from + 1) .. Len(g.scope) :
            \A i \in 1 .. Len(stk) : stk[i].id # g.scope[j].id

BranchesInv == \A i \in DOMAIN open : BranchInv(open[i], labels)
PathsInv == \A i \in DOMAIN gotos : PathInv(gotos[i], open[gotos[i].ob], stack, nextId)

LEMMA KeptTransitive ==
  ASSUME NEW a, NEW b, NEW c, Kept(a, b), Kept(b, c)
  PROVE  Kept(a, c)
BY DEF Kept

\* Blocks are opened, or closed above the level of the branch.
LEMMA PathKept ==
  ASSUME NEW g, NEW o, NEW s, NEW n \in Nat, NEW t, NEW p \in Nat,
         PathInv(g, o, s, n), n <= p, Len(g.scope) \in Nat,
         o.from \in Int, o.from # Unknown => KeptUpTo(s, t, o.from),
         \A i \in 1 .. Len(t) :
           t[i].id >= n \/ (i \in 1 .. Len(s) /\ t[i].id = s[i].id)
  PROVE  PathInv(g, o, t, p)
<1>1. \A j \in 1 .. Len(g.scope) : g.scope[j].id \in 1 .. (p - 1)
  BY DEF PathInv
<1>2. ASSUME o.from # Unknown, NEW j \in 1 .. o.from
      PROVE  Kept(g.scope[j], t[j])
  BY <1>2, KeptTransitive DEF PathInv, KeptUpTo
<1>3. ASSUME o.from # Unknown, NEW j \in (o.from + 1) .. Len(g.scope),
             NEW i \in 1 .. Len(t)
      PROVE  t[i].id # g.scope[j].id
  <2>1. j \in 1 .. Len(g.scope)
    BY <1>3 DEF PathInv, Reached
  <2>2. g.scope[j].id \in 1 .. (n - 1)
    BY <2>1 DEF PathInv
  <2>3. i \in 1 .. Len(s) => s[i].id # g.scope[j].id
    BY <1>3 DEF PathInv
  <2> QED
    BY <2>2, <2>3
<1> QED
  BY <1>1, <1>2, <1>3 DEF PathInv

\* Only the code, the levels and the label of the branch matter.
LEMMA PathOfSame ==
  ASSUME NEW g, NEW o, NEW q, NEW s, NEW n, PathInv(g, o, s, n),
         q.label = o.label, q.code = o.code, q.from = o.from, q.to = o.to
  PROVE  PathInv(g, q, s, n)
<1>1. Reached(q) = Reached(o) /\ Idle(g, q) = Idle(g, o)
  BY DEF Reached, Idle
<1> QED
  BY <1>1 DEF PathInv

\* The label is defined where the branch has been fixed up to.
LEMMA PathDefined ==
  ASSUME NEW g, NEW o, NEW q, NEW s, NEW n, PathInv(g, o, s, n),
         Len(s) \in Nat, Len(g.scope) \in Nat,
         o.from # Unknown, o.from \in 1 .. Len(s),
         Len(s) <= Len(g.scope), g.scope[Len(s)].id = s[Len(s)].id,
         q.label = o.label, q.code = o.code, q.from = Unknown, q.to = Len(s)
  PROVE  PathInv(g, q, s, n)
<1>1. o.from = Len(s)
  <2> SUFFICES ASSUME o.from # Len(s) PROVE FALSE
    OBVIOUS
  <2>1. Len(s) \in (o.from + 1) .. Len(g.scope) /\ Len(s) \in 1 .. Len(s)
    OBVIOUS
  <2> QED
    BY <2>1 DEF PathInv
<1>2. Reached(q) = Reached(o) /\ Idle(g, q) = Idle(g, o)
  BY <1>1 DEF Reached, Idle
<1> QED
  BY <1>2 DEF PathInv

\* Pop_Block adds the fixup of the block at the level of the branch.
LEMMA PathFixed ==
  ASSUME NEW g, NEW o, NEW q, NEW s, NEW n \in Nat, NEW t, NEW frag, NEW d \in Nat,
         PathInv(g, o, s, n), StackInv(s, n), Len(s) = d, d > 1, o.from = d,
         Len(g.scope) \in Nat, Len(o.code) \in Nat,
         Leaves(frag, s[d]), GivesBack(frag, s[d]),
         Len(t) = d - 1, KeptUpTo(s, t, d - 1),
         q.label = o.label, q.from = d - 1,
         Len(q.code) = Len(o.code) + 1, q.code[Len(o.code) + 1] = frag,
         \A i \in 1 .. Len(o.code) : q.code[i] = o.code[i]
  PROVE  PathInv(g, q, t, n)
<1> DEFINE m == Len(g.scope)
           k == Idle(g, o)
           len == Len(o.code)
<1>1. o.from # Unknown /\ q.from # Unknown /\ Reached(o) = d /\ Reached(q) = d - 1
  BY DEF Unknown, Reached
<1>2. /\ d \in 1 .. m /\ k \in Nat /\ g.off \in 0 .. len
      /\ k = len - g.off - (m - d) /\ m \in Nat /\ len \in Nat
  BY <1>1 DEF PathInv, Idle
<1>3. Idle(g, q) = k
  <2>1. Idle(g, q) = (len + 1) - g.off - (m - (d - 1))
    BY <1>1 DEF Idle
  <2> HIDE DEF k, m, len
  <2> QED
    BY <1>2, <2>1, SMTT(40)
<1>4. /\ \A i \in 1 .. k : ~NonEmpty(o.code[g.off + i])
      /\ \A i \in 1 .. (m - d) : /\ Leaves(o.code[g.off + k + i], g.scope[m + 1 - i])
                                 /\ GivesBack(o.code[g.off + k + i], g.scope[m + 1 - i])
      /\ \A j \in 1 .. d : Kept(g.scope[j], s[j])
      /\ \A j \in (d + 1) .. m : \A i \in 1 .. d : s[i].id # g.scope[j].id
      /\ \A j \in 1 .. m : g.scope[j].id \in 1 .. (n - 1)
  BY <1>1 DEF PathInv
<1> HIDE DEF m, k, len
<1>5. \A i \in 1 .. k : ~NonEmpty(q.code[g.off + i])
  <2>1. \A i \in 1 .. k : g.off + i \in 1 .. len
    BY <1>2, SMTT(40)
  <2> QED
    BY <1>4, <2>1 DEF len
<1>6. ASSUME NEW i \in 1 .. (m - (d - 1))
      PROVE  /\ Leaves(q.code[g.off + k + i], g.scope[m + 1 - i])
             /\ GivesBack(q.code[g.off + k + i], g.scope[m + 1 - i])
  <2>1. CASE i = m - d + 1
    <3>1. g.off + k + i = len + 1 /\ m + 1 - i = d
      BY <1>2, <2>1, SMTT(40)
    <3>2. Kept(g.scope[d], s[d])
      BY <1>2, <1>4
    <3> QED
      BY <3>1, <3>2, LeavesKept DEF len
  <2>2. CASE i # m - d + 1
    <3>1. i \in 1 .. (m - d)
      BY <1>2, <2>2
    <3>2. g.off + k + i \in 1 .. len
      <4> DEFINE off == g.off
      <4>1. /\ off \in Nat /\ k \in Nat /\ i \in Nat \ {0} /\ i <= m - d
            /\ k = len - off - (m - d) /\ len \in Nat /\ m \in Nat
        BY <1>2, <3>1
      <4> HIDE DEF off
      <4>2. off + k + i = len - (m - d) + i
        BY <4>1, SMTT(40)
      <4>3. off + k + i \in 1 .. len
        BY <4>1, <4>2
      <4> QED
        BY <4>3 DEF off
    <3> QED
      BY <1>4, <3>1, <3>2 DEF len
  <2> QED
    BY <2>1, <2>2
<1>7. ASSUME NEW j \in 1 .. (d - 1)
      PROVE  Kept(g.scope[j], t[j])
  <2>1. j \in 1 .. d
    OBVIOUS
  <2> QED
    BY <1>4, <2>1, KeptTransitive DEF KeptUpTo
<1>8. ASSUME NEW j \in ((d - 1) + 1) .. m, NEW i \in 1 .. (d - 1)
      PROVE  t[i].id # g.scope[j].id
  <2>1. i \in 1 .. d /\ i < d /\ d \in 1 .. d /\ (j = d \/ j \in (d + 1) .. m)
    BY <1>2
  <2>2. t[i].id = s[i].id
    BY DEF KeptUpTo, Kept
  <2>3. CASE j = d
    <3>1. s[i].id < s[d].id /\ s[i].id \in Nat /\ s[d].id \in Nat
      BY <2>1 DEF StackInv
    <3>2. g.scope[d].id = s[d].id
      BY <1>4, <2>1 DEF Kept
    <3> QED
      BY <2>2, <2>3, <3>1, <3>2
  <2>4. CASE j # d
    BY <1>4, <2>1, <2>2, <2>4
  <2> QED
    BY <2>3, <2>4
<1>9. /\ g.label = q.label /\ Reached(q) \in 1 .. m
      /\ g.off \in 0 .. Len(q.code)
  BY <1>1, <1>2 DEF PathInv, len
<1> QED
  BY <1>1, <1>2, <1>3, <1>4, <1>5, <1>6, <1>7, <1>8, <1>9 DEF PathInv, m

LEMMA JumpTypes ==
  ASSUME TypeInv, AlignInv
  PROVE  /\ stack \in Seq(Block) /\ Len(stack) \in Nat /\ nextId \in Nat
         /\ \A i \in DOMAIN open :
              /\ open[i] \in OpenBranch(Len(stack)) /\ open[i].code \in Seq(Fragment)
              /\ open[i].made \in Nat
              /\ Len(open[i].code) \in Nat /\ open[i].from \in Unknown .. Len(stack)
         /\ \A i \in DOMAIN gotos :
              /\ gotos[i].ob \in DOMAIN open
              /\ gotos[i].scope \in Seq(Block) /\ Len(gotos[i].scope) \in Nat
              /\ LET from == open[gotos[i].ob].from
                 IN  from # Unknown => from \in 1 .. Len(stack)
<1>1. /\ stack \in Seq(Block) /\ nextId \in Nat /\ gotos \in Seq(Goto)
      /\ open \in Seq(OpenBranch(Len(stack)))
  BY DEF TypeInv, TypeOK
<1>2. ASSUME NEW i \in DOMAIN open
      PROVE  /\ open[i] \in OpenBranch(Len(stack)) /\ open[i].code \in Seq(Fragment)
             /\ open[i].made \in Nat
             /\ Len(open[i].code) \in Nat /\ open[i].from \in Unknown .. Len(stack)
  <2>1. open[i] \in OpenBranch(Len(stack))
    BY <1>1
  <2>2. /\ open[i].code \in Seq(Fragment) /\ open[i].from \in Unknown .. Len(stack)
        /\ open[i].made \in Nat
    BY <2>1 DEF OpenBranch
  <2> QED
    BY <2>1, <2>2, LenProperties
<1>3. ASSUME NEW i \in DOMAIN gotos
      PROVE  /\ gotos[i].ob \in DOMAIN open
             /\ gotos[i].scope \in Seq(Block) /\ Len(gotos[i].scope) \in Nat
             /\ LET from == open[gotos[i].ob].from
                IN  from # Unknown => from \in 1 .. Len(stack)
  <2>1. gotos[i] \in Goto
    BY <1>1
  <2>2. gotos[i].scope \in Seq(Block)
    BY <2>1 DEF Goto
  <2> QED
    BY <2>2, StackDomain DEF AlignInv, GotosOpen, OpenBranchesAligned
<1> QED
  BY <1>1, <1>2, <1>3, StackDomain

\* The statements that leave the branches as they are.
LEMMA JumpsStay ==
  ASSUME TypeInv, AlignInv, BranchesInv, PathsInv,
         Next, ~EndPop, ~ResetBlockTables, open' = open, gotos' = gotos,
         \A l \in Labels : labels'[l].depth = labels[l].depth
  PROVE  BranchesInv' /\ PathsInv'
<1>1. ASSUME NEW i \in DOMAIN open PROVE BranchInv(open[i], labels')
  <2>1. BranchInv(open[i], labels) /\ open[i] \in OpenBranch(Len(stack))
    BY JumpTypes DEF BranchesInv
  <2>2. open[i].label \in Labels
    BY <2>1 DEF OpenBranch
  <2> QED
    BY <2>1, <2>2 DEF BranchInv
<1>2. ASSUME NEW i \in DOMAIN gotos
      PROVE  PathInv(gotos[i], open[gotos[i].ob], stack', nextId')
  <2> DEFINE g == gotos[i]
             o == open[g.ob]
  <2>1. /\ Len(stack) \in Nat /\ Len(g.scope) \in Nat /\ o.from \in Unknown .. Len(stack)
        /\ PathInv(g, o, stack, nextId) /\ nextId \in Nat
    BY JumpTypes DEF PathsInv
  <2>2. /\ KeptUpTo(stack, stack', Len(stack))
        /\ \/ Len(stack') = Len(stack) /\ nextId' = nextId
           \/ /\ Len(stack') = Len(stack) + 1 /\ nextId' = nextId + 1
              /\ JustPushed(stack'[Len(stack')], nextId)
    BY StepBlocks
  <2> HIDE DEF g, o
  <2>3. KeptUpTo(stack, stack', o.from)
    BY <2>1, <2>2 DEF KeptUpTo, Unknown
  <2>4. \A k \in 1 .. Len(stack') :
          stack'[k].id >= nextId \/ (k \in 1 .. Len(stack) /\ stack'[k].id = stack[k].id)
    <3>1. \A k \in 1 .. Len(stack') : k \in 1 .. Len(stack) \/ stack'[k].id = nextId
      BY <2>1, <2>2 DEF JustPushed
    <3> QED
      BY <2>1, <2>2, <3>1 DEF KeptUpTo, Kept
  <2>5. nextId' \in Nat /\ nextId <= nextId' /\ o.from \in Int
    BY <2>1, <2>2 DEF Unknown
  <2>6. PathInv(g, o, stack', nextId')
    BY <2>1, <2>3, <2>4, <2>5, PathKept
  <2> QED
    BY <2>6 DEF g, o
<1> QED
  BY <1>1, <1>2 DEF BranchesInv, PathsInv

LEMMA JumpsDefine ==
  ASSUME TypeInv, AlignInv, BranchesInv, PathsInv, NEW l \in Labels, DefineLabel(l)
  PROVE  BranchesInv' /\ PathsInv'
<1> DEFINE d == Len(stack)
           ended(o) == [o EXCEPT !.from = Unknown, !.to = d]
<1>1. /\ gotos' = gotos /\ stack' = stack /\ nextId' = nextId
      /\ labels[l].depth = Unknown /\ CanDefine(l) /\ stack # <<>>
      /\ labels' = [labels EXCEPT ![l].depth = d, ![l].owner = Top.id]
      /\ open' = [i \in DOMAIN open |-> IF open[i].label = l THEN ended(open[i]) ELSE open[i]]
  BY DEF DefineLabel, Statement
<1>2. d \in Nat /\ \A i \in DOMAIN open : open[i] \in OpenBranch(d)
  BY JumpTypes
<1>3. /\ labels'[l].depth = d /\ d # Unknown
      /\ \A k \in Labels : k # l => labels'[k] = labels[k]
  <2>1. /\ labels \in [Labels -> LabelData(d)] /\ labels[l] \in LabelData(d)
    BY DEF TypeInv, TypeOK
  <2>2. labels' = [labels EXCEPT ![l].depth = d, ![l].owner = Top.id]
    BY <1>1
  <2>3. d # Unknown
    BY <1>2 DEF Unknown
  <2> HIDE DEF d
  <2>4. labels'[l].depth = d
    BY <2>1, <2>2 DEF LabelData
  <2>5. \A k \in Labels : k # l => labels'[k] = labels[k]
    BY <2>1, <2>2
  <2> QED
    BY <2>3, <2>4, <2>5
<1>4. ASSUME NEW i \in DOMAIN open, open[i].label = l
      PROVE  LET o == ended(open[i])
             IN  /\ o.label = l /\ o.code = open[i].code /\ o.made = open[i].made
                 /\ o.from = Unknown /\ o.to = d
  <2>1. open[i] \in OpenBranch(d)
    BY <1>2
  <2> HIDE DEF d
  <2> QED
    BY <1>4, <2>1 DEF OpenBranch
<1> HIDE DEF ended
<1>5. ASSUME NEW i \in DOMAIN open PROVE BranchInv(open'[i], labels')
  <2>1. BranchInv(open[i], labels) /\ open[i].label \in Labels
    BY <1>2 DEF BranchesInv, OpenBranch
  <2>2. CASE open[i].label = l
    <3>1. open'[i] = ended(open[i])
      BY <1>1, <2>2
    <3> QED
      BY <1>3, <1>4, <2>1, <2>2, <3>1 DEF BranchInv
  <2>3. CASE open[i].label # l
    <3>1. open'[i] = open[i]
      BY <1>1, <2>3
    <3> QED
      BY <1>3, <2>1, <2>3, <3>1 DEF BranchInv
  <2> QED
    BY <2>2, <2>3
<1>6. ASSUME NEW i \in DOMAIN gotos
      PROVE  PathInv(gotos[i], open'[gotos[i].ob], stack, nextId)
  <2> DEFINE g == gotos[i]
             o == open[g.ob]
             q == open'[g.ob]
  <2>1. /\ Len(g.scope) \in Nat /\ g.ob \in DOMAIN open
        /\ PathInv(g, o, stack, nextId) /\ BranchInv(o, labels)
        /\ o.from # Unknown => o.from \in 1 .. d
    BY JumpTypes DEF PathsInv, BranchesInv
  <2>2. CASE o.label # l
    BY <1>1, <2>1, <2>2
  <2>3. CASE o.label = l
    <3>1. /\ o.from # Unknown /\ o.from \in 1 .. d
      BY <1>1, <2>1, <2>3 DEF BranchInv
    <3>2. q = ended(o)
      BY <1>1, <2>1, <2>3
    <3>3. g.label = l
      BY <2>1, <2>3 DEF PathInv
    <3>4. d <= Len(g.scope) /\ g.scope[d].id = stack[d].id
      BY <1>1, <3>3 DEF CanDefine, Top
    <3>5. q.label = o.label /\ q.code = o.code /\ q.from = Unknown /\ q.to = d
      BY <1>4, <2>1, <2>3, <3>2
    <3> HIDE DEF g, o, q
    <3>6. PathInv(g, q, stack, nextId)
      BY <1>2, <2>1, <3>1, <3>4, <3>5, PathDefined
    <3> QED
      BY <3>6 DEF g, q
  <2> QED
    BY <2>2, <2>3
<1> QED
  BY <1>1, <1>5, <1>6 DEF BranchesInv, PathsInv

LEMMA JumpsEndPop ==
  ASSUME TypeInv, AlignInv, StackInv(stack, nextId), BranchesInv, PathsInv, EndPop
  PROVE  BranchesInv' /\ PathsInv'
<1> DEFINE d == Len(stack)
           e == d - 1
           frag == Fixups(stack, d, e)
           fixed(o) == [o EXCEPT !.code = Append(@, frag), !.from = e]
<1>1. /\ gotos' = gotos /\ nextId' = nextId /\ stack # <<>> /\ stack[d].unprotected
      /\ open' = FixedUp(d, frag)
      /\ labels' = [l \in Labels |-> Cleared(labels[l])]
  BY DEF EndPop, Top
<1>2. /\ stack \in Seq(Block) /\ nextId \in Nat
      /\ \A i \in DOMAIN open :
           open[i] \in OpenBranch(d) /\ open[i].code \in Seq(Fragment)
           /\ Len(open[i].code) \in Nat /\ open[i].from \in Unknown .. d
  BY JumpTypes
<1>3. /\ d \in Nat \ {0} /\ Len(stack') = e
      /\ \A j \in 1 .. e : Undisturbed(stack[j], stack'[j])
  BY EndPopBlocks
<1>4. KeptUpTo(stack, stack', e)
  BY <1>3, UndisturbedKept DEF KeptUpTo
<1>5. Leaves(frag, stack[d]) /\ (d # 1 => GivesBack(frag, stack[d]))
  BY <1>1, <1>2, TopFixup
<1>6. frag \in Fragment
  <2>1. d \in 0 .. d /\ e \in 0 .. d
    BY <1>3
  <2> QED
    BY <1>1, <1>2, <2>1, FixupsType
<1> HIDE DEF frag
<1>7. DOMAIN open' = DOMAIN open /\ \A i \in DOMAIN open :
        open'[i] = IF open[i].from = d THEN fixed(open[i]) ELSE open[i]
  BY <1>1 DEF FixedUp
<1>8. \A l \in Labels : labels'[l].depth = labels[l].depth
  <2>1. \A l \in Labels : labels[l] \in LabelData(d)
    BY DEF TypeInv, TypeOK
  <2> HIDE DEF d
  <2> QED
    BY <1>1, <2>1 DEF Cleared, LabelData
<1>9. ASSUME NEW i \in DOMAIN open, open[i].from = d
      PROVE  LET o == open[i]
                 q == open'[i]
             IN  /\ q.label = o.label /\ q.made = o.made /\ q.from = e /\ q.to = o.to
                 /\ Len(q.code) = Len(o.code) + 1 /\ q.code[Len(o.code) + 1] = frag
                 /\ \A k \in 1 .. Len(o.code) : q.code[k] = o.code[k]
  <2> DEFINE c == Append(open[i].code, frag)
  <2>1. /\ Len(c) = Len(open[i].code) + 1 /\ c[Len(open[i].code) + 1] = frag
        /\ \A k \in 1 .. Len(open[i].code) : c[k] = open[i].code[k]
    BY <1>2, <1>6, AppendProperties
  <2>2. open[i] \in OpenBranch(d) /\ open'[i] = [open[i] EXCEPT !.code = c, !.from = e]
    BY <1>2, <1>7, <1>9
  <2> HIDE DEF c, d, e
  <2>3. /\ open'[i].label = open[i].label /\ open'[i].made = open[i].made
        /\ open'[i].from = e /\ open'[i].to = open[i].to /\ open'[i].code = c
    BY <2>2 DEF OpenBranch
  <2> QED
    BY <2>1, <2>3
<1>10. ASSUME NEW i \in DOMAIN open PROVE BranchInv(open'[i], labels')
  <2>1. BranchInv(open[i], labels) /\ open[i].label \in Labels
    BY <1>2 DEF BranchesInv, OpenBranch
  <2>2. CASE open[i].from # d
    BY <1>7, <1>8, <2>1, <2>2 DEF BranchInv
  <2>3. CASE open[i].from = d
    <3> DEFINE o == open[i]
               q == open'[i]
    <3>1. d # Unknown /\ e # Unknown /\ Len(o.code) \in Nat
      BY <1>2, <1>3 DEF Unknown
    <3>2. DOMAIN frag.segs = 1 .. 1
      BY <1>5 DEF Leaves
    <3>3. /\ q.label = o.label /\ q.made = o.made /\ q.from = e /\ q.to = o.to
          /\ Len(q.code) = Len(o.code) + 1 /\ q.code[Len(o.code) + 1] = frag
          /\ \A k \in 1 .. Len(o.code) : q.code[k] = o.code[k]
      BY <1>9, <2>3
    <3>4. BranchInv(o, labels) /\ o.from = d
      BY <2>1, <2>3
    <3> HIDE DEF o, q, d, e
    <3>5. q.made \in 0 .. Len(q.code) /\ q.to = Unknown
      BY <3>1, <3>3, <3>4 DEF BranchInv
    <3>6. \A k \in 1 .. Len(q.code) : DOMAIN q.code[k].segs = 1 .. 1
      <4>1. \A k \in 1 .. Len(q.code) : k = Len(o.code) + 1 \/ k \in 1 .. Len(o.code)
        BY <3>1, <3>3
      <4> QED
        BY <3>2, <3>3, <3>4, <4>1 DEF BranchInv
    <3>7. BranchInv(q, labels')
      BY <3>1, <3>3, <3>5, <3>6 DEF BranchInv
    <3> QED
      BY <3>7 DEF q
  <2> QED
    BY <2>2, <2>3
<1>11. ASSUME NEW i \in DOMAIN gotos
       PROVE  PathInv(gotos[i], open'[gotos[i].ob], stack', nextId)
  <2> DEFINE g == gotos[i]
             o == open[g.ob]
             q == open'[g.ob]
  <2>1. /\ Len(g.scope) \in Nat /\ g.ob \in DOMAIN open
        /\ PathInv(g, o, stack, nextId) /\ o.from \in Unknown .. d
        /\ Len(o.code) \in Nat
    BY JumpTypes DEF PathsInv
  <2>2. CASE o.from # d
    <3>1. q = o
      BY <1>7, <2>1, <2>2
    <3>2. o.from \in Unknown .. e
      BY <1>3, <2>1, <2>2 DEF Unknown
    <3>3. o.from \in Int /\ KeptUpTo(stack, stack', o.from)
      <4> HIDE DEF o, e, d
      <4>1. e \in Nat
        BY <1>3 DEF e
      <4> QED
        BY <1>4, <3>2, <4>1 DEF KeptUpTo, Unknown
    <3>4. \A k \in 1 .. Len(stack') : k \in 1 .. Len(stack) /\ stack'[k].id = stack[k].id
      BY <1>3, <1>4 DEF KeptUpTo, Kept
    <3> HIDE DEF g, o, q
    <3>5. PathInv(g, o, stack', nextId)
      BY <1>2, <2>1, <3>3, <3>4, PathKept
    <3> QED
      BY <3>1, <3>5 DEF g, o, q
  <2>3. CASE o.from = d
    <3>1. d > 1
      <4> SUFFICES ASSUME d = 1 PROVE FALSE
        BY <1>3
      <4>1. \A k \in 1 .. Len(stack) : stack[k].unprotected
        BY <1>1
      <4>2. o.from = Unknown
        BY <2>1, <4>1 DEF AlignInv, NoOpenAtEnd
      <4> QED
        BY <1>3, <2>3, <4>2 DEF Unknown
    <3>2. /\ q.label = o.label /\ q.from = e
          /\ Len(q.code) = Len(o.code) + 1 /\ q.code[Len(o.code) + 1] = frag
          /\ \A k \in 1 .. Len(o.code) : q.code[k] = o.code[k]
      BY <1>9, <2>1, <2>3
    <3>3. Leaves(frag, stack[d]) /\ GivesBack(frag, stack[d])
      BY <1>5, <3>1
    <3>4. d \in Nat
      BY <1>3
    <3> HIDE DEF g, o, q
    <3>5. PathInv(g, q, stack', nextId)
      BY <1>2, <1>3, <1>4, <2>1, <2>3, <3>1, <3>2, <3>3, <3>4, PathFixed, ZenonT(40)
    <3> QED
      BY <3>5 DEF g, q
  <2> QED
    BY <2>2, <2>3
<1> QED
  BY <1>1, <1>7, <1>10, <1>11 DEF BranchesInv, PathsInv

\* A goto that starts where its branch does nothing yet.
LEMMA PathStarts ==
  ASSUME NEW g, NEW o, NEW s, NEW n, StackInv(s, n), Len(s) \in Nat \ {0},
         g.scope = s, g.label = o.label, o.from = Len(s),
         Len(o.code) \in Nat, g.off \in 0 .. Len(o.code),
         \A i \in (g.off + 1) .. Len(o.code) : ~NonEmpty(o.code[i])
  PROVE  PathInv(g, o, s, n)
<1>1. o.from # Unknown /\ Reached(o) = Len(s)
  BY DEF Unknown, Reached
<1>2. Idle(g, o) = Len(o.code) - g.off /\ Idle(g, o) \in Nat
  BY <1>1 DEF Idle
<1>3. Len(g.scope) - Reached(o) = 0 /\ Reached(o) \in 1 .. Len(g.scope)
  BY <1>1
<1>4. \A i \in 1 .. Idle(g, o) : ~NonEmpty(o.code[g.off + i])
  <2>1. \A i \in 1 .. Idle(g, o) : g.off + i \in (g.off + 1) .. Len(o.code)
    BY <1>2
  <2> QED
    BY <2>1
<1>5. \A j \in 1 .. Len(g.scope) : g.scope[j].id \in 1 .. (n - 1)
  BY DEF StackInv
<1>6. /\ \A j \in 1 .. o.from : Kept(g.scope[j], s[j])
      /\ (o.from + 1) .. Len(g.scope) = {}
  BY DEF Kept
<1>7. 1 .. (Len(g.scope) - Reached(o)) = {}
  BY <1>3
<1> QED
  BY <1>1, <1>2, <1>3, <1>4, <1>5, <1>6, <1>7 DEF PathInv

LEMMA JumpsGotoOpen ==
  ASSUME TypeInv, AlignInv, StackInv(stack, nextId), BranchesInv, PathsInv,
         NEW l \in Labels, NEW cond \in BOOLEAN, GotoOpen(l, cond)
  PROVE  BranchesInv' /\ PathsInv'
<1> DEFINE n == Len(stack)
           j == OpenEntry(l)
           made == IF Written(open[j]) THEN Len(open[j].code) ELSE open[j].made
           fresh == [label |-> l, code |-> <<>>, made |-> 0, from |-> n, to |-> Unknown]
           g(k, off) == [label |-> l, scope |-> stack, ob |-> k, off |-> off]
           Same(q, o) == /\ q.label = o.label /\ q.code = o.code
                         /\ q.from = o.from /\ q.to = o.to
<1>1. /\ n \in Nat \ {0} /\ n # Unknown
      /\ open \in Seq(OpenBranch(n)) /\ gotos \in Seq(Goto)
      /\ Len(open) \in Nat /\ DOMAIN open = 1 .. Len(open)
      /\ stack' = stack /\ nextId' = nextId /\ labels' = labels
  BY StackDomain, EmptySeq DEF TypeInv, TypeOK, GotoOpen, Statement, Unknown
<1>2. /\ \A i \in DOMAIN open : /\ open[i] \in OpenBranch(n) /\ Len(open[i].code) \in Nat
                                /\ BranchInv(open[i], labels)
      /\ \A i \in DOMAIN gotos : /\ gotos[i].ob \in DOMAIN open
                                 /\ PathInv(gotos[i], open[gotos[i].ob], stack, nextId)
  BY JumpTypes DEF BranchesInv, PathsInv
<1>3. SUFFICES ASSUME NEW k, NEW off, gotos' = Append(gotos, g(k, off)),
                      k \in DOMAIN open', PathInv(g(k, off), open'[k], stack, nextId),
                      \A i \in DOMAIN open' : BranchInv(open'[i], labels),
                      DOMAIN open \subseteq DOMAIN open',
                      \A i \in DOMAIN open : Same(open'[i], open[i])
               PROVE  BranchesInv' /\ PathsInv'
  <2>1. CASE j # 0 /\ open' = [open EXCEPT ![j].made = made]
                   /\ gotos' = Append(gotos, g(j, made))
    <3> DEFINE S == {i \in DOMAIN open : open[i].label = l /\ open[i].from = n}
               o == open[j]
               q == [o EXCEPT !.made = made]
               x == g(j, made)
    <3>1. j = Innermost(S)
      BY DEF OpenEntry
    <3>2. S \subseteq 1 .. Len(open)
      BY <1>1, SMTT(40)
    <3>3. S # {}
      BY <2>1, <3>1 DEF Innermost
    <3> HIDE DEF S
    <3>4. j \in S
      BY <1>1, <3>1, <3>2, <3>3, InnermostIn
    <3>5. j \in DOMAIN open /\ o.from = n /\ o.label = l
      BY <3>4 DEF S
    <3>6. /\ o \in OpenBranch(n) /\ Len(o.code) \in Nat /\ BranchInv(o, labels)
      BY <1>2, <3>5
    <3> HIDE DEF j, n
    <3>7. made \in 0 .. Len(o.code)
      BY <3>6 DEF BranchInv
    <3>8. \A i \in (made + 1) .. Len(o.code) : ~NonEmpty(o.code[i])
      <4>1. CASE Written(o)
        <5>1. made = Len(o.code)
          BY <4>1
        <5> HIDE DEF made, o
        <5> QED
          BY <3>6, <5>1
      <4>2. CASE ~Written(o)
        BY <4>2 DEF Written
      <4> QED
        BY <4>1, <4>2
    <3> HIDE DEF made
    <3>9. Same(q, o) /\ q.made = made
      BY <3>6 DEF OpenBranch
    <3>10. /\ DOMAIN open' = DOMAIN open /\ open'[j] = q
           /\ \A i \in DOMAIN open : i # j => open'[i] = open[i]
      BY <2>1, <3>5
    <3>11. x.scope = stack /\ x.label = l /\ x.off = made
      OBVIOUS
    <3> HIDE DEF x, q, o
    <3>12. BranchInv(q, labels)
      BY <3>6, <3>7, <3>9 DEF BranchInv
    <3>13. PathInv(x, q, stack, nextId)
      <4>1. /\ x.scope = stack /\ x.label = q.label /\ q.from = Len(stack)
            /\ Len(q.code) \in Nat /\ x.off \in 0 .. Len(q.code)
            /\ \A i \in (x.off + 1) .. Len(q.code) : ~NonEmpty(q.code[i])
        BY <3>5, <3>6, <3>7, <3>8, <3>9, <3>11 DEF n
      <4>2. Len(stack) \in Nat \ {0}
        BY <1>1 DEF n
      <4> QED
        BY <4>1, <4>2, PathStarts
    <3>14. \A i \in DOMAIN open' : BranchInv(open'[i], labels)
      BY <1>2, <3>10, <3>12
    <3>15. \A i \in DOMAIN open : Same(open'[i], open[i])
      BY <3>9, <3>10 DEF o
    <3>16. PathInv(g(j, made), open'[j], stack, nextId)
      BY <3>10, <3>13 DEF x
    <3>17. gotos' = Append(gotos, g(j, made))
      BY <2>1
    <3> HIDE DEF g, Same
    <3> QED
      BY <1>3, <3>5, <3>10, <3>14, <3>15, <3>16, <3>17
  <2>2. CASE open' = Append(open, fresh) /\ gotos' = Append(gotos, g(Len(open) + 1, 0))
    <3> DEFINE x == g(Len(open) + 1, 0)
    <3>1. /\ x.scope = stack /\ x.label = fresh.label /\ fresh.from = Len(stack) /\ x.off = 0
          /\ Len(fresh.code) = 0 /\ fresh.made = 0 /\ fresh.to = Unknown
      OBVIOUS
    <3> HIDE DEF fresh, x
    <3>2. /\ DOMAIN open' = 1 .. (Len(open) + 1)
          /\ \A i \in 1 .. Len(open) : open'[i] = open[i]
          /\ open'[Len(open) + 1] = fresh
      BY <1>1, <2>2, AppendProperties
    <3>3. /\ Len(open) + 1 \in DOMAIN open' /\ DOMAIN open \subseteq DOMAIN open'
          /\ \A i \in DOMAIN open' : i = Len(open) + 1 \/ i \in DOMAIN open
      BY <1>1, <3>2
    <3>4. BranchInv(fresh, labels)
      BY <1>1, <3>1 DEF BranchInv
    <3>5. PathInv(x, fresh, stack, nextId)
      <4>1. Len(stack) \in Nat \ {0}
        BY <1>1
      <4>2. /\ x.scope = stack /\ x.label = fresh.label /\ fresh.from = Len(stack)
            /\ Len(fresh.code) \in Nat /\ x.off \in 0 .. Len(fresh.code)
        BY <3>1
      <4>3. \A i \in (x.off + 1) .. Len(fresh.code) : ~NonEmpty(fresh.code[i])
        BY <3>1
      <4> HIDE DEF n, g, j
      <4> QED
        BY <4>1, <4>2, <4>3, PathStarts
    <3>6. \A i \in DOMAIN open' : BranchInv(open'[i], labels)
      BY <1>1, <1>2, <3>2, <3>3, <3>4
    <3>7. \A i \in DOMAIN open : Same(open'[i], open[i])
      BY <1>1, <3>2
    <3>8. PathInv(g(Len(open) + 1, 0), open'[Len(open) + 1], stack, nextId)
      BY <3>2, <3>5 DEF x
    <3>9. gotos' = Append(gotos, g(Len(open) + 1, 0))
      BY <2>2
    <3> HIDE DEF g, Same
    <3> QED
      BY <1>3, <3>3, <3>6, <3>7, <3>8, <3>9
  <2> QED
    BY <2>1, <2>2 DEF GotoOpen
<1> DEFINE new == g(k, off)
<1>4. new.ob = k
  OBVIOUS
<1>5. PathInv(new, open'[k], stack, nextId)
  BY <1>3
<1> HIDE DEF new
<1>6. \A i \in DOMAIN gotos' : gotos'[i] = new \/ (i \in DOMAIN gotos /\ gotos'[i] = gotos[i])
  BY <1>1, <1>3 DEF new
<1>7. \A i \in DOMAIN gotos : PathInv(gotos[i], open'[gotos[i].ob], stack, nextId)
  <2> SUFFICES ASSUME NEW i \in DOMAIN gotos
               PROVE  PathInv(gotos[i], open'[gotos[i].ob], stack, nextId)
    OBVIOUS
  <2> DEFINE o == open[gotos[i].ob]
             q == open'[gotos[i].ob]
  <2>1. PathInv(gotos[i], o, stack, nextId) /\ Same(q, o)
    BY <1>2, <1>3
  <2> HIDE DEF o, q
  <2>2. PathInv(gotos[i], q, stack, nextId)
    BY <2>1, PathOfSame
  <2> QED
    BY <2>2 DEF q
<1>8. \A i \in DOMAIN gotos' : PathInv(gotos'[i], open'[gotos'[i].ob], stack, nextId)
  BY <1>4, <1>5, <1>6, <1>7
<1> QED
  BY <1>1, <1>3, <1>8 DEF BranchesInv, PathsInv

LEMMA JumpsNext ==
  ASSUME TypeInv, AlignInv, StackInv(stack, nextId), BranchesInv, PathsInv, [Next]_vars
  PROVE  BranchesInv' /\ PathsInv'
<1>1. CASE EndPop
  BY <1>1, JumpsEndPop
<1>2. CASE ResetBlockTables
  <2>1. open' = <<>> /\ gotos' = <<>>
    BY <1>2 DEF ResetBlockTables
  <2> QED
    BY <2>1 DEF BranchesInv, PathsInv
<1>3. CASE UNCHANGED vars
  BY <1>3 DEF vars, BranchesInv, PathsInv
<1>4. CASE Next /\ ~EndPop /\ ~ResetBlockTables
  <2>1. ASSUME NEW l \in Labels, NEW cond \in BOOLEAN, GotoOpen(l, cond)
        PROVE  BranchesInv' /\ PathsInv'
    BY <2>1, JumpsGotoOpen
  <2>2. ASSUME NEW l \in Labels, DefineLabel(l)
        PROVE  BranchesInv' /\ PathsInv'
    BY <2>2, JumpsDefine
  <2>3. ASSUME NEW l \in Labels, NEW cond \in BOOLEAN, GotoKnown(l, cond)
        PROVE  /\ open' = open /\ gotos' = gotos
               /\ \A k \in Labels : labels'[k].depth = labels[k].depth
    <3> DEFINE frag == IF Cached(labels[l]) THEN labels[l].fixup
                       ELSE Fixups(stack, Len(stack), labels[l].depth)
    <3>1. /\ open' = open /\ gotos' = gotos
          /\ labels' = [labels EXCEPT ![l].from = Len(stack), ![l].fixup = frag]
      BY <2>3 DEF GotoKnown
    <3>2. labels \in [Labels -> LabelData(Len(stack))] /\ labels[l] \in LabelData(Len(stack))
      BY DEF TypeInv, TypeOK
    <3> HIDE DEF frag
    <3>3. labels'[l].depth = labels[l].depth
      BY <3>1, <3>2 DEF LabelData
    <3>4. \A k \in Labels : k # l => labels'[k] = labels[k]
      BY <3>1, <3>2
    <3> QED
      BY <3>1, <3>3, <3>4
  <2>4. CASE /\ open' = open /\ gotos' = gotos
             /\ \A k \in Labels : labels'[k].depth = labels[k].depth
    BY <1>4, <2>4, JumpsStay
  <2>5. \/ open' = open /\ gotos' = gotos /\ labels' = labels
        \/ \E l \in Labels, cond \in BOOLEAN : GotoKnown(l, cond)
        \/ \E l \in Labels, cond \in BOOLEAN : GotoOpen(l, cond)
        \/ \E l \in Labels : DefineLabel(l)
    BY <1>4 DEF Next, PushBody, PushBlock, PushLoop, SaveStackPointer, AddLifetimeEntry,
       CallMayThrow, Reraise, Exit, Return, BeginPop, PushHandler
  <2> QED
    BY <2>1, <2>2, <2>3, <2>4, <2>5
<1> QED
  BY <1>1, <1>2, <1>3, <1>4

-----------------------------------------------------------------------------
(* What a forward goto runs                                                *)

\* What a path does that leaves the blocks of scope above "to" one by one, once
\* it has passed k fragments that do nothing.
Unwinds(path, scope, to, k) ==
  /\ path \in Seq(Fragment) /\ k \in Nat /\ Len(scope) \in Nat /\ to \in 0 .. Len(scope)
  /\ DOMAIN path = 1 .. (k + (Len(scope) - to))
  /\ \A i \in DOMAIN path : DOMAIN path[i].segs = 1 .. 1
  /\ \A i \in 1 .. k : ~NonEmpty(path[i])
  /\ \A i \in 1 .. (Len(scope) - to) :
       /\ Leaves(path[k + i], scope[Len(scope) + 1 - i])
       /\ GivesBack(path[k + i], scope[Len(scope) + 1 - i])

LEMMA GotoUnwinds ==
  ASSUME TypeInv, AlignInv, BranchesInv, PathsInv, NEW i \in Resolved
  PROVE  /\ \E k : Unwinds(Path(gotos[i]), gotos[i].scope, Target(gotos[i]), k)
         /\ gotos[i].scope \in Seq(Block)
         /\ \A j \in 1 .. Len(gotos[i].scope) : gotos[i].scope[j].id # 0
<1> DEFINE g == gotos[i]
           o == open[g.ob]
           m == Len(g.scope)
           to == Target(g)
           k == Idle(g, o)
           path == Path(g)
           len == Len(o.code)
<1>1. i \in DOMAIN gotos /\ to # Unknown
  BY DEF Resolved
<1>2. /\ g.scope \in Seq(Block) /\ m \in Nat /\ o.code \in Seq(Fragment) /\ len \in Nat
      /\ PathInv(g, o, stack, nextId) /\ BranchInv(o, labels)
  BY <1>1, JumpTypes DEF PathsInv, BranchesInv
<1>3. Reached(o) = to
  BY <1>1, <1>2 DEF BranchInv, Reached, Target
<1>4. path = SubSeq(o.code, g.off + 1, len)
  BY DEF Path
<1> HIDE DEF path, to, k, m, len, o, g
<1>5. /\ to \in 1 .. m /\ k \in Nat /\ g.off \in 0 .. len /\ k = len - g.off - (m - to)
      /\ \A j \in 1 .. k : ~NonEmpty(o.code[g.off + j])
      /\ \A j \in 1 .. (m - to) : /\ Leaves(o.code[g.off + k + j], g.scope[m + 1 - j])
                                  /\ GivesBack(o.code[g.off + k + j], g.scope[m + 1 - j])
      /\ \A j \in 1 .. m : g.scope[j].id \in 1 .. (nextId - 1)
  BY <1>2, <1>3 DEF PathInv, Idle, k, m, len
<1>6. len - g.off = k + (m - to) /\ len - g.off \in Nat
  BY <1>2, <1>5
<1>7. /\ path \in Seq(Fragment) /\ Len(path) = len - g.off
      /\ DOMAIN path = 1 .. (len - g.off)
      /\ \A j \in 1 .. (len - g.off) : g.off + j \in 1 .. len /\ path[j] = o.code[g.off + j]
  <2> DEFINE off == g.off
  <2>1. off \in Nat /\ off <= len /\ len \in Nat
    BY <1>2, <1>5
  <2> HIDE DEF off
  <2>2. path = SubSeq(o.code, off + 1, len)
    BY <1>4 DEF off
  <2>3. \A j \in (off + 1) .. len : o.code[j] \in Fragment
    <3>1. \A j \in (off + 1) .. len : j \in 1 .. len
      BY <2>1
    <3> QED
      BY <1>2, <3>1, ElementOfSeq DEF len
  <2>4. /\ path \in Seq(Fragment)
        /\ Len(path) = IF off + 1 <= len THEN len - (off + 1) + 1 ELSE 0
        /\ \A j \in 1 .. (len - (off + 1) + 1) : path[j] = o.code[off + 1 + j - 1]
    BY <1>2, <2>1, <2>2, SubSeqProperties DEF len
  <2>5. Len(path) = len - off
    BY <2>1, <2>4
  <2>6. \A j \in 1 .. (len - off) : off + j \in 1 .. len /\ off + 1 + j - 1 = off + j
                                     /\ j \in 1 .. (len - (off + 1) + 1)
    BY <2>1
  <2>7. DOMAIN path = 1 .. (len - off)
    BY <2>4, <2>5, LenProperties
  <2> QED
    BY <2>4, <2>5, <2>6, <2>7 DEF off
<1>8. \A j \in DOMAIN path : DOMAIN path[j].segs = 1 .. 1
  BY <1>2, <1>7 DEF BranchInv, len
<1>9. \A j \in 1 .. k : ~NonEmpty(path[j])
  <2>1. \A j \in 1 .. k : j \in 1 .. (len - g.off)
    BY <1>2, <1>5, <1>6
  <2> QED
    BY <1>5, <1>7, <2>1
<1>10. ASSUME NEW j \in 1 .. (m - to)
       PROVE  /\ Leaves(path[k + j], g.scope[m + 1 - j])
              /\ GivesBack(path[k + j], g.scope[m + 1 - j])
  <2>1. k + j \in 1 .. (len - g.off)
    <3>1. k + j \in 1 .. (k + (m - to))
      <4>1. k \in Nat /\ m \in Nat /\ to \in Nat
        BY <1>2, <1>5
      <4> QED
        BY <4>1
    <3> QED
      BY <1>6, <3>1
  <2>2. path[k + j] = o.code[g.off + k + j]
    <3>1. g.off + (k + j) = g.off + k + j
      BY <1>5
    <3> QED
      BY <1>7, <2>1, <3>1
  <2> QED
    BY <1>5, <2>2
<1>11. Unwinds(path, g.scope, to, k)
  <2>1. to \in 0 .. m /\ DOMAIN path = 1 .. (k + (m - to))
    BY <1>2, <1>5, <1>6, <1>7
  <2> QED
    BY <1>2, <1>5, <1>7, <1>8, <1>9, <1>10, <2>1 DEF Unwinds, m
<1>12. \A j \in 1 .. m : g.scope[j].id # 0
  BY <1>5
<1> QED
  BY <1>2, <1>11, <1>12 DEF path, to, g, m

LEMMA LenOfDomain ==
  ASSUME NEW S, NEW s \in Seq(S), NEW n \in Nat, DOMAIN s = 1 .. n
  PROVE  Len(s) = n
<1> DEFINE m == Len(s)
<1>1. m \in Nat /\ 1 .. m = 1 .. n
  BY LenProperties
<1> HIDE DEF m
<1>2. m <= n
  <2>1. m # 0 => m \in 1 .. n
    BY <1>1
  <2> QED
    BY <1>1, <2>1
<1>3. n <= m
  <2>1. n # 0 => n \in 1 .. m
    BY <1>1
  <2> QED
    BY <1>1, <2>1
<1> QED
  BY <1>1, <1>2, <1>3 DEF m

LEMMA DutyType ==
  ASSUME NEW b \in Block
  PROVE  Duty(b) \in Seq(Nat \X Ops)
<1> DEFINE S == Nat \X Ops
           f == <<b.id, "finally">>
           a == <<b.id, "at_end">>
<1>1. f \in S /\ a \in S
  BY DEF Block, Ops
<1> HIDE DEF S, f, a
<1>2. <<>> \in Seq(S) /\ <<f>> \in Seq(S) /\ <<a>> \in Seq(S)
  BY <1>1
<1>3. If(b.finally, f) \in Seq(S) /\ If(b.atEnd, a) \in Seq(S)
  BY <1>2 DEF If
<1>4. If(b.finally, f) \o If(b.atEnd, a) \in Seq(S)
  BY <1>3, ConcatProperties
<1> QED
  BY <1>4 DEF Duty, S, f, a

\* The fragments have one segment each.
LEMMA SegsOfSingles ==
  ASSUME NEW path \in Seq(Fragment), \A i \in DOMAIN path : DOMAIN path[i].segs = 1 .. 1
  PROVE  Segs(path) = [i \in 1 .. Len(path) |-> path[i].segs[1]]
<1> DEFINE n == Len(path)
           s == [i \in DOMAIN path |-> path[i].segs]
<1>1. n \in Nat /\ DOMAIN path = 1 .. n /\ \A i \in 1 .. n : path[i] \in Fragment
  BY LenProperties, ElementOfSeq
<1>2. \A i \in 1 .. n : path[i].segs \in Seq(Segment) /\ Len(path[i].segs) = 1
  <2>1. \A i \in 1 .. n : path[i].segs \in Seq(Segment)
    BY <1>1 DEF Fragment
  <2>2. \A i \in 1 .. n : DOMAIN path[i].segs = 1 .. 1
    BY <1>1
  <2> QED
    BY <2>1, <2>2, LenOfDomain
<1> HIDE DEF n
<1>3. s = [i \in 1 .. n |-> path[i].segs]
  BY <1>1
<1> HIDE DEF s
<1>4. s \in Seq(Seq(Segment)) /\ Len(s) = n
  <2>1. \A i \in 1 .. n : path[i].segs \in Seq(Segment)
    BY <1>2
  <2> QED
    BY <1>1, <1>3, <2>1, IsASeq, LenProperties
<1>5. \A i \in 1 .. Len(s) : Len(s[i]) = 1
  BY <1>2, <1>3, <1>4
<1>6. FlattenSeq(s) = [i \in 1 .. n |-> s[i][1]]
  BY <1>4, <1>5, FlattenSingles
<1>7. [i \in 1 .. n |-> s[i][1]] = [i \in 1 .. n |-> path[i].segs[1]]
  BY <1>3
<1> QED
  BY <1>6, <1>7 DEF Segs, s, n

LEMMA UnwindsCalls ==
  ASSUME NEW path, NEW scope \in Seq(Block), NEW to, NEW k, Unwinds(path, scope, to, k)
  PROVE  Calls(Segs(path)) = Required(scope, to)
<1> DEFINE m == Len(scope)
           p == m - to
           n == k + p
           S == Nat \X Ops
           s == [i \in 1 .. n |-> CallsOf(path[i].segs[1])]
           t == [i \in 1 .. p |-> Duty(scope[m + 1 - i])]
<1>1. /\ path \in Seq(Fragment) /\ k \in Nat /\ m \in Nat /\ to \in 0 .. m /\ p \in Nat
      /\ n \in Nat /\ DOMAIN path = 1 .. n /\ Len(path) = n
      /\ \A i \in 1 .. n : DOMAIN path[i].segs = 1 .. 1
  <2>1. /\ path \in Seq(Fragment) /\ k \in Nat /\ m \in Nat /\ to \in 0 .. m
        /\ DOMAIN path = 1 .. n /\ \A i \in 1 .. n : DOMAIN path[i].segs = 1 .. 1
    BY DEF Unwinds
  <2>2. p \in Nat /\ n \in Nat
    BY <2>1
  <2> QED
    BY <2>1, <2>2, LenOfDomain
<1>2. Segs(path) = [i \in 1 .. n |-> path[i].segs[1]]
  BY <1>1, SegsOfSingles
<1>3. Calls(Segs(path)) = FlattenSeq(s)
  <2> DEFINE u == [i \in 1 .. n |-> path[i].segs[1]]
  <2>1. [i \in DOMAIN u |-> CallsOf(u[i])] = s
    OBVIOUS
  <2> QED
    BY <1>2, <2>1 DEF Calls
<1>4. Required(scope, to) = FlattenSeq(t)
  BY DEF Required
<1>5. ASSUME NEW i \in 1 .. p
      PROVE  Duty(scope[m + 1 - i]) \in Seq(S) /\ CallsOf(path[k + i].segs[1]) = Duty(scope[m + 1 - i])
  <2>1. m + 1 - i \in 1 .. m
    BY <1>1
  <2>2. scope[m + 1 - i] \in Block
    BY <2>1, StackDomain
  <2>3. Leaves(path[k + i], scope[m + 1 - i])
    BY DEF Unwinds
  <2> HIDE DEF S, m, p
  <2> QED
    BY <2>2, <2>3, DutyType DEF Leaves, S
<1>6. ASSUME NEW i \in 1 .. k
      PROVE  CallsOf(path[i].segs[1]) = <<>>
  <2>1. i \in 1 .. n /\ ~NonEmpty(path[i])
    BY <1>1 DEF Unwinds
  <2>2. DOMAIN path[i].segs = 1 .. 1
    BY <1>1, <2>1
  <2>3. path[i].segs[1].ops = <<>>
    BY <2>1, <2>2 DEF NonEmpty
  <2>4. DOMAIN path[i].segs[1].ops = 1 .. 0
    BY <2>3
  <2> QED
    BY <2>4, CallsOfFew
<1>7. \A i \in 1 .. n : i \in 1 .. k \/ \E j \in 1 .. p : i = k + j
  <2> SUFFICES ASSUME NEW i \in 1 .. n, i \notin 1 .. k
               PROVE  \E j \in 1 .. p : i = k + j
    OBVIOUS
  <2>1. i - k \in 1 .. p /\ i = k + (i - k)
    BY <1>1
  <2> QED
    BY <2>1
<1> HIDE DEF S, m, p
<1>8. \A i \in 1 .. n : CallsOf(path[i].segs[1]) \in Seq(S)
  <2>1. <<>> \in Seq(S)
    OBVIOUS
  <2> QED
    BY <1>5, <1>6, <1>7, <2>1, ZenonT(40)
<1>9. s \in Seq(Seq(S)) /\ Len(s) = n
  <2> HIDE DEF n
  <2> QED
    BY <1>1, <1>8, IsASeq, LenProperties
<1>10. t \in Seq(Seq(S)) /\ Len(t) = p
  BY <1>1, <1>5, IsASeq, LenProperties
<1>11. \A i \in 1 .. k : s[i] = <<>>
  <2>1. \A i \in 1 .. k : i \in 1 .. n
    BY <1>1
  <2> QED
    BY <1>6, <2>1
<1>12. \A i \in 1 .. p : s[k + i] = t[i]
  <2>1. \A i \in 1 .. p : k + i \in 1 .. n
    BY <1>1
  <2> QED
    BY <1>5, <2>1
<1> HIDE DEF s, t
<1>13. FlattenSeq(s) = FlattenSeq(t)
  <2>1. \A i \in 1 .. Len(t) : s[k + i] = t[i]
    BY <1>10, <1>12
  <2>2. Len(s) = k + Len(t)
    BY <1>9, <1>10
  <2> QED
    BY <1>1, <1>9, <1>10, <1>11, <2>1, <2>2, FlattenSkips
<1> QED
  BY <1>3, <1>4, <1>13

LEMMA UnwindsRestores ==
  ASSUME NEW path, NEW scope, NEW to, NEW k, Unwinds(path, scope, to, k),
         \A j \in 1 .. Len(scope) : scope[j].id # 0
  PROVE  Restores(path, scope, to)
<1>1. \A i \in 1 .. k : path[i].restore = 0
  BY DEF Unwinds, NonEmpty
<1>2. \A n \in 1 .. (Len(scope) - to) :
        /\ path[k + n].restore \in {0, scope[Len(scope) + 1 - n].id}
        /\ GivesBack(path[k + n], scope[Len(scope) + 1 - n])
  BY DEF Unwinds, Leaves
<1>3. /\ Len(scope) \in Nat /\ to \in 0 .. Len(scope) /\ k \in Nat
      /\ DOMAIN path = 1 .. (k + (Len(scope) - to))
  BY DEF Unwinds
<1> QED
  BY <1>1, <1>2, <1>3, PathRestores

LEMMA UnwindsEndsLifetimes ==
  ASSUME NEW path, NEW scope, NEW to, NEW k, Unwinds(path, scope, to, k),
         NEW j \in (to + 1) .. Len(scope), scope[j].life
  PROVE  EndsLifetime(Segs(path), scope[j])
<1> DEFINE m == Len(scope)
           n == m + 1 - j
           x == path[k + n].segs[1]
<1>1. /\ path \in Seq(Fragment) /\ k \in Nat /\ m \in Nat /\ to \in 0 .. m
      /\ DOMAIN path = 1 .. (k + (m - to)) /\ Len(path) = k + (m - to)
      /\ \A i \in DOMAIN path : DOMAIN path[i].segs = 1 .. 1
  <2>1. /\ path \in Seq(Fragment) /\ k \in Nat /\ m \in Nat /\ to \in 0 .. m
        /\ DOMAIN path = 1 .. (k + (m - to))
        /\ \A i \in DOMAIN path : DOMAIN path[i].segs = 1 .. 1
    BY DEF Unwinds
  <2>2. k + (m - to) \in Nat
    BY <2>1
  <2> QED
    BY <2>1, <2>2, LenOfDomain
<1>2. n \in 1 .. (m - to) /\ k + n \in 1 .. (k + (m - to)) /\ m + 1 - n = j
  BY <1>1
<1>3. Leaves(path[k + n], scope[m + 1 - n])
  BY <1>2 DEF Unwinds
<1>4. Segs(path) = [i \in 1 .. Len(path) |-> path[i].segs[1]]
  BY <1>1, SegsOfSingles
<1> HIDE DEF n
<1>5. k + n \in DOMAIN Segs(path) /\ Segs(path)[k + n] = x
  BY <1>1, <1>2, <1>4
<1>6. x.blk = scope[j].id /\ EndsLife(x)
  BY <1>2, <1>3 DEF Leaves
<1> QED
  BY <1>5, <1>6 DEF EndsLifetime, EndsLife

-----------------------------------------------------------------------------
(* Theorems                                                                *)

\* The inductive invariant of the three properties.
CleanupInv ==
  /\ TypeInv
  /\ AlignInv
  /\ StackInv(stack, nextId)
  /\ CachesLead
  /\ DoneRight
  /\ BranchesInv
  /\ PathsInv

LEMMA CleanupInit == Init => CleanupInv
<1> SUFFICES ASSUME Init PROVE CleanupInv
  OBVIOUS
<1>1. TypeInv /\ StackInv(stack, nextId)
  BY TypeInit, StackInvInit
<1>2. AlignInv
  BY DEF Init, AlignInv, GotosOpen, OpenBranchesAligned, NoOpenAtEnd
<1>3. CachesLead
  BY DEF Init, CachesLead, Leads, NoLabel
<1>4. DoneRight /\ BranchesInv /\ PathsInv
  BY DEF Init, DoneRight, BranchesInv, PathsInv
<1> QED
  BY <1>1, <1>2, <1>3, <1>4 DEF CleanupInv

LEMMA CleanupNext == CleanupInv /\ [Next]_vars => CleanupInv'
<1> SUFFICES ASSUME CleanupInv, [Next]_vars PROVE CleanupInv'
  OBVIOUS
<1>1. /\ TypeInv /\ AlignInv /\ StackInv(stack, nextId) /\ CachesLead
      /\ DoneRight /\ BranchesInv /\ PathsInv
  BY DEF CleanupInv
<1>2. TypeInv'
  BY <1>1, TypeNext
<1>3. AlignInv'
  BY <1>1, <1>2, AlignNext
<1>4. StackInv(stack, nextId)'
  BY <1>1, StackInvNext
<1>5. CachesLead'
  BY <1>1, CachesLeadNext
<1>6. DoneRight'
  BY <1>1, DoneNext
<1>7. BranchesInv' /\ PathsInv'
  BY <1>1, JumpsNext
<1> QED
  BY <1>2, <1>3, <1>4, <1>5, <1>6, <1>7 DEF CleanupInv

LEMMA CleanupAlways == Spec => []CleanupInv
BY CleanupInit, CleanupNext, PTL DEF Spec

LEMMA PathsCleanUp ==
  ASSUME CleanupInv, NEW i \in Resolved
  PROVE  LET path == Path(gotos[i])
             scope == gotos[i].scope
             to == Target(gotos[i])
         IN  /\ Calls(Segs(path)) = Required(scope, to)
             /\ Restores(path, scope, to)
             /\ \A j \in (to + 1) .. Len(scope) :
                  scope[j].life => EndsLifetime(Segs(path), scope[j])
<1> DEFINE path == Path(gotos[i])
           scope == gotos[i].scope
           to == Target(gotos[i])
<1>1. PICK k : Unwinds(path, scope, to, k)
  BY GotoUnwinds DEF CleanupInv
<1>2. scope \in Seq(Block) /\ \A j \in 1 .. Len(scope) : scope[j].id # 0
  BY GotoUnwinds DEF CleanupInv
<1> HIDE DEF path, scope, to
<1>3. Calls(Segs(path)) = Required(scope, to)
  BY <1>1, <1>2, UnwindsCalls
<1>4. Restores(path, scope, to)
  BY <1>1, <1>2, UnwindsRestores
<1>5. \A j \in (to + 1) .. Len(scope) :
        scope[j].life => EndsLifetime(Segs(path), scope[j])
  BY <1>1, UnwindsEndsLifetimes
<1> QED
  BY <1>3, <1>4, <1>5 DEF path, scope, to

\* Whatever is compiled, a block that is left by falling through, an exit, a goto
\* in either direction or a return runs its finally statements and at-end
\* procedure once, in the order of the blocks that are left.
THEOREM TransfersAlwaysCleanUp == Spec => []TransfersCleanUp
<1>1. CleanupInv => TransfersCleanUp
  BY PathsCleanUp DEF CleanupInv, DoneRight, RightTransfer, TransfersCleanUp
<1> QED
  BY <1>1, CleanupAlways, PTL

\* Whatever is compiled, the end of a block and a forward goto give back the stack
\* space allocated in the blocks they leave.
THEOREM ForwardAlwaysRestoresStack == Spec => []ForwardRestoresStack
<1>1. CleanupInv => ForwardRestoresStack
  BY PathsCleanUp DEF CleanupInv, DoneRight, RightTransfer, ForwardRestoresStack
<1> QED
  BY <1>1, CleanupAlways, PTL

\* Whatever is compiled, the end of a block, a return and a forward goto end the
\* lifetimes of the objects of the blocks they leave.
THEOREM LifetimesAlwaysEnd == Spec => []LifetimesEnd
<1>1. CleanupInv => LifetimesEnd
  <2> SUFFICES ASSUME CleanupInv PROVE LifetimesEnd
    OBVIOUS
  <2>1. ASSUME NEW i \in DOMAIN done, NEW j \in (done[i].to + 1) .. Len(done[i].scope),
               done[i].kind \in {"fall", "return"}, done[i].scope[j].life
        PROVE  \/ done[i].scope[j].unprotected
               \/ EndsLifetime(done[i].frag.segs, done[i].scope[j])
    BY <2>1 DEF CleanupInv, DoneRight, RightTransfer
  <2>2. ASSUME NEW i \in Resolved,
               NEW j \in (Target(gotos[i]) + 1) .. Len(gotos[i].scope),
               gotos[i].scope[j].life
        PROVE  EndsLifetime(Segs(Path(gotos[i])), gotos[i].scope[j])
    BY <2>2, PathsCleanUp
  <2> QED
    BY <2>1, <2>2 DEF LifetimesEnd
<1> QED
  BY <1>1, CleanupAlways, PTL

=============================================================================
