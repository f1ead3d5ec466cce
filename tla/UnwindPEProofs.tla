--------------------------- MODULE UnwindPEProofs ---------------------------
(***************************************************************************)
(* The readers of exception tables return what the assembler wrote, for    *)
(* bytes of any width and any values.                                      *)
(***************************************************************************)
EXTENDS UnwindPE, TLAPS, WellFoundedInduction

(***************************************************************************)
(* Division                                                                *)
(***************************************************************************)
LEMMA Division ==
    ASSUME NEW v \in Int, NEW m \in Nat \ {0}
    PROVE  v \div m \in Int /\ v % m \in 0 .. m - 1 /\ v = m * (v \div m) + (v % m)
OBVIOUS

\* A product grows by its factor at least.
LEMMA ProductGrows ==
    ASSUME NEW a \in Int, NEW b \in Int, NEW m \in Nat \ {0}, a < b
    PROVE  m * a + m <= m * b
<1>1. b - a - 1 \in Nat
  OBVIOUS
<1>2. m * (b - a - 1) >= 0
  BY <1>1
<1>3. m * (b - a - 1) = m * b - m * a - m
  OBVIOUS
<1>4. m * a \in Int /\ m * b \in Int
  OBVIOUS
<1> QED BY <1>2, <1>3, <1>4

LEMMA DivisionUnique ==
    ASSUME NEW q \in Int, NEW m \in Nat \ {0}, NEW r \in 0 .. m - 1
    PROVE  (m * q + r) \div m = q /\ (m * q + r) % m = r
<1> DEFINE v == m * q + r
<1>1. v \in Int /\ m * q \in Int
  OBVIOUS
<1>2. PICK d, s : d = v \div m /\ s = v % m
  OBVIOUS
<1>3. d \in Int /\ s \in 0 .. m - 1 /\ v = m * d + s
  BY <1>1, <1>2, Division
<1>4. m * d \in Int
  BY <1>3
<1>5. ~(d < q)
  <2> SUFFICES ASSUME d < q PROVE FALSE
    OBVIOUS
  <2>1. m * d + m <= m * q
    BY <1>3, ProductGrows
  <2> QED BY <1>1, <1>3, <1>4, <2>1
<1>6. ~(q < d)
  <2> SUFFICES ASSUME q < d PROVE FALSE
    OBVIOUS
  <2>1. m * q + m <= m * d
    BY <1>3, ProductGrows
  <2> QED BY <1>1, <1>3, <1>4, <2>1
<1>7. d = q
  BY <1>3, <1>5, <1>6
<1>8. s = r
  BY <1>1, <1>3, <1>7
<1> QED BY <1>2, <1>7, <1>8

\* Dividing twice, and the digit that the second division gives.
LEMMA DivideTwice ==
    ASSUME NEW v \in Int, NEW m \in Nat \ {0}, NEW n \in Nat \ {0}
    PROVE  /\ m * n \in Nat \ {0}
           /\ v % (m * n) = (v % m) + ((v \div m) % n) * m
           /\ v \div (m * n) = (v \div m) \div n
<1>1. PICK q, r : q = v \div m /\ r = v % m
  OBVIOUS
<1>2. q \in Int /\ r \in 0 .. m - 1 /\ v = m * q + r
  BY <1>1, Division
<1>3. PICK e, d : e = q \div n /\ d = q % n
  OBVIOUS
<1>4. e \in Int /\ d \in 0 .. n - 1 /\ q = n * e + d
  BY <1>2, <1>3, Division
<1>5. m * n \in Nat \ {0}
  OBVIOUS
<1>6. v = (m * n) * e + (d * m + r)
  <2>1. m * (n * e + d) = (m * n) * e + d * m
    BY <1>4
  <2> QED BY <1>2, <1>4, <2>1
<1>7. d * m + r \in 0 .. m * n - 1
  <2>1. d * m \in Nat /\ m * d = d * m
    BY <1>4
  <2>2. m * d + m <= m * n
    BY <1>4, ProductGrows
  <2> QED BY <1>2, <1>5, <2>1, <2>2
<1>8. v \div (m * n) = e /\ v % (m * n) = d * m + r
  BY <1>4, <1>5, <1>6, <1>7, DivisionUnique
<1>9. e = (v \div m) \div n /\ d = (v \div m) % n
  BY <1>1, <1>3
<1>10. (v % m) + ((v \div m) % n) * m = d * m + r
  <2>1. (v % m) + ((v \div m) % n) * m = r + d * m
    BY <1>1, <1>9
  <2>2. d * m \in Int /\ r \in Int
    BY <1>2, <1>4
  <2> QED BY <2>1, <2>2
<1> QED BY <1>5, <1>8, <1>9, <1>10

\* Reducing a term of a sum, and reducing by a multiple first.
LEMMA SumModulo ==
    ASSUME NEW x \in Int, NEW y \in Int, NEW m \in Nat \ {0}
    PROVE  ((x % m) + y) % m = (x + y) % m
<1>1. PICK q, r : q = x \div m /\ r = x % m
  OBVIOUS
<1>2. q \in Int /\ r \in 0 .. m - 1 /\ x = m * q + r
  BY <1>1, Division
<1>3. PICK e, d : e = (r + y) \div m /\ d = (r + y) % m
  OBVIOUS
<1>4. e \in Int /\ d \in 0 .. m - 1 /\ r + y = m * e + d
  BY <1>2, <1>3, Division
<1>5. x + y = m * (q + e) + d
  <2>1. m * (q + e) = m * q + m * e /\ m * q \in Int /\ m * e \in Int
    BY <1>2, <1>4
  <2> QED BY <1>2, <1>4, <2>1
<1>6. (x + y) % m = d
  <2>1. q + e \in Int
    BY <1>2, <1>4
  <2> QED BY <1>4, <1>5, <2>1, DivisionUnique
<1> QED BY <1>1, <1>3, <1>6

LEMMA MultipleModulo ==
    ASSUME NEW v \in Int, NEW m \in Nat \ {0}, NEW n \in Nat \ {0}
    PROVE  (v % (m * n)) % m = v % m
<1>1. PICK r, d : r = v % m /\ d = (v \div m) % n
  OBVIOUS
<1>2. r \in 0 .. m - 1 /\ v \div m \in Int
  BY <1>1, Division
<1>3. d \in 0 .. n - 1
  BY <1>1, <1>2, Division
<1>4. v % (m * n) = r + d * m
  BY <1>1, DivideTwice
<1>5. r + d * m = m * d + r
  BY <1>2, <1>3
<1>6. (m * d + r) % m = r
  BY <1>2, <1>3, DivisionUnique
<1> QED BY <1>1, <1>4, <1>5, <1>6

(***************************************************************************)
(* Induction on the naturals, and powers                                   *)
(***************************************************************************)
LEMMA SmallestExists ==
    ASSUME NEW T, T \subseteq Nat, T # {}
    PROVE  \E x \in T : \A y \in T : x <= y
<1>1. PICK x \in T : \A y \in T : ~ (<<y, x>> \in OpToRel(<, Nat))
  BY NatLessThanWellFounded, WFMin
<1>2. ASSUME NEW y \in T PROVE x <= y
  <2>1. <<y, x>> \notin {ss \in Nat \X Nat : ss[1] < ss[2]}
    BY <1>1 DEF OpToRel
  <2>2. ~ (y < x)
    BY <2>1
  <2> QED BY <2>2
<1> QED BY <1>2

\* Induction over a set.
LEMMA SetInduction ==
    ASSUME NEW T, 0 \in T, \A n \in Nat : n \in T => n + 1 \in T
    PROVE  Nat \subseteq T
<1> DEFINE R == Nat \ T
<1> SUFFICES ASSUME R # {} PROVE FALSE
  OBVIOUS
<1>1. PICK x \in R : \A y \in R : x <= y
  BY SmallestExists
<1>2. x # 0 /\ x - 1 \in Nat /\ x - 1 + 1 = x
  OBVIOUS
<1>3. x - 1 \in R
  BY <1>2
<1> QED BY <1>1, <1>2, <1>3

\* f holds the powers of b up to the n-th.
Powers(f, b, n) == f = [k \in 0 .. n |-> IF k = 0 THEN 1 ELSE b * f[k - 1]]

LEMMA PowersExist ==
    ASSUME NEW b, NEW n \in Nat
    PROVE  \E f : Powers(f, b, n)
<1> DEFINE T == {m \in Nat : \E f : Powers(f, b, m)}
<1>1. 0 \in T
  <2> DEFINE f == [k \in 0 .. 0 |-> 1]
  <2>1. Powers(f, b, 0)
    BY DEF Powers
  <2> HIDE DEF f
  <2> QED BY <2>1
<1>2. ASSUME NEW m \in Nat, m \in T PROVE m + 1 \in T
  <2>1. PICK g : Powers(g, b, m)
    BY <1>2
  <2> DEFINE last == b * g[m]
             f == [k \in 0 .. m + 1 |-> IF k = m + 1 THEN last ELSE g[k]]
  <2>2. \A k \in 0 .. m : g[k] = IF k = 0 THEN 1 ELSE b * g[k - 1]
    BY <2>1 DEF Powers
  <2> HIDE DEF last
  <2>3. f[m + 1] = last /\ \A k \in 0 .. m : f[k] = g[k]
    OBVIOUS
  <2>4. f = [k \in 0 .. m + 1 |-> f[k]]
    OBVIOUS
  <2> HIDE DEF f
  <2>5. \A k \in 0 .. m + 1 : f[k] = IF k = 0 THEN 1 ELSE b * f[k - 1]
    <3> SUFFICES ASSUME NEW k \in 0 .. m + 1 PROVE f[k] = IF k = 0 THEN 1 ELSE b * f[k - 1]
      OBVIOUS
    <3>1. CASE k = m + 1
      <4>1. k # 0 /\ k - 1 = m /\ m \in 0 .. m
        BY <3>1
      <4> QED BY <2>3, <3>1, <4>1 DEF last
    <3>2. CASE k # m + 1
      <4>1. k \in 0 .. m /\ (k # 0 => k - 1 \in 0 .. m)
        BY <3>2
      <4> QED BY <2>2, <2>3, <4>1
    <3> QED BY <3>1, <3>2
  <2>6. Powers(f, b, m + 1)
    BY <2>4, <2>5, Zenon DEF Powers
  <2> QED BY <2>6
<1>3. Nat \subseteq T
  <2> HIDE DEF T
  <2> QED BY <1>1, <1>2, SetInduction
<1> QED BY <1>3

LEMMA PowPowers ==
    ASSUME NEW b, NEW n \in Nat
    PROVE  \E f : Powers(f, b, n) /\ Pow(b, n) = f[n]
<1> DEFINE f == CHOOSE g : Powers(g, b, n)
<1>1. Powers(f, b, n)
  BY PowersExist, Zenon
<1>2. Pow(b, n) = f[n]
  BY DEF Pow, Powers
<1> HIDE DEF f
<1> QED BY <1>1, <1>2

\* The definition of powers by recursion, as equations.
LEMMA PowStep ==
    ASSUME NEW b
    PROVE  Pow(b, 0) = 1 /\ \A n \in Nat : Pow(b, n + 1) = b * Pow(b, n)
<1>1. Pow(b, 0) = 1
  <2>1. PICK f : Powers(f, b, 0) /\ Pow(b, 0) = f[0]
    BY PowPowers
  <2>2. \A k \in 0 .. 0 : f[k] = IF k = 0 THEN 1 ELSE b * f[k - 1]
    BY <2>1 DEF Powers
  <2> QED BY <2>1, <2>2
<1>2. ASSUME NEW n \in Nat PROVE Pow(b, n + 1) = b * Pow(b, n)
  <2>1. PICK f : Powers(f, b, n + 1) /\ Pow(b, n + 1) = f[n + 1]
    BY PowPowers
  <2>2. PICK g : Powers(g, b, n) /\ Pow(b, n) = g[n]
    BY PowPowers
  <2>3. \A k \in 0 .. n + 1 : f[k] = IF k = 0 THEN 1 ELSE b * f[k - 1]
    BY <2>1 DEF Powers
  <2>4. \A k \in 0 .. n : g[k] = IF k = 0 THEN 1 ELSE b * g[k - 1]
    BY <2>2 DEF Powers
  <2> DEFINE T == {k \in Nat : k <= n => f[k] = g[k]}
  <2>5. 0 \in T
    BY <2>3, <2>4
  <2>6. ASSUME NEW k \in Nat, k \in T PROVE k + 1 \in T
    <3> SUFFICES ASSUME k + 1 <= n PROVE f[k + 1] = g[k + 1]
      OBVIOUS
    <3>1. f[k] = g[k]
      BY <2>6
    <3>2. k + 1 \in 0 .. n /\ k + 1 \in 0 .. n + 1 /\ k + 1 # 0 /\ k + 1 - 1 = k
      OBVIOUS
    <3>3. f[k + 1] = b * f[k] /\ g[k + 1] = b * g[k]
      BY <2>3, <2>4, <3>2
    <3> QED BY <3>1, <3>3
  <2>7. Nat \subseteq T
    <3> HIDE DEF T
    <3> QED BY <2>5, <2>6, SetInduction
  <2>8. f[n] = g[n]
    BY <2>7
  <2>9. n + 1 \in 0 .. n + 1 /\ n + 1 # 0 /\ n + 1 - 1 = n
    OBVIOUS
  <2>10. f[n + 1] = b * f[n]
    BY <2>3, <2>9
  <2> QED BY <2>1, <2>2, <2>8, <2>10
<1> QED BY <1>1, <1>2

LEMMA PowPositive ==
    ASSUME NEW b \in Nat \ {0}, NEW n \in Nat
    PROVE  Pow(b, n) \in Nat \ {0}
<1> DEFINE T == {k \in Nat : Pow(b, k) \in Nat \ {0}}
<1>1. 0 \in T
  BY PowStep
<1>2. ASSUME NEW k \in Nat, k \in T PROVE k + 1 \in T
  <2>1. PICK x \in Nat \ {0} : x = Pow(b, k)
    BY <1>2
  <2>2. Pow(b, k + 1) = b * x
    BY <2>1, PowStep
  <2>3. b * x \in Nat \ {0}
    OBVIOUS
  <2> QED BY <2>2, <2>3
<1>3. Nat \subseteq T
  <2> HIDE DEF T
  <2> QED BY <1>1, <1>2, SetInduction
<1> QED BY <1>3

LEMMA PowSum ==
    ASSUME NEW b \in Nat \ {0}, NEW m \in Nat, NEW n \in Nat
    PROVE  Pow(b, m + n) = Pow(b, m) * Pow(b, n)
<1>1. PICK x \in Nat \ {0} : x = Pow(b, m)
  BY PowPositive
<1> DEFINE T == {k \in Nat : Pow(b, m + k) = x * Pow(b, k)}
<1>2. 0 \in T
  BY <1>1, PowStep
<1>3. ASSUME NEW k \in Nat, k \in T PROVE k + 1 \in T
  <2>1. PICK y \in Nat \ {0} : y = Pow(b, k)
    BY PowPositive
  <2>2. PICK z \in Nat \ {0} : z = Pow(b, m + k)
    <3>1. m + k \in Nat
      OBVIOUS
    <3> QED BY <3>1, PowPositive
  <2>3. z = x * y
    BY <1>3, <2>1, <2>2
  <2>4. m + (k + 1) = (m + k) + 1 /\ m + k \in Nat
    OBVIOUS
  <2>5. Pow(b, m + (k + 1)) = b * z /\ Pow(b, k + 1) = b * y
    BY <2>1, <2>2, <2>4, PowStep
  <2>6. b * (x * y) = x * (b * y)
    OBVIOUS
  <2> QED BY <2>3, <2>5, <2>6
<1>4. Nat \subseteq T
  <2> HIDE DEF T
  <2> QED BY <1>2, <1>3, SetInduction
<1> QED BY <1>1, <1>4

LEMMA PowPow ==
    ASSUME NEW b \in Nat \ {0}, NEW m \in Nat, NEW n \in Nat
    PROVE  Pow(Pow(b, m), n) = Pow(b, m * n)
<1>1. PICK x \in Nat \ {0} : x = Pow(b, m)
  BY PowPositive
<1> DEFINE T == {k \in Nat : Pow(x, k) = Pow(b, m * k)}
<1>2. 0 \in T
  BY PowStep
<1>3. ASSUME NEW k \in Nat, k \in T PROVE k + 1 \in T
  <2>1. PICK j \in Nat : j = m * k
    OBVIOUS
  <2>2. m * (k + 1) = j + m
    BY <2>1
  <2>3. PICK y \in Nat \ {0} : y = Pow(b, j)
    BY PowPositive
  <2>4. Pow(x, k + 1) = x * y
    BY <1>3, <2>1, <2>3, PowStep
  <2>5. Pow(b, j + m) = y * x
    BY <1>1, <2>3, PowSum
  <2> QED BY <2>2, <2>4, <2>5
<1>4. Nat \subseteq T
  <2> HIDE DEF T
  <2> QED BY <1>2, <1>3, SetInduction
<1> QED BY <1>1, <1>4

(***************************************************************************)
(* Bytes and words                                                         *)
(***************************************************************************)
LEMMA ByteParts ==
    /\ Sign \in Nat \ {0} /\ More = 2 * Sign /\ Byte = 2 * More
    /\ Byte = Pow(2, ByteBits) /\ More = Pow(2, ByteBits - 1)
<1>1. ByteBits - 2 \in Nat /\ ByteBits - 1 \in Nat /\ ByteBits \in Nat
  BY ConstantsAssumption
<1>2. PICK x \in Nat \ {0} : x = Pow(2, ByteBits - 2)
  BY <1>1, PowPositive
<1>3. (ByteBits - 2) + 1 = ByteBits - 1 /\ (ByteBits - 1) + 1 = ByteBits
  BY <1>1
<1>4. Pow(2, ByteBits - 1) = 2 * x
  BY <1>1, <1>2, <1>3, PowStep
<1>5. Pow(2, ByteBits) = 2 * (2 * x)
  BY <1>1, <1>3, <1>4, PowStep
<1>6. Byte = 4 * x
  BY <1>5 DEF Byte
<1>7. (4 * x) \div 2 = 2 * x /\ (4 * x) \div 4 = x
  OBVIOUS
<1> QED BY <1>2, <1>4, <1>5, <1>6, <1>7 DEF More, Sign, Byte

LEMMA WordIs ==
    ASSUME ptr \in {4, 8}
    PROVE  WordBits \in Nat \ {0} /\ Word \in Nat \ {0} /\ Word = Pow(Byte, ptr)
<1>1. ByteBits \in Nat \ {0} /\ ptr \in Nat \ {0}
  BY ConstantsAssumption
<1>2. ByteBits * ptr \in Nat \ {0}
  BY <1>1
<1>3. Pow(Pow(2, ByteBits), ptr) = Pow(2, ByteBits * ptr)
  BY <1>1, PowPow
<1>4. Pow(2, ByteBits * ptr) \in Nat \ {0}
  BY <1>2, PowPositive
<1> QED BY <1>2, <1>3, <1>4 DEF Word, WordBits, Byte

\* What N bytes hold: an even number of values.
LEMMA BytesHold ==
    ASSUME NEW n \in Nat \ {0}
    PROVE  \E half \in Nat \ {0} :
              /\ Pow(Byte, n) = 2 * half /\ Pow(Byte, n) \div 2 = half
              /\ Representable(n, TRUE) = -half .. half - 1
              /\ Representable(n, FALSE) = 0 .. 2 * half - 1
<1>1. PICK x \in Nat \ {0} : x = Pow(Byte, n - 1)
  <2>1. n - 1 \in Nat /\ Byte \in Nat \ {0}
    BY ByteParts
  <2> QED BY <2>1, PowPositive
<1>2. PICK half \in Nat \ {0} : half = More * x
  <2>1. More * x \in Nat \ {0}
    <3>1. More \in Nat \ {0}
      BY ByteParts
    <3> QED BY <3>1
  <2> QED BY <2>1
<1>3. Pow(Byte, n) = 2 * half
  <2>1. n - 1 \in Nat /\ n - 1 + 1 = n
    OBVIOUS
  <2>2. Pow(Byte, n) = Byte * x
    BY <1>1, <2>1, PowStep
  <2>3. Byte = 2 * More /\ More \in Nat
    BY ByteParts
  <2>4. (2 * More) * x = 2 * (More * x)
    BY <2>3
  <2> QED BY <1>2, <2>2, <2>3, <2>4
<1>4. (2 * half) \div 2 = half
  OBVIOUS
<1>5. Pow(2, ByteBits * n) = 2 * half
  BY <1>3, PowPow, ConstantsAssumption DEF Byte
<1>6. Representable(n, TRUE) = -half .. half - 1
  BY <1>4, <1>5 DEF Representable
<1>7. Representable(n, FALSE) = 0 .. 2 * half - 1
  BY <1>5 DEF Representable
<1> QED BY <1>3, <1>4, <1>6, <1>7

\* A load gets the low bytes of what was written.
LEMMA LoadIs ==
    ASSUME NEW n \in Nat, NEW v \in Int, NEW a,
           \A i \in 1 .. n : ByteAt(a + i - 1) = (v \div Pow(Byte, i - 1)) % Byte
    PROVE  Load(a, n) = v % Pow(Byte, n)
<1> DEFINE Loads(f) == f = [i \in 0 .. n |-> IF i = 0 THEN 0
                                             ELSE f[i - 1] + ByteAt(a + i - 1) * Pow(Byte, i - 1)]
           g == [i \in 0 .. n |-> v % Pow(Byte, i)]
<1>1. Byte \in Nat \ {0}
  BY ByteParts
<1>2. g[0] = 0
  <2>1. v % 1 = 0
    OBVIOUS
  <2> QED BY <2>1, PowStep
<1>3. ASSUME NEW i \in 1 .. n
      PROVE  g[i] = g[i - 1] + ByteAt(a + i - 1) * Pow(Byte, i - 1)
  <2>1. i - 1 \in Nat /\ i - 1 \in 0 .. n /\ i \in 0 .. n /\ i - 1 + 1 = i
    OBVIOUS
  <2>2. PICK x \in Nat \ {0} : x = Pow(Byte, i - 1)
    BY <1>1, <2>1, PowPositive
  <2>3. Pow(Byte, i) = Byte * x
    BY <2>1, <2>2, PowStep
  <2>4. Byte * x = x * Byte
    BY <1>1
  <2>5. v % (x * Byte) = (v % x) + ((v \div x) % Byte) * x
    BY <1>1, DivideTwice
  <2>6. g[i] = v % Pow(Byte, i) /\ g[i - 1] = v % x
    BY <2>1, <2>2
  <2> HIDE DEF g
  <2> QED BY <2>2, <2>3, <2>4, <2>5, <2>6
<1> HIDE DEF g
<1>4. g = [i \in 0 .. n |-> g[i]]
  BY DEF g
<1>5. \A i \in 0 .. n : g[i] = IF i = 0 THEN 0 ELSE g[i - 1] + ByteAt(a + i - 1) * Pow(Byte, i - 1)
  BY <1>2, <1>3
<1>6. Loads(g)
  BY <1>4, <1>5, Zenon
<1>7. PICK f : f = CHOOSE h : Loads(h)
  OBVIOUS
<1>8. Loads(f)
  BY <1>6, <1>7, Zenon
<1>9. Load(a, n) = f[n]
  BY <1>7 DEF Load
<1>10. \A i \in 0 .. n : f[i] = IF i = 0 THEN 0 ELSE f[i - 1] + ByteAt(a + i - 1) * Pow(Byte, i - 1)
  BY <1>8
<1> HIDE DEF Loads
<1> DEFINE T == {k \in Nat : k <= n => f[k] = g[k]}
<1>11. 0 \in T
  BY <1>5, <1>10
<1>12. ASSUME NEW k \in Nat, k \in T PROVE k + 1 \in T
  <2> SUFFICES ASSUME k + 1 <= n PROVE f[k + 1] = g[k + 1]
    OBVIOUS
  <2>1. f[k] = g[k]
    BY <1>12
  <2>2. k + 1 \in 0 .. n /\ k + 1 # 0 /\ k + 1 - 1 = k
    OBVIOUS
  <2>3. PICK y : y = ByteAt(a + (k + 1) - 1) * Pow(Byte, k)
    OBVIOUS
  <2>4. f[k + 1] = f[k] + y /\ g[k + 1] = g[k] + y
    BY <1>5, <1>10, <2>2, <2>3
  <2> QED BY <2>1, <2>4
<1>13. Nat \subseteq T
  <2> HIDE DEF T
  <2> QED BY <1>11, <1>12, SetInduction
<1>14. f[n] = g[n]
  BY <1>13
<1> QED BY <1>9, <1>14 DEF g

\* The low bytes of a value that they hold, extended to a word.
LEMMA ExtendedIs ==
    ASSUME ptr \in {4, 8}, NEW n \in Nat \ {0}, NEW signed \in BOOLEAN, NEW v \in Representable(n, signed)
    PROVE  v \in Int /\ Extended(v % Pow(Byte, n), n, signed) = v % Word
<1>1. PICK half \in Nat \ {0} :
              /\ Pow(Byte, n) = 2 * half /\ Pow(Byte, n) \div 2 = half
              /\ Representable(n, TRUE) = -half .. half - 1
              /\ Representable(n, FALSE) = 0 .. 2 * half - 1
  BY BytesHold
<1>2. PICK top \in Nat \ {0} : top = 2 * half
  OBVIOUS
<1>3. v \in Int /\ (signed => v \in -half .. half - 1) /\ (~signed => v \in 0 .. top - 1)
  <2>1. CASE signed
    <3>1. Representable(n, signed) = Representable(n, TRUE)
      BY <2>1, Zenon
    <3>2. v \in -half .. half - 1
      BY <1>1, <3>1
    <3> QED BY <2>1, <3>2
  <2>2. CASE ~signed
    <3>1. Representable(n, signed) = Representable(n, FALSE)
      <4>1. signed = FALSE
        BY <2>2
      <4> QED BY <4>1, Zenon
    <3>2. v \in 0 .. top - 1
      BY <1>1, <1>2, <3>1
    <3> QED BY <2>2, <3>2
  <2> QED BY <2>1, <2>2
<1>4. CASE v >= 0
  <2>1. v \in 0 .. top - 1 /\ v = top * 0 + v
    BY <1>2, <1>3, <1>4
  <2>2. v % top = v
    BY <2>1, DivisionUnique
  <2>3. signed => ~(v >= half)
    BY <1>3
  <2> QED BY <1>1, <1>2, <1>3, <2>2, <2>3 DEF Extended
<1>5. CASE v < 0
  <2>1. signed /\ v + top \in half .. top - 1 /\ v = top * (-1) + (v + top)
    BY <1>2, <1>3, <1>5
  <2>2. v + top \in 0 .. top - 1
    BY <1>2, <2>1
  <2>3. v % top = v + top
    <3>1. PICK q \in Int : q = -1
      OBVIOUS
    <3>2. (top * q + (v + top)) % top = v + top
      BY <2>2, DivisionUnique
    <3> QED BY <2>1, <3>1, <3>2
  <2>4. v + top >= half /\ v + top - top = v
    BY <1>2, <1>3, <2>1
  <2> QED BY <1>1, <1>2, <1>3, <2>1, <2>3, <2>4 DEF Extended
<1> QED BY <1>3, <1>4, <1>5

(***************************************************************************)
(* LEB128                                                                  *)
(***************************************************************************)
LEMMA ShiftIs ==
    ASSUME NEW n \in Nat
    PROVE  /\ (ByteBits - 1) * n \in Nat /\ Pow(2, (ByteBits - 1) * n) = Pow(More, n)
           /\ Pow(More, n) \in Nat \ {0}
<1>1. ByteBits - 1 \in Nat /\ More \in Nat \ {0} /\ More = Pow(2, ByteBits - 1)
  BY ByteParts, ConstantsAssumption
<1>2. (ByteBits - 1) * n \in Nat
  BY <1>1
<1>3. Pow(Pow(2, ByteBits - 1), n) = Pow(2, (ByteBits - 1) * n)
  BY <1>1, PowPow
<1> QED BY <1>1, <1>2, <1>3, PowPositive

\* The groups of a value: a digit each, and more to come but after the last.
LEMMA GroupParts ==
    ASSUME NEW v \in Int, NEW n \in Nat \ {0}, NEW j \in 0 .. n - 1
    PROVE  LET b == Groups(v, n)[j + 1]
               d == (v \div Pow(More, j)) % More
           IN  /\ d \in 0 .. More - 1 /\ b % More = d
               /\ b < More <=> j = n - 1
               /\ j = n - 1 => b = d
<1>1. PICK d, b : d = (v \div Pow(More, j)) % More /\ b = Groups(v, n)[j + 1]
  OBVIOUS
<1>2. More \in Nat \ {0}
  BY ByteParts
<1>3. d \in 0 .. More - 1
  <2>1. Pow(More, j) \in Nat \ {0}
    BY ShiftIs
  <2>2. v \div Pow(More, j) \in Int
    BY <2>1, Division
  <2> QED BY <1>1, <1>2, <2>2, Division
<1>4. b = d + (IF j + 1 < n THEN More ELSE 0)
  <2>1. j + 1 \in 1 .. n /\ j + 1 - 1 = j
    OBVIOUS
  <2> QED BY <1>1, <2>1 DEF Groups
<1>5. CASE j = n - 1
  <2>1. b = d /\ b = More * 0 + d
    BY <1>2, <1>3, <1>4, <1>5
  <2>2. b % More = d
    BY <1>2, <1>3, <2>1, DivisionUnique
  <2> QED BY <1>1, <1>2, <1>3, <1>5, <2>1, <2>2
<1>6. CASE j # n - 1
  <2>1. b = d + More /\ b = More * 1 + d
    BY <1>2, <1>3, <1>4, <1>6
  <2>2. b % More = d
    BY <1>2, <1>3, <2>1, DivisionUnique
  <2>3. ~(b < More)
    BY <1>2, <1>3, <2>1
  <2> QED BY <1>1, <1>2, <1>3, <1>6, <2>2, <2>3
<1> QED BY <1>5, <1>6

\* What the reader knows of a value after J groups, and after one more.
LowGroups(v, j) == (v % Pow(More, j)) % Word

LEMMA GroupAdds ==
    ASSUME ptr \in {4, 8}, NEW v \in Int, NEW j \in Nat
    PROVE  LET d == (v \div Pow(More, j)) % More
           IN  (LowGroups(v, j) + d * Pow(2, (ByteBits - 1) * j)) % Word = LowGroups(v, j + 1)
<1>1. More \in Nat \ {0} /\ Word \in Nat \ {0}
  BY ByteParts, WordIs
<1>2. PICK x \in Nat \ {0} : x = Pow(More, j) /\ x = Pow(2, (ByteBits - 1) * j)
  BY ShiftIs
<1>3. Pow(More, j + 1) = More * x
  BY <1>2, PowStep
<1>4. PICK d : d = (v \div x) % More
  OBVIOUS
<1>5. PICK y : y = v % x
  OBVIOUS
<1>6. d \in Int /\ y \in Int /\ d * x \in Int
  <2>1. v \div x \in Int /\ y \in Int
    BY <1>5, Division
  <2>2. d \in Int
    BY <1>1, <1>4, <2>1, Division
  <2> QED BY <2>1, <2>2
<1>7. v % (More * x) = y + d * x
  <2>1. More * x = x * More
    BY <1>1
  <2> QED BY <1>1, <1>4, <1>5, <2>1, DivideTwice
<1>8. ((y % Word) + d * x) % Word = (y + d * x) % Word
  BY <1>1, <1>6, SumModulo
<1> QED BY <1>2, <1>3, <1>4, <1>5, <1>7, <1>8 DEF LowGroups

\* A word needs MaxGroups groups, and no fewer.
LEMMA MaxGroupsIs ==
    ASSUME ptr \in {4, 8}
    PROVE  /\ MaxGroups \in Nat \ {0}
           /\ (ByteBits - 1) * MaxGroups >= WordBits
           /\ (ByteBits - 1) * (MaxGroups - 1) < WordBits
<1>1. PICK g \in Nat \ {0} : g = ByteBits - 1
  BY ConstantsAssumption
<1>2. WordBits \in Nat \ {0}
  BY WordIs
<1>3. PICK w \in Nat : w = WordBits + g - 1
  BY <1>1, <1>2
<1>4. WordBits + ByteBits - 2 = w
  BY <1>1, <1>2, <1>3, ConstantsAssumption
<1>5. PICK q, r : q = w \div g /\ r = w % g
  OBVIOUS
<1>6. q \in Int /\ r \in 0 .. g - 1 /\ w = g * q + r
  <2>1. w \in Int
    OBVIOUS
  <2>2. w \div g \in Int /\ w % g \in 0 .. g - 1 /\ w = g * (w \div g) + (w % g)
    BY <2>1, Division
  <2> QED BY <1>5, <2>2
<1>7. MaxGroups = q
  BY <1>1, <1>4, <1>5 DEF MaxGroups
<1>8. g * q \in Int /\ g * (q - 1) = g * q - g
  BY <1>6
<1>9. g * q >= WordBits /\ g * (q - 1) < WordBits
  BY <1>2, <1>3, <1>6, <1>8
<1>10. q \in Nat \ {0}
  <2>1. q <= 0 => g * q <= 0
    BY <1>6
  <2> QED BY <1>2, <1>6, <1>9, <2>1
<1> QED BY <1>1, <1>7, <1>9, <1>10

LEMMA PowGrows ==
    ASSUME NEW b \in Nat \ {0}, NEW m \in Nat, NEW n \in Nat, m <= n
    PROVE  Pow(b, m) <= Pow(b, n)
<1>1. n - m \in Nat /\ m + (n - m) = n
  OBVIOUS
<1>2. PICK x, y \in Nat \ {0} : x = Pow(b, m) /\ y = Pow(b, n - m)
  BY <1>1, PowPositive
<1>3. Pow(b, n) = x * y
  BY <1>1, <1>2, PowSum
<1>4. x <= x * y
  <2>1. y - 1 \in Nat /\ x * (y - 1) \in Nat /\ x * y = x * (y - 1) + x
    OBVIOUS
  <2> QED BY <2>1
<1> QED BY <1>2, <1>3, <1>4

\* The number of groups of a field: as many as a word needs, or enough.
LEMMA FieldGroups ==
    ASSUME ptr \in {4, 8}, NEW v \in Int, NEW signed \in BOOLEAN, NEW pad \in Nat
    PROVE  LET n == Min({FewestGroups(v, signed) + pad, MaxGroups})
           IN  n \in 1 .. MaxGroups /\ (n = MaxGroups \/ Fits(v, n, signed))
<1>1. MaxGroups \in Nat \ {0}
  BY MaxGroupsIs
<1> DEFINE S == {n \in 1 .. MaxGroups : Fits(v, n, signed)} \cup {MaxGroups}
<1>2. PICK f \in S : \A y \in S : f <= y
  <2>1. S \subseteq Nat /\ S # {}
    BY <1>1
  <2> HIDE DEF S
  <2> QED BY <2>1, SmallestExists
<1>3. FewestGroups(v, signed) \in S
  <2>1. FewestGroups(v, signed) = CHOOSE x \in S : \A y \in S : x <= y
    BY DEF FewestGroups, Min
  <2> HIDE DEF S
  <2> QED BY <1>2, <2>1
<1>4. PICK k \in 1 .. MaxGroups : k = FewestGroups(v, signed) /\ (k = MaxGroups \/ Fits(v, k, signed))
  BY <1>1, <1>3
<1>5. PICK n : n = Min({k + pad, MaxGroups})
  OBVIOUS
<1>6. n = IF k + pad <= MaxGroups THEN k + pad ELSE MaxGroups
  <2> DEFINE m == IF k + pad <= MaxGroups THEN k + pad ELSE MaxGroups
             R == {k + pad, MaxGroups}
  <2>1. m \in R /\ \A y \in R : m <= y
    BY <1>1
  <2>2. \A x \in R : (\A y \in R : x <= y) => x = m
    BY <1>1
  <2>3. n = CHOOSE x \in R : \A y \in R : x <= y
    BY <1>5 DEF Min
  <2> HIDE DEF m, R
  <2>4. n = m
    BY <2>1, <2>2, <2>3
  <2> QED BY <2>4 DEF m
<1>7. n \in 1 .. MaxGroups /\ k <= n
  BY <1>1, <1>6
<1>8. ASSUME n # MaxGroups PROVE Fits(v, n, signed)
  <2>1. Fits(v, k, signed)
    BY <1>1, <1>4, <1>6, <1>7, <1>8
  <2>2. PICK x, y \in Nat \ {0} : x = Pow(More, k) /\ y = Pow(More, n) /\ x <= y
    <3>1. k \in Nat /\ n \in Nat /\ k <= n /\ More \in Nat \ {0}
      BY <1>1, <1>7, ByteParts
    <3>2. Pow(More, k) <= Pow(More, n)
      BY <3>1, PowGrows
    <3> QED BY <3>1, <3>2, ShiftIs
  <2>3. x \div 2 <= y \div 2 /\ x \div 2 \in Int /\ y \div 2 \in Int
    BY <2>2
  <2> QED BY <2>1, <2>2, <2>3 DEF Fits
<1> QED BY <1>4, <1>5, <1>7, <1>8

\* The sign bit of the last group of a value that fits.
LEMMA SignBit ==
    ASSUME NEW v \in Int, NEW n \in Nat \ {0}, Fits(v, n, TRUE)
    PROVE  LET m == Pow(More, n)
               d == (v \div Pow(More, n - 1)) % More
           IN  /\ m \in Nat \ {0} /\ -m <= v /\ v < m
               /\ v < 0 => v % m = v + m /\ (d \div Sign) % 2 = 1
               /\ v >= 0 => v % m = v /\ (d \div Sign) % 2 = 0
<1>1. Sign \in Nat \ {0} /\ More = 2 * Sign /\ More \in Nat \ {0}
  BY ByteParts
<1>2. PICK x \in Nat \ {0} : x = Pow(More, n - 1)
  BY ShiftIs
<1>3. PICK m : m = Pow(More, n)
  OBVIOUS
<1>4. m = More * x
  <2>1. n - 1 \in Nat /\ n - 1 + 1 = n
    OBVIOUS
  <2> QED BY <1>2, <1>3, <2>1, PowStep
<1>5. PICK half \in Nat \ {0} : half = Sign * x
  BY <1>1
<1>6. m = 2 * half
  BY <1>1, <1>4, <1>5
<1>7. m \div 2 = half
  BY <1>6
<1>8. -half <= v /\ v < half
  BY <1>3, <1>7 DEF Fits
<1>9. v % m = IF v < 0 THEN v + m ELSE v
  <2>1. CASE v < 0
    <3>1. PICK q \in Int : q = -1
      OBVIOUS
    <3>2. v + m \in 0 .. m - 1 /\ v = m * q + (v + m)
      BY <1>6, <1>8, <2>1, <3>1
    <3>3. (m * q + (v + m)) % m = v + m
      BY <1>6, <3>2, DivisionUnique
    <3> QED BY <2>1, <3>2, <3>3
  <2>2. CASE v >= 0
    <3>1. v \in 0 .. m - 1 /\ v = m * 0 + v
      BY <1>6, <1>8, <2>2
    <3>2. (m * 0 + v) % m = v
      BY <1>6, <3>1, DivisionUnique
    <3> QED BY <2>2, <3>1, <3>2
  <2> QED BY <2>1, <2>2
<1>10. PICK d, y : d = (v \div x) % More /\ y = v % x
  OBVIOUS
<1>11. d \in 0 .. More - 1 /\ y \in 0 .. x - 1
  <2>1. v \div x \in Int /\ y \in 0 .. x - 1
    BY <1>10, Division
  <2> QED BY <1>1, <1>10, <2>1, Division
<1>12. v % m = y + d * x
  <2>1. m = x * More
    BY <1>1, <1>4
  <2> QED BY <1>1, <1>10, <2>1, DivideTwice
<1>13. d * x \in Nat /\ x * d = d * x /\ x * Sign = half
  BY <1>1, <1>5, <1>11
<1>14. v < 0 => d >= Sign
  <2> SUFFICES ASSUME v < 0, d < Sign PROVE FALSE
    BY <1>1, <1>11
  <2>1. x * d + x <= x * Sign
    BY <1>1, <1>11, ProductGrows
  <2>2. v + m >= half
    BY <1>6, <1>8
  <2> QED BY <1>9, <1>11, <1>12, <1>13, <2>1, <2>2
<1>15. v >= 0 => d < Sign
  <2> SUFFICES ASSUME v >= 0, d >= Sign PROVE FALSE
    BY <1>1, <1>11
  <2>1. x * d >= x * Sign
    <3>1. CASE d = Sign
      BY <1>13, <3>1
    <3>2. CASE d > Sign
      <4>1. x * Sign + x <= x * d
        BY <1>1, <1>11, <3>2, ProductGrows
      <4> QED BY <1>13, <4>1
    <3> QED BY <1>1, <1>11, <3>1, <3>2
  <2> QED BY <1>8, <1>9, <1>11, <1>12, <1>13, <2>1
<1>16. d >= Sign => d \div Sign = 1
  <2> SUFFICES ASSUME d >= Sign PROVE d \div Sign = 1
    OBVIOUS
  <2>1. d - Sign \in 0 .. Sign - 1 /\ d = Sign * 1 + (d - Sign)
    BY <1>1, <1>11
  <2> QED BY <1>1, <2>1, DivisionUnique
<1>17. d < Sign => d \div Sign = 0
  <2> SUFFICES ASSUME d < Sign PROVE d \div Sign = 0
    OBVIOUS
  <2>1. d \in 0 .. Sign - 1 /\ d = Sign * 0 + d
    BY <1>1, <1>11
  <2> QED BY <1>1, <2>1, DivisionUnique
<1>18. v < 0 => (d \div Sign) % 2 = 1
  BY <1>14, <1>16
<1>19. v >= 0 => (d \div Sign) % 2 = 0
  BY <1>15, <1>17
<1>20. -m <= v /\ v < m
  BY <1>6, <1>8
<1> QED BY <1>2, <1>3, <1>6, <1>9, <1>10, <1>18, <1>19, <1>20

\* After its last group the value is complete, in words.
LEMMA LastGroupIs ==
    ASSUME ptr \in {4, 8}, NEW v \in Int, NEW signed \in BOOLEAN, NEW n \in 1 .. MaxGroups,
           n = MaxGroups \/ Fits(v, n, signed), ~signed => v >= 0
    PROVE  LET d == (v \div Pow(More, n - 1)) % More
               r == LowGroups(v, n)
           IN  (IF signed THEN r + SignExtension(d, (ByteBits - 1) * n) ELSE r) = v % Word
<1>1. MaxGroups \in Nat \ {0} /\ (ByteBits - 1) * MaxGroups >= WordBits
  BY MaxGroupsIs
<1>2. WordBits \in Nat \ {0} /\ Word \in Nat \ {0} /\ Word = Pow(2, WordBits)
  BY WordIs DEF Word
<1>3. PICK s \in Nat : s = (ByteBits - 1) * n
  BY ShiftIs
<1>4. PICK m \in Nat \ {0} : m = Pow(More, n) /\ m = Pow(2, s)
  BY <1>1, <1>3, ShiftIs
<1>5. PICK d, r : d = (v \div Pow(More, n - 1)) % More /\ r = LowGroups(v, n)
  OBVIOUS
<1>6. r = (v % m) % Word
  BY <1>4, <1>5 DEF LowGroups
<1>7. CASE s >= WordBits
  <2>1. s - WordBits \in Nat /\ WordBits + (s - WordBits) = s
    BY <1>2, <1>7
  <2>2. PICK k \in Nat \ {0} : k = Pow(2, s - WordBits)
    BY <2>1, PowPositive
  <2>3. m = Word * k
    BY <1>2, <1>4, <2>1, <2>2, PowSum
  <2>4. r = v % Word
    BY <1>2, <1>6, <2>3, MultipleModulo
  <2>5. SignExtension(d, s) = 0
    BY <1>2, <1>7 DEF SignExtension
  <2>6. r + 0 = r
    BY <1>2, <2>4, Division
  <2> QED BY <1>3, <1>5, <2>4, <2>5, <2>6
<1>8. CASE s < WordBits
  <2>1. Fits(v, n, signed)
    BY <1>1, <1>2, <1>3, <1>8
  <2>2. WordBits - s \in Nat /\ s + (WordBits - s) = WordBits
    BY <1>2, <1>8
  <2>3. PICK k \in Nat \ {0} : k = Pow(2, WordBits - s)
    BY <2>2, PowPositive
  <2>4. Word = m * k
    BY <1>2, <1>4, <2>2, <2>3, PowSum
  <2>5. m <= Word
    <3>1. m * k = m * (k - 1) + m /\ m * (k - 1) \in Nat
      OBVIOUS
    <3> QED BY <2>4, <3>1
  <2>6. CASE ~signed
    <3>1. v \in 0 .. m - 1 /\ v = m * 0 + v
      BY <1>4, <2>1, <2>6 DEF Fits
    <3>2. v % m = v
      BY <3>1, DivisionUnique
    <3> QED BY <1>5, <1>6, <2>6, <3>2
  <2>7. CASE signed
    <3>1. /\ -m <= v /\ v < m
          /\ v < 0 => v % m = v + m /\ (d \div Sign) % 2 = 1
          /\ v >= 0 => v % m = v /\ (d \div Sign) % 2 = 0
      <4>1. signed = TRUE
        BY <2>7
      <4>2. Fits(v, n, TRUE)
        BY <2>1, <4>1, Zenon
      <4>3. n \in Nat \ {0}
        BY <1>1
      <4>4. LET w == Pow(More, n)
                e == (v \div Pow(More, n - 1)) % More
            IN  /\ w \in Nat \ {0} /\ -w <= v /\ v < w
                /\ v < 0 => v % w = v + w /\ (e \div Sign) % 2 = 1
                /\ v >= 0 => v % w = v /\ (e \div Sign) % 2 = 0
        BY <4>2, <4>3, SignBit
      <4> QED BY <1>4, <1>5, <4>4
    <3>2. CASE v >= 0
      <4>1. SignExtension(d, s) = 0
        BY <3>1, <3>2 DEF SignExtension
      <4>2. r = v % Word
        BY <1>6, <3>1, <3>2
      <4>3. r + 0 = r
        BY <1>2, <4>2, Division
      <4> QED BY <1>3, <1>5, <2>7, <4>1, <4>2, <4>3
    <3>3. CASE v < 0
      <4>1. SignExtension(d, s) = Word - m
        BY <1>4, <1>8, <3>1, <3>3 DEF SignExtension
      <4>2. v + m \in 0 .. Word - 1 /\ v + m = Word * 0 + (v + m)
        BY <1>2, <2>5, <3>1, <3>3
      <4>3. r = v + m
        BY <1>2, <1>6, <3>1, <3>3, <4>2, DivisionUnique, SMTT(40)
      <4>4. PICK q \in Int : q = -1
        OBVIOUS
      <4>5. v + Word \in 0 .. Word - 1 /\ v = Word * q + (v + Word)
        BY <1>2, <2>5, <3>1, <3>3, <4>4
      <4>6. (Word * q + (v + Word)) % Word = v + Word
        BY <1>2, <4>5, DivisionUnique, ZenonT(40)
      <4>7. r + (Word - m) = v + Word
        BY <1>2, <4>3
      <4> QED BY <1>3, <1>5, <2>7, <4>1, <4>5, <4>6, <4>7
    <3> QED BY <3>2, <3>3
  <2> QED BY <2>6, <2>7
<1> QED BY <1>2, <1>7, <1>8


(***************************************************************************)
(* The invariant                                                           *)
(***************************************************************************)
CanRead == Reads(enc) /\ base_of_encoded_value(enc) # Abort

\* The bytes of field K are those that the assembler makes of value K.
FieldHolds(k) ==
    /\ table.fields[k] \in Nat
    /\ table.values[k] \in Representable(Width(enc), IsSigned(enc))
    /\ \E pad \in Nat :
          LET f == Field(enc, table.values[k], table.fields[k], pad)
          IN  /\ table.fields[k + 1] = table.fields[k] + Len(f)
              /\ \A i \in 1 .. Len(f) : ByteAt(table.fields[k] + i - 1) = f[i]

TableOK ==
    /\ ptr \in {4, 8} /\ enc \in Encodings
    /\ Reads(enc) => Len(table.values) = 2 /\ FieldHolds(1) /\ FieldHolds(2)

\* Field K is of N groups.
GroupField(k, n) ==
    /\ n \in 1 .. MaxGroups
    /\ n = MaxGroups \/ Fits(table.values[k], n, IsSigned(enc))
    /\ table.fields[k + 1] = table.fields[k] + n
    /\ \A i \in 1 .. n : ByteAt(table.fields[k] + i - 1) = Groups(table.values[k], n)[i]

\* Field K begins at U and its first J groups have been read.
GroupsRead(k, n, j) ==
    /\ GroupField(k, n) /\ j \in 0 .. n - 1
    /\ u = table.fields[k] /\ p = u + j
    /\ shift = (ByteBits - 1) * j
    /\ acc = LowGroups(table.values[k], j)

ValuesOK ==
    /\ \E n \in 0 .. 2 : vals = [i \in 1 .. n |-> Meant(i)]
    /\ pc \in {"field", "leb", "rebase", "done", "abort"}
    /\ pc = "done" => Len(vals) = 2
    /\ pc \in {"field", "leb", "rebase"} => Len(vals) < 2
    /\ ~CanRead => vals = <<>> /\ pc \in {"field", "abort"}

PositionOK == pc \in {"field", "done"} => p = table.fields[Len(vals) + 1]

GroupsOK ==
    pc = "leb" => /\ IsLeb(enc)
                  /\ \E n, j \in Nat : GroupsRead(Len(vals) + 1, n, j)

RebaseOK ==
    pc = "rebase" => /\ u = table.fields[Len(vals) + 1] /\ p = table.fields[Len(vals) + 2]
                     /\ acc = table.values[Len(vals) + 1] % Word

IInv == TableOK /\ ValuesOK /\ PositionOK /\ GroupsOK /\ RebaseOK

(***************************************************************************)
(* The table                                                               *)
(***************************************************************************)
LEMMA Formed ==
    ASSUME ptr \in {4, 8}, NEW e \in Encodings, Reads(e)
    PROVE  /\ Width(e) \in {2, 4, 8} /\ IsSigned(e) \in BOOLEAN /\ e # omit
           /\ ~IsLeb(e) => Width(e) = size_of_encoded_value(e)
           /\ IsLeb(e) => size_of_encoded_value(e) = Abort
<1>1. e.format \in {0, 1, 2, 3, 4, 9, 10, 11, 12}
  BY DEF Reads, aligned, absptr, uleb128, sleb128, udata2, udata4, udata8, sdata2, sdata4, sdata8
<1>2. e # omit
  BY <1>1 DEF omit
<1>3. IsSigned(e) \in BOOLEAN
  BY DEF IsSigned
<1>4. Width(e) \in {2, 4, 8}
  BY <1>1 DEF Width, udata2, sdata2, udata4, sdata4, udata8, sdata8
<1>5. ~IsLeb(e) => Width(e) = size_of_encoded_value(e)
  BY <1>1, <1>2 DEF IsLeb, Width, size_of_encoded_value, absptr, uleb128, sleb128, udata2, udata4, udata8,
                    sdata2, sdata4, sdata8
<1>6. IsLeb(e) => size_of_encoded_value(e) = Abort
  BY <1>1, <1>2 DEF IsLeb, size_of_encoded_value, absptr, uleb128, sleb128, udata2, udata4, udata8
<1> QED BY <1>2, <1>3, <1>4, <1>5, <1>6

LEMMA AlignUpIs ==
    ASSUME ptr \in {4, 8}, NEW a \in Nat
    PROVE  AlignUp(a) \in Nat /\ AlignUp(a) >= a /\ (a % ptr = 0 => AlignUp(a) = a) /\ AlignUp(a) % ptr = 0
<1>1. CASE ptr = 4
  BY <1>1 DEF AlignUp
<1>2. CASE ptr = 8
  BY <1>2 DEF AlignUp
<1> QED BY <1>1, <1>2

\* What a field is made of.
LEMMA FieldIs ==
    ASSUME ptr \in {4, 8}, NEW e \in Encodings, Reads(e), NEW v \in Int, NEW a \in Nat, NEW pad \in Nat
    PROVE  LET f == Field(e, v, a, pad)
           IN  /\ f \in Seq(Int)
               /\ e = aligned =>
                     /\ Len(f) = AlignUp(a) - a + ptr
                     /\ \A i \in 1 .. ptr : f[AlignUp(a) - a + i] = (v \div Pow(Byte, i - 1)) % Byte
               /\ e # aligned /\ ~IsLeb(e) =>
                     /\ Len(f) = Width(e)
                     /\ \A i \in 1 .. Width(e) : f[i] = (v \div Pow(Byte, i - 1)) % Byte
               /\ IsLeb(e) => \E n \in 1 .. MaxGroups : /\ n = MaxGroups \/ Fits(v, n, IsSigned(e))
                                                        /\ Len(f) = n /\ f = Groups(v, n)
<1>1. PICK f : f = Field(e, v, a, pad)
  OBVIOUS
<1>2. ASSUME NEW n \in Nat
      PROVE  /\ Data(v, n) \in Seq(Int) /\ Len(Data(v, n)) = n
             /\ \A i \in 1 .. n : Data(v, n)[i] = (v \div Pow(Byte, i - 1)) % Byte
  <2>1. \A i \in 1 .. n : (v \div Pow(Byte, i - 1)) % Byte \in Int
    <3> SUFFICES ASSUME NEW i \in 1 .. n PROVE (v \div Pow(Byte, i - 1)) % Byte \in Int
      OBVIOUS
    <3>1. Byte \in Nat \ {0} /\ i - 1 \in Nat
      BY ByteParts
    <3>2. Pow(Byte, i - 1) \in Nat \ {0}
      BY <3>1, PowPositive
    <3>3. v \div Pow(Byte, i - 1) \in Int
      BY <3>2, Division
    <3> QED BY <3>1, <3>3, Division
  <2>2. Data(v, n) \in [1 .. n -> Int]
    BY <2>1 DEF Data
  <2> QED BY <2>2 DEF Data
<1>3. CASE e = aligned
  <2>1. AlignUp(a) \in Nat /\ AlignUp(a) >= a
    BY AlignUpIs
  <2>2. PICK z \in Nat : z = AlignUp(a) - a
    BY <2>1
  <2>3. PICK d : d = Data(v, ptr)
    OBVIOUS
  <2>4. f = [i \in 1 .. z |-> 0] \o d
    BY <1>1, <1>3, <2>2, <2>3 DEF Field
  <2>5. /\ d \in Seq(Int) /\ Len(d) = ptr
        /\ \A i \in 1 .. ptr : d[i] = (v \div Pow(Byte, i - 1)) % Byte
    <3>1. ptr \in Nat
      OBVIOUS
    <3> QED BY <1>2, <2>3, <3>1
  <2>6. [i \in 1 .. z |-> 0] \in Seq(Int) /\ Len([i \in 1 .. z |-> 0]) = z
    OBVIOUS
  <2>7. f \in Seq(Int) /\ Len(f) = z + ptr /\ \A i \in 1 .. ptr : f[z + i] = d[i]
    BY <2>4, <2>5, <2>6
  <2>8. ~IsLeb(e)
    BY <1>3 DEF IsLeb, aligned, absptr, uleb128, sleb128
  <2> QED BY <1>1, <1>3, <2>2, <2>5, <2>7, <2>8
<1>4. CASE e # aligned /\ ~IsLeb(e)
  <2>1. f = Data(v, Width(e)) /\ Width(e) \in Nat
    BY <1>1, <1>4, Formed DEF Field
  <2> QED BY <1>1, <1>2, <1>4, <2>1, ZenonT(40)
<1>5. CASE IsLeb(e)
  <2>1. e # aligned
    BY <1>5 DEF IsLeb, aligned, absptr, uleb128, sleb128
  <2>2. PICK n : n = Min({FewestGroups(v, IsSigned(e)) + pad, MaxGroups})
    OBVIOUS
  <2>3. f = Groups(v, n)
    BY <1>1, <1>5, <2>1, <2>2 DEF Field
  <2>4. n \in 1 .. MaxGroups /\ (n = MaxGroups \/ Fits(v, n, IsSigned(e)))
    BY <2>2, Formed, FieldGroups
  <2>5. MaxGroups \in Nat /\ More \in Nat \ {0}
    BY MaxGroupsIs, ByteParts
  <2>6. \A i \in 1 .. n : ((v \div Pow(More, i - 1)) % More) + (IF i < n THEN More ELSE 0) \in Int
    <3> SUFFICES ASSUME NEW i \in 1 .. n
                 PROVE  ((v \div Pow(More, i - 1)) % More) + (IF i < n THEN More ELSE 0) \in Int
      OBVIOUS
    <3>1. i - 1 \in Nat
      BY <2>4
    <3>2. v \div Pow(More, i - 1) \in Int
      BY <3>1, ShiftIs, Division
    <3>3. (v \div Pow(More, i - 1)) % More \in Int
      BY <2>5, <3>2, Division
    <3> QED BY <2>5, <3>3
  <2>7. f \in [1 .. n -> Int]
    BY <2>3, <2>6 DEF Groups
  <2>8. f \in Seq(Int) /\ Len(f) = n
    BY <2>4, <2>5, <2>7
  <2> QED BY <1>1, <1>5, <2>1, <2>3, <2>4, <2>8
<1> QED BY <1>3, <1>4, <1>5

LEMMA FieldSeq ==
    ASSUME ptr \in {4, 8}, NEW e \in Encodings, Reads(e), NEW v \in Int, NEW a \in Nat, NEW pad \in Nat
    PROVE  Field(e, v, a, pad) \in Seq(Int) /\ Len(Field(e, v, a, pad)) \in Nat
<1>1. Field(e, v, a, pad) \in Seq(Int)
  BY FieldIs
<1> HIDE DEF Field
<1> QED BY <1>1

\* The second field begins where the first ends, and the bytes are those of both.
LEMMA WrittenHolds ==
    ASSUME ptr \in {4, 8}, enc \in Encodings, Reads(enc), NEW a \in Nat, NEW pad \in Nat,
           NEW v1 \in Representable(Width(enc), IsSigned(enc)),
           NEW v2 \in Representable(Width(enc), IsSigned(enc)),
           table = Written(enc, a, v1, v2, pad)
    PROVE  Len(table.values) = 2 /\ FieldHolds(1) /\ FieldHolds(2) /\ table.fields[1] = a
<1>1. PICK f1 : f1 = Field(enc, v1, a, pad)
  OBVIOUS
<1>2. v1 \in Int /\ v2 \in Int
  <2>1. Width(enc) \in Nat \ {0} /\ IsSigned(enc) \in BOOLEAN
    BY Formed
  <2> QED BY <2>1, ExtendedIs
<1>3. f1 \in Seq(Int) /\ Len(f1) \in Nat
  BY <1>1, <1>2, FieldSeq
<1>4. PICK b \in Nat : b = a + Len(f1)
  BY <1>3
<1>5. PICK f2 : f2 = Field(enc, v2, b, 0)
  OBVIOUS
<1>6. f2 \in Seq(Int) /\ Len(f2) \in Nat
  <2>1. 0 \in Nat
    OBVIOUS
  <2> QED BY <1>2, <1>5, <2>1, FieldSeq
<1>7. /\ table.values = <<v1, v2>> /\ table.fields = <<a, b, b + Len(f2)>>
      /\ table.bytes = f1 \o f2
  BY <1>1, <1>4, <1>5 DEF Written
<1>8. table.values[1] = v1 /\ table.values[2] = v2 /\ Len(table.values) = 2
  BY <1>7
<1>9. table.fields[1] = a /\ table.fields[2] = b /\ table.fields[3] = b + Len(f2)
  BY <1>7
<1>10. \A i \in 1 .. Len(f1) : ByteAt(a + i - 1) = f1[i]
  <2> SUFFICES ASSUME NEW i \in 1 .. Len(f1) PROVE ByteAt(a + i - 1) = f1[i]
    OBVIOUS
  <2>1. a + i - 1 - a + 1 = i
    BY <1>3
  <2>2. (f1 \o f2)[i] = f1[i]
    BY <1>3, <1>6
  <2> QED BY <1>7, <1>9, <2>1, <2>2, SMTT(40) DEF ByteAt
<1>11. \A i \in 1 .. Len(f2) : ByteAt(b + i - 1) = f2[i]
  <2> SUFFICES ASSUME NEW i \in 1 .. Len(f2) PROVE ByteAt(b + i - 1) = f2[i]
    OBVIOUS
  <2>1. PICK l \in Nat : l = Len(f1) /\ b = a + l /\ i \in Nat
    BY <1>3, <1>4, <1>6
  <2>2. (f1 \o f2)[Len(f1) + i] = f2[i]
    BY <1>3, <1>6
  <2>3. PICK c \in Int : c = b + i - 1 /\ c - a + 1 = Len(f1) + i
    <3>1. b + i - 1 \in Int /\ (b + i - 1) - a + 1 = l + i
      BY <2>1
    <3> QED BY <2>1, <3>1
  <2>4. table.bytes = f1 \o f2 /\ table.fields[1] = a
    BY <1>7, <1>9
  <2>5. ByteAt(c) = (f1 \o f2)[c - a + 1]
    BY <2>4 DEF ByteAt
  <2> QED BY <2>2, <2>3, <2>5
<1>12. FieldHolds(1)
  BY <1>1, <1>4, <1>8, <1>9, <1>10 DEF FieldHolds
<1>13. FieldHolds(2)
  <2>1. 2 + 1 = 3
    OBVIOUS
  <2> QED BY <1>5, <1>8, <1>9, <1>11, <2>1, SMTT(40) DEF FieldHolds
<1> QED BY <1>8, <1>9, <1>12, <1>13

\* What the readers find in field K.
LEMMA ValueIs ==
    ASSUME TableOK, Reads(enc), NEW k \in 1 .. 2
    PROVE  /\ table.values[k] \in Int /\ table.fields[k] \in Nat
           /\ Len(table.values) = 2
           /\ ~IsSigned(enc) => table.values[k] >= 0
<1>1. ptr \in {4, 8} /\ enc \in Encodings /\ FieldHolds(k) /\ Len(table.values) = 2
  BY DEF TableOK
<1>2. Width(enc) \in Nat \ {0} /\ IsSigned(enc) \in BOOLEAN
  BY <1>1, Formed
<1>3. table.values[k] \in Representable(Width(enc), IsSigned(enc)) /\ table.fields[k] \in Nat
  BY <1>1 DEF FieldHolds
<1>4. table.values[k] \in Int
  BY <1>1, <1>2, <1>3, ExtendedIs
<1>5. ~IsSigned(enc) => table.values[k] >= 0
  <2> SUFFICES ASSUME ~IsSigned(enc) PROVE table.values[k] >= 0
    OBVIOUS
  <2>1. PICK top : table.values[k] \in 0 .. top - 1
    BY <1>3 DEF Representable
  <2> QED BY <1>4, <2>1
<1> QED BY <1>1, <1>3, <1>4, <1>5

LEMMA AlignedField ==
    ASSUME TableOK, enc = aligned, NEW k \in 1 .. 2
    PROVE  /\ table.fields[k + 1] = AlignUp(table.fields[k]) + ptr
           /\ Load(AlignUp(table.fields[k]), ptr) = table.values[k] % Word
<1>1. ptr \in {4, 8} /\ enc \in Encodings /\ Reads(enc) /\ FieldHolds(k)
  BY DEF TableOK, Reads
<1>2. PICK v \in Int, a \in Nat : v = table.values[k] /\ a = table.fields[k]
  BY <1>1, ValueIs
<1>3. PICK pad \in Nat :
         /\ table.fields[k + 1] = a + Len(Field(enc, v, a, pad))
         /\ \A i \in 1 .. Len(Field(enc, v, a, pad)) : ByteAt(a + i - 1) = Field(enc, v, a, pad)[i]
  BY <1>1, <1>2 DEF FieldHolds
<1>4. PICK f : f = Field(enc, v, a, pad)
  OBVIOUS
<1>5. PICK z \in Nat : z = AlignUp(a) - a /\ AlignUp(a) = a + z
  BY <1>1, AlignUpIs
<1>6. Len(f) = z + ptr /\ \A i \in 1 .. ptr : f[z + i] = (v \div Pow(Byte, i - 1)) % Byte
  <2>1. LET g == Field(enc, v, a, pad)
        IN  /\ Len(g) = AlignUp(a) - a + ptr
            /\ \A i \in 1 .. ptr : g[AlignUp(a) - a + i] = (v \div Pow(Byte, i - 1)) % Byte
    BY <1>1, FieldIs, ZenonT(40)
  <2>2. /\ Len(f) = AlignUp(a) - a + ptr
        /\ \A i \in 1 .. ptr : f[AlignUp(a) - a + i] = (v \div Pow(Byte, i - 1)) % Byte
    BY <1>4, <2>1
  <2> QED BY <1>5, <2>2
<1>7. \A i \in 1 .. ptr : ByteAt(AlignUp(a) + i - 1) = (v \div Pow(Byte, i - 1)) % Byte
  <2> SUFFICES ASSUME NEW i \in 1 .. ptr PROVE ByteAt(AlignUp(a) + i - 1) = f[z + i]
    BY <1>6
  <2>1. i \in Nat /\ i <= ptr /\ i >= 1 /\ ptr \in Nat
    BY <1>1
  <2>2. AlignUp(a) + i - 1 = a + (z + i) - 1
    BY <1>5, <2>1
  <2>3. z + i \in 1 .. Len(f)
    BY <1>6, <2>1
  <2> QED BY <1>3, <1>4, <2>2, <2>3
<1>8. Load(AlignUp(a), ptr) = v % Pow(Byte, ptr)
  BY <1>1, <1>7, LoadIs
<1>9. a + Len(f) = AlignUp(a) + ptr
  <2>1. PICK w \in Nat : w = ptr
    BY <1>1
  <2>2. Len(f) = z + w
    BY <1>6, <2>1
  <2>3. a + (z + w) = (a + z) + w
    OBVIOUS
  <2>4. a + Len(f) = (a + z) + w
    BY <2>2, <2>3
  <2> QED BY <1>5, <2>1, <2>4
<1> QED BY <1>1, <1>2, <1>3, <1>4, <1>8, <1>9, WordIs

LEMMA FixedField ==
    ASSUME TableOK, Reads(enc), enc # aligned, ~IsLeb(enc), NEW k \in 1 .. 2
    PROVE  /\ table.fields[k + 1] = table.fields[k] + Width(enc)
           /\ Extended(Load(table.fields[k], Width(enc)), Width(enc), IsSigned(enc)) = table.values[k] % Word
<1>1. ptr \in {4, 8} /\ enc \in Encodings /\ FieldHolds(k)
  BY DEF TableOK
<1>2. PICK v \in Int, a \in Nat : v = table.values[k] /\ a = table.fields[k]
  BY ValueIs
<1>3. PICK pad \in Nat :
         /\ table.fields[k + 1] = a + Len(Field(enc, v, a, pad))
         /\ \A i \in 1 .. Len(Field(enc, v, a, pad)) : ByteAt(a + i - 1) = Field(enc, v, a, pad)[i]
  BY <1>1, <1>2 DEF FieldHolds
<1>4. PICK n \in Nat \ {0} : n = Width(enc) /\ IsSigned(enc) \in BOOLEAN
  BY <1>1, Formed
<1>5. PICK f : f = Field(enc, v, a, pad)
  OBVIOUS
<1>6. Len(f) = n /\ \A i \in 1 .. n : f[i] = (v \div Pow(Byte, i - 1)) % Byte
  <2>1. LET g == Field(enc, v, a, pad)
        IN  /\ Len(g) = Width(enc)
            /\ \A i \in 1 .. Width(enc) : g[i] = (v \div Pow(Byte, i - 1)) % Byte
    BY <1>1, FieldIs
  <2> QED BY <1>4, <1>5, <2>1
<1>7. Load(a, n) = v % Pow(Byte, n)
  BY <1>3, <1>5, <1>6, LoadIs
<1>8. v \in Representable(n, IsSigned(enc))
  BY <1>1, <1>2, <1>4 DEF FieldHolds
<1>9. Extended(v % Pow(Byte, n), n, IsSigned(enc)) = v % Word
  BY <1>1, <1>4, <1>8, ExtendedIs
<1> QED BY <1>2, <1>3, <1>4, <1>5, <1>6, <1>7, <1>9

LEMMA LebField ==
    ASSUME TableOK, IsLeb(enc), NEW k \in 1 .. 2
    PROVE  \E n : GroupField(k, n)
<1>1. Reads(enc)
  BY DEF IsLeb, Reads
<1>2. ptr \in {4, 8} /\ enc \in Encodings /\ FieldHolds(k)
  BY <1>1 DEF TableOK
<1>3. PICK v \in Int, a \in Nat : v = table.values[k] /\ a = table.fields[k]
  BY <1>1, ValueIs
<1>4. PICK pad \in Nat :
         /\ table.fields[k + 1] = a + Len(Field(enc, v, a, pad))
         /\ \A i \in 1 .. Len(Field(enc, v, a, pad)) : ByteAt(a + i - 1) = Field(enc, v, a, pad)[i]
  BY <1>2, <1>3 DEF FieldHolds
<1>5. PICK n \in 1 .. MaxGroups :
         /\ n = MaxGroups \/ Fits(v, n, IsSigned(enc))
         /\ Len(Field(enc, v, a, pad)) = n /\ Field(enc, v, a, pad) = Groups(v, n)
  BY <1>1, <1>2, FieldIs
<1> QED BY <1>3, <1>4, <1>5 DEF GroupField


(***************************************************************************)
(* The steps                                                               *)
(***************************************************************************)
LEMMA InitIInv == Init => IInv
<1> SUFFICES ASSUME Init PROVE IInv
  OBVIOUS
<1>1. ptr \in {4, 8} /\ enc \in Encodings
  BY ConstantsAssumption DEF Init
<1>2. pc = "field" /\ vals = <<>> /\ Len(vals) = 0 /\ p = table.fields[1]
  BY DEF Init
<1>3. TableOK
  <2> SUFFICES ASSUME Reads(enc) PROVE Len(table.values) = 2 /\ FieldHolds(1) /\ FieldHolds(2)
    BY <1>1 DEF TableOK
  <2>1. PICK a \in Starts, pad \in Nat, v1, v2 \in Samples(Width(enc), IsSigned(enc)) :
           table = Written(enc, a, v1, v2, pad)
    <3>1. \A pad \in 0 .. MaxPad : (IF IsLeb(enc) THEN pad ELSE 0) \in Nat
      BY ConstantsAssumption
    <3> QED BY <3>1 DEF Init
  <2>2. Samples(Width(enc), IsSigned(enc)) \subseteq Representable(Width(enc), IsSigned(enc))
    BY <1>1, Formed, SamplesAssumption
  <2>3. a \in Nat
    BY ConstantsAssumption
  <2> QED BY <1>1, <2>1, <2>2, <2>3, WrittenHolds
<1>4. ValuesOK
  <2>1. vals = [i \in 1 .. 0 |-> Meant(i)]
    BY <1>2
  <2>2. 0 \in 0 .. 2
    OBVIOUS
  <2> QED BY <1>2, <2>1, <2>2 DEF ValuesOK
<1>5. PositionOK /\ GroupsOK /\ RebaseOK
  BY <1>2 DEF PositionOK, GroupsOK, RebaseOK
<1> QED BY <1>3, <1>4, <1>5 DEF IInv

\* What depends on the reader's table and encoding only.
LEMMA ReaderKeeps ==
    ASSUME UNCHANGED reader
    PROVE  /\ TableOK => TableOK'
           /\ CanRead' <=> CanRead
           /\ IsLeb(enc)' <=> IsLeb(enc)
           /\ Word' = Word
           /\ \A i : Meant(i)' = Meant(i)
           /\ \A k, n : GroupField(k, n)' <=> GroupField(k, n)
<1>1. ptr' = ptr /\ enc' = enc /\ table' = table
  BY DEF reader
<1>2. Word' = Word /\ WordBits' = WordBits /\ MaxGroups' = MaxGroups
  BY <1>1 DEF Word, WordBits, MaxGroups
<1>3. CanRead' <=> CanRead
  BY <1>1 DEF CanRead
<1>4. IsLeb(enc)' <=> IsLeb(enc)
  BY <1>1
<1>5. \A i : Meant(i)' = Meant(i)
  BY <1>1, <1>2 DEF Meant
<1>6. \A a : ByteAt(a)' = ByteAt(a)
  BY <1>1 DEF ByteAt
<1>7. \A k, n : GroupField(k, n)' <=> GroupField(k, n)
  BY <1>1, <1>2, <1>6 DEF GroupField
<1>8. \A e, v, a, pad : Field(e, v, a, pad)' = Field(e, v, a, pad)
  BY <1>1, <1>2 DEF Field, AlignUp, Width, FewestGroups
<1>9. \A k : FieldHolds(k)' <=> FieldHolds(k)
  BY <1>1, <1>6, <1>8, ZenonT(40) DEF FieldHolds, Width
<1>10. TableOK => TableOK'
  BY <1>1, <1>9 DEF TableOK
<1> QED BY <1>2, <1>3, <1>4, <1>5, <1>7, <1>10


\* The value that is being read, one of two.
LEMMA Current ==
    ASSUME ValuesOK, pc \in {"field", "leb", "rebase"}
    PROVE  /\ Len(vals) \in {0, 1} /\ Len(vals) + 1 \in 1 .. 2 /\ Len(vals) + 2 = Len(vals) + 1 + 1
           /\ vals = [i \in 1 .. Len(vals) |-> Meant(i)]
<1>1. PICK n \in 0 .. 2 : vals = [i \in 1 .. n |-> Meant(i)]
  BY DEF ValuesOK
<1>2. Len(vals) = n
  BY <1>1
<1> QED BY <1>1, <1>2 DEF ValuesOK

\* Returning the value meant, at the next field.
LEMMA ReturnKeeps ==
    ASSUME IInv, CanRead, pc \in {"field", "rebase"}, UNCHANGED reader,
           Return(Meant(Len(vals) + 1), table.fields[Len(vals) + 2])
    PROVE  IInv'
<1>1. TableOK /\ ValuesOK
  BY DEF IInv
<1>2. PICK n \in {0, 1} : n = Len(vals) /\ vals = [i \in 1 .. n |-> Meant(i)]
  BY <1>1, Current
<1>3. Len(table.values) = 2
  BY <1>1 DEF CanRead, TableOK
<1>4. vals' = Append(vals, Meant(n + 1)) /\ p' = table.fields[n + 2]
  BY <1>2 DEF Return
<1>5. pc' = IF n + 1 = 2 THEN "done" ELSE "field"
  BY <1>2, <1>3 DEF Return
<1>6. vals' = [i \in 1 .. n + 1 |-> Meant(i)]
  <2>1. CASE n = 0
    <3>1. vals = <<>>
      BY <1>2, <2>1
    <3>2. vals' = <<Meant(1)>>
      BY <1>4, <2>1, <3>1
    <3> QED BY <2>1, <3>2
  <2>2. CASE n = 1
    <3>1. vals = <<Meant(1)>>
      BY <1>2, <2>2
    <3>2. n + 1 = 2
      BY <2>2
    <3>3. vals' = Append(vals, Meant(2))
      BY <1>4, <3>2
    <3>4. PICK m1, m2 : m1 = Meant(1) /\ m2 = Meant(2)
      OBVIOUS
    <3>5. PICK s : s = Append(vals, m2)
      OBVIOUS
    <3>6. s \in Seq({m1, m2}) /\ Len(s) = 2 /\ s[1] = m1 /\ s[2] = m2
      BY <3>1, <3>4, <3>5
    <3>7. s = [i \in 1 .. 2 |-> s[i]]
      BY <3>6
    <3>8. s = [i \in 1 .. 2 |-> Meant(i)]
      BY <3>4, <3>6, <3>7
    <3>9. vals' = s
      BY <3>3, <3>4, <3>5
    <3> QED BY <3>2, <3>8, <3>9
  <2> QED BY <2>1, <2>2
<1>7. Len(vals') = n + 1 /\ n + 1 \in 0 .. 2
  BY <1>6
<1>8. ValuesOK'
  <2>1. vals' = [i \in 1 .. n + 1 |-> Meant(i)']
    BY <1>6, ReaderKeeps
  <2>2. \E m \in 0 .. 2 : vals' = [i \in 1 .. m |-> Meant(i)']
    BY <1>7, <2>1
  <2>3. CanRead'
    BY ReaderKeeps
  <2>4. pc' = "done" => Len(vals') = 2
    BY <1>5, <1>7
  <2>5. pc' \in {"field", "leb", "rebase"} => Len(vals') < 2
    BY <1>5, <1>7
  <2> QED BY <1>5, <2>2, <2>3, <2>4, <2>5 DEF ValuesOK
<1>9. PositionOK'
  <2>1. table' = table
    BY DEF reader
  <2>2. n + 1 + 1 = n + 2
    OBVIOUS
  <2> QED BY <1>4, <1>7, <2>1, <2>2 DEF PositionOK
<1>10. GroupsOK' /\ RebaseOK'
  BY <1>5 DEF GroupsOK, RebaseOK
<1> QED BY <1>1, <1>8, <1>9, <1>10, ReaderKeeps DEF IInv

LEMMA ReadAbortsStep == IInv /\ ReadAborts => IInv'
<1> SUFFICES ASSUME IInv, ReadAborts PROVE IInv'
  OBVIOUS
<1>1. TableOK /\ ValuesOK /\ ~CanRead /\ vals' = vals /\ pc' = "abort" /\ UNCHANGED reader
  BY DEF IInv, ReadAborts, CanRead
<1>2. TableOK' /\ ~CanRead' /\ \A i : Meant(i)' = Meant(i)
  BY <1>1, ReaderKeeps
<1>3. ValuesOK'
  <2>1. PICK n \in 0 .. 2 : vals = [i \in 1 .. n |-> Meant(i)]
    BY <1>1 DEF ValuesOK
  <2>2. vals' = [i \in 1 .. n |-> Meant(i)']
    BY <1>1, <1>2, <2>1
  <2> QED BY <1>1, <1>2, <2>2 DEF ValuesOK
<1>4. PositionOK' /\ GroupsOK' /\ RebaseOK'
  BY <1>1 DEF PositionOK, GroupsOK, RebaseOK
<1> QED BY <1>2, <1>3, <1>4 DEF IInv

LEMMA ReadAlignedStep == IInv /\ ReadAligned => IInv'
<1> SUFFICES ASSUME IInv, ReadAligned PROVE IInv'
  OBVIOUS
<1>1. TableOK /\ ValuesOK /\ PositionOK /\ CanRead /\ pc = "field" /\ enc = aligned /\ UNCHANGED reader
  BY DEF IInv, ReadAligned, Readable, CanRead
<1>2. PICK k \in 1 .. 2 : k = Len(vals) + 1 /\ k + 1 = Len(vals) + 2
  BY <1>1, Current
<1>3. PICK a : a = table.fields[k] /\ p = a
  BY <1>1, <1>2 DEF PositionOK
<1>4. table.fields[k + 1] = AlignUp(a) + ptr /\ Load(AlignUp(a), ptr) = table.values[k] % Word
  BY <1>1, <1>3, AlignedField
<1>5. PICK r : r = table.values[k] % Word
  OBVIOUS
<1>6. r \in 0 .. Word - 1 /\ Word \in Nat \ {0} /\ (r + 0) % Word = r
  <2>1. table.values[k] \in Int
    BY <1>1, ValueIs DEF CanRead
  <2>2. Word \in Nat \ {0}
    BY <1>1, WordIs DEF TableOK
  <2>3. r \in 0 .. Word - 1
    BY <1>5, <2>1, <2>2, Division
  <2>4. r + 0 = Word * 0 + r /\ 0 \in Int
    BY <2>2, <2>3
  <2> QED BY <2>2, <2>3, <2>4, DivisionUnique
<1>7. enc.application = "aligned" /\ enc.indirect = FALSE
  BY <1>1 DEF aligned
<1>8. Meant(k) = [addr |-> r, deref |-> FALSE]
  <2>1. "aligned" \notin DOMAIN Bases
    BY ConstantsAssumption
  <2> QED BY <1>5, <1>6, <1>7, <2>1 DEF Meant
<1>9. Return([addr |-> Load(AlignUp(p), ptr), deref |-> FALSE], AlignUp(p) + ptr)
  BY DEF ReadAligned
<1>10. Return(Meant(k), table.fields[k + 1])
  BY <1>3, <1>4, <1>5, <1>8, <1>9
<1> QED BY <1>1, <1>2, <1>10, ReturnKeeps

\* A base is what the value was meant to be relative to.
LEMMA RelocatedIs ==
    ASSUME TableOK, CanRead, NEW k \in 1 .. 2, u = table.fields[k], acc = table.values[k] % Word
    PROVE  Relocated(acc) = Meant(k)
<1> DEFINE from == CASE enc.application = "pcrel" -> table.fields[k]
                     [] enc.application \in DOMAIN Bases -> Bases[enc.application]
                     [] OTHER -> 0
<1>1. enc \in Encodings /\ enc # omit /\ base_of_encoded_value(enc) # Abort
  BY Formed DEF TableOK, CanRead
<1>2. enc.application \in Applications
  BY <1>1 DEF Encodings
<1>3. DOMAIN Bases = {"textrel", "datarel", "funcrel"}
  BY ConstantsAssumption
<1>4. from = IF enc.application = "pcrel" THEN u ELSE base_of_encoded_value(enc)
  <2>1. CASE enc.application = "pcrel"
    BY <1>3, <2>1
  <2>2. CASE enc.application \in {"absptr", "aligned"}
    BY <1>3, <2>2 DEF base_of_encoded_value
  <2>3. CASE enc.application \in {"textrel", "datarel"}
    BY <1>1, <1>3, <2>3 DEF base_of_encoded_value
  <2>4. CASE enc.application = "funcrel"
    BY <1>1, <1>3, <2>4 DEF base_of_encoded_value
  <2>5. CASE enc.application \in {"x60", "x70"}
    BY <1>1, <2>5 DEF base_of_encoded_value
  <2> QED BY <1>2, <2>1, <2>2, <2>3, <2>4, <2>5 DEF Applications
<1>5. Meant(k) = IF acc = 0 THEN [addr |-> 0, deref |-> FALSE]
                 ELSE [addr |-> (acc + from) % Word, deref |-> enc.indirect]
  BY DEF Meant
<1> HIDE DEF from
<1> QED BY <1>4, <1>5 DEF Relocated

LEMMA RebaseStep == IInv /\ Rebase => IInv'
<1> SUFFICES ASSUME IInv, Rebase PROVE IInv'
  OBVIOUS
<1>1. TableOK /\ ValuesOK /\ RebaseOK /\ CanRead /\ pc = "rebase" /\ UNCHANGED reader
  BY DEF IInv, Rebase, ValuesOK
<1>2. PICK k \in 1 .. 2 : k = Len(vals) + 1 /\ k + 1 = Len(vals) + 2
  BY <1>1, Current
<1>3. u = table.fields[k] /\ p = table.fields[k + 1] /\ acc = table.values[k] % Word
  BY <1>1, <1>2 DEF RebaseOK
<1>4. Relocated(acc) = Meant(k)
  BY <1>1, <1>3, RelocatedIs
<1>5. Return(Meant(k), table.fields[k + 1])
  BY <1>3, <1>4 DEF Rebase
<1> QED BY <1>1, <1>2, <1>5, ReturnKeeps


\* A step inside a field returns nothing.
LEMMA FieldStep ==
    ASSUME IInv, CanRead, pc \in {"field", "leb"}, pc' \in {"leb", "rebase"}, UNCHANGED <<reader, vals>>
    PROVE  TableOK' /\ ValuesOK' /\ PositionOK'
<1>1. TableOK /\ ValuesOK /\ Len(vals) < 2
  BY DEF IInv, ValuesOK
<1>2. TableOK' /\ CanRead' /\ \A i : Meant(i)' = Meant(i)
  BY <1>1, ReaderKeeps
<1>3. ValuesOK'
  <2>1. PICK n \in 0 .. 2 : vals = [i \in 1 .. n |-> Meant(i)]
    BY <1>1 DEF ValuesOK
  <2>2. vals' = [i \in 1 .. n |-> Meant(i)']
    BY <1>2, <2>1
  <2> QED BY <1>1, <1>2, <2>2 DEF ValuesOK
<1>4. PositionOK'
  BY DEF PositionOK
<1> QED BY <1>2, <1>3, <1>4

LEMMA ReadFixedStep == IInv /\ ReadFixed => IInv'
<1> SUFFICES ASSUME IInv, ReadFixed PROVE IInv'
  OBVIOUS
<1>1. /\ TableOK /\ ValuesOK /\ PositionOK /\ CanRead /\ pc = "field" /\ enc # aligned /\ ~IsLeb(enc)
      /\ pc' = "rebase" /\ UNCHANGED <<reader, vals>>
  BY DEF IInv, ReadFixed, Readable, CanRead
<1>2. PICK k \in 1 .. 2 : k = Len(vals) + 1 /\ k + 1 = Len(vals) + 2
  BY <1>1, Current
<1>3. PICK a, n : a = table.fields[k] /\ p = a /\ n = Width(enc)
  BY <1>1, <1>2 DEF PositionOK
<1>4. table.fields[k + 1] = a + n /\ Extended(Load(a, n), n, IsSigned(enc)) = table.values[k] % Word
  BY <1>1, <1>3, FixedField DEF CanRead
<1>5. acc' = table.values[k] % Word /\ p' = table.fields[k + 1] /\ u' = table.fields[k]
  BY <1>3, <1>4 DEF ReadFixed
<1>6. Word' = Word /\ table' = table /\ vals' = vals
  BY <1>1, ReaderKeeps DEF reader
<1>7. RebaseOK'
  BY <1>2, <1>5, <1>6 DEF RebaseOK
<1>8. GroupsOK'
  BY <1>1 DEF GroupsOK
<1> QED BY <1>1, <1>7, <1>8, FieldStep DEF IInv

LEMMA StartLebStep == IInv /\ StartLeb => IInv'
<1> SUFFICES ASSUME IInv, StartLeb PROVE IInv'
  OBVIOUS
<1>1. /\ TableOK /\ ValuesOK /\ PositionOK /\ CanRead /\ pc = "field" /\ IsLeb(enc)
      /\ acc' = 0 /\ shift' = 0 /\ u' = p /\ pc' = "leb" /\ p' = p /\ UNCHANGED <<reader, vals>>
  BY DEF IInv, StartLeb, Readable, CanRead
<1>2. PICK k \in 1 .. 2 : k = Len(vals) + 1
  BY <1>1, Current
<1>3. table.values[k] \in Int /\ table.fields[k] \in Nat /\ p = table.fields[k]
  BY <1>1, <1>2, ValueIs DEF PositionOK, CanRead
<1>4. PICK n : GroupField(k, n)
  BY <1>1, LebField
<1>5. n \in 1 .. MaxGroups /\ MaxGroups \in Nat
  BY <1>1, <1>4, MaxGroupsIs DEF GroupField, TableOK
<1>6. Word' = Word /\ table' = table /\ vals' = vals /\ IsLeb(enc)' /\ GroupField(k, n)'
  BY <1>1, <1>4, ReaderKeeps DEF reader
<1>7. LowGroups(table.values[k], 0) = 0
  <2>1. table.values[k] % 1 = 0
    BY <1>3
  <2>2. Word \in Nat \ {0}
    BY <1>1, WordIs DEF TableOK
  <2>3. 0 % Word = 0
    BY <2>2
  <2> QED BY <2>1, <2>3, PowStep DEF LowGroups
<1>8. GroupsRead(k, n, 0)'
  <2>1. 0 \in 0 .. n - 1
    BY <1>5
  <2>2. p' = u' + 0
    BY <1>1, <1>3
  <2>3. shift' = (ByteBits - 1) * 0
    BY <1>1, ConstantsAssumption
  <2>4. LowGroups(table.values[k], 0)' = 0
    BY <1>6, <1>7 DEF LowGroups
  <2> QED BY <1>1, <1>3, <1>6, <2>1, <2>2, <2>3, <2>4 DEF GroupsRead
<1>9. GroupsOK'
  <2>1. n \in Nat /\ 0 \in Nat
    BY <1>5
  <2> QED BY <1>2, <1>6, <1>8, <2>1 DEF GroupsOK
<1>10. RebaseOK'
  BY <1>1 DEF RebaseOK
<1> QED BY <1>1, <1>9, <1>10, FieldStep DEF IInv

\* One more group of the current field.
LEMMA ReadGroupStep == IInv /\ ReadGroup => IInv'
<1> SUFFICES ASSUME IInv, ReadGroup PROVE IInv'
  OBVIOUS
<1>1. TableOK /\ ValuesOK /\ GroupsOK /\ CanRead /\ pc = "leb" /\ IsLeb(enc) /\ UNCHANGED <<reader, vals>>
  BY DEF IInv, ReadGroup, ValuesOK, GroupsOK
<1>2. PICK k \in 1 .. 2 : k = Len(vals) + 1 /\ k + 1 = Len(vals) + 2
  BY <1>1, Current
<1>3. PICK n, j \in Nat : GroupsRead(k, n, j)
  BY <1>1, <1>2 DEF GroupsOK
<1>4. PICK v \in Int, a \in Nat : /\ v = table.values[k] /\ a = table.fields[k]
                                  /\ ~IsSigned(enc) => v >= 0
  BY <1>1, ValueIs DEF CanRead
<1>5. /\ MaxGroups \in Nat /\ n \in 1 .. MaxGroups /\ (n = MaxGroups \/ Fits(v, n, IsSigned(enc)))
      /\ table.fields[k + 1] = a + n /\ j \in 0 .. n - 1
      /\ u = a /\ p = a + j /\ shift = (ByteBits - 1) * j /\ acc = LowGroups(v, j)
  BY <1>1, <1>3, <1>4, MaxGroupsIs DEF GroupsRead, GroupField, TableOK
<1>6. PICK b, d : b = ByteAt(p) /\ d = (v \div Pow(More, j)) % More
  OBVIOUS
<1>7. b = Groups(v, n)[j + 1]
  <2>1. j + 1 \in 1 .. n /\ a + (j + 1) - 1 = a + j
    BY <1>5
  <2>2. \A i \in 1 .. n : ByteAt(a + i - 1) = Groups(v, n)[i]
    BY <1>3, <1>4 DEF GroupsRead, GroupField
  <2> QED BY <1>5, <1>6, <2>1, <2>2
<1>8. b % More = d /\ (b < More <=> j = n - 1) /\ (j = n - 1 => b = d)
  <2>1. n \in Nat \ {0}
    BY <1>5
  <2>2. LET c == Groups(v, n)[j + 1]
            e == (v \div Pow(More, j)) % More
        IN  /\ e \in 0 .. More - 1 /\ c % More = e
            /\ c < More <=> j = n - 1
            /\ j = n - 1 => c = e
    BY <1>5, <2>1, GroupParts
  <2> QED BY <1>6, <1>7, <2>2
<1>9. PICK s : s = shift + ByteBits - 1 /\ s = (ByteBits - 1) * (j + 1)
  <2>1. ByteBits - 1 \in Nat /\ (ByteBits - 1) * j \in Nat
    BY ConstantsAssumption
  <2>2. (ByteBits - 1) * (j + 1) = (ByteBits - 1) * j + (ByteBits - 1)
    BY <2>1
  <2> QED BY <1>5, <2>1, <2>2, ConstantsAssumption
<1>10. PICK r : r = (acc + (b % More) * Pow(2, shift)) % Word
  OBVIOUS
<1>11. r = LowGroups(v, j + 1)
  <2>1. LET e == (v \div Pow(More, j)) % More
        IN  (LowGroups(v, j) + e * Pow(2, (ByteBits - 1) * j)) % Word = LowGroups(v, j + 1)
    BY <1>1, GroupAdds DEF TableOK
  <2> QED BY <1>5, <1>6, <1>8, <1>10, <2>1
<1>12. /\ shift' = s /\ p' = p + 1 /\ u' = u
       /\ acc' = IF b < More /\ IsSigned(enc) THEN r + SignExtension(b, s) ELSE r
       /\ pc' = IF b < More THEN "rebase" ELSE "leb"
  BY <1>6, <1>9, <1>10 DEF ReadGroup
<1>13. Word' = Word /\ table' = table /\ vals' = vals /\ IsLeb(enc)' /\ (GroupField(k, n) => GroupField(k, n)')
  BY <1>1, ReaderKeeps DEF reader
<1>14. CASE j = n - 1
  <2>1. pc' = "rebase" /\ b < More /\ b = d
    BY <1>8, <1>12, <1>14
  <2>2. acc' = v % Word
    <3>1. IsSigned(enc) \in BOOLEAN /\ n - 1 = j /\ j + 1 = n
      BY <1>5, <1>14 DEF IsSigned
    <3>2. LET e == (v \div Pow(More, n - 1)) % More
              q == LowGroups(v, n)
          IN  (IF IsSigned(enc) THEN q + SignExtension(e, (ByteBits - 1) * n) ELSE q) = v % Word
      BY <1>1, <1>4, <1>5, <3>1, LastGroupIs DEF TableOK
    <3> QED BY <1>6, <1>9, <1>11, <1>12, <2>1, <3>1, <3>2
  <2>3. p' = table.fields[k + 1]
    BY <1>5, <1>12, <1>14
  <2>4. RebaseOK'
    BY <1>2, <1>4, <1>5, <1>12, <1>13, <2>2, <2>3 DEF RebaseOK
  <2>5. GroupsOK'
    BY <2>1 DEF GroupsOK
  <2> QED BY <1>1, <2>1, <2>4, <2>5, FieldStep DEF IInv
<1>15. CASE j # n - 1
  <2>1. pc' = "leb" /\ ~(b < More) /\ acc' = r
    BY <1>8, <1>12, <1>15
  <2>2. j + 1 \in 0 .. n - 1 /\ j + 1 \in Nat
    BY <1>5, <1>15
  <2>3. LowGroups(v, j + 1)' = LowGroups(v, j + 1)
    BY <1>13 DEF LowGroups
  <2>4. GroupsRead(k, n, j + 1)'
    <3>1. p' = u' + (j + 1)
      BY <1>5, <1>12
    <3>2. GroupField(k, n)'
      BY <1>3, <1>13 DEF GroupsRead
    <3>3. u' = table'.fields[k] /\ LowGroups(table.values[k], j + 1)' = r
      BY <1>4, <1>5, <1>11, <1>12, <1>13, <2>3
    <3> QED BY <1>9, <1>12, <2>1, <2>2, <3>1, <3>2, <3>3 DEF GroupsRead
  <2>5. GroupsOK'
    BY <1>2, <1>13, <2>2, <2>4 DEF GroupsOK
  <2>6. RebaseOK'
    BY <2>1 DEF RebaseOK
  <2> QED BY <1>1, <2>1, <2>5, <2>6, FieldStep DEF IInv
<1> QED BY <1>14, <1>15


LEMMA StutterStep == IInv /\ UNCHANGED vars => IInv'
<1> SUFFICES ASSUME IInv, UNCHANGED vars PROVE IInv'
  OBVIOUS
<1>1. /\ pc' = pc /\ p' = p /\ u' = u /\ acc' = acc /\ shift' = shift /\ vals' = vals
      /\ table' = table /\ UNCHANGED reader
  BY DEF vars, reader
<1>2. /\ TableOK => TableOK'
      /\ CanRead' <=> CanRead
      /\ IsLeb(enc)' <=> IsLeb(enc)
      /\ Word' = Word
      /\ \A i : Meant(i)' = Meant(i)
      /\ \A k, n : GroupField(k, n)' <=> GroupField(k, n)
  BY <1>1, ReaderKeeps
<1>3. TableOK' /\ PositionOK' /\ RebaseOK'
  BY <1>1, <1>2 DEF IInv, PositionOK, RebaseOK
<1>4. ValuesOK'
  <2>1. PICK n \in 0 .. 2 : vals = [i \in 1 .. n |-> Meant(i)]
    BY DEF IInv, ValuesOK
  <2>2. vals' = [i \in 1 .. n |-> Meant(i)']
    BY <1>1, <1>2, <2>1
  <2> QED BY <1>1, <1>2, <2>2 DEF IInv, ValuesOK
<1>5. GroupsOK'
  <2> SUFFICES ASSUME pc = "leb" PROVE GroupsOK'
    BY <1>1 DEF GroupsOK
  <2>1. PICK n, j \in Nat : IsLeb(enc) /\ GroupsRead(Len(vals) + 1, n, j)
    BY DEF IInv, GroupsOK
  <2>2. PICK k : k = Len(vals) + 1
    OBVIOUS
  <2>3. GroupsRead(k, n, j)'
    BY <1>1, <1>2, <2>1, <2>2 DEF GroupsRead, LowGroups
  <2> QED BY <1>1, <1>2, <2>1, <2>2, <2>3 DEF GroupsOK
<1> QED BY <1>3, <1>4, <1>5 DEF IInv

LEMMA IInvHolds == Spec => []IInv
<1>1. IInv /\ [Next]_vars => IInv'
  BY ReadAbortsStep, ReadAlignedStep, ReadFixedStep, StartLebStep, ReadGroupStep, RebaseStep, StutterStep
     DEF Next
<1> QED BY <1>1, InitIInv, PTL DEF Spec

(***************************************************************************)
(* The properties                                                          *)
(***************************************************************************)

\* Whatever the assembler writes, read_encoded_value returns it: for every
\* width of bytes, size of words, encoding, value, padding and address.
THEOREM WhatIsMeantIsRead == Spec => []ReadsWhatIsMeant
<1>1. IInv => ReadsWhatIsMeant
  <2> SUFFICES ASSUME IInv PROVE ReadsWhatIsMeant
    OBVIOUS
  <2>1. PICK n \in 0 .. 2 : vals = [i \in 1 .. n |-> Meant(i)]
    BY DEF IInv, ValuesOK
  <2> QED BY <2>1 DEF ReadsWhatIsMeant
<1> QED BY <1>1, IInvHolds, PTL

\* The loops of read_uleb128 and read_sleb128 never shift by the width of a
\* word or more, however many groups the assembler pads a value to.
THEOREM ShiftsStayInWord == Spec => []NoUndefinedShift
<1>1. IInv => NoUndefinedShift
  <2> SUFFICES ASSUME IInv, pc = "leb" PROVE shift < WordBits
    BY DEF NoUndefinedShift
  <2>1. PICK n, j \in Nat : GroupsRead(Len(vals) + 1, n, j)
    BY DEF IInv, GroupsOK
  <2>2. PICK g \in Nat : g = ByteBits - 1
    BY ConstantsAssumption
  <2>3. MaxGroups \in Nat \ {0} /\ g * (MaxGroups - 1) < WordBits /\ WordBits \in Nat
    BY <2>2, MaxGroupsIs, WordIs DEF IInv, TableOK
  <2>4. shift = g * j /\ j \in 0 .. n - 1 /\ n \in 1 .. MaxGroups
    BY <2>1, <2>2 DEF GroupsRead, GroupField
  <2>5. PICK rest \in Nat : MaxGroups - 1 = j + rest
    <3>1. MaxGroups - 1 - j \in Nat /\ MaxGroups - 1 = j + (MaxGroups - 1 - j)
      BY <2>3, <2>4
    <3> QED BY <3>1
  <2>6. g * (j + rest) = g * j + g * rest /\ g * rest \in Nat /\ g * j \in Nat
    OBVIOUS
  <2> QED BY <2>3, <2>4, <2>5, <2>6
<1> QED BY <1>1, IInvHolds, PTL

\* The entry that the personality routine finds by multiplying an index by
\* size_of_encoded_value is the one that reading the entries before it gets to.
THEOREM EntriesAreSizeApart == Spec => []SizeIsStride
<1>1. IInv => SizeIsStride
  <2> SUFFICES ASSUME IInv, pc = "done", size_of_encoded_value(enc) # Abort,
                      enc = aligned => table.fields[1] % ptr = 0
               PROVE  p = table.fields[1] + Len(vals) * size_of_encoded_value(enc)
    BY DEF SizeIsStride
  <2>1. TableOK /\ Reads(enc) /\ ptr \in {4, 8} /\ enc \in Encodings
    BY DEF IInv, ValuesOK, CanRead, TableOK
  <2>2. Len(vals) = 2 /\ p = table.fields[3]
    <3>1. Len(vals) = 2 /\ p = table.fields[Len(vals) + 1]
      BY DEF IInv, ValuesOK, PositionOK
    <3> QED BY <3>1
  <2>3. PICK a, b \in Nat : a = table.fields[1] /\ b = table.fields[2]
    BY <2>1, ValueIs
  <2>4. ~IsLeb(enc) /\ enc # omit
    BY <2>1, Formed
  <2>5. 1 \in 1 .. 2 /\ 1 + 1 = 2 /\ 2 \in 1 .. 2 /\ 2 + 1 = 3
    OBVIOUS
  <2>6. CASE enc = aligned
    <3>1. size_of_encoded_value(enc) = ptr
      BY <2>4, <2>6 DEF size_of_encoded_value, aligned, absptr, udata2, udata4, udata8
    <3>2. b = AlignUp(a) + ptr /\ p = AlignUp(b) + ptr
      <4>1. table.fields[1 + 1] = AlignUp(table.fields[1]) + ptr
        BY <2>1, <2>5, <2>6, AlignedField
      <4>2. table.fields[2 + 1] = AlignUp(table.fields[2]) + ptr
        BY <2>1, <2>5, <2>6, AlignedField
      <4> QED BY <2>2, <2>3, <2>5, <4>1, <4>2
    <3>3. a % ptr = 0 /\ AlignUp(a) = a
      BY <2>1, <2>3, <2>6, AlignUpIs
    <3>4. b = a + ptr /\ b % ptr = 0
      <4>1. CASE ptr = 4
        BY <3>2, <3>3, <4>1
      <4>2. CASE ptr = 8
        BY <3>2, <3>3, <4>2
      <4> QED BY <2>1, <4>1, <4>2
    <3>5. AlignUp(b) = b
      BY <2>1, <3>4, AlignUpIs
    <3> QED BY <2>1, <2>2, <2>3, <3>1, <3>2, <3>4, <3>5
  <2>7. CASE enc # aligned
    <3>1. PICK n \in Nat : n = size_of_encoded_value(enc) /\ n = Width(enc)
      BY <2>1, <2>4, Formed
    <3>2. b = a + n /\ p = b + n
      <4>1. table.fields[1 + 1] = table.fields[1] + Width(enc)
        BY <2>1, <2>4, <2>5, <2>7, FixedField
      <4>2. table.fields[2 + 1] = table.fields[2] + Width(enc)
        BY <2>1, <2>4, <2>5, <2>7, FixedField
      <4> QED BY <2>2, <2>3, <2>5, <3>1, <4>1, <4>2
    <3> QED BY <2>2, <2>3, <3>1, <3>2
  <2> QED BY <2>6, <2>7
<1> QED BY <1>1, IInvHolds, PTL
=============================================================================
