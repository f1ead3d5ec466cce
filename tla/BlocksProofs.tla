---------------------------- MODULE BlocksProofs ----------------------------
(***************************************************************************)
(* Theorems about Blocks, for every set of labels and exceptions, every    *)
(* kind of program and every bound: types, and the tables of jumps.        *)
(***************************************************************************)
EXTENDS Blocks, FiniteSetTheorems, SequenceTheorems, WellFoundedInduction, TLAPS

-----------------------------------------------------------------------------
(* Levels                                                                  *)

\* A non-empty set of natural numbers has a smallest element.
LEMMA SmallestExists ==
  ASSUME NEW T, T \subseteq Nat, T # {}
  PROVE  \E x \in T : \A y \in T : x <= y
<1>1. PICK x \in T : \A y \in T : ~ (<<y, x>> \in OpToRel(<, Nat))
  BY NatLessThanWellFounded, WFMin
<1>2. ASSUME NEW y \in T PROVE x <= y
  <2>1. x \in Nat /\ y \in Nat
    OBVIOUS
  <2>2. <<y, x>> \notin {ss \in Nat \X Nat : ss[1] < ss[2]}
    BY <1>1 DEF OpToRel
  <2>3. ~ (y < x)
    BY <2>1, <2>2
  <2> QED
    BY <2>1, <2>3
<1> QED
  BY <1>2

\* A set of levels of a finite stack that is not empty has a largest element,
LEMMA InnermostIn ==
  ASSUME NEW n \in Nat, NEW S, S \subseteq 1 .. n
  PROVE  /\ Innermost(S) \in 0 .. n
         /\ S # {} => Innermost(S) \in S /\ \A k \in S : k <= Innermost(S)
<1>1. CASE S = {}
  BY <1>1 DEF Innermost
<1>2. CASE S # {}
  <2>1. PICK k0 \in S : TRUE
    BY <1>2
  <2> DEFINE T == {m \in 0 .. n : n - m \in S}
  <2>2. n - k0 \in T
    <3>1. k0 \in 1 .. n
      OBVIOUS
    <3>2. n - k0 \in 0 .. n /\ n - (n - k0) = k0
      BY <3>1
    <3> QED
      BY <3>2
  <2>3. T \subseteq Nat
    OBVIOUS
  <2>4. PICK x \in T : \A y \in T : x <= y
    <3> HIDE DEF T
    <3> QED
      BY <2>2, <2>3, SmallestExists
  <2>5. ASSUME NEW j \in S PROVE j <= n - x
    <3>1. j \in 1 .. n /\ x \in 0 .. n
      OBVIOUS
    <3>2. n - j \in T
      <4>1. n - j \in 0 .. n /\ n - (n - j) = j
        BY <3>1
      <4> QED
        BY <4>1
    <3>3. x <= n - j
      BY <2>4, <3>2
    <3> QED
      BY <3>1, <3>3
  <2>6. \E k \in S : \A j \in S : j <= k
    BY <2>5
  <2>7. LET m == CHOOSE k \in S : \A j \in S : j <= k
        IN  m \in S /\ \A j \in S : j <= m
    BY <2>6, Zenon
  <2>8. Innermost(S) = CHOOSE k \in S : \A j \in S : j <= k
    BY <1>2, Zenon DEF Innermost
  <2>9. Innermost(S) \in S /\ \A k \in S : k <= Innermost(S)
    BY <2>7, <2>8
  <2>10. Innermost(S) \in 1 .. n
    BY <2>9, Zenon
  <2>11. Innermost(S) \in 0 .. n
    <3> DEFINE m == Innermost(S)
    <3>1. m \in 1 .. n
      BY <2>10
    <3> HIDE DEF m
    <3>2. m \in 0 .. n
      BY <3>1
    <3> QED
      BY <3>2 DEF m
  <2> QED
    BY <2>9, <2>11, Zenon
<1> QED
  BY <1>1, <1>2

\* and a smallest one.
LEMMA OutermostIn ==
  ASSUME NEW n \in Nat, NEW S, S \subseteq 1 .. n
  PROVE  /\ Outermost(S) \in 0 .. n
         /\ S # {} => Outermost(S) \in S
<1>1. CASE S = {}
  BY <1>1 DEF Outermost
<1>2. CASE S # {}
  <2>1. S \subseteq Nat
    OBVIOUS
  <2>2. \E k \in S : \A j \in S : k <= j
    BY <1>2, <2>1, SmallestExists
  <2>3. (CHOOSE k \in S : \A j \in S : k <= j) \in S
    BY <2>2, Zenon
  <2>4. Outermost(S) = CHOOSE k \in S : \A j \in S : k <= j
    BY <1>2, Zenon DEF Outermost
  <2>5. Outermost(S) \in S
    BY <2>3, <2>4
  <2>6. Outermost(S) \in 1 .. n
    BY <2>5, Zenon
  <2>7. Outermost(S) \in 0 .. n
    <3> DEFINE m == Outermost(S)
    <3>1. m \in 1 .. n
      BY <2>6
    <3> HIDE DEF m
    <3>2. m \in 0 .. n
      BY <3>1
    <3> QED
      BY <3>2 DEF m
  <2> QED
    BY <2>5, <2>7, Zenon
<1> QED
  BY <1>1, <1>2

-----------------------------------------------------------------------------
(* Stacks                                                                  *)

\* Two stacks of the same blocks; what was requested of these may differ.
SameBlocks(s, t) ==
  /\ Len(t) = Len(s)
  /\ \A j \in 1 .. Len(s) : t[j].id = s[j].id /\ t[j].loop = s[j].loop

SameProtection(s, t) ==
  \A j \in 1 .. Len(s) : t[j].unprotected = s[j].unprotected

LEMMA StackDomain ==
  ASSUME NEW stk \in Seq(Block)
  PROVE  /\ Len(stk) \in Nat
         /\ DOMAIN stk = 1 .. Len(stk)
         /\ \A j \in 1 .. Len(stk) : stk[j] \in Block
OBVIOUS

LEMMA NewBlockType ==
  ASSUME NEW n \in Nat
  PROVE  NewBlock(n) \in Block
BY DEF NewBlock, Block

\* The level whose landing pad a call uses is a level of the stack, or 0.
LEMMA LandingPadLevelType ==
  ASSUME NEW stk \in Seq(Block)
  PROVE  LandingPadLevel(stk) \in 0 .. Len(stk)
<1> DEFINE S == {j \in DOMAIN stk :
                   /\ HasCleanup(stk[j]) \/ stk[j].eh # {} \/ stk[j].catchUnhandled
                   /\ ~stk[j].unprotected}
<1>1. Len(stk) \in Nat /\ S \subseteq 1 .. Len(stk)
  BY StackDomain
<1> HIDE DEF S
<1>2. Innermost(S) \in 0 .. Len(stk)
  BY <1>1, InnermostIn
<1> QED
  BY <1>2 DEF LandingPadLevel, S

\* Updating one block of a stack.
LEMMA ReplaceBlock ==
  ASSUME NEW stk \in Seq(Block), NEW l \in DOMAIN stk, NEW b \in Block
  PROVE  LET t == [stk EXCEPT ![l] = b]
         IN  /\ t \in Seq(Block)
             /\ Len(t) = Len(stk)
             /\ \A j \in 1 .. Len(stk) : t[j] = IF j = l THEN b ELSE stk[j]
<1> DEFINE t == [stk EXCEPT ![l] = b]
<1>1. t \in Seq(Block) /\ Len(t) = Len(stk)
  BY ExceptSeq
<1>2. \A j \in 1 .. Len(stk) : t[j] = IF j = l THEN b ELSE stk[j]
  BY StackDomain
<1> QED
  BY <1>1, <1>2

\* An update of a block that leaves its identity and loop alone.
LEMMA ReplaceKeepsBlocks ==
  ASSUME NEW stk \in Seq(Block), NEW l \in DOMAIN stk, NEW b \in Block,
         b.id = stk[l].id, b.loop = stk[l].loop
  PROVE  LET t == [stk EXCEPT ![l] = b]
         IN  /\ SameBlocks(stk, t)
             /\ b.unprotected = stk[l].unprotected => SameProtection(stk, t)
<1> DEFINE t == [stk EXCEPT ![l] = b]
<1>1. /\ Len(t) = Len(stk)
      /\ \A j \in 1 .. Len(stk) : t[j] = IF j = l THEN b ELSE stk[j]
  BY ReplaceBlock
<1> HIDE DEF t
<1>2. /\ SameBlocks(stk, t)
      /\ b.unprotected = stk[l].unprotected => SameProtection(stk, t)
  BY <1>1 DEF SameBlocks, SameProtection
<1> QED
  BY <1>2 DEF t

LEMMA SameBlocksTransitive ==
  ASSUME NEW r, NEW s, NEW t, SameBlocks(r, s), SameBlocks(s, t)
  PROVE  /\ SameBlocks(r, t)
         /\ SameProtection(r, s) /\ SameProtection(s, t) => SameProtection(r, t)
BY DEF SameBlocks, SameProtection

\* Making a landing pad changes nothing else.
LEMMA RequestedType ==
  ASSUME NEW stk \in Seq(Block), NEW l \in 0 .. Len(stk)
  PROVE  /\ Requested(stk, l) \in Seq(Block)
         /\ SameBlocks(stk, Requested(stk, l))
         /\ SameProtection(stk, Requested(stk, l))
<1>1. CASE l = 0
  BY <1>1 DEF Requested, SameBlocks, SameProtection
<1>2. CASE l # 0
  <2> DEFINE b == [stk[l] EXCEPT !.landingPad = TRUE]
  <2>1. l \in DOMAIN stk /\ stk[l] \in Block
    BY <1>2, StackDomain
  <2>2. /\ b \in Block
        /\ b.id = stk[l].id /\ b.loop = stk[l].loop
        /\ b.unprotected = stk[l].unprotected
    BY <2>1 DEF Block
  <2>3. Requested(stk, l) = [stk EXCEPT ![l] = b]
    BY <1>2 DEF Requested
  <2> HIDE DEF b
  <2>4. [stk EXCEPT ![l] = b] \in Seq(Block)
    BY <2>1, <2>2, ReplaceBlock
  <2>5. /\ SameBlocks(stk, [stk EXCEPT ![l] = b])
        /\ SameProtection(stk, [stk EXCEPT ![l] = b])
    BY <2>1, <2>2, ReplaceKeepsBlocks
  <2> QED
    BY <2>3, <2>4, <2>5
<1> QED
  BY <1>1, <1>2

LEMMA QuietType ==
  ASSUME NEW stk \in Seq(Block), stk # <<>>
  PROVE  Quiet(stk) \in Seq(Block) /\ Len(Quiet(stk)) = Len(stk)
<1> DEFINE l == Len(stk)
           b == [stk[l] EXCEPT !.unprotected = TRUE]
<1>1. l \in DOMAIN stk /\ stk[l] \in Block
  BY StackDomain
<1>2. b \in Block
  BY <1>1 DEF Block
<1>3. Quiet(stk) = [stk EXCEPT ![l] = b]
  BY DEF Quiet
<1> HIDE DEF b
<1> QED
  BY <1>1, <1>2, <1>3, ReplaceBlock

\* Emitting cleanup calls at the top of a stack only makes landing pads.
LEMMA AfterEmittingType ==
  ASSUME NEW stk \in Seq(Block), stk # <<>>, NEW frag
  PROVE  /\ AfterEmitting(stk, frag) \in Seq(Block)
         /\ SameBlocks(stk, AfterEmitting(stk, frag))
         /\ SameProtection(stk, AfterEmitting(stk, frag))
<1>1. LandingPadLevel(Quiet(stk)) \in 0 .. Len(stk)
  BY QuietType, LandingPadLevelType
<1>2. CASE MayThrow(frag)
  BY <1>1, <1>2, RequestedType DEF AfterEmitting
<1>3. CASE ~MayThrow(frag)
  BY <1>3 DEF AfterEmitting, SameBlocks, SameProtection
<1> QED
  BY <1>2, <1>3

-----------------------------------------------------------------------------
(* Fixups                                                                  *)

LEMMA UnwindTargetType ==
  ASSUME NEW stk \in Seq(Block), stk # <<>>
  PROVE  UnwindTarget(stk) \in Nat
<1> DEFINE l == LandingPadLevel(Quiet(stk))
<1>1. l \in 0 .. Len(stk)
  BY QuietType, LandingPadLevelType
<1> HIDE DEF l
<1>2. ASSUME l # 0 PROVE stk[l].id \in Nat
  <2>1. l \in 1 .. Len(stk)
    BY <1>1, <1>2, StackDomain
  <2>2. stk[l] \in Block
    BY <2>1, StackDomain
  <2> QED
    BY <2>2 DEF Block
<1> QED
  BY <1>2 DEF UnwindTarget, l

LEMMA IfType ==
  ASSUME NEW present, NEW op \in Ops
  PROVE  If(present, op) \in Seq(Ops)
<1>1. <<op>> \in Seq(Ops) /\ <<>> \in Seq(Ops)
  OBVIOUS
<1> QED
  BY <1>1 DEF If

LEMMA CleanupType ==
  ASSUME NEW stk \in Seq(Block), stk # <<>>, NEW b \in Block
  PROVE  Cleanup(stk, b) \in Segment /\ Cleanup(stk, b).blk = b.id
<1>1. UnwindTarget(stk) \in Nat
  BY UnwindTargetType
<1>2. /\ If(b.life, "lifetime_end") \in Seq(Ops)
      /\ If(b.finally, "finally") \in Seq(Ops)
      /\ If(b.atEnd, "at_end") \in Seq(Ops)
  <2>1. "lifetime_end" \in Ops /\ "finally" \in Ops /\ "at_end" \in Ops
    BY DEF Ops
  <2> QED
    BY <2>1, IfType
<1>3. If(b.life, "lifetime_end") \o If(b.finally, "finally")
        \o If(b.atEnd, "at_end") \in Seq(Ops)
  BY <1>2, ConcatProperties
<1>4. b.id \in Nat
  BY DEF Block
<1> QED
  BY <1>1, <1>3, <1>4 DEF Cleanup, Segment

LEMMA CallAtEndType ==
  ASSUME NEW stk \in Seq(Block), stk # <<>>, NEW b \in Block
  PROVE  CallAtEnd(stk, b) \in Segment
<1> DEFINE c == [b EXCEPT !.life = FALSE]
<1>1. c \in Block
  BY DEF Block
<1> HIDE DEF c
<1>2. Cleanup(stk, c) \in Segment
  BY <1>1, CleanupType
<1> QED
  BY <1>2 DEF CallAtEnd, c

\* The fixups from one level to an outer one: a segment for each block left.
LEMMA FixupsType ==
  ASSUME NEW stk \in Seq(Block), stk # <<>>,
         NEW from \in 0 .. Len(stk), NEW to \in 0 .. from
  PROVE  LET f == Fixups(stk, from, to)
         IN  /\ f \in Fragment
             /\ DOMAIN f.segs = 1 .. (from - to)
             /\ \A i \in 1 .. (from - to) : f.segs[i].blk = stk[from + 1 - i].id
<1> DEFINE f == Fixups(stk, from, to)
           seg(i) == LET j == from + 1 - i
                     IN  IF Runs(stk, j, from) THEN Cleanup(stk, stk[j])
                                               ELSE Skip(stk[j])
           saved == {j \in (to + 1) .. from : Runs(stk, j, from) /\ stk[j].stackSave}
<1>1. ASSUME NEW i \in 1 .. (from - to)
      PROVE  seg(i) \in Segment /\ seg(i).blk = stk[from + 1 - i].id
  <2> DEFINE j == from + 1 - i
  <2>1. j \in 1 .. Len(stk)
    OBVIOUS
  <2>2. stk[j] \in Block
    BY <2>1, StackDomain
  <2> HIDE DEF j
  <2>3. Cleanup(stk, stk[j]) \in Segment /\ Cleanup(stk, stk[j]).blk = stk[j].id
    BY <2>2, CleanupType
  <2>4. Skip(stk[j]) \in Segment /\ Skip(stk[j]).blk = stk[j].id
    BY <2>2 DEF Skip, Segment, Block
  <2>5. seg(i) = IF Runs(stk, j, from) THEN Cleanup(stk, stk[j]) ELSE Skip(stk[j])
    BY DEF j
  <2> QED
    BY <2>3, <2>4, <2>5 DEF j
<1>2. f.segs = [i \in 1 .. (from - to) |-> seg(i)]
  BY DEF Fixups
<1> HIDE DEF seg
<1>3. f.segs \in Seq(Segment)
  <2>1. from - to \in Nat
    OBVIOUS
  <2> QED
    BY <1>1, <1>2, <2>1, IsASeq
<1>4. f.restore \in Nat
  <2>1. f.restore = IF to = 0 \/ saved = {} THEN 0 ELSE stk[Outermost(saved)].id
    BY DEF Fixups
  <2>2. saved \subseteq 1 .. Len(stk) /\ Len(stk) \in Nat
    BY StackDomain
  <2> HIDE DEF saved
  <2>3. saved # {} => Outermost(saved) \in 1 .. Len(stk)
    BY <2>2, OutermostIn
  <2>4. saved # {} => stk[Outermost(saved)].id \in Nat
    BY <2>3, StackDomain DEF Block
  <2> QED
    BY <2>1, <2>4
<1>5. f \in Fragment
  <2>1. f = [segs |-> f.segs, restore |-> f.restore]
    BY DEF Fixups
  <2> QED
    BY <1>3, <1>4, <2>1 DEF Fragment
<1> HIDE DEF f
<1>6. /\ DOMAIN f.segs = 1 .. (from - to)
      /\ \A i \in 1 .. (from - to) : f.segs[i].blk = stk[from + 1 - i].id
  BY <1>1, <1>2
<1> QED
  BY <1>5, <1>6 DEF f

-----------------------------------------------------------------------------
(* Type correctness                                                        *)

LEMMA LevelsGrow ==
  ASSUME NEW m \in Nat, NEW n \in Nat, m <= n
  PROVE  /\ LabelData(m) \subseteq LabelData(n)
         /\ OpenBranch(m) \subseteq OpenBranch(n)
         /\ ExitPoint(m) \subseteq ExitPoint(n)
<1>1. Unknown .. m \subseteq Unknown .. n /\ 0 .. m \subseteq 0 .. n
  BY DEF Unknown
<1> QED
  BY <1>1 DEF LabelData, OpenBranch, ExitPoint

\* Opening blocks does not disturb the tables.
LEMMA TablesKept ==
  ASSUME TypeOK, Len(stack') \in Nat, Len(stack) <= Len(stack')
  PROVE  /\ labels \in [Labels -> LabelData(Len(stack'))]
         /\ open \in Seq(OpenBranch(Len(stack')))
         /\ exits \in Seq(ExitPoint(Len(stack')))
<1>1. Len(stack) \in Nat
  BY StackDomain DEF TypeOK
<1> DEFINE m == Len(stack)
           n == Len(stack')
<1> HIDE DEF m, n
<1>2. /\ LabelData(m) \subseteq LabelData(n)
      /\ OpenBranch(m) \subseteq OpenBranch(n)
      /\ ExitPoint(m) \subseteq ExitPoint(n)
  BY <1>1, LevelsGrow DEF m, n
<1>3. labels \in [Labels -> LabelData(n)]
  BY <1>2 DEF TypeOK, m
<1>4. open \in Seq(OpenBranch(n)) /\ exits \in Seq(ExitPoint(n))
  BY <1>2, SeqMonotonic DEF TypeOK, m
<1> QED
  BY <1>3, <1>4 DEF n

LEMMA LoopsMatchKept ==
  ASSUME LoopsMatch, stack \in Seq(Block), stack' \in Seq(Block),
         SameBlocks(stack, stack'), DOMAIN exits' = DOMAIN exits,
         \A i \in DOMAIN exits : exits'[i].depth = exits[i].depth
  PROVE  LoopsMatch'
<1>1. DOMAIN stack' = DOMAIN stack
  BY StackDomain DEF SameBlocks
<1>2. \A j \in DOMAIN stack : stack'[j].loop = stack[j].loop
  BY StackDomain DEF SameBlocks
<1> QED
  BY <1>1, <1>2 DEF LoopsMatch

\* Opening a block that is not a loop.
LEMMA PushType ==
  ASSUME TypeInv,
         NEW s \in Seq(Block), SameBlocks(stack, s),
         NEW b \in Block, ~b.loop,
         stack' = Append(s, b), nextId' = nextId + 1, dead' = FALSE, done' = <<>>,
         UNCHANGED <<labels, open, exits, gotos, out>>
  PROVE  TypeInv'
<1> USE DEF TypeInv
<1>1. stack \in Seq(Block) /\ Len(s) = Len(stack) /\ Len(stack) \in Nat
  BY StackDomain DEF TypeOK, SameBlocks
<1>2. /\ stack' \in Seq(Block)
      /\ Len(stack') = Len(stack) + 1
      /\ \A j \in 1 .. Len(stack) : stack'[j] = s[j]
      /\ stack'[Len(stack) + 1] = b
  BY <1>1, AppendProperties
<1>3. /\ labels' \in [Labels -> LabelData(Len(stack'))]
      /\ open' \in Seq(OpenBranch(Len(stack')))
      /\ exits' \in Seq(ExitPoint(Len(stack')))
  BY <1>1, <1>2, TablesKept
<1>4. TypeOK'
  <2>1. dead' \in BOOLEAN
    OBVIOUS
  <2>3. done' \in Seq(Transfer)
    BY EmptySeq
  <2>2. nextId' \in Nat /\ gotos' \in Seq(Goto) /\ out' \in SUBSET Dispatcher
    BY DEF TypeOK
  <2> QED
    BY <1>2, <1>3, <2>1, <2>2, <2>3 DEF TypeOK
<1>5. LoopsMatch'
  <2>1. DOMAIN stack = 1 .. Len(stack) /\ DOMAIN stack' = 1 .. (Len(stack) + 1)
    BY <1>1, <1>2, StackDomain
  <2>2. \A j \in 1 .. Len(stack) : stack'[j].loop = stack[j].loop
    BY <1>2 DEF SameBlocks
  <2>3. \A i \in DOMAIN exits' :
          /\ exits'[i].depth + 1 \in DOMAIN stack'
          /\ stack'[exits'[i].depth + 1].loop
    BY <1>1, <2>1, <2>2 DEF LoopsMatch
  <2>4. \A k \in DOMAIN stack' :
          stack'[k].loop => \E i \in DOMAIN exits' : exits'[i].depth + 1 = k
    <3> SUFFICES ASSUME NEW k \in DOMAIN stack', stack'[k].loop
                 PROVE  \E i \in DOMAIN exits' : exits'[i].depth + 1 = k
      OBVIOUS
    <3>1. k # Len(stack) + 1
      BY <1>2
    <3>2. k \in DOMAIN stack /\ stack[k].loop
      BY <1>1, <2>1, <2>2, <3>1
    <3> QED
      BY <3>2 DEF LoopsMatch
  <2> QED
    BY <2>3, <2>4 DEF LoopsMatch
<1> QED
  BY <1>4, <1>5

\* Steps that open and close no block.
LEMMA StayType ==
  ASSUME TypeInv, stack' \in Seq(Block), SameBlocks(stack, stack'),
         labels' \in [Labels -> LabelData(Len(stack))],
         open' \in Seq(OpenBranch(Len(stack))),
         exits' \in Seq(ExitPoint(Len(stack))),
         DOMAIN exits' = DOMAIN exits,
         \A i \in DOMAIN exits : exits'[i].depth = exits[i].depth,
         dead' \in BOOLEAN, nextId' = nextId,
         done' \in Seq(Transfer), gotos' \in Seq(Goto), out' = out
  PROVE  TypeInv'
<1>1. stack \in Seq(Block) /\ LoopsMatch
  BY DEF TypeInv, TypeOK
<1>2. Len(stack') = Len(stack)
  BY DEF SameBlocks
<1>3. TypeOK'
  BY <1>2 DEF TypeOK, TypeInv
<1>4. LoopsMatch'
  BY <1>1, LoopsMatchKept
<1> QED
  BY <1>3, <1>4 DEF TypeInv

\* StayType for the steps that leave the tables of jumps alone too.
LEMMA RequestType ==
  ASSUME TypeInv, stack' \in Seq(Block), SameBlocks(stack, stack'),
         UNCHANGED <<labels, open, exits, nextId, gotos, out>>,
         dead' \in BOOLEAN, done' \in Seq(Transfer)
  PROVE  TypeInv'
BY StayType DEF TypeInv, TypeOK

LEMMA TransferType ==
  ASSUME TypeInv, stack # <<>>, NEW kind \in {"fall", "goto", "exit", "return"},
         NEW to \in Nat, NEW frag \in Fragment, Compiled(kind, to, frag)
  PROVE  done' \in Seq(Transfer)
<1>1. [kind |-> kind, scope |-> stack, to |-> to, frag |-> frag] \in Transfer
  BY DEF Transfer, TypeInv, TypeOK
<1> QED
  BY <1>1 DEF Compiled

LEMMA TypeInit == Init => TypeInv
<1> SUFFICES ASSUME Init PROVE TypeInv
  OBVIOUS
<1>1. NoFragment \in Fragment
  BY DEF NoFragment, Fragment
<1>2. stack \in Seq(Block) /\ Len(stack) = 0
  BY DEF Init
<1>3. labels \in [Labels -> LabelData(0)]
  BY <1>1 DEF Init, NoLabel, LabelData, Unknown
<1>4. /\ open \in Seq(OpenBranch(0)) /\ exits \in Seq(ExitPoint(0))
      /\ done \in Seq(Transfer) /\ gotos \in Seq(Goto)
  BY DEF Init
<1>5. dead \in BOOLEAN /\ nextId \in Nat /\ out \in SUBSET Dispatcher
  BY DEF Init
<1>6. TypeOK
  BY <1>2, <1>3, <1>4, <1>5 DEF TypeOK
<1>7. LoopsMatch
  BY DEF Init, LoopsMatch
<1> QED
  BY <1>6, <1>7 DEF TypeInv

LEMMA ResetType == TypeInv /\ ResetBlockTables => TypeInv'
<1> SUFFICES ASSUME TypeInv, ResetBlockTables PROVE TypeInv'
  OBVIOUS
<1>1. NoFragment \in Fragment
  BY DEF NoFragment, Fragment
<1>2. stack' \in Seq(Block) /\ Len(stack') = 0 /\ Len(stack) = 0
  BY DEF ResetBlockTables
<1>3. labels' \in [Labels -> LabelData(0)]
  BY <1>1 DEF ResetBlockTables, NoLabel, LabelData, Unknown
<1>4. /\ open' \in Seq(OpenBranch(0)) /\ done' \in Seq(Transfer)
      /\ gotos' \in Seq(Goto)
  BY DEF ResetBlockTables
<1>5. dead' \in BOOLEAN /\ nextId' \in Nat /\ out' \in SUBSET Dispatcher
  BY DEF ResetBlockTables
<1>6. exits' \in Seq(ExitPoint(0))
  BY <1>2 DEF ResetBlockTables, TypeInv, TypeOK
<1>7. TypeOK'
  BY <1>2, <1>3, <1>4, <1>5, <1>6 DEF TypeOK
<1>8. LoopsMatch'
  BY DEF ResetBlockTables, LoopsMatch, TypeInv
<1> QED
  BY <1>7, <1>8 DEF TypeInv

\* The block that PushBody and PushBlock push.
LEMMA PushedBlock ==
  ASSUME TypeInv, PushBody \/ PushBlock
  PROVE  \E b \in Block : ~b.loop /\ ~b.unprotected /\ Pushed(b)
<1> DEFINE new == NewBlock(nextId)
<1>1. new \in Block /\ ~new.loop /\ ~new.unprotected
  BY NewBlockType DEF TypeInv, TypeOK, NewBlock
<1>2. /\ [new EXCEPT !.atEnd = TRUE] \in Block
      /\ [new EXCEPT !.finally = TRUE] \in Block
      /\ [new EXCEPT !.catchUnhandled = TRUE] \in Block
  BY <1>1 DEF Block
<1>3. \A E \in SUBSET Exceptions \ {{}} : [new EXCEPT !.eh = E] \in Block
  BY <1>1 DEF Block
<1>4. \/ Pushed(new)
      \/ Pushed([new EXCEPT !.atEnd = TRUE])
      \/ Pushed([new EXCEPT !.finally = TRUE])
      \/ Pushed([new EXCEPT !.catchUnhandled = TRUE])
      \/ \E E \in SUBSET Exceptions \ {{}} : Pushed([new EXCEPT !.eh = E])
  BY DEF PushBody, PushBlock
<1> QED
  BY <1>1, <1>2, <1>3, <1>4 DEF NewBlock

LEMMA PushBodyBlockType == TypeInv /\ (PushBody \/ PushBlock) => TypeInv'
<1> SUFFICES ASSUME TypeInv, PushBody \/ PushBlock PROVE TypeInv'
  OBVIOUS
<1>1. PICK b \in Block : ~b.loop /\ Pushed(b)
  BY PushedBlock
<1>2. UNCHANGED <<labels, open, exits, gotos, out>>
  BY DEF PushBody, PushBlock
<1>3. stack \in Seq(Block) /\ SameBlocks(stack, stack)
  BY DEF TypeInv, TypeOK, SameBlocks
<1> QED
  BY <1>1, <1>2, <1>3, PushType DEF Pushed

\* PushHandler pushes a block on a stack of the same blocks.
LEMMA PushedHandler ==
  ASSUME TypeInv, NEW e \in Exceptions, PushHandler(e)
  PROVE  \E s \in Seq(Block), b \in Block :
           /\ SameBlocks(stack, s) /\ ~b.loop /\ ~b.unprotected
           /\ stack' = Append(s, b)
<1> DEFINE d == Len(stack)
           t == [stack[d] EXCEPT !.todo = @ \ {e}]
           s == [stack EXCEPT ![d] = t]
           b == [NewBlock(nextId) EXCEPT !.atEnd = TRUE, !.handler = TRUE]
<1>1. nextId \in Nat /\ stack \in Seq(Block) /\ stack # <<>>
  BY DEF TypeInv, TypeOK, PushHandler
<1>2. d \in DOMAIN stack /\ stack[d] \in Block
  BY <1>1, StackDomain
<1>3. t \in Block /\ t.id = stack[d].id /\ t.loop = stack[d].loop
  BY <1>2 DEF Block
<1>4. s \in Seq(Block) /\ SameBlocks(stack, s)
  <2> HIDE DEF t, d
  <2>1. [stack EXCEPT ![d] = t] \in Seq(Block)
    BY <1>1, <1>2, <1>3, ReplaceBlock
  <2>2. SameBlocks(stack, [stack EXCEPT ![d] = t])
    BY <1>1, <1>2, <1>3, ReplaceKeepsBlocks
  <2> QED
    BY <2>1, <2>2
<1>5. b \in Block /\ ~b.loop /\ ~b.unprotected
  <2>1. NewBlock(nextId) \in Block
    BY <1>1, NewBlockType
  <2> QED
    BY <2>1 DEF Block, NewBlock
<1>6. stack' = Append(s, b)
  BY DEF PushHandler
<1> HIDE DEF s, b
<1> QED
  BY <1>4, <1>5, <1>6

LEMMA PushHandlerType ==
  ASSUME TypeInv, NEW e \in Exceptions, PushHandler(e)
  PROVE  TypeInv'
<1>1. PICK s \in Seq(Block), b \in Block :
        SameBlocks(stack, s) /\ ~b.loop /\ stack' = Append(s, b)
  BY PushedHandler
<1>2. /\ nextId' = nextId + 1 /\ dead' = FALSE /\ done' = <<>>
      /\ UNCHANGED <<labels, open, exits, gotos, out>>
  BY DEF PushHandler
<1> QED
  BY <1>1, <1>2, PushType

LEMMA PushLoopType == TypeInv /\ PushLoop => TypeInv'
<1> SUFFICES ASSUME TypeInv, PushLoop PROVE TypeInv'
  OBVIOUS
<1> DEFINE n == Len(stack)
           b == [NewBlock(nextId) EXCEPT !.loop = TRUE]
           x == [depth |-> n, from |-> Unknown, fixup |-> NoFragment]
<1>1. /\ nextId \in Nat /\ stack \in Seq(Block) /\ n \in Nat
      /\ DOMAIN stack = 1 .. n /\ exits \in Seq(ExitPoint(n))
  BY StackDomain DEF TypeInv, TypeOK
<1>2. b \in Block /\ b.loop
  <2>1. NewBlock(nextId) \in Block
    BY <1>1, NewBlockType
  <2> QED
    BY <2>1 DEF Block
<1>3. stack' = Append(stack, b) /\ exits' = Append(exits, x)
  BY DEF PushLoop, Pushed
<1>4. /\ nextId' = nextId + 1 /\ dead' = FALSE /\ done' = <<>>
      /\ UNCHANGED <<labels, open, gotos, out>>
  BY DEF PushLoop, Pushed
<1> HIDE DEF n, b
<1>5. /\ stack' \in Seq(Block) /\ Len(stack') = n + 1 /\ DOMAIN stack' = 1 .. (n + 1)
      /\ \A j \in 1 .. n : stack'[j] = stack[j]
      /\ stack'[n + 1] = b
  BY <1>1, <1>2, <1>3, AppendProperties, StackDomain DEF n
<1>6. x \in ExitPoint(n + 1)
  <2>1. NoFragment \in Fragment
    BY DEF NoFragment, Fragment
  <2> QED
    BY <1>1, <2>1 DEF ExitPoint, Unknown
<1>7. /\ labels' \in [Labels -> LabelData(n + 1)]
      /\ open' \in Seq(OpenBranch(n + 1))
      /\ exits \in Seq(ExitPoint(n + 1))
  BY <1>1, <1>4, <1>5, TablesKept DEF n, TypeInv
<1>8. /\ exits' \in Seq(ExitPoint(n + 1)) /\ Len(exits) \in Nat
      /\ DOMAIN exits = 1 .. Len(exits)
      /\ DOMAIN exits' = 1 .. (Len(exits) + 1)
      /\ \A i \in 1 .. Len(exits) : exits'[i] = exits[i]
      /\ exits'[Len(exits) + 1].depth = n
  <2> HIDE DEF x
  <2>1. /\ exits' \in Seq(ExitPoint(n + 1)) /\ Len(exits') = Len(exits) + 1
        /\ \A i \in 1 .. Len(exits) : exits'[i] = exits[i]
        /\ exits'[Len(exits) + 1] = x
    BY <1>3, <1>6, <1>7, AppendProperties
  <2>2. /\ Len(exits) \in Nat /\ DOMAIN exits = 1 .. Len(exits)
        /\ DOMAIN exits' = 1 .. Len(exits')
    BY <1>7, <2>1, LenProperties
  <2> QED
    BY <2>1, <2>2 DEF x
<1>9. TypeOK'
  <2>1. dead' \in BOOLEAN
    BY <1>4
  <2>2. done' \in Seq(Transfer)
    BY <1>4, EmptySeq
  <2>3. nextId' \in Nat /\ gotos' \in Seq(Goto) /\ out' \in SUBSET Dispatcher
    BY <1>1, <1>4 DEF TypeInv, TypeOK
  <2> QED
    BY <1>5, <1>7, <1>8, <2>1, <2>2, <2>3 DEF TypeOK
<1>10. LoopsMatch'
  <2>1. \A i \in DOMAIN exits : exits[i].depth \in 0 .. (n - 1)
    <3> SUFFICES ASSUME NEW i \in DOMAIN exits PROVE exits[i].depth \in 0 .. (n - 1)
      OBVIOUS
    <3>1. exits[i] \in ExitPoint(n)
      BY <1>1, <1>8, ElementOfSeq
    <3>2. exits[i].depth + 1 \in 1 .. n
      BY <1>1 DEF TypeInv, LoopsMatch
    <3> QED
      BY <1>1, <3>1, <3>2 DEF ExitPoint
  <2>2. \A i \in DOMAIN exits' : /\ exits'[i].depth + 1 \in DOMAIN stack'
                                 /\ stack'[exits'[i].depth + 1].loop
    <3> SUFFICES ASSUME NEW i \in DOMAIN exits'
                 PROVE  /\ exits'[i].depth + 1 \in DOMAIN stack'
                        /\ stack'[exits'[i].depth + 1].loop
      OBVIOUS
    <3>1. CASE i = Len(exits) + 1
      BY <1>1, <1>2, <1>5, <1>8, <3>1
    <3>2. CASE i # Len(exits) + 1
      <4>1. i \in DOMAIN exits /\ exits'[i] = exits[i]
        BY <1>8, <3>2
      <4>2. exits[i].depth + 1 \in 1 .. n /\ stack[exits[i].depth + 1].loop
        BY <1>1, <4>1 DEF TypeInv, LoopsMatch
      <4> QED
        BY <1>1, <1>5, <4>1, <4>2
    <3> QED
      BY <3>1, <3>2
  <2>3. \A i, j \in DOMAIN exits' : i < j => exits'[i].depth < exits'[j].depth
    <3> SUFFICES ASSUME NEW i \in DOMAIN exits', NEW j \in DOMAIN exits', i < j
                 PROVE  exits'[i].depth < exits'[j].depth
      OBVIOUS
    <3>1. i \in DOMAIN exits /\ exits'[i] = exits[i]
      BY <1>8
    <3>2. CASE j = Len(exits) + 1
      BY <1>1, <1>8, <2>1, <3>1, <3>2
    <3>3. CASE j # Len(exits) + 1
      BY <1>8, <3>1, <3>3 DEF TypeInv, LoopsMatch
    <3> QED
      BY <3>2, <3>3
  <2>4. \A k \in DOMAIN stack' :
          stack'[k].loop => \E i \in DOMAIN exits' : exits'[i].depth + 1 = k
    <3> SUFFICES ASSUME NEW k \in DOMAIN stack', stack'[k].loop
                 PROVE  \E i \in DOMAIN exits' : exits'[i].depth + 1 = k
      OBVIOUS
    <3>1. CASE k = n + 1
      BY <1>8, <3>1
    <3>2. CASE k # n + 1
      <4>1. k \in DOMAIN stack /\ stack[k].loop
        BY <1>1, <1>5, <3>2
      <4>2. PICK i \in DOMAIN exits : exits[i].depth + 1 = k
        BY <4>1 DEF TypeInv, LoopsMatch
      <4> QED
        BY <1>8, <4>2
    <3> QED
      BY <3>1, <3>2
  <2> QED
    BY <2>2, <2>3, <2>4 DEF LoopsMatch
<1> QED
  BY <1>9, <1>10 DEF TypeInv

\* The top block of a stack, updated.
LEMMA TopType ==
  ASSUME NEW stk \in Seq(Block), stk # <<>>, NEW b \in Block,
         b.id = stk[Len(stk)].id, b.loop = stk[Len(stk)].loop
  PROVE  LET t == [stk EXCEPT ![Len(stk)] = b]
         IN  /\ t \in Seq(Block)
             /\ SameBlocks(stk, t)
             /\ b.unprotected = stk[Len(stk)].unprotected => SameProtection(stk, t)
<1> DEFINE d == Len(stk)
<1>1. d \in DOMAIN stk
  BY StackDomain
<1>2. b.id = stk[d].id /\ b.loop = stk[d].loop
  OBVIOUS
<1> HIDE DEF d
<1>3. [stk EXCEPT ![d] = b] \in Seq(Block)
  BY <1>1, ReplaceBlock
<1>4. /\ SameBlocks(stk, [stk EXCEPT ![d] = b])
      /\ b.unprotected = stk[d].unprotected => SameProtection(stk, [stk EXCEPT ![d] = b])
  BY <1>1, <1>2, ReplaceKeepsBlocks
<1> QED
  BY <1>3, <1>4 DEF d

\* The stack after the steps that allocate, and those that make a call.
LEMMA SaveStack ==
  ASSUME TypeInv, SaveStackPointer
  PROVE  stack' \in Seq(Block) /\ SameBlocks(stack, stack') /\ SameProtection(stack, stack')
<1> DEFINE b == [stack[Len(stack)] EXCEPT !.stackSave = TRUE]
<1>1. stack \in Seq(Block) /\ stack # <<>>
  BY DEF TypeInv, TypeOK, SaveStackPointer, Statement
<1>2. stack[Len(stack)] \in Block
  BY <1>1, StackDomain
<1>3. /\ b \in Block
      /\ b.id = stack[Len(stack)].id /\ b.loop = stack[Len(stack)].loop
      /\ b.unprotected = stack[Len(stack)].unprotected
  BY <1>2 DEF Block
<1>4. stack' = [stack EXCEPT ![Len(stack)] = b]
  BY DEF SaveStackPointer
<1> HIDE DEF b
<1> QED
  BY <1>1, <1>3, <1>4, TopType

LEMMA LifetimeStack ==
  ASSUME TypeInv, AddLifetimeEntry
  PROVE  stack' \in Seq(Block) /\ SameBlocks(stack, stack') /\ SameProtection(stack, stack')
<1> DEFINE b == [stack[Len(stack)] EXCEPT !.life = TRUE]
<1>1. stack \in Seq(Block) /\ stack # <<>>
  BY DEF TypeInv, TypeOK, AddLifetimeEntry, Statement
<1>2. stack[Len(stack)] \in Block
  BY <1>1, StackDomain
<1>3. /\ b \in Block
      /\ b.id = stack[Len(stack)].id /\ b.loop = stack[Len(stack)].loop
      /\ b.unprotected = stack[Len(stack)].unprotected
  BY <1>2 DEF Block
<1>4. stack' = [stack EXCEPT ![Len(stack)] = b]
  BY DEF AddLifetimeEntry
<1> HIDE DEF b
<1> QED
  BY <1>1, <1>3, <1>4, TopType

LEMMA CallStack ==
  ASSUME TypeInv
  PROVE  LET t == Requested(stack, LandingPadLevel(stack))
         IN  t \in Seq(Block) /\ SameBlocks(stack, t) /\ SameProtection(stack, t)
BY LandingPadLevelType, RequestedType DEF TypeInv, TypeOK

LEMMA SaveType == TypeInv /\ SaveStackPointer => TypeInv'
<1> SUFFICES ASSUME TypeInv, SaveStackPointer PROVE TypeInv'
  OBVIOUS
<1>1. dead' \in BOOLEAN /\ done' = <<>>
      /\ UNCHANGED <<labels, open, exits, nextId, gotos, out>>
  BY DEF SaveStackPointer
<1> QED
  BY <1>1, EmptySeq, SaveStack, RequestType

LEMMA LifetimeType == TypeInv /\ AddLifetimeEntry => TypeInv'
<1> SUFFICES ASSUME TypeInv, AddLifetimeEntry PROVE TypeInv'
  OBVIOUS
<1>1. dead' \in BOOLEAN /\ done' = <<>>
      /\ UNCHANGED <<labels, open, exits, nextId, gotos, out>>
  BY DEF AddLifetimeEntry
<1> QED
  BY <1>1, EmptySeq, LifetimeStack, RequestType

LEMMA CallType ==
  ASSUME TypeInv, NEW returns \in BOOLEAN, CallMayThrow(returns)
  PROVE  TypeInv'
<1>1. dead' \in BOOLEAN /\ done' = <<>>
      /\ UNCHANGED <<labels, open, exits, nextId, gotos, out>>
      /\ stack' = Requested(stack, LandingPadLevel(stack))
  BY DEF CallMayThrow
<1> QED
  BY <1>1, EmptySeq, CallStack, RequestType

LEMMA ReraiseType == TypeInv /\ Reraise => TypeInv'
<1> SUFFICES ASSUME TypeInv, Reraise PROVE TypeInv'
  OBVIOUS
<1>1. dead' \in BOOLEAN /\ done' = <<>>
      /\ UNCHANGED <<labels, open, exits, nextId, gotos, out>>
      /\ stack' = Requested(stack, LandingPadLevel(stack))
  BY DEF Reraise
<1> QED
  BY <1>1, EmptySeq, CallStack, RequestType

LEMMA ReturnType == TypeInv /\ Return => TypeInv'
<1> SUFFICES ASSUME TypeInv, Return PROVE TypeInv'
  OBVIOUS
<1> DEFINE frag == Fixups(stack, Len(stack), 0)
<1>1. stack \in Seq(Block) /\ stack # <<>> /\ Len(stack) \in Nat
  BY StackDomain DEF TypeInv, TypeOK, Return, Statement
<1>2. frag \in Fragment
  BY <1>1, FixupsType
<1>3. /\ stack' = AfterEmitting(stack, frag) /\ Compiled("return", 0, frag)
      /\ dead' \in BOOLEAN /\ UNCHANGED <<labels, open, exits, nextId, gotos, out>>
  BY DEF Return
<1> HIDE DEF frag
<1>4. stack' \in Seq(Block) /\ SameBlocks(stack, stack')
  BY <1>1, <1>3, AfterEmittingType
<1>5. done' \in Seq(Transfer)
  BY <1>1, <1>2, <1>3, TransferType
<1> QED
  BY <1>3, <1>4, <1>5, RequestType

LEMMA SameBlocksReflexive ==
  ASSUME NEW stk
  PROVE  SameBlocks(stk, stk) /\ SameProtection(stk, stk)
BY DEF SameBlocks, SameProtection

LEMMA GotoKnownType ==
  ASSUME TypeInv, NEW l \in Labels, NEW cond \in BOOLEAN, GotoKnown(l, cond)
  PROVE  TypeInv'
<1> DEFINE n == Len(stack)
           to == labels[l].depth
           new == Fixups(stack, n, to)
           frag == IF Cached(labels[l]) THEN labels[l].fixup ELSE new
<1>1. stack \in Seq(Block) /\ stack # <<>> /\ n \in Nat /\ DOMAIN stack = 1 .. n
  BY StackDomain DEF TypeInv, TypeOK, GotoKnown, Statement
<1>2. to \in 0 .. n /\ to \in Nat
  BY <1>1 DEF GotoKnown, Visible
<1>3. new \in Fragment
  BY <1>1, <1>2, FixupsType
<1>4. labels[l] \in LabelData(n) /\ labels \in [Labels -> LabelData(n)]
  BY DEF TypeInv, TypeOK
<1>5. frag \in Fragment
  <2> HIDE DEF new, n
  <2> QED
    BY <1>3, <1>4 DEF LabelData
<1>6. /\ labels' = [labels EXCEPT ![l].from = n, ![l].fixup = frag]
      /\ stack' = IF Cached(labels[l]) THEN stack ELSE AfterEmitting(stack, frag)
      /\ Compiled("goto", to, frag)
      /\ dead' \in BOOLEAN /\ UNCHANGED <<open, exits, nextId, gotos, out>>
  BY DEF GotoKnown
<1> HIDE DEF frag, new
<1>7. stack' \in Seq(Block) /\ SameBlocks(stack, stack')
  BY <1>1, <1>6, AfterEmittingType, SameBlocksReflexive
<1>8. labels' \in [Labels -> LabelData(n)]
  <2> DEFINE r == [labels[l] EXCEPT !.from = n, !.fixup = frag]
  <2> HIDE DEF n
  <2>1. n \in Unknown .. n
    BY <1>1 DEF Unknown, n
  <2>2. r \in LabelData(n)
    BY <1>4, <1>5, <2>1 DEF LabelData
  <2>3. labels' = [labels EXCEPT ![l] = r]
    BY <1>4, <1>6
  <2> HIDE DEF r
  <2> QED
    BY <1>4, <2>2, <2>3
<1>9. done' \in Seq(Transfer)
  BY <1>1, <1>2, <1>5, <1>6, TransferType
<1>10. /\ open' \in Seq(OpenBranch(n)) /\ exits' \in Seq(ExitPoint(n))
       /\ gotos' \in Seq(Goto)
  BY <1>6 DEF TypeInv, TypeOK
<1> HIDE DEF to
<1> QED
  BY <1>6, <1>7, <1>8, <1>9, <1>10, StayType

LEMMA ExitType ==
  ASSUME TypeInv, NEW i \in DOMAIN exits, NEW cond \in BOOLEAN, Exit(i, cond)
  PROVE  TypeInv'
<1> DEFINE n == Len(stack)
           to == exits[i].depth
           new == Fixups(stack, n, to)
           frag == IF Cached(exits[i]) THEN exits[i].fixup ELSE new
           x == [exits[i] EXCEPT !.from = n, !.fixup = frag]
<1>1. stack \in Seq(Block) /\ stack # <<>> /\ n \in Nat /\ exits \in Seq(ExitPoint(n))
  BY StackDomain DEF TypeInv, TypeOK, Exit, Statement
<1>2. exits[i] \in ExitPoint(n)
  <2>1. i \in 1 .. Len(exits)
    BY <1>1, LenProperties
  <2> QED
    BY <1>1, <2>1, ElementOfSeq
<1>3. to \in 0 .. n /\ to \in Nat
  BY <1>1, <1>2 DEF ExitPoint
<1>4. new \in Fragment
  <2>1. stack \in Seq(Block) /\ stack # <<>> /\ n \in 0 .. Len(stack)
    BY <1>1
  <2> HIDE DEF to, n
  <2> QED
    BY <1>3, <2>1, FixupsType
<1>5. frag \in Fragment
  <2> HIDE DEF new, n
  <2> QED
    BY <1>2, <1>4 DEF ExitPoint
<1>6. /\ exits' = [exits EXCEPT ![i].from = n, ![i].fixup = frag]
      /\ stack' = IF Cached(exits[i]) THEN stack ELSE AfterEmitting(stack, frag)
      /\ Compiled("exit", to, frag)
      /\ dead' \in BOOLEAN /\ UNCHANGED <<labels, open, nextId, gotos, out>>
  BY DEF Exit
<1> HIDE DEF frag, new
<1>7. stack' \in Seq(Block) /\ SameBlocks(stack, stack')
  BY <1>1, <1>6, AfterEmittingType, SameBlocksReflexive
<1>8. x \in ExitPoint(n) /\ x.depth = exits[i].depth
  <2> HIDE DEF n
  <2>1. n \in Unknown .. n
    BY <1>1 DEF Unknown, n
  <2> QED
    BY <1>2, <1>5, <2>1 DEF ExitPoint
<1>9. exits' = [exits EXCEPT ![i] = x]
  BY <1>6
<1> HIDE DEF x
<1>10. /\ exits' \in Seq(ExitPoint(n)) /\ DOMAIN exits' = DOMAIN exits
       /\ \A k \in DOMAIN exits : exits'[k].depth = exits[k].depth
  <2>1. i \in 1 .. Len(exits) /\ DOMAIN exits = 1 .. Len(exits)
    BY <1>1, LenProperties
  <2>2. exits' \in Seq(ExitPoint(n))
    BY <1>1, <1>8, <1>9, <2>1, ExceptSeq
  <2> QED
    BY <1>8, <1>9, <2>2
<1>11. done' \in Seq(Transfer)
  BY <1>1, <1>3, <1>5, <1>6, TransferType
<1>12. /\ labels' \in [Labels -> LabelData(n)] /\ open' \in Seq(OpenBranch(n))
       /\ gotos' \in Seq(Goto)
  BY <1>6 DEF TypeInv, TypeOK
<1> HIDE DEF to
<1> QED
  BY <1>6, <1>7, <1>10, <1>11, <1>12, StayType

LEMMA DefineLabelType ==
  ASSUME TypeInv, NEW l \in Labels, DefineLabel(l)
  PROVE  TypeInv'
<1> DEFINE n == Len(stack)
<1>1. /\ stack \in Seq(Block) /\ stack # <<>> /\ n \in Nat
      /\ labels \in [Labels -> LabelData(n)] /\ open \in Seq(OpenBranch(n))
  BY StackDomain DEF TypeInv, TypeOK, DefineLabel, Statement
<1>2. Top.id \in Nat
  <2>1. Top \in Block
    BY <1>1, StackDomain DEF Top
  <2> QED
    BY <2>1 DEF Block
<1> HIDE DEF n
<1>3. labels' \in [Labels -> LabelData(n)]
  <2> DEFINE r == [labels[l] EXCEPT !.depth = n, !.owner = Top.id]
  <2>1. r \in LabelData(n)
    <3>1. labels[l] \in LabelData(n) /\ n \in Int
      BY <1>1
    <3> QED
      BY <1>2, <3>1 DEF LabelData
  <2>2. labels' = [labels EXCEPT ![l] = r]
    BY DEF DefineLabel, n
  <2> HIDE DEF r
  <2> QED
    BY <1>1, <2>1, <2>2
<1>4. open' \in Seq(OpenBranch(n))
  <2> DEFINE e(i) == IF open[i].label = l
                     THEN [open[i] EXCEPT !.from = Unknown, !.to = n]
                     ELSE open[i]
  <2>1. Len(open) \in Nat /\ DOMAIN open = 1 .. Len(open)
    BY <1>1, LenProperties
  <2>2. ASSUME NEW i \in 1 .. Len(open) PROVE e(i) \in OpenBranch(n)
    <3>1. open[i] \in OpenBranch(n)
      BY <1>1, ElementOfSeq
    <3>2. Unknown \in Unknown .. n /\ n \in Int
      BY <1>1 DEF Unknown
    <3>3. [open[i] EXCEPT !.from = Unknown, !.to = n] \in OpenBranch(n)
      BY <3>1, <3>2 DEF OpenBranch
    <3> QED
      BY <3>1, <3>3
  <2>3. open' = [i \in 1 .. Len(open) |-> e(i)]
    BY <2>1 DEF DefineLabel, n
  <2> HIDE DEF e
  <2> QED
    BY <2>1, <2>2, <2>3, IsASeq
<1>5. /\ dead' \in BOOLEAN /\ done' = <<>>
      /\ UNCHANGED <<stack, exits, nextId, gotos, out>>
  BY DEF DefineLabel
<1>6. SameBlocks(stack, stack') /\ stack' \in Seq(Block)
  BY <1>1, <1>5, SameBlocksReflexive
<1>7. exits' \in Seq(ExitPoint(n)) /\ gotos' \in Seq(Goto)
  BY <1>5 DEF TypeInv, TypeOK, n
<1> QED
  BY <1>3, <1>4, <1>5, <1>6, <1>7, EmptySeq, StayType DEF n

LEMMA GotoOpenType ==
  ASSUME TypeInv, NEW l \in Labels, NEW cond \in BOOLEAN, GotoOpen(l, cond)
  PROVE  TypeInv'
<1> DEFINE n == Len(stack)
           j == OpenEntry(l)
           made == IF Written(open[j]) THEN Len(open[j].code) ELSE open[j].made
           fresh == [label |-> l, code |-> <<>>, made |-> 0, from |-> n, to |-> Unknown]
<1>1. /\ stack \in Seq(Block) /\ stack # <<>> /\ n \in Nat
      /\ open \in Seq(OpenBranch(n)) /\ gotos \in Seq(Goto)
      /\ Len(open) \in Nat /\ DOMAIN open = 1 .. Len(open)
  BY StackDomain DEF TypeInv, TypeOK, GotoOpen, Statement
<1>2. j \in 0 .. Len(open)
  <2> DEFINE S == {i \in DOMAIN open : open[i].label = l /\ open[i].from = Len(stack)}
  <2>1. S \subseteq 1 .. Len(open)
    BY <1>1
  <2> HIDE DEF S
  <2>2. Innermost(S) \in 0 .. Len(open)
    BY <1>1, <2>1, InnermostIn
  <2> QED
    BY <2>2 DEF OpenEntry, S
<1>3. /\ dead' \in BOOLEAN /\ done' = <<>>
      /\ UNCHANGED <<stack, labels, exits, nextId, out>>
  BY DEF GotoOpen
<1>4. \/ /\ j # 0
         /\ open' = [open EXCEPT ![j].made = made]
         /\ gotos' = Append(gotos, [label |-> l, scope |-> stack,
                                    ob |-> j, off |-> made])
      \/ /\ open' = Append(open, fresh)
         /\ gotos' = Append(gotos, [label |-> l, scope |-> stack,
                                    ob |-> Len(open) + 1, off |-> 0])
  BY DEF GotoOpen
<1> HIDE DEF n, j
<1>5. open' \in Seq(OpenBranch(n)) /\ gotos' \in Seq(Goto)
  <2>1. CASE /\ j # 0
             /\ open' = [open EXCEPT ![j].made = made]
             /\ gotos' = Append(gotos, [label |-> l, scope |-> stack,
                                        ob |-> j, off |-> made])
    <3>1. j \in 1 .. Len(open) /\ j \in Nat
      BY <1>1, <1>2, <2>1
    <3>2. open[j] \in OpenBranch(n)
      BY <1>1, <3>1, ElementOfSeq
    <3>3. made \in Nat
      <4>1. open[j].code \in Seq(Fragment) /\ open[j].made \in Nat
        BY <3>2 DEF OpenBranch
      <4> QED
        BY <4>1
    <3> HIDE DEF made
    <3>4. [open[j] EXCEPT !.made = made] \in OpenBranch(n)
      BY <3>2, <3>3 DEF OpenBranch
    <3>5. open' = [open EXCEPT ![j] = [open[j] EXCEPT !.made = made]]
      BY <2>1
    <3>6. [label |-> l, scope |-> stack, ob |-> j, off |-> made] \in Goto
      BY <1>1, <3>1, <3>3 DEF Goto
    <3> QED
      BY <1>1, <2>1, <3>1, <3>4, <3>5, <3>6, ExceptSeq, AppendProperties
  <2>2. CASE /\ open' = Append(open, fresh)
             /\ gotos' = Append(gotos, [label |-> l, scope |-> stack,
                                        ob |-> Len(open) + 1, off |-> 0])
    <3>1. fresh \in OpenBranch(n)
      <4>1. n \in Unknown .. n /\ Unknown \in Int
        BY <1>1 DEF Unknown
      <4>2. <<>> \in Seq(Fragment)
        BY EmptySeq
      <4> QED
        BY <4>1, <4>2 DEF OpenBranch
    <3>2. [label |-> l, scope |-> stack, ob |-> Len(open) + 1, off |-> 0] \in Goto
      BY <1>1 DEF Goto
    <3> HIDE DEF fresh
    <3> QED
      BY <1>1, <2>2, <3>1, <3>2, AppendProperties
  <2> QED
    BY <1>4, <2>1, <2>2
<1>6. SameBlocks(stack, stack') /\ stack' \in Seq(Block)
  BY <1>1, <1>3, SameBlocksReflexive
<1>7. labels' \in [Labels -> LabelData(n)] /\ exits' \in Seq(ExitPoint(n))
  BY <1>3 DEF TypeInv, TypeOK, n
<1> QED
  BY <1>3, <1>5, <1>6, <1>7, EmptySeq, StayType DEF n

\* The stack after the start of a pop: the same blocks, the top one quiet.
LEMMA BeginPopStack ==
  ASSUME TypeInv, BeginPop
  PROVE  /\ stack' \in Seq(Block)
         /\ SameBlocks(stack, stack')
         /\ \A k \in 1 .. Len(stack) :
              stack'[k].unprotected = (k = Len(stack) \/ stack[k].unprotected)
<1> DEFINE d == Len(stack)
           b == [stack[d] EXCEPT !.unprotected = TRUE]
           quiet == [stack EXCEPT ![d].unprotected = TRUE]
           after == IF dead' THEN quiet
                    ELSE AfterEmitting(quiet, Fixups(quiet, d, d - 1))
           work == EHWork(Top)
           todo == IF EHWork(Top) THEN Top.eh ELSE {}
           c == [after[d] EXCEPT !.ehWork = work, !.todo = todo]
<1>1. /\ stack \in Seq(Block) /\ stack # <<>> /\ d \in Nat \ {0}
      /\ stack[d] \in Block
  BY StackDomain DEF TypeInv, TypeOK, BeginPop, Statement
<1>2. b \in Block /\ b.id = stack[d].id /\ b.loop = stack[d].loop /\ b.unprotected
  BY <1>1 DEF Block
<1>3. quiet = [stack EXCEPT ![d] = b]
  OBVIOUS
<1>4. /\ quiet \in Seq(Block) /\ quiet # <<>> /\ SameBlocks(stack, quiet)
      /\ Len(quiet) = d
      /\ \A k \in 1 .. d :
           quiet[k].unprotected = (k = d \/ stack[k].unprotected)
  <2> HIDE DEF quiet, b
  <2>1. quiet \in Seq(Block) /\ SameBlocks(stack, quiet)
    BY <1>1, <1>2, <1>3, TopType
  <2>2. Len(quiet) = d
    BY <2>1 DEF SameBlocks
  <2>3. \A k \in 1 .. d : quiet[k] = IF k = d THEN b ELSE stack[k]
    BY <1>1, <1>3, StackDomain
  <2>4. \A k \in 1 .. d : stack[k] \in Block
    BY <1>1, StackDomain
  <2>5. ASSUME NEW k \in 1 .. d
        PROVE  quiet[k].unprotected = (k = d \/ stack[k].unprotected)
    <3>1. CASE k = d
      BY <1>2, <2>3, <3>1
    <3>2. CASE k # d
      <4>1. quiet[k] = stack[k] /\ stack[k].unprotected \in BOOLEAN
        BY <2>3, <2>4, <3>2 DEF Block
      <4> QED
        BY <3>2, <4>1
    <3> QED
      BY <3>1, <3>2
  <2>6. quiet # <<>>
    BY <1>1, <2>1, <2>2, EmptySeq
  <2> QED
    BY <2>1, <2>2, <2>5, <2>6
<1> HIDE DEF quiet
<1>5. after \in Seq(Block) /\ SameBlocks(quiet, after) /\ SameProtection(quiet, after)
  BY <1>4, AfterEmittingType, SameBlocksReflexive
<1>6. after # <<>> /\ Len(after) = d /\ after[d] \in Block
  <2>1. Len(after) = d
    BY <1>4, <1>5 DEF SameBlocks
  <2>2. after # <<>>
    BY <1>1, <1>5, <2>1, EmptySeq
  <2> HIDE DEF after
  <2> QED
    BY <1>1, <1>5, <2>1, <2>2, StackDomain
<1>7. work \in BOOLEAN /\ todo \in SUBSET Exceptions
  BY <1>1 DEF Top, EHWork, Block
<1>8. stack' = [after EXCEPT ![d].ehWork = work, ![d].todo = todo]
  BY DEF BeginPop, quiet
<1> HIDE DEF after, work, todo, d
<1>9. /\ c \in Block /\ c.id = after[d].id /\ c.loop = after[d].loop
      /\ c.unprotected = after[d].unprotected
  BY <1>6, <1>7 DEF Block
<1>10. stack' = [after EXCEPT ![d] = c]
  <2>1. d \in DOMAIN after
    BY <1>1, <1>5, <1>6, StackDomain
  <2> QED
    BY <1>8, <2>1
<1> HIDE DEF c
<1>11. /\ stack' \in Seq(Block) /\ SameBlocks(after, stack')
       /\ SameProtection(after, stack')
  BY <1>5, <1>6, <1>9, <1>10, TopType
<1>12. SameBlocks(stack, stack') /\ SameProtection(quiet, stack')
  BY <1>4, <1>5, <1>11, SameBlocksTransitive
<1>13. \A k \in 1 .. d : stack'[k].unprotected = quiet[k].unprotected
  BY <1>4, <1>12 DEF SameProtection
<1> QED
  BY <1>4, <1>11, <1>12, <1>13 DEF d

LEMMA BeginPopType == TypeInv /\ BeginPop => TypeInv'
<1> SUFFICES ASSUME TypeInv, BeginPop PROVE TypeInv'
  OBVIOUS
<1> DEFINE d == Len(stack)
           b == [stack[d] EXCEPT !.unprotected = TRUE]
           quiet == [stack EXCEPT ![d].unprotected = TRUE]
           frag == Fixups(quiet, d, d - 1)
<1>1. /\ stack \in Seq(Block) /\ stack # <<>> /\ d \in Nat \ {0}
      /\ stack[d] \in Block /\ d \in DOMAIN stack
  BY StackDomain DEF TypeInv, TypeOK, BeginPop, Statement
<1>2. b \in Block
  BY <1>1 DEF Block
<1>3. quiet = [stack EXCEPT ![d] = b]
  OBVIOUS
<1>4. quiet \in Seq(Block) /\ quiet # <<>> /\ Len(quiet) = d
  <2> HIDE DEF quiet, b, d
  <2>1. quiet \in Seq(Block) /\ Len(quiet) = d
    BY <1>1, <1>2, <1>3, ReplaceBlock DEF d
  <2> QED
    BY <1>1, <2>1, EmptySeq
<1>5. d \in 0 .. d /\ d - 1 \in 0 .. d /\ d - 1 \in Nat
  BY <1>1
<1> HIDE DEF quiet
<1>6. frag \in Fragment
  <2> HIDE DEF d
  <2> QED
    BY <1>4, <1>5, FixupsType
<1>7. /\ done' = <<>> \/ Compiled("fall", d - 1, frag)
      /\ UNCHANGED <<labels, open, exits, nextId, gotos, out>>
  BY DEF BeginPop, quiet
<1> HIDE DEF frag
<1>8. done' \in Seq(Transfer)
  <2>1. CASE done' = <<>>
    BY <2>1, EmptySeq
  <2>2. CASE Compiled("fall", d - 1, frag)
    <3> DEFINE to == d - 1
    <3>1. to \in Nat /\ Compiled("fall", to, frag)
      BY <1>5, <2>2
    <3> HIDE DEF to
    <3> QED
      BY <1>1, <1>6, <3>1, TransferType
  <2> QED
    BY <1>7, <2>1, <2>2
<1>9. dead' \in BOOLEAN
  BY DEF BeginPop, DeadAtPop, TypeInv, TypeOK
<1> QED
  BY <1>7, <1>8, <1>9, BeginPopStack, RequestType

\* The outer dispatcher is that of an outer level.
LEMMA OuterDispatchType ==
  ASSUME NEW d \in Nat \ {0}
  PROVE  OuterDispatch(d) \in 0 .. (d - 1)
<1> DEFINE S == {j \in 1 .. (d - 1) :
                   (stack[j].atEnd \/ stack[j].eh # {}) /\ ~stack[j].unprotected}
           m == d - 1
<1>1. m \in Nat /\ S \subseteq 1 .. m
  OBVIOUS
<1> HIDE DEF S, m
<1>2. Innermost(S) \in 0 .. m
  BY <1>1, InnermostIn
<1> QED
  BY <1>2 DEF OuterDispatch, S, m

LEMMA DispatchedType ==
  ASSUME TypeInv, stack # <<>>
  PROVE  LET r == Dispatched(Len(stack))
         IN  /\ r \in Dispatcher
             /\ r.rest \in Fragment
<1> DEFINE d == Len(stack)
           j == OuterDispatch(d)
           rest == IF j = 0 THEN NoFragment ELSE Fixups(stack, d - 1, j)
           to == IF j = 0 THEN 0 ELSE stack[j].id
           self == CallAtEnd(stack, stack[d])
           cleanup == \E k \in 1 .. d : /\ HasCleanup(stack[k])
                                        /\ ~stack[k].unprotected \/ k = d
<1>1. /\ stack \in Seq(Block) /\ d \in Nat \ {0}
      /\ \A k \in 1 .. d : stack[k] \in Block
  BY StackDomain DEF TypeInv, TypeOK
<1>2. j \in 0 .. (d - 1)
  BY <1>1, OuterDispatchType
<1>3. self \in Segment
  BY <1>1, CallAtEndType
<1> HIDE DEF j, self
<1>4. rest \in Fragment
  <2>1. NoFragment \in Fragment
    BY DEF NoFragment, Fragment
  <2> DEFINE e == d - 1
  <2>2. e \in 0 .. Len(stack) /\ j \in 0 .. e
    BY <1>1, <1>2
  <2>3. rest = IF j = 0 THEN NoFragment ELSE Fixups(stack, e, j)
    OBVIOUS
  <2> HIDE DEF e, rest
  <2>4. Fixups(stack, e, j) \in Fragment
    BY <1>1, <2>2, FixupsType
  <2> QED
    BY <2>1, <2>3, <2>4
<1>5. to \in Nat
  <2>1. j # 0 => stack[j] \in Block
    BY <1>1, <1>2
  <2> QED
    BY <2>1 DEF Block
<1>6. Clauses(d) \in SUBSET Exceptions
  <2>1. \A k \in 1 .. d : stack[k].eh \in SUBSET Exceptions
    BY <1>1 DEF Block
  <2>2. d \in 1 .. d /\ \A k \in 1 .. (d - 1) : k \in 1 .. d
    BY <1>1
  <2> HIDE DEF d
  <2> QED
    BY <2>1, <2>2 DEF Clauses
<1>7. cleanup \in BOOLEAN
  OBVIOUS
<1>8. /\ stack[d].id \in Nat /\ stack[d].landingPad \in BOOLEAN
      /\ stack[d].catchUnhandled \in BOOLEAN
  <2>1. stack[d] \in Block
    BY <1>1
  <2> QED
    BY <2>1 DEF Block
<1>9. Dispatched(d) =
        [ id |-> stack[d].id, scope |-> stack, landingPad |-> stack[d].landingPad,
          clauses |-> Clauses(d), unhandled |-> stack[d].catchUnhandled,
          cleanup |-> cleanup, self |-> self, rest |-> rest, to |-> to ]
  BY DEF Dispatched, j, self
<1> HIDE DEF d, rest, to, cleanup
<1>10. Dispatched(d) \in Dispatcher /\ Dispatched(d).rest = rest
  BY <1>1, <1>3, <1>4, <1>5, <1>6, <1>7, <1>8, <1>9 DEF Dispatcher
<1> QED
  BY <1>4, <1>10 DEF d

LEMMA AfterHandlersType ==
  ASSUME TypeInv, stack # <<>>
  PROVE  LET t == AfterHandlers(Len(stack))
         IN  /\ t \in Seq(Block) /\ t # <<>>
             /\ SameBlocks(stack, t) /\ SameProtection(stack, t)
<1> DEFINE d == Len(stack)
           r == Dispatched(d)
           j == OuterDispatch(d)
           inner == AfterEmitting(stack, r.rest)
           calls == AfterEmitting(inner, [segs |-> <<r.self>>, restore |-> 0])
           b == [calls[j] EXCEPT !.dispatch = TRUE]
           t == IF ~stack[d].ehWork THEN stack
                ELSE IF j = 0 THEN calls
                ELSE [calls EXCEPT ![j].dispatch = TRUE]
<1>1. stack \in Seq(Block) /\ d \in Nat \ {0}
  BY StackDomain DEF TypeInv, TypeOK
<1>2. j \in 0 .. (d - 1)
  BY <1>1, OuterDispatchType
<1> HIDE DEF j, r
<1>3. /\ inner \in Seq(Block)
      /\ SameBlocks(stack, inner) /\ SameProtection(stack, inner)
  BY <1>1, AfterEmittingType
<1> HIDE DEF inner
<1>4. inner # <<>>
  BY <1>1, <1>3, EmptySeq DEF SameBlocks
<1>5. /\ calls \in Seq(Block)
      /\ SameBlocks(inner, calls) /\ SameProtection(inner, calls)
  BY <1>3, <1>4, AfterEmittingType
<1> HIDE DEF calls
<1>6. SameBlocks(stack, calls) /\ SameProtection(stack, calls)
  BY <1>3, <1>5, SameBlocksTransitive
<1>7. ASSUME j # 0
      PROVE  LET u == [calls EXCEPT ![j].dispatch = TRUE]
             IN  /\ u \in Seq(Block)
                 /\ SameBlocks(calls, u) /\ SameProtection(calls, u)
  <2>1. j \in DOMAIN calls /\ calls[j] \in Block
    BY <1>1, <1>2, <1>5, <1>6, <1>7, StackDomain DEF SameBlocks
  <2>2. /\ b \in Block /\ b.id = calls[j].id /\ b.loop = calls[j].loop
        /\ b.unprotected = calls[j].unprotected
    BY <2>1 DEF Block
  <2>3. [calls EXCEPT ![j].dispatch = TRUE] = [calls EXCEPT ![j] = b]
    BY <2>1
  <2> HIDE DEF b
  <2>4. [calls EXCEPT ![j] = b] \in Seq(Block)
    BY <1>5, <2>1, <2>2, ReplaceBlock
  <2>5. /\ SameBlocks(calls, [calls EXCEPT ![j] = b])
        /\ SameProtection(calls, [calls EXCEPT ![j] = b])
    BY <1>5, <2>1, <2>2, ReplaceKeepsBlocks
  <2> QED
    BY <2>3, <2>4, <2>5
<1>8. t = AfterHandlers(d)
  BY DEF AfterHandlers, j, r, calls, inner
<1>9. t \in Seq(Block) /\ SameBlocks(stack, t) /\ SameProtection(stack, t)
  <2>1. CASE ~stack[d].ehWork
    BY <1>1, <2>1, SameBlocksReflexive
  <2>2. CASE stack[d].ehWork /\ j = 0
    BY <1>5, <1>6, <2>2
  <2>3. CASE stack[d].ehWork /\ j # 0
    <3> DEFINE u == [calls EXCEPT ![j].dispatch = TRUE]
    <3>1. /\ u \in Seq(Block)
          /\ SameBlocks(calls, u) /\ SameProtection(calls, u)
      BY <1>7, <2>3
    <3>2. t = u
      BY <2>3
    <3> HIDE DEF u, t
    <3>3. SameBlocks(stack, u) /\ SameProtection(stack, u)
      BY <1>6, <3>1, SameBlocksTransitive
    <3> QED
      BY <3>1, <3>2, <3>3
  <2> QED
    BY <2>1, <2>2, <2>3
<1> HIDE DEF t, d
<1>10. t # <<>>
  BY <1>1, <1>9, EmptySeq DEF SameBlocks, d
<1> QED
  BY <1>8, <1>9, <1>10 DEF d

\* The stack after the end of a pop: the blocks outside, as they were.
LEMMA EndPopStack ==
  ASSUME TypeInv, EndPop
  PROVE  LET d == Len(stack)
         IN  /\ d \in Nat \ {0}
             /\ stack' \in Seq(Block) /\ Len(stack') = d - 1
             /\ \A k \in 1 .. (d - 1) :
                  /\ stack'[k].id = stack[k].id
                  /\ stack'[k].loop = stack[k].loop
                  /\ stack'[k].unprotected = stack[k].unprotected
<1> DEFINE d == Len(stack)
           frag == Fixups(stack, d, d - 1)
           handled == AfterHandlers(d)
           after == IF \E i \in DOMAIN open : open[i].from = d
                    THEN AfterEmitting(handled, frag) ELSE handled
<1>1. stack \in Seq(Block) /\ stack # <<>> /\ d \in Nat \ {0}
  BY StackDomain DEF TypeInv, TypeOK, EndPop
<1>2. /\ handled \in Seq(Block) /\ handled # <<>>
      /\ SameBlocks(stack, handled) /\ SameProtection(stack, handled)
  BY <1>1, AfterHandlersType
<1>3. stack' = SubSeq(after, 1, d - 1)
  BY DEF EndPop
<1> HIDE DEF handled, frag
<1>4. after \in Seq(Block) /\ SameBlocks(handled, after) /\ SameProtection(handled, after)
  BY <1>2, AfterEmittingType, SameBlocksReflexive
<1> HIDE DEF after
<1>5. SameBlocks(stack, after) /\ SameProtection(stack, after)
  BY <1>2, <1>4, SameBlocksTransitive
<1>6. Len(after) = d
  BY <1>5 DEF SameBlocks
<1> DEFINE e == d - 1
<1>7. e \in Nat /\ \A k \in 1 .. e : after[k] \in Block
  BY <1>1, <1>4, <1>6, StackDomain
<1>8. /\ stack' \in Seq(Block) /\ Len(stack') = e
      /\ \A k \in 1 .. e : stack'[k] = after[k]
  <2> HIDE DEF e
  <2>1. stack' = SubSeq(after, 1, e)
    BY <1>3 DEF e
  <2>2. /\ SubSeq(after, 1, e) \in Seq(Block)
        /\ Len(SubSeq(after, 1, e)) = IF 1 <= e THEN e - 1 + 1 ELSE 0
        /\ \A k \in 1 .. (e - 1 + 1) : SubSeq(after, 1, e)[k] = after[1 + k - 1]
    BY <1>7, SubSeqProperties
  <2>3. ASSUME NEW k \in 1 .. e PROVE stack'[k] = after[k]
    <3>1. k \in 1 .. (e - 1 + 1) /\ 1 + k - 1 = k
      BY <1>7
    <3> QED
      BY <2>1, <2>2, <3>1
  <2>4. Len(stack') = e
    BY <1>7, <2>1, <2>2
  <2> QED
    BY <2>1, <2>2, <2>3, <2>4
<1>9. \A k \in 1 .. e : /\ stack'[k].id = stack[k].id
                        /\ stack'[k].loop = stack[k].loop
                        /\ stack'[k].unprotected = stack[k].unprotected
  <2> SUFFICES ASSUME NEW k \in 1 .. e
               PROVE  /\ stack'[k].id = stack[k].id
                      /\ stack'[k].loop = stack[k].loop
                      /\ stack'[k].unprotected = stack[k].unprotected
    OBVIOUS
  <2>1. k \in 1 .. Len(stack)
    BY <1>1
  <2>2. /\ after[k].id = stack[k].id /\ after[k].loop = stack[k].loop
        /\ after[k].unprotected = stack[k].unprotected
    BY <1>5, <2>1 DEF SameBlocks, SameProtection
  <2> HIDE DEF e
  <2> QED
    BY <1>8, <2>2
<1> QED
  BY <1>1, <1>8, <1>9

\* The exits that can still be named after the end of a pop are those of the
\* loop blocks outside.
LEMMA EndPopExits ==
  ASSUME TypeInv, EndPop
  PROVE  LET e == Len(stack) - 1
         IN  exits' \in Seq(ExitPoint(e)) /\ LoopsMatch'
<1> DEFINE d == Len(stack)
           e == d - 1
           n == Len(exits)
           m == IF Top.loop THEN n - 1 ELSE n
           x(i) == Cleared(exits[i])
           cleared == [i \in DOMAIN exits |-> Cleared(exits[i])]
<1>1. /\ d \in Nat \ {0} /\ stack \in Seq(Block) /\ DOMAIN stack = 1 .. d
      /\ exits \in Seq(ExitPoint(d))
  BY EndPopStack, StackDomain DEF TypeInv, TypeOK
<1>2. /\ stack' \in Seq(Block) /\ DOMAIN stack' = 1 .. e /\ e \in Nat
      /\ \A k \in 1 .. e : stack'[k].loop = stack[k].loop
  <2>1. stack' \in Seq(Block) /\ Len(stack') = e
    BY EndPopStack
  <2>2. \A k \in 1 .. e : stack'[k].loop = stack[k].loop
    BY EndPopStack
  <2> QED
    BY <1>1, <2>1, <2>2, StackDomain
<1>3. n \in Nat /\ DOMAIN exits = 1 .. n /\ \A i \in 1 .. n : exits[i] \in ExitPoint(d)
  BY <1>1, LenProperties, ElementOfSeq
<1>4. Top = stack[d] /\ d \in DOMAIN stack
  BY <1>1 DEF Top
<1>5. exits' = IF Top.loop THEN SubSeq(cleared, 1, n - 1) ELSE cleared
  BY DEF EndPop
<1> HIDE DEF d, e
<1>6. \A i \in 1 .. n : /\ exits[i].depth + 1 \in 1 .. d
                        /\ stack[exits[i].depth + 1].loop
                        /\ exits[i].depth \in 0 .. d
  BY <1>1, <1>3 DEF TypeInv, LoopsMatch, ExitPoint
\* The last entry is the one of a loop block on top, and only that one.
<1>7. Top.loop => n > 0 /\ exits[n].depth = e
  <2> SUFFICES ASSUME Top.loop PROVE n > 0 /\ exits[n].depth = e
    OBVIOUS
  <2>1. PICK i \in DOMAIN exits : exits[i].depth + 1 = d
    BY <1>4 DEF TypeInv, LoopsMatch
  <2>2. i \in 1 .. n /\ n > 0 /\ n \in DOMAIN exits
    BY <1>3, <2>1
  <2>3. CASE i = n
    <3>1. exits[i].depth \in 0 .. d
      BY <1>6, <2>2
    <3>2. exits[i].depth = d - 1
      BY <1>1, <2>1, <3>1
    <3> QED
      BY <2>2, <2>3, <3>2 DEF e
  <2>4. CASE i # n
    <3>1. i < n
      BY <1>3, <2>2, <2>4
    <3>2. exits[i].depth < exits[n].depth
      BY <2>2, <3>1 DEF TypeInv, LoopsMatch
    <3>3. exits[n].depth + 1 \in 1 .. d /\ exits[n].depth \in 0 .. d
      BY <1>3, <1>6, <2>2
    <3> QED
      BY <1>1, <1>6, <2>1, <2>2, <3>2, <3>3
  <2> QED
    BY <2>3, <2>4
<1>8. m \in Nat /\ m <= n /\ \A i \in 1 .. m : i \in 1 .. n
  BY <1>3, <1>7
<1>9. \A i \in 1 .. m : exits[i].depth \in 0 .. (e - 1)
  <2> SUFFICES ASSUME NEW i \in 1 .. m PROVE exits[i].depth \in 0 .. (e - 1)
    OBVIOUS
  <2>1. /\ i \in 1 .. n /\ exits[i].depth \in 0 .. d
        /\ exits[i].depth + 1 \in 1 .. d
    BY <1>6, <1>8
  <2>2. exits[i].depth # e
    <3>1. CASE Top.loop
      <4>1. n \in 1 .. n /\ i < n
        BY <1>3, <1>7, <3>1
      <4>2. exits[i].depth < exits[n].depth
        BY <1>3, <2>1, <4>1 DEF TypeInv, LoopsMatch
      <4>3. exits[n].depth = e
        BY <1>7, <3>1
      <4> QED
        BY <1>2, <2>1, <4>2, <4>3
    <3>2. CASE ~Top.loop
      <4>1. exits[i].depth + 1 # d
        BY <1>4, <1>6, <2>1, <3>2
      <4> QED
        BY <1>1, <4>1 DEF e
    <3> QED
      BY <3>1, <3>2
  <2> QED
    BY <1>1, <2>1, <2>2 DEF e
<1>10. \A i \in 1 .. m : x(i) \in ExitPoint(e) /\ x(i).depth = exits[i].depth
  <2> SUFFICES ASSUME NEW i \in 1 .. m
               PROVE  x(i) \in ExitPoint(e) /\ x(i).depth = exits[i].depth
    OBVIOUS
  <2>1. exits[i] \in ExitPoint(d) /\ exits[i].depth \in 0 .. (e - 1)
    BY <1>3, <1>8, <1>9
  <2>2. Unknown \in Unknown .. e /\ 0 .. (e - 1) \subseteq 0 .. e
    BY <1>2 DEF Unknown
  <2> QED
    BY <2>1, <2>2 DEF Cleared, ExitPoint
<1>11. /\ exits' \in Seq(ExitPoint(e)) /\ DOMAIN exits' = 1 .. m
       /\ \A i \in 1 .. m : exits'[i] = x(i)
  <2>1. cleared = [i \in 1 .. n |-> x(i)]
    BY <1>3
  <2>2. CASE Top.loop
    <3>1. \A i \in 1 .. m : cleared[i] \in ExitPoint(e) /\ cleared[i] = x(i)
      BY <1>8, <1>10, <2>1
    <3>2. exits' = SubSeq(cleared, 1, m)
      BY <1>5, <2>2
    <3> HIDE DEF m, cleared, x
    <3>3. /\ SubSeq(cleared, 1, m) \in Seq(ExitPoint(e))
          /\ Len(SubSeq(cleared, 1, m)) = IF 1 <= m THEN m - 1 + 1 ELSE 0
          /\ \A k \in 1 .. (m - 1 + 1) : SubSeq(cleared, 1, m)[k] = cleared[1 + k - 1]
      BY <1>8, <3>1, SubSeqProperties
    <3>4. Len(exits') = m
      BY <1>8, <3>2, <3>3
    <3>5. ASSUME NEW k \in 1 .. m PROVE exits'[k] = x(k)
      <4>1. k \in 1 .. (m - 1 + 1) /\ 1 + k - 1 = k
        BY <1>8
      <4> QED
        BY <3>1, <3>2, <3>3, <4>1
    <3> QED
      BY <3>2, <3>3, <3>4, <3>5, LenProperties
  <2>3. CASE ~Top.loop
    <3>1. m = n /\ exits' = [i \in 1 .. n |-> x(i)]
      BY <1>5, <2>1, <2>3
    <3> HIDE DEF m, n, cleared, x
    <3>2. [i \in 1 .. n |-> x(i)] \in Seq(ExitPoint(e))
      BY <1>3, <1>10, <3>1, IsASeq
    <3> QED
      BY <3>1, <3>2
  <2> QED
    BY <2>2, <2>3
<1> HIDE DEF x
<1>12. \A i \in DOMAIN exits' : /\ exits'[i].depth + 1 \in DOMAIN stack'
                                /\ stack'[exits'[i].depth + 1].loop
  <2> SUFFICES ASSUME NEW i \in 1 .. m
               PROVE  /\ exits'[i].depth + 1 \in 1 .. e
                      /\ stack'[exits'[i].depth + 1].loop
    BY <1>2, <1>11
  <2>1. exits'[i].depth = exits[i].depth
    BY <1>10, <1>11
  <2>2. exits[i].depth + 1 \in 1 .. e
    BY <1>2, <1>9
  <2>3. stack[exits[i].depth + 1].loop
    BY <1>6, <1>8
  <2> QED
    BY <1>2, <2>1, <2>2, <2>3
<1>13. \A i, j \in DOMAIN exits' : i < j => exits'[i].depth < exits'[j].depth
  <2> SUFFICES ASSUME NEW i \in 1 .. m, NEW j \in 1 .. m, i < j
               PROVE  exits'[i].depth < exits'[j].depth
    BY <1>11
  <2>1. i \in DOMAIN exits /\ j \in DOMAIN exits
    BY <1>3, <1>8
  <2>2. exits[i].depth < exits[j].depth
    BY <2>1 DEF TypeInv, LoopsMatch
  <2> QED
    BY <1>10, <1>11, <2>2
<1>14. \A k \in DOMAIN stack' :
         stack'[k].loop => \E i \in DOMAIN exits' : exits'[i].depth + 1 = k
  <2> SUFFICES ASSUME NEW k \in 1 .. e, stack'[k].loop
               PROVE  \E i \in 1 .. m : exits'[i].depth + 1 = k
    BY <1>2, <1>11
  <2>1. k \in DOMAIN stack /\ stack[k].loop /\ k # d
    BY <1>1, <1>2 DEF e
  <2>2. PICK i \in DOMAIN exits : exits[i].depth + 1 = k
    BY <2>1 DEF TypeInv, LoopsMatch
  <2>3. i \in 1 .. m
    <3>1. CASE Top.loop
      <4>1. exits[n].depth = e
        BY <1>7, <3>1
      <4>2. i # n
        BY <1>1, <2>1, <2>2, <4>1 DEF e
      <4> QED
        BY <1>3, <3>1, <4>2
    <3>2. CASE ~Top.loop
      BY <1>3, <3>2
    <3> QED
      BY <3>1, <3>2
  <2> QED
    BY <1>10, <1>11, <2>2, <2>3
<1>15. LoopsMatch'
  BY <1>12, <1>13, <1>14 DEF LoopsMatch
<1> QED
  BY <1>11, <1>15 DEF e, d

LEMMA EndPopType == TypeInv /\ EndPop => TypeInv'
<1> SUFFICES ASSUME TypeInv, EndPop PROVE TypeInv'
  OBVIOUS
<1> DEFINE d == Len(stack)
           e == d - 1
           frag == Fixups(stack, d, e)
           n == Len(open)
           f(i) == IF open[i].from = d
                   THEN [open[i] EXCEPT !.code = Append(@, frag), !.from = e]
                   ELSE open[i]
<1>1. /\ stack \in Seq(Block) /\ stack # <<>> /\ d \in Nat \ {0} /\ e \in Nat
      /\ labels \in [Labels -> LabelData(d)] /\ open \in Seq(OpenBranch(d))
  BY StackDomain DEF TypeInv, TypeOK, EndPop
<1>2. frag \in Fragment
  <2>1. d \in 0 .. Len(stack) /\ e \in 0 .. d
    BY <1>1
  <2> HIDE DEF d, e
  <2> QED
    BY <1>1, <2>1, FixupsType
<1>3. stack' \in Seq(Block) /\ Len(stack') = e
  BY EndPopStack
<1>4. exits' \in Seq(ExitPoint(e)) /\ LoopsMatch'
  BY EndPopExits
<1>5. /\ open' = FixedUp(d, frag)
      /\ labels' = [l \in Labels |-> Cleared(labels[l])]
      /\ out' = IF Top.ehWork THEN out \cup {Dispatched(d)} ELSE out
      /\ done' = <<>> /\ UNCHANGED <<nextId, gotos>>
  BY DEF EndPop
<1>6. dead' \in BOOLEAN
  <2>1. dead' = (dead /\ ~Top.ehWork /\ ~Top.loop)
    BY DEF EndPop
  <2> QED
    BY <2>1
<1>7. Dispatched(d) \in Dispatcher
  BY <1>1, DispatchedType
<1>8. open' = [i \in DOMAIN open |-> f(i)]
  BY <1>5 DEF FixedUp
<1> HIDE DEF d, frag
<1>9. labels' \in [Labels -> LabelData(e)]
  <2> SUFFICES ASSUME NEW l \in Labels PROVE Cleared(labels[l]) \in LabelData(e)
    BY <1>5
  <2>1. labels[l] \in LabelData(d)
    BY <1>1
  <2> HIDE DEF e
  <2>2. Unknown \in Unknown .. e
    BY <1>1 DEF Unknown
  <2> QED
    BY <2>1, <2>2 DEF Cleared, LabelData
<1>10. open' \in Seq(OpenBranch(e))
  <2>1. n \in Nat /\ DOMAIN open = 1 .. n
    BY <1>1, LenProperties
  <2>2. ASSUME NEW i \in 1 .. n PROVE f(i) \in OpenBranch(e)
    <3>1. open[i] \in OpenBranch(d)
      BY <1>1, ElementOfSeq
    <3>2. open[i].code \in Seq(Fragment) /\ open[i].from \in Unknown .. d
      BY <3>1 DEF OpenBranch
    <3>3. CASE open[i].from = d
      <4> DEFINE code == Append(open[i].code, frag)
      <4>1. code \in Seq(Fragment)
        BY <1>2, <3>2, AppendProperties
      <4>2. f(i) = [open[i] EXCEPT !.code = code, !.from = e]
        BY <3>3
      <4>3. e \in Unknown .. e
        BY <1>1 DEF Unknown
      <4> HIDE DEF code, f, e
      <4> QED
        BY <3>1, <4>1, <4>2, <4>3 DEF OpenBranch
    <3>4. CASE open[i].from # d
      <4>1. f(i) = open[i]
        BY <3>4
      <4>2. open[i].from \in Unknown .. e
        BY <1>1, <3>2, <3>4 DEF Unknown
      <4> HIDE DEF f, e
      <4> QED
        BY <3>1, <4>1, <4>2 DEF OpenBranch
    <3> QED
      BY <3>3, <3>4
  <2>3. open' = [i \in 1 .. n |-> f(i)]
    BY <1>8, <2>1
  <2> HIDE DEF f, n, e
  <2> QED
    BY <2>1, <2>2, <2>3, IsASeq
<1>11. /\ nextId' \in Nat /\ gotos' \in Seq(Goto) /\ done' \in Seq(Transfer)
       /\ out' \in SUBSET Dispatcher
  <2>1. nextId \in Nat /\ gotos \in Seq(Goto) /\ out \in SUBSET Dispatcher
    BY DEF TypeInv, TypeOK
  <2> QED
    BY <1>5, <1>7, <2>1, EmptySeq
<1>12. TypeOK'
  BY <1>3, <1>4, <1>6, <1>9, <1>10, <1>11 DEF TypeOK
<1> QED
  BY <1>4, <1>12 DEF TypeInv

LEMMA TypeNext == TypeInv /\ [Next]_vars => TypeInv'
<1> SUFFICES ASSUME TypeInv, [Next]_vars PROVE TypeInv'
  OBVIOUS
<1>1. CASE PushBody
  BY <1>1, PushBodyBlockType
<1>2. CASE PushBlock
  BY <1>2, PushBodyBlockType
<1>3. CASE PushLoop
  BY <1>3, PushLoopType
<1>4. CASE SaveStackPointer
  BY <1>4, SaveType
<1>5. CASE AddLifetimeEntry
  BY <1>5, LifetimeType
<1>6. CASE \E returns \in BOOLEAN : CallMayThrow(returns)
  BY <1>6, CallType
<1>7. CASE Reraise
  BY <1>7, ReraiseType
<1>8. CASE \E l \in Labels, cond \in BOOLEAN : GotoKnown(l, cond) \/ GotoOpen(l, cond)
  BY <1>8, GotoKnownType, GotoOpenType
<1>9. CASE \E l \in Labels : DefineLabel(l)
  BY <1>9, DefineLabelType
<1>10. CASE \E i \in DOMAIN exits, cond \in BOOLEAN : Exit(i, cond)
  BY <1>10, ExitType
<1>11. CASE Return
  BY <1>11, ReturnType
<1>12. CASE BeginPop
  BY <1>12, BeginPopType
<1>13. CASE \E e \in Exceptions : PushHandler(e)
  BY <1>13, PushHandlerType
<1>14. CASE EndPop
  BY <1>14, EndPopType
<1>15. CASE ResetBlockTables
  BY <1>15, ResetType
<1>16. CASE UNCHANGED vars
  BY <1>16 DEF TypeInv, TypeOK, LoopsMatch, vars
<1> QED
  BY <1>1, <1>2, <1>3, <1>4, <1>5, <1>6, <1>7, <1>8, <1>9, <1>10, <1>11, <1>12,
     <1>13, <1>14, <1>15, <1>16 DEF Next

\* The tables are well formed in every reachable state, and the loop exits are
\* those of the loop blocks that are open: fixups are only ever built between
\* levels of the block stack that exist.
THEOREM TypeCorrect == Spec => []TypeInv
BY TypeInit, TypeNext, PTL DEF Spec

-----------------------------------------------------------------------------
(* Jumps: the open branches and the cached fixups always belong to the     *)
(* blocks that are open.                                                   *)

\* t is s, the blocks of s changed but for their identity, and new blocks on it.
Grown(s, t) ==
  /\ Len(s) <= Len(t)
  /\ \A j \in 1 .. Len(s) : t[j].id = s[j].id

LEMMA SameBlocksGrown ==
  ASSUME NEW s \in Seq(Block), NEW t, SameBlocks(s, t)
  PROVE  Grown(s, t)
BY StackDomain DEF SameBlocks, Grown

LEMMA AppendGrown ==
  ASSUME NEW r \in Seq(Block), NEW s \in Seq(Block), NEW b \in Block, SameBlocks(r, s)
  PROVE  Grown(r, Append(s, b))
<1>1. /\ Len(r) \in Nat /\ Len(s) = Len(r)
      /\ \A j \in 1 .. Len(r) : s[j].id = r[j].id
  BY StackDomain DEF SameBlocks
<1>2. /\ Len(Append(s, b)) = Len(r) + 1
      /\ \A j \in 1 .. Len(r) : Append(s, b)[j] = s[j]
  BY <1>1, AppendProperties
<1> QED
  BY <1>1, <1>2 DEF Grown

\* Steps that only change what was requested of the blocks.
LEMMA CompiledStack ==
  ASSUME TypeInv, stack # <<>>, NEW frag, NEW cached \in BOOLEAN,
         stack' = IF cached THEN stack ELSE AfterEmitting(stack, frag)
  PROVE  stack' \in Seq(Block) /\ SameBlocks(stack, stack') /\ SameProtection(stack, stack')
<1>1. stack \in Seq(Block)
  BY DEF TypeInv, TypeOK
<1> QED
  BY <1>1, AfterEmittingType, SameBlocksReflexive

\* Every action but the end of a pop and of a subprogram keeps the blocks that
\* are open.
LEMMA StackGrows ==
  ASSUME TypeInv, Next, ~EndPop, ~ResetBlockTables
  PROVE  Grown(stack, stack')
<1>1. stack \in Seq(Block) /\ nextId \in Nat /\ SameBlocks(stack, stack)
  BY SameBlocksReflexive DEF TypeInv, TypeOK
<1>2. NewBlock(nextId) \in Block
  BY <1>1, NewBlockType
<1>3. ASSUME NEW b \in Block, Pushed(b) PROVE Grown(stack, stack')
  BY <1>1, <1>3, AppendGrown DEF Pushed
<1>4. CASE PushBody
  BY <1>3, <1>4, PushedBlock
<1>5. CASE PushBlock
  BY <1>3, <1>5, PushedBlock
<1>6. CASE PushLoop
  <2>1. [NewBlock(nextId) EXCEPT !.loop = TRUE] \in Block
    BY <1>2 DEF Block
  <2> QED
    BY <1>3, <1>6, <2>1 DEF PushLoop
<1>7. CASE SaveStackPointer
  BY <1>1, <1>7, SaveStack, SameBlocksGrown
<1>8. CASE AddLifetimeEntry
  BY <1>1, <1>8, LifetimeStack, SameBlocksGrown
<1>9. CASE (\E returns \in BOOLEAN : CallMayThrow(returns)) \/ Reraise
  <2>1. stack' = Requested(stack, LandingPadLevel(stack))
    BY <1>9 DEF CallMayThrow, Reraise
  <2> QED
    BY <1>1, <2>1, CallStack, SameBlocksGrown
<1>10. ASSUME NEW l \in Labels, NEW cond \in BOOLEAN, GotoKnown(l, cond)
       PROVE  Grown(stack, stack')
  <2> DEFINE cached == Cached(labels[l])
             frag == IF cached THEN labels[l].fixup
                     ELSE Fixups(stack, Len(stack), labels[l].depth)
  <2>1. stack # <<>> /\ stack' = IF cached THEN stack ELSE AfterEmitting(stack, frag)
    BY <1>10 DEF GotoKnown, Statement
  <2>2. cached \in BOOLEAN
    BY DEF Cached
  <2> HIDE DEF cached, frag
  <2> QED
    BY <1>1, <2>1, <2>2, CompiledStack, SameBlocksGrown
<1>11. ASSUME NEW i \in DOMAIN exits, NEW cond \in BOOLEAN, Exit(i, cond)
       PROVE  Grown(stack, stack')
  <2> DEFINE cached == Cached(exits[i])
             frag == IF cached THEN exits[i].fixup
                     ELSE Fixups(stack, Len(stack), exits[i].depth)
  <2>1. stack # <<>> /\ stack' = IF cached THEN stack ELSE AfterEmitting(stack, frag)
    BY <1>11 DEF Exit, Statement
  <2>2. cached \in BOOLEAN
    BY DEF Cached
  <2> HIDE DEF cached, frag
  <2> QED
    BY <1>1, <2>1, <2>2, CompiledStack, SameBlocksGrown
<1>12. CASE Return
  <2> DEFINE frag == Fixups(stack, Len(stack), 0)
  <2>1. stack # <<>> /\ stack' = AfterEmitting(stack, frag)
    BY <1>12 DEF Return, Statement
  <2> HIDE DEF frag
  <2> QED
    BY <1>1, <2>1, AfterEmittingType, SameBlocksGrown
<1>13. CASE \/ \E l \in Labels, cond \in BOOLEAN : GotoOpen(l, cond)
            \/ \E l \in Labels : DefineLabel(l)
  <2>1. stack' = stack
    BY <1>13 DEF GotoOpen, DefineLabel
  <2> QED
    BY <1>1, <2>1, SameBlocksGrown
<1>14. CASE BeginPop
  BY <1>1, <1>14, BeginPopStack, SameBlocksGrown
<1>15. ASSUME NEW e \in Exceptions, PushHandler(e) PROVE Grown(stack, stack')
  BY <1>1, <1>15, PushedHandler, AppendGrown
<1> QED
  BY <1>4, <1>5, <1>6, <1>7, <1>8, <1>9, <1>10, <1>11, <1>12, <1>13, <1>14, <1>15
     DEF Next

-----------------------------------------------------------------------------
(* Cached fixups                                                           *)

LEMMA FreshGrown ==
  ASSUME NEW s \in Seq(Block), NEW t \in Seq(Block), Grown(s, t),
         NEW c, Fresh(c, s)
  PROVE  Fresh(c, t)
<1> SUFFICES ASSUME c.from # Unknown, NEW i \in DOMAIN c.fixup.segs
             PROVE  /\ c.from + 1 - i \in DOMAIN t
                    /\ c.fixup.segs[i].blk = t[c.from + 1 - i].id
  BY DEF Fresh
<1> DEFINE j == c.from + 1 - i
<1>1. j \in DOMAIN s /\ c.fixup.segs[i].blk = s[j].id
  BY DEF Fresh
<1> HIDE DEF j
<1>2. j \in 1 .. Len(s) /\ j \in DOMAIN t
  BY <1>1, StackDomain DEF Grown
<1> QED
  BY <1>1, <1>2 DEF Grown, j

\* A fixup that has just been made is fresh.
LEMMA FixupsFresh ==
  ASSUME NEW stk \in Seq(Block), stk # <<>>, NEW to \in 0 .. Len(stk),
         NEW c, c.from = Len(stk), c.fixup = Fixups(stk, Len(stk), to)
  PROVE  Fresh(c, stk)
<1> DEFINE n == Len(stk)
           f == Fixups(stk, n, to)
<1>1. n \in Nat /\ n \in 0 .. n /\ DOMAIN stk = 1 .. n
  BY StackDomain
<1> HIDE DEF n
<1>2. /\ DOMAIN f.segs = 1 .. (n - to)
      /\ \A i \in 1 .. (n - to) : f.segs[i].blk = stk[n + 1 - i].id
  <2>1. n \in 0 .. Len(stk) /\ to \in 0 .. n
    BY <1>1 DEF n
  <2> QED
    BY <2>1, FixupsType
<1>3. c.fixup = f /\ c.from = n
  BY DEF n
<1> HIDE DEF f
<1>4. \A i \in 1 .. (n - to) : n + 1 - i \in 1 .. n
  BY <1>1
<1> QED
  BY <1>1, <1>2, <1>3, <1>4 DEF Fresh

\* A cached or a new fixup of c, used at the top of the stack.
LEMMA UsedFresh ==
  ASSUME NEW stk \in Seq(Block), stk # <<>>, NEW to \in 0 .. Len(stk),
         NEW c, Fresh(c, stk), NEW r, r.from = Len(stk),
         r.fixup = IF Cached(c) THEN c.fixup ELSE Fixups(stk, Len(stk), to),
         stk = stack
  PROVE  Fresh(r, stk)
<1>1. CASE Cached(c)
  <2>1. r.from = c.from /\ r.fixup = c.fixup
    BY <1>1 DEF Cached
  <2> QED
    BY <2>1 DEF Fresh
<1>2. CASE ~Cached(c)
  BY <1>2, FixupsFresh
<1> QED
  BY <1>1, <1>2

LEMMA CachesInit == Init => CachesFresh
BY DEF Init, CachesFresh, Fresh, NoLabel

\* Pop_Block clears the caches.
LEMMA EndPopClears ==
  ASSUME TypeInv, EndPop
  PROVE  /\ \A l \in Labels : labels'[l].from = Unknown
         /\ \A i \in DOMAIN exits' : exits'[i].from = Unknown
<1>1. ASSUME NEW l \in Labels PROVE labels'[l].from = Unknown
  <2>1. labels'[l] = Cleared(labels[l])
    BY DEF EndPop
  <2>2. labels[l] \in LabelData(Len(stack))
    BY DEF TypeInv, TypeOK
  <2> QED
    BY <2>1, <2>2 DEF Cleared, LabelData
<1>2. ASSUME NEW i \in DOMAIN exits' PROVE exits'[i].from = Unknown
  <2> DEFINE n == Len(exits)
             cleared == [k \in DOMAIN exits |-> Cleared(exits[k])]
  <2>1. /\ exits \in Seq(ExitPoint(Len(stack))) /\ n \in Nat /\ DOMAIN exits = 1 .. n
    BY LenProperties DEF TypeInv, TypeOK
  <2>2. ASSUME NEW k \in 1 .. n PROVE cleared[k].from = Unknown
    <3>1. exits[k] \in ExitPoint(Len(stack)) /\ cleared[k] = Cleared(exits[k])
      BY <2>1, ElementOfSeq
    <3> QED
      BY <3>1 DEF Cleared, ExitPoint
  <2>3. exits' = IF Top.loop THEN SubSeq(cleared, 1, n - 1) ELSE cleared
    BY DEF EndPop
  <2>4. CASE Top.loop
    <3>1. exits' = [k \in 1 .. (n - 1) |-> cleared[k]]
      BY <2>1, <2>3, <2>4
    <3>2. i \in 1 .. n /\ exits'[i] = cleared[i]
      BY <2>1, <3>1
    <3> QED
      BY <2>2, <3>2
  <2>5. CASE ~Top.loop
    <3>1. i \in 1 .. n /\ exits'[i] = cleared[i]
      BY <2>1, <2>3, <2>5
    <3> QED
      BY <2>2, <3>1
  <2> QED
    BY <2>4, <2>5
<1> QED
  BY <1>1, <1>2

LEMMA CachesEndPop == TypeInv /\ EndPop => CachesFresh'
BY EndPopClears DEF CachesFresh, Fresh

LEMMA CachesGoto ==
  ASSUME TypeInv, CachesFresh, NEW l \in Labels, NEW cond \in BOOLEAN, GotoKnown(l, cond)
  PROVE  \A k \in Labels : Fresh(labels'[k], stack)
<1> DEFINE n == Len(stack)
           to == labels[l].depth
           frag == IF Cached(labels[l]) THEN labels[l].fixup ELSE Fixups(stack, n, to)
<1>1. /\ stack \in Seq(Block) /\ stack # <<>> /\ n \in Nat /\ DOMAIN stack = 1 .. n
      /\ labels \in [Labels -> LabelData(n)]
  BY StackDomain DEF TypeInv, TypeOK, GotoKnown, Statement
<1>2. to \in 0 .. n
  BY <1>1 DEF GotoKnown, Visible
<1>3. labels' = [labels EXCEPT ![l].from = n, ![l].fixup = frag]
  BY DEF GotoKnown
<1>4. labels'[l].from = n /\ labels'[l].fixup = frag
  <2>1. labels[l] \in LabelData(n)
    BY <1>1
  <2> HIDE DEF frag, n
  <2> QED
    BY <1>1, <1>3, <2>1 DEF LabelData
<1>5. Fresh(labels'[l], stack)
  <2>1. Fresh(labels[l], stack)
    BY DEF CachesFresh
  <2> QED
    BY <1>1, <1>2, <1>4, <2>1, UsedFresh
<1>6. \A k \in Labels : k # l => labels'[k] = labels[k]
  BY <1>1, <1>3
<1> QED
  BY <1>5, <1>6 DEF CachesFresh

LEMMA CachesExit ==
  ASSUME TypeInv, CachesFresh, NEW i \in DOMAIN exits, NEW cond \in BOOLEAN, Exit(i, cond)
  PROVE  \A k \in DOMAIN exits' : Fresh(exits'[k], stack)
<1> DEFINE n == Len(stack)
           to == exits[i].depth
           frag == IF Cached(exits[i]) THEN exits[i].fixup ELSE Fixups(stack, n, to)
<1>1. /\ stack \in Seq(Block) /\ stack # <<>> /\ n \in Nat
      /\ exits \in Seq(ExitPoint(n)) /\ exits[i] \in ExitPoint(n)
  BY StackDomain, LenProperties, ElementOfSeq DEF TypeInv, TypeOK, Exit, Statement
<1>2. to \in 0 .. n
  BY <1>1 DEF ExitPoint
<1>3. exits' = [exits EXCEPT ![i].from = n, ![i].fixup = frag]
  BY DEF Exit
<1>4. exits'[i].from = n /\ exits'[i].fixup = frag
  <2> HIDE DEF frag, n
  <2> QED
    BY <1>1, <1>3 DEF ExitPoint
<1>5. Fresh(exits'[i], stack)
  <2>1. Fresh(exits[i], stack)
    BY DEF CachesFresh
  <2> QED
    BY <1>1, <1>2, <1>4, <2>1, UsedFresh
<1>6. DOMAIN exits' = DOMAIN exits /\ \A k \in DOMAIN exits : k # i => exits'[k] = exits[k]
  BY <1>3
<1> QED
  BY <1>5, <1>6 DEF CachesFresh

LEMMA CachesNext == TypeInv /\ CachesFresh /\ TypeInv' /\ [Next]_vars => CachesFresh'
<1> SUFFICES ASSUME TypeInv, CachesFresh, TypeInv', [Next]_vars PROVE CachesFresh'
  OBVIOUS
<1>1. CASE EndPop
  BY <1>1, CachesEndPop
<1>2. CASE ResetBlockTables
  <2>1. exits = <<>>
    <3>1. exits \in Seq(ExitPoint(0))
      BY <1>2 DEF ResetBlockTables, TypeInv, TypeOK
    <3>2. \A i \in DOMAIN exits : FALSE
      BY <1>2 DEF ResetBlockTables, TypeInv, LoopsMatch
    <3> QED
      BY <3>1, <3>2
  <2>2. exits' = <<>> /\ labels' = [l \in Labels |-> NoLabel]
    BY <1>2, <2>1 DEF ResetBlockTables
  <2> QED
    BY <2>2 DEF CachesFresh, Fresh, NoLabel
<1>3. CASE UNCHANGED vars
  BY <1>3 DEF vars, CachesFresh
<1>4. CASE Next /\ ~EndPop /\ ~ResetBlockTables
  <2>1. stack \in Seq(Block) /\ stack' \in Seq(Block) /\ Grown(stack, stack')
    BY <1>4, StackGrows DEF TypeInv, TypeOK
  <2>2. SUFFICES /\ \A l \in Labels : Fresh(labels'[l], stack)
                 /\ \A i \in DOMAIN exits' : Fresh(exits'[i], stack)
    BY <2>1, FreshGrown DEF CachesFresh
  <2>3. CASE labels' = labels /\ exits' = exits
    BY <2>3 DEF CachesFresh
  <2>4. ASSUME NEW l \in Labels, NEW cond \in BOOLEAN, GotoKnown(l, cond)
        PROVE  /\ \A k \in Labels : Fresh(labels'[k], stack)
               /\ \A i \in DOMAIN exits' : Fresh(exits'[i], stack)
    <3>1. exits' = exits
      BY <2>4 DEF GotoKnown
    <3> QED
      BY <2>4, <3>1, CachesGoto DEF CachesFresh
  <2>5. ASSUME NEW i \in DOMAIN exits, NEW cond \in BOOLEAN, Exit(i, cond)
        PROVE  /\ \A l \in Labels : Fresh(labels'[l], stack)
               /\ \A k \in DOMAIN exits' : Fresh(exits'[k], stack)
    <3>1. labels' = labels
      BY <2>5 DEF Exit
    <3> QED
      BY <2>5, <3>1, CachesExit DEF CachesFresh
  <2>6. ASSUME NEW l \in Labels, DefineLabel(l)
        PROVE  /\ \A k \in Labels : Fresh(labels'[k], stack)
               /\ \A i \in DOMAIN exits' : Fresh(exits'[i], stack)
    <3>1. /\ exits' = exits
          /\ labels' = [labels EXCEPT ![l].depth = Len(stack), ![l].owner = Top.id]
      BY <2>6 DEF DefineLabel
    <3>2. labels \in [Labels -> LabelData(Len(stack))]
      BY DEF TypeInv, TypeOK
    <3>3. \A k \in Labels : labels'[k].from = labels[k].from /\ labels'[k].fixup = labels[k].fixup
      <4> SUFFICES ASSUME NEW k \in Labels
                   PROVE  labels'[k].from = labels[k].from /\ labels'[k].fixup = labels[k].fixup
        OBVIOUS
      <4>1. labels[k] \in LabelData(Len(stack))
        BY <3>2
      <4> QED
        BY <3>1, <3>2, <4>1 DEF LabelData
    <3>4. ASSUME NEW k \in Labels
          PROVE  Fresh(labels'[k], stack)
      <4>1. Fresh(labels[k], stack)
        BY DEF CachesFresh
      <4> QED
        BY <3>3, <4>1 DEF Fresh
    <3> QED
      BY <3>1, <3>4 DEF CachesFresh
  <2>7. CASE PushLoop
    <3> DEFINE x == [depth |-> Len(stack), from |-> Unknown, fixup |-> NoFragment]
               S == ExitPoint(Len(stack))
    <3>1. labels' = labels /\ exits' = Append(exits, x) /\ exits \in Seq(S)
      BY <2>7 DEF PushLoop, TypeInv, TypeOK
    <3>2. x.from = Unknown
      OBVIOUS
    <3> HIDE DEF x, S
    <3>3. \A i \in DOMAIN exits' : exits'[i] = x \/ (i \in DOMAIN exits /\ exits'[i] = exits[i])
      BY <3>1
    <3> QED
      BY <3>1, <3>2, <3>3 DEF CachesFresh, Fresh
  <2> QED
    <3>1. \/ labels' = labels /\ exits' = exits
          \/ \E l \in Labels, cond \in BOOLEAN : GotoKnown(l, cond)
          \/ \E i \in DOMAIN exits, cond \in BOOLEAN : Exit(i, cond)
          \/ \E l \in Labels : DefineLabel(l)
          \/ PushLoop
      BY <1>4 DEF Next, PushBody, PushBlock, SaveStackPointer, AddLifetimeEntry,
         CallMayThrow, Reraise, GotoOpen, Return, BeginPop, PushHandler
    <3> QED
      BY <2>3, <2>4, <2>5, <2>6, <2>7, <3>1, SMTT(40)
<1> QED
  BY <1>1, <1>2, <1>3, <1>4

\* Whatever is compiled, a fixup cached for a label or a loop exit leaves blocks
\* that are still open: Pop_Block forgets the others in time.
THEOREM CachesAlwaysFresh == Spec => []CachesFresh
<1>1. TypeInv /\ [Next]_vars => TypeInv'
  BY TypeNext
<1>2. Init => TypeInv /\ CachesFresh
  BY TypeInit, CachesInit
<1>3. TypeInv /\ CachesFresh /\ [Next]_vars => (TypeInv /\ CachesFresh)'
  BY <1>1, CachesNext
<1> QED
  BY <1>2, <1>3, PTL DEF Spec

-----------------------------------------------------------------------------
(* Open branches                                                           *)

\* No label is left to be defined when every block that is open is being popped.
NoOpenAtEnd ==
  (\A j \in 1 .. Len(stack) : stack[j].unprotected)
    => \A i \in DOMAIN open : open[i].from = Unknown

GotosOpen == \A i \in DOMAIN gotos : gotos[i].ob \in DOMAIN open

\* OpenBranchesAligned with what makes it inductive: a branch of the outermost
\* block never outlives it.
AlignInv == GotosOpen /\ OpenBranchesAligned /\ NoOpenAtEnd

\* What OpenBranchesAligned says of one goto, whose branch is fixed up to "from".
Aligned(g, from, stk) ==
  from # Unknown =>
    /\ from \in 1 .. Len(stk) /\ from <= Len(g.scope)
    /\ \A j \in 1 .. from : stk[j].id = g.scope[j].id

LEMMA AlignedEach ==
  OpenBranchesAligned <=>
    \A i \in DOMAIN gotos : Aligned(gotos[i], open[gotos[i].ob].from, stack)
BY DEF OpenBranchesAligned, Aligned

LEMMA AlignedGrown ==
  ASSUME NEW s \in Seq(Block), NEW t \in Seq(Block), Grown(s, t), NEW g,
         NEW from \in Int, Aligned(g, from, s)
  PROVE  Aligned(g, from, t)
<1>1. Len(s) \in Nat /\ Len(t) \in Nat /\ Len(s) <= Len(t)
  BY StackDomain DEF Grown
<1> QED
  BY <1>1 DEF Aligned, Grown

\* The statements compiled leave the innermost block one that protects.
LEMMA TopProtects ==
  ASSUME TypeInv, Next, ~EndPop, ~ResetBlockTables, ~BeginPop
  PROVE  Len(stack') \in 1 .. Len(stack') /\ ~stack'[Len(stack')].unprotected
<1>1. stack \in Seq(Block) /\ nextId \in Nat /\ SameBlocks(stack, stack)
  BY SameBlocksReflexive DEF TypeInv, TypeOK
<1>2. ASSUME NEW s \in Seq(Block), NEW b \in Block, ~b.unprotected, stack' = Append(s, b)
      PROVE  Len(stack') \in 1 .. Len(stack') /\ ~stack'[Len(stack')].unprotected
  <2>1. Len(s) \in Nat /\ Len(Append(s, b)) = Len(s) + 1 /\ Append(s, b)[Len(s) + 1] = b
    BY <1>2, StackDomain, AppendProperties
  <2> QED
    BY <1>2, <2>1
<1>3. ASSUME Statement, stack' \in Seq(Block), SameBlocks(stack, stack'),
             SameProtection(stack, stack')
      PROVE  Len(stack') \in 1 .. Len(stack') /\ ~stack'[Len(stack')].unprotected
  <2>1. Len(stack) \in Nat \ {0} /\ Len(stack') = Len(stack)
    BY <1>1, <1>3, EmptySeq, StackDomain DEF Statement, SameBlocks
  <2>2. ~stack[Len(stack)].unprotected
    BY <1>3 DEF Statement, Top
  <2> QED
    BY <1>3, <2>1, <2>2 DEF SameProtection
<1>4. CASE PushBody \/ PushBlock
  <2>1. PICK b \in Block : ~b.unprotected /\ Pushed(b)
    BY <1>4, PushedBlock
  <2> QED
    BY <1>1, <1>2, <2>1 DEF Pushed
<1>5. CASE PushLoop
  <2> DEFINE b == [NewBlock(nextId) EXCEPT !.loop = TRUE]
  <2>1. NewBlock(nextId) \in Block
    BY <1>1, NewBlockType
  <2>2. b \in Block /\ ~b.unprotected
    BY <2>1 DEF Block, NewBlock
  <2>3. stack' = Append(stack, b)
    BY <1>5 DEF PushLoop, Pushed
  <2> HIDE DEF b
  <2> QED
    BY <1>1, <1>2, <2>2, <2>3
<1>6. ASSUME NEW e \in Exceptions, PushHandler(e)
      PROVE  Len(stack') \in 1 .. Len(stack') /\ ~stack'[Len(stack')].unprotected
  <2>1. PICK s \in Seq(Block), b \in Block : ~b.unprotected /\ stack' = Append(s, b)
    BY <1>6, PushedHandler
  <2> QED
    BY <1>2, <2>1
<1>7. CASE SaveStackPointer
  BY <1>3, <1>7, SaveStack DEF SaveStackPointer
<1>8. CASE AddLifetimeEntry
  BY <1>3, <1>8, LifetimeStack DEF AddLifetimeEntry
<1>9. CASE (\E returns \in BOOLEAN : CallMayThrow(returns)) \/ Reraise
  <2>1. Statement /\ stack' = Requested(stack, LandingPadLevel(stack))
    BY <1>9 DEF CallMayThrow, Reraise
  <2> QED
    BY <1>3, <2>1, CallStack
<1>10. ASSUME NEW l \in Labels, NEW cond \in BOOLEAN, GotoKnown(l, cond)
       PROVE  Len(stack') \in 1 .. Len(stack') /\ ~stack'[Len(stack')].unprotected
  <2> DEFINE cached == Cached(labels[l])
             frag == IF cached THEN labels[l].fixup
                     ELSE Fixups(stack, Len(stack), labels[l].depth)
  <2>1. Statement /\ stack' = IF cached THEN stack ELSE AfterEmitting(stack, frag)
    BY <1>10 DEF GotoKnown
  <2>2. cached \in BOOLEAN /\ stack # <<>>
    BY <2>1 DEF Cached, Statement
  <2> HIDE DEF cached, frag
  <2> QED
    BY <1>3, <2>1, <2>2, CompiledStack
<1>11. ASSUME NEW i \in DOMAIN exits, NEW cond \in BOOLEAN, Exit(i, cond)
       PROVE  Len(stack') \in 1 .. Len(stack') /\ ~stack'[Len(stack')].unprotected
  <2> DEFINE cached == Cached(exits[i])
             frag == IF cached THEN exits[i].fixup
                     ELSE Fixups(stack, Len(stack), exits[i].depth)
  <2>1. Statement /\ stack' = IF cached THEN stack ELSE AfterEmitting(stack, frag)
    BY <1>11 DEF Exit
  <2>2. cached \in BOOLEAN /\ stack # <<>>
    BY <2>1 DEF Cached, Statement
  <2> HIDE DEF cached, frag
  <2> QED
    BY <1>3, <2>1, <2>2, CompiledStack
<1>12. CASE Return
  <2> DEFINE frag == Fixups(stack, Len(stack), 0)
  <2>1. Statement /\ stack # <<>> /\ stack' = AfterEmitting(stack, frag)
    BY <1>12 DEF Return, Statement
  <2> HIDE DEF frag
  <2> QED
    BY <1>1, <1>3, <2>1, AfterEmittingType
<1>13. CASE \/ \E l \in Labels, cond \in BOOLEAN : GotoOpen(l, cond)
            \/ \E l \in Labels : DefineLabel(l)
  <2>1. Statement /\ stack' = stack
    BY <1>13 DEF GotoOpen, DefineLabel
  <2> QED
    BY <1>1, <1>3, <2>1, SameBlocksReflexive
<1> QED
  BY <1>4, <1>5, <1>6, <1>7, <1>8, <1>9, <1>10, <1>11, <1>12, <1>13 DEF Next

\* The type of what the branches are fixed up to.
LEMMA FromType ==
  ASSUME TypeInv
  PROVE  \A i \in DOMAIN open : open[i].from \in Unknown .. Len(stack)
<1>1. \A i \in DOMAIN open : open[i] \in OpenBranch(Len(stack))
  BY DEF TypeInv, TypeOK
<1> QED
  BY <1>1 DEF OpenBranch

\* Steps that only add blocks and close branches.
LEMMA AlignStays ==
  ASSUME TypeInv, TypeInv', AlignInv, Grown(stack, stack'), gotos' = gotos,
         DOMAIN open' = DOMAIN open,
         \A i \in DOMAIN open : open'[i].from = open[i].from \/ open'[i].from = Unknown
  PROVE  GotosOpen' /\ OpenBranchesAligned'
<1>1. stack \in Seq(Block) /\ stack' \in Seq(Block) /\ Len(stack) \in Nat
  BY StackDomain DEF TypeInv, TypeOK
<1>2. GotosOpen'
  BY DEF AlignInv, GotosOpen
<1>3. ASSUME NEW i \in DOMAIN gotos
      PROVE  Aligned(gotos[i], open'[gotos[i].ob].from, stack')
  <2> DEFINE k == gotos[i].ob
  <2>1. k \in DOMAIN open
    BY <1>3 DEF AlignInv, GotosOpen
  <2>2. open[k].from \in Int
    BY <1>1, <2>1, FromType DEF Unknown
  <2>3. Aligned(gotos[i], open[k].from, stack)
    BY <1>3, AlignedEach DEF AlignInv
  <2>4. Aligned(gotos[i], open[k].from, stack')
    BY <1>1, <2>2, <2>3, AlignedGrown
  <2>5. open'[k].from = open[k].from \/ open'[k].from = Unknown
    BY <2>1
  <2> QED
    BY <2>4, <2>5 DEF Aligned
<1>4. OpenBranchesAligned'
  BY <1>3 DEF OpenBranchesAligned, Aligned
<1> QED
  BY <1>2, <1>4

LEMMA AlignGotoOpen ==
  ASSUME TypeInv, AlignInv, NEW l \in Labels, NEW cond \in BOOLEAN, GotoOpen(l, cond)
  PROVE  GotosOpen' /\ OpenBranchesAligned'
<1> DEFINE n == Len(stack)
           j == OpenEntry(l)
           made == IF Written(open[j]) THEN Len(open[j].code) ELSE open[j].made
           fresh == [label |-> l, code |-> <<>>, made |-> 0, from |-> n, to |-> Unknown]
           g(k, off) == [label |-> l, scope |-> stack, ob |-> k, off |-> off]
<1>1. /\ stack \in Seq(Block) /\ stack # <<>> /\ n \in Nat \ {0}
      /\ open \in Seq(OpenBranch(n)) /\ gotos \in Seq(Goto)
      /\ Len(open) \in Nat /\ DOMAIN open = 1 .. Len(open)
      /\ stack' = stack
  BY StackDomain, EmptySeq DEF TypeInv, TypeOK, GotoOpen, Statement
<1>2. /\ \A k \in DOMAIN gotos : Aligned(gotos[k], open[gotos[k].ob].from, stack)
      /\ \A k \in DOMAIN gotos : gotos[k].ob \in DOMAIN open
  BY AlignedEach DEF AlignInv, GotosOpen
<1>3. SUFFICES ASSUME NEW k, NEW off, gotos' = Append(gotos, g(k, off)),
                      k \in DOMAIN open', open'[k].from = n,
                      DOMAIN open \subseteq DOMAIN open',
                      \A i \in DOMAIN open : open'[i].from = open[i].from
               PROVE  GotosOpen' /\ OpenBranchesAligned'
  <2>1. CASE j # 0 /\ open' = [open EXCEPT ![j].made = made]
                   /\ gotos' = Append(gotos, g(j, made))
    <3> DEFINE S == {i \in DOMAIN open : open[i].label = l /\ open[i].from = n}
    <3>1. j = Innermost(S)
      BY DEF OpenEntry
    <3>2. S \subseteq 1 .. Len(open)
      BY <1>1, SMTT(40)
    <3>3. S # {}
      BY <2>1, <3>1 DEF Innermost
    <3> HIDE DEF S
    <3>4. j \in S
      BY <1>1, <3>1, <3>2, <3>3, InnermostIn
    <3>5. j \in DOMAIN open /\ open[j].from = n
      BY <3>4 DEF S
    <3> HIDE DEF j, made
    <3>6. \A i \in DOMAIN open : open[i] \in OpenBranch(n)
      BY <1>1
    <3>7. DOMAIN open' = DOMAIN open /\ \A i \in DOMAIN open : open'[i].from = open[i].from
      BY <2>1, <3>5, <3>6 DEF OpenBranch
    <3> QED
      BY <1>3, <2>1, <3>5, <3>7
  <2>2. CASE open' = Append(open, fresh) /\ gotos' = Append(gotos, g(Len(open) + 1, 0))
    <3>1. fresh.from = n
      OBVIOUS
    <3> HIDE DEF fresh
    <3>2. /\ DOMAIN open' = 1 .. (Len(open) + 1)
          /\ \A i \in 1 .. Len(open) : open'[i] = open[i]
          /\ open'[Len(open) + 1] = fresh
      BY <1>1, <2>2, AppendProperties
    <3>3. Len(open) + 1 \in DOMAIN open' /\ DOMAIN open \subseteq DOMAIN open'
      BY <1>1, <3>2
    <3> QED
      BY <1>1, <1>3, <2>2, <3>1, <3>2, <3>3
  <2> QED
    BY <2>1, <2>2 DEF GotoOpen
<1> DEFINE new == g(k, off)
<1>4. new.ob = k /\ new.scope = stack
  OBVIOUS
<1> HIDE DEF new
<1>5. \A i \in DOMAIN gotos' : gotos'[i] = new \/ (i \in DOMAIN gotos /\ gotos'[i] = gotos[i])
  BY <1>1, <1>3 DEF new
<1>6. GotosOpen'
  BY <1>2, <1>3, <1>4, <1>5 DEF GotosOpen
<1>7. Aligned(new, n, stack)
  BY <1>1, <1>4 DEF Aligned
<1>8. ASSUME NEW i \in DOMAIN gotos'
      PROVE  Aligned(gotos'[i], open'[gotos'[i].ob].from, stack')
  BY <1>1, <1>2, <1>3, <1>4, <1>5, <1>7, <1>8
<1>9. OpenBranchesAligned'
  BY <1>8 DEF OpenBranchesAligned, Aligned
<1> QED
  BY <1>6, <1>9

LEMMA AlignEndPop ==
  ASSUME TypeInv, AlignInv, EndPop
  PROVE  AlignInv'
<1> DEFINE d == Len(stack)
           frag == Fixups(stack, d, d - 1)
<1>1. /\ d \in Nat \ {0} /\ stack \in Seq(Block) /\ Len(stack') = d - 1
      /\ \A k \in 1 .. (d - 1) : /\ stack'[k].id = stack[k].id
                                 /\ stack'[k].unprotected = stack[k].unprotected
  BY EndPopStack DEF TypeInv, TypeOK
<1>2. open' = FixedUp(d, frag) /\ gotos' = gotos /\ stack[d].unprotected
  BY DEF EndPop, Top
<1> HIDE DEF frag
<1>3. \A i \in DOMAIN open : open[i] \in OpenBranch(d)
  BY DEF TypeInv, TypeOK
<1>4. /\ DOMAIN open' = DOMAIN open
      /\ \A i \in DOMAIN open :
           open'[i].from = IF open[i].from = d THEN d - 1 ELSE open[i].from
  <2>1. DOMAIN open' = DOMAIN open
    BY <1>2 DEF FixedUp
  <2>2. ASSUME NEW i \in DOMAIN open
        PROVE  open'[i].from = IF open[i].from = d THEN d - 1 ELSE open[i].from
    <3> HIDE DEF d
    <3>1. open[i] \in OpenBranch(d)
      BY <1>3
    <3>2. open'[i] = IF open[i].from = d
                     THEN [open[i] EXCEPT !.code = Append(@, frag), !.from = d - 1]
                     ELSE open[i]
      BY <1>2 DEF FixedUp
    <3> QED
      BY <3>1, <3>2 DEF OpenBranch
  <2> QED
    BY <2>1, <2>2
<1>5. GotosOpen'
  BY <1>2, <1>4 DEF AlignInv, GotosOpen
<1>6. ASSUME \A k \in 1 .. (d - 1) : stack[k].unprotected
      PROVE  \A i \in DOMAIN open : open[i].from = Unknown
  <2>1. \A k \in 1 .. d : stack[k].unprotected
    BY <1>1, <1>2, <1>6
  <2> QED
    BY <2>1 DEF AlignInv, NoOpenAtEnd
<1>7. NoOpenAtEnd'
  <2> SUFFICES ASSUME \A k \in 1 .. Len(stack') : stack'[k].unprotected,
                      NEW i \in DOMAIN open'
               PROVE  open'[i].from = Unknown
    BY DEF NoOpenAtEnd
  <2>1. \A k \in 1 .. (d - 1) : stack[k].unprotected
    BY <1>1
  <2>2. i \in DOMAIN open /\ open[i].from = Unknown
    BY <1>4, <1>6, <2>1
  <2> QED
    BY <1>1, <1>4, <2>2 DEF Unknown
<1>8. ASSUME NEW i \in DOMAIN gotos
      PROVE  Aligned(gotos[i], open'[gotos[i].ob].from, stack')
  <2> DEFINE k == gotos[i].ob
             from == open[k].from
  <2>1. k \in DOMAIN open
    BY <1>8 DEF AlignInv, GotosOpen
  <2>2. Aligned(gotos[i], from, stack) /\ from \in Unknown .. d
    BY <1>8, <2>1, AlignedEach, FromType DEF AlignInv
  <2>3. open'[k].from = IF from = d THEN d - 1 ELSE from
    BY <1>4, <2>1
  <2>4. CASE from = Unknown
    BY <1>1, <2>3, <2>4 DEF Aligned, Unknown
  <2>5. CASE from # Unknown
    <3>1. d # 1
      <4> SUFFICES ASSUME d = 1 PROVE FALSE
        OBVIOUS
      <4>1. \A m \in 1 .. (d - 1) : stack[m].unprotected
        OBVIOUS
      <4> QED
        BY <1>6, <2>1, <2>5, <4>1
    <3>2. /\ from \in 1 .. d /\ from <= Len(gotos[i].scope)
          /\ \A m \in 1 .. from : stack[m].id = gotos[i].scope[m].id
      BY <2>2, <2>5 DEF Aligned
    <3>3. open'[k].from \in 1 .. (d - 1) /\ open'[k].from <= from
      BY <1>1, <2>3, <3>1, <3>2
    <3>4. Len(gotos[i].scope) \in Nat
      <4>1. gotos \in Seq(Goto)
        BY DEF TypeInv, TypeOK
      <4>2. gotos[i] \in Goto
        BY <1>8, <4>1
      <4>3. gotos[i].scope \in Seq(Block)
        BY <4>2 DEF Goto
      <4> QED
        BY <4>3, StackDomain
    <3> HIDE DEF k, from, d
    <3>5. open'[k].from <= Len(gotos[i].scope)
      BY <1>1, <3>2, <3>3, <3>4
    <3>6. \A m \in 1 .. open'[k].from : stack'[m].id = gotos[i].scope[m].id
      <4> SUFFICES ASSUME NEW m \in 1 .. open'[k].from
                   PROVE  stack'[m].id = gotos[i].scope[m].id
        OBVIOUS
      <4>1. m \in 1 .. from /\ m \in 1 .. (d - 1)
        BY <1>1, <3>2, <3>3
      <4> QED
        BY <1>1, <3>2, <4>1
    <3> QED
      BY <1>1, <3>3, <3>5, <3>6 DEF Aligned, k
  <2> QED
    BY <2>4, <2>5
<1>9. OpenBranchesAligned'
  BY <1>2, <1>8 DEF OpenBranchesAligned, Aligned
<1> QED
  BY <1>5, <1>7, <1>9 DEF AlignInv

LEMMA AlignNext == TypeInv /\ AlignInv /\ TypeInv' /\ [Next]_vars => AlignInv'
<1> SUFFICES ASSUME TypeInv, AlignInv, TypeInv', [Next]_vars PROVE AlignInv'
  OBVIOUS
<1>1. CASE EndPop
  BY <1>1, AlignEndPop
<1>2. CASE ResetBlockTables
  <2>1. open' = <<>> /\ gotos' = <<>>
    BY <1>2 DEF ResetBlockTables
  <2> QED
    BY <2>1 DEF AlignInv, GotosOpen, OpenBranchesAligned, NoOpenAtEnd
<1>3. CASE UNCHANGED vars
  BY <1>3 DEF vars, AlignInv, GotosOpen, OpenBranchesAligned, NoOpenAtEnd
<1>4. CASE BeginPop
  <2>1. /\ gotos' = gotos /\ open' = open /\ LabelsDefined
        /\ stack \in Seq(Block) /\ stack # <<>> /\ SameBlocks(stack, stack')
        /\ \A k \in 1 .. Len(stack) :
             stack'[k].unprotected = (k = Len(stack) \/ stack[k].unprotected)
    BY <1>4, BeginPopStack DEF BeginPop, Statement, TypeInv, TypeOK
  <2>2. Grown(stack, stack')
    BY <2>1, SameBlocksGrown
  <2>3. GotosOpen' /\ OpenBranchesAligned'
    BY <2>1, <2>2, AlignStays
  <2>4. Len(stack) \in Nat /\ Len(stack') = Len(stack)
    BY <2>1, StackDomain DEF SameBlocks
  <2>5. NoOpenAtEnd'
    <3> SUFFICES ASSUME \A k \in 1 .. Len(stack') : stack'[k].unprotected
                 PROVE  \A i \in DOMAIN open' : open'[i].from = Unknown
      BY DEF NoOpenAtEnd
    <3>1. ASSUME NEW k \in 1 .. (Len(stack) - 1) PROVE stack[k].unprotected
      <4>1. k \in 1 .. Len(stack) /\ k # Len(stack) /\ stack'[k].unprotected
        BY <2>4
      <4>2. stack'[k].unprotected = (k = Len(stack) \/ stack[k].unprotected)
        BY <2>1, <4>1
      <4>3. stack[k] \in Block
        BY <2>1, <4>1, StackDomain
      <4> QED
        BY <4>1, <4>2, <4>3 DEF Block
    <3> QED
      BY <2>1, <3>1 DEF LabelsDefined
  <2> QED
    BY <2>3, <2>5, SMTT(40) DEF AlignInv
<1>5. CASE Next /\ ~EndPop /\ ~ResetBlockTables /\ ~BeginPop
  <2>1. Grown(stack, stack')
    BY <1>5, StackGrows
  <2>2. NoOpenAtEnd'
    BY <1>5, TopProtects DEF NoOpenAtEnd
  <2>3. CASE gotos' = gotos /\ open' = open
    BY <2>1, <2>2, <2>3, AlignStays DEF AlignInv
  <2>4. ASSUME NEW l \in Labels, NEW cond \in BOOLEAN, GotoOpen(l, cond)
        PROVE  AlignInv'
    BY <2>2, <2>4, AlignGotoOpen DEF AlignInv
  <2>5. ASSUME NEW l \in Labels, DefineLabel(l)
        PROVE  AlignInv'
    <3>1. /\ gotos' = gotos
          /\ open' = [i \in DOMAIN open |->
                        IF open[i].label = l
                        THEN [open[i] EXCEPT !.from = Unknown, !.to = Len(stack)]
                        ELSE open[i]]
      BY <2>5 DEF DefineLabel
    <3>2. \A i \in DOMAIN open : open[i] \in OpenBranch(Len(stack))
      BY DEF TypeInv, TypeOK
    <3>3. \A i \in DOMAIN open : open'[i].from = open[i].from \/ open'[i].from = Unknown
      <4> SUFFICES ASSUME NEW i \in DOMAIN open
                   PROVE  open'[i].from = open[i].from \/ open'[i].from = Unknown
        OBVIOUS
      <4>1. open[i] \in OpenBranch(Len(stack))
        BY <3>2
      <4> QED
        BY <3>1, <4>1 DEF OpenBranch
    <3>4. DOMAIN open' = DOMAIN open
      BY <3>1
    <3> QED
      BY <2>1, <2>2, <3>1, <3>3, <3>4, AlignStays DEF AlignInv
  <2> QED
    <3>1. \/ gotos' = gotos /\ open' = open
          \/ \E l \in Labels, cond \in BOOLEAN : GotoOpen(l, cond)
          \/ \E l \in Labels : DefineLabel(l)
      BY <1>5 DEF Next, PushBody, PushBlock, PushLoop, SaveStackPointer,
         AddLifetimeEntry, CallMayThrow, Reraise, GotoKnown, Exit, Return, PushHandler
    <3> QED
      BY <2>3, <2>4, <2>5, <3>1
<1> QED
  BY <1>1, <1>2, <1>3, <1>4, <1>5

\* Whatever is compiled, the block of an open branch is fixed up to a level whose
\* block, and those outside it, contain each goto that shares it.
THEOREM OpenBranchesAlwaysAligned == Spec => []OpenBranchesAligned
<1>1. TypeInv /\ [Next]_vars => TypeInv'
  BY TypeNext
<1>2. Init => TypeInv /\ AlignInv
  BY TypeInit DEF Init, AlignInv, GotosOpen, OpenBranchesAligned, NoOpenAtEnd
<1>3. TypeInv /\ AlignInv /\ [Next]_vars => (TypeInv /\ AlignInv)'
  BY <1>1, AlignNext
<1>4. AlignInv => OpenBranchesAligned
  BY DEF AlignInv
<1> QED
  BY <1>2, <1>3, <1>4, PTL DEF Spec

=============================================================================
