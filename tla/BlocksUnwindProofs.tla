------------------------- MODULE BlocksUnwindProofs -------------------------
(***************************************************************************)
(* Theorems about exceptions: the cleanup calls that Blocks emits unwind   *)
(* to a landing pad or a dispatcher that Emit_Handlers emits, those of a   *)
(* block being popped to one outside it, and the chain of dispatchers runs *)
(* the cleanups that Ada requires and ends at the right handler.           *)
(***************************************************************************)
EXTENDS BlocksPathsProofs

\* Block u has, among the open blocks stk or what o holds of the blocks popped so
\* far, the landing pad that a call unwinds to, or
HasPad(u, stk, o) ==
  \/ u = 0
  \/ \E j \in 1 .. Len(stk) : stk[j].id = u /\ stk[j].landingPad
  \/ \E r \in o : r.id = u /\ r.landingPad

\* the dispatcher that another continues to.
HasDispatch(u, stk, o) ==
  \/ u = 0
  \/ \E j \in 1 .. Len(stk) : stk[j].id = u /\ stk[j].dispatch
  \/ \E r \in o : r.id = u

PadsOf(segs, stk, o) == \A i \in DOMAIN segs : HasPad(segs[i].unwind, stk, o)

\* The code of segs does not unwind to a block that it leaves, or one inside it.
Outward(segs) == \A i \in DOMAIN segs : segs[i].unwind < segs[i].blk

-----------------------------------------------------------------------------
(* The code that is emitted                                                *)

LEMMA CleanupUnwinds ==
  ASSUME NEW stk, NEW b
  PROVE  /\ Cleanup(stk, b).unwind \in {0, UnwindTarget(stk)}
         /\ Cleanup(stk, b).blk = b.id
BY DEF Cleanup

LEMMA CallAtEndUnwinds ==
  ASSUME NEW stk, NEW b \in Block
  PROVE  /\ CallAtEnd(stk, b).unwind \in {0, UnwindTarget(stk)}
         /\ CallAtEnd(stk, b).blk = b.id
<1> DEFINE c == [b EXCEPT !.life = FALSE]
<1>1. c.id = b.id
  BY DEF Block
<1>2. Cleanup(stk, c).unwind \in {0, UnwindTarget(stk)} /\ Cleanup(stk, c).blk = c.id
  BY CleanupUnwinds
<1> QED
  BY <1>1, <1>2 DEF CallAtEnd

LEMMA CallAtEndCalls ==
  ASSUME NEW stk, NEW b \in Block
  PROVE  CallsOf(CallAtEnd(stk, b)) = Duty(b)
<1> DEFINE c == [b EXCEPT !.life = FALSE]
<1>1. c \in Block /\ c.id = b.id /\ c.finally = b.finally /\ c.atEnd = b.atEnd
  BY DEF Block
<1>2. CallsOf(Cleanup(stk, c)) = Duty(c)
  BY <1>1, CleanupCalls
<1>3. Duty(c) = Duty(b)
  BY <1>1 DEF Duty
<1> QED
  BY <1>2, <1>3 DEF CallAtEnd

\* Every call of a fixup unwinds to the same block.
LEMMA FixupsUnwind ==
  ASSUME NEW stk \in Seq(Block), stk # <<>>,
         NEW from \in 0 .. Len(stk), NEW to \in 0 .. from
  PROVE  LET segs == Fixups(stk, from, to).segs
         IN  \A i \in DOMAIN segs : segs[i].unwind \in {0, UnwindTarget(stk)}
<1> DEFINE segs == Fixups(stk, from, to).segs
           seg(i) == LET j == from + 1 - i
                     IN  IF Runs(stk, j, from) THEN Cleanup(stk, stk[j])
                                               ELSE Skip(stk[j])
<1>1. segs = [i \in 1 .. (from - to) |-> seg(i)]
  BY DEF Fixups
<1>2. ASSUME NEW i PROVE seg(i).unwind \in {0, UnwindTarget(stk)}
  BY CleanupUnwinds DEF Skip
<1> HIDE DEF seg
<1> QED
  BY <1>1, <1>2

\* The block whose pad the cleanups of the top of the stack use is outside it.
LEMMA TargetOutward ==
  ASSUME NEW stk \in Seq(Block), stk # <<>>, NEW n, StackInv(stk, n)
  PROVE  /\ UnwindTarget(stk) < stk[Len(stk)].id
         /\ 0 < stk[Len(stk)].id
         /\ stk[Len(stk)].id \in Nat
<1> DEFINE d == Len(stk)
           l == LandingPadLevel(Quiet(stk))
<1>1. d \in Nat \ {0} /\ d \in 1 .. d
  BY EmptySeq, StackDomain
<1>2. l # 0 => l \in 1 .. (d - 1)
  BY QuietLevel
<1>3. UnwindTarget(stk) = IF l = 0 THEN 0 ELSE stk[l].id
  BY DEF UnwindTarget
<1>4. stk[d].id \in 1 .. (n - 1) /\ n \in Nat
  BY <1>1 DEF StackInv
<1> HIDE DEF l, d
<1>5. l # 0 => l \in 1 .. d /\ l < d
  BY <1>1, <1>2
<1>6. l # 0 => stk[l].id < stk[d].id
  BY <1>1, <1>5 DEF StackInv, d
<1> QED
  BY <1>3, <1>4, <1>6 DEF d

\* What is emitted at the top of stk has its pad in a later stack t, in which
\* that pad has been requested.
LEMMA EmittedPads ==
  ASSUME NEW stk \in Seq(Block), stk # <<>>, NEW frag, NEW t, NEW o,
         \A i \in DOMAIN frag.segs : frag.segs[i].unwind \in {0, UnwindTarget(stk)},
         LET l == LandingPadLevel(Quiet(stk))
         IN  MayThrow(frag) /\ l # 0 =>
               l \in 1 .. Len(t) /\ t[l].id = stk[l].id /\ t[l].landingPad
  PROVE  PadsOf(frag.segs, t, o)
<1> DEFINE l == LandingPadLevel(Quiet(stk))
<1> SUFFICES ASSUME NEW i \in DOMAIN frag.segs, frag.segs[i].unwind # 0
             PROVE  HasPad(frag.segs[i].unwind, t, o)
  BY DEF PadsOf, HasPad
<1>1. MayThrow(frag) /\ frag.segs[i].unwind = UnwindTarget(stk)
  BY DEF MayThrow
<1>2. l # 0 /\ UnwindTarget(stk) = stk[l].id
  BY <1>1 DEF UnwindTarget
<1>3. l \in 1 .. Len(t) /\ t[l].id = stk[l].id /\ t[l].landingPad
  BY <1>1, <1>2
<1> HIDE DEF l
<1> QED
  BY <1>1, <1>2, <1>3 DEF HasPad

\* The fixup of the block at the top.
LEMMA TopUnwinds ==
  ASSUME NEW stk \in Seq(Block), stk # <<>>, NEW n, StackInv(stk, n)
  PROVE  LET segs == Fixups(stk, Len(stk), Len(stk) - 1).segs
         IN  /\ DOMAIN segs = 1 .. 1
             /\ \A i \in DOMAIN segs : segs[i].unwind \in {0, UnwindTarget(stk)}
             /\ Outward(segs)
<1> DEFINE d == Len(stk)
           e == d - 1
           segs == Fixups(stk, d, e).segs
<1>1. d \in Nat \ {0} /\ d \in 0 .. d /\ e \in 0 .. d /\ d - e = 1 /\ d + 1 - 1 = d
  BY EmptySeq, StackDomain
<1> HIDE DEF e
<1>2. /\ DOMAIN segs = 1 .. (d - e)
      /\ \A i \in 1 .. (d - e) : segs[i].blk = stk[d + 1 - i].id
  BY <1>1, FixupsType
<1>3. \A i \in DOMAIN segs : segs[i].unwind \in {0, UnwindTarget(stk)}
  BY <1>1, FixupsUnwind
<1>4. /\ UnwindTarget(stk) < stk[d].id /\ 0 < stk[d].id
  BY TargetOutward
<1> HIDE DEF segs
<1>5. DOMAIN segs = 1 .. 1 /\ segs[1].blk = stk[d].id
  BY <1>1, <1>2
<1>6. \A i \in DOMAIN segs : i = 1
  BY <1>5
<1>7. Outward(segs)
  BY <1>3, <1>4, <1>5, <1>6 DEF Outward
<1> QED
  BY <1>3, <1>5, <1>7 DEF segs, e

-----------------------------------------------------------------------------
(* What the steps keep                                                     *)

\* Pop_Block decides EH_Work when the block stops protecting; neither its landing
\* pad nor its dispatcher is requested after that.
WorkDecided ==
  \A j \in 1 .. Len(stack) : stack[j].unprotected /\ EHWork(stack[j]) => stack[j].ehWork

LEMMA UndisturbedWork ==
  ASSUME NEW b, NEW c, Undisturbed(b, c), b.unprotected /\ EHWork(b) => b.ehWork
  PROVE  c.unprotected /\ EHWork(c) => c.ehWork
BY DEF Undisturbed, EHWork

LEMMA WorkDecidedNext ==
  ASSUME TypeInv, WorkDecided, [Next]_vars
  PROVE  WorkDecided'
<1> DEFINE d == Len(stack)
<1>1. stack \in Seq(Block) /\ d \in Nat
  BY StackDomain DEF TypeInv, TypeOK
<1>2. CASE UNCHANGED vars
  BY <1>2 DEF vars, WorkDecided
<1>3. CASE ResetBlockTables
  <2>1. Len(stack') = 0
    BY <1>3 DEF ResetBlockTables
  <2> QED
    BY <2>1 DEF WorkDecided
<1>4. CASE EndPop
  <2>1. /\ d \in Nat \ {0} /\ Len(stack') = d - 1
        /\ \A j \in 1 .. (d - 1) : Undisturbed(stack[j], stack'[j])
    BY <1>4, EndPopBlocks
  <2> SUFFICES ASSUME NEW j \in 1 .. (d - 1)
               PROVE  stack'[j].unprotected /\ EHWork(stack'[j]) => stack'[j].ehWork
    BY <2>1 DEF WorkDecided
  <2>2. j \in 1 .. d
    BY <1>1
  <2> QED
    BY <2>1, <2>2, UndisturbedWork DEF WorkDecided
<1>5. CASE BeginPop
  <2>1. /\ Len(stack') = d /\ d \in Nat \ {0}
        /\ \A j \in 1 .. (d - 1) : Undisturbed(stack[j], stack'[j])
        /\ stack'[d].landingPad = stack[d].landingPad
        /\ stack'[d].dispatch = stack[d].dispatch
        /\ stack'[d].ehWork = EHWork(stack[d])
    BY <1>5, BeginPopBlocks
  <2> SUFFICES ASSUME NEW j \in 1 .. d
               PROVE  stack'[j].unprotected /\ EHWork(stack'[j]) => stack'[j].ehWork
    BY <2>1 DEF WorkDecided
  <2>2. CASE j = d
    BY <2>1, <2>2 DEF EHWork
  <2>3. CASE j # d
    <3>1. j \in 1 .. (d - 1)
      BY <1>1, <2>3
    <3> QED
      BY <2>1, <3>1, UndisturbedWork DEF WorkDecided
  <2> QED
    BY <2>2, <2>3
<1>6. CASE Stays(stack, stack')
  BY <1>6, UndisturbedWork DEF Stays, WorkDecided
<1>7. CASE Opens(stack, stack', nextId)
  <2>1. /\ Len(stack') = d + 1
        /\ \A j \in 1 .. d : Undisturbed(stack[j], stack'[j])
        /\ ~stack'[Len(stack')].unprotected
    BY <1>1, <1>7, OpensBlocks DEF JustPushed
  <2>2. \A j \in 1 .. Len(stack') : j = Len(stack') \/ j \in 1 .. d
    BY <1>1, <2>1
  <2> QED
    BY <2>1, <2>2, UndisturbedWork DEF WorkDecided
<1> QED
  BY <1>2, <1>3, <1>4, <1>5, <1>6, <1>7, StatementStays

\* A pad or a dispatcher that was requested is still there, or has been emitted
\* with the block that was popped.
LEMMA PadsKept ==
  ASSUME TypeInv, WorkDecided, [Next]_vars, ~ResetBlockTables, NEW u
  PROVE  /\ HasPad(u, stack, out) => HasPad(u, stack', out')
         /\ HasDispatch(u, stack, out) => HasDispatch(u, stack', out')
<1> DEFINE d == Len(stack)
           r == Dispatched(d)
<1>1. d \in Nat
  BY StackDomain DEF TypeInv, TypeOK
<1>2. CASE UNCHANGED vars
  BY <1>2 DEF vars
<1>3. CASE EndPop
  <2>1. /\ d \in Nat \ {0} /\ Len(stack') = d - 1
        /\ \A j \in 1 .. (d - 1) : Kept(stack[j], stack'[j])
    BY <1>3, EndPopBlocks, UndisturbedKept
  <2>2. /\ stack[d].unprotected
        /\ out' = IF stack[d].ehWork THEN out \cup {r} ELSE out
    BY <1>3 DEF EndPop, Top
  <2>3. r.id = stack[d].id /\ r.landingPad = stack[d].landingPad
    BY DEF Dispatched
  <2>4. stack[d].landingPad \/ stack[d].dispatch => stack[d].ehWork
    BY <2>1, <2>2 DEF WorkDecided, EHWork
  <2>5. \A q \in out : q \in out'
    BY <2>2
  <2>6. stack[d].ehWork => r \in out'
    BY <2>2
  <2>7. \A j \in 1 .. d : j = d \/ j \in 1 .. (d - 1)
    BY <1>1
  <2> HIDE DEF d, r
  <2>8. ASSUME NEW j \in 1 .. d, stack[j].id = u
        PROVE  /\ stack[j].landingPad => HasPad(u, stack', out')
               /\ stack[j].dispatch => HasDispatch(u, stack', out')
    <3>1. CASE j = d
      BY <2>3, <2>4, <2>6, <2>8, <3>1 DEF HasPad, HasDispatch
    <3>2. CASE j # d
      <4>1. j \in 1 .. Len(stack') /\ Kept(stack[j], stack'[j])
        BY <2>1, <2>7, <3>2
      <4> QED
        BY <2>8, <4>1 DEF Kept, HasPad, HasDispatch
    <3> QED
      BY <3>1, <3>2
  <2> QED
    BY <2>5, <2>8 DEF HasPad, HasDispatch, d
<1>4. CASE Next /\ ~EndPop
  <2>1. KeptUpTo(stack, stack', d) /\ (Len(stack') = d \/ Len(stack') = d + 1)
    BY <1>4, StepBlocks
  <2>2. out' = out
    BY <1>4 DEF Next, PushBody, PushBlock, PushLoop, SaveStackPointer,
       AddLifetimeEntry, CallMayThrow, Reraise, GotoKnown, GotoOpen, DefineLabel,
       Exit, Return, BeginPop, PushHandler
  <2>3. \A j \in 1 .. d : /\ j \in 1 .. Len(stack')
                          /\ stack'[j].id = stack[j].id
                          /\ stack[j].landingPad => stack'[j].landingPad
                          /\ stack[j].dispatch => stack'[j].dispatch
    BY <1>1, <2>1 DEF KeptUpTo, Kept
  <2> QED
    BY <2>2, <2>3 DEF HasPad, HasDispatch
<1> QED
  BY <1>2, <1>3, <1>4

LEMMA PadsOfKept ==
  ASSUME TypeInv, WorkDecided, [Next]_vars, ~ResetBlockTables, NEW segs,
         PadsOf(segs, stack, out)
  PROVE  PadsOf(segs, stack', out')
BY PadsKept DEF PadsOf

-----------------------------------------------------------------------------
(* The pads of what is emitted                                             *)

LEMMA EmittingPads ==
  ASSUME NEW stk \in Seq(Block), stk # <<>>, NEW frag, NEW o,
         \A i \in DOMAIN frag.segs : frag.segs[i].unwind \in {0, UnwindTarget(stk)}
  PROVE  PadsOf(frag.segs, AfterEmitting(stk, frag), o)
<1> DEFINE l == LandingPadLevel(Quiet(stk))
           t == AfterEmitting(stk, frag)
<1>1. Stays(stk, t) /\ (MayThrow(frag) /\ l # 0 => t[l].landingPad)
  BY EmittingStays
<1>2. l # 0 => l \in 1 .. (Len(stk) - 1)
  BY QuietLevel
<1>3. Len(stk) \in Nat /\ Len(t) = Len(stk) /\ \A j \in 1 .. Len(stk) : t[j].id = stk[j].id
  BY <1>1, StackDomain DEF Stays, Undisturbed, Kept
<1> HIDE DEF t
<1>4. MayThrow(frag) /\ l # 0 =>
        l \in 1 .. Len(t) /\ t[l].id = stk[l].id /\ t[l].landingPad
  <2> HIDE DEF l
  <2> QED
    BY <1>1, <1>2, <1>3
<1>5. PadsOf(frag.segs, t, o)
  BY <1>4, EmittedPads
<1> QED
  BY <1>5 DEF t

\* The pads of a cached fixup, if there is one.
CachedPads(c, stk, o) == c.from # Unknown => PadsOf(c.fixup.segs, stk, o)

\* A jump that uses the cached fixup c, or makes it.
LEMMA UsedPads ==
  ASSUME TypeInv, stack # <<>>, NEW c, CachedPads(c, stack, out),
         NEW to \in 0 .. Len(stack), NEW frag,
         frag = IF Cached(c) THEN c.fixup ELSE Fixups(stack, Len(stack), to),
         stack' = IF Cached(c) THEN stack ELSE AfterEmitting(stack, frag)
  PROVE  PadsOf(frag.segs, stack', out)
<1>1. CASE Cached(c)
  <2>1. c.from # Unknown
    BY <1>1, StackDomain DEF Cached, Unknown, TypeInv, TypeOK
  <2> QED
    BY <1>1, <2>1 DEF CachedPads
<1>2. CASE ~Cached(c)
  <2>1. /\ stack \in Seq(Block) /\ Len(stack) \in 0 .. Len(stack)
    BY StackDomain DEF TypeInv, TypeOK
  <2>2. frag = Fixups(stack, Len(stack), to) /\ stack' = AfterEmitting(stack, frag)
    BY <1>2
  <2>3. \A i \in DOMAIN frag.segs : frag.segs[i].unwind \in {0, UnwindTarget(stack)}
    BY <2>1, <2>2, FixupsUnwind
  <2> QED
    BY <2>1, <2>2, <2>3, EmittingPads
<1> QED
  BY <1>1, <1>2

LEMMA FallUnwinds ==
  ASSUME TypeInv, StackInv(stack, nextId), BeginPop
  PROVE  \A i \in DOMAIN done' : /\ PadsOf(done'[i].frag.segs, stack', out')
                                 /\ Outward(done'[i].frag.segs)
<1> DEFINE d == Len(stack)
           q == Quiet(stack)
           frag == Fixups(q, d, d - 1)
           x == [kind |-> "fall", scope |-> stack, to |-> d - 1, frag |-> frag]
           l == LandingPadLevel(Quiet(q))
<1>1. /\ stack \in Seq(Block) /\ stack # <<>> /\ d \in Nat \ {0} /\ StackInv(q, nextId)
  BY QuietInv, EmptySeq DEF TypeInv, TypeOK, BeginPop, Statement
<1>2. /\ q \in Seq(Block) /\ Len(q) = d /\ \A j \in 1 .. (d - 1) : q[j] = stack[j]
  <2>1. /\ q \in Seq(Block) /\ Len(q) = d
        /\ \A j \in 1 .. d : j # d => q[j] = stack[j]
    BY <1>1, QuietBlocks
  <2>2. \A j \in 1 .. (d - 1) : j \in 1 .. d /\ j # d
    BY <1>1
  <2> QED
    BY <2>1, <2>2
<1>3. q # <<>>
  BY <1>1, <1>2, EmptySeq
<1>4. /\ Len(stack') = d /\ \A j \in 1 .. (d - 1) : stack'[j].id = stack[j].id
      /\ done' # <<>> /\ MayThrow(frag) /\ l # 0 => stack'[l].landingPad
  BY BeginPopBlocks DEF Undisturbed, Kept
<1>5. l # 0 => l \in 1 .. (d - 1)
  BY <1>2, <1>3, QuietLevel
<1>6. done' = <<>> \/ done' = <<x>>
  BY DEF BeginPop, Compiled, Quiet
<1>7. x.frag = frag
  OBVIOUS
<1>8. /\ \A i \in DOMAIN frag.segs : frag.segs[i].unwind \in {0, UnwindTarget(q)}
      /\ Outward(frag.segs)
  BY <1>1, <1>2, <1>3, TopUnwinds
<1> HIDE DEF q, frag, x, d
<1>9. done' # <<>> /\ MayThrow(frag) /\ l # 0 =>
        l \in 1 .. Len(stack') /\ stack'[l].id = q[l].id /\ stack'[l].landingPad
  <2> HIDE DEF l
  <2> QED
    BY <1>1, <1>2, <1>4, <1>5
<1>10. done' # <<>> => PadsOf(frag.segs, stack', out')
  BY <1>2, <1>3, <1>8, <1>9, EmittedPads
<1>11. \A i \in DOMAIN done' : done'[i] = x /\ done' # <<>>
  BY <1>6
<1> QED
  BY <1>7, <1>8, <1>10, <1>11

\* The fixup that the end of a pop adds to the open branches of its level.
LEMMA EndPopFixup ==
  ASSUME TypeInv, StackInv(stack, nextId), EndPop
  PROVE  LET d == Len(stack)
             frag == Fixups(stack, d, d - 1)
         IN  /\ DOMAIN frag.segs = 1 .. 1
             /\ Outward(frag.segs)
             /\ \A i \in DOMAIN open : open[i].from = d => PadsOf(frag.segs, stack', out')
<1> DEFINE d == Len(stack)
           frag == Fixups(stack, d, d - 1)
           l == LandingPadLevel(Quiet(stack))
<1>1. stack \in Seq(Block) /\ stack # <<>>
  BY DEF TypeInv, TypeOK, EndPop
<1>2. /\ d \in Nat \ {0} /\ Len(stack') = d - 1
      /\ \A j \in 1 .. (d - 1) : stack'[j].id = stack[j].id
      /\ (\E i \in DOMAIN open : open[i].from = d) /\ MayThrow(frag) /\ l # 0
           => stack'[l].landingPad
  BY EndPopBlocks DEF Undisturbed, Kept
<1>3. l # 0 => l \in 1 .. (d - 1)
  BY <1>1, QuietLevel
<1>4. /\ DOMAIN frag.segs = 1 .. 1 /\ Outward(frag.segs)
      /\ \A i \in DOMAIN frag.segs : frag.segs[i].unwind \in {0, UnwindTarget(stack)}
  BY <1>1, TopUnwinds
<1> HIDE DEF frag
<1>5. ASSUME NEW i \in DOMAIN open, open[i].from = d
      PROVE  PadsOf(frag.segs, stack', out')
  <2>1. MayThrow(frag) /\ l # 0 =>
          l \in 1 .. Len(stack') /\ stack'[l].id = stack[l].id /\ stack'[l].landingPad
    <3> HIDE DEF l, d
    <3> QED
      BY <1>2, <1>3, <1>5
  <2> QED
    BY <1>1, <1>4, <2>1, EmittedPads
<1> QED
  BY <1>4, <1>5 DEF frag

\* What Emit_Handlers emits for a block.
LEMMA DispatchedUnwinds ==
  ASSUME TypeInv, StackInv(stack, nextId), EndPop, stack[Len(stack)].ehWork
  PROVE  LET r == Dispatched(Len(stack))
         IN  /\ HasPad(r.self.unwind, stack', out')
             /\ PadsOf(r.rest.segs, stack', out')
             /\ HasDispatch(r.to, stack', out')
             /\ r.self.unwind < r.self.blk
<1> DEFINE d == Len(stack)
           e == d - 1
           r == Dispatched(d)
           l == LandingPadLevel(Quiet(stack))
           j == OuterDispatch(d)
           own == [segs |-> <<r.self>>, restore |-> 0]
<1>1. stack \in Seq(Block) /\ stack # <<>> /\ d \in Nat \ {0} /\ e \in 0 .. d
  BY StackDomain, EmptySeq DEF TypeInv, TypeOK, EndPop
<1>2. /\ Len(stack') = e
      /\ \A k \in 1 .. e : stack'[k].id = stack[k].id
      /\ l # 0 => stack'[l].landingPad \/ (~MayThrow(r.rest) /\ ~MayThrow(own))
      /\ j # 0 => stack'[j].dispatch
  BY EndPopBlocks DEF Undisturbed, Kept
<1>3. l # 0 => l \in 1 .. e
  BY <1>1, QuietLevel
<1>4. j \in 0 .. e
  BY <1>1, OuterDispatchType
<1>5. /\ r.self = CallAtEnd(stack, stack[d])
      /\ r.rest = IF j = 0 THEN NoFragment ELSE Fixups(stack, e, j)
      /\ r.to = IF j = 0 THEN 0 ELSE stack[j].id
  BY DEF Dispatched
<1>6. own.segs = <<r.self>>
  OBVIOUS
<1> HIDE DEF r, own, j
<1>7. r.self.unwind \in {0, UnwindTarget(stack)} /\ r.self.blk = stack[d].id
  BY <1>1, <1>5, CallAtEndUnwinds, StackDomain
<1>8. \A i \in DOMAIN r.rest.segs : r.rest.segs[i].unwind \in {0, UnwindTarget(stack)}
  <2>1. CASE j = 0
    BY <1>5, <2>1 DEF NoFragment
  <2>2. CASE j # 0
    <3> HIDE DEF e
    <3> QED
      BY <1>1, <1>4, <1>5, <2>2, FixupsUnwind
  <2> QED
    BY <2>1, <2>2
<1>9. \A i \in DOMAIN own.segs : own.segs[i].unwind \in {0, UnwindTarget(stack)}
  BY <1>6, <1>7
<1>10. ASSUME NEW frag, frag = r.rest \/ frag = own
       PROVE  MayThrow(frag) /\ l # 0 =>
                l \in 1 .. Len(stack') /\ stack'[l].id = stack[l].id /\ stack'[l].landingPad
  <2> HIDE DEF l, e
  <2> QED
    BY <1>2, <1>3, <1>10
<1>11. PadsOf(r.rest.segs, stack', out') /\ PadsOf(own.segs, stack', out')
  BY <1>1, <1>8, <1>9, <1>10, EmittedPads
<1>12. HasPad(r.self.unwind, stack', out')
  <2>1. 1 \in DOMAIN own.segs /\ own.segs[1] = r.self
    BY <1>6
  <2> QED
    BY <1>11, <2>1 DEF PadsOf
<1>13. HasDispatch(r.to, stack', out')
  <2>1. j # 0 => j \in 1 .. Len(stack') /\ stack'[j].id = stack[j].id
    <3> HIDE DEF e
    <3> QED
      BY <1>1, <1>2, <1>4
  <2> QED
    BY <1>2, <1>5, <2>1 DEF HasDispatch
<1>14. r.self.unwind < r.self.blk
  <2>1. UnwindTarget(stack) < stack[d].id /\ 0 < stack[d].id
    BY <1>1, TargetOutward
  <2> QED
    BY <1>7, <2>1
<1> QED
  BY <1>11, <1>12, <1>13, <1>14 DEF r

-----------------------------------------------------------------------------
(* The cached fixups                                                       *)

TablesHavePads ==
  /\ \A l \in Labels : CachedPads(labels[l], stack, out)
  /\ \A i \in DOMAIN exits : CachedPads(exits[i], stack, out)

\* The jumps compiled with a cached fixup, and the caches they leave.
LEMMA GotoKnownPads ==
  ASSUME TypeInv, WorkDecided, TablesHavePads,
         NEW l \in Labels, NEW cond \in BOOLEAN, GotoKnown(l, cond)
  PROVE  /\ \A k \in Labels : CachedPads(labels'[k], stack', out')
         /\ \A i \in DOMAIN done' : /\ PadsOf(done'[i].frag.segs, stack', out')
                                    /\ done'[i].kind # "fall"
<1> DEFINE d == Len(stack)
           c == labels[l]
           to == c.depth
           frag == IF Cached(c) THEN c.fixup ELSE Fixups(stack, d, to)
           x == [kind |-> "goto", scope |-> stack, to |-> to, frag |-> frag]
<1>1. /\ stack # <<>> /\ d \in Nat /\ DOMAIN stack = 1 .. d
      /\ labels \in [Labels -> LabelData(d)] /\ [Next]_vars /\ ~ResetBlockTables
  BY StackDomain DEF TypeInv, TypeOK, GotoKnown, Statement, Next, ResetBlockTables
<1>2. to \in 0 .. d
  BY <1>1 DEF GotoKnown, Visible
<1>3. /\ labels' = [labels EXCEPT ![l].from = d, ![l].fixup = frag]
      /\ stack' = IF Cached(c) THEN stack ELSE AfterEmitting(stack, frag)
      /\ done' = <<x>> /\ out' = out
  BY DEF GotoKnown, Compiled
<1>4. x.frag = frag /\ x.kind # "fall"
  OBVIOUS
<1>5. labels'[l].fixup = frag /\ \A k \in Labels : k # l => labels'[k] = labels[k]
  <2>1. labels[l] \in LabelData(d)
    BY <1>1
  <2> HIDE DEF frag, d
  <2> QED
    BY <1>1, <1>3, <2>1 DEF LabelData
<1>6. frag = IF Cached(c) THEN c.fixup ELSE Fixups(stack, d, to)
  OBVIOUS
<1> HIDE DEF frag, x, to
<1>7. CachedPads(c, stack, out)
  BY DEF TablesHavePads
<1>8. PadsOf(frag.segs, stack', out')
  BY <1>1, <1>2, <1>3, <1>6, <1>7, UsedPads
<1>9. \A k \in Labels : CachedPads(labels[k], stack', out')
  BY <1>1, PadsOfKept DEF TablesHavePads, CachedPads
<1>10. \A k \in Labels : CachedPads(labels'[k], stack', out')
  BY <1>5, <1>8, <1>9 DEF CachedPads
<1>11. \A i \in DOMAIN done' : done'[i] = x
  BY <1>3
<1> QED
  BY <1>4, <1>8, <1>10, <1>11

LEMMA ExitPads ==
  ASSUME TypeInv, WorkDecided, TablesHavePads,
         NEW i \in DOMAIN exits, NEW cond \in BOOLEAN, Exit(i, cond)
  PROVE  /\ \A k \in DOMAIN exits' : CachedPads(exits'[k], stack', out')
         /\ \A k \in DOMAIN done' : /\ PadsOf(done'[k].frag.segs, stack', out')
                                    /\ done'[k].kind # "fall"
<1> DEFINE d == Len(stack)
           c == exits[i]
           to == c.depth
           frag == IF Cached(c) THEN c.fixup ELSE Fixups(stack, d, to)
           x == [kind |-> "exit", scope |-> stack, to |-> to, frag |-> frag]
<1>1. /\ stack # <<>> /\ d \in Nat /\ [Next]_vars /\ ~ResetBlockTables
      /\ exits \in Seq(ExitPoint(d)) /\ exits[i] \in ExitPoint(d)
  BY StackDomain, LenProperties, ElementOfSeq
     DEF TypeInv, TypeOK, Exit, Statement, Next, ResetBlockTables
<1>2. to \in 0 .. d
  BY <1>1 DEF ExitPoint
<1>3. /\ exits' = [exits EXCEPT ![i].from = d, ![i].fixup = frag]
      /\ stack' = IF Cached(c) THEN stack ELSE AfterEmitting(stack, frag)
      /\ done' = <<x>> /\ out' = out
  BY DEF Exit, Compiled
<1>4. x.frag = frag /\ x.kind # "fall"
  OBVIOUS
<1>5. exits'[i].fixup = frag
  <2> HIDE DEF frag, d
  <2> QED
    BY <1>1, <1>3 DEF ExitPoint
<1>6. DOMAIN exits' = DOMAIN exits /\ \A k \in DOMAIN exits : k # i => exits'[k] = exits[k]
  BY <1>3
<1>7. frag = IF Cached(c) THEN c.fixup ELSE Fixups(stack, d, to)
  OBVIOUS
<1> HIDE DEF frag, x, to
<1>8. CachedPads(c, stack, out)
  BY DEF TablesHavePads
<1>9. PadsOf(frag.segs, stack', out')
  BY <1>1, <1>2, <1>3, <1>7, <1>8, UsedPads
<1>10. \A k \in DOMAIN exits : CachedPads(exits[k], stack', out')
  BY <1>1, PadsOfKept DEF TablesHavePads, CachedPads
<1>11. \A k \in DOMAIN exits' : CachedPads(exits'[k], stack', out')
  BY <1>5, <1>6, <1>9, <1>10 DEF CachedPads
<1>12. \A k \in DOMAIN done' : done'[k] = x
  BY <1>3
<1> QED
  BY <1>4, <1>9, <1>11, <1>12

LEMMA TablesPadsNext ==
  ASSUME TypeInv, WorkDecided, TablesHavePads, [Next]_vars
  PROVE  TablesHavePads'
<1>1. ASSUME NEW c, c.from = Unknown PROVE CachedPads(c, stack', out')
  BY <1>1 DEF CachedPads
<1>2. CASE EndPop
  BY <1>1, <1>2, EndPopClears DEF TablesHavePads
<1>3. CASE ResetBlockTables
  <2>1. exits = <<>>
    <3>1. exits \in Seq(ExitPoint(0))
      BY <1>3 DEF ResetBlockTables, TypeInv, TypeOK
    <3>2. \A i \in DOMAIN exits : FALSE
      BY <1>3 DEF ResetBlockTables, TypeInv, LoopsMatch
    <3> QED
      BY <3>1, <3>2
  <2>2. exits' = <<>> /\ labels' = [l \in Labels |-> NoLabel]
    BY <1>3, <2>1 DEF ResetBlockTables
  <2>3. NoLabel.from = Unknown
    BY DEF NoLabel
  <2> QED
    BY <1>1, <2>2, <2>3 DEF TablesHavePads
<1>4. CASE ~ResetBlockTables /\ ~EndPop
  <2>1. /\ \A l \in Labels : CachedPads(labels[l], stack', out')
        /\ \A i \in DOMAIN exits : CachedPads(exits[i], stack', out')
    BY <1>4, PadsOfKept DEF TablesHavePads, CachedPads
  <2>2. CASE labels' = labels /\ exits' = exits
    BY <2>1, <2>2 DEF TablesHavePads
  <2>3. ASSUME NEW l \in Labels, NEW cond \in BOOLEAN, GotoKnown(l, cond)
        PROVE  TablesHavePads'
    <3>1. exits' = exits
      BY <2>3 DEF GotoKnown
    <3>2. \A k \in Labels : CachedPads(labels'[k], stack', out')
      BY <2>3, GotoKnownPads
    <3> QED
      BY <2>1, <3>1, <3>2 DEF TablesHavePads
  <2>4. ASSUME NEW i \in DOMAIN exits, NEW cond \in BOOLEAN, Exit(i, cond)
        PROVE  TablesHavePads'
    <3>1. labels' = labels
      BY <2>4 DEF Exit
    <3>2. \A k \in DOMAIN exits' : CachedPads(exits'[k], stack', out')
      BY <2>4, ExitPads
    <3> QED
      BY <2>1, <3>1, <3>2 DEF TablesHavePads
  <2>5. ASSUME NEW l \in Labels, DefineLabel(l)
        PROVE  TablesHavePads'
    <3> DEFINE d == Len(stack)
    <3>1. /\ exits' = exits
          /\ labels' = [labels EXCEPT ![l].depth = d, ![l].owner = Top.id]
      BY <2>5 DEF DefineLabel
    <3>2. /\ labels \in [Labels -> LabelData(d)] /\ labels[l] \in LabelData(d)
      BY DEF TypeInv, TypeOK
    <3>3. /\ labels'[l].from = labels[l].from /\ labels'[l].fixup = labels[l].fixup
          /\ \A k \in Labels : k # l => labels'[k] = labels[k]
      <4> HIDE DEF d
      <4> QED
        BY <3>1, <3>2 DEF LabelData
    <3>4. CachedPads(labels'[l], stack', out')
      BY <2>1, <3>3 DEF CachedPads
    <3> QED
      BY <2>1, <3>1, <3>3, <3>4 DEF TablesHavePads
  <2>6. CASE PushLoop
    <3> DEFINE x == [depth |-> Len(stack), from |-> Unknown, fixup |-> NoFragment]
               S == ExitPoint(Len(stack))
    <3>1. labels' = labels /\ exits' = Append(exits, x) /\ exits \in Seq(S)
      BY <2>6 DEF PushLoop, TypeInv, TypeOK
    <3>2. CachedPads(x, stack', out')
      BY <1>1
    <3> HIDE DEF x, S
    <3>3. \A i \in DOMAIN exits' : exits'[i] = x \/ (i \in DOMAIN exits /\ exits'[i] = exits[i])
      BY <3>1
    <3> QED
      BY <2>1, <3>1, <3>2, <3>3 DEF TablesHavePads
  <2> QED
    <3>1. \/ labels' = labels /\ exits' = exits
          \/ \E l \in Labels, cond \in BOOLEAN : GotoKnown(l, cond)
          \/ \E i \in DOMAIN exits, cond \in BOOLEAN : Exit(i, cond)
          \/ \E l \in Labels : DefineLabel(l)
          \/ PushLoop
      BY <1>4 DEF Next, PushBody, PushBlock, SaveStackPointer, AddLifetimeEntry,
         CallMayThrow, Reraise, GotoOpen, Return, BeginPop, PushHandler, vars
    <3> QED
      BY <2>2, <2>3, <2>4, <2>5, <2>6, <3>1
<1> QED
  BY <1>2, <1>3, <1>4

-----------------------------------------------------------------------------
(* The transfers of control just compiled, and the open branches           *)

DoneHasPads ==
  \A i \in DOMAIN done : /\ PadsOf(done[i].frag.segs, stack, out)
                         /\ done[i].kind = "fall" => Outward(done[i].frag.segs)

LEMMA DonePadsNext ==
  ASSUME TypeInv, StackInv(stack, nextId), WorkDecided, TablesHavePads, DoneHasPads,
         [Next]_vars
  PROVE  DoneHasPads'
<1>1. CASE BeginPop
  BY <1>1, FallUnwinds DEF DoneHasPads
<1>2. CASE Return
  <2> DEFINE d == Len(stack)
             frag == Fixups(stack, d, 0)
             x == [kind |-> "return", scope |-> stack, to |-> 0, frag |-> frag]
  <2>1. /\ stack \in Seq(Block) /\ stack # <<>> /\ d \in 0 .. Len(stack) /\ 0 \in 0 .. d
    BY <1>2, StackDomain DEF TypeInv, TypeOK, Return, Statement
  <2>2. done' = <<x>> /\ stack' = AfterEmitting(stack, frag)
    BY <1>2 DEF Return, Compiled
  <2>3. x.frag = frag /\ x.kind # "fall"
    OBVIOUS
  <2>4. \A i \in DOMAIN frag.segs : frag.segs[i].unwind \in {0, UnwindTarget(stack)}
    BY <2>1, FixupsUnwind
  <2> HIDE DEF frag, x
  <2>5. PadsOf(frag.segs, stack', out')
    BY <2>1, <2>2, <2>4, EmittingPads
  <2>6. \A i \in DOMAIN done' : done'[i] = x
    BY <2>2
  <2> QED
    BY <2>3, <2>5, <2>6 DEF DoneHasPads
<1>3. ASSUME NEW l \in Labels, NEW cond \in BOOLEAN, GotoKnown(l, cond)
      PROVE  DoneHasPads'
  BY <1>3, GotoKnownPads DEF DoneHasPads
<1>4. ASSUME NEW i \in DOMAIN exits, NEW cond \in BOOLEAN, Exit(i, cond)
      PROVE  DoneHasPads'
  BY <1>4, ExitPads DEF DoneHasPads
<1>5. CASE done' = <<>>
  BY <1>5 DEF DoneHasPads
<1>6. CASE UNCHANGED vars
  BY <1>6 DEF vars, DoneHasPads
<1>7. ASSUME Next
      PROVE  \/ BeginPop \/ Return \/ done' = <<>>
             \/ \E l \in Labels, cond \in BOOLEAN : GotoKnown(l, cond)
             \/ \E i \in DOMAIN exits, cond \in BOOLEAN : Exit(i, cond)
  BY <1>7 DEF Next, PushBody, PushBlock, PushLoop, Pushed, SaveStackPointer,
     AddLifetimeEntry, CallMayThrow, Reraise, GotoOpen, DefineLabel, PushHandler,
     EndPop, ResetBlockTables
<1> QED
  BY <1>1, <1>2, <1>3, <1>4, <1>5, <1>6, <1>7

\* The code of an open branch.
CodePads(code, stk, o) ==
  \A k \in 1 .. Len(code) : PadsOf(code[k].segs, stk, o) /\ Outward(code[k].segs)

BranchesHavePads == \A i \in DOMAIN open : CodePads(open[i].code, stack, out)

\* Only the end of a pop adds to the code of an open branch.
LEMMA CodeKept ==
  ASSUME TypeInv, AlignInv, [Next]_vars, ~EndPop, ~ResetBlockTables
  PROVE  \A i \in DOMAIN open' : \/ open'[i].code = <<>>
                                 \/ i \in DOMAIN open /\ open'[i].code = open[i].code
<1> DEFINE n == Len(stack)
<1>1. open \in Seq(OpenBranch(n)) /\ \A i \in DOMAIN open : open[i] \in OpenBranch(n)
  BY JumpTypes DEF TypeInv, TypeOK
<1> HIDE DEF n
<1>2. CASE open' = open
  BY <1>2
<1>3. ASSUME NEW l \in Labels, NEW cond \in BOOLEAN, GotoOpen(l, cond)
      PROVE  \A i \in DOMAIN open' : \/ open'[i].code = <<>>
                                     \/ i \in DOMAIN open /\ open'[i].code = open[i].code
  <2> DEFINE j == OpenEntry(l)
             made == IF Written(open[j]) THEN Len(open[j].code) ELSE open[j].made
             fresh == [label |-> l, code |-> <<>>, made |-> 0, from |-> n, to |-> Unknown]
  <2>1. open' = [open EXCEPT ![j].made = made] \/ open' = Append(open, fresh)
    BY <1>3 DEF GotoOpen, n
  <2>2. fresh.code = <<>>
    OBVIOUS
  <2> HIDE DEF j, made, fresh
  <2>3. CASE open' = [open EXCEPT ![j].made = made]
    BY <1>1, <2>3 DEF OpenBranch
  <2>4. CASE open' = Append(open, fresh)
    <3>1. \A i \in DOMAIN open' : open'[i] = fresh \/ (i \in DOMAIN open /\ open'[i] = open[i])
      BY <1>1, <2>4
    <3> QED
      BY <2>2, <3>1
  <2> QED
    BY <2>1, <2>3, <2>4
<1>4. ASSUME NEW l \in Labels, DefineLabel(l)
      PROVE  \A i \in DOMAIN open' : i \in DOMAIN open /\ open'[i].code = open[i].code
  <2>1. open' = [i \in DOMAIN open |->
                   IF open[i].label = l
                   THEN [open[i] EXCEPT !.from = Unknown, !.to = Len(stack)]
                   ELSE open[i]]
    BY <1>4 DEF DefineLabel
  <2> QED
    BY <1>1, <2>1 DEF OpenBranch
<1> QED
  <2>1. \/ open' = open
        \/ \E l \in Labels, cond \in BOOLEAN : GotoOpen(l, cond)
        \/ \E l \in Labels : DefineLabel(l)
    BY DEF Next, PushBody, PushBlock, PushLoop, SaveStackPointer, AddLifetimeEntry,
       CallMayThrow, Reraise, GotoKnown, Exit, Return, BeginPop, PushHandler, vars
  <2> QED
    BY <1>2, <1>3, <1>4, <2>1

LEMMA BranchPadsNext ==
  ASSUME TypeInv, AlignInv, StackInv(stack, nextId), WorkDecided, BranchesHavePads,
         [Next]_vars
  PROVE  BranchesHavePads'
<1>1. CASE ResetBlockTables
  BY <1>1 DEF ResetBlockTables, BranchesHavePads
<1>2. ASSUME NEW code, CodePads(code, stack, out), ~ResetBlockTables
      PROVE  CodePads(code, stack', out')
  BY <1>2, PadsOfKept DEF CodePads
<1>3. CASE ~ResetBlockTables /\ ~EndPop
  <2> SUFFICES ASSUME NEW i \in DOMAIN open' PROVE CodePads(open'[i].code, stack', out')
    BY DEF BranchesHavePads
  <2>1. CASE open'[i].code = <<>>
    BY <2>1 DEF CodePads
  <2>2. CASE i \in DOMAIN open /\ open'[i].code = open[i].code
    BY <1>2, <1>3, <2>2 DEF BranchesHavePads
  <2> QED
    BY <1>3, <2>1, <2>2, CodeKept
<1>4. CASE EndPop
  <2> DEFINE d == Len(stack)
             e == d - 1
             frag == Fixups(stack, d, e)
  <2>1. /\ Outward(frag.segs)
        /\ \A i \in DOMAIN open : open[i].from = d => PadsOf(frag.segs, stack', out')
    BY <1>4, EndPopFixup
  <2>2. frag \in Fragment
    <3>1. stack \in Seq(Block) /\ stack # <<>> /\ d \in Nat \ {0}
      BY <1>4, EndPopBlocks DEF TypeInv, TypeOK, EndPop
    <3>2. d \in 0 .. d /\ e \in 0 .. d
      BY <3>1
    <3> HIDE DEF e
    <3> QED
      BY <3>1, <3>2, FixupsType
  <2>3. open' = FixedUp(d, frag) /\ ~ResetBlockTables
    BY <1>4 DEF EndPop, ResetBlockTables
  <2>4. \A i \in DOMAIN open : /\ open[i] \in OpenBranch(d) /\ open[i].code \in Seq(Fragment)
                               /\ Len(open[i].code) \in Nat
    BY JumpTypes
  <2> HIDE DEF frag, d, e
  <2> SUFFICES ASSUME NEW i \in DOMAIN open' PROVE CodePads(open'[i].code, stack', out')
    BY DEF BranchesHavePads
  <2> DEFINE o == open[i]
             c == Append(o.code, frag)
  <2>5. i \in DOMAIN open /\ CodePads(o.code, stack', out')
    BY <1>2, <2>3 DEF FixedUp, BranchesHavePads
  <2>6. CASE o.from # d
    <3>1. open'[i] = o
      BY <2>3, <2>5, <2>6 DEF FixedUp
    <3> QED
      BY <2>5, <3>1
  <2>7. CASE o.from = d
    <3>1. open'[i].code = c
      <4>1. open'[i] = [o EXCEPT !.code = c, !.from = d - 1] /\ o \in OpenBranch(d)
        BY <2>3, <2>4, <2>5, <2>7 DEF FixedUp
      <4> HIDE DEF o, c
      <4> QED
        BY <4>1 DEF OpenBranch
    <3>2. /\ Len(c) = Len(o.code) + 1 /\ c[Len(o.code) + 1] = frag
          /\ \A k \in 1 .. Len(o.code) : c[k] = o.code[k]
      BY <2>2, <2>4, <2>5, AppendProperties
    <3>3. Len(o.code) \in Nat /\ PadsOf(frag.segs, stack', out')
      BY <2>1, <2>4, <2>5, <2>7
    <3> HIDE DEF c, o
    <3>4. \A k \in 1 .. Len(c) : k = Len(o.code) + 1 \/ k \in 1 .. Len(o.code)
      BY <3>2, <3>3
    <3> QED
      BY <2>1, <2>5, <3>1, <3>2, <3>3, <3>4 DEF CodePads
  <2> QED
    BY <2>6, <2>7
<1> QED
  BY <1>1, <1>3, <1>4

-----------------------------------------------------------------------------
(* The dispatchers of the blocks popped so far                             *)

OutHasPads ==
  \A r \in out : /\ HasPad(r.self.unwind, stack, out)
                 /\ PadsOf(r.rest.segs, stack, out)
                 /\ HasDispatch(r.to, stack, out)
                 /\ r.self.unwind < r.self.blk

LEMMA OutPadsNext ==
  ASSUME TypeInv, StackInv(stack, nextId), WorkDecided, OutHasPads, [Next]_vars
  PROVE  OutHasPads'
<1>1. CASE ResetBlockTables
  BY <1>1 DEF ResetBlockTables, OutHasPads
<1>2. ASSUME ~ResetBlockTables, NEW r \in out
      PROVE  /\ HasPad(r.self.unwind, stack', out')
             /\ PadsOf(r.rest.segs, stack', out')
             /\ HasDispatch(r.to, stack', out')
             /\ r.self.unwind < r.self.blk
  BY <1>2, PadsKept, PadsOfKept DEF OutHasPads
<1>3. CASE EndPop
  <2> DEFINE r == Dispatched(Len(stack))
  <2>1. ~ResetBlockTables
    BY <1>3 DEF EndPop, ResetBlockTables
  <2>2. out' = IF stack[Len(stack)].ehWork THEN out \cup {r} ELSE out
    BY <1>3 DEF EndPop, Top
  <2>3. stack[Len(stack)].ehWork => /\ HasPad(r.self.unwind, stack', out')
                                    /\ PadsOf(r.rest.segs, stack', out')
                                    /\ HasDispatch(r.to, stack', out')
                                    /\ r.self.unwind < r.self.blk
    BY <1>3, DispatchedUnwinds
  <2> HIDE DEF r
  <2> QED
    BY <1>2, <2>1, <2>2, <2>3 DEF OutHasPads
<1>4. CASE ~EndPop /\ ~ResetBlockTables
  <2>1. out' = out
    BY <1>4 DEF Next, PushBody, PushBlock, PushLoop, SaveStackPointer,
       AddLifetimeEntry, CallMayThrow, Reraise, GotoKnown, GotoOpen, DefineLabel,
       Exit, Return, BeginPop, PushHandler, vars
  <2> QED
    BY <1>2, <1>4, <2>1 DEF OutHasPads
<1> QED
  BY <1>1, <1>3, <1>4

-----------------------------------------------------------------------------
(* Theorems                                                                *)

\* The inductive invariant of the two properties.
UnwindInv ==
  /\ CleanupInv
  /\ WorkDecided
  /\ TablesHavePads
  /\ DoneHasPads
  /\ BranchesHavePads
  /\ OutHasPads

LEMMA UnwindInit == Init => UnwindInv
<1> SUFFICES ASSUME Init PROVE UnwindInv
  OBVIOUS
<1>1. /\ Len(stack) = 0 /\ done = <<>> /\ open = <<>> /\ exits = <<>> /\ out = {}
      /\ \A l \in Labels : labels[l].from = Unknown
  BY DEF Init, NoLabel
<1> QED
  BY <1>1, CleanupInit DEF UnwindInv, WorkDecided, TablesHavePads, CachedPads,
     DoneHasPads, BranchesHavePads, OutHasPads

LEMMA UnwindNext == UnwindInv /\ [Next]_vars => UnwindInv'
<1> SUFFICES ASSUME UnwindInv, [Next]_vars PROVE UnwindInv'
  OBVIOUS
<1>1. /\ TypeInv /\ AlignInv /\ StackInv(stack, nextId) /\ WorkDecided
      /\ TablesHavePads /\ DoneHasPads /\ BranchesHavePads /\ OutHasPads
  BY DEF UnwindInv, CleanupInv
<1>2. CleanupInv'
  BY CleanupNext DEF UnwindInv
<1>3. WorkDecided'
  BY <1>1, WorkDecidedNext
<1>4. TablesHavePads'
  BY <1>1, TablesPadsNext
<1>5. DoneHasPads'
  BY <1>1, DonePadsNext
<1>6. BranchesHavePads'
  BY <1>1, BranchPadsNext
<1>7. OutHasPads'
  BY <1>1, OutPadsNext
<1> QED
  BY <1>2, <1>3, <1>4, <1>5, <1>6, <1>7 DEF UnwindInv

LEMMA UnwindAlways == Spec => []UnwindInv
BY UnwindInit, UnwindNext, PTL DEF Spec

\* The code of an open branch has one segment for each block it leaves.
LEMMA BranchUnwinds ==
  ASSUME UnwindInv, NEW i \in DOMAIN open
  PROVE  LET segs == Segs(open[i].code)
         IN  PadsOf(segs, stack, out) /\ Outward(segs)
<1> DEFINE code == open[i].code
           segs == Segs(code)
<1>1. /\ code \in Seq(Fragment) /\ Len(code) \in Nat
      /\ \A k \in 1 .. Len(code) : DOMAIN code[k].segs = 1 .. 1
      /\ CodePads(code, stack, out)
  BY JumpTypes DEF UnwindInv, CleanupInv, BranchesInv, BranchInv, BranchesHavePads
<1> HIDE DEF code
<1>2. DOMAIN code = 1 .. Len(code)
  BY <1>1, LenProperties
<1>3. segs = [k \in 1 .. Len(code) |-> code[k].segs[1]]
  BY <1>1, <1>2, SegsOfSingles
<1> HIDE DEF segs
<1>4. ASSUME NEW k \in DOMAIN segs
      PROVE  HasPad(segs[k].unwind, stack, out) /\ segs[k].unwind < segs[k].blk
  <2>1. k \in 1 .. Len(code) /\ segs[k] = code[k].segs[1]
    BY <1>3, <1>4
  <2>2. 1 \in DOMAIN code[k].segs
    BY <1>1, <2>1
  <2> QED
    BY <1>1, <2>1, <2>2 DEF CodePads, PadsOf, Outward
<1> QED
  BY <1>4 DEF PadsOf, Outward, segs, code

\* The code for an exception that no handler of the block matches.
LEMMA DispatcherUnwinds ==
  ASSUME UnwindInv, NEW r \in out
  PROVE  PadsOf(<<r.self>> \o r.rest.segs, stack, out)
<1> DEFINE s == <<r.self>>
           t == r.rest.segs
           segs == s \o t
<1>1. r.self \in Segment /\ t \in Seq(Segment) /\ Len(t) \in Nat
  <2>1. r \in Dispatcher
    BY DEF UnwindInv, CleanupInv, TypeInv, TypeOK
  <2>2. r.self \in Segment /\ t \in Seq(Segment)
    BY <2>1 DEF Dispatcher, Fragment
  <2> QED
    BY <2>2, LenProperties
<1>2. s \in Seq(Segment) /\ Len(s) = 1 /\ s[1] = r.self
  BY <1>1
<1>3. HasPad(r.self.unwind, stack, out) /\ PadsOf(t, stack, out)
  BY DEF UnwindInv, OutHasPads
<1> HIDE DEF s, t
<1>4. /\ segs \in Seq(Segment) /\ Len(segs) = 1 + Len(t)
      /\ \A i \in 1 .. (1 + Len(t)) : segs[i] = IF i <= 1 THEN s[i] ELSE t[i - 1]
  BY <1>1, <1>2, ConcatProperties, SMTT(40)
<1>5. DOMAIN segs = 1 .. (1 + Len(t)) /\ DOMAIN t = 1 .. Len(t)
  BY <1>1, <1>4, LenProperties
<1> HIDE DEF segs
<1>6. ASSUME NEW i \in DOMAIN segs PROVE HasPad(segs[i].unwind, stack, out)
  <2>1. CASE i = 1
    BY <1>2, <1>3, <1>4, <1>5, <2>1
  <2>2. CASE i # 1
    <3>1. i - 1 \in DOMAIN t /\ segs[i] = t[i - 1]
      BY <1>1, <1>4, <1>5, <2>2
    <3> QED
      BY <1>3, <3>1 DEF PadsOf
  <2> QED
    BY <2>1, <2>2
<1> QED
  BY <1>6 DEF PadsOf, segs, s, t

\* Whatever is compiled, a call made while blocks are left unwinds to a landing pad
\* that is emitted, and a dispatcher is continued to only if it is emitted.
THEOREM PadsAlwaysEmitted == Spec => []PadsEmitted
<1>1. UnwindInv => PadsEmitted
  <2> SUFFICES ASSUME UnwindInv PROVE PadsEmitted
    OBVIOUS
  <2>1. DOMAIN stack = 1 .. Len(stack)
    BY StackDomain DEF UnwindInv, CleanupInv, TypeInv, TypeOK
  <2>2. ASSUME NEW segs \in CodeSegs PROVE PadsOf(segs, stack, out)
    <3>1. ASSUME NEW i \in DOMAIN done PROVE PadsOf(done[i].frag.segs, stack, out)
      BY DEF UnwindInv, DoneHasPads
    <3>2. ASSUME NEW i \in DOMAIN open PROVE PadsOf(Segs(open[i].code), stack, out)
      BY BranchUnwinds
    <3>3. ASSUME NEW r \in out PROVE PadsOf(<<r.self>> \o r.rest.segs, stack, out)
      BY DispatcherUnwinds
    <3> QED
      BY <2>2, <3>1, <3>2, <3>3, Zenon DEF CodeSegs
  <2>3. ASSUME NEW u \in UNION {UnwindTargets(segs) : segs \in CodeSegs}
        PROVE  \/ \E j \in DOMAIN stack : stack[j].id = u /\ stack[j].landingPad
               \/ \E r \in out : r.id = u /\ r.landingPad
    <3>1. PICK segs \in CodeSegs : u \in UnwindTargets(segs)
      OBVIOUS
    <3>2. PICK i \in DOMAIN segs : u = segs[i].unwind /\ u # 0
      BY <3>1 DEF UnwindTargets
    <3>3. HasPad(u, stack, out)
      BY <2>2, <3>2 DEF PadsOf
    <3> QED
      BY <2>1, <3>2, <3>3 DEF HasPad
  <2>4. ASSUME NEW j \in DOMAIN stack, stack[j].unprotected /\ EHWork(stack[j])
        PROVE  stack[j].ehWork
    BY <2>1, <2>4 DEF UnwindInv, WorkDecided
  <2>5. ASSUME NEW r \in out, r.to # 0
        PROVE  \/ \E j \in DOMAIN stack : stack[j].id = r.to /\ stack[j].dispatch
               \/ \E q \in out : q.id = r.to
    BY <2>1, <2>5 DEF UnwindInv, OutHasPads, HasDispatch
  <2> QED
    BY <2>3, <2>4, <2>5, Zenon DEF PadsEmitted
<1> QED
  BY <1>1, UnwindAlways, PTL

\* Whatever is compiled, the code emitted while a block is popped is protected by
\* a block outside it.
THEOREM PopAlwaysUnwindsOutward == Spec => []PopUnwindsOutward
<1>1. UnwindInv => PopUnwindsOutward
  <2> SUFFICES ASSUME UnwindInv PROVE PopUnwindsOutward
    OBVIOUS
  <2>1. ASSUME NEW i \in DOMAIN done, done[i].kind = "fall"
        PROVE  Outward(done[i].frag.segs)
    BY <2>1 DEF UnwindInv, DoneHasPads
  <2>2. ASSUME NEW i \in DOMAIN open PROVE Outward(Segs(open[i].code))
    BY BranchUnwinds
  <2>3. ASSUME NEW r \in out PROVE Outward(<<r.self>>)
    BY DEF UnwindInv, OutHasPads, Outward
  <2>4. \A segs \in {done[i].frag.segs : i \in {k \in DOMAIN done : done[k].kind = "fall"}}
                \cup {Segs(open[i].code) : i \in DOMAIN open}
                \cup {<<r.self>> : r \in out} : Outward(segs)
    BY <2>1, <2>2, <2>3, Zenon
  <2> QED
    BY <2>4 DEF PopUnwindsOutward, Outward
<1> QED
  BY <1>1, UnwindAlways, PTL

-----------------------------------------------------------------------------
(* What an exception runs                                                  *)

LEMMA FlattenType ==
  ASSUME NEW S, NEW s \in Seq(Seq(S))
  PROVE  FlattenSeq(s) \in Seq(S)
<1> DEFINE n == Len(s)
<1>1. CASE n = 0
  <2>1. s = <<>> /\ s \in Seq(S)
    BY <1>1
  <2>2. FlattenSeq(s) = s
    BY <1>1, FlattenEmpty
  <2> QED
    BY <2>1, <2>2
<1>2. CASE n # 0
  <2>1. n \in Nat \ {0} /\ n \in 1 .. n
    BY <1>2
  <2>2. PICK f : Joins(f, s, n) /\ FlattenSeq(s) = f[n]
    BY <2>1, FlattenJoins
  <2>3. \A m \in 1 .. n : f[m] \in Seq(S)
    BY <2>1, <2>2, JoinsType
  <2> QED
    BY <2>1, <2>2, <2>3
<1> QED
  BY <1>1, <1>2

\* The sequences of s, then those of t.
LEMMA FlattenConcat ==
  ASSUME NEW S, NEW s \in Seq(Seq(S)), NEW t \in Seq(Seq(S)), NEW u \in Seq(Seq(S)),
         Len(u) = Len(s) + Len(t),
         \A i \in 1 .. Len(s) : u[i] = s[i],
         \A i \in 1 .. Len(t) : u[Len(s) + i] = t[i]
  PROVE  FlattenSeq(u) = FlattenSeq(s) \o FlattenSeq(t)
<1> DEFINE k == Len(s)
           p == Len(t)
           n == Len(u)
<1>1. n \in Nat /\ p \in Nat /\ k \in Nat /\ n = k + p
  OBVIOUS
<1>2. FlattenSeq(s) \in Seq(S) /\ FlattenSeq(t) \in Seq(S)
  BY FlattenType
<1>3. CASE k = 0
  <2>1. s = <<>> /\ u = t
    <3>1. s = <<>>
      BY <1>3
    <3>2. Len(u) = Len(t) /\ \A i \in 1 .. Len(u) : u[i] = t[i]
      BY <1>1, <1>3
    <3>3. u = t
      BY <3>2, SeqEqual
    <3> QED
      BY <3>1, <3>3
  <2>2. FlattenSeq(s) = <<>>
    BY <1>3, <2>1, FlattenEmpty
  <2> QED
    BY <1>2, <2>1, <2>2, ConcatEmptySeq
<1>4. CASE p = 0
  <2>1. t = <<>>
    BY <1>4
  <2>2. Len(u) = Len(s) /\ \A i \in 1 .. Len(u) : u[i] = s[i]
    BY <1>1, <1>4
  <2>3. u = s
    BY <2>2, SeqEqual
  <2>4. FlattenSeq(t) = <<>>
    BY <1>4, <2>1, FlattenEmpty
  <2> QED
    BY <1>2, <2>3, <2>4, ConcatEmptySeq
<1>5. CASE k # 0 /\ p # 0
  <2>1. k \in 1 .. k /\ p \in 1 .. p /\ n \in Nat \ {0}
    BY <1>1, <1>5
  <2>2. PICK f : Joins(f, u, n) /\ FlattenSeq(u) = f[n]
    BY <2>1, FlattenJoins
  <2>3. PICK h : Joins(h, s, k) /\ FlattenSeq(s) = h[k]
    BY <1>1, <1>5, FlattenJoins
  <2>4. PICK g : Joins(g, t, p) /\ FlattenSeq(t) = g[p]
    BY <1>1, <1>5, FlattenJoins
  <2>5. /\ \A i \in 1 .. n : f[i] = IF i = 1 THEN u[i] ELSE f[i - 1] \o u[i]
        /\ \A i \in 1 .. k : h[i] = IF i = 1 THEN s[i] ELSE h[i - 1] \o s[i]
        /\ \A i \in 1 .. p : g[i] = IF i = 1 THEN t[i] ELSE g[i - 1] \o t[i]
    BY <2>2, <2>3, <2>4, ZenonT(40) DEF Joins
  <2>6. \A m \in 1 .. p : g[m] \in Seq(S)
    BY <2>1, <2>4, JoinsType
  <2>7. \A m \in 1 .. k : f[m] = h[m]
    <3> DEFINE T == {m \in 1 .. k : f[m] # h[m]}
    <3> SUFFICES ASSUME T # {} PROVE FALSE
      OBVIOUS
    <3>1. PICK x \in T : \A y \in T : x <= y
      <4>1. T \subseteq Nat
        OBVIOUS
      <4> HIDE DEF T
      <4> QED
        BY <4>1, SmallestExists
    <3>2. x \in 1 .. k /\ x \in 1 .. n /\ f[x] # h[x] /\ u[x] = s[x]
      BY <1>1, SMTT(40)
    <3>3. x # 1
      BY <2>5, <3>2
    <3>4. x - 1 \in 1 .. k /\ ~ (x <= x - 1)
      BY <3>2, <3>3
    <3>5. f[x - 1] = h[x - 1]
      BY <3>1, <3>4
    <3>6. f[x] = f[x - 1] \o u[x]
      BY <2>5, <3>2, <3>3
    <3>7. h[x] = h[x - 1] \o s[x]
      BY <2>5, <3>2, <3>3
    <3> QED
      BY <3>2, <3>5, <3>6, <3>7
  <2>8. \A m \in 1 .. p : f[k + m] = h[k] \o g[m]
    <3> DEFINE P(m) == f[k + m] = h[k] \o g[m]
               T == {m \in 1 .. p : ~P(m)}
    <3> SUFFICES \A m \in 1 .. p : P(m)
      OBVIOUS
    <3> HIDE DEF P
    <3> SUFFICES ASSUME T # {} PROVE FALSE
      OBVIOUS
    <3>1. PICK x \in T : \A y \in T : x <= y
      <4>1. T \subseteq Nat
        OBVIOUS
      <4> HIDE DEF T
      <4> QED
        BY <4>1, SmallestExists
    <3>2. /\ x \in 1 .. p /\ ~P(x) /\ u[k + x] = t[x]
          /\ k + x \in 1 .. n /\ t[x] \in Seq(S)
      BY <1>1, SMTT(40)
    <3>3. CASE x = 1
      <4>1. g[x] = t[x]
        BY <2>5, <3>2, <3>3
      <4>2. k + x # 1 /\ (k + x) - 1 = k
        <5> HIDE DEF T, n, p, k
        <5> QED
          BY <1>1, <1>5, <3>3
      <4>3. f[k + x] = f[k] \o u[k + x]
        BY <2>5, <3>2, <4>2
      <4>4. f[k] = h[k]
        BY <2>1, <2>7
      <4>5. P(x)
        BY <3>2, <4>1, <4>3, <4>4 DEF P
      <4> QED
        BY <3>2, <4>5
    <3>4. CASE x # 1
      <4>1. /\ x - 1 \in 1 .. p /\ ~ (x <= x - 1)
            /\ (k + x) - 1 = k + (x - 1) /\ k + x # 1
        <5> HIDE DEF T, n, p, k
        <5> QED
          BY <1>1, <3>2, <3>4
      <4>2. f[k + (x - 1)] = h[k] \o g[x - 1]
        BY <3>1, <4>1 DEF P
      <4>3. f[k + x] = f[k + (x - 1)] \o t[x]
        BY <2>5, <3>2, <4>1, ZenonT(40)
      <4>4. g[x] = g[x - 1] \o t[x]
        BY <2>5, <3>2, <3>4
      <4>5. h[k] \in Seq(S) /\ g[x - 1] \in Seq(S)
        BY <1>2, <2>3, <2>6, <4>1
      <4>6. (h[k] \o g[x - 1]) \o t[x] = h[k] \o (g[x - 1] \o t[x])
        <5> DEFINE a == h[k]
                   b == g[x - 1]
                   c == t[x]
        <5>1. a \in Seq(S) /\ b \in Seq(S) /\ c \in Seq(S)
          BY <3>2, <4>5
        <5> HIDE DEF a, b, c
        <5>2. (a \o b) \o c = a \o (b \o c)
          <6> HIDE DEF k, p, n, T
          <6> QED
            BY ONLY <5>1, ConcatAssociative, SMTT(40)
        <5> QED
          BY <5>2 DEF a, b, c
      <4>7. P(x)
        BY <4>2, <4>3, <4>4, <4>6 DEF P
      <4> QED
        BY <3>2, <4>7
    <3>5. x = 1 \/ x # 1
      OBVIOUS
    <3> QED
      BY <3>3, <3>4, <3>5
  <2> QED
    BY <1>1, <2>1, <2>2, <2>3, <2>4, <2>8
<1> QED
  BY <1>3, <1>4, <1>5

\* Empty sequences only.
LEMMA FlattenNothing ==
  ASSUME NEW S, NEW s \in Seq(Seq(S)), \A i \in 1 .. Len(s) : s[i] = <<>>
  PROVE  FlattenSeq(s) = <<>>
<1> DEFINE t == <<>>
<1>1. /\ t \in Seq(Seq(S)) /\ Len(s) \in Nat /\ Len(t) = 0
      /\ Len(s) = Len(s) + Len(t)
  OBVIOUS
<1>2. FlattenSeq(t) = t
  BY <1>1, FlattenEmpty
<1> SUFFICES FlattenSeq(s) = FlattenSeq(t)
  BY <1>2
<1> HIDE DEF t
<1>3. \A i \in 1 .. Len(t) : s[Len(s) + i] = t[i]
  BY <1>1
<1> QED
  BY <1>1, <1>3, FlattenSkips, ZenonT(40)

-----------------------------------------------------------------------------
(* The chain of dispatchers                                                *)

\* Only the body of the main subprogram catches unhandled exceptions.
MainOutermost(s) == \A j \in 1 .. Len(s) : s[j].catchUnhandled => j = 1

\* The level whose dispatcher that of the top of s continues to.
OuterLevel(s) ==
  Innermost({j \in 1 .. (Len(s) - 1) : (s[j].atEnd \/ s[j].eh # {}) /\ ~s[j].unprotected})

\* Where the code that the dispatcher of the top of s runs gets to.
Left(s) == IF OuterLevel(s) = 0 THEN Len(s) - 1 ELSE OuterLevel(s)

\* The dispatcher r of a block is right for the stack that it was emitted with.
RightDispatcher(r, n) ==
  LET s == r.scope
      d == Len(s)
  IN  /\ s # <<>> /\ StackInv(s, n) /\ MainOutermost(s)
      /\ r.id = s[d].id
      /\ r.unhandled = s[d].catchUnhandled
      /\ r.clauses = UNION {s[k].eh : k \in {i \in 1 .. d : Protects(s, i)}}
      /\ r.cleanup = \E k \in 1 .. d : HasCleanup(s[k]) /\ Protects(s, k)
      /\ Calls(<<r.self>> \o r.rest.segs) = Required(s, Left(s))
      /\ r.to = IF OuterLevel(s) = 0 THEN 0 ELSE s[OuterLevel(s)].id

SameCode(b, c) ==
  /\ b.id = c.id /\ b.eh = c.eh /\ b.atEnd = c.atEnd
  /\ b.finally = c.finally /\ b.catchUnhandled = c.catchUnhandled

\* The blocks around level k of s are those of scope, and as protected.
Outside(s, scope, k) ==
  /\ k <= Len(scope)
  /\ \A i \in 1 .. k : SameCode(s[i], scope[i])
  /\ \A i \in 1 .. (k - 1) : s[i].unprotected = scope[i].unprotected

\* The block that r continues to is one of those it is in, now or once popped.
Continues(r, s, o) ==
  /\ \A k \in 1 .. Len(s) : s[k].id = r.to => Outside(s, r.scope, k)
  /\ \A q \in o : q.id = r.to => Outside(q.scope, r.scope, Len(q.scope))

ChainInv(s, n, o) ==
  /\ MainOutermost(s)
  /\ \A r \in o : RightDispatcher(r, n)
  /\ \A r \in o : \A k \in 1 .. Len(s) : s[k].id # r.id
  /\ \A r, q \in o : q.id = r.id => q = r
  /\ \A r \in o : Continues(r, s, o)

LEMMA StackInvLater ==
  ASSUME NEW s, NEW n, StackInv(s, n), NEW m \in Nat, n <= m
  PROVE  StackInv(s, m)
<1>1. m \in Nat \ {0} /\ \A j \in 1 .. Len(s) : s[j].id \in 1 .. (m - 1)
  BY DEF StackInv
<1> QED
  BY <1>1 DEF StackInv

LEMMA RightLater ==
  ASSUME NEW r, NEW n, RightDispatcher(r, n), NEW m \in Nat, n <= m
  PROVE  RightDispatcher(r, m)
<1>1. StackInv(r.scope, m)
  BY StackInvLater DEF RightDispatcher
<1> QED
  BY <1>1 DEF RightDispatcher

LEMMA OuterLevelIn ==
  ASSUME NEW s, Len(s) \in Nat \ {0}
  PROVE  LET j == OuterLevel(s)
             P(k) == (s[k].atEnd \/ s[k].eh # {}) /\ ~s[k].unprotected
         IN  /\ j \in 0 .. (Len(s) - 1)
             /\ j # 0 => P(j)
             /\ \A k \in 1 .. (Len(s) - 1) : P(k) => k <= j
<1> DEFINE m == Len(s) - 1
           S == {k \in 1 .. m : (s[k].atEnd \/ s[k].eh # {}) /\ ~s[k].unprotected}
<1>1. m \in Nat /\ S \subseteq 1 .. m
  OBVIOUS
<1>2. OuterLevel(s) = Innermost(S)
  BY DEF OuterLevel
<1> HIDE DEF m
<1>3. /\ Innermost(S) \in 0 .. m
      /\ S # {} => Innermost(S) \in S /\ \A k \in S : k <= Innermost(S)
  <2> HIDE DEF S
  <2> QED
    BY <1>1, InnermostIn
<1>4. Innermost(S) # 0 => S # {}
  BY DEF Innermost
<1>5. \A k \in 1 .. m : k # 0
  BY <1>1
<1> QED
  BY <1>2, <1>3, <1>4, <1>5 DEF m

\* The dispatcher that a block continues to is one of an older block.
LEMMA ContinuesOutward ==
  ASSUME NEW r, NEW n, RightDispatcher(r, n), Len(r.scope) \in Nat \ {0}
  PROVE  /\ r.id \in 1 .. (n - 1) /\ n \in Nat
         /\ r.to \in Nat /\ r.to < r.id
<1> DEFINE s == r.scope
           d == Len(s)
           j == OuterLevel(s)
<1>1. /\ StackInv(s, n) /\ r.id = s[d].id
      /\ r.to = IF j = 0 THEN 0 ELSE s[j].id
  BY DEF RightDispatcher
<1>2. j \in 0 .. (d - 1)
  BY OuterLevelIn
<1> HIDE DEF j, s
<1>3. d \in 1 .. d /\ (j # 0 => j \in 1 .. d /\ j < d)
  BY <1>2 DEF s
<1>4. /\ n \in Nat /\ s[d].id \in 1 .. (n - 1)
      /\ j # 0 => s[j].id \in 1 .. (n - 1) /\ s[j].id < s[d].id
  BY <1>1, <1>3 DEF StackInv
<1> HIDE DEF d
<1> QED
  BY <1>1, <1>4

\* The code run when no handler of the top block matches.
LEMMA DispatchedCalls ==
  ASSUME TypeInv, StackInv(stack, nextId), stack # <<>>
  PROVE  LET r == Dispatched(Len(stack))
         IN  Calls(<<r.self>> \o r.rest.segs) = Required(stack, Left(stack))
<1> DEFINE d == Len(stack)
           e == d - 1
           r == Dispatched(d)
           j == OuterLevel(stack)
           to == Left(stack)
           s == <<r.self>>
           t == r.rest.segs
           segs == s \o t
<1>1. stack \in Seq(Block) /\ d \in Nat \ {0} /\ stack[d] \in Block /\ d \in 0 .. d
  BY StackDomain, EmptySeq DEF TypeInv, TypeOK
<1>2. /\ r.self = CallAtEnd(stack, stack[d])
      /\ r.rest = IF j = 0 THEN NoFragment ELSE Fixups(stack, d - 1, j)
  BY DEF Dispatched, OuterDispatch, OuterLevel
<1>3. j \in 0 .. e /\ to \in 0 .. e /\ (to = IF j = 0 THEN e ELSE j)
      /\ e \in 0 .. d /\ d - e = 1
  BY <1>1, OuterLevelIn DEF Left
<1>4. r.self \in Segment /\ CallsOf(r.self) = Duty(stack[d])
  <2>1. CallAtEnd(stack, stack[d]) \in Segment
    BY <1>1, CallAtEndType
  <2>2. CallsOf(CallAtEnd(stack, stack[d])) = Duty(stack[d])
    BY <1>1, CallAtEndCalls
  <2> QED
    BY <1>2, <2>1, <2>2
<1>5. /\ t \in Seq(Segment) /\ DOMAIN t = 1 .. (e - to)
      /\ \A i \in 1 .. (e - to) : CallsOf(t[i]) = Duty(stack[e + 1 - i])
  <2>1. CASE j = 0
    BY <1>2, <1>3, <2>1 DEF NoFragment
  <2>2. CASE j # 0
    <3> DEFINE f == Fixups(stack, e, j)
    <3>1. r.rest = f /\ to = j
      BY <1>2, <1>3, <2>2
    <3> HIDE DEF e, f
    <3>2. f \in Fragment
      BY <1>1, <1>3, FixupsType DEF f
    <3>3. f.segs \in Seq(Segment)
      BY <3>2 DEF Fragment
    <3>4. /\ DOMAIN f.segs = 1 .. (e - j)
          /\ \A i \in 1 .. (e - j) : LeavesBlock(f.segs[i], stack[e + 1 - i])
      BY <1>1, <1>3, FixupsCalls DEF f
    <3> HIDE DEF r, j, to
    <3> QED
      BY <3>1, <3>3, <3>4 DEF LeavesBlock
  <2> QED
    BY <2>1, <2>2
<1>6. s \in Seq(Segment) /\ Len(s) = 1 /\ s[1] = r.self
  BY <1>4
<1>7. Len(t) = e - to /\ e - to \in Nat
  <2> HIDE DEF t, e, to
  <2>1. e - to \in Nat
    BY <1>1, <1>3
  <2> QED
    BY <1>5, <2>1, LenOfDomain
<1> HIDE DEF s, t, r
<1>8. /\ segs \in Seq(Segment) /\ Len(segs) = 1 + (e - to)
      /\ \A i \in 1 .. (1 + (e - to)) : segs[i] = IF i <= 1 THEN s[i] ELSE t[i - 1]
  <2>1. /\ segs \in Seq(Segment) /\ Len(segs) = Len(s) + Len(t)
        /\ \A i \in 1 .. (Len(s) + Len(t)) : segs[i] = IF i <= Len(s) THEN s[i] ELSE t[i - Len(s)]
    BY <1>5, <1>6, ConcatProperties
  <2> HIDE DEF segs, e, to
  <2> QED
    BY <1>6, <1>7, <2>1
<1>9. DOMAIN segs = 1 .. (d - to)
  <2>1. DOMAIN segs = 1 .. Len(segs)
    BY <1>8, LenProperties
  <2>2. 1 + (e - to) = d - to
    <3> HIDE DEF to, d
    <3> QED
      BY <1>1, <1>3
  <2> QED
    BY <1>8, <2>1, <2>2
<1>10. ASSUME NEW i \in 1 .. (d - to) PROVE CallsOf(segs[i]) = Duty(stack[d + 1 - i])
  <2> HIDE DEF segs, to, d
  <2>1. CASE i = 1
    <3>1. 1 \in 1 .. (1 + (e - to)) /\ d + 1 - 1 = d
      BY <1>1, <1>7
    <3>2. segs[1] = s[1]
      BY <1>8, <3>1
    <3> QED
      BY <1>4, <1>6, <2>1, <3>1, <3>2
  <2>2. CASE i # 1
    <3>1. /\ i \in 1 .. (1 + (e - to)) /\ i - 1 \in 1 .. (e - to) /\ ~ (i <= 1)
          /\ e + 1 - (i - 1) = d + 1 - i
      BY <1>1, <1>3, <2>2
    <3>2. segs[i] = t[i - 1]
      BY <1>8, <3>1
    <3>3. CallsOf(t[i - 1]) = Duty(stack[e + 1 - (i - 1)])
      BY <1>5, <3>1
    <3> QED
      BY <3>1, <3>2, <3>3
  <2> QED
    BY <2>1, <2>2
<1> HIDE DEF segs, to
<1>11. Calls(segs) = Required(stack, to)
  BY <1>9, <1>10, CallsRequired
<1> QED
  BY <1>11 DEF segs, s, t, r, to

LEMMA DispatchedRight ==
  ASSUME TypeInv, StackInv(stack, nextId), MainOutermost(stack), stack # <<>>
  PROVE  RightDispatcher(Dispatched(Len(stack)), nextId)
<1> DEFINE d == Len(stack)
           r == Dispatched(d)
           P(i) == Protects(stack, i)
<1>1. d \in Nat \ {0} /\ d \in 1 .. d
  BY StackDomain, EmptySeq DEF TypeInv, TypeOK
<1>2. r.scope = stack
  BY DEF Dispatched
<1>3. /\ r.id = stack[d].id /\ r.unhandled = stack[d].catchUnhandled
      /\ r.clauses = Clauses(d)
      /\ r.to = IF OuterLevel(stack) = 0 THEN 0 ELSE stack[OuterLevel(stack)].id
      /\ r.cleanup = \E k \in 1 .. d : HasCleanup(stack[k]) /\ Protects(stack, k)
  BY DEF Dispatched, OuterDispatch, OuterLevel, Protects
<1>4. Clauses(d) = UNION {stack[k].eh : k \in {i \in 1 .. d : P(i)}}
  <2>1. \A i \in 1 .. d : P(i) <=> (i = d \/ (i \in 1 .. (d - 1) /\ ~stack[i].unprotected))
    <3>1. \A i \in 1 .. d : i = d \/ i \in 1 .. (d - 1)
      BY <1>1
    <3> QED
      BY <3>1 DEF Protects
  <2>2. \A i \in 1 .. (d - 1) : i \in 1 .. d
    BY <1>1
  <2> HIDE DEF d, P
  <2>3. ASSUME NEW x
        PROVE  x \in Clauses(d) <=> \E k \in 1 .. d : P(k) /\ x \in stack[k].eh
    BY <1>1, <2>1, <2>2 DEF Clauses
  <2>4. ASSUME NEW x
        PROVE  x \in UNION {stack[k].eh : k \in {i \in 1 .. d : P(i)}}
                 <=> \E k \in 1 .. d : P(k) /\ x \in stack[k].eh
    OBVIOUS
  <2> QED
    BY <2>3, <2>4
<1>5. Calls(<<r.self>> \o r.rest.segs) = Required(stack, Left(stack))
  BY DispatchedCalls
<1> HIDE DEF r
<1>6. RightDispatcher(r, nextId)
  BY <1>2, <1>3, <1>4, <1>5 DEF RightDispatcher
<1> QED
  BY <1>6 DEF r

\* The blocks of s above level m are closed, or block n is pushed on them; the
\* block on top may stop protecting.
Moves(s, t, n, m) ==
  /\ m \in Nat /\ m <= Len(s)
  /\ \A j \in 1 .. m : Kept(s[j], t[j])
  /\ \A j \in 1 .. (m - 1) : t[j].unprotected = s[j].unprotected
  /\ \/ Len(t) = m
     \/ Len(t) = m + 1 /\ t[m + 1].id = n /\ (m # 0 => ~t[m + 1].catchUnhandled)

LEMMA ChainKept ==
  ASSUME NEW s, NEW t, NEW n \in Nat, NEW p \in Nat, NEW m, NEW o,
         ChainInv(s, n, o), Moves(s, t, n, m), n <= p, Len(s) \in Nat,
         \A r \in o : Len(r.scope) \in Nat \ {0}
  PROVE  ChainInv(t, p, o)
<1>1. /\ m \in Nat /\ m <= Len(s)
      /\ \A j \in 1 .. m : Kept(s[j], t[j])
      /\ \A j \in 1 .. (m - 1) : t[j].unprotected = s[j].unprotected
      /\ \/ Len(t) = m
         \/ Len(t) = m + 1 /\ t[m + 1].id = n /\ (m # 0 => ~t[m + 1].catchUnhandled)
  BY DEF Moves
<1>2. ASSUME NEW k \in 1 .. Len(t)
      PROVE  \/ k \in 1 .. m /\ k \in 1 .. Len(s) /\ Kept(s[k], t[k])
             \/ k = m + 1 /\ t[k].id = n /\ (m # 0 => ~t[k].catchUnhandled)
  <2>1. k \in 1 .. m \/ k = m + 1
    BY <1>1
  <2>2. \A i \in 1 .. m : i \in 1 .. Len(s) /\ i # m + 1
    BY <1>1
  <2> QED
    BY <1>1, <2>1, <2>2
<1>3. ASSUME NEW r \in o
      PROVE  r.id # n /\ r.to # n
  BY ContinuesOutward DEF ChainInv
<1>4. MainOutermost(t)
  <2> SUFFICES ASSUME NEW j \in 1 .. Len(t), t[j].catchUnhandled PROVE j = 1
    BY DEF MainOutermost
  <2>1. CASE j \in 1 .. Len(s) /\ Kept(s[j], t[j])
    BY <2>1 DEF Kept, ChainInv, MainOutermost
  <2>2. CASE j = m + 1 /\ (m # 0 => ~t[j].catchUnhandled)
    BY <1>1, <2>2
  <2> QED
    BY <1>2, <2>1, <2>2
<1>5. \A r \in o : RightDispatcher(r, p)
  BY RightLater DEF ChainInv
<1>6. ASSUME NEW r \in o, NEW k \in 1 .. Len(t) PROVE t[k].id # r.id
  BY <1>2, <1>3 DEF ChainInv, Kept
<1>7. \A r, q \in o : q.id = r.id => q = r
  BY DEF ChainInv
<1>8. ASSUME NEW r \in o PROVE Continues(r, t, o)
  <2>1. Continues(r, s, o)
    BY DEF ChainInv
  <2>2. ASSUME NEW k \in 1 .. Len(t), t[k].id = r.to
        PROVE  Outside(t, r.scope, k)
    <3>1. k \in 1 .. m /\ k \in 1 .. Len(s) /\ s[k].id = r.to
      BY <1>2, <1>3, <2>2 DEF Kept
    <3>2. Outside(s, r.scope, k)
      BY <2>1, <3>1 DEF Continues
    <3>3. ASSUME NEW i \in 1 .. k PROVE SameCode(t[i], r.scope[i])
      <4>1. i \in 1 .. m
        BY <1>1, <3>1
      <4> QED
        BY <1>1, <3>2, <4>1 DEF Outside, SameCode, Kept
    <3>4. ASSUME NEW i \in 1 .. (k - 1) PROVE t[i].unprotected = r.scope[i].unprotected
      <4>1. i \in 1 .. (m - 1)
        BY <1>1, <3>1
      <4> QED
        BY <1>1, <3>2, <4>1 DEF Outside
    <3> QED
      BY <3>2, <3>3, <3>4 DEF Outside
  <2> QED
    BY <2>1, <2>2 DEF Continues
<1> QED
  BY <1>4, <1>5, <1>6, <1>7, <1>8 DEF ChainInv

\* The dispatcher of the block that has been popped.
LEMMA ChainAdds ==
  ASSUME NEW s \in Seq(Block), s # <<>>, NEW t, NEW n \in Nat, NEW o, NEW r,
         ChainInv(s, n, o), ChainInv(t, n, o), RightDispatcher(r, n), r.scope = s,
         \A q \in o : Len(q.scope) \in Nat \ {0},
         Len(t) = Len(s) - 1,
         \A j \in 1 .. (Len(s) - 1) : Undisturbed(s[j], t[j])
  PROVE  ChainInv(t, n, o \cup {r})
<1> DEFINE d == Len(s)
           j == OuterLevel(s)
<1>1. d \in Nat \ {0} /\ StackInv(s, n) /\ r.id = s[d].id /\ d \in 1 .. d
  BY StackDomain, EmptySeq DEF RightDispatcher
<1>2. \A k \in 1 .. (d - 1) : /\ k \in 1 .. d /\ t[k].id = s[k].id
                              /\ s[k].id < s[d].id
  BY <1>1 DEF Undisturbed, Kept, StackInv
<1>3. /\ r.to = IF j = 0 THEN 0 ELSE s[j].id
      /\ j \in 0 .. (d - 1)
  BY <1>1, OuterLevelIn DEF RightDispatcher
<1>4. r.to < r.id /\ r.to \in Nat /\ r.id \in Nat
  BY <1>1, ContinuesOutward
<1>5. \A q \in o : q.id \in Nat \ {0} /\ RightDispatcher(q, n)
  BY ContinuesOutward DEF ChainInv
<1>6. \A q \in o \cup {r} : RightDispatcher(q, n)
  BY <1>5
<1>7. ASSUME NEW q \in o \cup {r}, NEW k \in 1 .. Len(t) PROVE t[k].id # q.id
  <2>1. CASE q \in o
    BY <2>1 DEF ChainInv
  <2>2. CASE q = r
    <3>1. k \in 1 .. (d - 1)
      OBVIOUS
    <3>2. s[k].id \in Nat /\ s[d].id \in Nat
      BY <1>1, <1>2, <3>1 DEF StackInv
    <3> QED
      BY <1>1, <1>2, <2>2, <3>1, <3>2
  <2> QED
    BY <2>1, <2>2
<1>8. ASSUME NEW q \in o PROVE q.id # r.id
  BY <1>1 DEF ChainInv
<1>9. \A a, b \in o \cup {r} : b.id = a.id => b = a
  BY <1>8 DEF ChainInv
<1>10. ASSUME NEW q \in o PROVE Continues(q, t, o \cup {r})
  <2>1. Continues(q, t, o) /\ Continues(q, s, o)
    BY DEF ChainInv
  <2>2. r.id = q.to => Outside(r.scope, q.scope, Len(r.scope))
    BY <1>1, <2>1 DEF Continues
  <2> QED
    BY <2>1, <2>2 DEF Continues
<1>11. Continues(r, t, o \cup {r})
  <2>1. ASSUME NEW k \in 1 .. Len(t) PROVE Outside(t, r.scope, k)
    <3>1. \A i \in 1 .. k : i \in 1 .. (d - 1)
      BY <1>1
    <3>2. \A i \in 1 .. k : SameCode(t[i], s[i]) /\ t[i].unprotected = s[i].unprotected
      BY <3>1 DEF Undisturbed, Kept, SameCode
    <3>3. k <= Len(r.scope) /\ \A i \in 1 .. (k - 1) : i \in 1 .. k
      BY <1>1
    <3> QED
      BY <3>2, <3>3 DEF Outside
  <2>2. ASSUME NEW q \in o \cup {r} PROVE q.id # r.to
    <3>1. CASE q = r
      BY <1>4, <3>1
    <3>2. CASE q \in o
      <4>1. CASE j = 0
        BY <1>3, <1>5, <3>2, <4>1
      <4>2. CASE j # 0
        <5>1. j \in 1 .. Len(s)
          BY <1>1, <1>3, <4>2
        <5> QED
          BY <1>3, <3>2, <4>2, <5>1 DEF ChainInv
      <4> QED
        BY <4>1, <4>2
    <3> QED
      BY <3>1, <3>2
  <2> QED
    BY <2>1, <2>2 DEF Continues
<1>12. MainOutermost(t)
  BY DEF ChainInv
<1> QED
  BY <1>6, <1>7, <1>9, <1>10, <1>11, <1>12 DEF ChainInv

LEMMA ChainNext ==
  ASSUME TypeInv, StackInv(stack, nextId), ChainInv(stack, nextId, out), [Next]_vars
  PROVE  ChainInv(stack', nextId', out')
<1> DEFINE d == Len(stack)
<1>1. stack \in Seq(Block) /\ d \in Nat /\ nextId \in Nat
  BY StackDomain DEF TypeInv, TypeOK
<1>2. \A r \in out : Len(r.scope) \in Nat \ {0}
  <2> SUFFICES ASSUME NEW r \in out PROVE Len(r.scope) \in Nat \ {0}
    OBVIOUS
  <2>1. r.scope \in Seq(Block)
    BY DEF TypeInv, TypeOK, Dispatcher
  <2>2. r.scope # <<>>
    BY DEF ChainInv, RightDispatcher
  <2> QED
    BY <2>1, <2>2, EmptySeq, StackDomain
<1>3. CASE UNCHANGED vars
  BY <1>3 DEF vars
<1>4. CASE ResetBlockTables
  <2>1. out' = {} /\ Len(stack') = 0
    BY <1>4 DEF ResetBlockTables
  <2> QED
    BY <2>1 DEF ChainInv, MainOutermost
<1>5. CASE EndPop
  <2> DEFINE e == d - 1
             r == Dispatched(d)
  <2>1. /\ d \in Nat \ {0} /\ Len(stack') = d - 1
        /\ \A j \in 1 .. (d - 1) : Undisturbed(stack[j], stack'[j])
    BY <1>5, EndPopBlocks
  <2>2. /\ out' = (IF stack[d].ehWork THEN out \cup {r} ELSE out)
        /\ nextId' = nextId /\ stack # <<>>
    BY <1>5 DEF EndPop, Top
  <2>3. ChainInv(stack', nextId, out)
    <3>1. /\ e \in Nat /\ e <= d /\ Len(stack') = e
          /\ \A j \in 1 .. e : Undisturbed(stack[j], stack'[j])
          /\ \A j \in 1 .. (e - 1) : j \in 1 .. e
      BY <2>1
    <3> HIDE DEF e
    <3>2. /\ \A j \in 1 .. e : Kept(stack[j], stack'[j])
          /\ \A j \in 1 .. (e - 1) : stack'[j].unprotected = stack[j].unprotected
      BY <3>1 DEF Undisturbed
    <3>3. Moves(stack, stack', nextId, e)
      BY <3>1, <3>2 DEF Moves
    <3> QED
      BY <1>1, <1>2, <3>3, ChainKept
  <2>4. RightDispatcher(r, nextId) /\ r.scope = stack
    <3>1. r.scope = stack
      BY DEF Dispatched
    <3>2. MainOutermost(stack)
      BY DEF ChainInv
    <3> QED
      BY <2>2, <3>1, <3>2, DispatchedRight
  <2> HIDE DEF r
  <2>5. ChainInv(stack', nextId, out \cup {r})
    BY <1>1, <1>2, <2>1, <2>2, <2>3, <2>4, ChainAdds
  <2> QED
    BY <2>2, <2>3, <2>5
<1>6. CASE Next /\ ~EndPop /\ ~ResetBlockTables
  <2>1. out' = out
    BY <1>6 DEF Next, PushBody, PushBlock, PushLoop, SaveStackPointer,
       AddLifetimeEntry, CallMayThrow, Reraise, GotoKnown, GotoOpen, DefineLabel,
       Exit, Return, BeginPop, PushHandler
  <2>2. \A j \in 1 .. (d - 1) : j \in 1 .. d
    BY <1>1
  <2>3. CASE BeginPop
    <3>1. /\ Len(stack') = d
          /\ \A j \in 1 .. (d - 1) : Undisturbed(stack[j], stack'[j])
          /\ Kept(stack[d], stack'[d])
      BY <2>3, BeginPopBlocks
    <3>2. nextId' = nextId
      BY <2>3 DEF BeginPop
    <3>3. /\ \A j \in 1 .. d : Kept(stack[j], stack'[j])
          /\ \A j \in 1 .. (d - 1) : stack'[j].unprotected = stack[j].unprotected
      <4>1. \A j \in 1 .. d : j = d \/ j \in 1 .. (d - 1)
        BY <1>1
      <4> QED
        BY <3>1, <4>1 DEF Undisturbed
    <3>4. Moves(stack, stack', nextId, d)
      BY <1>1, <3>1, <3>3 DEF Moves
    <3>5. nextId' \in Nat /\ nextId <= nextId'
      BY <1>1, <3>2
    <3> QED
      BY <1>1, <1>2, <2>1, <3>4, <3>5, ChainKept
  <2>4. CASE Stays(stack, stack') /\ nextId' = nextId
    <3>1. /\ Len(stack') = d
          /\ \A j \in 1 .. d : Kept(stack[j], stack'[j])
          /\ \A j \in 1 .. (d - 1) : stack'[j].unprotected = stack[j].unprotected
      BY <2>2, <2>4 DEF Stays, Undisturbed
    <3>2. Moves(stack, stack', nextId, d)
      BY <1>1, <3>1 DEF Moves
    <3>3. nextId' \in Nat /\ nextId <= nextId'
      BY <1>1, <2>4
    <3> QED
      BY <1>1, <1>2, <2>1, <3>2, <3>3, ChainKept
  <2>5. CASE Opens(stack, stack', nextId) /\ nextId' = nextId + 1
    <3>1. /\ Len(stack') = d + 1
          /\ \A j \in 1 .. d : Undisturbed(stack[j], stack'[j])
          /\ JustPushed(stack'[Len(stack')], nextId)
          /\ d # 0 => ~stack'[Len(stack')].catchUnhandled
      BY <1>1, <2>5, OpensBlocks
    <3>2. /\ \A j \in 1 .. d : Kept(stack[j], stack'[j])
          /\ \A j \in 1 .. (d - 1) : stack'[j].unprotected = stack[j].unprotected
          /\ stack'[d + 1].id = nextId
      BY <2>2, <3>1 DEF Undisturbed, JustPushed
    <3>3. nextId' \in Nat /\ nextId <= nextId'
      BY <1>1, <2>5
    <3>4. Moves(stack, stack', nextId, d)
      BY <1>1, <3>1, <3>2 DEF Moves
    <3> QED
      BY <1>1, <1>2, <2>1, <3>3, <3>4, ChainKept
  <2> QED
    BY <1>6, <2>3, <2>4, <2>5, StatementStays
<1> QED
  BY <1>3, <1>4, <1>5, <1>6

-----------------------------------------------------------------------------
(* What Ada requires, level by level                                       *)

LEMMA HandlerLevelIn ==
  ASSUME NEW s \in Seq(Block), NEW e
  PROVE  LET h == HandlerLevel(s, e)
             P(k) == Protects(s, k) /\ (e \in s[k].eh \/ s[k].catchUnhandled)
         IN  /\ h \in 0 .. Len(s)
             /\ h # 0 => P(h)
             /\ \A k \in 1 .. Len(s) : P(k) => k <= h
<1> DEFINE d == Len(s)
           S == {j \in DOMAIN s : /\ Protects(s, j)
                                  /\ e \in s[j].eh \/ s[j].catchUnhandled}
<1>1. d \in Nat /\ S \subseteq 1 .. d /\ DOMAIN s = 1 .. d
  BY StackDomain
<1>2. HandlerLevel(s, e) = Innermost(S)
  BY DEF HandlerLevel
<1>3. /\ Innermost(S) \in 0 .. d
      /\ S # {} => Innermost(S) \in S /\ \A k \in S : k <= Innermost(S)
  <2> HIDE DEF S, d
  <2> QED
    BY <1>1, InnermostIn
<1>4. Innermost(S) # 0 => S # {}
  BY DEF Innermost
<1> QED
  BY <1>1, <1>2, <1>3, <1>4

\* A block that is no longer protected has nothing left to run.
LEMMA DutyProtects ==
  ASSUME NEW s, NEW n, StackInv(s, n), NEW j \in 1 .. Len(s), Len(s) \in Nat,
         ~Protects(s, j)
  PROVE  Duty(s[j]) = <<>>
<1>1. s[j].unprotected /\ j \in 1 .. (Len(s) - 1)
  BY DEF Protects
<1>2. ~s[j].finally /\ ~s[j].atEnd
  BY <1>1 DEF StackInv
<1> QED
  BY <1>2, ConcatEmptySeq DEF Duty, If

LEMMA RequiredRan ==
  ASSUME NEW s \in Seq(Block), NEW n, StackInv(s, n), NEW e
  PROVE  LET h == HandlerLevel(s, e)
         IN  RequiredUnwinding(s, e)
               = [ran |-> Required(s, h), at |-> IF h = 0 THEN 0 ELSE s[h].id]
<1> DEFINE h == HandlerLevel(s, e)
           d == Len(s)
           f == [i \in 1 .. (d - h) |-> LET j == d + 1 - i
                                        IN  IF Protects(s, j) THEN Duty(s[j]) ELSE <<>>]
           g == [i \in 1 .. (d - h) |-> Duty(s[d + 1 - i])]
<1>1. d \in Nat /\ h \in 0 .. d
  BY StackDomain, HandlerLevelIn
<1>2. f = g
  <2> HIDE DEF h
  <2>1. ASSUME NEW i \in 1 .. (d - h)
        PROVE  (IF Protects(s, d + 1 - i) THEN Duty(s[d + 1 - i]) ELSE <<>>)
                 = Duty(s[d + 1 - i])
    <3>1. d + 1 - i \in 1 .. d
      BY <1>1
    <3> HIDE DEF d
    <3> QED
      BY <1>1, <3>1, DutyProtects DEF d
  <2> QED
    BY <2>1
<1>3. RequiredUnwinding(s, e)
        = [ran |-> FlattenSeq(f), at |-> IF h = 0 THEN 0 ELSE s[h].id]
  BY DEF RequiredUnwinding
<1>4. Required(s, h) = FlattenSeq(g)
  BY DEF Required
<1> HIDE DEF f, g, h
<1>5. RequiredUnwinding(s, e)
        = [ran |-> Required(s, h), at |-> IF h = 0 THEN 0 ELSE s[h].id]
  BY <1>2, <1>3, <1>4
<1> QED
  BY <1>5 DEF h

LEMMA DutiesType ==
  ASSUME NEW s \in Seq(Block), NEW to \in 0 .. Len(s), NEW h \in 0 .. to
  PROVE  LET duties == [i \in 1 .. (to - h) |-> Duty(s[to + 1 - i])]
         IN  /\ duties \in Seq(Seq(Nat \X Ops))
             /\ Len(duties) = to - h
<1> DEFINE S == Seq(Nat \X Ops)
           g(i) == Duty(s[to + 1 - i])
           m == to - h
<1>1. m \in Nat /\ Len(s) \in Nat
  BY StackDomain
<1>2. \A i \in 1 .. m : g(i) \in S
  <2> SUFFICES ASSUME NEW i \in 1 .. m PROVE g(i) \in S
    OBVIOUS
  <2>1. to + 1 - i \in 1 .. Len(s)
    BY <1>1
  <2>2. s[to + 1 - i] \in Block
    BY <2>1, StackDomain
  <2> QED
    BY <2>2, DutyType
<1> HIDE DEF g, S, m
<1>3. [i \in 1 .. m |-> g(i)] \in Seq(S) /\ Len([i \in 1 .. m |-> g(i)]) = m
  BY <1>1, <1>2, IsASeq
<1> QED
  BY <1>3 DEF g, S, m

\* What is required down to level h is what is down to level "to", and then the rest.
LEMMA RequiredSplit ==
  ASSUME NEW s \in Seq(Block), NEW to \in 0 .. Len(s), NEW h \in 0 .. to
  PROVE  Required(s, h)
           = Required(s, to) \o FlattenSeq([i \in 1 .. (to - h) |-> Duty(s[to + 1 - i])])
<1> DEFINE d == Len(s)
           u == [i \in 1 .. (d - h) |-> Duty(s[d + 1 - i])]
           v == [i \in 1 .. (d - to) |-> Duty(s[d + 1 - i])]
           w == [i \in 1 .. (to - h) |-> Duty(s[to + 1 - i])]
           S == Nat \X Ops
<1>1. d \in Nat /\ d \in 0 .. d /\ h \in 0 .. d /\ to \in 0 .. d /\ to - h \in Nat
      /\ d - to \in Nat /\ d - h = (d - to) + (to - h)
  BY StackDomain
<1>2. u \in Seq(Seq(S)) /\ Len(u) = d - h
  BY <1>1, DutiesType
<1>3. v \in Seq(Seq(S)) /\ Len(v) = d - to
  BY <1>1, DutiesType
<1>4. w \in Seq(Seq(S)) /\ Len(w) = to - h
  BY DutiesType
<1>5. ASSUME NEW i \in 1 .. (d - to) PROVE u[i] = v[i]
  <2>1. i \in 1 .. (d - h)
    BY <1>1
  <2> QED
    BY <2>1
<1>6. ASSUME NEW i \in 1 .. (to - h) PROVE u[(d - to) + i] = w[i]
  <2> HIDE DEF d
  <2>1. (d - to) + i \in 1 .. (d - h) /\ d + 1 - ((d - to) + i) = to + 1 - i
    BY <1>1
  <2>2. u[(d - to) + i] = Duty(s[d + 1 - ((d - to) + i)])
    BY <2>1
  <2> QED
    BY <2>1, <2>2
<1>7. Required(s, h) = FlattenSeq(u) /\ Required(s, to) = FlattenSeq(v)
  BY DEF Required
<1> HIDE DEF u, v, w, S, d
<1>8. FlattenSeq(u) = FlattenSeq(v) \o FlattenSeq(w)
  <2>1. Len(u) = Len(v) + Len(w)
    BY <1>1, <1>2, <1>3, <1>4
  <2>2. \A i \in 1 .. Len(v) : u[i] = v[i]
    BY <1>3, <1>5
  <2>3. \A i \in 1 .. Len(w) : u[Len(v) + i] = w[i]
    BY <1>3, <1>4, <1>6
  <2> QED
    BY <1>2, <1>3, <1>4, <2>1, <2>2, <2>3, FlattenConcat, ZenonT(40)
<1> QED
  BY <1>7, <1>8 DEF w

\* The outer blocks have the same duties in t, the stack without the inner ones.
LEMMA RequiredOfOuter ==
  ASSUME NEW s \in Seq(Block), NEW t \in Seq(Block), NEW h \in 0 .. Len(t),
         Outside(t, s, Len(t))
  PROVE  Required(s, h) = Required(s, Len(t)) \o Required(t, h)
<1> DEFINE k == Len(t)
           w == [i \in 1 .. (k - h) |-> Duty(s[k + 1 - i])]
<1>1. k \in Nat /\ Len(s) \in Nat /\ k \in 0 .. Len(s)
  BY StackDomain DEF Outside
<1>2. ASSUME NEW i \in 1 .. (k - h) PROVE Duty(s[k + 1 - i]) = Duty(t[k + 1 - i])
  <2>1. k + 1 - i \in 1 .. k
    BY <1>1
  <2> QED
    BY <2>1 DEF Outside, SameCode, Duty
<1>3. w = [i \in 1 .. (k - h) |-> Duty(t[k + 1 - i])]
  BY <1>2
<1>4. Required(t, h) = FlattenSeq(w)
  BY <1>3 DEF Required
<1> HIDE DEF k
<1>5. Required(s, h) = Required(s, k) \o FlattenSeq(w)
  BY <1>1, RequiredSplit DEF k
<1> QED
  BY <1>4, <1>5 DEF k

\* Nothing is required of the levels up to "to".
LEMMA RequiredNothing ==
  ASSUME NEW s \in Seq(Block), NEW to \in 0 .. Len(s),
         \A j \in 1 .. to : Duty(s[j]) = <<>>
  PROVE  Required(s, 0) = Required(s, to)
<1> DEFINE w == [i \in 1 .. (to - 0) |-> Duty(s[to + 1 - i])]
           S == Nat \X Ops
           v == [i \in 1 .. (Len(s) - to) |-> Duty(s[Len(s) + 1 - i])]
<1>1. /\ Len(s) \in Nat /\ to \in Nat /\ 0 \in 0 .. to
      /\ Len(s) \in 0 .. Len(s)
  BY StackDomain
<1>2. w \in Seq(Seq(S)) /\ Len(w) = to - 0
  BY <1>1, DutiesType
<1>3. \A i \in 1 .. Len(w) : w[i] = <<>>
  <2> SUFFICES ASSUME NEW i \in 1 .. to PROVE w[i] = <<>>
    BY <1>1, <1>2
  <2>1. to + 1 - i \in 1 .. to
    BY <1>1
  <2> QED
    BY <2>1
<1>4. v \in Seq(Seq(S))
  BY <1>1, DutiesType
<1>5. FlattenSeq(v) \in Seq(S) /\ Required(s, to) = FlattenSeq(v)
  BY <1>4, FlattenType DEF Required
<1>6. Required(s, 0) = Required(s, to) \o FlattenSeq(w)
  BY <1>1, RequiredSplit
<1> HIDE DEF w, v
<1>7. FlattenSeq(w) = <<>>
  BY <1>2, <1>3, FlattenNothing
<1> QED
  BY <1>5, <1>6, <1>7, ConcatEmptySeq

-----------------------------------------------------------------------------
(* What runs                                                               *)

\* The dispatcher of block x.
Emitted(x) == CHOOSE q \in out : q.id = x

\* The block of q handles e, for an exception that has entered the pad of r.
Handled(q, r, e) ==
  LET b == q.scope[Len(q.scope)]
  IN  e \in b.eh \/ (b.catchUnhandled /\ r.unhandled /\ e \notin r.clauses)

\* What q runs before it continues.
Continued(q) == Calls(<<q.self>> \o q.rest.segs)

\* f is what is run from the dispatcher of each block of D, or from none (0).
Unwound(f, r, e, D) ==
  f = [x \in D |->
         IF x = 0 THEN [ran |-> <<>>, at |-> 0]
         ELSE IF Handled(Emitted(x), r, e) THEN [ran |-> <<>>, at |-> x]
         ELSE [ran |-> Continued(Emitted(x)) \o f[Emitted(x).to].ran,
               at |-> f[Emitted(x).to].at]]

\* The recursive function of Unwinding exists: a dispatcher continues to one of an
\* older block.
LEMMA UnwoundExists ==
  ASSUME NEW r, NEW e, NEW n \in Nat, NEW D, D \subseteq 0 .. n,
         \A x \in D : x # 0 => Emitted(x).to \in D /\ Emitted(x).to < x
  PROVE  \E f : Unwound(f, r, e, D)
<1> DEFINE Upto(m) == {x \in D : x <= m}
           T == {m \in 0 .. n : ~ \E f : Unwound(f, r, e, Upto(m))}
           Value(f, x) ==
             IF x = 0 THEN [ran |-> <<>>, at |-> 0]
             ELSE IF Handled(Emitted(x), r, e) THEN [ran |-> <<>>, at |-> x]
             ELSE [ran |-> Continued(Emitted(x)) \o f[Emitted(x).to].ran,
                   at |-> f[Emitted(x).to].at]
<1>1. ASSUME NEW f, NEW E PROVE Unwound(f, r, e, E) <=> f = [x \in E |-> Value(f, x)]
  BY DEF Unwound
<1>2. ASSUME NEW f, NEW g, NEW x \in D, x # 0 => f[Emitted(x).to] = g[Emitted(x).to]
      PROVE  Value(f, x) = Value(g, x)
  BY <1>2
<1>3. Upto(n) = D
  <2>1. \A x \in D : x <= n
    OBVIOUS
  <2> QED
    BY <2>1
<1> HIDE DEF Value
<1> SUFFICES T = {}
  <2>1. n \in 0 .. n
    OBVIOUS
  <2> QED
    BY <1>3, <2>1
<1> SUFFICES ASSUME T # {} PROVE FALSE
  OBVIOUS
<1>4. PICK m \in T : \A y \in T : m <= y
  <2>1. T \subseteq Nat
    OBVIOUS
  <2> HIDE DEF T
  <2> QED
    BY <2>1, SmallestExists
<1>5. m \in 0 .. n /\ ~ \E f : Unwound(f, r, e, Upto(m))
  OBVIOUS
<1>6. PICK g : \A x \in D : x < m => g[x] = Value(g, x)
  <2>1. CASE m = 0
    <3>1. \A x \in D : ~ (x < m)
      BY <2>1
    <3> QED
      BY <3>1
  <2>2. CASE m # 0
    <3>1. m - 1 \in 0 .. n /\ ~ (m <= m - 1)
      BY <1>5, <2>2
    <3>2. m - 1 \notin T
      BY <1>4, <3>1
    <3>3. PICK g : Unwound(g, r, e, Upto(m - 1))
      BY <3>1, <3>2
    <3>4. g = [x \in Upto(m - 1) |-> Value(g, x)]
      BY <1>1, <3>3
    <3>5. \A x \in D : x < m => x \in Upto(m - 1)
      BY <1>5
    <3> HIDE DEF Upto, T
    <3>6. \A x \in D : x < m => g[x] = Value(g, x)
      BY <3>4, <3>5
    <3> QED
      BY <3>6
  <2> QED
    BY <2>1, <2>2
<1> DEFINE f == [x \in Upto(m) |-> Value(g, x)]
<1>7. ASSUME NEW x \in D, x < m PROVE f[x] = g[x]
  <2>1. x \in Upto(m)
    BY <1>5, <1>7
  <2>2. f[x] = Value(g, x)
    BY <2>1
  <2> QED
    BY <1>6, <1>7, <2>2
<1>8. ASSUME NEW x \in Upto(m) PROVE Value(g, x) = Value(f, x)
  <2>1. x \in D /\ (x # 0 => Emitted(x).to \in D /\ Emitted(x).to < m)
    <3> DEFINE y == Emitted(x).to
    <3>1. x \in D /\ x <= m /\ (x # 0 => y \in D /\ y < x)
      OBVIOUS
    <3> HIDE DEF y, T, f, Upto
    <3>2. x \in 0 .. n /\ (y \in D => y \in 0 .. n)
      BY <3>1
    <3> QED
      BY <1>5, <3>1, <3>2 DEF y
  <2> HIDE DEF f, Upto, T
  <2>2. x # 0 => f[Emitted(x).to] = g[Emitted(x).to]
    BY <1>7, <2>1
  <2> QED
    BY <1>2, <2>1, <2>2
<1>9. f = [x \in Upto(m) |-> Value(f, x)]
  <2> DEFINE h == [x \in Upto(m) |-> Value(f, x)]
  <2>1. \A x \in Upto(m) : f[x] = h[x]
    BY <1>8
  <2> QED
    BY <1>8
<1>10. Unwound(f, r, e, Upto(m))
  <2> HIDE DEF f, Upto, T
  <2> QED
    BY <1>1, <1>9
<1> QED
  BY <1>5, <1>10

LEMMA UnwindingIs ==
  ASSUME NEW r, NEW e,
         \E f : Unwound(f, r, e, {0} \cup {q.id : q \in out})
  PROVE  \E f : /\ Unwound(f, r, e, {0} \cup {q.id : q \in out})
                /\ Unwinding(r, e) = IF e \in r.clauses \/ r.cleanup \/ r.unhandled
                                     THEN f[r.id] ELSE [ran |-> <<>>, at |-> 0]
<1> DEFINE D == {0} \cup {q.id : q \in out}
           f == CHOOSE g : Unwound(g, r, e, D)
<1>1. Unwound(f, r, e, D)
  BY Zenon
<1>2. Unwinding(r, e) = IF e \in r.clauses \/ r.cleanup \/ r.unhandled
                        THEN f[r.id] ELSE [ran |-> <<>>, at |-> 0]
  BY DEF Unwinding, Unwound, Emitted, Handled, Continued
<1> HIDE DEF f, D
<1>3. \E g : /\ Unwound(g, r, e, D)
             /\ Unwinding(r, e) = IF e \in r.clauses \/ r.cleanup \/ r.unhandled
                                  THEN g[r.id] ELSE [ran |-> <<>>, at |-> 0]
  BY <1>1, <1>2
<1> QED
  BY <1>3 DEF D

\* Nothing here catches unhandled exceptions.
NoMain(s) == \A j \in 1 .. Len(s) : ~s[j].catchUnhandled

LEMMA RequiredTop ==
  ASSUME NEW s \in Seq(Block)
  PROVE  Required(s, Len(s)) = <<>>
<1>1. Len(s) \in Nat /\ Len(s) - Len(s) = 0
  BY StackDomain
<1>2. [i \in 1 .. (Len(s) - Len(s)) |-> Duty(s[Len(s) + 1 - i])] = <<>>
  BY <1>1
<1>3. Len(<<>>) = 0
  OBVIOUS
<1> QED
  BY <1>2, <1>3, FlattenEmpty DEF Required

\* The innermost handler is one of the block that is continued to, or outside it.
LEMMA SameHandler ==
  ASSUME NEW s \in Seq(Block), s # <<>>, NEW t \in Seq(Block), NEW e,
         OuterLevel(s) # 0, Len(t) = OuterLevel(s), Outside(t, s, Len(t)),
         NoMain(s), e \notin s[Len(s)].eh
  PROVE  HandlerLevel(s, e) = HandlerLevel(t, e)
<1> DEFINE d == Len(s)
           j == OuterLevel(s)
           g == HandlerLevel(s, e)
           h == HandlerLevel(t, e)
           P(k) == Protects(s, k) /\ (e \in s[k].eh \/ s[k].catchUnhandled)
           Q(k) == Protects(t, k) /\ (e \in t[k].eh \/ t[k].catchUnhandled)
           O(k) == (s[k].atEnd \/ s[k].eh # {}) /\ ~s[k].unprotected
<1>1. d \in Nat \ {0}
  BY StackDomain, EmptySeq
<1>2. /\ j \in 1 .. (d - 1) /\ O(j)
      /\ \A k \in 1 .. (d - 1) : O(k) => k <= j
  BY <1>1, OuterLevelIn
<1>3. /\ g \in 0 .. d /\ (g # 0 => P(g))
      /\ \A k \in 1 .. d : P(k) => k <= g
  BY HandlerLevelIn
<1>4. /\ h \in 0 .. j /\ (h # 0 => Q(h))
      /\ \A k \in 1 .. j : Q(k) => k <= h
  BY HandlerLevelIn
<1>5. ASSUME NEW k \in 1 .. d, P(k) PROVE k <= j
  <2>1. e \in s[k].eh /\ Protects(s, k) /\ k # d
    BY <1>5 DEF NoMain
  <2>2. k \in 1 .. (d - 1) /\ O(k)
    BY <2>1 DEF Protects
  <2> QED
    BY <1>2, <2>2
<1>6. ASSUME NEW k \in 1 .. j PROVE P(k) <=> Q(k)
  <2>1. k \in 1 .. d /\ k # d /\ SameCode(t[k], s[k])
    BY <1>1, <1>2 DEF Outside
  <2>2. Protects(t, k) <=> Protects(s, k)
    <3>1. CASE k = j
      BY <1>2, <2>1, <3>1 DEF Protects
    <3>2. CASE k # j
      <4>1. k \in 1 .. (j - 1)
        BY <1>2, <3>2
      <4> QED
        BY <1>2, <2>1, <3>2, <4>1 DEF Protects, Outside
    <3> QED
      BY <3>1, <3>2
  <2> QED
    BY <2>1, <2>2 DEF SameCode
<1> HIDE DEF d, j, g, h, P, Q, O
<1>7. g <= h
  <2>1. CASE g = 0
    BY <1>2, <1>4, <2>1
  <2>2. CASE g # 0
    <3>1. P(g) /\ g \in 1 .. d
      BY <1>3, <2>2
    <3>2. g \in 1 .. j
      BY <1>2, <1>5, <3>1
    <3> QED
      BY <1>4, <1>6, <3>1, <3>2
  <2> QED
    BY <2>1, <2>2
<1>8. h <= g
  <2>1. CASE h = 0
    BY <1>3, <2>1
  <2>2. CASE h # 0
    <3>1. Q(h) /\ h \in 1 .. j
      BY <1>4, <2>2
    <3>2. P(h) /\ h \in 1 .. d
      BY <1>1, <1>2, <1>6, <3>1
    <3> QED
      BY <1>3, <3>2
  <2> QED
    BY <2>1, <2>2
<1> QED
  BY <1>2, <1>3, <1>4, <1>7, <1>8 DEF g, h

\* There is no handler, and no cleanup, in a block that nothing is continued to for.
LEMMA NothingOutside ==
  ASSUME NEW s \in Seq(Block), s # <<>>, NEW n, StackInv(s, n), NEW e,
         OuterLevel(s) = 0, NoMain(s), e \notin s[Len(s)].eh, ~LosesFinally(s)
  PROVE  RequiredUnwinding(s, e) = [ran |-> Required(s, Len(s) - 1), at |-> 0]
<1> DEFINE d == Len(s)
           c == d - 1
           O(k) == (s[k].atEnd \/ s[k].eh # {}) /\ ~s[k].unprotected
           h == HandlerLevel(s, e)
<1>1. d \in Nat \ {0} /\ c \in 0 .. d
  BY StackDomain, EmptySeq
<1>2. \A k \in 1 .. c : ~O(k)
  <2>1. \A k \in 1 .. (d - 1) : O(k) => k <= OuterLevel(s)
    BY <1>1, OuterLevelIn
  <2> QED
    BY <1>1, <2>1
<1>3. h = 0
  <2>1. /\ h \in 0 .. d
        /\ h # 0 => Protects(s, h) /\ (e \in s[h].eh \/ s[h].catchUnhandled)
    BY HandlerLevelIn
  <2> SUFFICES ASSUME h # 0 PROVE FALSE
    OBVIOUS
  <2>2. h \in 1 .. d /\ Protects(s, h) /\ e \in s[h].eh /\ h # d
    <3> HIDE DEF h
    <3>1. h \in 1 .. d
      BY <2>1
    <3> QED
      BY <2>1, <3>1 DEF NoMain
  <2>3. h \in 1 .. c /\ O(h)
    BY <2>2 DEF Protects
  <2> QED
    BY <1>2, <2>3
<1>4. ASSUME NEW k \in 1 .. c PROVE Duty(s[k]) = <<>>
  <2>1. k \in 1 .. d /\ k # d /\ d \in Nat
    BY <1>1
  <2>2. CASE ~Protects(s, k)
    BY <2>1, <2>2, DutyProtects
  <2>3. CASE Protects(s, k)
    <3>1. ~s[k].unprotected /\ ~s[k].atEnd
      BY <1>2, <2>1, <2>3 DEF Protects
    <3>2. ~s[k].finally
      <4> SUFFICES ASSUME s[k].finally PROVE FALSE
        OBVIOUS
      <4>1. \A i \in 1 .. k : i \in 1 .. c
        BY <1>1
      <4>2. \A i \in 1 .. k : (s[i].atEnd \/ s[i].eh # {}) => s[i].unprotected
        BY <1>2, <4>1
      <4> QED
        BY <3>1, <4>2 DEF LosesFinally
    <3> QED
      BY <3>1, <3>2, ConcatEmptySeq DEF Duty, If
  <2> QED
    BY <2>2, <2>3
<1> HIDE DEF c
<1>5. Required(s, 0) = Required(s, c)
  BY <1>1, <1>4, RequiredNothing
<1>6. RequiredUnwinding(s, e)
        = [ran |-> Required(s, h), at |-> IF h = 0 THEN 0 ELSE s[h].id]
  BY RequiredRan
<1> QED
  BY <1>3, <1>5, <1>6 DEF c

\* An exception for which the landing pad is not entered.
LEMMA NotEntered ==
  ASSUME NEW r, NEW n, RightDispatcher(r, n), r.scope \in Seq(Block), NEW e,
         NoMain(r.scope), e \notin r.clauses, ~r.cleanup
  PROVE  RequiredUnwinding(r.scope, e) = [ran |-> <<>>, at |-> 0]
<1> DEFINE s == r.scope
           d == Len(s)
           h == HandlerLevel(s, e)
<1>1. d \in Nat /\ d \in 0 .. d /\ StackInv(s, n)
  BY StackDomain DEF RightDispatcher
<1>2. ASSUME NEW k \in 1 .. d, Protects(s, k)
      PROVE  e \notin s[k].eh /\ ~s[k].atEnd /\ ~s[k].finally
  BY <1>2 DEF RightDispatcher, HasCleanup
<1>3. h = 0
  <2>1. /\ h \in 0 .. d
        /\ h # 0 => Protects(s, h) /\ (e \in s[h].eh \/ s[h].catchUnhandled)
    BY HandlerLevelIn
  <2>2. h # 0 => h \in 1 .. d
    BY <1>1, <2>1
  <2> HIDE DEF h
  <2> QED
    BY <1>2, <2>1, <2>2 DEF NoMain
<1>4. ASSUME NEW k \in 1 .. d PROVE Duty(s[k]) = <<>>
  <2>1. CASE ~Protects(s, k)
    BY <1>1, <2>1, DutyProtects
  <2>2. CASE Protects(s, k)
    BY <1>2, <2>2, ConcatEmptySeq DEF Duty, If
  <2> QED
    BY <2>1, <2>2
<1>5. Required(s, 0) = Required(s, d) /\ Required(s, d) = <<>>
  BY <1>1, <1>4, RequiredNothing, RequiredTop
<1>6. RequiredUnwinding(s, e)
        = [ran |-> Required(s, h), at |-> IF h = 0 THEN 0 ELSE s[h].id]
  BY <1>1, RequiredRan
<1> QED
  BY <1>3, <1>5, <1>6

\* A handler of the block itself.
LEMMA HandledHere ==
  ASSUME NEW s \in Seq(Block), s # <<>>, NEW n, StackInv(s, n), NEW e,
         e \in s[Len(s)].eh \/ s[Len(s)].catchUnhandled
  PROVE  RequiredUnwinding(s, e) = [ran |-> <<>>, at |-> s[Len(s)].id]
<1> DEFINE d == Len(s)
           h == HandlerLevel(s, e)
<1>1. d \in Nat \ {0} /\ d \in 1 .. d
  BY StackDomain, EmptySeq
<1>2. /\ h \in 0 .. d
      /\ \A k \in 1 .. d :
           Protects(s, k) /\ (e \in s[k].eh \/ s[k].catchUnhandled) => k <= h
  BY HandlerLevelIn
<1>3. Protects(s, d)
  BY DEF Protects
<1>4. h = d
  BY <1>1, <1>2, <1>3
<1>5. RequiredUnwinding(s, e)
        = [ran |-> Required(s, h), at |-> IF h = 0 THEN 0 ELSE s[h].id]
  BY RequiredRan
<1> QED
  BY <1>1, <1>4, <1>5, RequiredTop

-----------------------------------------------------------------------------
(* Every exception runs what is required                                   *)

DispatchInv == UnwindInv /\ ChainInv(stack, nextId, out)

LEMMA DispatchInit == Init => DispatchInv
<1> SUFFICES ASSUME Init PROVE DispatchInv
  OBVIOUS
<1>1. Len(stack) = 0 /\ out = {}
  BY DEF Init
<1> QED
  BY <1>1, UnwindInit DEF DispatchInv, ChainInv, MainOutermost

LEMMA DispatchNext == DispatchInv /\ [Next]_vars => DispatchInv'
<1> SUFFICES ASSUME DispatchInv, [Next]_vars PROVE DispatchInv'
  OBVIOUS
<1>1. TypeInv /\ StackInv(stack, nextId) /\ ChainInv(stack, nextId, out) /\ UnwindInv
  BY DEF DispatchInv, UnwindInv, CleanupInv
<1>2. UnwindInv'
  BY <1>1, UnwindNext
<1>3. ChainInv(stack', nextId', out')
  BY <1>1, ChainNext
<1> QED
  BY <1>2, <1>3 DEF DispatchInv

LEMMA DispatchAlways == Spec => []DispatchInv
BY DispatchInit, DispatchNext, PTL DEF Spec

\* The dispatchers of a subprogram that is compiled.
LEMMA DispatchersEmitted ==
  ASSUME DispatchInv, stack = <<>>, NEW q \in out
  PROVE  /\ q.scope \in Seq(Block) /\ q.scope # <<>>
         /\ RightDispatcher(q, nextId)
         /\ Emitted(q.id) = q
         /\ q.id \in 1 .. (nextId - 1) /\ nextId \in Nat
         /\ q.to \in Nat /\ q.to < q.id
         /\ q.to # 0 => \E p \in out : p.id = q.to
<1>1. q.scope \in Seq(Block)
  BY DEF DispatchInv, UnwindInv, CleanupInv, TypeInv, TypeOK, Dispatcher
<1>2. q.scope # <<>> /\ RightDispatcher(q, nextId)
  BY DEF DispatchInv, ChainInv, RightDispatcher
<1>3. Len(q.scope) \in Nat \ {0}
  BY <1>1, <1>2, StackDomain, EmptySeq
<1>4. Emitted(q.id) = q
  <2>1. \A p \in out : p.id = q.id => p = q
    BY DEF DispatchInv, ChainInv
  <2> QED
    BY <2>1 DEF Emitted
<1>5. q.to # 0 => \E p \in out : p.id = q.to
  <2>1. HasDispatch(q.to, stack, out) /\ Len(stack) = 0
    BY DEF DispatchInv, UnwindInv, OutHasPads
  <2> QED
    BY <2>1 DEF HasDispatch
<1> QED
  BY <1>1, <1>2, <1>3, <1>4, <1>5, ContinuesOutward

\* The block that q continues to.
LEMMA Continuing ==
  ASSUME DispatchInv, stack = <<>>, NEW q \in out, OuterLevel(q.scope) # 0,
         NoMain(q.scope), ~LosesFinally(q.scope)
  PROVE  \E p \in out : /\ p.id = q.to
                        /\ Len(p.scope) = OuterLevel(q.scope)
                        /\ Outside(p.scope, q.scope, Len(p.scope))
                        /\ NoMain(p.scope) /\ ~LosesFinally(p.scope)
<1> DEFINE s == q.scope
           d == Len(s)
           j == OuterLevel(s)
<1>1. /\ s \in Seq(Block) /\ s # <<>> /\ RightDispatcher(q, nextId)
      /\ d \in Nat \ {0}
  BY DispatchersEmitted, StackDomain, EmptySeq
<1>2. /\ q.to = s[j].id /\ StackInv(s, nextId)
  BY <1>1 DEF RightDispatcher
<1>3. j \in 1 .. (d - 1) /\ j \in 1 .. d
  BY <1>1, OuterLevelIn
<1>4. s[j].id \in 1 .. (nextId - 1)
  BY <1>2, <1>3 DEF StackInv
<1>5. PICK p \in out : p.id = q.to
  <2>1. q.to # 0
    BY <1>2, <1>4
  <2> QED
    BY <2>1, DispatchersEmitted
<1> DEFINE t == p.scope
           k == Len(t)
<1>6. /\ t \in Seq(Block) /\ k \in Nat \ {0} /\ k \in 1 .. k /\ t[k].id = p.id
  <2>1. t \in Seq(Block) /\ t # <<>> /\ RightDispatcher(p, nextId)
    BY DispatchersEmitted
  <2>2. k \in Nat \ {0}
    BY <2>1, StackDomain, EmptySeq
  <2> QED
    BY <2>1, <2>2 DEF RightDispatcher
<1>7. Outside(t, s, k)
  BY <1>5 DEF DispatchInv, ChainInv, Continues
<1> HIDE DEF s, t
<1>8. k \in 1 .. d /\ s[k].id = s[j].id
  BY <1>2, <1>5, <1>6, <1>7 DEF Outside, SameCode
<1> HIDE DEF k, j, d
<1>9. k = j
  <2>1. \A a, b \in 1 .. d : a < b => s[a].id < s[b].id
    BY <1>2 DEF StackInv, d
  <2>2. s[k].id \in Nat /\ s[j].id \in Nat
    BY <1>2, <1>3, <1>4, <1>8
  <2>3. ~ (k < j) /\ ~ (j < k)
    BY <1>3, <1>8, <2>1, <2>2
  <2> QED
    BY <1>3, <1>8, <2>3
<1>10. NoMain(t)
  <2> SUFFICES ASSUME NEW i \in 1 .. k PROVE ~t[i].catchUnhandled
    BY DEF NoMain, k
  <2>1. i \in 1 .. d /\ SameCode(t[i], s[i])
    BY <1>1, <1>3, <1>7, <1>9 DEF Outside
  <2> QED
    BY <2>1 DEF NoMain, SameCode, s, d
<1>11. ~LosesFinally(t)
  <2> SUFFICES ASSUME LosesFinally(t) PROVE FALSE
    OBVIOUS
  <2>1. PICK i \in 1 .. (k - 1) :
          /\ t[i].finally /\ ~t[i].unprotected
          /\ \A a \in 1 .. i : (t[a].atEnd \/ t[a].eh # {}) => t[a].unprotected
    BY DEF LosesFinally, k
  <2>2. \A a \in 1 .. i : /\ a \in 1 .. (k - 1) /\ a \in 1 .. k
    BY <1>1, <1>3, <1>9
  <2>3. \A a \in 1 .. i : /\ SameCode(t[a], s[a])
                          /\ t[a].unprotected = s[a].unprotected
    BY <1>7, <2>2 DEF Outside
  <2>4. i \in 1 .. i /\ i \in 1 .. (d - 1)
    BY <1>1, <1>3, <1>9
  <2>5. /\ s[i].finally /\ ~s[i].unprotected
        /\ \A a \in 1 .. i : (s[a].atEnd \/ s[a].eh # {}) => s[a].unprotected
    BY <2>1, <2>3, <2>4 DEF SameCode
  <2>6. LosesFinally(s)
    BY <2>4, <2>5 DEF LosesFinally, d
  <2> QED
    BY <2>6 DEF s
<1> QED
  BY <1>5, <1>7, <1>9, <1>10, <1>11 DEF k, j, t, s

\* From the dispatcher of any block, the rest of what is required is run.
LEMMA UnwoundRequired ==
  ASSUME DispatchInv, stack = <<>>, NEW r, NEW e, NEW f,
         Unwound(f, r, e, {0} \cup {q.id : q \in out})
  PROVE  \A q \in out : NoMain(q.scope) /\ ~LosesFinally(q.scope)
                          => f[q.id] = RequiredUnwinding(q.scope, e)
<1> DEFINE D == {0} \cup {q.id : q \in out}
           none == [ran |-> <<>>, at |-> 0]
           Wrong(q) == /\ NoMain(q.scope) /\ ~LosesFinally(q.scope)
                       /\ f[q.id] # RequiredUnwinding(q.scope, e)
           T == {q.id : q \in {p \in out : Wrong(p)}}
<1>1. f[0] = none
  BY DEF Unwound
<1>2. ASSUME NEW q \in out
      PROVE  f[q.id] = IF Handled(q, r, e) THEN [ran |-> <<>>, at |-> q.id]
                       ELSE [ran |-> Continued(q) \o f[q.to].ran, at |-> f[q.to].at]
  <2>1. Emitted(q.id) = q /\ q.id # 0 /\ q.id \in D
    BY DispatchersEmitted
  <2> QED
    BY <2>1, ZenonT(40) DEF Unwound
<1> HIDE DEF D, none
<1> SUFFICES ASSUME T # {} PROVE FALSE
  OBVIOUS
<1>3. PICK x \in T : \A y \in T : x <= y
  <2>1. T \subseteq Nat
    BY DispatchersEmitted
  <2> HIDE DEF T
  <2> QED
    BY <2>1, SmallestExists
<1>4. PICK q \in out : q.id = x /\ Wrong(q)
  OBVIOUS
<1> DEFINE s == q.scope
           d == Len(s)
           j == OuterLevel(s)
<1>5. /\ s \in Seq(Block) /\ s # <<>> /\ d \in Nat \ {0} /\ d \in 1 .. d
      /\ RightDispatcher(q, nextId) /\ q.id \in Nat /\ q.to \in Nat /\ q.to < q.id
  <2>1. /\ s \in Seq(Block) /\ s # <<>> /\ RightDispatcher(q, nextId)
        /\ q.id \in 1 .. (nextId - 1) /\ nextId \in Nat /\ q.to \in Nat /\ q.to < q.id
    BY DispatchersEmitted
  <2>2. d \in Nat \ {0}
    BY <2>1, StackDomain, EmptySeq
  <2> QED
    BY <2>1, <2>2
<1>6. /\ StackInv(s, nextId) /\ q.id = s[d].id
      /\ Continued(q) = Required(s, IF j = 0 THEN d - 1 ELSE j)
      /\ q.to = IF j = 0 THEN 0 ELSE s[j].id
  BY <1>5 DEF RightDispatcher, Continued, Left
<1>7. NoMain(s) /\ ~LosesFinally(s) /\ f[q.id] # RequiredUnwinding(s, e)
  BY <1>4
<1>8. ~s[d].catchUnhandled
  BY <1>5, <1>7 DEF NoMain
<1>9. CASE e \in s[d].eh
  <2>1. f[q.id] = [ran |-> <<>>, at |-> q.id]
    BY <1>2, <1>9 DEF Handled
  <2>2. RequiredUnwinding(s, e) = [ran |-> <<>>, at |-> s[d].id]
    BY <1>5, <1>6, <1>9, HandledHere
  <2> QED
    BY <1>6, <1>7, <2>1, <2>2
<1>10. CASE e \notin s[d].eh
  <2>1. f[q.id] = [ran |-> Continued(q) \o f[q.to].ran, at |-> f[q.to].at]
    BY <1>2, <1>8, <1>10 DEF Handled
  <2>2. CASE j = 0
    <3>1. RequiredUnwinding(s, e) = [ran |-> Required(s, d - 1), at |-> 0]
      BY <1>5, <1>6, <1>7, <1>10, <2>2, NothingOutside
    <3>2. f[q.id] = [ran |-> Required(s, d - 1) \o <<>>, at |-> 0]
      <4>1. q.to = 0 /\ Continued(q) = Required(s, d - 1)
        BY <1>6, <2>2
      <4>2. f[q.to].ran = <<>> /\ f[q.to].at = 0
        BY <1>1, <4>1 DEF none
      <4> QED
        BY <2>1, <4>1, <4>2
    <3>3. Required(s, d - 1) \in Seq(Nat \X Ops)
      <4> DEFINE c == d - 1
                 v == [i \in 1 .. (d - c) |-> Duty(s[d + 1 - i])]
      <4>1. d \in 0 .. Len(s) /\ c \in 0 .. d
        BY <1>5
      <4>2. Required(s, c) = FlattenSeq(v)
        BY DEF Required
      <4> HIDE DEF c
      <4>3. v \in Seq(Seq(Nat \X Ops))
        BY <1>5, <4>1, DutiesType
      <4> HIDE DEF v
      <4>4. Required(s, c) \in Seq(Nat \X Ops)
        BY <4>2, <4>3, FlattenType
      <4> QED
        BY <4>4 DEF c
    <3>4. Required(s, d - 1) \o <<>> = Required(s, d - 1)
      BY <3>3, ConcatEmptySeq
    <3> QED
      BY <1>7, <3>1, <3>2, <3>4
  <2>3. CASE j # 0
    <3>1. PICK p \in out : /\ p.id = q.to /\ Len(p.scope) = j
                           /\ Outside(p.scope, s, Len(p.scope))
                           /\ NoMain(p.scope) /\ ~LosesFinally(p.scope)
      BY <1>7, <2>3, Continuing
    <3> DEFINE t == p.scope
               h == HandlerLevel(t, e)
    <3>2. f[p.id] = RequiredUnwinding(t, e)
      <4>1. ~ (x <= p.id)
        BY <1>4, <1>5, <3>1
      <4>2. p.id \notin T
        BY <1>3, <4>1
      <4> QED
        BY <3>1, <4>2
    <3>3. t \in Seq(Block) /\ StackInv(t, nextId)
      BY DispatchersEmitted DEF RightDispatcher
    <3> HIDE DEF T, t, s, j
    <3>4. RequiredUnwinding(t, e)
            = [ran |-> Required(t, h), at |-> IF h = 0 THEN 0 ELSE t[h].id]
      BY <3>3, RequiredRan
    <3>5. HandlerLevel(s, e) = h
      BY <1>5, <1>7, <1>10, <2>3, <3>1, <3>3, SameHandler DEF t, j
    <3>6. RequiredUnwinding(s, e)
            = [ran |-> Required(s, h), at |-> IF h = 0 THEN 0 ELSE s[h].id]
      BY <1>5, <1>6, <3>5, RequiredRan
    <3>7. /\ h \in 0 .. Len(t) /\ Len(t) = j
          /\ Outside(t, s, Len(t))
      BY <3>1, <3>3, HandlerLevelIn DEF t
    <3>8. Required(s, h) = Required(s, j) \o Required(t, h)
      BY <1>5, <3>3, <3>7, RequiredOfOuter
    <3>9. h # 0 => t[h].id = s[h].id
      <4> HIDE DEF h
      <4>1. h # 0 => h \in 1 .. Len(t)
        BY <3>3, <3>7, StackDomain
      <4> QED
        BY <3>7, <4>1 DEF Outside, SameCode
    <3>10. f[q.id] = [ran |-> Required(s, j) \o Required(t, h),
                      at |-> IF h = 0 THEN 0 ELSE t[h].id]
      BY <1>6, <2>1, <2>3, <3>1, <3>2, <3>4
    <3> QED
      BY <1>7, <3>6, <3>8, <3>9, <3>10
  <2> QED
    BY <2>2, <2>3
<1> QED
  BY <1>9, <1>10

\* Whatever is compiled, an exception runs the cleanups of the blocks it leaves and
\* gets to its handler, outside the two cases of LosesFinally and LosesUnhandled.
THEOREM ExceptionsAlwaysUnwind == Spec => []ExceptionsUnwind
<1>1. DispatchInv => ExceptionsUnwind
  <2> SUFFICES ASSUME DispatchInv, stack = <<>>, NEW r \in out,
                      ~LosesFinally(r.scope), ~LosesUnhandled(r.scope), NEW e
               PROVE  Unwinding(r, e) = RequiredUnwinding(r.scope, e)
    BY DEF ExceptionsUnwind, UnwindsAsRequired
  <2> DEFINE s == r.scope
             d == Len(s)
             D == {0} \cup {q.id : q \in out}
  <2>1. /\ s \in Seq(Block) /\ s # <<>> /\ RightDispatcher(r, nextId)
        /\ d \in Nat \ {0} /\ d \in 1 .. d
    BY DispatchersEmitted, StackDomain, EmptySeq
  <2>2. /\ StackInv(s, nextId) /\ MainOutermost(s) /\ r.id = s[d].id
        /\ r.unhandled = s[d].catchUnhandled
    BY <2>1 DEF RightDispatcher
  <2>3. \E f : Unwound(f, r, e, D)
    <3>1. nextId \in Nat /\ D \subseteq 0 .. nextId
      <4>1. nextId \in Nat
        BY DispatchersEmitted
      <4>2. \A q \in out : q.id \in 0 .. nextId
        BY DispatchersEmitted
      <4> QED
        BY <4>1, <4>2
    <3>2. ASSUME NEW x \in D, x # 0 PROVE Emitted(x).to \in D /\ Emitted(x).to < x
      <4>1. PICK q \in out : q.id = x
        BY <3>2
      <4>2. /\ Emitted(x) = q /\ q.to < q.id
            /\ q.to # 0 => \E p \in out : p.id = q.to
        BY <4>1, DispatchersEmitted
      <4> QED
        BY <4>1, <4>2
    <3> HIDE DEF D
    <3> QED
      BY <3>1, <3>2, UnwoundExists
  <2>4. PICK f : /\ Unwound(f, r, e, D)
                 /\ Unwinding(r, e) = IF e \in r.clauses \/ r.cleanup \/ r.unhandled
                                      THEN f[r.id] ELSE [ran |-> <<>>, at |-> 0]
    BY <2>3, UnwindingIs
  <2>5. CASE s[d].catchUnhandled
    <3>1. Emitted(r.id) = r /\ r.id # 0 /\ r.id \in D
      BY DispatchersEmitted
    <3>2. d = 1 /\ r.unhandled
      BY <2>1, <2>2, <2>5 DEF MainOutermost
    <3>3. r.clauses = s[d].eh
      <4>1. \A k \in 1 .. d : k = d /\ Protects(s, k)
        BY <3>2 DEF Protects
      <4>2. r.clauses = UNION {s[k].eh : k \in {i \in 1 .. d : Protects(s, i)}}
        BY <2>1 DEF RightDispatcher
      <4> QED
        BY <2>1, <4>1, <4>2
    <3>4. Handled(r, r, e)
      BY <2>5, <3>2, <3>3 DEF Handled
    <3>5. f[r.id] = [ran |-> <<>>, at |-> r.id]
      BY <2>4, <3>1, <3>4 DEF Unwound
    <3>6. RequiredUnwinding(s, e) = [ran |-> <<>>, at |-> s[d].id]
      BY <2>1, <2>2, <2>5, HandledHere
    <3> QED
      BY <2>2, <2>4, <3>2, <3>5, <3>6
  <2>6. CASE ~s[d].catchUnhandled
    <3>1. NoMain(s)
      <4> SUFFICES ASSUME NEW i \in 1 .. d, s[i].catchUnhandled PROVE FALSE
        BY DEF NoMain
      <4>1. i = 1 /\ i # d
        BY <2>2, <2>6 DEF MainOutermost
      <4>2. d > 1
        <5>1. d \in Nat \ {0} /\ d # 1
          BY <2>1, <4>1
        <5> HIDE DEF d
        <5> QED
          BY <5>1
      <4>3. s[1].catchUnhandled
        BY <4>1
      <4> QED
        BY <4>2, <4>3 DEF LosesUnhandled
    <3>2. CASE e \in r.clauses \/ r.cleanup
      <4>1. f[r.id] = RequiredUnwinding(s, e)
        BY <2>4, <3>1, UnwoundRequired
      <4> QED
        BY <2>4, <3>2, <4>1
    <3>3. CASE ~(e \in r.clauses \/ r.cleanup)
      <4>1. RequiredUnwinding(s, e) = [ran |-> <<>>, at |-> 0]
        BY <2>1, <3>1, <3>3, NotEntered
      <4> QED
        BY <2>2, <2>4, <2>6, <3>3, <4>1
    <3> QED
      BY <3>2, <3>3
  <2> QED
    BY <2>5, <2>6
<1> QED
  BY <1>1, DispatchAlways, PTL

=============================================================================
