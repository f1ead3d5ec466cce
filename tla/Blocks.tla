------------------------------- MODULE Blocks -------------------------------
(***************************************************************************)
(* The block stack of gnatllvm-blocks.adb: what the compiler keeps while   *)
(* it walks the statements of one subprogram, and the cleanup code it      *)
(* emits on every way out of a block (falling through, exit, goto, return, *)
(* exception).                                                             *)
(*                                                                         *)
(* The state is the state of the COMPILER.  The code it emits is not kept  *)
(* instruction by instruction: what matters of a fixup is, for each block  *)
(* it leaves, which lifetimes it ends, which cleanups it calls and where   *)
(* these calls unwind to, and which stack pointer it restores last.  That  *)
(* is a Fragment.  A basic block being filled with fixups is a sequence of *)
(* fragments, and a position in it is an index in that sequence.           *)
(*                                                                         *)
(* The actions are the statements of a legal Ada subprogram, in every      *)
(* order; the legality rules of Ada and the guarantees of the front end    *)
(* used are Statement, Visible, CanDefine, EndsInReturn, LabelsDefined.     *)
(***************************************************************************)
EXTENDS Integers, Sequences, SequencesExt, FiniteSets

CONSTANTS
    Labels,      \* the labels of the subprogram being compiled
    Exceptions,  \* the exceptions that the handlers name
    PushKinds,   \* the kinds of block the program contains, a subset of Kinds
    Features,    \* the other constructs it contains, a subset of AllFeatures
    MaxDepth,    \* bound on the nesting of the source's blocks
    MaxBlocks,   \* bound on the number of blocks of a subprogram
    MaxGotos     \* bound on the number of gotos to labels not yet defined

Kinds == {"plain", "at_end", "finally", "handlers", "main"}
AllFeatures == {"loop", "call", "save", "lifetime"}

ASSUME BoundsAssumption == /\ MaxDepth \in Nat
                           /\ MaxBlocks \in Nat
                           /\ MaxGotos \in Nat
ASSUME ProgramAssumption == /\ PushKinds \subseteq Kinds
                            /\ Features \subseteq AllFeatures

VARIABLES
    stack,   \* Block_Stack
    labels,  \* Label_Info, one entry per label
    open,    \* Open_Branches
    exits,   \* Exit_Points
    dead,    \* Are_In_Dead_Code at the current position
    nextId,  \* identity of the next block pushed (identities are not reused)
    done,    \* history: the transfer of control just compiled, <<>> if none
    gotos,   \* history: the forward gotos, which later pops still fix up
    out      \* history: what Emit_Handlers built for the blocks popped so far

vars == <<stack, labels, open, exits, dead, nextId, done, gotos, out>>

Unknown == -1   \* a From_Block or Block_Depth that is not set

-----------------------------------------------------------------------------
(* Data                                                                    *)

Block ==
  [ id : Nat,
    eh : SUBSET Exceptions,     \* choices of EH_List, {} when there is none
    atEnd : BOOLEAN,            \* At_End_Proc is present
    finally : BOOLEAN,          \* Finally_Stmts is present
    catchUnhandled : BOOLEAN,   \* Catch_Unhandled
    handler : BOOLEAN,          \* At_End_Pass_Excptr: at_end is End_Handler
    loop : BOOLEAN,             \* the block Emit_Loop_Body pushes
    unprotected : BOOLEAN,      \* Unprotected
    stackSave : BOOLEAN,        \* Stack_Save is present
    life : BOOLEAN,             \* Lifetime_List is not null
    landingPad : BOOLEAN,       \* Landing_Pad is present
    dispatch : BOOLEAN,         \* Dispatch_BB is present
    ehWork : BOOLEAN,           \* EH_Work of Pop_Block, FALSE before it
    todo : SUBSET Exceptions ]  \* handlers Emit_Handlers has still to emit

Ops == {"lifetime_end", "finally", "at_end"}

Segment ==
  [ blk : Nat,        \* the block that is left here
    ops : Seq(Ops),   \* what is done for it, in this order
    unwind : Nat ]    \* block whose landing pad the calls use, 0 if none

Fragment ==
  [ segs : Seq(Segment),   \* in the order they run
    restore : Nat ]        \* block whose Stack_Save is restored last, 0 if none

NoFragment == [segs |-> <<>>, restore |-> 0]

Top == stack[Len(stack)]

NewBlock(n) ==
  [ id |-> n, eh |-> {}, atEnd |-> FALSE, finally |-> FALSE,
    catchUnhandled |-> FALSE, handler |-> FALSE, loop |-> FALSE,
    unprotected |-> FALSE, stackSave |-> FALSE, life |-> FALSE,
    landingPad |-> FALSE, dispatch |-> FALSE, ehWork |-> FALSE, todo |-> {} ]

\* The largest and the smallest of a set of levels, 0 when it is empty.
Innermost(S) == IF S = {} THEN 0 ELSE CHOOSE j \in S : \A k \in S : k <= j
Outermost(S) == IF S = {} THEN 0 ELSE CHOOSE j \in S : \A k \in S : j <= k

-----------------------------------------------------------------------------
(* Landing pads and fixups                                                 *)

HasCleanup(b) == b.atEnd \/ b.finally

\* Mutant of LandingPadLevel: a block being popped still protects.
PadOfAnyBlock(stk) ==
  Innermost({j \in DOMAIN stk :
               HasCleanup(stk[j]) \/ stk[j].eh # {} \/ stk[j].catchUnhandled})

\* Get_Landing_Pad: the level that protects a call made at the top of stk.
LandingPadLevel(stk) ==
  Innermost({j \in DOMAIN stk :
               /\ HasCleanup(stk[j]) \/ stk[j].eh # {} \/ stk[j].catchUnhandled
               /\ ~stk[j].unprotected})

\* Call_At_End makes the calls with the innermost block marked Unprotected.
Quiet(stk) == [stk EXCEPT ![Len(stk)].unprotected = TRUE]

UnwindTarget(stk) ==
  LET l == LandingPadLevel(Quiet(stk)) IN IF l = 0 THEN 0 ELSE stk[l].id

If(present, op) == IF present THEN <<op>> ELSE <<>>

\* Lifetimes, then Call_At_End, of one block.  End_Handler does not throw.
Cleanup(stk, b) ==
  [ blk |-> b.id,
    ops |-> If(b.life, "lifetime_end") \o If(b.finally, "finally")
              \o If(b.atEnd, "at_end"),
    unwind |-> IF b.finally \/ (b.atEnd /\ ~b.handler)
               THEN UnwindTarget(stk) ELSE 0 ]

\* Call_At_End alone.
CallAtEnd(stk, b) == Cleanup(stk, [b EXCEPT !.life = FALSE])

Skip(b) == [blk |-> b.id, ops |-> <<>>, unwind |-> 0]

\* Mutant of Runs: the exception made for the first block is dropped.
RunsProtected(stk, j, from) == ~stk[j].unprotected

\* Build_Fixups_From_To passes an Unprotected block over, except the first.
Runs(stk, j, from) == ~stk[j].unprotected \/ j = from

Fixups(stk, from, to) ==
  [ segs |-> [i \in 1 .. (from - to) |->
                LET j == from + 1 - i
                IN  IF Runs(stk, j, from) THEN Cleanup(stk, stk[j])
                                          ELSE Skip(stk[j])],
    restore |->
      LET saved == {j \in (to + 1) .. from :
                      Runs(stk, j, from) /\ stk[j].stackSave}
      IN  IF to = 0 \/ saved = {} THEN 0 ELSE stk[Outermost(saved)].id ]

\* Emitting a call that may throw makes the landing pad it unwinds to.
Requested(stk, level) ==
  IF level = 0 THEN stk ELSE [stk EXCEPT ![level].landingPad = TRUE]

MayThrow(frag) == \E i \in DOMAIN frag.segs : frag.segs[i].unwind # 0

AfterEmitting(stk, frag) ==
  IF MayThrow(frag) THEN Requested(stk, LandingPadLevel(Quiet(stk))) ELSE stk

NonEmpty(frag) ==
  \/ frag.restore # 0
  \/ \E i \in DOMAIN frag.segs : frag.segs[i].ops # <<>>

\* The entries of Label_Info, Open_Branches and Exit_Points, with n blocks open.
\* "owner" is the block the label is in, and "fixup" the contents of Fixup_BB or
\* Exit_BB when "from" is set.
LabelData(n) ==
  [ depth : Int, from : Unknown .. n, fixup : Fragment, owner : Nat ]

OpenBranch(n) ==
  [ label : Labels,
    code : Seq(Fragment),   \* the fixups emitted in or after Made_BB
    made : Nat,             \* the start of Made_BB in "code"
    from : Unknown .. n,    \* From_Block, the level it has been fixed up to
    to : Int ]              \* the level of the label once it is defined

ExitPoint(n) == [ depth : 0 .. n, from : Unknown .. n, fixup : Fragment ]

\* A transfer of control whose code is complete when it is compiled.
Transfer ==
  [ kind : {"fall", "goto", "exit", "return"},
    scope : Seq(Block),   \* the stack at the point it leaves from
    to : Nat,             \* the level it goes to
    frag : Fragment ]

\* A goto to a label not yet defined: it runs open[ob].code after "off".
Goto == [label : Labels, scope : Seq(Block), ob : Nat, off : Nat]

\* What Emit_Handlers emitted for a block: its landing pad, the code it runs
\* when no handler matches, and the dispatcher it continues to.
Dispatcher ==
  [ id : Nat,
    scope : Seq(Block),            \* the stack at the pop, the block on top
    landingPad : BOOLEAN,          \* it has a landingpad instruction
    clauses : SUBSET Exceptions,   \* exceptions listed by that instruction
    unhandled : BOOLEAN,           \* and Unhandled_Others
    cleanup : BOOLEAN,             \* its cleanup flag
    self : Segment,                \* Call_At_End of the block itself
    rest : Fragment,               \* fixups of the levels passed to get to "to"
    to : Nat ]                     \* block whose dispatcher is next, 0: resume

-----------------------------------------------------------------------------
(* Initial state, and the state between two subprograms                    *)

NoLabel == [depth |-> Unknown, from |-> Unknown, fixup |-> NoFragment, owner |-> 0]

Init ==
  /\ stack = <<>>
  /\ labels = [l \in Labels |-> NoLabel]
  /\ open = <<>>
  /\ exits = <<>>
  /\ dead = FALSE
  /\ nextId = 1
  /\ done = <<>>
  /\ gotos = <<>>
  /\ out = {}

\* Reset_Block_Tables, once Emit_One_Body has popped the subprogram's block.
\* Exit_Points is not reset.
ResetBlockTables ==
  /\ stack = <<>>
  /\ nextId > 1
  /\ labels' = [l \in Labels |-> NoLabel]
  /\ open' = <<>>
  /\ nextId' = 1
  /\ done' = <<>>
  /\ gotos' = <<>>
  /\ out' = {}
  /\ dead' = FALSE
  /\ UNCHANGED <<stack, exits>>

-----------------------------------------------------------------------------
(* What a legal program may do next                                        *)

\* We are in the declarations or statements of a block, not at its end.
Statement == stack # <<>> /\ ~Top.unprotected

\* A goto may name a label of an enclosing sequence of statements, but a
\* handler may not jump back into the statements it handles.
Visible(l) ==
  LET d == labels[l].depth
  IN  /\ d \in DOMAIN stack
      /\ stack[d].id = labels[l].owner
      /\ ~stack[d].unprotected

\* A label may be defined where it is visible to all the gotos that name it.
CanDefine(l) ==
  \A i \in DOMAIN gotos :
    gotos[i].label = l =>
      /\ Len(stack) <= Len(gotos[i].scope)
      /\ gotos[i].scope[Len(stack)].id = Top.id

\* The front end ends a subprogram body that has an at-end procedure with a
\* return statement (Emit_One_Body emits a bare "ret" otherwise).
EndsInReturn == Len(stack) = 1 /\ Top.atEnd => dead

\* Every label is defined in a sequence of statements around its gotos, so at
\* the latest at the end of the outermost one that is still open.
LabelsDefined ==
  (\A j \in 1 .. (Len(stack) - 1) : stack[j].unprotected)
    => \A i \in DOMAIN open : open[i].from = Unknown

-----------------------------------------------------------------------------
(* Blocks                                                                  *)

Pushed(b) == /\ stack' = Append(stack, b)
             /\ nextId' = nextId + 1
             /\ dead' = FALSE
             /\ done' = <<>>

\* Push_Block for the subprogram body (Emit_One_Body, Emit_Elab_Proc).
PushBody ==
  /\ stack = <<>>
  /\ nextId = 1
  /\ \/ "plain" \in PushKinds /\ Pushed(NewBlock(nextId))
     \/ "at_end" \in PushKinds /\ Pushed([NewBlock(nextId) EXCEPT !.atEnd = TRUE])
     \/ "main" \in PushKinds
          /\ Pushed([NewBlock(nextId) EXCEPT !.catchUnhandled = TRUE])
     \/ /\ "handlers" \in PushKinds
        /\ \E E \in SUBSET Exceptions \ {{}} :
             Pushed([NewBlock(nextId) EXCEPT !.eh = E])
  /\ UNCHANGED <<labels, open, exits, gotos, out>>

CanPush == /\ Statement
           /\ Len(stack) < MaxDepth
           /\ nextId <= MaxBlocks

\* Push_Block for a block statement or a handled sequence of statements.  The
\* front end gives one HSS either handlers or cleanups.
PushBlock ==
  /\ CanPush
  /\ \/ "plain" \in PushKinds /\ Pushed(NewBlock(nextId))
     \/ "at_end" \in PushKinds /\ Pushed([NewBlock(nextId) EXCEPT !.atEnd = TRUE])
     \/ "finally" \in PushKinds
          /\ Pushed([NewBlock(nextId) EXCEPT !.finally = TRUE])
     \/ /\ "handlers" \in PushKinds
        /\ \E E \in SUBSET Exceptions \ {{}} :
             Pushed([NewBlock(nextId) EXCEPT !.eh = E])
  /\ UNCHANGED <<labels, open, exits, gotos, out>>

\* Mutant of PushLoop: Push_Block comes before Push_Loop.
PushLoopInside ==
  /\ "loop" \in Features
  /\ CanPush
  /\ exits' = Append(exits, [depth |-> Len(stack) + 1, from |-> Unknown,
                             fixup |-> NoFragment])
  /\ Pushed([NewBlock(nextId) EXCEPT !.loop = TRUE])
  /\ UNCHANGED <<labels, open, gotos, out>>

\* Push_Loop and Push_Block, in Emit_Loop_Body.
PushLoop ==
  /\ "loop" \in Features
  /\ CanPush
  /\ exits' = Append(exits, [depth |-> Len(stack), from |-> Unknown,
                             fixup |-> NoFragment])
  /\ Pushed([NewBlock(nextId) EXCEPT !.loop = TRUE])
  /\ UNCHANGED <<labels, open, gotos, out>>

\* A dynamic allocation: the stack pointer at the start of the block is saved,
\* unless this is the body's block or it has been saved.
SaveStackPointer ==
  /\ "save" \in Features
  /\ Statement
  /\ ~Top.stackSave
  /\ Len(stack) > 1
  /\ stack' = [stack EXCEPT ![Len(stack)].stackSave = TRUE]
  /\ dead' = FALSE
  /\ done' = <<>>
  /\ UNCHANGED <<labels, open, exits, nextId, gotos, out>>

\* A large object of fixed size is declared.
AddLifetimeEntry ==
  /\ "lifetime" \in Features
  /\ Statement
  /\ stack' = [stack EXCEPT ![Len(stack)].life = TRUE]
  /\ dead' = FALSE
  /\ done' = <<>>
  /\ UNCHANGED <<labels, open, exits, nextId, gotos, out>>

\* A call that may throw becomes an invoke; one that does not return (a raise)
\* is followed by "unreachable".
CallMayThrow(returns) ==
  /\ "call" \in Features
  /\ Statement
  /\ stack' = Requested(stack, LandingPadLevel(stack))
  /\ dead' = ~returns
  /\ done' = <<>>
  /\ UNCHANGED <<labels, open, exits, nextId, gotos, out>>

\* A bare "raise;" in a handler: reraise with the innermost Exc_Ptr, which the
\* blocks whose handlers are being emitted have.
Reraise ==
  /\ "call" \in Features
  /\ Statement
  /\ \E j \in DOMAIN stack : stack[j].unprotected /\ stack[j].eh # {}
  /\ stack' = Requested(stack, LandingPadLevel(stack))
  /\ dead' = TRUE
  /\ done' = <<>>
  /\ UNCHANGED <<labels, open, exits, nextId, gotos, out>>

-----------------------------------------------------------------------------
(* Jumps                                                                   *)

Compiled(kind, to, frag) ==
  done' = <<[kind |-> kind, scope |-> stack, to |-> to, frag |-> frag]>>

\* In the following, a conditional jump is followed by live code, and an
\* unconditional one is not.

\* Mutant of Cached: any fixup that was made and not cleared is used.
CachedAtAnyLevel(c) == c.from # Unknown

\* The fixup kept for a label or a loop exit was made at the current level.
Cached(c) == c.from = Len(stack)

\* Get_Label_BB, the label being known: the fixups are cached for one level.
GotoKnown(l, cond) ==
  /\ Statement
  /\ labels[l].depth >= 0 /\ Visible(l)
  /\ LET cached == Cached(labels[l])
         frag == IF cached THEN labels[l].fixup
                           ELSE Fixups(stack, Len(stack), labels[l].depth)
     IN  /\ labels' = [labels EXCEPT ![l].from = Len(stack), ![l].fixup = frag]
         /\ stack' = IF cached THEN stack ELSE AfterEmitting(stack, frag)
         /\ Compiled("goto", labels[l].depth, frag)
  /\ dead' = ~cond
  /\ UNCHANGED <<open, exits, nextId, gotos, out>>

\* The innermost entry of Open_Branches for l that has been fixed up to here.
OpenEntry(l) ==
  Innermost({i \in DOMAIN open : open[i].label = l /\ open[i].from = Len(stack)})

\* Mutant of Written: the block of an open branch is always shared.
NeverWritten(ob) == FALSE

\* Whether Made_BB has instructions; then a branch made now must start after
\* them.
Written(ob) == \E k \in (ob.made + 1) .. Len(ob.code) : NonEmpty(ob.code[k])

\* Get_Label_BB, the label being unknown.
GotoOpen(l, cond) ==
  /\ Statement /\ Len(gotos) < MaxGotos
  /\ labels[l].depth = Unknown
  /\ LET j == OpenEntry(l)
         made == IF Written(open[j]) THEN Len(open[j].code) ELSE open[j].made
     IN  \/ /\ j # 0
            /\ open' = [open EXCEPT ![j].made = made]
            /\ gotos' = Append(gotos, [label |-> l, scope |-> stack,
                                       ob |-> j, off |-> made])
         \/ /\ j = 0
            /\ open' = Append(open, [label |-> l, code |-> <<>>, made |-> 0,
                                     from |-> Len(stack), to |-> Unknown])
            /\ gotos' = Append(gotos, [label |-> l, scope |-> stack,
                                       ob |-> Len(open) + 1, off |-> 0])
  /\ dead' = ~cond
  /\ done' = <<>>
  /\ UNCHANGED <<stack, labels, exits, nextId, out>>

\* Enter_Block_With_Node: the label gets its level and its open branches end.
DefineLabel(l) ==
  /\ Statement
  /\ labels[l].depth = Unknown /\ CanDefine(l)
  /\ labels' = [labels EXCEPT ![l].depth = Len(stack), ![l].owner = Top.id]
  /\ open' = [i \in DOMAIN open |->
                IF open[i].label = l
                THEN [open[i] EXCEPT !.from = Unknown, !.to = Len(stack)]
                ELSE open[i]]
  /\ dead' = FALSE
  /\ done' = <<>>
  /\ UNCHANGED <<stack, exits, nextId, gotos, out>>

\* Get_Exit_Point, cached like the fixups of a known label.
Exit(i, cond) ==
  /\ Statement
  /\ LET cached == Cached(exits[i])
         frag == IF cached THEN exits[i].fixup
                           ELSE Fixups(stack, Len(stack), exits[i].depth)
     IN  /\ exits' = [exits EXCEPT ![i].from = Len(stack), ![i].fixup = frag]
         /\ stack' = IF cached THEN stack ELSE AfterEmitting(stack, frag)
         /\ Compiled("exit", exits[i].depth, frag)
  /\ dead' = ~cond
  /\ UNCHANGED <<labels, open, nextId, gotos, out>>

\* Emit_Return_Statement, which calls Emit_Fixups_For_Return.
Return ==
  /\ Statement
  /\ LET frag == Fixups(stack, Len(stack), 0)
     IN  /\ stack' = AfterEmitting(stack, frag)
         /\ Compiled("return", 0, frag)
  /\ dead' = TRUE
  /\ UNCHANGED <<labels, open, exits, nextId, gotos, out>>

-----------------------------------------------------------------------------
(* The end of a block                                                      *)

\* Mutant of EHWork: being continued to by an inner block is not work.
WorkIfLandingPad(b) == b.landingPad

EHWork(b) == b.landingPad \/ b.dispatch

\* Are_In_Dead_Code when Pop_Block starts.  Emit_One_Body ends live code in a bare
\* return first; Emit_Elab_Proc, whose block may have handlers, does not.
DeadAtPop ==
  { x \in {dead, TRUE} : /\ Len(stack) > 1 \/ Top.eh # {} => x = dead
                         /\ Len(stack) = 1 /\ Top.catchUnhandled => x }

\* Pop_Block up to the handlers: the block stops protecting, and live code
\* falls through its fixups.
BeginPop ==
  /\ Statement /\ EndsInReturn /\ LabelsDefined
  /\ dead' \in DeadAtPop
  /\ LET d == Len(stack)
         quiet == [stack EXCEPT ![d].unprotected = TRUE]
         frag == Fixups(quiet, d, d - 1)
         after == IF dead' THEN quiet ELSE AfterEmitting(quiet, frag)
     IN  /\ stack' = [after EXCEPT ![d].ehWork = EHWork(Top),
                                   ![d].todo = IF EHWork(Top) THEN Top.eh ELSE {}]
         /\ IF dead' THEN done' = <<>> ELSE Compiled("fall", d - 1, frag)
  /\ UNCHANGED <<labels, open, exits, nextId, gotos, out>>

\* Emit_Handlers emits a handler's statements in a block of their own, whose
\* at-end procedure is End_Handler.
PushHandler(e) ==
  /\ stack # <<>> /\ Top.unprotected
  /\ e \in Top.todo
  /\ stack' = Append([stack EXCEPT ![Len(stack)].todo = @ \ {e}],
                     [NewBlock(nextId) EXCEPT !.atEnd = TRUE, !.handler = TRUE])
  /\ nextId' = nextId + 1
  /\ dead' = FALSE
  /\ done' = <<>>
  /\ UNCHANGED <<labels, open, exits, gotos, out>>

\* The outer block whose dispatcher Emit_Handlers continues to.
OuterDispatch(d) ==
  Innermost({j \in 1 .. (d - 1) :
               (stack[j].atEnd \/ stack[j].eh # {}) /\ ~stack[j].unprotected})

\* Mutant of Clauses: the outer handlers are left to the outer landing pads.
OwnClauses(d) == stack[d].eh

\* The exceptions the landingpad of level d lists: its own, then the outer ones.
Clauses(d) ==
  stack[d].eh \cup
    UNION {stack[j].eh : j \in {k \in 1 .. (d - 1) : ~stack[k].unprotected}}

Dispatched(d) ==
  LET j == OuterDispatch(d)
  IN  [ id |-> stack[d].id,
        scope |-> stack,
        landingPad |-> stack[d].landingPad,
        clauses |-> Clauses(d),
        unhandled |-> stack[d].catchUnhandled,
        cleanup |-> \E k \in 1 .. d : /\ HasCleanup(stack[k])
                                      /\ ~stack[k].unprotected \/ k = d,
        self |-> CallAtEnd(stack, stack[d]),
        rest |-> IF j = 0 THEN NoFragment ELSE Fixups(stack, d - 1, j),
        to |-> IF j = 0 THEN 0 ELSE stack[j].id ]

\* The stack once Emit_Handlers (if there is EH work) and the fixups of the
\* open branches of level d have been emitted.
AfterHandlers(d) ==
  LET r == Dispatched(d)
      j == OuterDispatch(d)
      calls == AfterEmitting(AfterEmitting(stack, r.rest),
                             [segs |-> <<r.self>>, restore |-> 0])
  IN  IF ~stack[d].ehWork THEN stack
      ELSE IF j = 0 THEN calls
      ELSE [calls EXCEPT ![j].dispatch = TRUE]

\* Mutant of FixedUp: the level the branch is fixed up to is not updated.
FixedUpInPlace(d, frag) ==
  [i \in DOMAIN open |-> IF open[i].from = d
                         THEN [open[i] EXCEPT !.code = Append(@, frag)]
                         ELSE open[i]]

\* Pop_Block adds the block's fixup to each open branch of its level.
FixedUp(d, frag) ==
  [i \in DOMAIN open |-> IF open[i].from = d
                         THEN [open[i] EXCEPT !.code = Append(@, frag),
                                              !.from = d - 1]
                         ELSE open[i]]

\* Mutant of Cleared: cached fixups outlive the block they leave.
NotCleared(c) == c

Cleared(c) == [c EXCEPT !.from = Unknown]

\* The rest of Pop_Block, once every handler has been emitted.
EndPop ==
  /\ stack # <<>> /\ Top.unprotected /\ Top.todo = {}
  /\ LET d == Len(stack)
         frag == Fixups(stack, d, d - 1)
         handled == AfterHandlers(d)
         after == IF \E i \in DOMAIN open : open[i].from = d
                  THEN AfterEmitting(handled, frag) ELSE handled
     IN  /\ out' = IF Top.ehWork THEN out \cup {Dispatched(d)} ELSE out
         /\ open' = FixedUp(d, frag)
         /\ stack' = SubSeq(after, 1, d - 1)
  /\ labels' = [l \in Labels |-> Cleared(labels[l])]
  /\ LET cleared == [i \in DOMAIN exits |-> Cleared(exits[i])]
     IN  exits' = IF Top.loop THEN SubSeq(cleared, 1, Len(exits) - 1) ELSE cleared
  /\ dead' = (dead /\ ~Top.ehWork /\ ~Top.loop)
  /\ done' = <<>>
  /\ UNCHANGED <<nextId, gotos>>

-----------------------------------------------------------------------------
Next ==
  \/ PushBody
  \/ PushBlock
  \/ PushLoop
  \/ SaveStackPointer
  \/ AddLifetimeEntry
  \/ \E returns \in BOOLEAN : CallMayThrow(returns)
  \/ Reraise
  \/ \E l \in Labels, cond \in BOOLEAN : GotoKnown(l, cond) \/ GotoOpen(l, cond)
  \/ \E l \in Labels : DefineLabel(l)
  \/ \E i \in DOMAIN exits, cond \in BOOLEAN : Exit(i, cond)
  \/ Return
  \/ BeginPop
  \/ \E e \in Exceptions : PushHandler(e)
  \/ EndPop
  \/ ResetBlockTables

Spec == Init /\ [][Next]_vars

-----------------------------------------------------------------------------
(* Properties                                                              *)

\* The tables hold what their Ada types say, and a From_Block or a Block_Depth
\* that is set is a level that exists: fixups are built by indexing Block_Stack
\* with them.
TypeOK ==
  /\ stack \in Seq(Block)
  /\ labels \in [Labels -> LabelData(Len(stack))]
  /\ open \in Seq(OpenBranch(Len(stack)))
  /\ exits \in Seq(ExitPoint(Len(stack)))
  /\ dead \in BOOLEAN
  /\ nextId \in Nat
  /\ done \in Seq(Transfer)
  /\ gotos \in Seq(Goto)
  /\ out \in SUBSET Dispatcher

\* The loop exits that can be named are those of the loop blocks on the stack,
\* outermost first, whatever is nested in the loops and however it is left:
\* Exit_Points and Block_Stack are two tables, pushed and popped by procedures
\* of their own, and fixups index one with the levels kept in the other.
LoopsMatch ==
  /\ \A i \in DOMAIN exits : /\ exits[i].depth + 1 \in DOMAIN stack
                             /\ stack[exits[i].depth + 1].loop
  /\ \A i, j \in DOMAIN exits : i < j => exits[i].depth < exits[j].depth
  /\ \A k \in DOMAIN stack :
       stack[k].loop => \E i \in DOMAIN exits : exits[i].depth + 1 = k

\* The tables are well formed and agree.
TypeInv == TypeOK /\ LoopsMatch

\* Every cleanup of a segment, in order: <<block, operation>>.
CallsOf(seg) ==
  FlattenSeq([k \in DOMAIN seg.ops |->
                If(seg.ops[k] # "lifetime_end", <<seg.blk, seg.ops[k]>>)])

\* Every cleanup of the path, in order.
Calls(segs) == FlattenSeq([i \in DOMAIN segs |-> CallsOf(segs[i])])

\* What Ada requires of a transfer of control that leaves block b,
Duty(b) ==
  If(b.finally, <<b.id, "finally">>) \o If(b.atEnd, <<b.id, "at_end">>)

\* and the blocks of scope above level "to", innermost first.
Required(scope, to) ==
  FlattenSeq([i \in 1 .. (Len(scope) - to) |-> Duty(scope[Len(scope) + 1 - i])])

Segs(path) == FlattenSeq([i \in DOMAIN path |-> path[i].segs])

\* What runs for the forward goto g, and where it gets to.
Path(g) == SubSeq(open[g.ob].code, g.off + 1, Len(open[g.ob].code))
Target(g) == open[g.ob].to

Resolved == {i \in DOMAIN gotos : Target(gotos[i]) # Unknown}

\* Every transfer of control (fall through, exit, goto in either direction,
\* return) runs the finally statements and at-end procedures of exactly the
\* blocks it leaves, each once, innermost first: Build_Fixups_From_To, the
\* caches of Get_Label_BB and Get_Exit_Point, and the open branches that
\* Pop_Block extends and Get_Label_BB shares.
TransfersCleanUp ==
  /\ \A i \in DOMAIN done :
       Calls(done[i].frag.segs) = Required(done[i].scope, done[i].to)
  /\ \A i \in Resolved :
       Calls(Segs(Path(gotos[i]))) = Required(gotos[i].scope, Target(gotos[i]))

\* The levels above "to" of scope that have saved the stack pointer.
SavedLevels(scope, to) == {j \in (to + 1) .. Len(scope) : scope[j].stackSave}

LastRestore(path) ==
  LET k == Innermost({i \in DOMAIN path : path[i].restore # 0})
  IN  IF k = 0 THEN 0 ELSE path[k].restore

Restores(path, scope, to) ==
  LET saved == SavedLevels(scope, to)
  IN  saved # {} =>
        \E j \in (to + 1) .. Outermost(saved) : LastRestore(path) = scope[j].id

\* Falling out of a block, or a forward goto, gives back the stack space that
\* was allocated in every block it leaves, and none of the block it reaches:
\* the last stack pointer restored was saved by the outermost block left that
\* has allocated, or by one outside it that is left too.
ForwardRestoresStack ==
  /\ \A i \in DOMAIN done :
       done[i].kind = "fall" /\ done[i].to > 0
         => Restores(<<done[i].frag>>, done[i].scope, done[i].to)
  /\ \A i \in Resolved :
       Restores(Path(gotos[i]), gotos[i].scope, Target(gotos[i]))

EndsLifetime(segs, b) ==
  \E i \in DOMAIN segs :
    /\ segs[i].blk = b.id
    /\ \E k \in DOMAIN segs[i].ops : segs[i].ops[k] = "lifetime_end"

\* Falling out of blocks, a return and a forward goto end the lifetimes that
\* were started in the blocks they leave; a return out of a handler may leave
\* out those of the block the handler belongs to.
LifetimesEnd ==
  /\ \A i \in DOMAIN done :
       \A j \in (done[i].to + 1) .. Len(done[i].scope) :
         LET b == done[i].scope[j]
         IN  done[i].kind \in {"fall", "return"} /\ b.life
               => b.unprotected \/ EndsLifetime(done[i].frag.segs, b)
  /\ \A i \in Resolved :
       \A j \in (Target(gotos[i]) + 1) .. Len(gotos[i].scope) :
         gotos[i].scope[j].life
           => EndsLifetime(Segs(Path(gotos[i])), gotos[i].scope[j])

\* An open branch is always fixed up to a block that is still open and that
\* contains every goto sharing it, whichever blocks were popped and pushed at
\* the same levels since.
OpenBranchesAligned ==
  \A i \in DOMAIN gotos :
    LET g == gotos[i]
        from == open[g.ob].from
    IN  from # Unknown =>
          /\ from \in 1 .. Len(stack) /\ from <= Len(g.scope)
          /\ \A j \in 1 .. from : stack[j].id = g.scope[j].id

\* c is a cached fixup, for a label or a loop exit, that starts at level c.from:
\* it leaves the blocks of stk, not others that were at these levels.
Fresh(c, stk) ==
  c.from # Unknown =>
    \A i \in DOMAIN c.fixup.segs :
      /\ c.from + 1 - i \in DOMAIN stk
      /\ c.fixup.segs[i].blk = stk[c.from + 1 - i].id

\* The comment on Label_Info: a cached fixup is never one of a block that was
\* left, even when another block is open at the same level.
CachesFresh == /\ \A l \in Labels : Fresh(labels[l], stack)
               /\ \A i \in DOMAIN exits : Fresh(exits[i], stack)

UnwindTargets(segs) == {segs[i].unwind : i \in DOMAIN segs} \ {0}

CodeSegs ==
  {done[i].frag.segs : i \in DOMAIN done}
    \cup {Segs(open[i].code) : i \in DOMAIN open}
    \cup {<<r.self>> \o r.rest.segs : r \in out}

\* Every landing pad that a cleanup call unwinds to, and every dispatcher that
\* another continues to, belongs to a block that will still emit it or has
\* emitted it: Pop_Block decides EH_Work before it emits the block's fixups.
PadsEmitted ==
  /\ \A j \in DOMAIN stack :
       stack[j].unprotected /\ EHWork(stack[j]) => stack[j].ehWork
  /\ \A u \in UNION {UnwindTargets(segs) : segs \in CodeSegs} :
       \/ \E j \in DOMAIN stack : stack[j].id = u /\ stack[j].landingPad
       \/ \E r \in out : r.id = u /\ r.landingPad
  /\ \A r \in out :
       r.to # 0 => \/ \E j \in DOMAIN stack : stack[j].id = r.to /\ stack[j].dispatch
                   \/ \E q \in out : q.id = r.to

\* A cleanup emitted while its block is popped (on the normal path, on an open
\* branch, or for an exception) is not protected by that block or an inner one.
PopUnwindsOutward ==
  \A segs \in {done[i].frag.segs : i \in {k \in DOMAIN done : done[k].kind = "fall"}}
                \cup {Segs(open[i].code) : i \in DOMAIN open}
                \cup {<<r.self>> : r \in out} :
    \A i \in DOMAIN segs : segs[i].unwind < segs[i].blk

-----------------------------------------------------------------------------
(* Unwinding                                                               *)

\* What an exception e that reaches the landing pad of r runs, and the block
\* that handles it (0: it leaves the subprogram).  The personality routine
\* enters a landing pad for a listed exception or a cleanup.
Unwinding(r, e) ==
  LET Emitted(id) == CHOOSE q \in out : q.id = id
      f[x \in {0} \cup {q.id : q \in out}] ==
        IF x = 0 THEN [ran |-> <<>>, at |-> 0]
        ELSE LET q == Emitted(x)
                 b == q.scope[Len(q.scope)]
             IN  IF \/ e \in b.eh
                    \/ b.catchUnhandled /\ r.unhandled /\ e \notin r.clauses
                 THEN [ran |-> <<>>, at |-> x]
                 ELSE [ran |-> Calls(<<q.self>> \o q.rest.segs) \o f[q.to].ran,
                       at |-> f[q.to].at]
  IN  IF e \in r.clauses \/ r.cleanup \/ r.unhandled THEN f[r.id]
      ELSE [ran |-> <<>>, at |-> 0]

\* A block whose handlers are being executed no longer protects; the top of the
\* scope is the block the exception was raised in.
Protects(scope, j) == ~scope[j].unprotected \/ j = Len(scope)

\* The level of the innermost open handler of e, 0 if there is none.
HandlerLevel(scope, e) ==
  Innermost({j \in DOMAIN scope : /\ Protects(scope, j)
                                  /\ e \in scope[j].eh \/ scope[j].catchUnhandled})

\* What Ada requires: that handler, after the cleanups of the blocks inside it.
RequiredUnwinding(scope, e) ==
  LET h == HandlerLevel(scope, e)
  IN  [ ran |-> FlattenSeq([i \in 1 .. (Len(scope) - h) |->
                  LET j == Len(scope) + 1 - i
                  IN  IF Protects(scope, j) THEN Duty(scope[j]) ELSE <<>>]),
        at |-> IF h = 0 THEN 0 ELSE scope[h].id ]

AnyException == Exceptions \cup {"other"}

UnwindsAsRequired(r) ==
  \A e \in AnyException : Unwinding(r, e) = RequiredUnwinding(r.scope, e)

\* A block with only finally statements and no at-end procedure or handlers
\* outside it: Emit_Handlers of an inner block does not continue to it.
LosesFinally(scope) ==
  \E j \in 1 .. (Len(scope) - 1) :
    /\ scope[j].finally /\ ~scope[j].unprotected
    /\ \A k \in 1 .. j : (scope[k].atEnd \/ scope[k].eh # {}) => scope[k].unprotected

\* Nor does it continue to the handler of unhandled exceptions of "main".
LosesUnhandled(scope) == Len(scope) > 1 /\ scope[1].catchUnhandled

\* In a subprogram that is compiled, an exception raised anywhere is handled by
\* the innermost open handler for it, and on its way runs the cleanups of the
\* blocks it leaves, each once and innermost first: the clauses and cleanup
\* flags of the landing pads, and the chain of dispatchers, of Emit_Handlers.
ExceptionsUnwind ==
  stack = <<>> =>
    \A r \in out :
      r.landingPad /\ ~LosesFinally(r.scope) /\ ~LosesUnhandled(r.scope)
        => UnwindsAsRequired(r)

-----------------------------------------------------------------------------
(* What a comment of the code says and the code does not do                *)

\* gnatllvm-blocks.adb: the finally statements are executed "at normal or
\* abnormal exit of the block".
FinallyOnAbnormalExit ==
  stack = <<>> =>
    \A r \in out : r.landingPad /\ ~LosesUnhandled(r.scope) => UnwindsAsRequired(r)
=============================================================================
