# Formal models of GNAT LLVM

GNAT LLVM translates the tree that the GNAT front end builds for an Ada unit
into LLVM IR (`llvm-interface/gnatllvm-*.adb`), and optionally that IR into C
(`llvm-interface/ccg/`). This directory holds TLA+ models of parts of it, the
TLC configurations that check them, and proofs checked by TLAPS.

The program is a sequential compiler: no threads, no messages, nothing
persisted. What is hard in it is that it *compiles* control flow: the compiler
walks the statements of a subprogram once, in any order a program may nest
them, and keeps tables from which it emits, far from where they were filled,
code that must be right on every path of the compiled subprogram. Most models
take the walk as the behaviour: one action per thing the front end may ask for
next. What comes from outside it is left open: the order of the front end's calls,
the addresses that LLVM gives to values and the moment it deletes them, the steps of
a compilation that fail.

| Module | Models | Runs | Proved |
|---|---|---|---|
| `Blocks` | the block stack | `jumps`, `exits`, `unwind`, `finally` | `BlocksProofs`, `BlocksPathsProofs`, `BlocksUnwindProofs` |
| `Flow`, `FlowMeaning`, `FlowOutput` | control flow of C | `c_ifs`, `c_switch` | `FlowProofs` |
| `Transform` | the rewriting of a function before C is written | `transform` | |
| `Values`, implementing `ValueInfo` | facts kept by the address of an LLVM value | `values` | `ValuesProofs` |
| `GlobalNames` | the function that stands for an external name | `names` | `GlobalNamesProofs` |
| `Codegen` | one compilation, from its switches to its output | `codegen`, `codegen_rejected` | `CodegenProofs` |
| `UnwindPE` | the decoding of exception tables | `unwind_pe` | `UnwindPEProofs` |

## 1. The system

| Part | State | Operations | Used by | Hard behaviour |
|---|---|---|---|---|
| Block stack (`gnatllvm-blocks`) | `Block_Stack`, `Label_Info`, `Open_Branches`, `Exit_Points`, `Dispatch_Info`, the local-exception label stacks | push and pop blocks and loops, save the stack pointer, lifetimes, landing pads, labels, gotos, exits, returns, handlers, raises | statements, subprograms, variables, instruction builder | what is emitted on the n-th way out of a block depends on everything compiled since it was opened |
| Statements (`gnatllvm-compile`) | none of its own | `Emit`, `Emit_List`, `Emit_Expression` | | order of calls of the block stack |
| Subprograms | `Subps` info, activation variables, elaboration statements, `Current_Func` | bodies, calls, returns, elaboration procedures | statements | static links, parameters passed by copy |
| Variables | duplicate-global table, global list | where an object lives, its initialisation | statements, subprograms | the same global declared several times |
| Conditionals | none | if, case, loops, short-circuit | statements | |
| Instruction builder | insertion point, alloca position | wrappers of the LLVM builder; call or invoke | everything | dead code after a terminator |
| Types, records, arrays | type, record, field and array info tables | LLVM type and layout of each Ada type, sizes, field references | everything | packing in bits, variant parts, self-referential types |
| Aliasing | TBAA tables and hash tables | alias tags of types and accesses | instruction builder | tags of variant records and views |
| Expressions, conversions, builtins | none | one LLVM value per expression node | statements | |
| Values, environment, utilities | `GL_Value` relationships, `GL_Type` chains, entity tables | | everything | |
| Debug information | scope stack, metadata caches | | statements, types | scopes pushed and popped with blocks |
| CCG.Flow (`ccg-flow`) | tables of flows, ifs, cases, lines, use counts | build the flow graph of a function, simplify it, output it as structured C | CCG subprograms | passes that redirect edges while counts of uses decide what is inlined |
| CCG.Strs, Output, Write | interned strings with precedence, output queue | build and print C text | CCG | precedence, ordering of declarations |
| CCG.Transform | the function itself, the short-circuit builtins | seven passes over the blocks | CCG subprograms | each pass rewrites in place and relies on those before |
| CCG.Instructions, Subprograms, Aggregates | pending values, declared values and types, source order | C of each instruction | CCG | when a pending load may be used after a store |
| CCG environment, target, codegen | attributes of LLVM values, C compiler options | tell and ask what a value is | the front end, CCG | LLVM deletes values and uses their addresses again |
| Code generation, `llvm_wrapper.cc` | switches, target machine, LLVM module | set up the target, verify, optimize, write | the compiler driver | switches in any order; every step may fail |
| `unwind-pe.h` | a pointer into an exception table | read an encoded value | the personality routine | word sizes, padded LEB128, addresses relative to themselves |
| `gcc_wrapper`, runtime, `vast`, bindings, scripts | | | | none worth a model |

The parts interact by calls only. `gnatllvm-compile` drives the block stack;
the instruction builder calls back `Get_Landing_Pad` for every call it emits;
`gnatllvm-variables` calls `Save_Stack_Pointer` and `Add_Lifetime_Entry` from
inside declarations; finally statements and handlers are emitted by the block
stack calling `Emit`, which pushes blocks again. `Codegen` is the frame around it
all: the front end runs between the set-up of the target and `Generate_Code`. LLVM
calls back: `Notify_On_Value_Delete` makes it run CCG's callbacks in the middle of
the front end's own deletions and of the optimizer.

What makes each part correct:

- block stack: every way out of a block runs the cleanups of exactly the blocks
  it leaves, once, innermost first; an exception reaches the innermost handler
  for it; stack space and lifetimes end with their block; every table entry
  refers to blocks that exist;
- CCG.Flow: the C text does what the function's basic blocks do; a flow that is
  jumped to is output once with its label, one that is not is inlined once;
- types and records: no two fields overlap unless they are variants, and sizes
  agree with the positions of the fields;
- aliasing: two accesses that may overlap have tags that may alias;
- CCG.Transform: the function does what it did, and is in the form that the C
  output needs;
- environment: a fact is about the value it was told of, and goes with it;
- variables and subprograms: one external name is one function, and every call of
  it calls that function;
- code generation: the settings that reach LLVM are those asked for, nothing is
  made of a bad module, and no failure is silent;
- exception tables: what is read is what the assembler wrote;
- CCG.Instructions: a value inlined at its use has the value it had where it was
  computed.

## 2. Plan

In order, the most important first; each section below tells how far it went.

1. `Blocks`, with its theorems: done (3 to 5).
2. `Flow`, `FlowMeaning`, `FlowOutput`, with a theorem about the use counts: done (6).
3. `Transform`: done (7).
4. `Values` and the abstract `ValueInfo` that it implements, with theorems: done (8).
5. `GlobalNames`, with theorems: done for subprograms (9). Global variables use the same tables.
6. `Codegen`, with theorems: done (10).
7. `UnwindPE`, with theorems: done (11).

What could come next: the local-exception label stacks with `Emit_Raise` to a label
and `Maybe_Update_At_End`, in `Blocks`; packing of fields
(`gnatllvm-records-create`) as functions checked against "no overlap, alignment
respected"; the pending-value tables of CCG.Instructions; theorems about
`ElsesLead`, and about `Transform`.

## 3. Blocks

`Blocks.tla` models `gnatllvm-blocks.adb` and the statements of its callers that
reach it. Its state is the state of the compiler while it translates one
subprogram after another.

| Variable | In the code |
|---|---|
| `stack` | `Block_Stack`; a record per `Block_Info` |
| `labels` | `Label_Info`; `depth`, `from`, `fixup` are `Block_Depth`, `From_Block` and the contents of `Fixup_BB`; `owner` tells which block the label is in |
| `open` | `Open_Branches`; `code` is what was emitted since the entry was made, `made` where `Made_BB` starts in it, `from` is `From_Block` |
| `exits` | `Exit_Points` |
| `dead` | `Are_In_Dead_Code` at the insertion point |
| `nextId` | identity of blocks, so that two blocks at the same level differ |
| `done`, `gotos`, `out` | history: the jump just compiled, the forward gotos, and what `Emit_Handlers` built |

The emitted LLVM code is kept only as *fragments*: for each block a fixup
leaves, the operations in order (`lifetime_end`, `finally`, `at_end`) and the
landing pad its calls unwind to, and the stack pointer restored at the end.

| Action | Code |
|---|---|
| `PushBody` | `Push_Block` from `Emit_One_Body` and `Emit_Elab_Proc` |
| `PushBlock` | `Push_Block` from `Emit` of a block statement or a handled sequence |
| `PushLoop` | `Push_Loop` and `Push_Block` in `Emit_Loop_Body` |
| `SaveStackPointer`, `AddLifetimeEntry` | the procedures of these names |
| `CallMayThrow`, `Reraise` | `Call_Internal` with `Get_Landing_Pad`; `Emit_Reraise` |
| `GotoKnown`, `GotoOpen` | `Get_Label_BB`, the label's depth being known or not |
| `DefineLabel` | `Enter_Block_With_Node` |
| `Exit`, `Return` | `Get_Exit_Point`; `Emit_Return_Statement` and `Emit_Fixups_For_Return` |
| `BeginPop`, `PushHandler`, `EndPop` | `Pop_Block`, cut where `Emit_Handlers` emits the statements of a handler, which are again blocks, jumps and calls |
| `ResetBlockTables` | `Reset_Block_Tables` after a subprogram |

`Fixups` is `Build_Fixups_From_To`, `CallAtEnd` is `Call_At_End` and `Cleanup` adds the
lifetime ends before it, `LandingPadLevel` is `Get_Landing_Pad`, and `Dispatched` with
`AfterHandlers` is `Emit_Handlers`. A landing pad or a dispatch block is a flag
of its block. An operator named "Mutant of" states a change of the definition
below it that a property of section 4 excludes.

### What is assumed of the front end

The guards that are not conditions of `gnatllvm-blocks.adb` are these.

- `Visible` and `CanDefine`: a goto names a label of an enclosing sequence of
  statements, and a handler does not jump back into the statements it handles
  (Ada RM 5.8).
- `LabelsDefined`: every label that a goto names is defined, in a sequence
  around the goto.
- `EndsInReturn`: the front end puts a return statement at the end of a body that
  has an at-end procedure. Without it `Emit_One_Body` emits a bare return and the
  procedure would not be called. Any other body may end without a return statement:
  `DeadAtPop` says that its block is then popped in dead code, after the bare return,
  and that the block of an elaboration procedure, which gets its return after
  `Pop_Block`, is not.
- A handled sequence of statements has handlers, or an at-end procedure, or
  finally statements, and not two of these: the front end wraps them in blocks.
- Finally statements are one operation that may raise; labels and blocks inside
  them are not modelled. Each exception has one handler in a block.

Handlers are compiled only if the block has EH work, as in the code. Emitting an
expression between two statements changes nothing here except through
`SaveStackPointer`, `AddLifetimeEntry` and `CallMayThrow`.

### Bounds

`MaxDepth` (nesting of the source's blocks, without the handlers' own),
`MaxBlocks` (blocks of one subprogram, numbered so that handlers may add a few),
and `MaxGotos`. Three levels are what the tables' hazards need: a block to land
in, one to leave, and one in between that is left, popped or passed over; the
fixups treat further levels like the middle one. Three or four pushed blocks allow two
at the same level one after the other, which is what a stale cache or a stale
open branch needs. One label and up to three gotos allow an entry of
`Open_Branches` to be shared, written to and shared again. The exceptions are
interchangeable; two of them, used with symmetry, tell an inner handler from an
outer one. No liveness is claimed of the block stack: it goes on as long as the tree
does, and no fairness is assumed.

## 4. What is checked

| Run | Program | Properties |
|---|---|---|
| `jumps` | one label, gotos in both directions, allocation, plain and at-end blocks, handlers for one exception | `TransfersCleanUp`, `ForwardRestoresStack`, `OpenBranchesAligned` |
| `exits` | loops, exits, returns, finally, handlers, calls, lifetimes | `TypeInv`, `TransfersCleanUp`, `CachesFresh`, `LifetimesEnd` |
| `unwind` | every kind of block, two exceptions | `PadsEmitted`, `PopUnwindsOutward`, `ExceptionsUnwind` |

- `TypeInv`: the tables hold what their types say, levels kept in them are levels of
  the block stack (`TypeOK`), and `Exit_Points` lists the loop blocks on the stack
  (`LoopsMatch`). It is checked in the run that has loops.
- `TransfersCleanUp`: every fall through, exit, return and goto, in either
  direction, runs the finally statements and at-end procedures of exactly the
  blocks it leaves, each once, innermost first. For a forward goto the code is
  only complete several pops later, and is shared with other gotos.
- `ForwardRestoresStack`: falling out and forward gotos give back the stack space
  of the blocks left, and no more.
- `OpenBranchesAligned`: an open branch always stands for the block it is fixed
  up to, although it keeps a level only.
- `CachesFresh`: a fixup cached for a label or an exit never outlives its block.
- `LifetimesEnd`: lifetimes end on the way out (a return out of a handler is left
  out: see below).
- `PadsEmitted`: every landing pad or dispatcher that emitted code refers to is
  emitted, although `Pop_Block` decides that before it emits the block's fixups.
- `PopUnwindsOutward`: cleanups emitted by the pop of a block unwind to outer
  blocks only.
- `ExceptionsUnwind`: from every landing pad, every exception is handled by the
  innermost open handler for it and runs the cleanups on its way, as computed
  from the clauses, cleanup flags and dispatchers that were emitted. Two kinds of
  scope are excluded (`LosesFinally`, `LosesUnhandled`): they are findings.

### Where the comments and the code disagree

The run `finally` stops at a counterexample: `Finally_Stmts` run at "normal or
abnormal exit" (`gnatllvm-blocks.adb:93`), but `Emit_Handlers` of an inner block
passes over an outer block with only finally statements.

These were met while modelling, and no run is kept for them:

- `Unprotected` says that in the fixup of a block "calls aren't protected by
  exceptions or At_End handlers in this block" (63): `Call_At_End` (622) marks the
  innermost block only, so in a jump out of several blocks the at-end call of an outer
  one unwinds to that block's own landing pad, which calls the procedure again.
- `Exit_BB` "includes any needed fixup code" (195): `Get_Exit_Point` (1871) and
  `Get_Label_BB` (1653) use the code made earlier at the same level even if a stack
  pointer was saved since, and that code does not restore it.
- The stack pointer is restored "both on normal and abnormal exit"
  (`gnatllvm-blocks.ads:29`): not that of the block an exception leaves
  (`Emit_Handlers`, 1399).
- `Catch_Unhandled` says that a block "catches unhandled exceptions", but an inner
  landing pad neither lists `Unhandled_Others` nor continues to that block;
  `ExceptionsUnwind` leaves these scopes out (`LosesUnhandled`).
- Lifetimes end "at the end of this block", which is before the block's own at-end
  call.
- A backward goto, an exit or a return out of a handler passes over the block the
  handler belongs to (it is `Unprotected`), so its stack pointer and lifetimes are
  left to an outer block; `LifetimesEnd` leaves these jumps aside, and
  `ForwardRestoresStack` is about the others.

## 5. What is proved

`BlocksProofs.tla` proves, for every set of labels and exceptions, every kind of
program and all bounds, from the assumptions of `Blocks` only:

- `TypeCorrect`: `TypeInv` is an invariant. Its first part, `TypeOK`, says that each level kept in
  `Label_Info`, `Open_Branches` and `Exit_Points` is a level of the block stack,
  which is what `Build_Fixups_From_To` needs to index it. Alone it is not inductive: the
  end of a pop must know that the exit point it removes is the one of the block it
  pops. `LoopsMatch` says so: the exit points are those of the
  loop blocks on the stack, in the same order, and each loop block has one. The
  proof has a lemma per action; the steps that open a block, and those that open
  and close none, share `PushType` and `StayType`.

Its second part proves two invariants of the tables that name blocks by their level
only, so that a block popped and another pushed at its level could be confused:

- `CachesAlwaysFresh` (`CachesFresh`). It is inductive with `TypeCorrect`'s
  invariant. `StackGrows` says that every action but the end of a pop keeps the
  open blocks at their levels; the end of a pop clears every cache.
- `OpenBranchesAlwaysAligned` (`OpenBranchesAligned`). The end of the pop of the
  outermost block would leave a branch at level 0; `NoOpenAtEnd` excludes it: when
  every open block is being popped no branch is open. `TopProtects` shows that
  every statement makes that condition vacuous, and `BeginPop` establishes it from
  `LabelsDefined`, the front end's guarantee.

The lemmas before `TypeCorrect` give what the operators return: `InnermostIn` and
`OutermostIn` (from the library's well-founded induction on the naturals),
`LandingPadLevelType`, `AfterEmittingType`, `FixupsType`.

`BlocksPathsProofs.tla` proves what runs on the way out of a block that is left by a
jump, a return or its end: `TransfersAlwaysCleanUp`, `ForwardAlwaysRestoresStack`
and `LifetimesAlwaysEnd`. Their common invariant is `CleanupInv`:

- `StackInv`: the identities of the open blocks grow inwards, and only a block with
  handlers has blocks inside it while it is popped.
- `CachesLead`: a fixup cached for a label or an exit is the one that a jump from
  its level needs *now*. It holds because no step changes the cleanups of a block
  that is open and not being popped (`Undisturbed`), while every statement may add a
  saved stack pointer: so the theorem on stack pointers is about forward jumps only,
  and the findings of section 4 tell of the others.
- `DoneRight`: the transfer just compiled is right.
- `PathsInv`: an open branch and a goto that shares it stand for each other level by
  level. The fragments emitted since the goto do nothing at first (`Idle`), then leave
  the blocks of the goto one by one, from its own block to the level the branch is fixed
  up to; the blocks left are closed and those below are open. `JumpsEndPop` adds the
  block being popped, and `JumpsDefine` the fixup made when the label is met.

The properties compare sequences of calls, so the proof has to say what `FlattenSeq`,
which the library defines by recursion, is for any sequence. The prover has no
induction over data; the lemmas at the beginning of the module take the smallest
prefix at which a fact fails and refute it (`FlattenJoins`, `FlattenSingles`,
`FlattenSkips`).

`BlocksUnwindProofs.tla` proves the three properties of exceptions:

- `PadsAlwaysEmitted` and `PopAlwaysUnwindsOutward`. `UnwindInv` says that every block
  named in cached fixups, open branches and dispatchers has been asked for its pad
  (`HasPad`) or dispatcher (`HasDispatch`) and keeps the request until
  `Emit_Handlers` honours it; `WorkDecided`, that `EH_Work` does not change once
  `Pop_Block` has looked at it.
- `ExceptionsAlwaysUnwind`. `RightDispatcher` says what the pad and the dispatcher
  of one block do, in terms of the blocks it was in; `Continues`, that the block it
  continues to, now or once popped, was among these and has not changed in what
  matters. An exception is then followed from block to block. `Unwinding` is a
  recursive function over the identities of blocks; that it exists
  (`UnwoundExists`) is proved from a dispatcher continuing only to an older block,
  again by a smallest counterexample. `RequiredSplit` cuts what Ada requires at the
  block continued to, and `SameHandler` and `NothingOutside` relate the handlers and
  cleanups of the two. The scopes of `LosesFinally` and `LosesUnhandled` are
  excluded as in the property: there `NothingOutside` fails, which is the first
  finding of section 4.

Every property of the passing runs of `Blocks` is thus proved for all programs and
bounds. The runs keep two roles: they show on small programs that the
properties are not vacuous, and `finally` refutes the claim of a comment.

The theorem about `Flow` is in section 6; those about `Values`, `GlobalNames`,
`Codegen` and `UnwindPE` are in sections 8 to 11. Only model-checked are the properties
of `Flow` and `Transform` that are about what code means (`MeaningKept`, `OutputKept`,
`GotosResolved`, `PhisEliminated`, `JumpsFollowed`), whose definitions are recursive;
`ElsesLead`; and the four about fairness (`DeletionsEnd`, `ModuleCompleted`,
`ReadingEnds`, `TransformEnds`).

## 6. CCG.Flow

`Flow.tla` models how `ccg-flow.adb` makes the flows of an LLVM function and
simplifies them; `FlowOutput.tla`, which extends it, how it prints them.

| Variable | In the code |
|---|---|
| `src` | the LLVM function, chosen block by block as it is visited |
| `flows` | `Flows`, with the entries of `Ifs` and `Cases` of each flow in sequences; 0 stands for the empty indices |
| `flowOf` | `Get_Flow` |
| `visits`, `walk`, `processed` | the active calls of `Get_Or_Create_Flow` and of `Process_Flow_Graph`, and `Processed` |
| `pass` | which of the six calls in `Simplify_Flow` is running; 0 before, 7 after |
| `code` | the C code, as a sequence of statements; those with parts have a sequence for each |
| `toOutput`, `output`, `wasInline` | the three sets of `Output_Flow` |

`CreateFlow`, `LinkFlow` and `ReturnFromVisit` are the calls of
`Get_Or_Create_Flow`, cut where it calls itself for a target; `StartPasses` is
`Output_Subprogram`. `Process` is one call of the operation of the pass
by `Process_Flows`, for the next flow in its order. The operations are functions of
the flows and of the flow they work on: `SimplifyFinalTarget`, `SimplifyCases`, `FactorIf`, `FactorCase`,
`TryMergeIfs` and `RemoveNestedNext`. `OutputEntry` and `OutputLeft` are the
outermost calls of `Output_One_Flow`.

Loops and recursive procedures are functions over a number of turns that is enough
for them, and a turn that has nothing left to do changes nothing. A procedure that
calls itself at its end (`Try_Merge_Ifs`, `Replace_Target`'s search) takes at most one
turn per flow, because each turn uses up a flow with one use. `Remove_Use` calls itself
for what a flow that is not used any more refers to, one reference at a time. Here a
round (`Release`) takes all the references that the last round set free; the order of
subtractions makes no difference to the counts, nor to which of them reach 0. There are
at most as many rounds as flows, because each one leaves a flow unused.

What blocks compute is left out, except whether it gives any lines, which several
passes ask. A conversion to text is not modelled; a test or a switch is known by
its block. Functions return: what is printed for a return in a function that does
not return is not modelled. LLVM's rules are used for the functions: the entry is
not the target of a branch, the values of a switch differ.

### What flows mean

`FlowMeaning.tla` gives the function, its flows and (in `FlowOutput`) its C code
the same kind of view: from a position, the next visible step (lines, test,
switch, return, running off the end, looping) and the positions after it. A flow
with one use is executed in place, and goes on to the Next of the flow it is in
if it has none; another one is jumped to, which forgets what was around it. C code
has its gotos, its breaks and cases that fall into the next. `FlowsAgree` and
`CodeAgrees` explore the pairs of positions that correspond and compare the steps:
after an `unreachable` nothing is required.

| Run | Functions | Properties |
|---|---|---|
| `c_ifs` | up to 4 blocks: ret, br, cond; `Max_Depth` 1 | `ElsesLead`, `MeaningKept`, `GotosResolved`, `OutputKept` |
| `c_switch` | up to 3 blocks: unreachable after some code, ret (2 return values, one of them used by an earlier function), switch with up to 2 values and a default, 2 source lines; `Max_Depth` 2 | `UsesCounted`, `MeaningKept`, `OutputKept` |

- `UsesCounted`: at every step, also between two calls of a pass, `Num_Uses` of a
  flow in use is the number of references of the flows in use, as `Dump_Flow`
  counts them.
- `ElsesLead`: when `Try_Merge_Ifs` looks at the flow that an else leads to
  (`ccg-flow.adb:1437`), there is one. It does not ask: two passes before,
  `Factor_One_If` deletes an else that leads nowhere, and no step between empties one.
- `MeaningKept`: after each pass the flows do what the function does.
- `GotosResolved`: each goto printed has its label, once, and no flow is printed
  twice.
- `OutputKept`: the C code does what the function does.

`BareUnreachable` is FALSE in both runs, which therefore say nothing of functions with
a block that is only `unreachable`, because of a divergence: when the else
target of a flow is a block with nothing but `unreachable`, `Final_Target` is empty;
the else part is removed, Next stays empty (`ccg-flow.adb:1335`), and
`Replace_Target`, for which an empty wanted flow means "whatever comes last", removes
the then part or its end too (1369 does the same for cases). TLC finds it in
`MeaningKept` when the constant is TRUE.

Bounds. Four blocks are a test in the else of a test with two ways to go on, a
chain to follow, and a loop: merging needs three flows and a place where they
meet. With depth 1 every flow nested in another one exceeds `Max_Depth`: `c_ifs` prints
no part of an if in place, but a goto for each. In `c_switch`, at depth 2, parts are
printed in place. With two values and
a default, cases are shared with a value and with the default, before and after
sorting. Random functions of up to seven blocks, and of
up to six with three values in a switch, were sampled by simulation with
`GotosResolved` and `OutputKept`, without a violation.

The functions within the bounds are all the functions, up to the order in which
blocks are numbered. Every behaviour ends when all is printed; no liveness is
claimed of them.

### What is proved

`FlowProofs.tla` proves `UsesAlwaysCounted`: `UsesCounted` is an invariant, for
functions of any number of blocks, cases, return values and source lines, any set of
terminators, and any number of earlier uses of the shared return flow. It rests on
`FlowAssumption` alone, which says what the constants are. What the theorem is worth:
a count that is too low makes `Remove_Use` let go of a flow that something leads to,
one that is too high makes `Output_Flow` give a flow a label of its own that should be
printed in place, and both are the outcome of a wrong *order* of `Add_Use` and
`Remove_Use` in the middle of a pass.

`UsesCounted` is not inductive. A pass may remove the last use of a flow, and all
that this flow refers to goes with it; if one of these were a flow that the walk is in
the middle of, the counts would be wrong afterwards. The inductive invariant `IInv`
excludes it:

- `GraphOK`: every reference leads to a flow, and none to that of the entry;
- `Counted`: the uses of a flow are those that are given to it (the entry's, and those
  of earlier functions) and the references of the flows in use;
- `WalkOK`, while the passes run: the active calls of `Process_Flow_Graph` are for
  different flows in use, and each was made for a reference that the flow of the call
  before still makes. So each flow of the walk is used by one before it
  (`WalkSafe`), whatever is done to the flow at hand and to those outside the walk;
- `Making`, while the flows are made: the parts that a call of `Get_Or_Create_Flow`
  has still to link have no target and are different; and each flow is used, or is the
  next thing that an active call will link to (`Reached`), so that every flow is in use
  when the passes start.

The argument has three layers. `RemoveUseCounted` is about the cascade of `Remove_Use`
and holds for any set of flows that do not depend on what is released (`Held`): the
counts are right afterwards and these flows are still in use. Each round leaves fewer
flows in use or is the last one (`ReleaseStep`), so the rounds of the model are enough.
`SetTargetCounted` adds that `Set_Next` and `Set_Target` take the new use before they
let go of the old one. Then each operation of a pass is composed of such steps
on flow *i* with the walk `A`: `Safe(F, e, A, i)` is what it needs and leaves, and
`Worked` that the other flows of the walk keep their parts, so that the walk goes on
where it was. `e` is the uses that no flow makes: between `Replace_Target` and its
caller's `Remove_Use` it is one more for the flow that was taken out (`Replaced`), which
is where the code counts on its callers. `LoopIn` states what the turns of a loop keep; it
replaces the induction that the prover lacks, by a smallest counterexample
(`SmallestExists`). The last layer is the walk itself (`DescendOK`, `WalkBack`) and
the construction (`CreateFlowKeeps`, `LinkFlowKeeps`, `ReturnFromVisitKeeps`).

Before it was proved, TLC checked the invariant on all functions of up to three blocks
with every terminator, and on part of those of four. `MeaningKept`, `GotosResolved` and
`OutputKept` stay with TLC: they follow executions with recursive operators.
`ElsesLead` does as well; to prove it one would have to say of the walk that it meets
every flow that can still be reached, and in which order.

## 7. CCG.Transform

`Transform.tla` models `ccg-transform.adb`: what `Transform_Blocks` does to a
function before its flows are made.

| Variable | In the code |
|---|---|
| `code`, `order` | the blocks of the LLVM function and their order |
| `pass`, `pos`, `succ` | the pass that runs, the block it is at (`BB`), the successor (`J`) |
| `new_BBs`, `ret_Phis`, `changed` | the locals of these names of `Eliminate_Phis`, and `Changed` of `Follow_Jumps` |
| `source` | history: the function before any change |

There is an action per iteration of the loop of each pass. `ReturnOnEdge`,
`StoreOnEdge` and `NoPhiOnEdge` are the first loop of `Eliminate_Phis`, `LoadPhis` the
second one; `Follow_Jumps` and `Sweep` the two of `Follow_Jumps`;
`Build_Short_Circuit_Ops` contains `Make_Short_Circuit_Op`, and `Swap_Branches` calls
`Negate_Condition`. A block is Phi nodes, loads, statements and a terminator; a
condition is a tree whose leaves are comparisons, calls or loads, or a value computed
elsewhere, and which knows whether it has one use (`once`).

`Meaning` runs a function on a list of outcomes of its leaves and gives what it does,
in order, down to the value returned. The second operand of `and_then` and `or_else`
is evaluated only if the first one asks for it, as in the C code where a call with one
use is printed where it is used.

- `MeaningKept`: at the end of each pass that changes the code, the function does what
  it did. Between the stores of `StoreOnEdge` and the loads of `LoadPhis` the code has
  no meaning of its own, and nothing is said.
- `PhisEliminated`: no Phi node is left, in the new blocks either.
- `JumpsFollowed`: a branch leads to a mere jump only if ten others, one after the
  other, led to that one: in a loop of jumps, or in a chain of more than ten. The
  jumps are those of the function before `Follow_Jumps`, found in `source`.
- `TransformEnds`: all passes end, by `WF(Next)`: the procedure is sequential and
  nothing outside it is waited for. `Sweep` starts again as long as it deletes, and
  `Build_Short_Circuit_Ops` looks at the same block again.

Bounds: all functions of three shapes, and chains. `Tangles` are four blocks with three tests or
jumps in any arrangement, what `and then`, `or else`, their combinations, swaps and
loops of jumps need; `Joins` have two Phi nodes where three edges meet, one in a
return; `Loops` exchange two Phi nodes in a loop. `Chains` are not all the chains, but
those of 9 to 12 and of 21 mere jumps, in the order of the blocks and against it, on
both sides of the limit of ten: with one jump less followed, or with eleven in the
property, TLC finds a violation in them. Three outcomes (`Bits`) are as many
as the tests.

`MeaningKept` does not hold for `Parameters`, functions that `MCFunctions` leaves
out. `Is_Only_Condition` also accepts a block that has no instruction but its branch,
whose condition is a parameter or was computed before, but `Make_Short_Circuit_Op`
takes `Get_Last_Instruction (BB)` (746) as the second operand, which is then whatever
the first block ends with, the first condition or nothing.

`Follow_Jumps` means to replace each successor "with the ultimate destination", and to
protect against "an infinite loop" (`ccg-transform.adb:456`). `Count < 10` stops in a
chain without a loop too: of eleven jumps, as eleven nested ifs that end together
may leave, some may stay. The function still does what it did.

The module has recursive operators over conditions, so nothing is proved of it.

## 8. Facts about values

`ValueInfo.tla` is what CCG promises of the facts the front end tells it: a fact is
about one value, lasts as long as it, and is never taken for one about another value.
It has no addresses, no tables and no notifications. `Values.tla` is what the code
does.

| Variable | In the code |
|---|---|
| `heap`, `made` | LLVM's memory: which value lives at an address, and whether it is a function |
| `notes` | the `GNATCallbackVH` handles of each value, the last one registered first; "info" calls `Delete_Value_Info`, "order" `Delete_From_Source_Order` |
| `Value_Info` | `Value_Info` and `Value_Info_Map` of CCG.Environment |
| `params` | `CI_Map` of CCG.Utils: the functions whose parameters have names |
| `value` | `Get_Value` |
| `Source_Order`, `protected` | the table of CCG.Subprograms, and how far `Protect_Source_Order` is |
| `dying` | the value whose callbacks LLVM is running |
| `phase` | before, during and after `C_Protect_Source_Order` in `GNAT_To_LLVM` |

`CreateGlobal`, `ShareGlobal`, `CreateLocal`, `NameLocal` and `AddressTaken` are the
places where the front end tells facts (`C_Set_Entity`, `C_Address_Taken`);
`AddToSourceOrder` and `ProtectEntry` are the procedures of these names, the latter
one iteration each. `OptimizerMakes` and `BeginDelete` are LLVM's; `OrderCallback`
and `InfoCallback` are one handle each, which deletes itself; `EndDelete` gives the
address back. While it emits, the front end deletes instructions only; the optimizer
deletes anything. An address that was given back may be used at once.

The refinement (`Abstract == INSTANCE ValueInfo WITH ...`, checked as
`ImplementsValueInfo`) numbers values by their creation. A value is alive until its
deletion begins; what is known of it is what the tables say at its address as long as
it is, and an entry of the source order is about the value that its entity has. So a
deletion is one step of `ValueInfo`, at `BeginDelete`; the callbacks are stutters,
and must be: if any of them, or a new value at an address whose table was not cleared,
changed what the tables say of a living value, it would not be a step of `ValueInfo`.

| Property | Says |
|---|---|
| `NoStaleInfo` | nothing is known at an address where no value lives, although `C_Address_Taken` registers no callback |
| `ParamsOfTheLiving` | names of parameters belong to living functions |
| `OrderRefersToLiving` | after `Protect_Source_Order`, entries refer to living values, although a callback takes out one entry, entities may share a value, and an entity may have two entries |
| `DeletionsEnd` | a deletion comes to its end; by `WF(Callbacks)`, as the loop over the handles is LLVM's |
| `ImplementsValueInfo` | the refinement |

Bounds: two addresses and three values, so that an address is used twice; two global
entities, to share a value, a local one and a type; three entries, so that one value
has two and another has one.

`ValuesProofs.tla` proves for any addresses, entities and bounds, from
`ConstantsAssumption` alone:

- `TypeCorrect`, `NothingStale` and `ParamsGoWithFunction` (`TypeOK`, `NoStaleInfo`,
  `ParamsOfTheLiving`) from the inductive invariant `IInv`. `NoStaleInfo` is not
  inductive: what matters is that whatever is known of a value will be forgotten,
  which is that an "info" callback is still registered for it (`KnownIsNoted`).
  `C_Address_Taken` keeps that because the front end has told the entity of a
  global before and does not delete it (`GlobalsAreNoted`); a callback may run only
  while its value is still there (`DyingLives`).
- `OrderAlwaysRefersToLiving` (`OrderRefersToLiving`) from `OrderInv` in addition: the
  entries protected so far that refer to a value and the "order" callbacks of that
  value can be matched one to one (`EntriesAreNoted`). Each deletion of an entry
  takes the first one, which need not be the one whose callback runs, so the matching
  is exchanged at that step; `LeastExists`, from the library's well-founded
  induction, says that the first one exists.

- `ValuesImplementsValueInfo`: the refinement, `Spec => ImplementsValueInfo`. The
  mapping is in named parts (`Alive`, `Known`, `Nested`, `References`, `Telling`), and
  there is a lemma per action: a step that makes a value is `Make`, one that tells
  something of it is `Learn`, the beginning of a deletion is `Delete`, and the callbacks
  and the end of a deletion are stutters (`Unseen`). It needs `ViewInv` in addition:
  values that live differ (`IdsDiffer`), and the entity that the information of a
  value names has that value (`EntityHasValue`): otherwise `Delete_Value_Info` would
  take the value of an entity whose value lives on. A value that the optimizer makes
  is `Make` because no entry refers to a free address, which is `OrderInv` again.

`DeletionsEnd`, which is about fairness, is model-checked only.

Not in the model, and read off the code: `Elab_Spec_Func` and `Elab_Body_Func`
(`ccg.adb:193`) keep the address of a function with no callback, and so does
`BB_Info` (`ccg-environment.adb:175`) with those of basic blocks.

## 9. Names of functions

`GlobalNames.tla` models which LLVM function stands for an external name:
`Detect_Duplicate_Global_Names` in `gnatllvm-variables.adb`, `Create_Subprogram`,
`Emit_One_Body`, `Add_Global_Function` and `Add_Functions_To_Module` in
`gnatllvm-subprograms.adb`, `Add_Function_To_Module` in `llvm_wrapper.cc`.

| Variable | In the code |
|---|---|
| `Interface_Names`, `Global_Dup`, `Global_Dup_Value` | the tables of these names |
| `scanned`, `next`, `phase` | how far the two loops are, before and after emission |
| `defined` | chosen: the entities with a body in this unit |
| `fns` | the LLVM functions, in the module or not yet, and the name LLVM gave them |
| `value`, `builtin` | `Get_Value`, and the variables the compiler keeps its own functions in |
| `created`, `added` | `Created_Subprograms`, and `Added_To_Module` |
| `calls` | history: each call with the name it meant |

Entities are scanned, declared, called and given bodies in every order; builtins are
called in between.

- `SameNameSameFunction`: entities with one name have one function.
- `CallsResolve`: in the end every call is one of a function of the module with the
  name that was meant, calls made before functions were merged included.
- `OnlyDeclarationsMerged`: the assertion of `Add_Function_To_Module`; a body is never
  thrown away.
- `ModuleCompleted`: after emission the module gets complete, by weak fairness of the
  loops of the compiler. How long it emits is up to the program.

Bounds: two entities that share a name, two entities that have the names of builtins,
one of which is registered. `CallsResolve` assumes (`Definable`) that no unit defines
a builtin that is not registered. `gnatllvm-blocks.adb` registers
`__gnat_begin_handler` and `__gnat_end_handler` (2012) but makes
`__gnat_begin_handler_v1`, `__gnat_end_handler_v1` (710) and
`__gnat_unhandled_except_handler` (722): LLVM would rename the function of a unit that
defines these, which is what the tables are for ("LLVM will detect the duplicate name
and "disambiguate" it, which isn't what we want", `gnatllvm-variables.adb:55`).

`GlobalNamesProofs.tla` proves for any names, entities
and builtins, from `ConstantsAssumption`:

- `GlobalNamesShared` (`SameNameSameFunction`) from `IInv`: an index of the tables
  belongs to one name, every entity scanned whose name has an index has that index,
  and a name without one has one entity (`NamesKnown`); the function of an entity is
  the one its index has (`ValuesShared`).
- `MergedHaveNoBody` (`OnlyDeclarationsMerged`) from the same invariant: a body is in
  the module (`FnsKnown`), so a function that is merged has none, and if the one it is
  merged with had one, both would be the function of one name.
- `CallsGetTheirFunction` (`CallsResolve`) from `CInv` in addition, under `CodeEmitted`:
  code is emitted, and a builtin that a unit may define is registered. Its heart is
  `NeverRenamed`: when a body enters the module, a function that has its name there
  is either a body of that name or a builtin (`Emitting`), and in both cases the same
  function. A call is of a function that is in the module or that the loop of
  `Add_Functions_To_Module` has still to come to (`Pending`, `CallsKnown`).

`ModuleCompleted` is model-checked only.

## 10. A compilation

`Codegen.tla` models `gnatllvm-codegen.adb` and the part of `llvm_wrapper.cc` that
it calls. `stage` is where the compilation stands; `Process_Switch` is one switch,
`FinishScan` the end of `Scan_Command_Line`; `SetMode`, `CreateMachine` and `GetTypes`
are `Initialize_LLVM_Target`, cut where an error may stop it; `Translate` is the front
end, of which only its errors are kept; `Verify`, `LinkLibdevice`, `Optimize`,
`Output` and `Release` are `Generate_Code`. Every step that may fail does, or does
not. `opts` are the variables that the switches set, `machine`, `types` and `module`
what LLVM was given, `errors` what was reported.

- `PositionIndependence`: module and target machine agree with the last PIC or PIE
  option or, without one, with the default of the target, whichever switch chose it.
- `UserFeaturesWin`: a feature that a switch turns on or off is so, whatever `-march`
  implies.
- `NoCodeFromBadModule`: code is made only of a module that was verified and
  translated without error.
- `FailuresReported`: a compilation that ends without an error reported has written
  what was asked, optimized.
- `SanitizersApplied`: at every level of optimization.

`codegen_rejected` stops at a counterexample: `Get_Target_C_Types` uses the target
that Clang returned before it tests whether there is one.

Bounds: all lines of at most three switches of a group (position independence,
features, output, passes); switches of different groups set different variables, and
three of a kind are a first, an overriding and a last one. The targets differ in
their defaults: Linux and Windows on x86-64, AArch64 with its features, an Nvidia GPU,
and the 32-bit one that C output chooses.

`CodegenProofs.tla` proves all of these for command lines of any length over the
switches modelled, and for any set of targets (`ConstantsAssumption`): `LevelsAgree`,
`CodeFromGoodModule`, `NoFailureInSilence`, `SanitizersRun` and `UserFeaturesDecide`.
The runs' three switches of a group are thus no restriction for the invariants. The properties speak of the command line, the steps of `opts`: the inductive
invariant says what `opts` know of the part of the line already read.

- `PICKnown` and `OutputKnown`: the levels, or the kind of dump, are those of one
  position of the line, after which there is no switch of that set (`LastSeen`), or
  the defaults if there is none (`NoneSeen`). `ProcessSwitchIInv` moves or keeps that
  position; `LastOfSeen` turns it into `LastOf` at the end of the line.
- `MachineKnown`: after `WithDefaultPIE` the levels are those of the line and of the
  target, which no later step changes.
- `ModeKnown`: the mode is the one the line asks for or "None", and it is "None" only
  after an error, a rejected module or for declarations.
- `PassesKnown`, `WrittenKnown`: the passes have run on what may become code unless
  an error was reported, and nothing is written only if that is so, or without mode.
- `FeaturesKnown`, kept apart from the others: while there is no machine the last
  feature of the options is that of the last feature switch read. `WithFeatures` puts
  those of the architecture before them (`FeaturesOfArch`: a sequence of features, for
  any architecture that a switch can give), so it is the last of the machine's too.

Met while modelling, without a run: the comment at 316 says that for PIC and PIE
options "the last option wins", but `-fpic` and `-fPIC` also set `DSO_Preemptable`,
which a later `-fpie` or `-fno-pic` leaves set. After an error of `Optimize` or
`LinkLibdevice` the output is still written; `FailuresReported` only asks for the
report.

## 11. Exception tables

`UnwindPE.tla` models `unwind-pe.h`. The table is what an assembler writes: two values
at the limits of their format, in each encoding a byte can have, LEB128 values with
more groups than needed, from an even or an odd address. `ReadAligned`, `ReadFixed`,
`StartLeb`, `ReadGroup` and `Rebase` are `read_encoded_value_with_base`, a step for
each byte of a LEB128 value; `ReadAborts` is `__gxx_abort`. `p`, `u`, `acc` and `shift`
are locals of the C functions.

- `ReadsWhatIsMeant`: what is read is what was written, extended, cut to a word and
  relocated by the rules of the format.
- `SizeIsStride`: entries have the size that `size_of_encoded_value` says, which the
  personality routine multiplies by an index.
- `NoUndefinedShift`: no shift by the width of a word, for values padded up to the
  groups that a word takes (`MaxGroups`). `unwind-pe.h:185` has no guard: with more
  groups the shift is undefined, and such tables are outside the model.
- `ReadingEnds`: with a value or an abort, by `WF(Next)`: a running program runs.

Bounds: a byte has three bits (`ByteBits`), so that a word of eight bytes fits in
TLC's integers; words of four and eight bytes, and everything else, keep their size
in bytes. A byte of three bits has the parts that matter: the continuation bit, the
sign bit, and a bit below it. Groups of two bits divide the words of the run exactly;
that the last group of a word may be partial, as with groups of seven, is covered by
the proofs only. `MaxPad` is two groups. `Samples`, the values a table may
hold, is a constant: TLC takes those at the limits of each format (`Limits`), the
proofs any that the format can hold.

`UnwindPEProofs.tla` proves the three invariants (`WhatIsMeantIsRead`,
`EntriesAreSizeApart`, `ShiftsStayInWord`) for bytes of any width from three bits, the
eight of the code among them, for words of four and eight bytes, and for any values
(`SamplesAssumption`), padding, addresses and bases. So neither the small bytes nor the
values at the limits are a restriction for them.

- Arithmetic first: division is unique (`DivisionUnique`), dividing twice gives a digit
  (`DivideTwice`), powers add and multiply (`PowSum`, `PowPow`). `Pow` and `Load` are
  recursive functions; what they compute for every length is proved by induction over
  a set (`SetInduction`, from the least element of a set of naturals).
- `LoadIs` and `ExtendedIs`: loading the bytes of a value and extending them gives the
  value in a word. `GroupAdds` and `LastGroupIs`: a group adds its bits to those read,
  and after the last the value is complete, because either the groups fill the word
  or the sign bit of the last one is the sign of the value (`SignBit`).
- `IInv`: the bytes of each field are those of its value (`TableOK`), the values
  returned are the first of those meant (`ValuesOK`), the pointer is at a field
  (`PositionOK`), in a LEB128 value its first groups have been read (`GroupsOK`), and
  before the relocation the value is known (`RebaseOK`). `SizeIsStride` is not
  inductive without `TableOK`; `NoUndefinedShift` needs that a field has at most
  `MaxGroups` groups.

`ReadingEnds` is model-checked only.

## 12. What is not modelled

The parts marked `not_modelled` in `PROJECT.json`, for the reasons given there.

- Block stack: debug scopes, the shape of the LLVM types of landing pads, the
  selector values and the loading of exception data, the exception-occurrence
  variable of a handler, the choice between personality routines, the names of basic
  blocks, and memory reuse (the tables are reallocated when they grow; several
  procedures keep renamings of their entries).
- `llvm_wrapper.cc`: the entry points that are one call of LLVM each have no state of
  their own.
- `gcc_missing.c` and `targext.c` are constants and stubs.
- Types, records and aliasing are functions of large trees; conversions and
  expressions keep no state.
