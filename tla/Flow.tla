-------------------------------- MODULE Flow --------------------------------
(***************************************************************************)
(* CCG.Flow: the control flow of one LLVM function on its way to C.  The   *)
(* function is turned into a graph of flows (Get_Or_Create_Flow), which    *)
(* six passes simplify (Simplify_Flow).  FlowOutput prints the result.     *)
(*                                                                         *)
(* A flow with one use is going to be printed inside the flow that uses    *)
(* it, any other is going to be jumped to.  So the use counts decide what  *)
(* the graph means: a flow without Next that is printed inside another     *)
(* goes on to the Next of that one.                                        *)
(*                                                                         *)
(* The behaviour starts by choosing the function, block by block, as       *)
(* Get_Or_Create_Flow visits it.  Blocks are numbered in the order in      *)
(* which a terminator first names them; block 1 is the entry, which is not *)
(* the target of any branch.  What a block computes is abstracted to       *)
(* whether it gives lines of C; its test is named by the block.            *)
(***************************************************************************)
EXTENDS Integers, Sequences, FiniteSets, SequencesExt

CONSTANTS
    Terminators,   \* the kinds of terminator in the function
    MaxBlocks,     \* bound on the number of its blocks
    MaxReturns,    \* bound on the number of values it returns
    MaxCases,      \* bound on the number of values of a switch
    MaxSourceLine, \* bound on the source lines of the targets of a switch
    Earlier,       \* the returns without value in the functions made before
    BareUnreachable \* whether a block may be a mere "unreachable"

ASSUME FlowAssumption ==
  /\ Terminators \subseteq {"ret", "br", "cond", "switch", "unreachable"}
  /\ MaxBlocks \in Nat \ {0} /\ MaxReturns \in Nat /\ MaxCases \in Nat
  /\ MaxSourceLine \in Nat \ {0} /\ Earlier \in Nat
  /\ BareUnreachable \in BOOLEAN

VARIABLES
    src,      \* the function: the blocks visited so far
    flows,    \* Flows, with the parts of each in Ifs and Cases
    flowOf,   \* Get_Flow of each block visited
    visits,   \* the calls of Get_Or_Create_Flow that are active
    pass,     \* the number of the pass, 0 while the flows are made
    walk,     \* the calls of Process_Flow_Graph that are active
    processed \* Processed, in Process_Flows

vars == <<src, flows, flowOf, visits, pass, walk, processed>>

-----------------------------------------------------------------------------
(* Flows                                                                   *)

\* A flow has the number of its block, 0 for a return flow, whether First_Line is
\* present, the count of its uses, Next, its return value if it is a return flow,
\* its ifs and its cases.  An if has a test, the block that computes it, 0 for
\* "else", and a target; a case has a value, 0 for "default", a target, a line
\* and whether it shares the target of the next one.  A target is 0 for none.
NewFlow(b, lines, ret) ==
  [ block |-> b, lines |-> lines, uses |-> 0, next |-> 0, ret |-> ret,
    ifs |-> <<>>, cases |-> <<>> ]

\* The references of a flow, in the order in which the code always takes them.
IfParts(flow) == [k \in DOMAIN flow.ifs |-> <<"if", k>>]

CaseParts(flow) == [k \in DOMAIN flow.cases |-> <<"case", k>>]

Parts(flow) == << <<"next", 0>> >> \o IfParts(flow) \o CaseParts(flow)

Target(flow, part) ==
  CASE part[1] = "next" -> flow.next
    [] part[1] = "if"   -> flow.ifs[part[2]].target
    [] part[1] = "case" -> flow.cases[part[2]].target

Refs(flow) == <<flow.next>> \o [k \in DOMAIN flow.ifs |-> flow.ifs[k].target]
                            \o [k \in DOMAIN flow.cases |-> flow.cases[k].target]

\* The references that flows "js" make: the flow, the part and the target.
References(F, js) ==
  UNION {{<<j, part, Target(F[j], part)>> : part \in Range(Parts(F[j]))} : j \in js}

AddUse(F, i) == IF i = 0 THEN F ELSE [F EXCEPT ![i].uses = @ + 1]

\* All of the references s.refs are released, and those of the flows that this
\* leaves unused are next.
Release(s) ==
  LET G == [j \in DOMAIN s.flows |->
              [s.flows[j] EXCEPT !.uses = @ - Cardinality({r \in s.refs : r[3] = j})]]
      unused == {j \in DOMAIN G : s.flows[j].uses > 0 /\ G[j].uses = 0}
  IN  IF s.refs = {} THEN s ELSE [flows |-> G, refs |-> References(G, unused)]

ReleaseAll(s, rounds) ==
  LET after[n \in 0 .. rounds] == IF n = 0 THEN s ELSE Release(after[n - 1])
  IN  after[rounds]

\* A flow that is not used any more uses nothing.  The code releases one
\* reference at a time, which makes no difference in the end.
RemoveUse(F, i) ==
  LET G == [F EXCEPT ![i].uses = @ - 1]
  IN  CASE i = 0 -> F
        [] i # 0 /\ G[i].uses # 0 -> G
        [] OTHER -> ReleaseAll([flows |-> G, refs |-> References(G, {i})], Len(F)).flows

\* The counts when a reference to "old" becomes one to "new".
Moved(F, old, new) == RemoveUse(AddUse(F, new), old)

\* Set_Next and the two Set_Target.
SetTarget(F, i, part, t) ==
  LET G == Moved(F, Target(F[i], part), t)
      k == part[2]
  IN  CASE part[1] = "next" -> [G EXCEPT ![i].next = t]
        [] part[1] = "if"   -> [G EXCEPT ![i].ifs[k].target = t]
        [] part[1] = "case" -> [G EXCEPT ![i].cases[k].target = t]

SetNext(F, i, n) == SetTarget(F, i, <<"next", 0>>, n)

-----------------------------------------------------------------------------
(* Making the flows of a function                                          *)

Init ==
  /\ src = <<>>
  /\ flows = IF Earlier = 0 THEN <<>>
             ELSE <<[NewFlow(0, FALSE, 1) EXCEPT !.uses = Earlier]>>
  /\ flowOf = <<>>
  /\ visits = <<[flow |-> 0, todo |-> << <<"next", 0>> >>]>>
  /\ pass = 0
  /\ walk = <<>>
  /\ processed = {}

\* The blocks named so far.
Named == {1} \cup UNION {Range(src[b].to) : b \in DOMAIN src}

\* The lists of n targets: each is a block that has been named, or the next one.
TargetLists(n) ==
  {to \in [1 .. n -> 2 .. MaxBlocks] :
     \A k \in 1 .. n : \/ to[k] <= Cardinality(Named) + 1
                       \/ \E j \in 1 .. k - 1 : to[j] = to[k] - 1}

Block(kind, ret, to) == [kind : {kind}, ret : {ret}, to : to,
                         lines : BOOLEAN, line : 1 .. MaxSourceLine]

\* The blocks the function may have next.  "to" lists the targets, for a switch
\* that of "default" first.  Nothing depends on the line of the entry.
Blocks ==
  {x \in Block("unreachable", 0, {<<>>}) \cup Block("br", 0, TargetLists(1))
         \cup Block("cond", 0, TargetLists(2))
         \cup UNION ( {Block("ret", r, {<<>>}) : r \in 1 .. MaxReturns}
                      \cup {Block("switch", 0, TargetLists(n + 1)) : n \in 1 .. MaxCases} ) :
     /\ x.kind \in Terminators
     /\ src = <<>> => x.line = 1
     /\ x.kind = "unreachable" /\ ~BareUnreachable => x.lines}

\* The flow of block b before its targets are known, and the return flow if it
\* is new: Return_Map is not cleared between functions.
WithFlowOf(F, b, x) ==
  LET G == Append(F, [NewFlow(b, x.lines, 0) EXCEPT
             !.ifs = IF x.kind = "cond" THEN <<[test |-> b, target |-> 0],
                                               [test |-> 0, target |-> 0]>> ELSE <<>>,
             !.cases = IF x.kind = "switch"
                       THEN [k \in DOMAIN x.to |-> [value |-> k - 1, target |-> 0,
                                                    same |-> FALSE, line |-> 0]]
                       ELSE <<>>])
      found == {i \in DOMAIN F : F[i].ret = x.ret}
  IN  CASE x.kind # "ret" -> G
        [] x.kind = "ret" /\ found # {} -> SetNext(G, Len(G), CHOOSE i \in found : TRUE)
        [] OTHER -> SetNext(Append(G, NewFlow(0, FALSE, x.ret)), Len(G), Len(G) + 1)

\* The references that the terminator of a block makes.
TargetParts(x) ==
  [k \in DOMAIN x.to |-> CASE x.kind = "br" -> <<"next", 0>>
                           [] x.kind = "cond" -> <<"if", k>>
                           [] x.kind = "switch" -> <<"case", k>>]

Visiting == visits[Len(visits)]

\* The block whose flow the innermost active call needs.
Wanted ==
  LET caller == Visiting.flow
  IN  IF caller = 0 THEN 1
      ELSE LET to == src[flows[caller].block].to
           IN  to[Len(to) - Len(Visiting.todo) + 1]

\* A map with one entry more.
With(map, b, x) == [c \in DOMAIN map \cup {b} |-> IF c = b THEN x ELSE map[c]]

\* Get_Or_Create_Flow for a block that has no flow, up to its targets.
CreateFlow ==
  /\ pass = 0 /\ Visiting.todo # <<>>
  /\ Wanted \notin DOMAIN flowOf
  /\ \E x \in Blocks :
       /\ src' = With(src, Wanted, x)
       /\ flows' = WithFlowOf(flows, Wanted, x)
       /\ flowOf' = With(flowOf, Wanted, Len(flows) + 1)
       /\ visits' = Append(visits, [flow |-> Len(flows) + 1, todo |-> TargetParts(x)])
  /\ UNCHANGED <<pass, walk, processed>>

\* The flow that is needed is there, and becomes the target.  The first
\* instruction of the target of a case tells its source line.
LinkFlow ==
  /\ pass = 0 /\ Visiting.todo # <<>> /\ Visiting.flow # 0
  /\ Wanted \in DOMAIN flowOf
  /\ LET part == Visiting.todo[1]
         F == SetTarget(flows, Visiting.flow, part, flowOf[Wanted])
     IN  flows' = IF part[1] = "case"
                  THEN [F EXCEPT ![Visiting.flow].cases[part[2]].line = src[Wanted].line]
                  ELSE F
  /\ visits' = [visits EXCEPT ![Len(visits)].todo = Tail(@)]
  /\ UNCHANGED <<src, flowOf, pass, walk, processed>>

\* A call returns.
ReturnFromVisit ==
  /\ pass = 0 /\ Visiting.todo = <<>>
  /\ visits' = Front(visits)
  /\ UNCHANGED <<src, flows, flowOf, pass, walk, processed>>

-----------------------------------------------------------------------------
(* The operations of the passes on flow i                                  *)

MaxFollow == 10

\* Where an empty flow leads.
PastEmpty(F, t) ==
  IF t # 0 /\ F[t].ret = 0 /\ ~F[t].lines /\ F[t].ifs = <<>> /\ F[t].cases = <<>>
  THEN F[t].next ELSE t

\* Final_Target.
Followed(F, t) ==
  LET final[n \in 0 .. MaxFollow] == IF n = 0 THEN t ELSE PastEmpty(F, final[n - 1])
  IN  final[MaxFollow]

FollowPart(F, i, part) == SetTarget(F, i, part, Followed(F, Target(F[i], part)))

SimplifyFinalTarget(F, i) ==
  LET parts == Parts(F[i])
      after[n \in 0 .. Len(parts)] ==
        IF n = 0 THEN F ELSE FollowPart(after[n - 1], i, parts[n])
  IN  after[Len(parts)]

\* Case_Before, for one source file.
CaseBefore(l, r) ==
  \/ l.line < r.line
  \/ /\ l.line = r.line
     /\ l.value # 0
     /\ r.value = 0 \/ l.value <= r.value

\* The case before one with the same target shares it.
ShareCase(F, i, k) ==
  IF F[i].cases[k].target # F[i].cases[k + 1].target THEN F
  ELSE SetTarget([F EXCEPT ![i].cases[k].same = TRUE], i, <<"case", k>>, 0)

\* Swap_Cases, unless the two cases are in order.
Ordered(F, i, k, l) ==
  LET c == F[i].cases
  IN  IF k < l /\ CaseBefore(c[l], c[k])
      THEN [F EXCEPT ![i].cases = [@ EXCEPT ![k] = c[l], ![l] = c[k]]] ELSE F

\* The k-th case becomes the first of those from there on.
FirstToPlace(F, i, k) ==
  LET after[n \in 0 .. Len(F[i].cases)] ==
        IF n = 0 THEN F ELSE Ordered(after[n - 1], i, k, n)
  IN  after[Len(F[i].cases)]

Sorted(F, i) ==
  LET after[n \in 0 .. Len(F[i].cases)] ==
        IF n = 0 THEN F ELSE FirstToPlace(after[n - 1], i, n)
  IN  after[Len(F[i].cases)]

ShareCases(F, i) ==
  LET after[n \in 0 .. Len(F[i].cases) - 1] ==
        IF n = 0 THEN F ELSE ShareCase(after[n - 1], i, n)
  IN  after[Len(F[i].cases) - 1]

\* Mutant of SimplifyCases: the cases are sorted once some share the next one.
ShareThenSort(F, i) ==
  IF F[i].cases = <<>> THEN F ELSE Sorted(ShareCases(F, i), i)

SimplifyCases(F, i) ==
  IF F[i].cases = <<>> THEN F ELSE ShareCases(Sorted(F, i), i)

ChainStep(F, c, wanted) ==
  IF F[c.idx].uses = 1 /\ F[c.idx].next # 0 /\ c.idx # wanted
  THEN [prev |-> c.idx, idx |-> F[c.idx].next] ELSE c

\* The last of the flows with one use from t on, or "wanted" if it comes first,
\* and the one before it.  No flow with one use comes twice.
ChainEnd(F, t, wanted) ==
  LET chain[n \in 0 .. Len(F)] ==
        IF n = 0 THEN [prev |-> 0, idx |-> t] ELSE ChainStep(F, chain[n - 1], wanted)
  IN  chain[Len(F)]

\* Replace_Target: the flow taken off the end of a part has one use more, which
\* the caller removes.
ReplaceTarget(F, i, part, wanted) ==
  LET t == Target(F[i], part)
      end == ChainEnd(F, t, wanted)
      G == AddUse(F, end.idx)
  IN  IF t = 0 \/ (wanted # 0 /\ end.idx # wanted)
      THEN [flows |-> F, taken |-> 0]
      ELSE [ flows |-> IF end.prev = 0 THEN SetTarget(G, i, part, 0)
                       ELSE SetNext(G, end.prev, 0),
             taken |-> end.idx ]

\* The end of a part becomes what follows the whole.
TakeNext(F, i, part) ==
  LET r == ReplaceTarget(F, i, part, 0)
  IN  RemoveUse(SetNext(r.flows, i, r.taken), r.taken)

\* Mutant of CutNext: a use is removed whether or not something was taken.
CutNextAnyway(F, i, part) ==
  RemoveUse(ReplaceTarget(F, i, part, F[i].next).flows, F[i].next)

\* A part that ends with what follows the whole need not say so.
CutNext(F, i, part) ==
  LET r == ReplaceTarget(F, i, part, F[i].next) IN RemoveUse(r.flows, r.taken)

CutAll(F, i, parts) ==
  LET after[n \in 0 .. Len(parts)] ==
        IF n = 0 THEN F ELSE CutNext(after[n - 1], i, parts[n])
  IN  after[Len(parts)]

\* Mutant of DeleteElse: an "else" without destination stays.
KeepElse(F, i) == F

DeleteElse(F, i) ==
  IF Last(F[i].ifs).target = 0 THEN [F EXCEPT ![i].ifs = Front(@)] ELSE F

FactorIf(F, i) ==
  LET last == Len(F[i].ifs)
      G == DeleteElse(TakeNext(F, i, <<"if", last>>), i)
  IN  CASE last = 0 -> F
        [] last # 0 /\ F[i].next = 0 /\ F[i].ifs[last].test = 0 ->
             CutAll(G, i, IfParts(G[i]))
        [] OTHER -> CutAll(F, i, IfParts(F[i]))

\* The default goes when it has no target, unless the case before shares it.
MaybeDeleteDefault(F, i) ==
  LET cases == F[i].cases
      n == Len(cases)
  IN  IF /\ n > 0
         /\ cases[n].value = 0 /\ cases[n].target = 0
         /\ n > 1 => ~cases[n - 1].same
      THEN [F EXCEPT ![i].cases = Front(@)] ELSE F

FactorCase(F, i) ==
  LET G == MaybeDeleteDefault(F, i)
      last == Len(G[i].cases)
      H == TakeNext(G, i, <<"case", last>>)
  IN  CASE last = 0 -> G
        [] last # 0 /\ G[i].next = 0 /\ G[i].cases[last].target # 0 ->
             MaybeDeleteDefault(CutAll(H, i, CaseParts(H[i])), i)
        [] OTHER -> MaybeDeleteDefault(CutAll(G, i, CaseParts(G[i])), i)

\* The first flow that has other uses too, or 0.
PastSingleUses(F, t) ==
  LET past[n \in 0 .. Len(F) + 1] ==
        IF n = 0 THEN t
        ELSE LET u == past[n - 1] IN IF u # 0 /\ F[u].uses = 1 THEN F[u].next ELSE u
  IN  past[Len(F) + 1]

EffectiveFlow(F, t) ==
  LET e == PastSingleUses(F, t) IN IF e # 0 /\ F[e].ret # 0 THEN 0 ELSE e

\* Mutant of Mergeable: the "else" may compute something before its tests.
MergeableAnyway(F, i, e) == e # 0 /\ F[e].uses = 1 /\ F[e].next = 0 /\ F[e].ifs # <<>>

\* Whether flow e, the target of the "else" of flow i, can become parts of i.
\* The code does not ask whether the "else" has a target: ElsesLead says it has.
Mergeable(F, i, e) ==
  LET then == EffectiveFlow(F, F[i].ifs[1].target)
      other == EffectiveFlow(F, F[e].ifs[1].target)
  IN  /\ e # 0
      /\ F[e].uses = 1 /\ F[e].next = 0 /\ ~F[e].lines /\ F[e].ifs # <<>>
      /\ then = 0 \/ other = 0 \/ then = other

\* The ifs of flow e are used by another flow too.
CopyIfs(F, e) ==
  [j \in DOMAIN F |->
     [F[j] EXCEPT !.uses = @ + Cardinality({k \in DOMAIN F[e].ifs : F[e].ifs[k].target = j})]]

MergeElse(F, i) ==
  LET ifs == F[i].ifs
      e == Last(ifs).target
  IN  IF ifs # <<>> /\ Last(ifs).test = 0 /\ Mergeable(F, i, e)
      THEN [RemoveUse(CopyIfs(F, e), e) EXCEPT ![i].ifs = Front(ifs) \o F[e].ifs]
      ELSE F

\* Every call that merges makes one flow unused.
TryMergeIfs(F, i) ==
  LET after[n \in 0 .. Len(F)] == IF n = 0 THEN F ELSE MergeElse(after[n - 1], i)
  IN  after[Len(F)]

\* What is printed inside a flow need not say where that flow goes on.
CutNested(F, i, part) ==
  LET t == Target(F[i], part)
  IN  IF t # 0 /\ F[t].uses = 1 /\ F[t].next = F[i].next THEN SetNext(F, t, 0) ELSE F

RemoveNestedNext(F, i) ==
  LET parts == IfParts(F[i]) \o CaseParts(F[i])
      after[n \in 0 .. Len(parts)] ==
        IF n = 0 THEN F ELSE CutNested(after[n - 1], i, parts[n])
  IN  IF F[i].next = 0 THEN F ELSE after[Len(parts)]

-----------------------------------------------------------------------------
(* Simplify_Flow                                                           *)

Root == flowOf[1]

RootCall == <<[flow |-> Root, at |-> 1]>>

\* Output_Subprogram: the entry has a use, and the passes start.
StartPasses ==
  /\ pass = 0 /\ visits # <<>> /\ Visiting.flow = 0 /\ 1 \in DOMAIN flowOf
  /\ flows' = AddUse(flows, Root)
  /\ visits' = <<>>
  /\ pass' = 1
  /\ walk' = RootCall
  /\ UNCHANGED <<src, flowOf, processed>>

\* One turn of Process_Flow_Graph: a flow that is done with its references stays.
Descend(s) ==
  LET w == s.walk
      top == Last(w)
      refs == Refs(flows[top.flow])
      t == refs[top.at]
      next == [w EXCEPT ![Len(w)].at = @ + 1]
  IN  CASE top.at > Len(refs) -> s
        [] top.at <= Len(refs) /\ (t = 0 \/ t \in s.processed) -> [s EXCEPT !.walk = next]
        [] OTHER -> [ walk |-> Append(next, [flow |-> t, at |-> 1]),
                      processed |-> s.processed \cup {t} ]

\* Process_Flow_Graph down to the next flow that is done with its references: no
\* reference is taken twice.
Descent ==
  LET turns == Cardinality(References(flows, DOMAIN flows))
      after[n \in 0 .. turns] ==
        IF n = 0 THEN [walk |-> walk, processed |-> processed] ELSE Descend(after[n - 1])
  IN  after[turns]

\* The flow that the operation of the pass is called for.
Called == Last(Descent.walk).flow

\* The operation that Simplify_Flow calls for flow i in pass p.
Operation(p, F, i) ==
  CASE p = 1 -> SimplifyFinalTarget(F, i)
    [] p = 2 -> SimplifyCases(F, i)
    [] p = 3 -> FactorIf(F, i)
    [] p = 4 -> FactorCase(F, i)
    [] p = 5 -> TryMergeIfs(F, i)
    [] p = 6 -> RemoveNestedNext(F, i)

LastPass == 6

Simplified == pass > LastPass

\* One call of the operation of the pass, on the flow that is done with its
\* references; after the call for the entry, the next pass starts.
Process ==
  /\ pass \in 1 .. LastPass
  /\ \E d \in {Descent} :
         /\ flows' = Operation(pass, flows, Last(d.walk).flow)
         /\ IF Len(d.walk) = 1
            THEN pass' = pass + 1 /\ walk' = RootCall /\ processed' = {}
            ELSE pass' = pass /\ walk' = Front(d.walk) /\ processed' = d.processed
  /\ UNCHANGED <<src, flowOf, visits>>

Next ==
  \/ CreateFlow
  \/ LinkFlow
  \/ ReturnFromVisit
  \/ StartPasses
  \/ Process

Spec == Init /\ [][Next]_vars

-----------------------------------------------------------------------------
(* Properties                                                              *)

\* The uses that are not references: those by the functions made before, and
\* the one that Output_Subprogram gives the entry.
Given(i) ==
  IF i = 1 /\ Earlier > 0 THEN Earlier ELSE IF pass > 0 /\ i = Root THEN 1 ELSE 0

\* The number of uses of a flow is the number of references that flows in use
\* have to it, with one for the entry and those of the functions made before: a
\* count that is off makes a flow be printed twice, or inside one of those that
\* lead to it only (Dump_One_Flow reports "Incorrect number of uses").  This is
\* about the order of Add_Use and Remove_Use in the passes, and the uses that
\* Replace_Target leaves to its caller.
UsesCounted ==
  LET live == {j \in DOMAIN flows : flows[j].uses > 0 \/ pass = 0}
      references == References(flows, live)
  IN  \A i \in live :
        flows[i].uses = Given(i) + Cardinality({r \in references : r[3] = i})

\* Try_Merge_Ifs looks at the flow that an "else" leads to without asking whether
\* there is one: Factor_One_If, two passes before, has taken out every "else" that
\* leads nowhere, and left none that it empties later.
ElsesLead ==
  pass = 5 =>
    \A j \in processed \cup {Root} :
      LET ifs == flows[j].ifs
      IN  ifs # <<>> /\ Last(ifs).test = 0 => Last(ifs).target # 0
=============================================================================
