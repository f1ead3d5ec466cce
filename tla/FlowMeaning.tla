---------------------------- MODULE FlowMeaning ----------------------------
(***************************************************************************)
(* What the flows of CCG.Flow mean, and the properties of the passes.      *)
(*                                                                         *)
(* Two representations of a function mean the same when they go through    *)
(* the same visible steps, whatever the tests give: the lines of a block,  *)
(* a test, a switch, a return.  A view of a representation settles a       *)
(* position, going on until a step is visible, and gives that step with    *)
(* the positions after it: one after lines, two after a test, one for each *)
(* value after a switch with "default" first.  Running off the end of the  *)
(* function and looping without a visible step are steps too.              *)
(***************************************************************************)
EXTENDS Flow

Visible(step, after) == [step |-> step, after |-> after]

OffTheEnd == Visible(<<"off", 0>>, <<>>)
Looping == Visible(<<"loop", 0>>, <<>>)

\* Nothing is promised of an unreachable position.
Anything == Visible(<<"anything", 0>>, <<>>)

\* Whether two views agree, and the pairs of positions after them.
Compared(v, w) ==
  LET agree == v = Anything \/ v.step = w.step
  IN  [ agree |-> agree,
        after |-> IF v = Anything \/ ~agree THEN {}
                  ELSE {<<v.after[k], w.after[k]>> : k \in DOMAIN v.after} ]

-----------------------------------------------------------------------------
(* The function as given: <<block, FALSE>> is the start of a block, and    *)
(* <<block, TRUE>> its terminator.                                         *)

RECURSIVE SourceFrom(_, _)
SourceFrom(p, gone) ==
  LET b == p[1]
      x == src[b]
      targets == [k \in DOMAIN x.to |-> <<x.to[k], FALSE>>]
  IN  CASE x.lines /\ ~p[2] -> Visible(<<"lines", b>>, <<<<b, TRUE>>>>)
        [] x.kind = "ret" -> Visible(<<"return", x.ret>>, <<>>)
        [] x.kind = "cond" -> Visible(<<"test", b>>, targets)
        [] x.kind = "switch" -> Visible(<<"switch", b>>, targets)
        [] x.kind = "unreachable" -> Anything
        [] x.kind = "br" /\ x.to[1] \in gone -> Looping
        [] OTHER -> SourceFrom(targets[1], gone \cup {x.to[1]})

SourceView(p) == SourceFrom(p, {})

-----------------------------------------------------------------------------
(* The flows.  A position is a flow, how much of it is done, and the flows *)
(* to go on to when a flow with one use ends without a Next: "parts" are   *)
(* its "if" and "case" parts after the first "done" ones.                  *)

At(i, done, then) == [flow |-> i, done |-> done, then |-> then]

\* Where to go on in order to reach flow t, or what is left to go on to.
Enter(t, then) ==
  LET path == IF t = 0 THEN then ELSE <<t>> \o then
  IN  IF path = <<>> THEN At(0, 0, <<>>)
      ELSE At(Head(path), 0, IF flows[Head(path)].uses = 1 THEN Tail(path) ELSE <<>>)

\* The target that a switch takes for a value: that of the case with the value,
\* or of the default, or of the first case after it that is not shared.
CaseTarget(cases, v) ==
  LET matching == {k \in DOMAIN cases : cases[k].value = v}
      default == {k \in DOMAIN cases : cases[k].value = 0}
      hits == IF matching # {} THEN matching ELSE default
      from == CHOOSE k \in hits : TRUE
      last == {k \in DOMAIN cases : k >= from /\ ~cases[k].same}
  IN  IF hits = {} \/ last = {} THEN 0 ELSE cases[Min(last)].target

RECURSIVE FlowFrom(_, _)
FlowFrom(p, gone) ==
  LET f == flows[p.flow]
      k == p.done
      inside == IF f.next = 0 THEN p.then ELSE <<f.next>> \o p.then
      values == [v \in DOMAIN src[f.block].to |-> CaseTarget(f.cases, v - 1)]
      goOn == Enter(f.next, p.then)
  IN  CASE p.flow = 0 -> OffTheEnd
        [] p.flow # 0 /\ f.ret # 0 -> Visible(<<"return", f.ret>>, <<>>)
        [] p.flow # 0 /\ f.ret = 0 /\ k = 0 ->
             IF f.lines THEN Visible(<<"lines", f.block>>, <<[p EXCEPT !.done = 1]>>)
             ELSE FlowFrom([p EXCEPT !.done = 1], gone)
        [] p.flow # 0 /\ f.ret = 0 /\ k \in DOMAIN f.ifs ->
             IF f.ifs[k].test = 0 THEN FlowFrom(Enter(f.ifs[k].target, inside), gone)
             ELSE Visible(<<"test", f.ifs[k].test>>,
                          <<Enter(f.ifs[k].target, inside), [p EXCEPT !.done = k + 1]>>)
        [] p.flow # 0 /\ f.ret = 0 /\ f.cases # <<>> ->
             Visible(<<"switch", f.block>>,
                     [v \in DOMAIN values |-> Enter(values[v], inside)])
        [] OTHER -> IF goOn \in gone THEN Looping ELSE FlowFrom(goOn, gone \cup {goOn})

FlowView(p) == FlowFrom(p, {})

-----------------------------------------------------------------------------
(* Properties                                                              *)

\* Whether the function and its flows agree, step by step, from the pairs "new".
RECURSIVE FlowsAgree(_, _)
FlowsAgree(seen, new) ==
  LET compared == {Compared(SourceView(pair[1]), FlowView(pair[2])) : pair \in new}
      all == seen \cup new
  IN  \/ new = {}
      \/ /\ \A c \in compared : c.agree
         /\ FlowsAgree(all, UNION {c.after : c \in compared} \ all)

\* At the end of every pass, the flows do what the function does: no pass
\* loses, adds or reorders anything that some execution reaches.  It does not
\* hold of functions with a block that is only "unreachable" (BareUnreachable).
MeaningKept ==
  pass > 0 /\ walk = RootCall =>
    FlowsAgree({}, {<<<<1, FALSE>>, Enter(Root, <<>>)>>})
=============================================================================
