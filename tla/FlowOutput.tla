----------------------------- MODULE FlowOutput -----------------------------
(***************************************************************************)
(* Output_Flow of CCG.Flow: the simplified flows printed as C.             *)
(*                                                                         *)
(* The C code is a sequence of statements.  An "if" has one part for each  *)
(* test, 0 for "else", and a "switch" one for each value, 0 for "default". *)
(***************************************************************************)
EXTENDS FlowMeaning

CONSTANT MaxDepth \* Max_Depth: how deep a flow may be printed in others

ASSUME MaxDepthAssumption == MaxDepth \in Nat

VARIABLES
    code,      \* what is printed
    toOutput,  \* To_Output
    output,    \* Output
    wasInline  \* Was_Inline

outputVars == <<code, toOutput, output, wasInline>>

Stmt(op, id) == [op |-> op, id |-> id, parts |-> <<>>]
Compound(op, id, parts) == [op |-> op, id |-> id, parts |-> parts]

-----------------------------------------------------------------------------
(* Printing.  "s" holds the flows and sets, and the code of the innermost  *)
(* block that is open.                                                     *)

Put(s, stmts) == [s EXCEPT !.code = @ \o stmts]

MaxNexts == 200

\* The flow on the chain from t that has no Next: 0 if that is past a flow that
\* is printed already, or too far.
RECURSIVE LastOfNexts(_, _, _)
LastOfNexts(s, t, count) ==
  CASE t \in s.output \/ count = MaxNexts -> 0
    [] t \notin s.output /\ count < MaxNexts /\ s.flows[t].next = 0 -> t
    [] OTHER -> LastOfNexts(s, s.flows[t].next, count + 1)

\* Mutant of GoOnAfter: a flow that does not fit does not say where it goes on.
LoseNext(s, t, ourNext) == s.flows

\* A flow that was to be printed here, and is not, says where it goes on.
GoOnAfter(s, t, ourNext) ==
  LET last == LastOfNexts(s, t, 0)
  IN  IF t \in s.inline /\ ourNext # 0 /\ last # 0
      THEN SetNext(s.flows, last, ourNext) ELSE s.flows

\* Mutant of BreakAfter: the flow that the case leads to must end the case itself.
BreakIfNoFlow(s, t) == IF t = 0 THEN <<Stmt("break", 0)>> ELSE <<>>

\* A case that falls through, as Falls_Through sees it.
BreakAfter(s, t) ==
  IF PastSingleUses(s.flows, t) = 0 THEN <<Stmt("break", 0)>> ELSE <<>>

\* Whether the case is a default that goes where leaving it out goes.
Omitted(cases, k) ==
  /\ cases[k].value = 0 /\ cases[k].target = 0 /\ ~cases[k].same
  /\ ~(k > 1 /\ cases[k - 1].same)

\* Mutant of NeedsLabel: only what is printed at top level gets a label.
LabelAsAsked(s, i, writeLabel) == writeLabel

NeedsLabel(s, i, writeLabel) == writeLabel \/ s.flows[i].uses > 1

\* Output_Flow_Target and Output_One_Flow.
RECURSIVE OutputTarget(_, _, _, _), OutputOneFlow(_, _, _, _, _)

OutputTarget(s, t, depth, ourNext) ==
  CASE t = 0 -> s
    [] t # 0 /\ s.flows[t].ret # 0 -> Put(s, <<Stmt("return", s.flows[t].ret)>>)
    [] /\ t # 0 /\ s.flows[t].ret = 0
       /\ \/ s.flows[t].uses = 1 /\ depth < MaxDepth
          \/ depth = 0 /\ t \notin s.output ->
         OutputOneFlow(s, t, depth, ourNext, FALSE)
    [] OTHER ->
         [ Put(s, <<Stmt("goto", s.flows[t].block)>>) EXCEPT
             !.toOutput = IF t \in s.output THEN @ ELSE @ \cup {t},
             !.flows = GoOnAfter(s, t, ourNext) ]

OutputOneFlow(s, i, depth, ourNext, writeLabel) ==
  LET f == s.flows[i]
      inner == IF f.next # 0 THEN f.next ELSE ourNext
      label == IF NeedsLabel(s, i, writeLabel) THEN <<Stmt("label", f.block)>> ELSE <<>>
      lines == IF f.lines THEN <<Stmt("lines", f.block)>> ELSE <<>>
      raised == IF i \in s.output THEN <<Stmt("raise", f.block)>> ELSE <<>>
      begun == [ s EXCEPT !.output = @ \cup {i}, !.toOutput = @ \ {i},
                          !.code = @ \o raised \o label \o lines ]
      \* A part printed in a block of its own, "parts" being those before it.
      Part(acc, id, t) ==
        LET r == OutputTarget([acc.s EXCEPT !.code = <<>>], t, depth + 1, inner)
        IN  [s |-> r, parts |-> Append(acc.parts, [id |-> id, body |-> r.code])]
      IfPart(acc, k) == Part(acc, f.ifs[k].test, f.ifs[k].target)
      CasePart(acc, k) ==
        LET c == f.cases[k]
            r == Part(acc, c.value, c.target)
        IN  CASE Omitted(f.cases, k) -> acc
              [] ~Omitted(f.cases, k) /\ c.same ->
                   [acc EXCEPT !.parts = Append(@, [id |-> c.value, body |-> <<>>])]
              [] OTHER -> [r EXCEPT !.parts[Len(r.parts)].body =
                                        @ \o BreakAfter(r.s, c.target)]
      Nested(x, op, Each(_, _), n) ==
        LET r == FoldLeft(Each, [s |-> x, parts |-> <<>>], [k \in 1 .. n |-> k])
        IN  IF n = 0 THEN x
            ELSE [r.s EXCEPT !.code = Append(x.code, Compound(op, f.block, r.parts))]
      ifs == Nested(begun, "if", IfPart, Len(f.ifs))
  IN  OutputTarget(Nested(ifs, "switch", CasePart, Len(f.cases)), f.next, depth, ourNext)

\* Print flow i at top level, "inline" being Was_Inline.
PrintFlow(i, inline, writeLabel) ==
  LET s == OutputOneFlow([flows |-> flows, code |-> code, toOutput |-> toOutput,
                          output |-> output, inline |-> inline], i, 0, 0, writeLabel)
  IN  /\ flows' = s.flows /\ code' = s.code
      /\ toOutput' = s.toOutput /\ output' = s.output
      /\ wasInline' = inline
      /\ UNCHANGED <<src, flowOf, visits, pass, walk, processed>>

\* The flows that Mark_When_Inline is called for.
RECURSIVE Reached(_, _)
Reached(seen, new) ==
  IF new = {} THEN seen
  ELSE LET all == seen \cup new
       IN  Reached(all, UNION {Range(Refs(flows[i])) : i \in new} \ (all \cup {0}))

OutputEntry ==
  /\ Simplified /\ output = {}
  /\ PrintFlow(Root, {i \in Reached({}, {Root}) : flows[i].uses = 1}, FALSE)

OutputLeft ==
  /\ toOutput # {}
  /\ PrintFlow(Min(toOutput), wasInline, TRUE)

OutputInit ==
  /\ Init
  /\ code = <<>> /\ toOutput = {} /\ output = {} /\ wasInline = {}

OutputNext ==
  \/ Next /\ UNCHANGED outputVars
  \/ OutputEntry
  \/ OutputLeft

OutputSpec == OutputInit /\ [][OutputNext]_<<vars, outputVars>>

Printed == output # {} /\ toOutput = {}

-----------------------------------------------------------------------------
(* The C code: a position is what remains to be executed.                  *)

\* All the statements, those of the blocks included, as printed.
RECURSIVE Flat(_)
Flat(stmts) ==
  IF stmts = <<>> THEN <<>>
  ELSE LET x == Head(stmts)
       IN  FoldLeft(LAMBDA all, part : all \o Flat(part.body), <<x>>, x.parts)
             \o Flat(Tail(stmts))

\* The code after a label, which the gotos of the function can reach.
After(b) ==
  LET at == {k \in DOMAIN code : code[k] = Stmt("label", b)}
  IN  SubSeq(code, Min(at), Len(code))

\* What a switch executes for a value: the parts from the matching one on, up to
\* the first "break".
SwitchBody(parts, v) ==
  LET default == {k \in DOMAIN parts : parts[k].id = 0}
      matching == {k \in DOMAIN parts : parts[k].id = v}
      hits == IF matching # {} THEN matching ELSE default
      body == FoldLeft(LAMBDA all, part : all \o part.body, <<>>,
                       SubSeq(parts, Min(hits), Len(parts)))
      breaks == {k \in DOMAIN body : body[k].op = "break"}
  IN  IF hits = {} THEN <<>>
      ELSE IF breaks = {} THEN body ELSE SubSeq(body, 1, Min(breaks) - 1)

RECURSIVE CodeFrom(_, _)
CodeFrom(p, gone) ==
  LET x == Head(p)
      rest == Tail(p)
      first == Head(x.parts)
      others == IF Len(x.parts) = 1 THEN <<>>
                ELSE <<[x EXCEPT !.parts = Tail(@)]>>
  IN  CASE p = <<>> -> OffTheEnd
        [] p # <<>> /\ x.op = "label" -> CodeFrom(rest, gone)
        [] p # <<>> /\ x.op = "goto" ->
             IF x.id \in gone THEN Looping ELSE CodeFrom(After(x.id), gone \cup {x.id})
        [] p # <<>> /\ x.op = "if" ->
             IF first.id = 0 THEN CodeFrom(first.body \o rest, gone)
             ELSE Visible(<<"test", first.id>>, <<first.body \o rest, others \o rest>>)
        [] p # <<>> /\ x.op = "switch" ->
             Visible(<<"switch", x.id>>,
                     [v \in DOMAIN src[x.id].to |-> SwitchBody(x.parts, v - 1) \o rest])
        [] p # <<>> /\ x.op = "return" -> Visible(<<"return", x.id>>, <<>>)
        [] OTHER -> Visible(<<x.op, x.id>>, <<rest>>)

CodeView(p) == CodeFrom(p, {})

-----------------------------------------------------------------------------
(* Properties                                                              *)

\* Once all is printed, every goto has its label, once and outside any block,
\* and no flow was printed twice (the Insert into Output would raise an
\* exception).  The label depends on the uses of a flow when it is printed,
\* which printing others can change.
GotosResolved ==
  LET all == Flat(code)
      Labels(b) == {k \in DOMAIN all : all[k] = Stmt("label", b)}
  IN  Printed =>
        \A k \in DOMAIN all :
          /\ all[k].op # "raise"
          /\ all[k].op = "goto" =>
               /\ Cardinality(Labels(all[k].id)) = 1
               /\ Stmt("label", all[k].id) \in Range(code)

\* Whether the function and the code agree, step by step, from the pairs "new".
RECURSIVE CodeAgrees(_, _)
CodeAgrees(seen, new) ==
  LET compared == {Compared(SourceView(pair[1]), CodeView(pair[2])) : pair \in new}
      all == seen \cup new
  IN  \/ new = {}
      \/ /\ \A c \in compared : c.agree
         /\ CodeAgrees(all, UNION {c.after : c \in compared} \ all)

\* The C code does what the function does, even where Max_Depth made a flow be
\* printed away from where the passes expected it.
OutputKept ==
  Printed => CodeAgrees({}, {<<<<1, FALSE>>, code>>})
=============================================================================
