----------------------------- MODULE Transform -----------------------------
(***************************************************************************)
(* CCG.Transform: the rewriting of a function before C is written for it.  *)
(* The passes of Transform_Blocks run one after the other, each over the   *)
(* blocks in their order: debug intrinsics are removed, Phi nodes become   *)
(* variables or returns, jumps to jumps are followed, conditions that only *)
(* lead to one another become "and then" and "or else", and the branches   *)
(* of some conditions are swapped.                                         *)
(*                                                                         *)
(* A block has Phi nodes, then loads of variables made for Phi nodes, then *)
(* statements, then a condition if it ends in a conditional branch.        *)
(* Values are integers: a Phi node is positive, a constant is not.         *)
(***************************************************************************)
EXTENDS Integers, Sequences, FiniteSets, SequencesExt

CONSTANTS
    Functions,  \* the functions to transform: block number -> block
    Bits        \* bound on the conditions evaluated when meanings are compared

VARIABLES
    code,       \* block number -> block
    order,      \* the blocks of the function, in order; the first is the entry
    source,     \* the function before any change
    pass,       \* the pass that runs
    pos, succ,  \* its position: the block, and the successor in it
    new_BBs,    \* blocks made by Eliminate_Phis
    ret_Phis,   \* Phi nodes replaced by returns
    changed     \* Follow_Jumps deleted a block in this sweep

vars == <<code, order, source, pass, pos, succ, new_BBs, ret_Phis, changed>>

Passes == <<"intrinsics", "phis", "loads", "jumps", "sweep", "short_circuit", "swap", "done">>

(***************************************************************************)
(* Conditions.  A leaf is a comparison, or a call or load; one that is     *)
(* outside is computed elsewhere.  ONCE says if it has just one use.       *)
(***************************************************************************)
Leaf(op, id) == [op |-> op, id |-> id, neg |-> FALSE, once |-> TRUE]
Node(op, a, b) == [op |-> op, a |-> a, b |-> b, once |-> TRUE]
Not(a) == [op |-> "xor", a |-> a, once |-> TRUE]
NoCond == [op |-> "none"]
Dual == [op \in {"and", "or", "and_then", "or_else"} |->
           CASE op = "and" -> "or" [] op = "or" -> "and" [] op = "and_then" -> "or_else" [] op = "or_else" -> "and_then"]

\* Num_Uses, once the value has got another user.
Shared(c) == [c EXCEPT !.once = FALSE]

RECURSIVE Negatable(_)
\* Negate_Condition (C, Do_Nothing => True).
Negatable(c) ==
    /\ c.once
    /\ \/ c.op \in {"xor", "cmp"}
       \/ c.op \in DOMAIN Dual /\ Negatable(c.a) /\ Negatable(c.b)

RECURSIVE Negated(_)
\* Negate_Condition: a negation is dropped but stays, dead, in its block.
Negated(c) ==
    CASE c.op = "xor" -> Shared(c.a)
      [] c.op = "cmp" -> [c EXCEPT !.neg = ~@]
      [] OTHER -> Node(Dual[c.op], Negated(c.a), Negated(c.b))

RECURSIVE LeavesXor(_)
LeavesXor(c) == c.op = "xor" \/ (c.op \in DOMAIN Dual /\ (LeavesXor(c.a) \/ LeavesXor(c.b)))

RECURSIVE OneExpression(_)
\* Scan_For_Only_Condition, but for the count of calls and loads.
OneExpression(c) ==
    \/ c.op = "outside"
    \/ c.once /\ CASE c.op = "xor" -> OneExpression(c.a)
                   [] c.op \in DOMAIN Dual -> OneExpression(c.a) /\ OneExpression(c.b)
                   [] OTHER -> TRUE

RECURSIVE Calls(_)
Calls(c) == CASE c.op = "call" -> 1 [] c.op = "xor" -> Calls(c.a)
              [] c.op \in DOMAIN Dual -> Calls(c.a) + Calls(c.b) [] OTHER -> 0

(***************************************************************************)
(* Blocks                                                                  *)
(***************************************************************************)
Term(kind, cond, succs, val) == [kind |-> kind, cond |-> cond, succ |-> succs, val |-> val]
Br(d) == Term("br", NoCond, <<d>>, 0)
CondBr(c, t, f) == Term("cond", c, <<t, f>>, 0)
Ret(v) == Term("ret", NoCond, <<>>, v)
Switch(c, d, e) == Term("switch", c, <<d, e>>, 0)
Block(phis, stmts, term) == [phis |-> phis, loads |-> <<>>, stmts |-> stmts, dead |-> FALSE, term |-> term]
Phi(var, in) == [var |-> var, in |-> in]
Do(id, v) == [op |-> "do", id |-> id, val |-> v]
Debug == [op |-> "debug", val |-> 0]
Store(var, v) == [op |-> "store", var |-> var, val |-> v]

Blocks == Range(order)
Preds(b) == {p \in Blocks : b \in Range(code[p].term.succ)}
IsCondBr(b) == code[b].term.kind = "cond"
Succ(b, i) == code[b].term.succ[i]

\* The terminator is the first instruction.
OnlyTerminator(b) ==
    /\ code[b].phis = <<>> /\ code[b].loads = <<>> /\ code[b].stmts = <<>> /\ ~code[b].dead
    /\ code[b].term.cond.op \in {"none", "outside"}
JustJump(b) == OnlyTerminator(b) /\ Len(code[b].term.succ) = 1
Is_Just_Return(b) == OnlyTerminator(b) /\ code[b].term.kind = "ret"
Has_Return(b) == code[b].term.kind = "ret" \/ (code[b].term.kind = "br" /\ Is_Just_Return(Succ(b, 1)))

RECURSIVE Has_Unique_Predecessor(_)
Has_Unique_Predecessor(b) ==
    \E p \in Blocks : Preds(b) = {p} /\ (JustJump(p) => Has_Unique_Predecessor(p))

\* Mutant of Is_Only_Condition: other instructions may stand in the block.
IsOneCondition(b) == IsCondBr(b) /\ OneExpression(code[b].term.cond) /\ Calls(code[b].term.cond) <= 1

\* Every instruction of the block computes its condition.
Is_Only_Condition(b) ==
    /\ IsCondBr(b) /\ OneExpression(code[b].term.cond) /\ Calls(code[b].term.cond) <= 1
    /\ code[b].phis = <<>> /\ code[b].loads = <<>> /\ code[b].stmts = <<>> /\ ~code[b].dead

(***************************************************************************)
(* Passes over the blocks                                                  *)
(***************************************************************************)
BB == order[pos]
In(p) == pass = p /\ pos <= Len(order)
NextPass(p) == Passes[1 + CHOOSE i \in DOMAIN Passes : Passes[i] = p]
NextBlock == pos' = pos + 1 /\ succ' = 1
NextSuccessor == pos' = pos /\ succ' = succ + 1

\* Follow_Jumps sweeps again if it deleted a block.
NextSweep ==
    /\ pass # "done" /\ pos > Len(order)
    /\ pass' = IF pass = "sweep" /\ changed THEN "sweep" ELSE NextPass(pass)
    /\ pos' = 1 /\ succ' = 1
    /\ UNCHANGED <<code, order, source, new_BBs, ret_Phis>>

\* Mutant of EndPass: Changed is not reset.
EndPassChanged == NextSweep /\ UNCHANGED changed

\* The end of a pass, or of a sweep.
EndPass == NextSweep /\ changed' = FALSE

Remove_Some_Intrinsics ==
    /\ In("intrinsics")
    /\ code' = [code EXCEPT ![BB].stmts = SelectSeq(@, LAMBDA s : s.op # "debug")]
    /\ NextBlock
    /\ UNCHANGED <<order, source, pass, new_BBs, ret_Phis, changed>>

(***************************************************************************)
(* Eliminate_Phis                                                          *)
(***************************************************************************)
\* The users of Phi node V: returns, statements and other Phi nodes.
Users(v) ==
    {<<b, "ret">> : b \in {x \in Blocks : code[x].term.kind = "ret" /\ code[x].term.val = v}}
    \cup {<<b, "stmt">> : b \in {x \in Blocks : \E i \in DOMAIN code[x].stmts : code[x].stmts[i].val = v}}
    \cup {<<b, "phi">> : b \in {x \in Blocks : \E i \in DOMAIN code[x].phis : v \in Range(code[x].phis[i].in)}}

Is_Return_Phi(b, phi) == Users(phi.var) = {<<b, "ret">>} /\ code[b].stmts = <<>>

EndOfSuccessors == succ > Len(code[BB].term.succ)
Dest == Succ(BB, succ)
PhisOfDest == IF BB \in new_BBs THEN <<>> ELSE code[Dest].phis
ReturnPhis(b) == {i \in DOMAIN code[b].phis : Is_Return_Phi(b, code[b].phis[i])}

\* The code for the edge is put at the end of block BB if it ends in a
\* branch to the Phi nodes alone, else in a block of its own.
OnEdge(stmts, term) ==
    IF code[BB].term.kind = "br"
    THEN /\ code' = [code EXCEPT ![BB].stmts = @ \o stmts, ![BB].term = term]
         /\ UNCHANGED <<order, new_BBs>>
    ELSE LET n == 1 + CHOOSE m \in DOMAIN code : \A k \in DOMAIN code : k <= m
         IN  /\ code' = [b \in DOMAIN code \cup {n} |->
                           IF b = n THEN Block(<<>>, stmts, term)
                           ELSE IF b = BB THEN [code[b] EXCEPT !.term.succ[succ] = n] ELSE code[b]]
             /\ order' = Append(order, n)
             /\ new_BBs' = new_BBs \cup {n}

StoresFor(phis) == [i \in DOMAIN phis |-> Store(phis[i].var, phis[i].in[BB])]

ReturnOnEdge ==
    /\ In("phis") /\ ~EndOfSuccessors /\ PhisOfDest # <<>> /\ ReturnPhis(Dest) # {}
    /\ OnEdge(<<>>, Ret(PhisOfDest[CHOOSE i \in ReturnPhis(Dest) : TRUE].in[BB]))
    /\ ret_Phis' = ret_Phis \cup {PhisOfDest[i].var : i \in ReturnPhis(Dest)}
    /\ NextSuccessor
    /\ UNCHANGED <<source, pass, changed>>

StoreOnEdge ==
    /\ In("phis") /\ ~EndOfSuccessors /\ PhisOfDest # <<>> /\ ReturnPhis(Dest) = {}
    /\ OnEdge(StoresFor(PhisOfDest), Br(Dest))
    /\ NextSuccessor
    /\ UNCHANGED <<source, pass, ret_Phis, changed>>

NoPhiOnEdge ==
    /\ In("phis")
    /\ IF EndOfSuccessors THEN NextBlock ELSE PhisOfDest = <<>> /\ NextSuccessor
    /\ UNCHANGED <<code, order, source, pass, new_BBs, ret_Phis, changed>>

\* The second pass: loads take the place of the Phi nodes; the block of a
\* Phi node that was replaced by returns is dead.
Delete(b) ==
    /\ order' = SelectSeq(order, LAMBDA x : x # b)
    /\ pos' = IF \E i \in 1 .. (pos - 1) : order[i] = b THEN pos - 1 ELSE pos
    /\ UNCHANGED succ

Loads(phis) == [i \in DOMAIN phis |-> phis[i].var]

\* Mutant of Loaded: one Phi node of the block is replaced.
LoadedFirst(b) ==
    IF b.phis = <<>> THEN b ELSE [b EXCEPT !.loads = Loads(<<b.phis[1]>>), !.phis = Tail(@)]

Loaded(b) == [b EXCEPT !.loads = Loads(b.phis), !.phis = <<>>]

LoadPhis ==
    /\ In("loads")
    /\ IF \E i \in DOMAIN code[BB].phis : code[BB].phis[i].var \in ret_Phis
       THEN Delete(BB) /\ UNCHANGED code
       ELSE /\ code' = [code EXCEPT ![BB] = Loaded(@)]
            /\ NextBlock /\ UNCHANGED order
    /\ UNCHANGED <<source, pass, new_BBs, ret_Phis, changed>>

(***************************************************************************)
(* Follow_Jumps                                                            *)
(***************************************************************************)
RECURSIVE FollowedFrom(_, _)
FollowedFrom(d, n) == IF n = 0 \/ ~JustJump(d) THEN d ELSE FollowedFrom(Succ(d, 1), n - 1)

\* Mutant of Followed: Count starts at 1.
FollowedFromOne(d) == FollowedFrom(d, 9)

\* At most 10 jumps are followed: they may be an infinite loop.
Followed(d) == FollowedFrom(d, 10)

Follow_Jumps ==
    /\ In("jumps")
    /\ code' = [code EXCEPT ![BB].term.succ = [i \in DOMAIN @ |->  Followed(@[i])]]
    /\ NextBlock
    /\ UNCHANGED <<order, source, pass, new_BBs, ret_Phis, changed>>

\* A block nothing leads to is deleted if it only has a terminator.
IsDead(b) == b # order[1] /\ Preds(b) = {} /\ OnlyTerminator(b)

Sweep ==
    /\ In("sweep")
    /\ IF IsDead(BB)
       THEN Delete(BB) /\ changed' = TRUE
       ELSE NextBlock /\ UNCHANGED <<order, changed>>
    /\ UNCHANGED <<code, source, pass, new_BBs, ret_Phis>>

(***************************************************************************)
(* Build_Short_Circuit_Ops                                                 *)
(***************************************************************************)
\* Get_Last_Instruction (BB) once the instructions of block B are moved to
\* it: the condition of B unless that is computed elsewhere.
LastInstruction(b) ==
    IF code[b].term.cond.op # "outside" THEN code[b].term.cond
    ELSE IF code[BB].term.cond.op # "outside" THEN Shared(code[BB].term.cond)
    ELSE NoCond

OurCond(b) == IF LastInstruction(b) = Shared(code[BB].term.cond) THEN Shared(code[BB].term.cond)
              ELSE code[BB].term.cond

Make_Short_Circuit_Op(b, kind) ==
    /\ code' = [code EXCEPT ![BB].term = [code[b].term EXCEPT
                                             !.cond = Node(kind, OurCond(b), LastInstruction(b))]]
    /\ Delete(b)

Is_Or_Else(t, f) ==
    IsCondBr(f) /\ Succ(f, 1) = t /\ Has_Unique_Predecessor(f) /\ Is_Only_Condition(f)
Is_And_Then(t, f) ==
    IsCondBr(t) /\ Succ(t, 2) = f /\ Has_Unique_Predecessor(t) /\ Is_Only_Condition(t)

\* The result may be the first part of another short circuit: the same block
\* is looked at again.
Build_Short_Circuit_Ops ==
    /\ In("short_circuit")
    /\ LET t == Succ(BB, 1)
           f == Succ(BB, 2)
       IN  IF IsCondBr(BB) /\ BB \notin {t, f} /\ Is_Or_Else(t, f) THEN Make_Short_Circuit_Op(f, "or_else")
           ELSE IF IsCondBr(BB) /\ BB \notin {t, f} /\ Is_And_Then(t, f)
           THEN Make_Short_Circuit_Op(t, "and_then")
           ELSE NextBlock /\ UNCHANGED <<code, order>>
    /\ UNCHANGED <<source, pass, new_BBs, ret_Phis, changed>>

(***************************************************************************)
(* Swap_Branches                                                           *)
(***************************************************************************)
\* One of the blocks is more than a test and a jump, or the other way round.
WantsSwap(t, f) ==
    \/ ~Has_Unique_Predecessor(t) /\ Has_Unique_Predecessor(f) /\ ~Has_Return(t) /\ ~Has_Return(f)
    \/ Has_Return(f) /\ ~Has_Return(t)
    \/ Has_Return(t) /\ Has_Return(f) /\ Is_Just_Return(t) /\ ~Is_Just_Return(f)
    \/ /\ ~IsCondBr(f) /\ IsCondBr(t) /\ Is_Only_Condition(t)
       /\ (Has_Return(f) /\ Has_Return(Succ(t, 1))) \/ f = Succ(t, 1)

Swap_Branches ==
    /\ In("swap")
    /\ IF IsCondBr(BB) /\ WantsSwap(Succ(BB, 1), Succ(BB, 2)) /\ Negatable(code[BB].term.cond)
       THEN code' = [code EXCEPT ![BB].dead = @ \/ LeavesXor(code[BB].term.cond),
                                 ![BB].term = CondBr(Negated(@.cond), @.succ[2], @.succ[1])]
       ELSE UNCHANGED code
    /\ NextBlock
    /\ UNCHANGED <<order, source, pass, new_BBs, ret_Phis, changed>>

Init ==
    /\ source \in Functions
    /\ code = source /\ order = [b \in DOMAIN source |-> b]
    /\ pass = Passes[1] /\ pos = 1 /\ succ = 1
    /\ new_BBs = {} /\ ret_Phis = {} /\ changed = FALSE

Eliminate_Phis == ReturnOnEdge \/ StoreOnEdge \/ NoPhiOnEdge \/ LoadPhis
Next == EndPass \/ Remove_Some_Intrinsics \/ Eliminate_Phis \/ Follow_Jumps \/ Sweep
        \/ Build_Short_Circuit_Ops \/ Swap_Branches

\* Transform_Blocks is a sequential procedure: it goes on as long as it can.
Spec == Init /\ [][Next]_vars /\ WF_vars(Next)

(***************************************************************************)
(* The meaning of a function: the calls, effects and the result that it    *)
(* has in order, given the outcome of each comparison, call or load that   *)
(* it evaluates and of the conditions computed elsewhere.                  *)
(***************************************************************************)
RECURSIVE Evaluate(_, _, _)
\* W: what has been done, the number of outcomes used, the last value, and
\* whether there are no more.
Evaluate(c, bits, w) ==
    IF w.stop THEN w
    ELSE CASE c.op \in {"cmp", "call"} ->
                IF w.used = Len(bits.seq) THEN [w EXCEPT !.stop = TRUE]
                ELSE [w EXCEPT !.used = @ + 1, !.done = Append(@, c.id),
                               !.val = (bits.seq[w.used + 1] # c.neg)]
           [] c.op = "outside" -> [w EXCEPT !.val = bits.outside]
           [] c.op = "none" -> [w EXCEPT !.stop = TRUE, !.done = Append(@, "undefined")]
           [] c.op = "xor" -> LET x == Evaluate(c.a, bits, w) IN [x EXCEPT !.val = ~@]
           [] OTHER ->
                LET x == Evaluate(c.a, bits, w)
                    y == Evaluate(c.b, bits, x)
                IN  CASE c.op = "and_then" -> IF x.val THEN y ELSE x
                      [] c.op = "or_else" -> IF x.val THEN x ELSE y
                      [] c.op = "and" -> [y EXCEPT !.val = x.val /\ y.val]
                      [] c.op = "or" -> [y EXCEPT !.val = x.val \/ y.val]

ValueOf(v, env) == IF v > 0 THEN env[v] ELSE v

\* The values of the Phi nodes 1 to 3, and of the variables made for them.
Nothing == <<0, 0, 0>>

\* Block B of function F, entered from block PREV; MEM: the variables.
Entered(f, b, prev, env, mem) ==
    LET phis == f[b].phis
        In1(v) == {i \in DOMAIN phis : phis[i].var = v}
        val(v) == IF In1(v) # {} THEN ValueOf(phis[CHOOSE i \in In1(v) : TRUE].in[prev], env)
                  ELSE IF v \in Range(f[b].loads) THEN mem[v] ELSE env[v]
    IN  <<val(1), val(2), val(3)>>

\* What block S.B does, in state S, and where it leads to.
RunBlock(f, s, bits) ==
    LET env == Entered(f, s.b, s.prev, s.env, s.mem)
        stmts == f[s.b].stmts
        stores(v) == {i \in DOMAIN stmts : stmts[i].op = "store" /\ stmts[i].var = v}
        stored(v) == IF stores(v) = {} THEN s.mem[v]
                     ELSE ValueOf(stmts[CHOOSE i \in stores(v) : \A j \in stores(v) : j <= i].val, env)
        dos == SelectSeq(stmts, LAMBDA x : x.op = "do")
        did == [s EXCEPT !.prev = s.b, !.env = env, !.mem = <<stored(1), stored(2), stored(3)>>,
                         !.done = @ \o [i \in DOMAIN dos |-> <<dos[i].id, ValueOf(dos[i].val, env)>>]]
        t == f[s.b].term
        x == Evaluate(t.cond, bits, did)
    IN  CASE t.kind = "ret" -> [did EXCEPT !.stop = TRUE, !.done = Append(@, <<"ret", ValueOf(t.val, env)>>)]
          [] t.kind = "br" -> [did EXCEPT !.b = t.succ[1]]
          [] OTHER -> [x EXCEPT !.b = t.succ[IF x.val THEN 1 ELSE 2]]

RECURSIVE Run(_, _, _, _)
Run(f, s, bits, fuel) ==
    IF s.stop \/ fuel = 0 THEN s.done
    ELSE CHOOSE done \in {Run(f, n, bits, fuel - 1) : n \in {RunBlock(f, s, bits)}} : TRUE

Start == [b |-> 1, prev |-> 1, env |-> Nothing, mem |-> Nothing, done |-> <<>>, used |-> 0,
          val |-> FALSE, stop |-> FALSE]
Outcomes == {[seq |-> s, outside |-> s[Bits]] : s \in [1 .. Bits -> BOOLEAN]}
Meaning(f, bits) == Run(f, Start, bits, (Bits + 1) * 8)

(***************************************************************************)
(* Properties                                                              *)
(***************************************************************************)

\* Without its Phi nodes, and at the end, the function does what it did:
\* the same calls, in the same order and under the same conditions, with the
\* same result.  A call that a condition skips is not made.
MeaningKept ==
    pos = 1 /\ succ = 1 /\ pass \in {"jumps", "short_circuit", "swap", "done"} =>
        \A bits \in Outcomes : Meaning(code, bits) = Meaning(source, bits)

\* After Eliminate_Phis no block has a Phi node: C has none.
PhisEliminated ==
    pass \notin {"intrinsics", "phis", "loads"} =>
        \A b \in Blocks : code[b].phis = <<>>

\* Block B was a mere jump when Follow_Jumps started: it was one in the source,
\* but for debug intrinsics, and does not lead to Phi nodes.
WasJump(b) ==
    /\ b \in DOMAIN source /\ source[b].term.kind = "br" /\ source[b].phis = <<>>
    /\ \A i \in DOMAIN source[b].stmts : source[b].stmts[i].op = "debug"
    /\ source[source[b].term.succ[1]].phis = <<>>

RECURSIVE AfterJumps(_)
\* The blocks that N mere jumps, one after the other, led to.
AfterJumps(n) ==
    IF n = 0 THEN DOMAIN source
    ELSE {source[b].term.succ[1] : b \in {x \in AfterJumps(n - 1) : WasJump(x)}}

\* After Follow_Jumps a branch leads to a mere jump only if it is one to which
\* ten mere jumps led, in a long chain or in an infinite loop: Count is there
\* for the loops, but stops in chains as well.  A block that was rewritten
\* earlier in the same walk only makes a chain shorter.
JumpsFollowed ==
    pass \in {"sweep", "short_circuit", "swap", "done"} =>
        \A b \in Blocks : \A i \in DOMAIN code[b].term.succ :
            JustJump(Succ(b, i)) => Succ(b, i) \in AfterJumps(10)

\* The transformation comes to an end.
TransformEnds == <>(pass = "done")
=============================================================================
