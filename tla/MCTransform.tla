---------------------------- MODULE MCTransform ----------------------------
(***************************************************************************)
(* Functions for Transform: all small ones of some shapes.                 *)
(***************************************************************************)
EXTENDS Transform

Cmp(id) == Leaf("cmp", id)
Call(id) == Leaf("call", id)
Outside == Leaf("outside", "p")

Conds(id) == {Call(id), Cmp(id), Not(Cmp(id))}
Bodies == {<<>>, <<Do("a", 0)>>}
Tests(id, targets) ==
    {Block(<<>>, s, CondBr(c, p[1], p[2])) : s \in Bodies, c \in Conds(id), p \in targets}
Jumps == {Block(<<>>, s, Br(d)) : s \in {<<>>, <<Debug>>}, d \in 2 .. 4}

\* Function F with Phi nodes that have one value for each predecessor.
Edges(f, b) == {p \in DOMAIN f : b \in Range(f[p].term.succ)}
Pruned(f) ==
    [b \in DOMAIN f |-> [f[b] EXCEPT !.phis = [i \in DOMAIN @ |->
        Phi(@[i].var, [p \in Edges(f, b) |-> @[i].in[p]])]]]

\* Three tests, or jumps, in any arrangement.
Tangles ==
    {<<Block(<<>>, <<>>, CondBr(Cmp("c1"), p[1], p[2])), b2, b3, Block(<<>>, <<Do("z", 0)>>, Ret(0))>> :
        p \in {<<2, 3>>, <<3, 4>>, <<2, 4>>, <<4, 2>>},
        b2 \in Tests("c2", {<<2, 3>>, <<3, 2>>, <<3, 4>>, <<4, 3>>, <<2, 4>>, <<3, 3>>}) \cup Jumps,
        b3 \in Tests("c3", {<<2, 3>>, <<3, 2>>, <<2, 4>>, <<4, 2>>, <<3, 4>>}) \cup Jumps}

\* Phi nodes where three edges meet, used in a statement, by a return, or by
\* a Phi node that is used by a return.
Joins ==
    {<<Block(<<>>, <<>>, IF sw THEN Switch(Cmp("c1"), p[1], p[2]) ELSE CondBr(Cmp("c1"), p[1], p[2])),
       Block(<<>>, s, CondBr(Cmp("c2"), q[1], q[2])),
       Block(<<>>, <<Do("b", 0)>>, Br(4)),
       Block(<<Phi(1, (1 :> -1) @@ (2 :> -2) @@ (3 :> -3))>>, IF last = "do" THEN <<Do("z", 1)>> ELSE <<>>,
             IF last = "ret" THEN Ret(1) ELSE IF last = "do" THEN Ret(0) ELSE Br(5)),
       Block(<<Phi(2, (4 :> 1) @@ (3 :> -5))>>, <<>>, Ret(2))>> :
        sw \in BOOLEAN, p \in {<<2, 4>>, <<4, 2>>, <<2, 3>>, <<4, 4>>}, s \in Bodies,
        q \in {<<3, 4>>, <<4, 3>>, <<4, 4>>}, last \in {"do", "ret", "phi"}}

\* A loop that exchanges two values, and leaves with either.
Loops ==
    {<<Block(<<>>, <<>>, Br(2)),
       Block(<<Phi(1, (1 :> -1) @@ (3 :> 2)), Phi(2, (1 :> -2) @@ (3 :> 1))>>, s, CondBr(c, p[1], p[2])),
       Block(<<>>, <<Do("b", 2)>>, Br(2)),
       Block(<<>>, <<>>, Ret(1))>> :
        s \in {<<>>, <<Do("a", 1)>>}, c \in {Cmp("c1"), Node("and", Cmp("c1"), Cmp("c2"))},
        p \in {<<3, 4>>, <<4, 3>>}}

\* A test whose first, or second, branch leads to block D and the other one to E.
Test(first, d, e) == Block(<<>>, <<>>, CondBr(Cmp("c1"), IF first THEN d ELSE e, IF first THEN e ELSE d))

\* A test that leads to N mere jumps, one after the other, and to their end.  The
\* jumps are to the next block or to the one before: Follow_Jumps then meets
\* them before, or after, the jumps that they lead to.
Chain(n, forward, debug, first) ==
    [b \in 1 .. (n + 2) |->
        IF b = 1 THEN Test(first, IF forward THEN 2 ELSE n + 1, n + 2)
        ELSE IF b = n + 2 THEN Block(<<>>, <<Do("z", 0)>>, Ret(0))
        ELSE Block(<<>>, IF debug THEN <<Debug>> ELSE <<>>,
                   Br(IF forward THEN b + 1 ELSE IF b = 2 THEN n + 2 ELSE b - 1))]
Chains ==
    {Chain(n, forward, debug, first) :
        n \in {9, 10, 11, 12, 21}, forward \in BOOLEAN, debug \in BOOLEAN, first \in BOOLEAN}

\* Conditions computed elsewhere, for which MeaningKept does not hold: they are
\* not in MCFunctions, and the README tells of them.
Parameters ==
    {<<Block(<<>>, <<>>, CondBr(Cmp("c1"), p[1], p[2])),
       Block(<<>>, <<>>, CondBr(Outside, q[1], q[2])), Block(<<>>, <<Do("a", 0)>>, Ret(-1)),
       Block(<<>>, <<>>, Ret(-2))>> : p \in {<<2, 3>>, <<3, 2>>, <<2, 4>>}, q \in {<<3, 4>>, <<4, 3>>}}

MCFunctions == Tangles \cup Chains \cup {Pruned(f) : f \in Joins \cup Loops}
=============================================================================
