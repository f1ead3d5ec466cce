----------------------------- MODULE ValueInfo -----------------------------
(***************************************************************************)
(* What CCG promises about the facts that the front end tells it of LLVM   *)
(* values: a fact is about one value, lasts as long as the value, and is   *)
(* never taken for a fact about another value.  Values are numbered in the *)
(* order of their creation; nothing is said of memory or notifications.    *)
(***************************************************************************)
EXTENDS Integers, Sequences

CONSTANTS
    Entities,   \* what a value can stand for
    AType,      \* the one of them that is a type
    NoEntity    \* nothing is known

VARIABLES
    made,      \* the number of values created so far
    alive,     \* the values that exist
    known,     \* value -> the entity that it stands for
    nest,      \* the values known to need a static chain
    refers,    \* entry of the source order -> the value it is about, or 0
    open       \* TRUE as long as the front end tells

vars == <<made, alive, known, nest, refers, open>>

Init ==
    /\ made = 0 /\ alive = {} /\ known = <<>> /\ nest = {} /\ refers = <<>>
    /\ open = TRUE

\* The entries in J, about nothing so far, are about V.
Bound(J, v) == [j \in DOMAIN refers |-> IF j \in J THEN v ELSE refers[j]]
Unbound == {j \in DOMAIN refers : refers[j] = 0}

\* A value is created, and the front end may say at once what it is.
Make ==
    /\ made' = made + 1
    /\ alive' = alive \cup {made + 1}
    /\ \E e \in Entities \cup {NoEntity} : known' = Append(known, e) /\ (e # NoEntity => open)
    /\ \/ UNCHANGED refers
       \/ open /\ \E J \in SUBSET Unbound : refers' = Bound(J, made + 1)
    /\ UNCHANGED <<nest, open>>

\* The front end says what value V is: an entity replaces a type, no entity
\* replaces another.
Learn(v) ==
    /\ open
    /\ \/ UNCHANGED known
       \/ \E e \in Entities : /\ known[v] = NoEntity \/ (known[v] = AType /\ e # AType)
                              /\ known' = [known EXCEPT ![v] = e]
    /\ \E J \in SUBSET Unbound : refers' = Bound(J, v)
    /\ nest' \in {nest, nest \cup {v}}
    /\ UNCHANGED <<made, alive, open>>

\* An entry is added to the source order.
AddEntry ==
    /\ open
    /\ \E v \in alive \cup {0} : refers' = Append(refers, v)
    /\ UNCHANGED <<made, alive, known, nest, open>>

Close ==
    /\ open' = FALSE
    /\ UNCHANGED <<made, alive, known, nest, refers>>

\* A value is deleted: nothing is known of it, and no entry is about it.
Delete(v) ==
    /\ alive' = alive \ {v}
    /\ known' = [known EXCEPT ![v] = NoEntity]
    /\ nest' = nest \ {v}
    /\ refers' = [j \in DOMAIN refers |-> IF refers[j] = v THEN 0 ELSE refers[j]]
    /\ UNCHANGED <<made, open>>

Next == Make \/ AddEntry \/ Close \/ \E v \in alive : Learn(v) \/ Delete(v)

Spec == Init /\ [][Next]_vars
=============================================================================
