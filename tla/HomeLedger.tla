------------------------------ MODULE HomeLedger ------------------------------
(***************************************************************************)
(* What the writers of a property's leases promise one another, with       *)
(* applications, executed records, rent-roll rows and locks left out:      *)
(* asking whether a home is free and letting it are one act.  Two doors    *)
(* ask nothing: an import lets a home as it stands, and a decision brings  *)
(* a void letting back.                                                    *)
(***************************************************************************)
EXTENDS Integers

CONSTANTS Home, NoHome, Terms, Leases

VARIABLE letting     \* what each lease is to somebody who asks about a home

Unused == [state |-> "unused", home |-> NoHome, term |-> {}, asked |-> FALSE, revived |-> FALSE]

InForce(l) == letting[l].state = "let"

\* Leases are made one after another.
NextUnused(l) ==
    letting[l].state = "unused" /\ \A k \in Leases : k < l => letting[k].state # "unused"

Against(h, term) ==
    {k \in Leases : InForce(k) /\ letting[k].home = h /\ letting[k].term \cap term # {}}

Init == letting = [l \in Leases |-> Unused]

NewLetting(l, h, term, asked) ==
    letting' = [letting EXCEPT ![l] =
        [state |-> "let", home |-> h, term |-> term, asked |-> asked, revived |-> FALSE]]

\* Nothing stands against the letting but what was brought back unasked.
Let(l, h, term) ==
    /\ \A k \in Against(h, term) : letting[k].revived
    /\ NewLetting(l, h, term, TRUE)

Import(l, h, term) == NewLetting(l, h, term, FALSE)

Void(l) == InForce(l) /\ letting' = [letting EXCEPT ![l].state = "void"]

BringBack(l) ==
    /\ letting[l].state = "void"
    /\ letting' = [letting EXCEPT ![l].state = "let", ![l].revived = TRUE]

Next ==
    \E l \in Leases :
        \/ /\ NextUnused(l)
           /\ \E h \in Home, term \in Terms : Let(l, h, term) \/ Import(l, h, term)
        \/ Void(l) \/ BringBack(l)

Spec == Init /\ [][Next]_letting

-----------------------------------------------------------------------------
\* Of two leases in force for one home and day the later one was imported, or
\* one of them was brought back.
OneLetting ==
    \A k, l \in Leases :
        k < l /\ InForce(k) /\ InForce(l) /\ letting[k].home = letting[l].home
              /\ letting[k].term \cap letting[l].term # {}
            => ~letting[l].asked \/ letting[k].revived \/ letting[l].revived
=============================================================================
