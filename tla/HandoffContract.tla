-------------------------- MODULE HandoffContract --------------------------
(***************************************************************************)
(* What the unattended part of leasing promises about one application,     *)
(* with packages, sweeps, locks and messages left out: a request that is   *)
(* completed is delivered, a delivery starts the signing clock, and an     *)
(* application that ends takes its unfinished work with it.                *)
(***************************************************************************)

VARIABLES
    request,     \* the application's completion
    delivery,    \* getting the signing package to its signers
    clock,       \* the window in which it must be signed
    ended        \* the application is declined, withdrawn or expired

contract == <<request, delivery, clock, ended>>

Stages == {"none", "owed", "done", "called_off", "lapsed"}

CalledOff(stage) == IF stage = "owed" THEN "called_off" ELSE stage

Init ==
    /\ request = "none" /\ delivery = "none" /\ clock = "none"
    /\ ended = FALSE

\* The application arrives; one that lacks nothing is complete at once.
Arrive ==
    /\ request = "none" /\ ~ended
    /\ \/ request' = "owed" /\ delivery' = delivery
       \/ request' = "done" /\ delivery' = "owed"
    /\ UNCHANGED <<clock, ended>>

Complete ==
    /\ request = "owed" /\ ~ended
    /\ request' = "done" /\ delivery' = "owed"
    /\ UNCHANGED <<clock, ended>>

\* Delivered, or found never to be needed; with signatures outstanding the
\* clock starts in the same step.
Deliver ==
    /\ delivery = "owed" /\ ~ended
    /\ delivery' = "done"
    /\ clock' \in {clock, "owed"} /\ (clock # "none" => clock' = clock)
    /\ UNCHANGED <<request, ended>>

\* Every signature the clock waited for is in.
Sign ==
    /\ clock = "owed" /\ clock' = "done"
    /\ UNCHANGED <<request, delivery, ended>>

\* The application ends by decision.  A clock that starts meanwhile may be
\* missed and is left to run out.
End ==
    /\ ended' = TRUE
    /\ request' = CalledOff(request) /\ delivery' = CalledOff(delivery)
    /\ clock' \in {clock, CalledOff(clock)}

\* A window ends with work undone: the application ends with it.
LapseRequest ==
    /\ request = "owed" /\ request' = "lapsed" /\ ended' = TRUE
    /\ delivery' = CalledOff(delivery) /\ clock' = CalledOff(clock)

LapseClock ==
    /\ clock = "owed" /\ clock' = "lapsed" /\ ended' = TRUE
    /\ request' = CalledOff(request) /\ delivery' = CalledOff(delivery)

Next == Arrive \/ Complete \/ Deliver \/ Sign \/ End \/ LapseRequest \/ LapseClock

Spec == Init /\ [][Next]_contract

-----------------------------------------------------------------------------
\* Delivery is owed from completion on and never without it, the clock runs
\* only after delivery, and an ended application owes neither.
Promise ==
    /\ request \in Stages /\ delivery \in Stages /\ clock \in Stages
    /\ delivery # "none" <=> request = "done"
    /\ clock # "none" => delivery = "done"
    /\ ended => request # "owed" /\ delivery # "owed"
=============================================================================
