----------------------------- MODULE LinkContract -----------------------------
(***************************************************************************)
(* What the application links of a conversation promise whoever follows a  *)
(* tour up, with obligations, dispatch records, corrections and requests   *)
(* left out: one link at a time; a link given up was never texted and      *)
(* never will be; a follow-up has one recorded send.                       *)
(***************************************************************************)
CONSTANTS Link, FollowUp, Nothing

VARIABLES
    link,       \* where each link stands, and the follow-up it is for
    texted      \* links whose text went out

view == <<link, texted>>

Unused == [fate |-> "unused", of |-> Nothing]
Answers(i) == link[i].fate \in {"sent", "used", "withdrawn"}
Current(i) == link[i].fate \in {"waiting", "sent"}

Init == link = [i \in Link |-> Unused] /\ texted = {}

Turn(i, from, to) ==
    /\ link[i].fate = from
    /\ link' = [link EXCEPT ![i].fate = to]
    /\ UNCHANGED texted

Issue(i, p) ==
    /\ link[i].fate = "unused" /\ \A j \in Link : ~Current(j)
    /\ link' = [link EXCEPT ![i] = [fate |-> "waiting", of |-> p]]
    /\ UNCHANGED texted

\* A lost link is given up for another one that answers the same follow-up.
Replace(i, j) ==
    /\ link[i].fate = "waiting" /\ i \notin texted /\ link[j].fate = "unused"
    /\ link' = [link EXCEPT ![i].fate = "given_up",
                            ![j] = [fate |-> "waiting", of |-> link[i].of]]
    /\ UNCHANGED texted

\* The text goes out at any time after the link was issued, even once somebody
\* else recorded it as sent, but not after it was given up or refused.
Text(i) ==
    /\ link[i].fate \notin {"unused", "given_up", "refused"}
    /\ texted' = texted \union {i} /\ UNCHANGED link

Record(i) ==
    /\ \A j \in Link : Answers(j) => link[j].of # link[i].of
    /\ Turn(i, "waiting", "sent")

GiveUp(i) == i \notin texted /\ Turn(i, "waiting", "given_up")
Refuse(i) == Turn(i, "waiting", "refused")
Withdraw(i) == Turn(i, "sent", "withdrawn")
Use(i) == Turn(i, "sent", "used")

Next ==
    \/ UNCHANGED view        \* what most requests do to a link
    \/ \E i \in Link :
        \/ \E p \in FollowUp : Issue(i, p)
        \/ \E j \in Link : Replace(i, j)
        \/ Text(i) \/ Record(i) \/ GiveUp(i) \/ Refuse(i) \/ Withdraw(i) \/ Use(i)

Spec == Init /\ [][Next]_view

-----------------------------------------------------------------------------
\* One link at a time, one recorded send per follow-up, and no link given up that
\* was texted.
Promise ==
    /\ \A i, j \in Link : Current(i) /\ Current(j) => i = j
    /\ \A i, j \in Link : Answers(i) /\ Answers(j) /\ link[i].of = link[j].of => i = j
    /\ \A i \in Link : link[i].fate = "given_up" => i \notin texted
=============================================================================
