----------------------------- MODULE TourBooking -----------------------------
(***************************************************************************)
(* Tours of one property: times published, blocked and booked              *)
(* (leasing/tour_availability_service.js), tours booked into them by the   *)
(* agent, by staff and by public links, moved, called off and captured     *)
(* (leasing/leasing_leads.js, identity/operator.js).                       *)
(*                                                                         *)
(* Bookings lock the row of the time they take; a staff booking locks the  *)
(* lead too; a public booking locks its link first.  The routes that end,  *)
(* move or capture a tour read it without a lock and write afterwards, so  *)
(* they are two steps: what was read is in the task, what is written does  *)
(* not look again.  What a request names besides that (the new time, the   *)
(* requested tour) is validated by the second step alone and chosen there. *)
(* Refusals that write nothing (a lost lead, a closed conversation) are    *)
(* Abort, or no step.                                                      *)
(***************************************************************************)
CONSTANTS
    Slot,       \* tour_availability rows
    Tour,       \* leasing_tours rows: bounds the tours ever created
    Lead,       \* leasing_leads
    Link,       \* tour_booking_links: bounds the links minted
    Clerk,      \* requests in progress
    None

ASSUME TourConstants == None \notin Slot /\ None \notin Tour /\ None \notin Lead /\ None \notin Link

VARIABLES
    slot,       \* status and booked_tour_id of each time
    past,       \* times that are over
    tour,       \* each tour: slot is the time it holds, at the time it is for (the two
                \* columns slot_id and scheduled_for), key the time confirmed by
                \* the message that booked it
    link,       \* status and lead of each public booking link
    task        \* what each request read

vars == <<slot, past, tour, link, task>>

-----------------------------------------------------------------------------
\* "settled" is completed, no_show, cancelled or rescheduled: no guard tells them apart.
Live == {"scheduled", "confirmed_by_prospect", "checked_in"}

Unborn == [status |-> "none", lead |-> None, slot |-> None, at |-> None,
           key |-> None, walkin |-> FALSE]
Key(s, keyed) == IF keyed THEN s ELSE None
ScheduledAs038(l, s, keyed) == [Unborn EXCEPT !.status = "confirmed", !.lead = l,     \* mutant
                                              !.slot = s, !.at = s, !.key = Key(s, keyed)]
Scheduled(l, s, keyed) == [Unborn EXCEPT !.status = "scheduled", !.lead = l,
                                         !.slot = s, !.at = s, !.key = Key(s, keyed)]
Idle == [op |-> "none", lead |-> None, tour |-> None, slot |-> None, link |-> None,
         keyed |-> FALSE]

\* A public booking holds the row of its time and of its link to its end.
Held(s) == \E w \in Clerk : task[w].op = "link" /\ task[w].slot = s
LinkHeld(k) == \E w \in Clerk : task[w].op = "link" /\ task[w].link = k

\* The unique index leasing_tours_one_slot: one tour names a time, whatever its
\* status.
Unnamed(s) == \A t \in Tour : tour[t].slot # s
Takeable(s) == slot[s].status = "open" /\ ~Held(s) /\ s \notin past
Prior(l, s) == {t \in Tour : tour[t].lead = l /\ tour[t].key = s}

Booked(t) == [status |-> "booked", tour |-> t]
Open == [status |-> "open", tour |-> None]
Blocked == [status |-> "blocked", tour |-> None]

\* recordTourEvent: the event and the status with it, whatever the status was.
Record(t, status) == tour' = [tour EXCEPT ![t].status = status]

\* The last writes of bookTourIntoSlot: a new tour, or a requested one promoted.
BookInto(t, l, s, keyed) ==
    /\ slot' = [slot EXCEPT ![s] = Booked(t)]
    /\ tour' = [tour EXCEPT ![t] = Scheduled(l, s, keyed)]

Init ==
    /\ slot = [s \in Slot |-> [status |-> "absent", tour |-> None]] /\ past = {}
    /\ tour = [t \in Tour |-> Unborn]
    /\ link = [k \in Link |-> [status |-> "none", lead |-> None]]
    /\ task = [w \in Clerk |-> Idle]

-----------------------------------------------------------------------------
(* The times. *)

\* publishSlot, publishSchedulePolicy; changeSlotStatus.
Publish(s) ==
    /\ slot[s].status = "absent"
    /\ slot' = [slot EXCEPT ![s] = Open]
    /\ UNCHANGED <<past, tour, link, task>>

Block(s) ==
    /\ slot[s].status = "open" /\ ~Held(s)
    /\ slot' = [slot EXCEPT ![s] = Blocked]
    /\ UNCHANGED <<past, tour, link, task>>

Reopen(s) ==
    /\ slot[s].status = "blocked"
    /\ slot' = [slot EXCEPT ![s] = Open]
    /\ UNCHANGED <<past, tour, link, task>>

\* adjustDay, close_open: every open time of the day (here: all), none booked.
CloseDay ==
    /\ \E s \in Slot : slot[s].status = "open"
    /\ \A s \in Slot : slot[s].status = "open" => ~Held(s)
    /\ slot' = [s \in Slot |-> IF slot[s].status = "open" THEN Blocked ELSE slot[s]]
    /\ UNCHANGED <<past, tour, link, task>>

PassTime(s) ==
    /\ slot[s].status # "absent" /\ s \notin past /\ past' = past \union {s}
    /\ UNCHANGED <<slot, tour, link, task>>

(* Links and requested tours. *)

Mint(k, l) ==
    /\ link[k].status = "none"
    /\ link' = [link EXCEPT ![k] = [status |-> "issued", lead |-> l]]
    /\ UNCHANGED <<slot, past, tour, task>>

ExpireLink(k) ==
    /\ link[k].status = "issued" /\ ~LinkHeld(k)
    /\ link' = [link EXCEPT ![k].status = "expired"]
    /\ UNCHANGED <<slot, past, tour, task>>

Request(t, l) ==
    /\ tour[t].status = "none"
    /\ tour' = [tour EXCEPT ![t].status = "requested", ![t].lead = l]
    /\ UNCHANGED <<slot, past, link, task>>

(* bookTourIntoSlot for the agent's message (keyed) and the operator-key door. *)

\* The key is looked up before the time is locked.
BeginBook(w, l, s, keyed) ==
    /\ task[w].op = "none" /\ slot[s].status # "absent"
    /\ keyed => Prior(l, s) = {}
    /\ task' = [task EXCEPT ![w] = [Idle EXCEPT !.op = "book", !.lead = l, !.slot = s,
                                                !.keyed = keyed]]
    /\ UNCHANGED <<slot, past, tour, link>>

\* The insert, or the promotion of the requested tour named; either index refuses.
Book(w, t) ==
    LET q == task[w] IN
    /\ q.op = "book" /\ Takeable(q.slot) /\ Unnamed(q.slot)
    /\ q.keyed => Prior(q.lead, q.slot) = {}
    /\ \/ tour[t].status = "none"
       \/ tour[t].status = "requested" /\ tour[t].lead = q.lead /\ tour[t].slot = None
    /\ BookInto(t, q.lead, q.slot, q.keyed)
    /\ task' = [task EXCEPT ![w] = Idle]
    /\ UNCHANGED <<past, link>>

\* "That time was just taken."  A request that named the tour the time is booked
\* for (only the operator-key door names one) is told so instead; both write nothing.
Taken(w) ==
    /\ task[w].op = "book" /\ slot[task[w].slot].status # "open" /\ ~Held(task[w].slot)
    /\ task' = [task EXCEPT ![w] = Idle]
    /\ UNCHANGED <<slot, past, tour, link>>

\* The session door: the lead is locked, so nothing is booked for it meanwhile.
\* 'confirmed' is not a status a tour can have (migration 039).
Upcoming == {"scheduled", "confirmed", "checked_in"}
StaffBook(l, s, t) ==
    /\ Takeable(s) /\ Unnamed(s) /\ tour[t].status = "none"
    /\ ~\E u \in Tour : /\ tour[u].lead = l /\ tour[u].status \in Upcoming
                        /\ tour[u].at # None /\ tour[u].at \notin past
    /\ BookInto(t, l, s, FALSE)
    /\ UNCHANGED <<past, link, task>>

(* /demo/book: the public link. *)

BeginLink(w, k, s) ==
    /\ task[w].op = "none" /\ link[k].status = "issued" /\ ~LinkHeld(k)
    /\ slot[s].status = "open" /\ ~Held(s)
    /\ ~\E t \in Tour : tour[t].lead = link[k].lead /\ tour[t].status \in Live
    /\ task' = [task EXCEPT ![w] = [Idle EXCEPT !.op = "link", !.link = k, !.slot = s]]
    /\ UNCHANGED <<slot, past, tour, link>>

\* The conversation has a live tour already: the link converges on it.
Converge(k) ==
    /\ link[k].status = "issued" /\ ~LinkHeld(k)
    /\ \E s \in Slot : slot[s].status = "open" /\ ~Held(s)
    /\ \E t \in Tour : tour[t].lead = link[k].lead /\ tour[t].status \in Live
    /\ link' = [link EXCEPT ![k].status = "consumed"]
    /\ UNCHANGED <<slot, past, tour, task>>

\* Consumes the link and revokes its issued siblings, whose rows it needs: two
\* bookings of one conversation wait for each other and one is aborted.
BookLink(w, t) ==
    LET k == task[w].link
        s == task[w].slot
        siblings == {j \in Link \ {k} : link[j].lead = link[k].lead /\ link[j].status = "issued"}
    IN
    /\ task[w].op = "link" /\ s \notin past /\ Unnamed(s) /\ tour[t].status = "none"
    /\ \A j \in siblings : ~LinkHeld(j)
    /\ BookInto(t, link[k].lead, s, FALSE)
    /\ link' = [j \in Link |-> IF j = k THEN [link[j] EXCEPT !.status = "consumed"]
                               ELSE IF j \in siblings THEN [link[j] EXCEPT !.status = "revoked"]
                               ELSE link[j]]
    /\ task' = [task EXCEPT ![w] = Idle]
    /\ UNCHANGED past

(* Ending, moving and capturing a tour. *)

\* What cancel and reschedule read before they write: they do not look at the status.
BeginRelease(w, t) ==
    /\ task[w].op = "none" /\ tour[t].status # "none"
    /\ task' = [task EXCEPT ![w] = [Idle EXCEPT !.op = "release", !.tour = t, !.slot = tour[t].slot]]
    /\ UNCHANGED <<slot, past, tour, link>>

\* The time that was read is opened, whoever has it by now.
KeptTime(q) == slot                                                  \* mutant
Freed(q) == IF q.slot = None THEN slot ELSE [slot EXCEPT ![q.slot] = Open]
ReleasedQuietly(q) ==                                                \* mutant
    [tour EXCEPT ![q.tour].slot = IF q.slot = None THEN @ ELSE None]
Released(q) == [tour EXCEPT ![q.tour].status = "settled",
                            ![q.tour].slot = IF q.slot = None THEN @ ELSE None]

Cancel(w) ==
    /\ task[w].op = "release" /\ ~Held(task[w].slot)
    /\ slot' = Freed(task[w]) /\ tour' = Released(task[w])
    /\ task' = [task EXCEPT ![w] = Idle]
    /\ UNCHANGED <<past, link>>

\* The old tour ends, a new one is booked onto the new time.
Reschedule(w, to, t) ==
    LET q == task[w] IN
    /\ q.op = "release" /\ slot[to].status = "open" /\ ~Held(to) /\ ~Held(q.slot)
    /\ tour[t].status = "none" /\ \A u \in Tour : Released(q)[u].slot # to
    /\ slot' = [Freed(q) EXCEPT ![to] = Booked(t)]
    /\ tour' = [Released(q) EXCEPT ![t] = Scheduled(tour[q.tour].lead, to, FALSE)]
    /\ task' = [task EXCEPT ![w] = Idle]
    /\ UNCHANGED <<past, link>>

\* completeTourService looks at the status, and records the outcome later.
BeginComplete(w, t) ==
    /\ task[w].op = "none" /\ tour[t].status \notin {"none", "settled"}
    /\ task' = [task EXCEPT ![w] = [Idle EXCEPT !.op = "complete", !.tour = t]]
    /\ UNCHANGED <<slot, past, tour, link>>

Complete(w) ==
    /\ task[w].op = "complete" /\ Record(task[w].tour, "settled")
    /\ task' = [task EXCEPT ![w] = Idle]
    /\ UNCHANGED <<slot, past, link>>

\* confirm-prospect, check-in, no-show: the status is not looked at.
Mark(t, status) ==
    /\ tour[t].status # "none" /\ Record(t, status)
    /\ status = "confirmed_by_prospect" => tour[t].at # None
    /\ UNCHANGED <<slot, past, link, task>>

\* The legacy confirm route: a typed time, whatever the tour's status, no slot asked.
\* A time nobody published is one whose slot is absent.
ConfirmTyped(t, s) ==
    /\ tour[t].status # "none"
    /\ tour' = [tour EXCEPT ![t].status = "confirmed_by_prospect", ![t].at = s]
    /\ UNCHANGED <<slot, past, link, task>>

\* The walk-in door looks for an open walk-in of the lead, then inserts one.
BeginWalkIn(w, l) ==
    /\ task[w].op = "none"
    /\ ~\E t \in Tour : tour[t].lead = l /\ tour[t].walkin /\ tour[t].status # "settled"
    /\ task' = [task EXCEPT ![w] = [Idle EXCEPT !.op = "walkin", !.lead = l]]
    /\ UNCHANGED <<slot, past, tour, link>>

WalkIn(w, t, captured) ==
    /\ task[w].op = "walkin" /\ tour[t].status = "none"
    /\ tour' = [tour EXCEPT ![t] =
                  [Unborn EXCEPT !.status = IF captured THEN "settled" ELSE "scheduled",
                                 !.lead = task[w].lead, !.walkin = TRUE]]
    /\ task' = [task EXCEPT ![w] = Idle]
    /\ UNCHANGED <<slot, past, link>>

\* A refusal after the first step, a deadlock, a lost connection.
Abort(w) ==
    /\ task[w].op # "none" /\ task' = [task EXCEPT ![w] = Idle]
    /\ UNCHANGED <<slot, past, tour, link>>

-----------------------------------------------------------------------------
SlotStep == CloseDay \/ \E s \in Slot : Publish(s) \/ Block(s) \/ Reopen(s) \/ PassTime(s)
LeadStep ==
    \/ \E l \in Lead : \/ \E k \in Link : Mint(k, l)
                       \/ \E t \in Tour : Request(t, l)
                       \/ \E s \in Slot, t \in Tour : StaffBook(l, s, t)
    \/ \E k \in Link : ExpireLink(k) \/ Converge(k)
    \/ \E t \in Tour, status \in {"confirmed_by_prospect", "checked_in", "settled"} :
          Mark(t, status)
    \/ \E t \in Tour, s \in Slot : ConfirmTyped(t, s)
ClerkStep(w) ==
    \/ \E l \in Lead, s \in Slot, keyed \in BOOLEAN : BeginBook(w, l, s, keyed)
    \/ \E k \in Link, s \in Slot : BeginLink(w, k, s)
    \/ \E t \in Tour : BeginRelease(w, t) \/ BeginComplete(w, t)
    \/ \E l \in Lead : BeginWalkIn(w, l)
    \/ \E t \in Tour : Book(w, t) \/ BookLink(w, t) \/ \E to \in Slot : Reschedule(w, to, t)
    \/ \E t \in Tour, captured \in BOOLEAN : WalkIn(w, t, captured)
    \/ Taken(w) \/ Cancel(w) \/ Complete(w) \/ Abort(w)

Next == SlotStep \/ LeadStep \/ \E w \in Clerk : ClerkStep(w)
Spec == Init /\ [][Next]_vars
=============================================================================
