------------------------ MODULE TourBookingProperties ------------------------
(* What the booking of tours promises (TourBooking). *)
EXTENDS TourBooking

\* Every field has the values the CHECK constraints allow.
SlotType == [status : {"absent", "open", "booked", "blocked"}, tour : Tour \union {None}]
TourType == [status : Live \union {"none", "requested", "settled"}, lead : Lead \union {None},
             slot : Slot \union {None}, at : Slot \union {None}, key : Slot \union {None}, walkin : BOOLEAN]
LinkType == [status : {"none", "issued", "consumed", "expired", "revoked"}, lead : Lead \union {None}]
TaskType == [op : {"none", "book", "link", "release", "complete", "walkin"},
             lead : Lead \union {None}, tour : Tour \union {None}, slot : Slot \union {None},
             link : Link \union {None}, keyed : BOOLEAN]
TypeOK ==
    /\ slot \in [Slot -> SlotType] /\ past \subseteq Slot
    /\ tour \in [Tour -> TourType] /\ link \in [Link -> LinkType]
    /\ task \in [Clerk -> TaskType]

\* A booked time and the tour it names agree, whatever stale request opened,
\* moved or called off in between (migration 039, the double-booking wall).
BookedNamesItsTour ==
    \A s \in Slot : IF slot[s].status = "booked" THEN /\ slot[s].tour # None
                                                      /\ tour[slot[s].tour].slot = s
                    ELSE slot[s].tour = None

\* Two tours never hold one time, although a cancellation that read a tour long ago
\* opens the time somebody else has since booked (leasing_leads.js:2908-2930).
OneTourPerSlot ==
    \A t, u \in Tour : t # u /\ tour[t].slot # None => tour[t].slot # tour[u].slot

\* A scheduled tour that is no walk-in has its time (migration 097: "a scheduled
\* tour missing one is a defect").
ScheduledHoldsTime ==
    \A t \in Tour : tour[t].status = "scheduled" /\ ~tour[t].walkin =>
        tour[t].slot # None /\ tour[t].slot = tour[t].at

\* A retried confirmation is not told the time was taken when it is its own
\* booking that took it (leasing_leads.js:1878-1881: a retry "converges on the SAME
\* tour"): fails when the retry looked its key up before the first one committed.
RetryConverges ==
    [][\A w \in Clerk : Taken(w) /\ task[w].keyed => Prior(task[w].lead, task[w].slot) = {}]_vars

\* The session door books no second upcoming tour for a lead
\* (identity/operator.js:1568): fails once the prospect confirmed the first.
StaffBooksOne ==
    [][\A l \in Lead, s \in Slot, t \in Tour : StaffBook(l, s, t) =>
          ~\E u \in Tour : tour[u].lead = l /\ tour[u].status \in Live
                           /\ tour[u].at # None /\ tour[u].at \notin past]_vars
=============================================================================
