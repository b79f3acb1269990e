-------------------------- MODULE TourBookingProofs --------------------------
(***************************************************************************)
(* Proofs about TourBooking.  A stale request can open a time another tour *)
(* holds; what keeps the books straight is that a tour which ever held a   *)
(* time never gets another one (StaleReads), so a request that read a time *)
(* finds its tour on that time or on none.                                 *)
(***************************************************************************)
EXTENDS TourBookingProperties, TLAPS

\* A tour that is not booked yet holds no time.
Unbooked == {"none", "requested"}
UnbookedHoldsNone == \A t \in Tour : tour[t].status \in Unbooked => tour[t].slot = None

\* What a request read is still there, except that its tour may have lost its time.
StaleReads ==
    \A w \in Clerk :
        /\ task[w].op \in {"release", "complete"} =>
              task[w].tour \in Tour /\ tour[task[w].tour].status # "none"
        /\ task[w].op = "release" /\ task[w].slot # None =>
              /\ tour[task[w].tour].status \notin Unbooked
              /\ tour[task[w].tour].slot \in {None, task[w].slot}
        /\ task[w].op \in {"book", "link"} => task[w].slot \in Slot
        /\ task[w].op = "link" => task[w].link \in Link

TourInv == TypeOK /\ UnbookedHoldsNone /\ StaleReads
           /\ BookedNamesItsTour /\ OneTourPerSlot /\ ScheduledHoldsTime
TimesKept == BookedNamesItsTour /\ OneTourPerSlot /\ ScheduledHoldsTime /\ UnbookedHoldsNone

-----------------------------------------------------------------------------
\* Records of the module have their types.
LEMMA Shapes ==
    ASSUME NEW l \in Lead \union {None}, NEW s \in Slot, NEW t \in Tour, NEW keyed \in BOOLEAN
    PROVE  /\ Scheduled(l, s, keyed) \in TourType
           /\ Scheduled(l, s, keyed).slot = s /\ Scheduled(l, s, keyed).at = s
           /\ Scheduled(l, s, keyed).status = "scheduled"
           /\ Booked(t) \in SlotType /\ Booked(t).status = "booked" /\ Booked(t).tour = t
  BY DEF Scheduled, Key, Unborn, TourType, Booked, SlotType, Live

LEMMA SmallShapes ==
    /\ Open \in SlotType /\ Open.status = "open" /\ Open.tour = None
    /\ Blocked \in SlotType /\ Blocked.status = "blocked" /\ Blocked.tour = None
    /\ Idle \in TaskType /\ Idle.op = "none" /\ Unborn \in TourType
  BY DEF Open, Blocked, Idle, Unborn, SlotType, TaskType, TourType

\* Tours only get older: none is unmade, and one that was booked takes no new time.
LEMMA TasksKept ==
    ASSUME TypeOK, StaleReads,
           \A u \in Tour : /\ tour[u].status # "none" => tour'[u].status # "none"
                           /\ tour[u].status \notin Unbooked =>
                                 /\ tour'[u].status \notin Unbooked
                                 /\ tour'[u].slot \in {None, tour[u].slot},
           \A w \in Clerk : task'[w] = task[w] \/ task'[w].op = "none"
    PROVE  StaleReads'
  <1> SUFFICES ASSUME NEW w \in Clerk, task'[w] = task[w]
               PROVE  /\ task[w].op \in {"release", "complete"} =>
                            task[w].tour \in Tour /\ tour'[task[w].tour].status # "none"
                      /\ task[w].op = "release" /\ task[w].slot # None =>
                            /\ tour'[task[w].tour].status \notin Unbooked
                            /\ tour'[task[w].tour].slot \in {None, task[w].slot}
                      /\ task[w].op \in {"book", "link"} => task[w].slot \in Slot
                      /\ task[w].op = "link" => task[w].link \in Link
    BY DEF StaleReads
  <1>1. CASE task[w].op \in {"release", "complete"}
    <2> DEFINE u == task[w].tour
    <2>1. u \in Tour /\ tour[u].status # "none"
      BY <1>1 DEF StaleReads
    <2>2. QED BY <1>1, <2>1 DEF StaleReads
  <1>2. CASE task[w].op \notin {"release", "complete"}
    BY <1>2 DEF StaleReads
  <1>3. QED BY <1>1, <1>2

\* Booking an unbooked tour into a time no tour names.
LEMMA BookIntoKeeps ==
    ASSUME TypeOK, TimesKept, NEW t \in Tour, NEW l \in Lead \union {None}, NEW s \in Slot,
           NEW keyed \in BOOLEAN, tour[t].status \in Unbooked, Unnamed(s), BookInto(t, l, s, keyed)
    PROVE  /\ slot' \in [Slot -> SlotType] /\ tour' \in [Tour -> TourType] /\ TimesKept'
           /\ \A u \in Tour \ {t} : tour'[u] = tour[u]
           /\ tour'[t].status = "scheduled"
  <1>1. /\ Scheduled(l, s, keyed) \in TourType /\ Booked(t) \in SlotType
        /\ slot' = [slot EXCEPT ![s] = Booked(t)] /\ tour' = [tour EXCEPT ![t] = Scheduled(l, s, keyed)]
        /\ slot \in [Slot -> SlotType] /\ tour \in [Tour -> TourType]
    BY Shapes DEF BookInto, TypeOK
  <1>2. /\ slot' \in [Slot -> SlotType] /\ tour' \in [Tour -> TourType]
        /\ \A u \in Tour \ {t} : tour'[u] = tour[u]
        /\ \A r \in Slot \ {s} : slot'[r] = slot[r]
        /\ slot'[s] = Booked(t) /\ tour'[t] = Scheduled(l, s, keyed)
    BY <1>1
  <1>3. /\ tour'[t].slot = s /\ tour'[t].at = s /\ tour'[t].status = "scheduled"
        /\ slot'[s].status = "booked" /\ slot'[s].tour = t
    BY <1>2, Shapes
  <1>4. tour[t].slot = None /\ t # None /\ s # None
    BY TourConstants DEF TimesKept, UnbookedHoldsNone
  <1>5. BookedNamesItsTour'
    <2> SUFFICES ASSUME NEW r \in Slot
                 PROVE  IF slot'[r].status = "booked"
                        THEN slot'[r].tour # None /\ tour'[slot'[r].tour].slot = r
                        ELSE slot'[r].tour = None
      BY DEF BookedNamesItsTour
    <2>1. CASE r = s
      BY <2>1, <1>3, <1>4
    <2>2. CASE r # s
      <3>1. slot'[r] = slot[r] /\ slot[r] \in SlotType
        BY <2>2, <1>1, <1>2
      <3>2. slot[r].tour \in Tour \union {None}
        BY <3>1 DEF SlotType
      <3>3. slot[r].status = "booked" => slot[r].tour # None /\ tour[slot[r].tour].slot = r
        BY DEF TimesKept, BookedNamesItsTour
      <3>4. slot[r].status = "booked" => slot[r].tour # t
        BY <3>3, <1>4, TourConstants
      <3>5. QED BY <3>1, <3>2, <3>3, <3>4, <1>2 DEF TimesKept, BookedNamesItsTour
    <2>3. QED BY <2>1, <2>2
  <1>6. OneTourPerSlot'
    <2>1. \A u \in Tour : tour[u].slot # s
      BY DEF Unnamed
    <2>2. \A u \in Tour \ {t} : tour'[u].slot = tour[u].slot
      BY <1>2
    <2>3. QED BY <2>1, <2>2, <1>3 DEF TimesKept, OneTourPerSlot
  <1>7. ScheduledHoldsTime'
    BY <1>2, <1>3, <1>4 DEF TimesKept, ScheduledHoldsTime
  <1>8. UnbookedHoldsNone'
    BY <1>2, <1>3 DEF TimesKept, UnbookedHoldsNone, Unbooked
  <1>9. QED BY <1>2, <1>3, <1>5, <1>6, <1>7, <1>8 DEF TimesKept

\* What a cancellation or a move that read a time leaves of its tour and its time.
LEMMA ReleaseKeeps ==
    ASSUME TypeOK, TimesKept, StaleReads, NEW w \in Clerk, task[w].op = "release"
    PROVE  LET q == task[w]
               freed == Freed(q)
               left == Released(q) IN
           /\ q.tour \in Tour /\ freed \in [Slot -> SlotType] /\ left \in [Tour -> TourType]
           /\ \A u \in Tour \ {q.tour} : left[u] = tour[u]
           /\ left[q.tour].status = "settled" /\ left[q.tour].slot \in {None, tour[q.tour].slot}
           /\ \A s \in Slot : IF freed[s].status = "booked"
                              THEN freed[s].tour # None /\ left[freed[s].tour].slot = s
                              ELSE freed[s].tour = None
  <1> DEFINE q == task[w]
             freed == Freed(q)
             left == Released(q)
  <1>0. q \in TaskType /\ q.slot \in Slot \union {None} /\ q.tour \in Tour
    BY DEF TypeOK, TaskType, StaleReads
  <1>1. /\ slot \in [Slot -> SlotType] /\ tour \in [Tour -> TourType]
        /\ tour[q.tour] \in TourType
    BY <1>0 DEF TypeOK
  <1>2. freed \in [Slot -> SlotType] /\ \A s \in Slot : freed[s] = IF s = q.slot THEN Open ELSE slot[s]
    <2>1. CASE q.slot = None
      BY <2>1, <1>1, TourConstants DEF Freed
    <2>2. CASE q.slot \in Slot
      BY <2>2, <1>1, SmallShapes, TourConstants DEF Freed
    <2>3. QED BY <2>1, <2>2, <1>0
  <1>3. /\ left \in [Tour -> TourType] /\ \A u \in Tour \ {q.tour} : left[u] = tour[u]
        /\ left[q.tour].status = "settled"
        /\ left[q.tour].slot = IF q.slot = None THEN tour[q.tour].slot ELSE None
    BY <1>0, <1>1 DEF Released, TourType
  <1>4. ASSUME NEW s \in Slot
        PROVE  IF freed[s].status = "booked" THEN freed[s].tour # None /\ left[freed[s].tour].slot = s
               ELSE freed[s].tour = None
    <2>1. CASE s = q.slot
      BY <2>1, <1>2, SmallShapes
    <2>2. CASE s # q.slot
      <3>1. freed[s] = slot[s] /\ slot[s] \in SlotType
        BY <2>2, <1>1, <1>2
      <3>2. slot[s].tour \in Tour \union {None}
        BY <3>1 DEF SlotType
      <3>3. IF slot[s].status = "booked" THEN slot[s].tour # None /\ tour[slot[s].tour].slot = s
            ELSE slot[s].tour = None
        BY DEF TimesKept, BookedNamesItsTour
      <3>4. CASE slot[s].status = "booked" /\ slot[s].tour = q.tour
        <4>1. q.slot # None => tour[q.tour].slot \in {None, q.slot}
          BY DEF StaleReads
        <4>2. q.slot = None
          BY <4>1, <3>3, <3>4, <2>2, TourConstants
        <4>3. QED BY <4>2, <3>1, <3>3, <3>4, <1>3
      <3>5. CASE slot[s].status # "booked" \/ slot[s].tour # q.tour
        BY <3>5, <3>1, <3>2, <3>3, <1>3
      <3>6. QED BY <3>4, <3>5
    <2>3. QED BY <2>1, <2>2
  <1>5. QED BY <1>0, <1>2, <1>3, <1>4

\* A change of one tour that keeps the time it holds and does not schedule it.
LEMMA MarkKeeps ==
    ASSUME TypeOK, TimesKept, NEW t \in Tour, tour[t].status # "none", UNCHANGED slot,
           NEW r \in TourType, r.slot = tour[t].slot, r.status \notin Unbooked \union {"scheduled"},
           tour' = [tour EXCEPT ![t] = r]
    PROVE  /\ tour' \in [Tour -> TourType] /\ TimesKept'
           /\ \A u \in Tour : /\ tour'[u].slot = tour[u].slot
                              /\ tour[u].status # "none" => tour'[u].status # "none"
                              /\ tour[u].status \notin Unbooked => tour'[u].status \notin Unbooked
  <1>1. tour \in [Tour -> TourType] /\ tour[t] \in TourType
    BY DEF TypeOK
  <1>2. /\ tour' \in [Tour -> TourType] /\ \A u \in Tour \ {t} : tour'[u] = tour[u]
        /\ tour'[t] = r
    BY <1>1
  <1>3. \A u \in Tour : tour'[u].slot = tour[u].slot
    BY <1>2
  <1>4. \A s \in Slot : slot[s].tour \in Tour \union {None}
    BY DEF TypeOK, SlotType
  <1>5. BookedNamesItsTour' /\ OneTourPerSlot'
    BY <1>3, <1>4 DEF TimesKept, BookedNamesItsTour, OneTourPerSlot
  <1>6. ScheduledHoldsTime'
    BY <1>2 DEF TimesKept, ScheduledHoldsTime
  <1>7. UnbookedHoldsNone'
    BY <1>2 DEF TimesKept, UnbookedHoldsNone, Unbooked
  <1>8. QED BY <1>2, <1>3, <1>5, <1>6, <1>7 DEF TimesKept, Unbooked

\* The tour a recorded event leaves.
LEMMA RecordedTour ==
    ASSUME TypeOK, NEW t \in Tour, NEW status \in {"confirmed_by_prospect", "checked_in", "settled"}
    PROVE  /\ [tour[t] EXCEPT !.status = status] \in TourType
           /\ [tour[t] EXCEPT !.status = status].slot = tour[t].slot
           /\ [tour[t] EXCEPT !.status = status].status \notin Unbooked \union {"scheduled"}
           /\ [tour EXCEPT ![t].status = status] = [tour EXCEPT ![t] = [tour[t] EXCEPT !.status = status]]
  <1>1. tour[t] \in TourType
    BY DEF TypeOK
  <1>2. QED BY <1>1 DEF TourType, Live, Unbooked

\* A time that was not booked and is not booked now.
LEMMA SlotKeeps ==
    ASSUME TypeOK, TimesKept, slot' \in [Slot -> SlotType], UNCHANGED tour,
           \A s \in Slot : slot'[s] = slot[s] \/ (slot'[s].status # "booked" /\ slot'[s].tour = None)
    PROVE  TimesKept'
  <1>1. \A s \in Slot : slot[s].tour \in Tour \union {None}
    BY DEF TypeOK, SlotType
  <1>2. BookedNamesItsTour'
    BY <1>1 DEF TimesKept, BookedNamesItsTour
  <1>3. QED BY <1>2 DEF TimesKept, OneTourPerSlot, ScheduledHoldsTime, UnbookedHoldsNone

LEMMA TourInit == Init => TourInv
  <1> SUFFICES ASSUME Init PROVE TourInv
    OBVIOUS
  <1>1. TypeOK
    BY SmallShapes DEF Init, TypeOK, SlotType, LinkType
  <1>2. \A t \in Tour : tour[t].status = "none" /\ tour[t].slot = None
    BY DEF Init, Unborn
  <1>3. \A s \in Slot : slot[s].status = "absent" /\ slot[s].tour = None
    BY DEF Init
  <1>4. UnbookedHoldsNone /\ BookedNamesItsTour /\ OneTourPerSlot /\ ScheduledHoldsTime
    BY <1>2, <1>3 DEF UnbookedHoldsNone, BookedNamesItsTour, OneTourPerSlot, ScheduledHoldsTime
  <1>5. StaleReads
    BY SmallShapes DEF Init, StaleReads
  <1>6. QED BY <1>1, <1>4, <1>5 DEF TourInv

-----------------------------------------------------------------------------
\* The steps of the times, the links and the tours that no request has read.
LEMMA SlotStepKeeps ==
    ASSUME TourInv, SlotStep
    PROVE  TourInv'
  <1>1. TypeOK /\ TimesKept /\ StaleReads /\ slot \in [Slot -> SlotType]
    BY DEF TourInv, TimesKept, TypeOK
  <1>2. UNCHANGED <<tour, link, task>> /\ past' \subseteq Slot
    BY <1>1 DEF SlotStep, CloseDay, Publish, Block, Reopen, PassTime, TypeOK
  <1>3. /\ slot' \in [Slot -> SlotType]
        /\ \A s \in Slot : slot'[s] = slot[s] \/ (slot'[s].status # "booked" /\ slot'[s].tour = None)
    <2>1. CASE CloseDay
      BY <2>1, <1>1, SmallShapes DEF CloseDay
    <2>2. ASSUME NEW s \in Slot, Publish(s) \/ Block(s) \/ Reopen(s)
          PROVE  /\ slot' \in [Slot -> SlotType]
                 /\ \A r \in Slot : slot'[r] = slot[r] \/ (slot'[r].status # "booked" /\ slot'[r].tour = None)
      BY <2>2, <1>1, SmallShapes DEF Publish, Block, Reopen
    <2>3. ASSUME NEW s \in Slot, PassTime(s) PROVE UNCHANGED slot
      BY <2>3 DEF PassTime
    <2>4. QED BY <2>1, <2>2, <2>3, <1>1 DEF SlotStep
  <1>4. TimesKept'
    BY <1>1, <1>2, <1>3, SlotKeeps
  <1>5. TypeOK' /\ StaleReads'
    BY <1>1, <1>2, <1>3 DEF TypeOK, StaleReads
  <1>6. QED BY <1>4, <1>5 DEF TourInv, TimesKept

LEMMA LeadStepKeeps ==
    ASSUME TourInv, LeadStep
    PROVE  TourInv'
  <1>1. /\ TypeOK /\ TimesKept /\ StaleReads
        /\ slot \in [Slot -> SlotType] /\ tour \in [Tour -> TourType] /\ link \in [Link -> LinkType]
    BY DEF TourInv, TimesKept, TypeOK
  <1>2. CASE UNCHANGED <<slot, past, tour, task>> /\ link' \in [Link -> LinkType]
    <2>1. TypeOK' /\ StaleReads' /\ TimesKept'
      BY <1>1, <1>2 DEF TypeOK, StaleReads, TimesKept, BookedNamesItsTour, OneTourPerSlot,
                        ScheduledHoldsTime, UnbookedHoldsNone
    <2>2. QED BY <2>1 DEF TourInv, TimesKept
  <1>3. ASSUME NEW k \in Link, (\E l \in Lead : Mint(k, l)) \/ ExpireLink(k) \/ Converge(k)
        PROVE  UNCHANGED <<slot, past, tour, task>> /\ link' \in [Link -> LinkType]
    <2>1. CASE \E l \in Lead : Mint(k, l)
      BY <2>1, <1>1 DEF Mint, LinkType
    <2>2. CASE ExpireLink(k) \/ Converge(k)
      <3>1. link[k] \in LinkType
        BY <1>1
      <3>2. QED BY <2>2, <3>1, <1>1 DEF ExpireLink, Converge, LinkType
    <2>3. QED BY <2>1, <2>2, <1>3
  <1>4. ASSUME NEW t \in Tour, NEW l \in Lead, Request(t, l) PROVE TourInv'
    <2>1. /\ tour' = [tour EXCEPT ![t].status = "requested", ![t].lead = l]
          /\ tour[t].status = "none" /\ tour[t] \in TourType /\ tour[t].slot = None
          /\ UNCHANGED <<slot, past, link, task>>
      BY <1>1, <1>4 DEF Request, TimesKept, UnbookedHoldsNone, Unbooked
    <2>2. /\ tour' \in [Tour -> TourType] /\ \A u \in Tour \ {t} : tour'[u] = tour[u]
          /\ tour'[t].status = "requested" /\ tour'[t].slot = None
      BY <2>1, <1>1 DEF TourType
    <2>3. \A u \in Tour : tour'[u].slot = tour[u].slot
      BY <2>1, <2>2
    <2>4. \A s \in Slot : slot[s].tour \in Tour \union {None}
      BY <1>1 DEF SlotType
    <2>5. TimesKept'
      BY <1>1, <2>1, <2>2, <2>3, <2>4
         DEF TimesKept, BookedNamesItsTour, OneTourPerSlot, ScheduledHoldsTime, UnbookedHoldsNone
    <2>6. StaleReads'
      BY <1>1, <2>1, <2>2, TasksKept DEF Unbooked
    <2>7. TypeOK'
      BY <1>1, <2>1, <2>2 DEF TypeOK
    <2>8. QED BY <2>5, <2>6, <2>7 DEF TourInv, TimesKept
  <1>5. ASSUME NEW l \in Lead, NEW s \in Slot, NEW t \in Tour, StaffBook(l, s, t) PROVE TourInv'
    <2>1. /\ tour[t].status \in Unbooked /\ Unnamed(s) /\ BookInto(t, l, s, FALSE)
          /\ UNCHANGED <<past, link, task>>
      BY <1>5 DEF StaffBook, Unbooked
    <2>2. /\ slot' \in [Slot -> SlotType] /\ tour' \in [Tour -> TourType] /\ TimesKept'
          /\ \A u \in Tour \ {t} : tour'[u] = tour[u]
          /\ tour'[t].status = "scheduled"
      BY <1>1, <2>1, BookIntoKeeps
    <2>3. StaleReads'
      BY <1>1, <2>1, <2>2, TasksKept DEF Unbooked
    <2>4. TypeOK'
      BY <1>1, <2>1, <2>2 DEF TypeOK
    <2>5. QED BY <2>2, <2>3, <2>4 DEF TourInv, TimesKept
  <1>6. ASSUME NEW t \in Tour, NEW status \in {"confirmed_by_prospect", "checked_in", "settled"},
               Mark(t, status)
        PROVE  TourInv'
    <2>1. /\ tour[t].status # "none" /\ UNCHANGED <<slot, past, link, task>>
          /\ tour' = [tour EXCEPT ![t] = [tour[t] EXCEPT !.status = status]]
      BY <1>1, <1>6, RecordedTour DEF Mark, Record
    <2>2. /\ tour' \in [Tour -> TourType] /\ TimesKept'
          /\ \A u \in Tour : /\ tour'[u].slot = tour[u].slot
                             /\ tour[u].status # "none" => tour'[u].status # "none"
                             /\ tour[u].status \notin Unbooked => tour'[u].status \notin Unbooked
      BY <1>1, <2>1, MarkKeeps, RecordedTour
    <2>3. StaleReads'
      BY <1>1, <2>1, <2>2, TasksKept
    <2>4. TypeOK'
      BY <1>1, <2>1, <2>2 DEF TypeOK
    <2>5. QED BY <2>2, <2>3, <2>4 DEF TourInv, TimesKept
  <1>7. ASSUME NEW t \in Tour, NEW s \in Slot, ConfirmTyped(t, s) PROVE TourInv'
    <2> DEFINE r == [tour[t] EXCEPT !.status = "confirmed_by_prospect", !.at = s]
    <2>1. tour[t] \in TourType /\ tour \in [Tour -> TourType]
      BY <1>1 DEF TypeOK
    <2>2. r \in TourType /\ r.slot = tour[t].slot /\ r.status \notin Unbooked \union {"scheduled"}
      BY <2>1 DEF TourType, Live, Unbooked
    <2>3. tour' = [tour EXCEPT ![t] = r] /\ tour[t].status # "none" /\ UNCHANGED <<slot, past, link, task>>
      BY <2>1, <1>7 DEF ConfirmTyped
    <2> HIDE DEF r
    <2>4. /\ tour' \in [Tour -> TourType] /\ TimesKept'
          /\ \A u \in Tour : /\ tour'[u].slot = tour[u].slot
                             /\ tour[u].status # "none" => tour'[u].status # "none"
                             /\ tour[u].status \notin Unbooked => tour'[u].status \notin Unbooked
      BY <1>1, <2>2, <2>3, MarkKeeps
    <2>5. StaleReads'
      BY <1>1, <2>3, <2>4, TasksKept
    <2>6. TypeOK'
      BY <1>1, <2>3, <2>4 DEF TypeOK
    <2>7. QED BY <2>4, <2>5, <2>6 DEF TourInv, TimesKept
  <1>8. QED BY <1>2, <1>3, <1>4, <1>5, <1>6, <1>7 DEF LeadStep

\* A request that begins writes nothing but what it read.
LEMMA BeginKeeps ==
    ASSUME TourInv, UNCHANGED <<slot, past, tour, link>>, NEW w \in Clerk, NEW q \in TaskType,
           task' = [task EXCEPT ![w] = q],
           q.op \in {"release", "complete"} => q.tour \in Tour /\ tour[q.tour].status # "none",
           q.op = "release" => q.slot = tour[q.tour].slot,
           q.op \in {"book", "link"} => q.slot \in Slot,
           q.op = "link" => q.link \in Link
    PROVE  TourInv'
  <1>1. TypeOK /\ TimesKept /\ StaleReads /\ task \in [Clerk -> TaskType]
    BY DEF TourInv, TimesKept, TypeOK
  <1>2. task' \in [Clerk -> TaskType] /\ task'[w] = q /\ \A v \in Clerk \ {w} : task'[v] = task[v]
    BY <1>1
  <1>3. TypeOK'
    BY <1>1, <1>2 DEF TypeOK
  <1>4. TimesKept'
    BY <1>1 DEF TimesKept, BookedNamesItsTour, OneTourPerSlot, ScheduledHoldsTime, UnbookedHoldsNone
  <1>5. q.op = "release" /\ q.slot # None => tour[q.tour].status \notin Unbooked
    BY <1>1 DEF TimesKept, UnbookedHoldsNone
  <1>6. StaleReads'
    <2> SUFFICES ASSUME NEW v \in Clerk
                 PROVE  /\ task'[v].op \in {"release", "complete"} =>
                              task'[v].tour \in Tour /\ tour[task'[v].tour].status # "none"
                        /\ task'[v].op = "release" /\ task'[v].slot # None =>
                              /\ tour[task'[v].tour].status \notin Unbooked
                              /\ tour[task'[v].tour].slot \in {None, task'[v].slot}
                        /\ task'[v].op \in {"book", "link"} => task'[v].slot \in Slot
                        /\ task'[v].op = "link" => task'[v].link \in Link
      BY DEF StaleReads
    <2>1. CASE v = w
      BY <2>1, <1>2, <1>5
    <2>2. CASE v # w
      BY <2>2, <1>2, <1>1 DEF StaleReads
    <2>3. QED BY <2>1, <2>2
  <1>7. QED BY <1>3, <1>4, <1>6 DEF TourInv, TimesKept

LEMMA BeginStepKeeps ==
    ASSUME TourInv, NEW w \in Clerk,
           \/ \E l \in Lead, s \in Slot, keyed \in BOOLEAN : BeginBook(w, l, s, keyed)
           \/ \E k \in Link, s \in Slot : BeginLink(w, k, s)
           \/ \E t \in Tour : BeginRelease(w, t) \/ BeginComplete(w, t)
           \/ \E l \in Lead : BeginWalkIn(w, l)
           \/ Taken(w) \/ Abort(w)
    PROVE  TourInv'
  <1>1. tour \in [Tour -> TourType]
    BY DEF TourInv, TypeOK
  <1>2. ASSUME NEW l \in Lead, NEW s \in Slot, NEW keyed \in BOOLEAN, BeginBook(w, l, s, keyed)
        PROVE  TourInv'
    <2> DEFINE q == [Idle EXCEPT !.op = "book", !.lead = l, !.slot = s, !.keyed = keyed]
    <2>1. q \in TaskType /\ q.op = "book" /\ q.slot = s
      BY DEF Idle, TaskType
    <2>2. task' = [task EXCEPT ![w] = q] /\ UNCHANGED <<slot, past, tour, link>>
      BY <1>2 DEF BeginBook
    <2> HIDE DEF q
    <2>3. QED BY <2>1, <2>2, BeginKeeps
  <1>3. ASSUME NEW k \in Link, NEW s \in Slot, BeginLink(w, k, s) PROVE TourInv'
    <2> DEFINE q == [Idle EXCEPT !.op = "link", !.link = k, !.slot = s]
    <2>1. q \in TaskType /\ q.op = "link" /\ q.slot = s /\ q.link = k
      BY DEF Idle, TaskType
    <2>2. task' = [task EXCEPT ![w] = q] /\ UNCHANGED <<slot, past, tour, link>>
      BY <1>3 DEF BeginLink
    <2> HIDE DEF q
    <2>3. QED BY <2>1, <2>2, BeginKeeps
  <1>4. ASSUME NEW t \in Tour, BeginRelease(w, t) PROVE TourInv'
    <2>1. tour[t].slot \in Slot \union {None}
      BY <1>1 DEF TourType
    <2> DEFINE q == [Idle EXCEPT !.op = "release", !.tour = t, !.slot = tour[t].slot]
    <2>2. q \in TaskType /\ q.op = "release" /\ q.tour = t /\ q.slot = tour[t].slot
      BY <2>1 DEF Idle, TaskType
    <2>3. /\ task' = [task EXCEPT ![w] = q] /\ tour[t].status # "none"
          /\ UNCHANGED <<slot, past, tour, link>>
      BY <1>4 DEF BeginRelease
    <2> HIDE DEF q
    <2>4. QED BY <2>2, <2>3, BeginKeeps
  <1>5. ASSUME NEW t \in Tour, BeginComplete(w, t) PROVE TourInv'
    <2> DEFINE q == [Idle EXCEPT !.op = "complete", !.tour = t]
    <2>1. q \in TaskType /\ q.op = "complete" /\ q.tour = t
      BY DEF Idle, TaskType
    <2>2. /\ task' = [task EXCEPT ![w] = q] /\ tour[t].status # "none"
          /\ UNCHANGED <<slot, past, tour, link>>
      BY <1>5 DEF BeginComplete
    <2> HIDE DEF q
    <2>3. QED BY <2>1, <2>2, BeginKeeps
  <1>6. ASSUME NEW l \in Lead, BeginWalkIn(w, l) PROVE TourInv'
    <2> DEFINE q == [Idle EXCEPT !.op = "walkin", !.lead = l]
    <2>1. q \in TaskType /\ q.op = "walkin"
      BY DEF Idle, TaskType
    <2>2. task' = [task EXCEPT ![w] = q] /\ UNCHANGED <<slot, past, tour, link>>
      BY <1>6 DEF BeginWalkIn
    <2> HIDE DEF q
    <2>3. QED BY <2>1, <2>2, BeginKeeps
  <1>7. CASE Taken(w) \/ Abort(w)
    <2>1. task' = [task EXCEPT ![w] = Idle] /\ UNCHANGED <<slot, past, tour, link>>
      BY <1>7 DEF Taken, Abort
    <2>2. QED BY <2>1, SmallShapes, BeginKeeps
  <1>8. QED BY <1>2, <1>3, <1>4, <1>5, <1>6, <1>7

\* The second step of a request.
LEMMA BookStepKeeps ==
    ASSUME TourInv, NEW w \in Clerk, NEW t \in Tour, Book(w, t) \/ BookLink(w, t)
    PROVE  TourInv'
  <1>1. /\ TypeOK /\ TimesKept /\ StaleReads /\ task \in [Clerk -> TaskType]
        /\ link \in [Link -> LinkType] /\ task[w] \in TaskType
    BY DEF TourInv, TimesKept, TypeOK
  <1>2. PICK l \in Lead \union {None}, s \in Slot, keyed \in BOOLEAN :
             /\ tour[t].status \in Unbooked /\ Unnamed(s) /\ BookInto(t, l, s, keyed)
             /\ task' = [task EXCEPT ![w] = Idle] /\ UNCHANGED past
             /\ link' \in [Link -> LinkType]
    <2>1. CASE Book(w, t)
      <3>1. /\ task[w].lead \in Lead \union {None} /\ task[w].keyed \in BOOLEAN
            /\ task[w].slot \in Slot
        BY <2>1, <1>1 DEF Book, StaleReads, TaskType
      <3>2. /\ tour[t].status \in Unbooked /\ Unnamed(task[w].slot)
            /\ BookInto(t, task[w].lead, task[w].slot, task[w].keyed)
            /\ task' = [task EXCEPT ![w] = Idle] /\ UNCHANGED <<past, link>>
        BY <2>1 DEF Book, Unbooked
      <3>3. QED BY <3>1, <3>2, <1>1
    <2>2. CASE BookLink(w, t)
      <3>1. task[w].link \in Link /\ task[w].slot \in Slot
        BY <2>2, <1>1 DEF BookLink, StaleReads
      <3>2. link[task[w].link].lead \in Lead \union {None}
        BY <3>1, <1>1 DEF LinkType
      <3>3. /\ tour[t].status \in Unbooked /\ Unnamed(task[w].slot)
            /\ BookInto(t, link[task[w].link].lead, task[w].slot, FALSE)
            /\ task' = [task EXCEPT ![w] = Idle] /\ UNCHANGED past
        BY <2>2 DEF BookLink, Unbooked
      <3>4. link' \in [Link -> LinkType]
        <4>1. \A j \in Link : /\ [link[j] EXCEPT !.status = "consumed"] \in LinkType
                               /\ [link[j] EXCEPT !.status = "revoked"] \in LinkType
                               /\ link[j] \in LinkType
          BY <1>1 DEF LinkType
        <4>2. QED BY <2>2, <4>1 DEF BookLink
      <3>5. QED BY <3>1, <3>2, <3>3, <3>4
    <2>3. QED BY <2>1, <2>2
  <1>3. /\ slot' \in [Slot -> SlotType] /\ tour' \in [Tour -> TourType] /\ TimesKept'
        /\ \A u \in Tour \ {t} : tour'[u] = tour[u]
        /\ tour'[t].status = "scheduled"
    BY <1>1, <1>2, BookIntoKeeps
  <1>4. \A v \in Clerk : task'[v] = task[v] \/ task'[v].op = "none"
    BY <1>1, <1>2, SmallShapes
  <1>5. StaleReads'
    BY <1>1, <1>2, <1>3, <1>4, TasksKept DEF Unbooked
  <1>6. TypeOK'
    BY <1>1, <1>2, <1>3, SmallShapes DEF TypeOK
  <1>7. QED BY <1>3, <1>5, <1>6 DEF TourInv, TimesKept

LEMMA CancelKeeps ==
    ASSUME TourInv, NEW w \in Clerk, Cancel(w)
    PROVE  TourInv'
  <1> DEFINE q == task[w]
  <1>1. /\ TypeOK /\ TimesKept /\ StaleReads /\ task \in [Clerk -> TaskType]
        /\ q.op = "release" /\ slot' = Freed(q) /\ tour' = Released(q)
        /\ task' = [task EXCEPT ![w] = Idle] /\ UNCHANGED <<past, link>>
    BY DEF TourInv, TimesKept, TypeOK, Cancel
  <1>2. /\ q.tour \in Tour /\ slot' \in [Slot -> SlotType] /\ tour' \in [Tour -> TourType]
        /\ \A u \in Tour \ {q.tour} : tour'[u] = tour[u]
        /\ tour'[q.tour].status = "settled" /\ tour'[q.tour].slot \in {None, tour[q.tour].slot}
        /\ BookedNamesItsTour'
    BY <1>1, ReleaseKeeps DEF BookedNamesItsTour
  <1>3. \A u \in Tour : tour'[u].slot \in {None, tour[u].slot}
    BY <1>2
  <1>4. OneTourPerSlot'
    BY <1>1, <1>3 DEF TimesKept, OneTourPerSlot
  <1>5. ScheduledHoldsTime'
    BY <1>1, <1>2 DEF TimesKept, ScheduledHoldsTime
  <1>6. UnbookedHoldsNone'
    BY <1>1, <1>2 DEF TimesKept, UnbookedHoldsNone, Unbooked
  <1>7. StaleReads'
    <2>1. \A v \in Clerk : task'[v] = task[v] \/ task'[v].op = "none"
      BY <1>1, SmallShapes
    <2>2. QED BY <1>1, <1>2, <1>3, <2>1, TasksKept DEF Unbooked
  <1>8. TypeOK'
    BY <1>1, <1>2, SmallShapes DEF TypeOK
  <1>9. QED BY <1>2, <1>4, <1>5, <1>6, <1>7, <1>8 DEF TourInv

LEMMA RescheduleKeeps ==
    ASSUME TourInv, NEW w \in Clerk, NEW to \in Slot, NEW t \in Tour, Reschedule(w, to, t)
    PROVE  TourInv'
  <1> DEFINE q == task[w]
             freed == Freed(q)
             left == Released(q)
             next == Scheduled(tour[q.tour].lead, to, FALSE)
  <1>1. /\ TypeOK /\ TimesKept /\ StaleReads /\ task \in [Clerk -> TaskType]
        /\ tour \in [Tour -> TourType]
        /\ q.op = "release" /\ tour[t].status = "none" /\ \A u \in Tour : left[u].slot # to
        /\ slot' = [freed EXCEPT ![to] = Booked(t)] /\ tour' = [left EXCEPT ![t] = next]
        /\ task' = [task EXCEPT ![w] = Idle] /\ UNCHANGED <<past, link>>
    BY DEF TourInv, TimesKept, TypeOK, Reschedule
  <1>2. /\ q.tour \in Tour /\ freed \in [Slot -> SlotType] /\ left \in [Tour -> TourType]
        /\ \A u \in Tour \ {q.tour} : left[u] = tour[u]
        /\ left[q.tour].status = "settled" /\ left[q.tour].slot \in {None, tour[q.tour].slot}
        /\ \A s \in Slot : IF freed[s].status = "booked"
                           THEN freed[s].tour # None /\ left[freed[s].tour].slot = s
                           ELSE freed[s].tour = None
    BY <1>1, ReleaseKeeps
  <1>3. tour[q.tour].status # "none" /\ q.tour # t
    BY <1>1 DEF StaleReads
  <1>4. tour[q.tour].lead \in Lead \union {None}
    BY <1>1, <1>2 DEF TourType
  <1>5. /\ next \in TourType /\ next.slot = to /\ next.at = to /\ next.status = "scheduled"
        /\ Booked(t) \in SlotType /\ Booked(t).status = "booked" /\ Booked(t).tour = t
    <2>1. ASSUME NEW l \in Lead \union {None}
          PROVE  /\ Scheduled(l, to, FALSE) \in TourType
                 /\ Scheduled(l, to, FALSE).slot = to /\ Scheduled(l, to, FALSE).at = to
                 /\ Scheduled(l, to, FALSE).status = "scheduled"
                 /\ Booked(t) \in SlotType /\ Booked(t).status = "booked" /\ Booked(t).tour = t
      BY Shapes
    <2>2. QED BY <1>4, <2>1
  <1> HIDE DEF freed, left, next
  <1>6. /\ slot' \in [Slot -> SlotType] /\ tour' \in [Tour -> TourType]
        /\ slot'[to] = Booked(t) /\ \A s \in Slot \ {to} : slot'[s] = freed[s]
        /\ tour'[t] = next /\ \A u \in Tour \ {t} : tour'[u] = left[u]
    BY <1>1, <1>2, <1>5
  <1>7. tour[t].slot = None /\ left[t] = tour[t] /\ t # None /\ to # None
    BY <1>1, <1>2, <1>3, TourConstants DEF TimesKept, UnbookedHoldsNone, Unbooked
  <1>8. BookedNamesItsTour'
    <2> SUFFICES ASSUME NEW s \in Slot
                 PROVE  IF slot'[s].status = "booked"
                        THEN slot'[s].tour # None /\ tour'[slot'[s].tour].slot = s
                        ELSE slot'[s].tour = None
      BY DEF BookedNamesItsTour
    <2>1. CASE s = to
      BY <2>1, <1>5, <1>6, <1>7
    <2>2. CASE s # to
      <3>1. slot'[s] = freed[s] /\ freed[s].tour \in Tour \union {None}
        BY <2>2, <1>2, <1>6 DEF SlotType
      <3>2. freed[s].status = "booked" => freed[s].tour # t
        BY <1>2, <1>7, TourConstants
      <3>3. QED BY <3>1, <3>2, <1>2, <1>6
    <2>3. QED BY <2>1, <2>2
  <1>9. \A u \in Tour \ {t} : /\ tour'[u].slot \in {None, tour[u].slot} /\ tour'[u].slot # to
                            /\ (tour'[u] = tour[u] \/ tour'[u].status = "settled")
    BY <1>1, <1>2, <1>6 DEF left
  <1>10. OneTourPerSlot'
    <2> SUFFICES ASSUME NEW u \in Tour, NEW v \in Tour, u # v, tour'[u].slot # None
                 PROVE  tour'[u].slot # tour'[v].slot
      BY DEF OneTourPerSlot
    <2>1. tour'[t].slot = to
      BY <1>5, <1>6
    <2>2. CASE u = t \/ v = t
      BY <2>1, <2>2, <1>9
    <2>3. CASE u # t /\ v # t
      <3>1. tour'[u].slot = tour[u].slot /\ tour'[v].slot \in {None, tour[v].slot}
        BY <2>3, <1>9
      <3>2. QED BY <3>1, <1>1 DEF TimesKept, OneTourPerSlot
    <2>4. QED BY <2>2, <2>3
  <1>11. ScheduledHoldsTime'
    BY <1>1, <1>5, <1>6, <1>7, <1>9 DEF TimesKept, ScheduledHoldsTime
  <1>12. UnbookedHoldsNone'
    BY <1>1, <1>5, <1>6, <1>9 DEF TimesKept, UnbookedHoldsNone, Unbooked
  <1>13. StaleReads'
    <2>1. \A v \in Clerk : task'[v] = task[v] \/ task'[v].op = "none"
      BY <1>1, SmallShapes
    <2>2. \A u \in Tour : /\ tour[u].status # "none" => tour'[u].status # "none"
                          /\ tour[u].status \notin Unbooked =>
                                /\ tour'[u].status \notin Unbooked
                                /\ tour'[u].slot \in {None, tour[u].slot}
      <3>1. ASSUME NEW u \in Tour, u # t
            PROVE  /\ tour[u].status # "none" => tour'[u].status # "none"
                   /\ tour[u].status \notin Unbooked => tour'[u].status \notin Unbooked
        BY <1>9, <3>1 DEF Unbooked
      <3>2. tour[t].status = "none" /\ "none" \in Unbooked
        BY <1>1 DEF Unbooked
      <3>3. QED BY <1>9, <3>1, <3>2
    <2>3. QED BY <1>1, <2>1, <2>2, TasksKept
  <1>14. TypeOK'
    BY <1>1, <1>6, SmallShapes DEF TypeOK
  <1>15. QED BY <1>8, <1>10, <1>11, <1>12, <1>13, <1>14 DEF TourInv

LEMMA CompleteKeeps ==
    ASSUME TourInv, NEW w \in Clerk, Complete(w)
    PROVE  TourInv'
  <1> DEFINE t == task[w].tour
  <1>1. /\ TypeOK /\ TimesKept /\ StaleReads /\ task \in [Clerk -> TaskType]
        /\ t \in Tour /\ tour[t].status # "none" /\ tour' = [tour EXCEPT ![t].status = "settled"]
        /\ task' = [task EXCEPT ![w] = Idle] /\ UNCHANGED <<slot, past, link>>
    BY DEF TourInv, TimesKept, TypeOK, Complete, Record, StaleReads
  <1>2. /\ tour' \in [Tour -> TourType] /\ TimesKept'
        /\ \A u \in Tour : /\ tour'[u].slot = tour[u].slot
                           /\ tour[u].status # "none" => tour'[u].status # "none"
                           /\ tour[u].status \notin Unbooked => tour'[u].status \notin Unbooked
    <2> HIDE DEF t
    <2>1. tour' = [tour EXCEPT ![t] = [tour[t] EXCEPT !.status = "settled"]]
      BY <1>1, RecordedTour
    <2>2. QED BY <1>1, <2>1, MarkKeeps, RecordedTour
  <1>3. StaleReads'
    <2>1. \A v \in Clerk : task'[v] = task[v] \/ task'[v].op = "none"
      BY <1>1, SmallShapes
    <2>2. QED BY <1>1, <1>2, <2>1, TasksKept
  <1>4. TypeOK'
    BY <1>1, <1>2, SmallShapes DEF TypeOK
  <1>5. QED BY <1>2, <1>3, <1>4 DEF TourInv, TimesKept

LEMMA WalkInKeeps ==
    ASSUME TourInv, NEW w \in Clerk, NEW t \in Tour, NEW captured \in BOOLEAN, WalkIn(w, t, captured)
    PROVE  TourInv'
  <1> DEFINE new == [Unborn EXCEPT !.status = IF captured THEN "settled" ELSE "scheduled",
                                   !.lead = task[w].lead, !.walkin = TRUE]
  <1>1. /\ TypeOK /\ TimesKept /\ StaleReads /\ task \in [Clerk -> TaskType]
        /\ slot \in [Slot -> SlotType] /\ tour \in [Tour -> TourType] /\ task[w] \in TaskType
        /\ tour[t].status = "none" /\ tour[t].slot = None
        /\ tour' = [tour EXCEPT ![t] = new]
        /\ task' = [task EXCEPT ![w] = Idle] /\ UNCHANGED <<slot, past, link>>
    BY DEF TourInv, TimesKept, TypeOK, WalkIn, UnbookedHoldsNone, Unbooked
  <1>2. /\ new \in TourType /\ new.slot = None /\ new.walkin
        /\ new.status \in {"settled", "scheduled"}
    BY <1>1 DEF Unborn, TourType, TaskType, Live
  <1> HIDE DEF new
  <1>3. /\ tour' \in [Tour -> TourType] /\ tour'[t] = new
        /\ \A u \in Tour \ {t} : tour'[u] = tour[u]
        /\ \A u \in Tour : tour'[u].slot = tour[u].slot
    BY <1>1, <1>2
  <1>4. \A s \in Slot : slot[s].tour \in Tour \union {None}
    BY <1>1 DEF SlotType
  <1>5. BookedNamesItsTour' /\ OneTourPerSlot'
    BY <1>1, <1>3, <1>4 DEF TimesKept, BookedNamesItsTour, OneTourPerSlot
  <1>6. ScheduledHoldsTime' /\ UnbookedHoldsNone'
    BY <1>1, <1>2, <1>3 DEF TimesKept, ScheduledHoldsTime, UnbookedHoldsNone
  <1>7. StaleReads'
    <2>1. \A v \in Clerk : task'[v] = task[v] \/ task'[v].op = "none"
      BY <1>1, SmallShapes
    <2>2. QED BY <1>1, <1>2, <1>3, <2>1, TasksKept DEF Unbooked
  <1>8. TypeOK'
    BY <1>1, <1>3, SmallShapes DEF TypeOK
  <1>9. QED BY <1>5, <1>6, <1>7, <1>8 DEF TourInv

LEMMA TourStep == TourInv /\ [Next]_vars => TourInv'
  <1> SUFFICES ASSUME TourInv, [Next]_vars PROVE TourInv'
    OBVIOUS
  <1>1. ASSUME NEW w \in Clerk, ClerkStep(w) PROVE TourInv'
    BY <1>1, BeginStepKeeps, BookStepKeeps, RescheduleKeeps, WalkInKeeps, CancelKeeps, CompleteKeeps
       DEF ClerkStep
  <1>2. CASE UNCHANGED vars
    BY <1>2 DEF vars, TourInv, TypeOK, StaleReads, UnbookedHoldsNone, BookedNamesItsTour,
                OneTourPerSlot, ScheduledHoldsTime
  <1>3. QED BY <1>1, <1>2, SlotStepKeeps, LeadStepKeeps DEF Next

LEMMA TourInvariant == Spec => []TourInv
  BY TourInit, TourStep, PTL DEF Spec

-----------------------------------------------------------------------------
\* Tours, times, links and requests keep their types.
THEOREM TourTypeCorrect == Spec => []TypeOK
  <1>1. TourInv => TypeOK
    BY DEF TourInv
  <1>2. QED BY <1>1, TourInvariant, PTL

\* A booked time names a tour that holds it, for any number of stale requests.
THEOREM BooksAgree == Spec => []BookedNamesItsTour
  <1>1. TourInv => BookedNamesItsTour
    BY DEF TourInv
  <1>2. QED BY <1>1, TourInvariant, PTL

\* No time is held by two tours.
THEOREM NoDoubleBooking == Spec => []OneTourPerSlot
  <1>1. TourInv => OneTourPerSlot
    BY DEF TourInv
  <1>2. QED BY <1>1, TourInvariant, PTL

\* A scheduled tour holds the time it was booked for.
THEOREM NoDefectiveTour == Spec => []ScheduledHoldsTime
  <1>1. TourInv => ScheduledHoldsTime
    BY DEF TourInv
  <1>2. QED BY <1>1, TourInvariant, PTL
=============================================================================
