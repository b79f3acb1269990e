------------------------- MODULE SpaceTenancyProofs -------------------------
(* The properties of SpaceTenancy, for every set of applications, homes and rows. *)
EXTENDS SpaceTenancyProperties, FiniteSetTheorems, TLAPS

USE ConstantAssumption DEF None

\* What confirmProposal decides about a row is a row, and a home of its property.
LEMMA JudgedType ==
    ASSUME TypeOK, NEW r \in Row, NEW seen \in SUBSET Leases
    PROVE  /\ Judged(r, seen) \in [home : {claim[r].home}, verdict : {"insert", "record"}, row : RowValues]
           /\ Judged(r, seen).verdict = "insert" =>
                 Judged(r, seen).row.who # "undecided" /\ claim[r].dated /\ seen = {}
<1> DEFINE holders == UNION {lease[l].tenants : l \in seen}
<1>1. claim[r] \in Claims /\ row[r] \in RowValues  BY DEF TypeOK
<1>2. claim[r].home \in Home /\ claim[r].who \in Person \union {NoPerson, Vacant}
  BY <1>1
<1>3. holders \in SUBSET Person
  <2>1. \A l \in Leases : lease[l] \in LeaseRow  BY DEF TypeOK
  <2> QED  BY <2>1 DEF LeaseRow
<1>4. claim[r].who # Vacant => Ingest(r, holders) \in Person \union {NoPerson, "undecided"}
  BY <1>1, <1>2, <1>3 DEF Ingest, RowValues
<1>5. Review(r) \in RowValues /\ \A l \in Leases \union {None} : Promote(r, l) \in RowValues
  BY <1>1 DEF Review, Promote, RowValues
<1>6. \A l \in Leases \union {None} : \A who \in Person \union {NoPerson, "undecided"} :
          [Promote(r, l) EXCEPT !.who = who] \in RowValues
  BY <1>5 DEF RowValues
<1>7. [Review(r) EXCEPT !.candidates = holders] \in RowValues
  BY <1>3, <1>5 DEF RowValues
<1> HIDE DEF holders
<1>8. CASE claim[r].who = Vacant
  BY <1>8, <1>2, <1>5 DEF Judged
<1>9. CASE claim[r].who # Vacant
  <2> DEFINE who == Ingest(r, holders)
             same == {l \in seen : who \in lease[l].tenants}
             tied == {l \in same : claim[r].dated \/ AsOf \in lease[l].term}
             pick == CHOOSE x \in tied : TRUE
  <2>1. tied # {} => pick \in Leases  OBVIOUS
  <2>2. who \in Person \union {NoPerson, "undecided"}  BY <1>4, <1>9
  <2>3. tied # {} => Promote(r, pick) \in RowValues  BY <2>1, <1>5
  <2>4. Promote(r, None) \in RowValues /\ [Promote(r, None) EXCEPT !.who = who] \in RowValues
    BY <2>2, <1>5, <1>6
  <2> QED  BY <2>3, <2>4, <1>2, <1>5, <1>7, <1>9 DEF Judged, holders
<1> QED  BY <1>8, <1>9

-----------------------------------------------------------------------------
(* Types. *)

LEMMA RowsOfTypes ==
    /\ NoLease \in LeaseRow /\ NoRecord \in RecordRow /\ Idle \in Reading /\ NewRow \in RowValues
    /\ \A a \in Application, h \in Home, t \in Terms \union {{}}, people \in SUBSET Person :
            Anchor(a, h, t, people) \in LeaseRow
  BY DEF NoLease, NoRecord, Idle, NewRow, LeaseRow, RecordRow, Reading, RowValues, Anchor

LEMMA PeopleAreSets == People \subseteq SUBSET Person
  BY DEF People

LEMMA InitType == Init => TypeOK
  BY RowsOfTypes DEF Init, TypeOK, Statuses

\* Admission opens one more term work and moves the status along the ladder, or neither.
LEMMA EvaluateType ==
    ASSUME TypeOK, NEW a \in Application, NEW clean \in BOOLEAN, Evaluate(a, clean)
    PROVE  /\ status' \in [Application -> Statuses]
           /\ work' \in [Application -> Int]
  BY DEF TypeOK, Evaluate, Admitted, Admissible, Statuses

LEMMA ApplicationStepType ==
    ASSUME TypeOK, NEW a \in Application, ApplicationStep(a)
    PROVE  TypeOK'
<1> USE DEF TypeOK, Statuses
<1>1. ASSUME NEW t \in Terms, Prepare(a, t) PROVE TypeOK'
  BY <1>1 DEF Prepare, activation
<1>2. ASSUME NEW signer \in Signers(a), SignFree(a, signer) PROVE TypeOK'
  BY <1>2 DEF SignFree, MaySign, Signed, Signers, activation
<1>3. CASE BeginSign(a)
  BY <1>3, RowsOfTypes DEF BeginSign, Actors, application, activation, Reading, Idle
<1>4. CASE CommitSign(a)
  BY <1>4, RowsOfTypes DEF CommitSign, Signed, Signers, Actors, activation, Reading
<1>5. CASE Approve(a) \/ Decline(a)
  BY <1>5 DEF Approve, Decline, activation
<1>6. ASSUME NEW h \in Home, NEW t \in Terms, NEW r \in Records, Verify(a, h, t, r) PROVE TypeOK'
  <2>1. Evaluate(a, Unblocked(a, h, t, None)) /\ Unblocked(a, h, t, None) \in BOOLEAN
    BY <1>6 DEF Verify, Unblocked
  <2>2. [NoRecord EXCEPT !.app = a, !.home = h, !.term = t, !.state = "verified"] \in RecordRow
    BY RowsOfTypes DEF RecordRow
  <2>3. \A k \in Records : [rec[k] EXCEPT !.state = "superseded"] \in RecordRow
    <3>1. TAKE k \in Records
    <3>2. rec[k] \in RecordRow  OBVIOUS
    <3> QED  BY <3>2 DEF RecordRow
  <2>4. rec' \in [Records -> RecordRow]  BY <1>6, <2>2, <2>3 DEF Verify, RecordRow
  <2>5. status' \in [Application -> Statuses] /\ work' \in [Application -> Int]
    BY <2>1, EvaluateType
  <2>6. UNCHANGED <<approved, agreed, pk, lease, claim, row, position, reading>>
    BY <1>6 DEF Verify, activation
  <2> QED  BY <2>4, <2>5, <2>6
<1>7. CASE Reevaluate(a)
  <2>1. PICK r \in Live(a) : Evaluate(a, Unblocked(a, rec[r].home, rec[r].term, rec[r].lease))
    BY <1>7 DEF Reevaluate
  <2>2. Unblocked(a, rec[r].home, rec[r].term, rec[r].lease) \in BOOLEAN  BY DEF Unblocked
  <2> QED  BY <1>7, <2>1, <2>2, EvaluateType DEF Reevaluate, activation
<1>8. ASSUME NEW h \in Home, NEW r \in Records, NEW l \in Leases, NEW people \in People,
             Execute(a, h, r, l, people)
      PROVE TypeOK'
  <2>1. Anchor(a, h, agreed[a], people) \in LeaseRow  BY RowsOfTypes, PeopleAreSets
  <2>2. \A x \in Leases \union {None} :
            [NoRecord EXCEPT !.app = a, !.home = h, !.term = agreed[a],
                             !.state = "verified", !.lease = x] \in RecordRow
    BY RowsOfTypes DEF RecordRow
  <2>3. lease' \in [Leases -> LeaseRow]  BY <1>8, <2>1 DEF Execute, LeaseRow
  <2>4. rec' \in [Records -> RecordRow]  BY <1>8, <2>2 DEF Execute, RecordRow
  <2>5. pk' \in [Application -> [phase : {"none", "out", "resident_executed", "executed"},
                                 signed : SUBSET {"tenant", "guarantor"}]]
    <3>1. [pk[a] EXCEPT !.phase = "executed"]
              \in [phase : {"none", "out", "resident_executed", "executed"},
                   signed : SUBSET {"tenant", "guarantor"}]
      <4>1. pk[a] \in [phase : {"none", "out", "resident_executed", "executed"},
                       signed : SUBSET {"tenant", "guarantor"}]
        OBVIOUS
      <4> QED  BY <4>1
    <3>2. pk' = [pk EXCEPT ![a] = [pk[a] EXCEPT !.phase = "executed"]]  BY <1>8 DEF Execute
    <3> QED  BY <3>1, <3>2
  <2>6. status' \in [Application -> Statuses] /\ approved' \subseteq Application
    BY <1>8 DEF Execute
  <2> QED  BY <1>8, <2>3, <2>4, <2>5, <2>6 DEF Execute, LeaseRow, RecordRow, activation
<1>9. CASE BeginConfirmTerm(a)
  <2>1. PICK r \in Live(a) : reading' = [reading EXCEPT ![<<"term", a>>] =
            [Idle EXCEPT !.home = rec[r].home,
                         !.verdict = IF Unblocked(a, rec[r].home, rec[r].term, None)
                                     THEN "clean" ELSE "refused"]]
    BY <1>9 DEF BeginConfirmTerm
  <2>2. rec[r].home \in Home \union {NoHome}
    <3>1. rec[r] \in RecordRow  BY DEF Live
    <3> QED  BY <3>1 DEF RecordRow
  <2>3. reading' \in [Actors -> Reading]  BY <2>1, <2>2, RowsOfTypes DEF Actors, Reading
  <2> QED  BY <1>9, <2>3 DEF BeginConfirmTerm, application, activation, Reading
<1>10. CASE RefuseTerm(a)
  BY <1>10, RowsOfTypes DEF RefuseTerm, Actors, application, activation, Reading
<1>11. ASSUME NEW l \in Leases, NEW people \in People, CommitConfirmTerm(a, l, people) PROVE TypeOK'
  <2>1. PICK r \in Live(a) :
            /\ lease' = [lease EXCEPT ![l] = Anchor(a, rec[r].home, rec[r].term, people)]
            /\ rec' = [rec EXCEPT ![r].lease = l]
    BY <1>11 DEF CommitConfirmTerm
  <2>2. r \in Records /\ rec[r] \in RecordRow  BY DEF Live, RecordRow
  <2>3. Anchor(a, rec[r].home, rec[r].term, people) \in LeaseRow
    BY <2>2, PeopleAreSets, RowsOfTypes DEF Anchor, LeaseRow, RecordRow
  <2>4. lease' \in [Leases -> LeaseRow] /\ rec' \in [Records -> RecordRow]
    BY <2>1, <2>2, <2>3 DEF LeaseRow, RecordRow
  <2>5. reading' \in [Actors -> Reading]
    BY <1>11, RowsOfTypes DEF CommitConfirmTerm, Actors, Reading
  <2>6. /\ work' = [work EXCEPT ![a] = work[a] - 1] /\ status' = [status EXCEPT ![a] = "active"]
        /\ UNCHANGED <<approved, agreed, pk, claim, row, position>>
    BY <1>11 DEF CommitConfirmTerm, activation
  <2> QED  BY <2>4, <2>5, <2>6
<1> QED  BY <1>1, <1>2, <1>3, <1>4, <1>5, <1>6, <1>7, <1>8, <1>9, <1>10, <1>11 DEF ApplicationStep

LEMMA LeaseStepType ==
    ASSUME TypeOK, NEW l \in Leases, LeaseStep(l)
    PROVE  TypeOK'
<1> USE DEF TypeOK
<1>1. lease' \in [Leases -> LeaseRow]
  <2>0. lease[l] \in LeaseRow  OBVIOUS
  <2>1. CASE ActivateEconomicTenancy(l)
    <3>1. [lease[l] EXCEPT !.st = "active", !.econ = TRUE] \in LeaseRow  BY <2>0 DEF LeaseRow
    <3> QED  BY <2>1, <3>1 DEF ActivateEconomicTenancy
  <2>2. CASE VoidHollowLease(l)
    <3>1. [lease[l] EXCEPT !.st = "cancelled"] \in LeaseRow  BY <2>0 DEF LeaseRow
    <3> QED  BY <2>2, <3>1 DEF VoidHollowLease
  <2>3. ASSUME NEW p \in Person, LinkResident(l, p) \/ RemoveTenant(l, p)
        PROVE  lease' \in [Leases -> LeaseRow]
    <3>1. \A people \in SUBSET Person : [lease[l] EXCEPT !.tenants = people] \in LeaseRow
      BY <2>0 DEF LeaseRow
    <3>2. lease[l].tenants \ {p} \in SUBSET Person /\ {p} \in SUBSET Person  BY <2>0 DEF LeaseRow
    <3>3. CASE LinkResident(l, p)
      <4>1. lease' = [lease EXCEPT ![l] = [lease[l] EXCEPT !.tenants = {p}]]  BY <3>3 DEF LinkResident
      <4> QED  BY <3>1, <3>2, <4>1
    <3>4. CASE RemoveTenant(l, p)
      <4>1. lease' = [lease EXCEPT ![l] = [lease[l] EXCEPT !.tenants = lease[l].tenants \ {p}]]
        BY <3>4 DEF RemoveTenant
      <4> QED  BY <3>1, <3>2, <4>1
    <3> QED  BY <2>3, <3>3, <3>4
  <2>4. ASSUME NEW st \in {"active", "rejected"}, DecideLease(l, st)
        PROVE  lease' \in [Leases -> LeaseRow]
    <3>1. \A b \in BOOLEAN : [lease[l] EXCEPT !.st = st, !.revived = b] \in LeaseRow
      BY <2>0 DEF LeaseRow
    <3>2. (lease[l].revived \/ ~Operative(l)) \in BOOLEAN  OBVIOUS
    <3> QED  BY <2>4, <3>1, <3>2 DEF DecideLease
  <2>5. ASSUME NEW h \in Home, NEW t \in Terms, NEW st \in {"active", "pending"},
               NEW people \in People, LoadSnapshot(l, h, t, st, people)
        PROVE  lease' \in [Leases -> LeaseRow]
    <3>1. [NoLease EXCEPT !.st = st, !.home = h, !.term = t,
                          !.tenants = people, !.via = "snapshot"] \in LeaseRow
      BY RowsOfTypes, PeopleAreSets DEF LeaseRow
    <3> QED  BY <2>5, <3>1 DEF LoadSnapshot, LeaseRow
  <2> QED  BY <2>1, <2>2, <2>3, <2>4, <2>5 DEF LeaseStep
<1>2. UNCHANGED <<application, rec, activation, reading>>
  BY DEF LeaseStep, ActivateEconomicTenancy, VoidHollowLease, LinkResident, RemoveTenant,
         DecideLease, LoadSnapshot
<1> QED  BY <1>1, <1>2 DEF LeaseRow, application, activation

LEMMA RowStepType ==
    ASSUME TypeOK, NEW r \in Row, RowStep(r)
    PROVE  TypeOK'
<1> USE DEF TypeOK
<1>1. CASE BeginConfirmRow(r)
  <2>1. PICK seen \in SUBSET Leases : reading' = [reading EXCEPT ![<<"row", r>>] = Judged(r, seen)]
    BY <1>1 DEF BeginConfirmRow, Competing
  <2>2. Judged(r, seen) \in Reading  BY JudgedType DEF Reading
  <2>3. reading' \in [Actors -> Reading]  BY <2>1, <2>2 DEF Actors, Reading
  <2> QED  BY <1>1, <2>3 DEF BeginConfirmRow, Reading, application, activation
<1>2. ASSUME NEW l \in Leases, CommitConfirmRow(r, l) PROVE TypeOK'
  <2> DEFINE x == reading[<<"row", r>>]
             new == [NoLease EXCEPT !.st = "active", !.home = x.home, !.term = claim[r].term,
                                    !.tenants = {x.row.who} \ {NoPerson}, !.via = "activation"]
  <2>1. x \in Reading /\ claim[r] \in Claims  BY DEF Actors, Reading
  <2>2. x.row \in RowValues /\ [x.row EXCEPT !.lease = l] \in RowValues
    BY <2>1 DEF Reading, RowValues
  <2>3. row' \in [Row -> RowValues]  BY <1>2, <2>2 DEF CommitConfirmRow
  <2>4. x.verdict = "insert" => new \in LeaseRow
    <3>1. x.home \in Home \union {NoHome} /\ claim[r].term \in Terms
      BY <2>1 DEF Reading
    <3>2. x.verdict = "insert" => {x.row.who} \ {NoPerson} \in SUBSET Person
      BY <2>1 DEF Reading, RowValues
    <3> HIDE DEF x
    <3> QED  BY <3>1, <3>2, RowsOfTypes DEF LeaseRow
  <2>5. lease' \in [Leases -> LeaseRow]  BY <1>2, <2>4 DEF CommitConfirmRow
  <2>6. reading' \in [Actors -> Reading]
    BY <1>2, RowsOfTypes DEF CommitConfirmRow, Actors
  <2> QED  BY <1>2, <2>3, <2>5, <2>6 DEF CommitConfirmRow, application
<1>3. CASE RejectRow(r)
  <2>0. row[r] \in RowValues  OBVIOUS
  <2>1. [row[r] EXCEPT !.st = "rejected"] \in RowValues  BY <2>0 DEF RowValues
  <2> QED  BY <1>3, <2>1 DEF RejectRow, application
<1>4. ASSUME NEW who \in Person \union {NoPerson}, ResolveResident(r, who) PROVE TypeOK'
  <2>1. [row[r] EXCEPT !.st = "staged", !.who = who, !.candidates = {}] \in RowValues
    <3>1. row[r] \in RowValues  OBVIOUS
    <3> QED  BY <3>1 DEF RowValues
  <2> QED  BY <1>4, <2>1 DEF ResolveResident, application
<1> QED  BY <1>1, <1>2, <1>3, <1>4 DEF RowStep

LEMMA TypeStep == TypeOK /\ [Next]_vars => TypeOK'
<1> SUFFICES ASSUME TypeOK, [Next]_vars PROVE TypeOK'
  OBVIOUS
<1>1. CASE \E a \in Application : ApplicationStep(a)  BY <1>1, ApplicationStepType
<1>2. CASE \E l \in Leases : LeaseStep(l)  BY <1>2, LeaseStepType
<1>3. CASE \E r \in Row : RowStep(r)  BY <1>3, RowStepType
<1>4. CASE \E s \in Setup : EstablishOpening(s)
  <2>1. PICK s \in Setup : EstablishOpening(s)  BY <1>4
  <2>2. Cardinality(Confirmed(s)) \in Int
    BY FS_Subset, FS_CardinalityType DEF Confirmed
  <2> QED  BY <2>1, <2>2 DEF TypeOK, EstablishOpening, application
<1>5. CASE UNCHANGED vars
  BY <1>5 DEF vars, application, activation, TypeOK
<1> QED  BY <1>1, <1>2, <1>3, <1>4, <1>5 DEF Next

\* Every variable keeps its type, for every set of applications, homes, rows and people.
THEOREM TypeCorrect == Spec => []TypeOK
  BY InitType, TypeStep, PTL DEF Spec

-----------------------------------------------------------------------------
(* The home's lock.  A writer in progress has a home, no other writer has   *)
(* the same one, and what it means to insert is still true of the home it   *)
(* holds: whatever competes there was brought back by the approval PATCH.   *)

Exclusive ==
    \A x, y \in Actors :
        reading[x].home # NoHome /\ reading[x].home = reading[y].home => x = y
Prefix ==
    /\ \A k, l \in Leases : k < l /\ lease[k].st = "none" => lease[l].st = "none"
    /\ \A l \in Leases : lease[l].st = "none" => lease[l].tenants = {}
Clear(h, term) == \A l \in Competing(h, term, None) : lease[l].revived
RowStillClear ==
    \A r \in Row : reading[<<"row", r>>].verdict = "insert" =>
        /\ reading[<<"row", r>>].home = claim[r].home
        /\ Clear(claim[r].home, claim[r].term)
TermStillClear ==
    \A a \in Application : reading[<<"term", a>>].verdict = "clean" =>
        /\ reading[<<"term", a>>].home # NoHome
        /\ \A r \in Live(a) : /\ reading[<<"term", a>>].home = rec[r].home
                              /\ Clear(rec[r].home, rec[r].term)
OneLive ==
    \A r, k \in Records :
        rec[r].state = "verified" /\ rec[k].state = "verified" /\ rec[r].app = rec[k].app => r = k
TenancyInv ==
    /\ TypeOK /\ OneLive /\ Exclusive /\ Prefix /\ RowStillClear /\ TermStillClear /\ GovernedTenancies

LEMMA ClearMeans ==
    ASSUME NEW h, NEW term
    PROVE  Clear(h, term) <=>
             \A l \in Leases : Operative(l) /\ lease[l].home = h /\ lease[l].term \cap term # {}
                                 => lease[l].revived
  BY DEF Clear, Competing, Leases

\* A lease inserted at a home nobody reads, or by the writer that reads it, on a clear
\* home: no reader elsewhere is disturbed and the new lease overlaps only what was
\* brought back.  A snapshot lease asks for no clear home.
LEMMA InsertKeeps ==
    ASSUME TenancyInv, TypeOK', NEW l \in Leases, NEW new \in LeaseRow, Fresh(l),
           new.st # "none", lease' = [lease EXCEPT ![l] = new],
           new.via = "snapshot" \/ Clear(new.home, new.term)
    PROVE  /\ Prefix' /\ GovernedTenancies'
           /\ \A h \in Home \union {NoHome} : \A term :
                  h # new.home /\ Clear(h, term) => Clear(h, term)'
<1>1. \A k \in Leases : lease'[k] = IF k = l THEN new ELSE lease[k]
  BY DEF TenancyInv, TypeOK
<1>2. \A k \in Leases : k < l => lease[k].st # "none"  BY DEF Fresh, Leases
<1>3. \A k \in Leases : l < k => lease[k].st = "none"
  BY DEF Fresh, TenancyInv, Prefix
<1>4. Prefix'  BY <1>1, <1>2, <1>3 DEF Prefix, TenancyInv, Leases
<1>5. \A k \in Leases : k # l => (Operative(k)' <=> Operative(k))
  BY <1>1 DEF Operative
<1>6. GovernedTenancies'
  <2> SUFFICES ASSUME NEW j \in Leases, NEW k \in Leases, j < k, Overlap(j, k)'
               PROVE  (lease[k].via = "snapshot" \/ lease[j].revived \/ lease[k].revived)'
    BY DEF GovernedTenancies
  <2>1. CASE j # l /\ k # l
    BY <2>1, <1>1, <1>5 DEF TenancyInv, GovernedTenancies, Overlap
  <2>2. CASE k = l
    <3>1. Operative(j) /\ lease[j].home = new.home /\ lease[j].term \cap new.term # {}
      BY <2>2, <1>1, <1>5 DEF Overlap
    <3>2. Clear(new.home, new.term) => lease[j].revived
      BY <3>1 DEF Clear, Competing, Leases
    <3>3. lease'[k] = new /\ lease'[j] = lease[j]  BY <2>2, <1>1 DEF Leases
    <3>4. CASE new.via = "snapshot"  BY <3>3, <3>4
    <3>5. CASE Clear(new.home, new.term)  BY <3>2, <3>3, <3>5
    <3> QED  BY <3>4, <3>5
  <2>3. CASE j = l
    BY <2>3, <1>1, <1>3, <1>5 DEF Overlap, Operative, Leases
  <2> QED  BY <2>1, <2>2, <2>3 DEF Leases
<1>7. ASSUME NEW h \in Home \union {NoHome}, NEW term, h # new.home, Clear(h, term)
      PROVE  Clear(h, term)'
  BY <1>1, <1>5, <1>7, ClearMeans DEF Clear, Competing, Leases
<1> QED  BY <1>4, <1>6, <1>7

\* A handler that changes a lease where it stands keeps its home, its term and its
\* origin, and makes it operative again only by marking it.
LEMMA EditKeeps ==
    ASSUME TenancyInv, NEW l \in Leases, NEW new \in LeaseRow, lease[l].st # "none",
           new.st # "none", lease' = [lease EXCEPT ![l] = new],
           new.home = lease[l].home, new.term = lease[l].term, new.via = lease[l].via,
           lease[l].revived => new.revived,
           new.st \notin Retired => Operative(l) \/ new.revived
    PROVE  /\ Prefix' /\ GovernedTenancies'
           /\ \A h, term : Clear(h, term) => Clear(h, term)'
<1>1. \A k \in Leases : lease'[k] = IF k = l THEN new ELSE lease[k]
  BY DEF TenancyInv, TypeOK
<1>2. Prefix'  BY <1>1 DEF Prefix, TenancyInv
<1>3. \A k \in Leases : Operative(k)' => Operative(k) \/ lease'[k].revived
  BY <1>1 DEF Operative
<1>4. GovernedTenancies'
  BY <1>1, <1>3 DEF TenancyInv, GovernedTenancies, Overlap
<1>5. ASSUME NEW h, NEW term, Clear(h, term) PROVE Clear(h, term)'
  BY <1>1, <1>3, <1>5, ClearMeans DEF Clear, Competing, Leases
<1> QED  BY <1>2, <1>4, <1>5

\* A writer that begins takes a free home; one that ends gives its home back.
LEMMA LockKeeps ==
    ASSUME TypeOK, Exclusive, NEW x \in Actors, NEW v,
           reading' = [reading EXCEPT ![x] = v], v.home = NoHome \/ SpaceFree(v.home)
    PROVE  Exclusive'
<1>1. \A y \in Actors : reading'[y] = IF y = x THEN v ELSE reading[y]
  BY DEF TypeOK
<1>2. CASE v.home = NoHome  BY <1>1, <1>2 DEF Exclusive
<1>3. CASE SpaceFree(v.home)  BY <1>1, <1>3 DEF Exclusive, SpaceFree
<1> QED  BY <1>2, <1>3

LEMMA TenancyInvInit == Init => TenancyInv
<1> SUFFICES ASSUME Init PROVE TenancyInv
  OBVIOUS
<1>1. TypeOK  BY InitType
<1>2. \A x \in Actors : reading[x].home = NoHome /\ reading[x].verdict = "none"
  BY DEF Init, Idle
<1>3. \A l \in Leases : lease[l].st = "none"  BY DEF Init, NoLease
<1>4. \A r \in Records : rec[r].state = "none"  BY DEF Init, NoRecord
<1>5. OneLive /\ Exclusive /\ Prefix  BY <1>2, <1>3, <1>4 DEF OneLive, Exclusive, Prefix, Init, NoLease
<1>6. RowStillClear /\ TermStillClear  BY <1>2 DEF RowStillClear, TermStillClear, Actors
<1>7. GovernedTenancies  BY <1>3 DEF GovernedTenancies, Overlap, Operative
<1> QED  BY <1>1, <1>5, <1>6, <1>7 DEF TenancyInv

LEMMA TenancyLeaseStep ==
    ASSUME TenancyInv, NEW l \in Leases, LeaseStep(l)
    PROVE  TenancyInv'
<1>1. TypeOK'  BY LeaseStepType DEF TenancyInv
<1>2. UNCHANGED <<application, rec, activation, reading>>
  BY DEF LeaseStep, ActivateEconomicTenancy, VoidHollowLease, LinkResident, RemoveTenant,
         DecideLease, LoadSnapshot
<1>3. OneLive' /\ Exclusive'  BY <1>2 DEF TenancyInv, OneLive, Exclusive
<1>4. ASSUME \A h \in Home \union {NoHome} : \A term :
                 (\E x \in Actors : reading[x].home = h) /\ h # NoHome /\ Clear(h, term)
                     => Clear(h, term)'
      PROVE  RowStillClear' /\ TermStillClear'
  <2>1. UNCHANGED <<rec, claim, reading>>  BY <1>2 DEF activation
  <2>2. RowStillClear'
    <3>1. SUFFICES ASSUME NEW r \in Row, reading[<<"row", r>>].verdict = "insert"
                   PROVE  /\ reading[<<"row", r>>].home = claim[r].home
                          /\ Clear(claim[r].home, claim[r].term)'
      BY <2>1 DEF RowStillClear, Clear, Competing, Operative
    <3>2. claim[r] \in Claims  BY DEF TenancyInv, TypeOK
    <3>3. claim[r].home \in Home  BY <3>2
    <3>4. /\ reading[<<"row", r>>].home = claim[r].home
          /\ Clear(claim[r].home, claim[r].term)
      BY <3>1 DEF TenancyInv, RowStillClear
    <3>5. <<"row", r>> \in Actors  BY DEF Actors
    <3> QED  BY <2>1, <3>3, <3>4, <3>5, <1>4
  <2>3. TermStillClear'
    <3>1. SUFFICES ASSUME NEW a \in Application, reading[<<"term", a>>].verdict = "clean",
                          NEW r \in Live(a)
                   PROVE  /\ reading[<<"term", a>>].home # NoHome
                          /\ reading[<<"term", a>>].home = rec[r].home
                          /\ Clear(rec[r].home, rec[r].term)'
      BY <2>1 DEF TenancyInv, TermStillClear, Clear, Competing, Operative, Live
    <3>2. /\ reading[<<"term", a>>].home # NoHome
          /\ reading[<<"term", a>>].home = rec[r].home
          /\ Clear(rec[r].home, rec[r].term)
      BY <3>1 DEF TenancyInv, TermStillClear
    <3>3. rec[r] \in RecordRow  BY DEF Live, TenancyInv, TypeOK
    <3>4. rec[r].home \in Home \union {NoHome}  BY <3>3 DEF RecordRow
    <3>5. <<"term", a>> \in Actors  BY DEF Actors
    <3> QED  BY <2>1, <3>2, <3>4, <3>5, <1>4
  <2> QED  BY <2>2, <2>3
<1>5. CASE \E h \in Home, t \in Terms, st \in {"active", "pending"}, people \in People :
               LoadSnapshot(l, h, t, st, people)
  <2>1. PICK h \in Home, t \in Terms, st \in {"active", "pending"}, people \in People :
            LoadSnapshot(l, h, t, st, people)
    BY <1>5
  <2> DEFINE new == [NoLease EXCEPT !.st = st, !.home = h, !.term = t,
                                    !.tenants = people, !.via = "snapshot"]
  <2>2. new \in LeaseRow  BY RowsOfTypes, PeopleAreSets DEF LeaseRow
  <2>3. new.st # "none" /\ new.via = "snapshot" /\ new.home = h  BY DEF NoLease
  <2>4. lease' = [lease EXCEPT ![l] = new] /\ Fresh(l) /\ SpaceFree(h)  BY <2>1 DEF LoadSnapshot
  <2> HIDE DEF new
  <2>5. /\ Prefix' /\ GovernedTenancies'
        /\ \A g \in Home \union {NoHome} : \A term : g # h /\ Clear(g, term) => Clear(g, term)'
    BY <1>1, <2>2, <2>3, <2>4, InsertKeeps
  <2>6. \A x \in Actors : reading[x].home # h  BY <2>4 DEF SpaceFree
  <2>7. RowStillClear' /\ TermStillClear'  BY <1>4, <2>5, <2>6
  <2> QED  BY <1>1, <1>3, <2>5, <2>7 DEF TenancyInv
<1>6. ASSUME NEW new \in LeaseRow, lease[l].st # "none", new.st # "none",
             lease' = [lease EXCEPT ![l] = new],
             new.home = lease[l].home, new.term = lease[l].term, new.via = lease[l].via,
             lease[l].revived => new.revived,
             new.st \notin Retired => Operative(l) \/ new.revived
      PROVE  TenancyInv'
  <2>1. Prefix' /\ GovernedTenancies' /\ \A h, term : Clear(h, term) => Clear(h, term)'
    BY <1>6, EditKeeps
  <2>2. RowStillClear' /\ TermStillClear'  BY <1>4, <2>1
  <2> QED  BY <1>1, <1>3, <2>1, <2>2 DEF TenancyInv
<1>7. lease[l] \in LeaseRow  BY DEF TenancyInv, TypeOK
<1>8. CASE ActivateEconomicTenancy(l)
  <2> DEFINE new == [lease[l] EXCEPT !.st = "active", !.econ = TRUE]
  <2>1. new \in LeaseRow  BY <1>7 DEF LeaseRow
  <2>2. lease' = [lease EXCEPT ![l] = new] /\ lease[l].st = "pending"
    BY <1>8 DEF ActivateEconomicTenancy
  <2>3. /\ new.st = "active" /\ new.home = lease[l].home /\ new.term = lease[l].term
        /\ new.via = lease[l].via /\ new.revived = lease[l].revived
    BY <1>7 DEF LeaseRow
  <2> HIDE DEF new
  <2>4. Operative(l)  BY <2>2 DEF Operative, Retired
  <2> QED  BY <2>1, <2>2, <2>3, <2>4, <1>6
<1>9. CASE VoidHollowLease(l)
  <2> DEFINE new == [lease[l] EXCEPT !.st = "cancelled"]
  <2>1. new \in LeaseRow  BY <1>7 DEF LeaseRow
  <2>2. lease' = [lease EXCEPT ![l] = new] /\ Operative(l)  BY <1>9 DEF VoidHollowLease
  <2>3. /\ new.st = "cancelled" /\ new.home = lease[l].home /\ new.term = lease[l].term
        /\ new.via = lease[l].via /\ new.revived = lease[l].revived
    BY <1>7 DEF LeaseRow
  <2> HIDE DEF new
  <2> QED  BY <2>1, <2>2, <2>3, <1>6 DEF Operative
<1>10. ASSUME NEW people \in SUBSET Person, lease[l].st # "none",
              lease' = [lease EXCEPT ![l] = [lease[l] EXCEPT !.tenants = people]]
       PROVE  TenancyInv'
  <2> DEFINE new == [lease[l] EXCEPT !.tenants = people]
  <2>1. new \in LeaseRow  BY <1>7 DEF LeaseRow
  <2>2. lease' = [lease EXCEPT ![l] = new]  BY <1>10
  <2>3. /\ new.st = lease[l].st /\ new.home = lease[l].home /\ new.term = lease[l].term
        /\ new.via = lease[l].via /\ new.revived = lease[l].revived
    BY <1>7 DEF LeaseRow
  <2> HIDE DEF new
  <2>4. new.st # "none" /\ (new.st \notin Retired => Operative(l))
    BY <2>3, <1>10 DEF Operative
  <2>5. lease[l].st # "none" /\ (lease[l].revived => new.revived)  BY <2>3, <1>10
  <2> QED  BY <2>1, <2>2, <2>3, <2>4, <2>5, <1>6
<1>11. ASSUME NEW p \in Person, LinkResident(l, p) PROVE TenancyInv'
  <2>1. lease' = [lease EXCEPT ![l] = [lease[l] EXCEPT !.tenants = {p}]] /\ lease[l].st # "none"
    BY <1>11 DEF LinkResident
  <2>2. {p} \in SUBSET Person  OBVIOUS
  <2> QED  BY <2>1, <2>2, <1>10
<1>12. ASSUME NEW p \in Person, RemoveTenant(l, p) PROVE TenancyInv'
  <2>1. lease' = [lease EXCEPT ![l] = [lease[l] EXCEPT !.tenants = lease[l].tenants \ {p}]]
    BY <1>12 DEF RemoveTenant
  <2>2. lease[l].tenants \ {p} \in SUBSET Person  BY <1>7 DEF LeaseRow
  <2>3. lease[l].st # "none"  BY <1>12 DEF RemoveTenant, TenancyInv, Prefix
  <2> QED  BY <2>1, <2>2, <2>3, <1>10
<1>13. ASSUME NEW st \in {"active", "rejected"}, DecideLease(l, st) PROVE TenancyInv'
  <2> DEFINE new == [lease[l] EXCEPT !.st = st, !.revived = lease[l].revived \/ ~Operative(l)]
  <2>1. new \in LeaseRow
    <3>1. (lease[l].revived \/ ~Operative(l)) \in BOOLEAN  OBVIOUS
    <3> QED  BY <3>1, <1>7 DEF LeaseRow
  <2>2. lease' = [lease EXCEPT ![l] = new] /\ lease[l].st # "none"  BY <1>13 DEF DecideLease
  <2>3. /\ new.st = st /\ new.home = lease[l].home /\ new.term = lease[l].term
        /\ new.via = lease[l].via /\ new.revived = (lease[l].revived \/ ~Operative(l))
    BY <1>7 DEF LeaseRow
  <2> HIDE DEF new
  <2>4. st # "none"  OBVIOUS
  <2> QED  BY <2>1, <2>2, <2>3, <2>4, <1>6
<1> QED  BY <1>5, <1>8, <1>9, <1>11, <1>12, <1>13 DEF LeaseStep

\* Steps that leave every lease, and the records that are live, as they are.
LEMMA TenancyReads ==
    ASSUME TenancyInv, TypeOK', OneLive', UNCHANGED <<lease, claim>>, NEW x \in Actors, NEW v,
           reading' = [reading EXCEPT ![x] = v], v.home = NoHome \/ SpaceFree(v.home),
           \A r \in Row : x = <<"row", r>> /\ v.verdict = "insert" =>
               v.home = claim[r].home /\ Clear(claim[r].home, claim[r].term),
           \A a \in Application : x = <<"term", a>> /\ v.verdict = "clean" =>
               /\ v.home # NoHome
               /\ \A r \in Live(a) : v.home = rec[r].home /\ Clear(rec[r].home, rec[r].term),
           UNCHANGED rec
    PROVE  TenancyInv'
<1>1. \A y \in Actors : reading'[y] = IF y = x THEN v ELSE reading[y]
  BY DEF TenancyInv, TypeOK
<1>2. Exclusive'  BY LockKeeps DEF TenancyInv
<1>3. Prefix' /\ GovernedTenancies'
  BY DEF TenancyInv, Prefix, GovernedTenancies, Overlap, Operative
<1>4. \A h, term : Clear(h, term) => Clear(h, term)'
  BY DEF Clear, Competing, Operative
<1>5. RowStillClear'
  BY <1>1, <1>4 DEF TenancyInv, RowStillClear, Actors
<1>6. TermStillClear'
  <2>1. SUFFICES ASSUME NEW a \in Application, reading'[<<"term", a>>].verdict = "clean"
                 PROVE  /\ reading'[<<"term", a>>].home # NoHome
                        /\ \A r \in Live(a)' :
                              /\ reading'[<<"term", a>>].home = rec'[r].home
                              /\ Clear(rec[r].home, rec[r].term)'
    BY DEF TermStillClear
  <2>2. <<"term", a>> \in Actors  BY DEF Actors
  <2>3. /\ reading'[<<"term", a>>].home # NoHome
        /\ \A r \in Live(a) : /\ reading'[<<"term", a>>].home = rec[r].home
                              /\ Clear(rec[r].home, rec[r].term)
    <3>1. CASE x = <<"term", a>>  BY <2>1, <3>1, <1>1
    <3>2. CASE x # <<"term", a>>
      BY <2>1, <2>2, <3>2, <1>1 DEF TenancyInv, TermStillClear
    <3> QED  BY <3>1, <3>2
  <2>4. \A r \in Live(a)' : r \in Live(a) /\ rec'[r] = rec[r]  BY DEF Live
  <2> QED  BY <2>3, <2>4, <1>4
<1> QED  BY <1>2, <1>3, <1>5, <1>6 DEF TenancyInv

\* Steps that insert a lease of one home, or none, and change the records of one
\* application that nobody is confirming a term of.
LEMMA TenancyRecords ==
    ASSUME TenancyInv, TypeOK', OneLive', UNCHANGED <<claim, reading>>,
           NEW a \in Application, AppFree(a),
           \A r \in Records :
               \/ rec'[r] = rec[r]
               \/ rec[r].state = "none" /\ rec'[r].app = a
               \/ rec[r].app = a /\ rec'[r].app = a,
           Prefix' /\ GovernedTenancies',
           NEW h \in Home, SpaceFree(h) \/ UNCHANGED lease,
           \A g \in Home \union {NoHome} : \A term : g # h /\ Clear(g, term) => Clear(g, term)'
    PROVE  TenancyInv'
<1>1. Exclusive'  BY DEF TenancyInv, Exclusive
<1>2. \A x \in Actors : \A term : reading[x].home # NoHome /\ Clear(reading[x].home, term)
          => Clear(reading[x].home, term)'
  <2>1. CASE UNCHANGED lease  BY <2>1 DEF Clear, Competing, Operative
  <2>2. CASE SpaceFree(h)
    <3>1. TAKE x \in Actors
    <3>5. TAKE term
    <3>2. reading[x] \in Reading  BY DEF TenancyInv, TypeOK
    <3>3. reading[x].home \in Home \union {NoHome} /\ reading[x].home # h
      BY <2>2, <3>2 DEF Reading, SpaceFree
    <3> QED  BY <3>3
  <2> QED  BY <2>1, <2>2
<1>3. RowStillClear'
  <2>1. SUFFICES ASSUME NEW r \in Row, reading[<<"row", r>>].verdict = "insert"
                 PROVE  /\ reading[<<"row", r>>].home = claim[r].home
                        /\ Clear(reading[<<"row", r>>].home, claim[r].term)'
    BY DEF RowStillClear, Clear, Competing, Operative
  <2>2. /\ reading[<<"row", r>>].home = claim[r].home
        /\ Clear(claim[r].home, claim[r].term)
    BY <2>1 DEF TenancyInv, RowStillClear
  <2>3. <<"row", r>> \in Actors  BY DEF Actors
  <2>4. claim[r] \in Claims  BY DEF TenancyInv, TypeOK
  <2>5. claim[r].home # NoHome  BY <2>4
  <2> QED  BY <2>2, <2>3, <2>5, <1>2
<1>4. TermStillClear'
  <2>1. SUFFICES ASSUME NEW b \in Application, reading[<<"term", b>>].verdict = "clean"
                 PROVE  /\ reading[<<"term", b>>].home # NoHome
                        /\ \A r \in Live(b)' :
                              /\ reading[<<"term", b>>].home = rec'[r].home
                              /\ Clear(rec[r].home, rec[r].term)'
    BY DEF TermStillClear
  <2>2. /\ reading[<<"term", b>>].home # NoHome
        /\ \A r \in Live(b) : /\ reading[<<"term", b>>].home = rec[r].home
                              /\ Clear(rec[r].home, rec[r].term)
    BY <2>1 DEF TenancyInv, TermStillClear
  <2>3. b # a  BY <2>2 DEF AppFree
  <2>4. ASSUME NEW r \in Live(b)' PROVE r \in Live(b) /\ rec'[r] = rec[r]
    BY <2>3, <2>4 DEF Live
  <2>5. <<"term", b>> \in Actors  BY DEF Actors
  <2>6. ASSUME NEW r \in Live(b)' PROVE Clear(rec[r].home, rec[r].term)'
    <3>1. rec[r].home = reading[<<"term", b>>].home /\ Clear(rec[r].home, rec[r].term)
      BY <2>2, <2>4
    <3>2. rec'[r] = rec[r]  BY <2>4
    <3> QED  BY <3>1, <3>2, <2>2, <2>5, <1>2
  <2> QED  BY <2>2, <2>4, <2>6
<1> QED  BY <1>1, <1>3, <1>4 DEF TenancyInv

LEMMA TenancyApplicationStep ==
    ASSUME TenancyInv, NEW a \in Application, ApplicationStep(a)
    PROVE  TenancyInv'
<1>1. TypeOK'  BY ApplicationStepType DEF TenancyInv
<1>2. ASSUME UNCHANGED <<rec, lease, claim, reading>> PROVE TenancyInv'
  BY <1>1, <1>2 DEF TenancyInv, OneLive, Exclusive, Prefix, RowStillClear, TermStillClear,
                    GovernedTenancies, Overlap, Operative, Clear, Competing, Live
<1>3. UNCHANGED rec => OneLive'  BY DEF TenancyInv, OneLive
<1>4. CASE (\E t \in Terms : Prepare(a, t)) \/ (\E signer \in Signers(a) : SignFree(a, signer))
           \/ Approve(a) \/ Decline(a) \/ Reevaluate(a)
  BY <1>4, <1>2 DEF Prepare, SignFree, Approve, Decline, Reevaluate, activation
<1>5. CASE BeginSign(a)
  <2> DEFINE v == [Idle EXCEPT !.home = NamedHome[a],
                               !.verdict = IF Holders(NamedHome[a]) \subseteq {a}
                                           THEN "clean" ELSE "refused"]
  <2>1. reading' = [reading EXCEPT ![<<"sign", a>>] = v] /\ SpaceFree(NamedHome[a])
    BY <1>5 DEF BeginSign
  <2>2. v.home = NamedHome[a] /\ <<"sign", a>> \in Actors  BY DEF Idle, Actors
  <2>3. UNCHANGED <<lease, claim, rec>>  BY <1>5 DEF BeginSign, activation
  <2>4. /\ \A r \in Row : <<"sign", a>> # <<"row", r>>
        /\ \A b \in Application : <<"sign", a>> # <<"term", b>>
    OBVIOUS
  <2> HIDE DEF v
  <2> QED  BY <1>1, <1>3, <2>1, <2>2, <2>3, <2>4, TenancyReads
<1>6. ASSUME NEW x \in Actors, reading' = [reading EXCEPT ![x] = Idle],
             UNCHANGED <<lease, claim, rec>>
      PROVE  TenancyInv'
  <2>1. Idle.home = NoHome /\ Idle.verdict = "none"  BY DEF Idle
  <2> QED  BY <1>1, <1>3, <1>6, <2>1, TenancyReads
<1>7. CASE CommitSign(a) \/ RefuseTerm(a)
  <2>1. <<"sign", a>> \in Actors /\ <<"term", a>> \in Actors  BY DEF Actors
  <2>2. UNCHANGED <<lease, claim, rec>>  BY <1>7 DEF CommitSign, RefuseTerm, activation
  <2>3. \/ reading' = [reading EXCEPT ![<<"sign", a>>] = Idle]
        \/ reading' = [reading EXCEPT ![<<"term", a>>] = Idle]
    BY <1>7 DEF CommitSign, RefuseTerm
  <2> QED  BY <2>1, <2>2, <2>3, <1>6
<1>8. CASE BeginConfirmTerm(a)
  <2>1. PICK r \in Live(a) :
            /\ AppFree(a) /\ SpaceFree(rec[r].home)
            /\ reading' = [reading EXCEPT ![<<"term", a>>] =
                  [Idle EXCEPT !.home = rec[r].home,
                               !.verdict = IF Unblocked(a, rec[r].home, rec[r].term, None)
                                           THEN "clean" ELSE "refused"]]
    BY <1>8 DEF BeginConfirmTerm
  <2> DEFINE v == [Idle EXCEPT !.home = rec[r].home,
                               !.verdict = IF Unblocked(a, rec[r].home, rec[r].term, None)
                                           THEN "clean" ELSE "refused"]
  <2>2. v.home = rec[r].home /\ v.verdict \in {"clean", "refused"}  BY DEF Idle
  <2>3. UNCHANGED <<lease, claim, rec>>  BY <1>8 DEF BeginConfirmTerm, application, activation
  <2>4. rec[r].home # NoHome  BY <2>1 DEF AppFree, SpaceFree, Actors
  <2>5. v.verdict = "clean" => Clear(rec[r].home, rec[r].term)
    BY DEF Unblocked, Clear, Idle
  <2>6. \A k \in Live(a) : k = r  BY <2>1 DEF TenancyInv, OneLive, Live
  <2>7. <<"term", a>> \in Actors /\ reading' = [reading EXCEPT ![<<"term", a>>] = v]
    BY <2>1 DEF Actors
  <2>8. /\ \A k \in Row : <<"term", a>> # <<"row", k>>
        /\ \A b \in Application : <<"term", a>> = <<"term", b>> => a = b
    OBVIOUS
  <2> HIDE DEF v
  <2> QED  BY <1>1, <1>3, <2>1, <2>2, <2>3, <2>4, <2>5, <2>6, <2>7, <2>8, TenancyReads
<1>9. ASSUME NEW h \in Home, NEW t \in Terms, NEW r \in Records, Verify(a, h, t, r) PROVE TenancyInv'
  <2> DEFINE new == [NoRecord EXCEPT !.app = a, !.home = h, !.term = t, !.state = "verified"]
  <2>0. new.app = a /\ new.state = "verified"  BY DEF NoRecord
  <2>1. /\ AppFree(a) /\ FreshRecord(r) /\ UNCHANGED <<lease, claim, reading>>
        /\ rec' = [k \in Records |-> IF k = r THEN new
                       ELSE IF k \in Live(a) THEN [rec[k] EXCEPT !.state = "superseded"] ELSE rec[k]]
    BY <1>9 DEF Verify, activation
  <2> HIDE DEF new
  <2>2. \A k \in Records : rec[k] \in RecordRow  BY DEF TenancyInv, TypeOK
  <2>3. \A k \in Live(a) : rec'[k].app = a /\ (k # r => rec'[k].state = "superseded")
    BY <2>0, <2>1, <2>2 DEF Live, RecordRow
  <2>4. \A k \in Records : k # r /\ k \notin Live(a) => rec'[k] = rec[k]  BY <2>1
  <2>5. OneLive'  BY <2>0, <2>1, <2>3, <2>4 DEF TenancyInv, OneLive, Live
  <2>6. \A k \in Records :
            \/ rec'[k] = rec[k]
            \/ rec[k].state = "none" /\ rec'[k].app = a
            \/ rec[k].app = a /\ rec'[k].app = a
    BY <2>0, <2>1, <2>3, <2>4 DEF FreshRecord, Live
  <2>7. Prefix' /\ GovernedTenancies' /\ \A g, term : Clear(g, term) => Clear(g, term)'
    BY <2>1 DEF TenancyInv, Prefix, GovernedTenancies, Overlap, Operative, Clear, Competing
  <2> QED  BY <1>1, <2>1, <2>5, <2>6, <2>7, TenancyRecords
<1>10. ASSUME NEW h \in Home, NEW r \in Records, NEW l \in Leases, NEW people \in People,
              Execute(a, h, r, l, people)
       PROVE TenancyInv'
  <2> DEFINE clean == Unblocked(a, h, agreed[a], None)
                      /\ (IF a \in approved THEN status[a] ELSE "lease_ready") = "lease_ready"
                      /\ \A k \in Leases : lease[k].app # a
             new == [NoRecord EXCEPT !.app = a, !.home = h, !.term = agreed[a],
                                     !.state = "verified", !.lease = IF clean THEN l ELSE None]
             made == Anchor(a, h, agreed[a], people)
  <2>1. /\ AppFree(a) /\ SpaceFree(h) /\ Live(a) = {} /\ FreshRecord(r) /\ Fresh(l)
        /\ UNCHANGED <<claim, reading>>
        /\ rec' = [rec EXCEPT ![r] = new]
        /\ lease' = IF clean THEN [lease EXCEPT ![l] = made] ELSE lease
    BY <1>10 DEF Execute, activation
  <2>2. new.app = a /\ new.state = "verified"  BY DEF NoRecord
  <2>3. made \in LeaseRow /\ made.st = "pending" /\ made.home = h /\ made.term = agreed[a]
    <3>1. agreed[a] \in Terms \union {{}}  BY DEF TenancyInv, TypeOK
    <3> QED  BY <3>1, RowsOfTypes, PeopleAreSets DEF Anchor, NoLease
  <2>4. clean => Clear(h, agreed[a])  BY DEF Unblocked, Clear
  <2> HIDE DEF new, made, clean
  <2>5. \A k \in Records : rec'[k] = IF k = r THEN new ELSE rec[k]
    BY <2>1 DEF TenancyInv, TypeOK
  <2>6. OneLive'  BY <2>1, <2>2, <2>5 DEF TenancyInv, OneLive, Live
  <2>7. /\ Prefix' /\ GovernedTenancies'
        /\ \A g \in Home \union {NoHome} : \A term : g # h /\ Clear(g, term) => Clear(g, term)'
    <3>1. CASE clean  BY <3>1, <1>1, <2>1, <2>3, <2>4, InsertKeeps
    <3>2. CASE ~clean
      BY <3>2, <2>1 DEF TenancyInv, Prefix, GovernedTenancies, Overlap, Operative, Clear, Competing
    <3> QED  BY <3>1, <3>2
  <2>8. \A k \in Records :
            \/ rec'[k] = rec[k]
            \/ rec[k].state = "none" /\ rec'[k].app = a
            \/ rec[k].app = a /\ rec'[k].app = a
    BY <2>1, <2>2, <2>5 DEF FreshRecord
  <2> QED  BY <1>1, <2>1, <2>6, <2>7, <2>8, TenancyRecords
<1>11. ASSUME NEW l \in Leases, NEW people \in People, CommitConfirmTerm(a, l, people)
       PROVE TenancyInv'
  <2>1. PICK r \in Live(a) :
            /\ reading[<<"term", a>>].verdict = "clean" /\ Fresh(l)
            /\ lease' = [lease EXCEPT ![l] = Anchor(a, rec[r].home, rec[r].term, people)]
            /\ rec' = [rec EXCEPT ![r].lease = l]
            /\ reading' = [reading EXCEPT ![<<"term", a>>] = Idle]
            /\ UNCHANGED claim
    BY <1>11 DEF CommitConfirmTerm, activation
  <2> DEFINE h == rec[r].home
             t == rec[r].term
             made == Anchor(a, h, t, people)
  <2>2. rec[r] \in RecordRow  BY DEF Live, TenancyInv, TypeOK
  <2>3. made \in LeaseRow /\ made.st = "pending" /\ made.home = h /\ made.term = t
    BY <2>2, PeopleAreSets, RowsOfTypes DEF Anchor, LeaseRow, RecordRow, NoLease
  <2>4. h # NoHome /\ reading[<<"term", a>>].home = h /\ Clear(h, t)
    BY <2>1 DEF TenancyInv, TermStillClear
  <2>15. lease' = [lease EXCEPT ![l] = made] /\ Fresh(l)  BY <2>1
  <2> HIDE DEF made, h, t
  <2>5. /\ Prefix' /\ GovernedTenancies'
        /\ \A g \in Home \union {NoHome} : \A term : g # h /\ Clear(g, term) => Clear(g, term)'
    BY <1>1, <2>3, <2>4, <2>15, InsertKeeps
  <2>6. \A k \in Records : /\ rec'[k].app = rec[k].app /\ rec'[k].state = rec[k].state
                           /\ rec'[k].home = rec[k].home /\ rec'[k].term = rec[k].term
    <3>1. \A k \in Records : rec[k] \in RecordRow  BY DEF TenancyInv, TypeOK
    <3>2. rec \in [Records -> RecordRow]  BY DEF TenancyInv, TypeOK
    <3>3. rec' = [rec EXCEPT ![r] = [rec[r] EXCEPT !.lease = l]]  BY <2>1
    <3> QED  BY <3>1, <3>2, <3>3 DEF RecordRow
  <2>7. OneLive'  BY <2>6 DEF TenancyInv, OneLive
  <2>8. Idle.home = NoHome /\ Idle.verdict = "none" /\ <<"term", a>> \in Actors  BY DEF Idle, Actors
  <2>9. Exclusive'  BY <2>1, <2>8, LockKeeps DEF TenancyInv
  <2>10. \A y \in Actors : reading'[y] = IF y = <<"term", a>> THEN Idle ELSE reading[y]
    BY <2>1 DEF TenancyInv, TypeOK
  <2>11. \A y \in Actors : y # <<"term", a>> => reading[y].home # h
    BY <2>4, <2>8 DEF TenancyInv, Exclusive
  <2>12. RowStillClear'
    <3>1. SUFFICES ASSUME NEW k \in Row, reading'[<<"row", k>>].verdict = "insert"
                   PROVE  /\ reading'[<<"row", k>>].home = claim[k].home
                          /\ Clear(claim[k].home, claim[k].term)'
      BY <2>1 DEF RowStillClear
    <3>2. <<"row", k>> \in Actors /\ <<"row", k>> # <<"term", a>>  BY DEF Actors
    <3>3. reading'[<<"row", k>>] = reading[<<"row", k>>]  BY <3>2, <2>10
    <3>4. reading[<<"row", k>>].home = claim[k].home /\ Clear(claim[k].home, claim[k].term)
      BY <3>1, <3>3 DEF TenancyInv, RowStillClear
    <3>5. claim[k] \in Claims  BY DEF TenancyInv, TypeOK
    <3>6. claim[k].home \in Home /\ claim[k].home # h  BY <3>2, <3>4, <3>5, <2>11
    <3> QED  BY <2>1, <2>5, <3>3, <3>4, <3>6
  <2>13. TermStillClear'
    <3>1. SUFFICES ASSUME NEW b \in Application, reading'[<<"term", b>>].verdict = "clean"
                   PROVE  /\ reading'[<<"term", b>>].home # NoHome
                          /\ \A k \in Live(b)' :
                                /\ reading'[<<"term", b>>].home = rec'[k].home
                                /\ Clear(rec[k].home, rec[k].term)'
      BY DEF TermStillClear
    <3>2. <<"term", b>> \in Actors  BY DEF Actors
    <3>3. b # a  BY <3>1, <3>2, <2>8, <2>10
    <3>4. reading'[<<"term", b>>] = reading[<<"term", b>>] /\ reading[<<"term", b>>].home # h
      BY <3>2, <3>3, <2>10, <2>11
    <3>5. /\ reading[<<"term", b>>].home # NoHome
          /\ \A k \in Live(b) : /\ reading[<<"term", b>>].home = rec[k].home
                                /\ Clear(rec[k].home, rec[k].term)
      BY <3>1, <3>4 DEF TenancyInv, TermStillClear
    <3>6. ASSUME NEW k \in Live(b)'
          PROVE  /\ reading'[<<"term", b>>].home = rec'[k].home
                 /\ Clear(rec[k].home, rec[k].term)'
      <4>1. k \in Live(b) /\ rec'[k].home = rec[k].home /\ rec'[k].term = rec[k].term
        BY <2>6 DEF Live
      <4>2. rec[k] \in RecordRow  BY DEF Live, TenancyInv, TypeOK
      <4>3. rec[k].home \in Home \union {NoHome} /\ rec[k].home # h /\ Clear(rec[k].home, rec[k].term)
        BY <4>1, <4>2, <3>4, <3>5 DEF RecordRow
      <4> QED  BY <2>5, <3>4, <3>5, <4>1, <4>3
    <3> QED  BY <3>4, <3>5, <3>6
  <2> QED  BY <1>1, <2>5, <2>7, <2>9, <2>12, <2>13 DEF TenancyInv
<1> QED  BY <1>4, <1>5, <1>7, <1>8, <1>9, <1>10, <1>11 DEF ApplicationStep

LEMMA TenancyRowStep ==
    ASSUME TenancyInv, NEW r \in Row, RowStep(r)
    PROVE  TenancyInv'
<1>1. TypeOK'  BY RowStepType DEF TenancyInv
<1>2. <<"row", r>> \in Actors  BY DEF Actors
<1>3. UNCHANGED <<rec, claim>>
  BY DEF RowStep, BeginConfirmRow, CommitConfirmRow, RejectRow, ResolveResident, activation
<1>4. OneLive'  BY <1>3 DEF TenancyInv, OneLive
<1>5. CASE RejectRow(r) \/ \E who \in Person \union {NoPerson} : ResolveResident(r, who)
  <2>1. UNCHANGED <<lease, reading>>  BY <1>5 DEF RejectRow, ResolveResident
  <2> QED
    BY <1>1, <1>3, <1>4, <2>1
       DEF TenancyInv, Exclusive, Prefix, RowStillClear, TermStillClear,
           GovernedTenancies, Overlap, Operative, Clear, Competing, Live
<1>6. CASE BeginConfirmRow(r)
  <2> DEFINE window == IF claim[r].dated \/ claim[r].who = Vacant THEN claim[r].term ELSE Observed
             seen == Competing(claim[r].home, window, None)
             v == Judged(r, seen)
  <2>1. seen \in SUBSET Leases  BY DEF Competing
  <2>2. v.home = claim[r].home
        /\ (v.verdict = "insert" => claim[r].dated /\ seen = {})
        /\ v.verdict \in {"insert", "record"}
    <3>1. TypeOK  BY DEF TenancyInv
    <3> HIDE DEF seen
    <3>2. /\ Judged(r, seen) \in [home : {claim[r].home}, verdict : {"insert", "record"}, row : RowValues]
          /\ Judged(r, seen).verdict = "insert" =>
                Judged(r, seen).row.who # "undecided" /\ claim[r].dated /\ seen = {}
      BY <2>1, <3>1, JudgedType
    <3> QED  BY <3>2
  <2>3. v.verdict = "insert" => Clear(claim[r].home, claim[r].term)
    BY <2>2 DEF Clear
  <2>4. /\ SpaceFree(claim[r].home) /\ reading' = [reading EXCEPT ![<<"row", r>>] = v]
        /\ UNCHANGED lease
    BY <1>6 DEF BeginConfirmRow
  <2>5. /\ \A k \in Row : <<"row", r>> = <<"row", k>> => r = k
        /\ \A b \in Application : <<"row", r>> # <<"term", b>>
    OBVIOUS
  <2> HIDE DEF v
  <2> QED  BY <1>1, <1>2, <1>3, <1>4, <2>2, <2>3, <2>4, <2>5, TenancyReads
<1>7. ASSUME NEW l \in Leases, CommitConfirmRow(r, l) PROVE TenancyInv'
  <2> DEFINE x == reading[<<"row", r>>]
             made == [NoLease EXCEPT !.st = "active", !.home = x.home, !.term = claim[r].term,
                                     !.tenants = {x.row.who} \ {NoPerson}, !.via = "activation"]
  <2>1. Idle.home = NoHome /\ Idle.verdict = "none"  BY DEF Idle
  <2>2. reading' = [reading EXCEPT ![<<"row", r>>] = Idle]  BY <1>7 DEF CommitConfirmRow
  <2>3. CASE x.verdict = "record"
    <3>1. UNCHANGED lease  BY <1>7, <2>3 DEF CommitConfirmRow
    <3> QED  BY <1>1, <1>2, <1>3, <1>4, <2>1, <2>2, <3>1, TenancyReads
  <2>4. CASE x.verdict = "insert"
    <3> DEFINE h == claim[r].home
               t == claim[r].term
    <3>1. x.home = h /\ Clear(h, t)  BY <2>4 DEF TenancyInv, RowStillClear
    <3>2. lease' = [lease EXCEPT ![l] = made] /\ Fresh(l)  BY <1>7, <2>4 DEF CommitConfirmRow
    <3>3. claim[r] \in Claims /\ x \in Reading /\ lease' \in [Leases -> LeaseRow]
      BY <1>1, <1>2 DEF TenancyInv, TypeOK
    <3>4. h \in Home /\ h # NoHome  BY <3>3
    <3>5. made \in LeaseRow
      <4>1. lease'[l] = made  BY <3>2 DEF TenancyInv, TypeOK
      <4> QED  BY <3>3, <4>1
    <3>6. made.st = "active" /\ made.home = h /\ made.term = t  BY <3>1 DEF NoLease
    <3> HIDE DEF made, h, t, x
    <3>7. /\ Prefix' /\ GovernedTenancies'
          /\ \A g \in Home \union {NoHome} : \A term : g # h /\ Clear(g, term) => Clear(g, term)'
      BY <1>1, <3>1, <3>2, <3>5, <3>6, InsertKeeps
    <3>8. Exclusive'  BY <1>2, <2>1, <2>2, LockKeeps DEF TenancyInv
    <3>9. \A y \in Actors : reading'[y] = IF y = <<"row", r>> THEN Idle ELSE reading[y]
      BY <2>2 DEF TenancyInv, TypeOK
    <3>10. \A y \in Actors : y # <<"row", r>> => reading[y].home # h
      BY <1>2, <3>1, <3>4 DEF TenancyInv, Exclusive, x
    <3>11. RowStillClear'
      <4>1. SUFFICES ASSUME NEW k \in Row, reading'[<<"row", k>>].verdict = "insert"
                     PROVE  /\ reading'[<<"row", k>>].home = claim[k].home
                            /\ Clear(claim[k].home, claim[k].term)'
        BY <1>3 DEF RowStillClear
      <4>2. <<"row", k>> \in Actors /\ k # r  BY <4>1, <1>2, <2>1, <3>9 DEF Actors
      <4>3. reading'[<<"row", k>>] = reading[<<"row", k>>]  BY <4>2, <3>9
      <4>4. reading[<<"row", k>>].home = claim[k].home /\ Clear(claim[k].home, claim[k].term)
        BY <4>1, <4>3 DEF TenancyInv, RowStillClear
      <4>5. claim[k] \in Claims  BY DEF TenancyInv, TypeOK
      <4>6. claim[k].home \in Home /\ claim[k].home # h  BY <4>2, <4>4, <4>5, <3>10
      <4> QED  BY <1>3, <3>7, <4>3, <4>4, <4>6
    <3>12. TermStillClear'
      <4>1. SUFFICES ASSUME NEW b \in Application, reading'[<<"term", b>>].verdict = "clean"
                     PROVE  /\ reading'[<<"term", b>>].home # NoHome
                            /\ \A k \in Live(b)' :
                                  /\ reading'[<<"term", b>>].home = rec'[k].home
                                  /\ Clear(rec[k].home, rec[k].term)'
        BY DEF TermStillClear
      <4>2. <<"term", b>> \in Actors /\ <<"term", b>> # <<"row", r>>  BY DEF Actors
      <4>3. reading'[<<"term", b>>] = reading[<<"term", b>>] /\ reading[<<"term", b>>].home # h
        BY <4>2, <3>9, <3>10
      <4>4. /\ reading[<<"term", b>>].home # NoHome
            /\ \A k \in Live(b) : /\ reading[<<"term", b>>].home = rec[k].home
                                  /\ Clear(rec[k].home, rec[k].term)
        BY <4>1, <4>3 DEF TenancyInv, TermStillClear
      <4>5. ASSUME NEW k \in Live(b)'
            PROVE  /\ reading'[<<"term", b>>].home = rec'[k].home
                   /\ Clear(rec[k].home, rec[k].term)'
        <5>1. k \in Live(b) /\ rec' = rec  BY <1>3 DEF Live
        <5>2. rec[k] \in RecordRow  BY <5>1 DEF Live, TenancyInv, TypeOK
        <5>3. rec[k].home \in Home \union {NoHome} /\ rec[k].home # h /\ Clear(rec[k].home, rec[k].term)
          BY <5>1, <5>2, <4>3, <4>4 DEF RecordRow
        <5> QED  BY <3>7, <4>3, <4>4, <5>1, <5>3
      <4> QED  BY <4>3, <4>4, <4>5
    <3> QED  BY <1>1, <1>4, <3>7, <3>8, <3>11, <3>12 DEF TenancyInv
  <2> QED  BY <1>7, <2>3, <2>4 DEF CommitConfirmRow
<1> QED  BY <1>5, <1>6, <1>7 DEF RowStep

LEMMA TenancyStep == TenancyInv /\ [Next]_vars => TenancyInv'
<1> SUFFICES ASSUME TenancyInv, [Next]_vars PROVE TenancyInv'
  OBVIOUS
<1>1. CASE \E a \in Application : ApplicationStep(a)  BY <1>1, TenancyApplicationStep
<1>2. CASE \E l \in Leases : LeaseStep(l)  BY <1>2, TenancyLeaseStep
<1>3. CASE \E r \in Row : RowStep(r)  BY <1>3, TenancyRowStep
<1>4. ASSUME UNCHANGED <<rec, lease, claim, reading>> PROVE TenancyInv'
  <2>1. TypeOK'  BY TypeStep DEF TenancyInv
  <2> QED
    BY <1>4, <2>1 DEF TenancyInv, OneLive, Exclusive, Prefix, RowStillClear, TermStillClear,
                      GovernedTenancies, Overlap, Operative, Clear, Competing, Live
<1>5. CASE UNCHANGED vars \/ \E s \in Setup : EstablishOpening(s)
  BY <1>4, <1>5 DEF vars, activation, EstablishOpening
<1> QED  BY <1>1, <1>2, <1>3, <1>5 DEF Next

LEMMA TenancyAlways == Spec => []TenancyInv
  BY TenancyInvInit, TenancyStep, PTL DEF Spec

\* Two leases in force share a home and a day only where the snapshot loader or the
\* approval PATCH let one in: no interleaving of the writers that ask first does.
THEOREM Governed == Spec => []GovernedTenancies
<1>1. TenancyInv => GovernedTenancies  BY DEF TenancyInv
<1> QED  BY <1>1, TenancyAlways, PTL

-----------------------------------------------------------------------------
(* The signature's lock.  A signature about to commit has its home's lock   *)
(* and found no other holder; only a signature makes a holder, and a        *)
(* released home is never held again by the signature that released it.     *)

SignStillClear ==
    \A a \in Application : reading[<<"sign", a>>].verdict = "clean" =>
        /\ reading[<<"sign", a>>].home = NamedHome[a] /\ NamedHome[a] # NoHome
        /\ \A b \in Application : b # a /\ NamedHome[b] = NamedHome[a] => ~Holds(b)
HolderInv == TenancyInv /\ OneHolderPerHome /\ SignStillClear

LEMMA HolderInvInit == Init => HolderInv
<1> SUFFICES ASSUME Init PROVE HolderInv
  OBVIOUS
<1>1. \A a \in Application : pk[a].signed = {}  BY DEF Init
<1>2. \A x \in Actors : reading[x].verdict = "none"  BY DEF Init, Idle
<1> QED  BY <1>1, <1>2, TenancyInvInit DEF HolderInv, OneHolderPerHome, SignStillClear, Holds, Actors

LEMMA HolderKeeps ==
    ASSUME HolderInv, TenancyInv', \A b \in Application : Holds(b)' => Holds(b),
           \A b \in Application : reading'[<<"sign", b>>].verdict = "clean"
               => reading'[<<"sign", b>>] = reading[<<"sign", b>>]
    PROVE  HolderInv'
  BY DEF HolderInv, OneHolderPerHome, SignStillClear

LEMMA HolderApplicationStep ==
    ASSUME HolderInv, NEW a \in Application, ApplicationStep(a), TenancyInv'
    PROVE  HolderInv'
<1> USE DEF Holds
<1>0. TypeOK /\ <<"sign", a>> \in Actors /\ <<"term", a>> \in Actors
  BY DEF HolderInv, TenancyInv, Actors
<1>1. CASE \E t \in Terms : Prepare(a, t)
  <2>1. \A b \in Application : Holds(b)' => Holds(b)  BY <1>0, <1>1 DEF Prepare, TypeOK
  <2> QED  BY <1>1, <2>1, HolderKeeps DEF Prepare
<1>2. CASE \E signer \in Signers(a) : SignFree(a, signer)
  <2>1. PICK signer \in Signers(a) : SignFree(a, signer)  BY <1>2
  <2>2. \A b \in Application : Holds(b)' => Holds(b)
    BY <1>0, <2>1 DEF SignFree, Signed, Signers, TypeOK
  <2> QED  BY <2>1, <2>2, HolderKeeps DEF SignFree
<1>3. CASE BeginSign(a)
  <2> DEFINE v == [Idle EXCEPT !.home = NamedHome[a],
                               !.verdict = IF Holders(NamedHome[a]) \subseteq {a}
                                           THEN "clean" ELSE "refused"]
  <2>1. reading' = [reading EXCEPT ![<<"sign", a>>] = v] /\ UNCHANGED <<pk, status>>
        /\ NamedHome[a] # NoHome
    BY <1>3 DEF BeginSign, application
  <2>2. \A y \in Actors : reading'[y] = IF y = <<"sign", a>> THEN v ELSE reading[y]
    BY <1>0, <2>1 DEF TypeOK
  <2>3. v.home = NamedHome[a] /\ (v.verdict = "clean" => Holders(NamedHome[a]) \subseteq {a})
    BY DEF Idle
  <2> HIDE DEF v
  <2>4. OneHolderPerHome'  BY <2>1 DEF HolderInv, OneHolderPerHome
  <2>5. SignStillClear'
    BY <2>1, <2>2, <2>3 DEF HolderInv, SignStillClear, Actors, Holders
  <2> QED  BY <2>4, <2>5 DEF HolderInv
<1>4. CASE CommitSign(a)
  <2>1. Idle.verdict = "none"  BY DEF Idle
  <2>2. reading' = [reading EXCEPT ![<<"sign", a>>] = Idle] /\ UNCHANGED status
    BY <1>4 DEF CommitSign
  <2>3. \A y \in Actors : reading'[y] = IF y = <<"sign", a>> THEN Idle ELSE reading[y]
    BY <1>0, <2>2 DEF TypeOK
  <2>4. CASE reading[<<"sign", a>>].verdict # "clean"
    <3>1. UNCHANGED pk  BY <1>4, <2>4 DEF CommitSign
    <3>2. \A b \in Application : reading'[<<"sign", b>>].verdict = "clean"
              => reading'[<<"sign", b>>] = reading[<<"sign", b>>]
      BY <2>1, <2>3 DEF Actors
    <3> QED  BY <2>2, <3>1, <3>2, HolderKeeps
  <2>5. CASE reading[<<"sign", a>>].verdict = "clean"
    <3>1. /\ reading[<<"sign", a>>].home = NamedHome[a] /\ NamedHome[a] # NoHome
          /\ \A b \in Application : b # a /\ NamedHome[b] = NamedHome[a] => ~Holds(b)
      BY <2>5 DEF HolderInv, SignStillClear
    <3>2. \A b \in Application : b # a => (Holds(b)' <=> Holds(b))
      BY <1>0, <1>4, <2>2 DEF CommitSign, TypeOK
    <3>3. OneHolderPerHome'  BY <3>1, <3>2 DEF HolderInv, OneHolderPerHome
    <3>4. SignStillClear'
      <4>1. SUFFICES ASSUME NEW b \in Application, reading'[<<"sign", b>>].verdict = "clean"
                     PROVE  /\ reading'[<<"sign", b>>].home = NamedHome[b] /\ NamedHome[b] # NoHome
                            /\ \A c \in Application : c # b /\ NamedHome[c] = NamedHome[b] => ~Holds(c)'
        BY DEF SignStillClear
      <4>2. b # a /\ <<"sign", b>> \in Actors  BY <4>1, <2>1, <2>3 DEF Actors
      <4>3. reading'[<<"sign", b>>] = reading[<<"sign", b>>]  BY <4>2, <2>3
      <4>4. /\ reading[<<"sign", b>>].home = NamedHome[b] /\ NamedHome[b] # NoHome
            /\ \A c \in Application : c # b /\ NamedHome[c] = NamedHome[b] => ~Holds(c)
        BY <4>1, <4>3 DEF HolderInv, SignStillClear
      <4>5. NamedHome[b] # NamedHome[a]
        BY <1>0, <3>1, <4>2, <4>4 DEF HolderInv, TenancyInv, Exclusive
      <4> QED  BY <3>2, <4>3, <4>4, <4>5
    <3> QED  BY <3>3, <3>4 DEF HolderInv
  <2> QED  BY <2>4, <2>5
<1>5. CASE Approve(a) \/ Decline(a)
  <2>1. \A b \in Application : Holds(b)' => Holds(b)
    BY <1>0, <1>5 DEF Approve, Decline, TypeOK, ReleasedStatuses
  <2> QED  BY <1>5, <2>1, HolderKeeps DEF Approve, Decline
<1>6. ASSUME NEW clean \in BOOLEAN, Evaluate(a, clean), UNCHANGED <<pk, reading>> PROVE HolderInv'
  <2>1. \A b \in Application : Holds(b)' => Holds(b)
    BY <1>0, <1>6 DEF Evaluate, Admitted, Admissible, TypeOK, ReleasedStatuses
  <2> QED  BY <1>6, <2>1, HolderKeeps
<1>7. CASE \E h \in Home, t \in Terms, r \in Records : Verify(a, h, t, r)
  <2>1. PICK h \in Home, t \in Terms, r \in Records : Verify(a, h, t, r)  BY <1>7
  <2>2. Unblocked(a, h, t, None) \in BOOLEAN  BY DEF Unblocked
  <2> QED  BY <2>1, <2>2, <1>6 DEF Verify
<1>8. CASE Reevaluate(a)
  <2>1. PICK r \in Live(a) : Evaluate(a, Unblocked(a, rec[r].home, rec[r].term, rec[r].lease))
    BY <1>8 DEF Reevaluate
  <2>2. Unblocked(a, rec[r].home, rec[r].term, rec[r].lease) \in BOOLEAN  BY DEF Unblocked
  <2> QED  BY <1>8, <2>1, <2>2, <1>6 DEF Reevaluate
<1>9. CASE \E h \in Home, r \in Records, l \in Leases, people \in People : Execute(a, h, r, l, people)
  <2>1. PICK h \in Home, r \in Records, l \in Leases, people \in People : Execute(a, h, r, l, people)
    BY <1>9
  <2>2. \A b \in Application : pk'[b].signed = pk[b].signed
    <3>1. pk' = [pk EXCEPT ![a] = [pk[a] EXCEPT !.phase = "executed"]]  BY <2>1 DEF Execute
    <3>2. pk[a] \in [phase : {"none", "out", "resident_executed", "executed"},
                     signed : SUBSET {"tenant", "guarantor"}]
      BY <1>0 DEF TypeOK
    <3> QED  BY <1>0, <3>1, <3>2 DEF TypeOK
  <2>3. \A b \in Application : status'[b] \notin ReleasedStatuses => status[b] \notin ReleasedStatuses
    BY <1>0, <2>1 DEF Execute, TypeOK, ReleasedStatuses
  <2> QED  BY <2>1, <2>2, <2>3, HolderKeeps DEF Execute
<1>10. CASE BeginConfirmTerm(a) \/ RefuseTerm(a)
  <2>1. \A b \in Application : reading'[<<"sign", b>>] = reading[<<"sign", b>>]
    BY <1>0, <1>10 DEF BeginConfirmTerm, RefuseTerm, Actors, TypeOK
  <2> QED  BY <1>10, <2>1, HolderKeeps DEF BeginConfirmTerm, RefuseTerm, application
<1>11. CASE \E l \in Leases, people \in People : CommitConfirmTerm(a, l, people)
  <2>1. \A b \in Application : reading'[<<"sign", b>>] = reading[<<"sign", b>>]
    BY <1>0, <1>11 DEF CommitConfirmTerm, Actors, TypeOK
  <2>2. \A b \in Application : Holds(b)' => Holds(b)
    BY <1>0, <1>11 DEF CommitConfirmTerm, TypeOK, ReleasedStatuses
  <2> QED  BY <2>1, <2>2, HolderKeeps
<1> QED  BY <1>1, <1>2, <1>3, <1>4, <1>5, <1>7, <1>8, <1>9, <1>10, <1>11 DEF ApplicationStep

LEMMA HolderStep == HolderInv /\ [Next]_vars => HolderInv'
<1> SUFFICES ASSUME HolderInv, [Next]_vars PROVE HolderInv'
  OBVIOUS
<1>1. TenancyInv'  BY TenancyStep DEF HolderInv
<1>2. CASE \E a \in Application : ApplicationStep(a)  BY <1>1, <1>2, HolderApplicationStep
<1>3. ASSUME UNCHANGED <<pk, status>>,
             \A b \in Application : reading'[<<"sign", b>>] = reading[<<"sign", b>>]
      PROVE  HolderInv'
  BY <1>1, <1>3, HolderKeeps DEF Holds
<1>4. CASE \E l \in Leases : LeaseStep(l)
  BY <1>3, <1>4 DEF LeaseStep, ActivateEconomicTenancy, VoidHollowLease, LinkResident, RemoveTenant,
         DecideLease, LoadSnapshot, application
<1>5. CASE \E r \in Row : RowStep(r)
  <2>1. PICK r \in Row : RowStep(r)  BY <1>5
  <2>2. UNCHANGED <<pk, status>>
    BY <2>1 DEF RowStep, BeginConfirmRow, CommitConfirmRow, RejectRow, ResolveResident, application
  <2>3. \E v : reading' = [reading EXCEPT ![<<"row", r>>] = v] \/ reading' = reading
    BY <2>1 DEF RowStep, BeginConfirmRow, CommitConfirmRow, RejectRow, ResolveResident
  <2>4. \A b \in Application : <<"sign", b>> # <<"row", r>> /\ <<"sign", b>> \in Actors  BY DEF Actors
  <2>5. \A b \in Application : reading'[<<"sign", b>>] = reading[<<"sign", b>>]
    BY <2>3, <2>4 DEF HolderInv, TenancyInv, TypeOK
  <2> QED  BY <1>3, <2>2, <2>5
<1>6. CASE UNCHANGED vars \/ \E s \in Setup : EstablishOpening(s)
  BY <1>3, <1>6 DEF vars, application, EstablishOpening
<1> QED  BY <1>2, <1>4, <1>5, <1>6 DEF Next

\* Two applicants never hold one home by their signatures.
THEOREM OneHolder == Spec => []OneHolderPerHome
<1>1. Spec => []HolderInv  BY HolderInvInit, HolderStep, PTL DEF Spec
<1>2. HolderInv => OneHolderPerHome  BY DEF HolderInv
<1> QED  BY <1>1, <1>2, PTL

-----------------------------------------------------------------------------
(* What a tenancy rests on.  While a term is being confirmed nothing of its *)
(* application moves; afterwards the record that has a lease is not         *)
(* replaced, and an application with a lease is given no other package.     *)

HasLease(a) == \E l \in Leases : lease[l].app = a
OneEach ==
    /\ \A l \in Leases : lease[l].st = "none" => lease[l].app = None
    /\ \A k, l \in Leases : lease[k].app = lease[l].app /\ lease[k].app # None => k = l
ActiveHasLease == \A a \in Application : status[a] = "active" <=> HasLease(a)
RestsOnRecord ==
    \A l \in Leases : \A a \in Application : lease[l].app = a =>
        /\ \E r \in Live(a) : rec[r].lease = l
        /\ lease[l].term = agreed[a] /\ NamedHome[a] \in {NoHome, lease[l].home}
ConfirmingStands ==
    \A a \in Application : reading[<<"term", a>>].verdict = "clean" =>
        /\ status[a] = "accepted_term_required" /\ ~HasLease(a)
        /\ \A r \in Live(a) : agreed[a] = rec[r].term /\ NamedHome[a] \in {NoHome, rec[r].home}
Unused == \A r \in Records : rec[r].state = "none" => rec[r].app = None
WorkStands ==
    \A a \in Application :
        work[a] >= 0 /\ (status[a] = "accepted_term_required" => work[a] > 0 /\ Live(a) # {})
Basis == Unused /\ OneEach /\ ActiveHasLease /\ RestsOnRecord /\ ConfirmingStands /\ WorkStands
BasisInv == TenancyInv /\ Basis

LEMMA BasisMeans == BasisInv => StandingBasis /\ TenancyAsAgreed /\ TermWorkStands
<1> SUFFICES ASSUME BasisInv PROVE StandingBasis /\ TenancyAsAgreed /\ TermWorkStands
  OBVIOUS
<1>1. \A l \in Leases : lease[l] \in LeaseRow  BY DEF BasisInv, TenancyInv, TypeOK
<1>2. \A l \in Leases : lease[l].app # None => lease[l].app \in Application
  BY <1>1 DEF LeaseRow
<1>3. StandingBasis
  BY <1>2 DEF StandingBasis, BasisInv, Basis, OneEach, ActiveHasLease, HasLease, RestsOnRecord
<1>4. TenancyAsAgreed  BY DEF TenancyAsAgreed, BasisInv, Basis, RestsOnRecord
<1>5. TermWorkStands  BY DEF TermWorkStands, BasisInv, Basis, WorkStands
<1> QED  BY <1>3, <1>4, <1>5

LEMMA BasisInit == Init => BasisInv
<1> SUFFICES ASSUME Init PROVE Basis
  BY TenancyInvInit DEF BasisInv
<1>1. \A l \in Leases : lease[l].st = "none" /\ lease[l].app = None  BY DEF Init, NoLease
<1>2. \A a \in Application : status[a] = "submitted" /\ work[a] = 0 /\ ~HasLease(a)
  BY <1>1 DEF Init, HasLease
<1>3. \A x \in Actors : reading[x].verdict = "none"  BY DEF Init, Idle
<1>4. \A r \in Records : rec[r].app = None  BY DEF Init, NoRecord
<1> QED
  BY <1>1, <1>2, <1>3, <1>4
     DEF Basis, Unused, OneEach, ActiveHasLease, RestsOnRecord, ConfirmingStands, WorkStands, Actors

\* A step that leaves the application alone, its status, terms, records, work and
\* lease as they were, disturbs nothing of what it rests on.
LEMMA BasisLeases ==
    ASSUME BasisInv, TenancyInv', UNCHANGED <<status, agreed, rec, work>>,
           \A a \in Application : reading'[<<"term", a>>] = reading[<<"term", a>>],
           OneEach', 
           \A l \in Leases : /\ lease'[l].app = lease[l].app
                             /\ lease[l].app # None => lease'[l].home = lease[l].home
                                                       /\ lease'[l].term = lease[l].term
    PROVE  BasisInv'
<1>1. \A a \in Application : HasLease(a)' <=> HasLease(a)  BY DEF HasLease
<1>2. \A a \in Application : Live(a)' = Live(a)  BY DEF Live
<1>3. ActiveHasLease'  BY <1>1 DEF BasisInv, Basis, ActiveHasLease
<1>4. RestsOnRecord'  BY <1>2 DEF BasisInv, Basis, RestsOnRecord
<1>5. ConfirmingStands'  BY <1>1, <1>2 DEF BasisInv, Basis, ConfirmingStands
<1>6. WorkStands' /\ Unused'  BY <1>2 DEF BasisInv, Basis, WorkStands, Unused
<1> QED  BY <1>3, <1>4, <1>5, <1>6 DEF BasisInv, Basis

LEMMA BasisRowStep ==
    ASSUME BasisInv, TenancyInv', NEW r \in Row, RowStep(r)
    PROVE  BasisInv'
<1>1. UNCHANGED <<status, agreed, rec, work>>
  BY DEF RowStep, BeginConfirmRow, CommitConfirmRow, RejectRow, ResolveResident, application
<1>2. \E v : reading' = [reading EXCEPT ![<<"row", r>>] = v] \/ reading' = reading
  BY DEF RowStep, BeginConfirmRow, CommitConfirmRow, RejectRow, ResolveResident
<1>3. \A b \in Application : <<"term", b>> # <<"row", r>> /\ <<"term", b>> \in Actors  BY DEF Actors
<1>4. \A b \in Application : reading'[<<"term", b>>] = reading[<<"term", b>>]
  BY <1>2, <1>3 DEF BasisInv, TenancyInv, TypeOK
<1>5. CASE UNCHANGED lease
  BY <1>1, <1>4, <1>5, BasisLeases DEF BasisInv, Basis, OneEach
<1>6. ASSUME NEW l \in Leases, NEW new, Fresh(l), lease' = [lease EXCEPT ![l] = new], new.app = None,
             new.st # "none"
      PROVE  BasisInv'
  <2>1. \A k \in Leases : lease'[k] = IF k = l THEN new ELSE lease[k]
    BY <1>6 DEF BasisInv, TenancyInv, TypeOK
  <2>2. lease[l].app = None  BY <1>6 DEF Fresh, BasisInv, Basis, OneEach
  <2>3. OneEach'  BY <1>6, <2>1 DEF BasisInv, Basis, OneEach
  <2>4. \A k \in Leases : /\ lease'[k].app = lease[k].app
                          /\ lease[k].app # None => lease'[k].home = lease[k].home
                                                    /\ lease'[k].term = lease[k].term
    BY <1>6, <2>1, <2>2
  <2> QED  BY <1>1, <1>4, <2>3, <2>4, BasisLeases
<1>7. ASSUME NEW l \in Leases, CommitConfirmRow(r, l), lease' # lease PROVE BasisInv'
  <2> DEFINE new == [NoLease EXCEPT !.st = "active", !.home = reading[<<"row", r>>].home,
                                    !.term = claim[r].term,
                                    !.tenants = {reading[<<"row", r>>].row.who} \ {NoPerson},
                                    !.via = "activation"]
  <2>1. Fresh(l) /\ lease' = [lease EXCEPT ![l] = new]  BY <1>7 DEF CommitConfirmRow
  <2>2. new.app = None /\ new.st # "none"  BY DEF NoLease
  <2> HIDE DEF new
  <2> QED  BY <1>6, <2>1, <2>2
<1> QED
  BY <1>5, <1>7 DEF RowStep, BeginConfirmRow, RejectRow, ResolveResident

LEMMA BasisLeaseStep ==
    ASSUME BasisInv, TenancyInv', NEW l \in Leases, LeaseStep(l)
    PROVE  BasisInv'
<1>1. UNCHANGED <<status, agreed, rec, work, reading>>
  BY DEF LeaseStep, ActivateEconomicTenancy, VoidHollowLease, LinkResident, RemoveTenant,
         DecideLease, LoadSnapshot, application
<1>2. lease \in [Leases -> LeaseRow] /\ lease[l] \in LeaseRow
  BY DEF BasisInv, TenancyInv, TypeOK
<1>3. \A k \in Leases : k # l => lease'[k] = lease[k]
  BY <1>2 DEF LeaseStep, ActivateEconomicTenancy, VoidHollowLease, LinkResident, RemoveTenant,
              DecideLease, LoadSnapshot
<1>4. /\ lease'[l].app = lease[l].app
      /\ lease[l].app # None => lease'[l].home = lease[l].home /\ lease'[l].term = lease[l].term
      /\ lease'[l].st # "none"
  <2>1. CASE \E h \in Home, t \in Terms, st \in {"active", "pending"}, people \in People :
                 LoadSnapshot(l, h, t, st, people)
    <3>1. PICK h \in Home, t \in Terms, st \in {"active", "pending"}, people \in People :
              LoadSnapshot(l, h, t, st, people)
      BY <2>1
    <3> DEFINE new == [NoLease EXCEPT !.st = st, !.home = h, !.term = t,
                                      !.tenants = people, !.via = "snapshot"]
    <3>2. lease'[l] = new /\ Fresh(l)  BY <1>2, <3>1 DEF LoadSnapshot
    <3>3. new.app = None /\ new.st = st  BY DEF NoLease
    <3>4. lease[l].app = None  BY <3>2 DEF Fresh, BasisInv, Basis, OneEach
    <3> HIDE DEF new
    <3> QED  BY <3>2, <3>3, <3>4
  <2>2. CASE ActivateEconomicTenancy(l)
    <3>1. lease'[l] = [lease[l] EXCEPT !.st = "active", !.econ = TRUE]
      BY <1>2, <2>2 DEF ActivateEconomicTenancy
    <3> QED  BY <1>2, <3>1 DEF LeaseRow
  <2>3. CASE VoidHollowLease(l)
    <3>1. lease'[l] = [lease[l] EXCEPT !.st = "cancelled"]  BY <1>2, <2>3 DEF VoidHollowLease
    <3> QED  BY <1>2, <3>1 DEF LeaseRow
  <2>4. CASE \E p \in Person : LinkResident(l, p) \/ RemoveTenant(l, p)
    <3>1. PICK p \in Person : LinkResident(l, p) \/ RemoveTenant(l, p)  BY <2>4
    <3>2. lease[l].st # "none"
      BY <3>1 DEF LinkResident, RemoveTenant, BasisInv, TenancyInv, Prefix
    <3>3. \E people : lease'[l] = [lease[l] EXCEPT !.tenants = people]
      BY <1>2, <3>1 DEF LinkResident, RemoveTenant
    <3> QED  BY <1>2, <3>2, <3>3 DEF LeaseRow
  <2>5. CASE \E st \in {"active", "rejected"} : DecideLease(l, st)
    <3>1. PICK st \in {"active", "rejected"} : DecideLease(l, st)  BY <2>5
    <3>2. \E b : lease'[l] = [lease[l] EXCEPT !.st = st, !.revived = b]
      BY <1>2, <3>1 DEF DecideLease
    <3> QED  BY <1>2, <3>1, <3>2 DEF LeaseRow
  <2> QED  BY <2>1, <2>2, <2>3, <2>4, <2>5 DEF LeaseStep
<1>7. OneEach'  BY <1>3, <1>4 DEF BasisInv, Basis, OneEach
<1> QED  BY <1>1, <1>3, <1>4, <1>7, BasisLeases

\* A step of one application that leaves every other one's basis alone.
LEMMA BasisOthers ==
    ASSUME BasisInv, TenancyInv', NEW a \in Application,
           \A b \in Application : b # a =>
               /\ status'[b] = status[b] /\ agreed'[b] = agreed[b] /\ work'[b] = work[b]
               /\ reading'[<<"term", b>>] = reading[<<"term", b>>],
           \A r \in Records : \/ rec'[r] = rec[r]
                              \/ rec[r].app \in {None, a} /\ rec'[r].app = a /\ rec'[r].state # "none",
           \A l \in Leases : \/ lease'[l] = lease[l]
                             \/ lease[l].app = None /\ lease'[l].app = a,
           OneEach',
           status'[a] = "active" <=> HasLease(a)',
           \A l \in Leases : lease'[l].app = a =>
               /\ \E r \in Live(a)' : rec'[r].lease = l
               /\ lease'[l].term = agreed'[a] /\ NamedHome[a] \in {NoHome, lease'[l].home},
           reading'[<<"term", a>>].verdict = "clean" =>
               /\ status'[a] = "accepted_term_required" /\ ~HasLease(a)'
               /\ \A r \in Live(a)' : agreed'[a] = rec'[r].term /\ NamedHome[a] \in {NoHome, rec'[r].home},
           work'[a] >= 0,
           status'[a] = "accepted_term_required" => work'[a] > 0 /\ Live(a)' # {}
    PROVE  BasisInv'
<1>8. Unused'  BY DEF BasisInv, Basis, Unused
<1>1. \A b \in Application : b # a => Live(b)' = Live(b) /\ \A r \in Live(b) : rec'[r] = rec[r]
  BY DEF Live
<1>2. \A b \in Application : b # a => \A l \in Leases :
          (lease'[l].app = b <=> lease[l].app = b) /\ (lease[l].app = b => lease'[l] = lease[l])
  OBVIOUS
<1>3. \A b \in Application : b # a => (HasLease(b)' <=> HasLease(b))  BY <1>2 DEF HasLease
<1>4. ActiveHasLease'  BY <1>3 DEF BasisInv, Basis, ActiveHasLease
<1>5. RestsOnRecord'
  <2>1. SUFFICES ASSUME NEW l \in Leases, NEW b \in Application, lease'[l].app = b
                 PROVE  /\ \E r \in Live(b)' : rec'[r].lease = l
                        /\ lease'[l].term = agreed'[b] /\ NamedHome[b] \in {NoHome, lease'[l].home}
    BY DEF RestsOnRecord
  <2>2. CASE b = a  BY <2>1, <2>2
  <2>3. CASE b # a
    <3>1. lease[l].app = b /\ lease'[l] = lease[l]  BY <2>1, <2>3, <1>2
    <3>2. /\ \E r \in Live(b) : rec[r].lease = l
          /\ lease[l].term = agreed[b] /\ NamedHome[b] \in {NoHome, lease[l].home}
      BY <3>1 DEF BasisInv, Basis, RestsOnRecord
    <3>3. \E r \in Live(b)' : rec'[r].lease = l  BY <2>3, <3>2, <1>1
    <3> QED  BY <2>3, <3>1, <3>2, <3>3
  <2> QED  BY <2>2, <2>3
<1>6. ConfirmingStands'
  <2>1. SUFFICES ASSUME NEW b \in Application, reading'[<<"term", b>>].verdict = "clean"
                 PROVE  /\ status'[b] = "accepted_term_required" /\ ~HasLease(b)'
                        /\ \A r \in Live(b)' : agreed'[b] = rec'[r].term
                                              /\ NamedHome[b] \in {NoHome, rec'[r].home}
    BY DEF ConfirmingStands
  <2>2. CASE b = a  BY <2>1, <2>2
  <2>3. CASE b # a
    BY <2>1, <2>3, <1>1, <1>3 DEF BasisInv, Basis, ConfirmingStands
  <2> QED  BY <2>2, <2>3
<1>7. WorkStands'
  <2>1. SUFFICES ASSUME NEW b \in Application
                 PROVE  /\ work'[b] >= 0
                        /\ status'[b] = "accepted_term_required" => work'[b] > 0 /\ Live(b)' # {}
    BY DEF WorkStands
  <2>2. CASE b = a  BY <2>2 DEF Live
  <2>3. CASE b # a
    <3>1. work[b] >= 0 /\ (status[b] = "accepted_term_required" => work[b] > 0 /\ Live(b) # {})
      BY DEF BasisInv, Basis, WorkStands
    <3>2. status'[b] = status[b] /\ work'[b] = work[b] /\ Live(b)' = Live(b)  BY <2>3, <1>1
    <3> QED  BY <3>1, <3>2
  <2> QED  BY <2>2, <2>3
<1> QED  BY <1>4, <1>5, <1>6, <1>7, <1>8 DEF BasisInv, Basis

LEMMA BasisApplicationStep ==
    ASSUME BasisInv, TenancyInv', NEW a \in Application, ApplicationStep(a)
    PROVE  BasisInv'
<1>0. /\ TypeOK /\ TypeOK' /\ OneEach /\ ActiveHasLease /\ RestsOnRecord /\ ConfirmingStands /\ WorkStands
      /\ <<"term", a>> \in Actors /\ <<"sign", a>> \in Actors
  BY DEF BasisInv, Basis, TenancyInv, Actors
<1>1. AppFree(a) => reading[<<"term", a>>].verdict # "clean"
  BY DEF BasisInv, TenancyInv, TermStillClear, AppFree
<1>2. Live(a) = {} => ~HasLease(a)  BY <1>0 DEF HasLease, RestsOnRecord
<1>3. Replaceable(a, Live(a)) => ~HasLease(a)
  <2>1. \A l \in Leases : l # None  BY DEF Leases
  <2> QED  BY <1>0, <2>1 DEF Replaceable, HasLease, RestsOnRecord
<1>4. UNCHANGED lease => OneEach' /\ (HasLease(a)' <=> HasLease(a))
  BY <1>0 DEF OneEach, HasLease
<1>5. UNCHANGED rec => Live(a)' = Live(a)  BY DEF Live
<1>6. CASE \E t \in Terms : Prepare(a, t)
  <2>1. PICK t \in Terms : Prepare(a, t)  BY <1>6
  <2>2. AppFree(a) /\ UNCHANGED <<status, rec, lease, work, reading>> /\ status[a] # "active"
    BY <2>1 DEF Prepare, PacketEligibleStatuses
  <2>3. \A b \in Application : b # a => agreed'[b] = agreed[b]  BY <1>0, <2>1 DEF Prepare, TypeOK
  <2>4. ~HasLease(a)  BY <1>0, <2>2 DEF ActiveHasLease
  <2> QED
    BY <1>0, <1>1, <1>4, <1>5, <2>2, <2>3, <2>4, BasisOthers
       DEF ActiveHasLease, WorkStands, HasLease
<1>7. CASE (\E signer \in Signers(a) : SignFree(a, signer)) \/ BeginSign(a) \/ CommitSign(a)
  <2>1. UNCHANGED <<status, agreed, rec, work, lease>>
    BY <1>7 DEF SignFree, BeginSign, CommitSign, application
  <2>2. \E v : reading' = [reading EXCEPT ![<<"sign", a>>] = v] \/ reading' = reading
    BY <1>7 DEF SignFree, BeginSign, CommitSign
  <2>3. \A b \in Application : <<"term", b>> # <<"sign", a>> /\ <<"term", b>> \in Actors  BY DEF Actors
  <2>4. \A b \in Application : reading'[<<"term", b>>] = reading[<<"term", b>>]
    BY <1>0, <2>2, <2>3 DEF TypeOK
  <2> QED  BY <1>4, <2>1, <2>4, BasisLeases
<1>8. CASE Approve(a) \/ Decline(a)
  <2>1. AppFree(a) /\ UNCHANGED <<agreed, rec, lease, work, reading>>
        /\ status[a] # "active" /\ status'[a] \notin {"active", "accepted_term_required"}
    BY <1>0, <1>8 DEF Approve, Decline, TypeOK, AssessTransition, Terminal, TerminalOrigins
  <2>2. \A b \in Application : b # a => status'[b] = status[b]
    BY <1>0, <1>8 DEF Approve, Decline, TypeOK
  <2>3. ~HasLease(a)  BY <1>0, <2>1 DEF ActiveHasLease
  <2> QED
    BY <1>0, <1>1, <1>4, <1>5, <2>1, <2>2, <2>3, BasisOthers DEF WorkStands, HasLease
<1>9. ASSUME NEW clean \in BOOLEAN, Evaluate(a, clean), AppFree(a), UNCHANGED <<agreed, lease, reading>>,
             \A r \in Records : \/ rec'[r] = rec[r]
                                \/ rec[r].app \in {None, a} /\ rec'[r].app = a /\ rec'[r].state # "none",
             Live(a)' # {}, UNCHANGED rec \/ ~HasLease(a)
      PROVE  BasisInv'
  <2>1. \A b \in Application : b # a => status'[b] = status[b] /\ work'[b] = work[b]
    BY <1>0, <1>9 DEF Evaluate, TypeOK
  <2>2. status'[a] = "active" <=> status[a] = "active"
    BY <1>0, <1>9 DEF Evaluate, TypeOK, Admitted, Admissible
  <2>3. work'[a] >= 0 /\ (status'[a] = "accepted_term_required" => work'[a] > 0)
    <3>1. work[a] \in Int /\ work[a] >= 0 /\ (status[a] = "accepted_term_required" => work[a] > 0)
      BY <1>0 DEF TypeOK, WorkStands
    <3>2. \/ work'[a] = work[a] + 1
          \/ work'[a] = work[a] /\ status'[a] = status[a]
      BY <1>0, <1>9 DEF Evaluate, TypeOK
    <3> QED  BY <3>1, <3>2
  <2>4. \A l \in Leases : lease'[l].app = a =>
               /\ \E r \in Live(a)' : rec'[r].lease = l
               /\ lease'[l].term = agreed'[a] /\ NamedHome[a] \in {NoHome, lease'[l].home}
    BY <1>0, <1>5, <1>9 DEF RestsOnRecord, HasLease
  <2> QED
    BY <1>0, <1>1, <1>4, <1>9, <2>1, <2>2, <2>3, <2>4, BasisOthers DEF ActiveHasLease, AppFree
<1>10. CASE \E h \in Home, t \in Terms, r \in Records : Verify(a, h, t, r)
  <2>1. PICK h \in Home, t \in Terms, r \in Records : Verify(a, h, t, r)  BY <1>10
  <2>2. Unblocked(a, h, t, None) \in BOOLEAN  BY DEF Unblocked
  <2> DEFINE new == [NoRecord EXCEPT !.app = a, !.home = h, !.term = t, !.state = "verified"]
  <2>3. /\ AppFree(a) /\ FreshRecord(r) /\ UNCHANGED <<agreed, lease, reading>> /\ ~HasLease(a)
        /\ Evaluate(a, Unblocked(a, h, t, None))
        /\ rec' = [k \in Records |-> IF k = r THEN new
                       ELSE IF k \in Live(a) THEN [rec[k] EXCEPT !.state = "superseded"] ELSE rec[k]]
    BY <2>1, <1>3 DEF Verify
  <2>4. new.app = a /\ new.state = "verified"  BY DEF NoRecord
  <2> HIDE DEF new
  <2>5. rec'[r] = new  BY <2>3
  <2>6. r \in Live(a)'  BY <2>4, <2>5 DEF Live
  <2>7. \A k \in Live(a) : k # r => rec'[k].app = a /\ rec'[k].state = "superseded"
    <3>1. \A k \in Live(a) : rec[k] \in RecordRow /\ rec[k].app = a  BY <1>0 DEF Live, TypeOK
    <3> QED  BY <2>3, <3>1 DEF RecordRow, Live
  <2>8. rec[r].app = None
    BY <2>3 DEF FreshRecord, BasisInv, Basis, Unused
  <2>9. \A k \in Records : \/ rec'[k] = rec[k]
                           \/ rec[k].app \in {None, a} /\ rec'[k].app = a /\ rec'[k].state # "none"
    BY <2>3, <2>4, <2>5, <2>7, <2>8 DEF Live
  <2> QED  BY <1>9, <2>2, <2>3, <2>6, <2>9
<1>11. CASE Reevaluate(a)
  <2>1. PICK r \in Live(a) : Evaluate(a, Unblocked(a, rec[r].home, rec[r].term, rec[r].lease))
    BY <1>11 DEF Reevaluate
  <2>2. Unblocked(a, rec[r].home, rec[r].term, rec[r].lease) \in BOOLEAN  BY DEF Unblocked
  <2>3. AppFree(a) /\ UNCHANGED <<agreed, lease, reading, rec>>  BY <1>11 DEF Reevaluate
  <2> QED  BY <1>5, <1>9, <2>1, <2>2, <2>3
<1>14. CASE BeginConfirmTerm(a) \/ RefuseTerm(a)
  <2>1. UNCHANGED <<status, agreed, rec, work, lease>>
    BY <1>14 DEF BeginConfirmTerm, RefuseTerm, application
  <2>2. \A b \in Application : b # a => reading'[<<"term", b>>] = reading[<<"term", b>>]
    BY <1>0, <1>14 DEF BeginConfirmTerm, RefuseTerm, TypeOK, Actors
  <2>3. reading'[<<"term", a>>].verdict = "clean" =>
            /\ status[a] = "accepted_term_required" /\ ~HasLease(a)
            /\ \A r \in Live(a) : agreed[a] = rec[r].term /\ NamedHome[a] \in {NoHome, rec[r].home}
    <3>1. CASE RefuseTerm(a)  BY <1>0, <3>1 DEF RefuseTerm, TypeOK, Idle
    <3>2. CASE BeginConfirmTerm(a)
      <4>1. PICK r \in Live(a) :
                /\ status[a] = "accepted_term_required" /\ \A l \in Leases : lease[l].app # a
                /\ reading' = [reading EXCEPT ![<<"term", a>>] =
                      [Idle EXCEPT !.home = rec[r].home,
                                   !.verdict = IF Unblocked(a, rec[r].home, rec[r].term, None)
                                               THEN "clean" ELSE "refused"]]
        BY <3>2 DEF BeginConfirmTerm
      <4>2. reading'[<<"term", a>>].verdict = "clean" => Unblocked(a, rec[r].home, rec[r].term, None)
        BY <1>0, <4>1 DEF TypeOK, Idle
      <4>3. \A k \in Live(a) : k = r  BY <4>1 DEF BasisInv, TenancyInv, OneLive, Live
      <4> QED  BY <4>1, <4>2, <4>3 DEF Unblocked, HasLease
    <3> QED  BY <1>14, <3>1, <3>2
  <2>4. \A l \in Leases : lease[l].app = a =>
               /\ \E r \in Live(a) : rec[r].lease = l
               /\ lease[l].term = agreed[a] /\ NamedHome[a] \in {NoHome, lease[l].home}
    BY <1>0 DEF RestsOnRecord
  <2>5. /\ status[a] = "active" <=> HasLease(a)
        /\ work[a] >= 0 /\ (status[a] = "accepted_term_required" => work[a] > 0 /\ Live(a) # {})
    BY <1>0 DEF ActiveHasLease, WorkStands
  <2>6. \A b \in Application : b # a =>
               /\ status'[b] = status[b] /\ agreed'[b] = agreed[b] /\ work'[b] = work[b]
               /\ reading'[<<"term", b>>] = reading[<<"term", b>>]
    BY <2>1, <2>2
  <2> QED  BY <1>4, <1>5, <2>1, <2>3, <2>4, <2>5, <2>6, BasisOthers

<1>15. ASSUME NEW h, NEW t, NEW r \in Records, NEW l \in Leases, NEW people, NEW made, NEW new,
              made = Anchor(a, h, t, people), lease' = [lease EXCEPT ![l] = made], Fresh(l),
              ~HasLease(a), agreed[a] = t, NamedHome[a] \in {NoHome, h},
              rec' = [rec EXCEPT ![r] = new], rec[r].app \in {None, a},
              new.app = a, new.state = "verified", new.lease = l,
              UNCHANGED agreed, status' = [status EXCEPT ![a] = "active"],
              \A b \in Application : b # a => /\ work'[b] = work[b]
                                            /\ reading'[<<"term", b>>] = reading[<<"term", b>>],
              work'[a] >= 0, reading'[<<"term", a>>].verdict # "clean"
       PROVE  BasisInv'
  <2>1. made.app = a /\ made.term = t /\ made.home = h /\ made.st = "pending"
    BY <1>15 DEF Anchor, NoLease
  <2>2. \A k \in Leases : lease'[k] = IF k = l THEN made ELSE lease[k]
    BY <1>0, <1>15 DEF TypeOK
  <2>3. lease[l].app = None  BY <1>0, <1>15 DEF Fresh, OneEach
  <2>4. \A k \in Leases : k # l => lease[k].app # a  BY <1>15 DEF HasLease
  <2>5. OneEach'  BY <1>0, <2>1, <2>2, <2>4 DEF OneEach
  <2>6. \A k \in Records : rec'[k] = IF k = r THEN new ELSE rec[k]
    BY <1>0, <1>15 DEF TypeOK
  <2>7. r \in Live(a)' /\ rec'[r].lease = l  BY <1>15, <2>6 DEF Live
  <2>8. HasLease(a)'  BY <2>1, <2>2 DEF HasLease
  <2>9. status'[a] = "active" /\ \A b \in Application : b # a => status'[b] = status[b]
    BY <1>0, <1>15 DEF TypeOK
  <2>10. \A k \in Leases : \/ lease'[k] = lease[k]
                           \/ lease[k].app = None /\ lease'[k].app = a
    BY <2>1, <2>2, <2>3
  <2>11. \A k \in Records : \/ rec'[k] = rec[k]
                            \/ rec[k].app \in {None, a} /\ rec'[k].app = a /\ rec'[k].state # "none"
    BY <1>15, <2>6
  <2>12. \A k \in Leases : lease'[k].app = a =>
               /\ \E x \in Live(a)' : rec'[x].lease = k
               /\ lease'[k].term = agreed'[a] /\ NamedHome[a] \in {NoHome, lease'[k].home}
    BY <1>15, <2>1, <2>2, <2>4, <2>7
  <2>13. \A b \in Application : b # a =>
               /\ status'[b] = status[b] /\ agreed'[b] = agreed[b] /\ work'[b] = work[b]
               /\ reading'[<<"term", b>>] = reading[<<"term", b>>]
    BY <1>15, <2>9
  <2> QED  BY <1>15, <2>5, <2>8, <2>9, <2>10, <2>11, <2>12, <2>13, BasisOthers
<1>16. ASSUME NEW h \in Home, NEW r \in Records, NEW l \in Leases, NEW people \in People,
              Execute(a, h, r, l, people)
       PROVE BasisInv'
  <2> DEFINE from == IF a \in approved THEN status[a] ELSE "lease_ready"
             clean == Unblocked(a, h, agreed[a], None) /\ from = "lease_ready"
                      /\ \A k \in Leases : lease[k].app # a
             new == [NoRecord EXCEPT !.app = a, !.home = h, !.term = agreed[a],
                                     !.state = "verified", !.lease = IF clean THEN l ELSE None]
  <2>1. /\ AppFree(a) /\ Live(a) = {} /\ FreshRecord(r) /\ Fresh(l) /\ h = NamedHome[a]
        /\ (a \in approved \/ status[a] = "submitted")
        /\ UNCHANGED <<agreed, work, reading>>
        /\ rec' = [rec EXCEPT ![r] = new]
        /\ lease' = IF clean THEN [lease EXCEPT ![l] = Anchor(a, h, agreed[a], people)] ELSE lease
        /\ status' = [status EXCEPT ![a] = IF clean THEN "active" ELSE from]
    BY <1>16 DEF Execute
  <2>2. new.app = a /\ new.state = "verified" /\ new.lease = (IF clean THEN l ELSE None)
    BY DEF NoRecord
  <2>3. ~HasLease(a) /\ status[a] \notin {"active", "accepted_term_required"}
    BY <1>0, <1>2, <2>1 DEF ActiveHasLease, WorkStands
  <2>4. from \notin {"active", "accepted_term_required"}  BY <2>3
  <2>5. rec[r].app = None  BY <2>1 DEF FreshRecord, BasisInv, Basis, Unused
  <2>6. work[a] >= 0  BY <1>0 DEF WorkStands
  <2> HIDE DEF new, clean, from
  <2>7. CASE clean
    <3> DEFINE made == Anchor(a, h, agreed[a], people)
    <3>1. lease' = [lease EXCEPT ![l] = made] /\ made = Anchor(a, h, agreed[a], people)
      BY <2>1, <2>7
    <3>2. status' = [status EXCEPT ![a] = "active"]  BY <2>1, <2>7
    <3> HIDE DEF made
    <3>3. new.lease = l /\ agreed[a] = agreed[a]  BY <2>2, <2>7
    <3>4. work'[a] >= 0 /\ reading'[<<"term", a>>].verdict # "clean" /\ UNCHANGED agreed
          /\ \A b \in Application : b # a => /\ work'[b] = work[b]
                                           /\ reading'[<<"term", b>>] = reading[<<"term", b>>]
      BY <1>1, <2>1, <2>6
    <3>5. NamedHome[a] \in {NoHome, h} /\ rec[r].app \in {None, a} /\ ~HasLease(a) /\ Fresh(l)
          /\ rec' = [rec EXCEPT ![r] = new] /\ new.app = a /\ new.state = "verified"
      BY <2>1, <2>2, <2>3, <2>5
    <3> QED  BY <1>15, <3>1, <3>2, <3>3, <3>4, <3>5
  <2>8. CASE ~clean
    <3>1. UNCHANGED lease /\ status' = [status EXCEPT ![a] = from]  BY <2>1, <2>8
    <3>2. status'[a] = from /\ \A b \in Application : b # a => status'[b] = status[b]
      BY <1>0, <3>1 DEF TypeOK
    <3>3. \A k \in Records : rec'[k] = IF k = r THEN new ELSE rec[k]
      BY <1>0, <2>1 DEF TypeOK
    <3>4. \A k \in Records : \/ rec'[k] = rec[k]
                             \/ rec[k].app \in {None, a} /\ rec'[k].app = a /\ rec'[k].state # "none"
      BY <2>2, <2>5, <3>3
    <3> QED
      BY <1>0, <1>1, <1>4, <2>1, <2>3, <2>4, <2>6, <3>1, <3>2, <3>4, BasisOthers DEF HasLease
  <2> QED  BY <2>7, <2>8
<1>17. ASSUME NEW l \in Leases, NEW people \in People, CommitConfirmTerm(a, l, people)
       PROVE BasisInv'
  <2>1. PICK r \in Live(a) :
            /\ reading[<<"term", a>>].verdict = "clean" /\ Fresh(l)
            /\ lease' = [lease EXCEPT ![l] = Anchor(a, rec[r].home, rec[r].term, people)]
            /\ rec' = [rec EXCEPT ![r].lease = l]
            /\ work' = [work EXCEPT ![a] = work[a] - 1]
            /\ status' = [status EXCEPT ![a] = "active"]
            /\ reading' = [reading EXCEPT ![<<"term", a>>] = Idle]
            /\ UNCHANGED agreed
    BY <1>17 DEF CommitConfirmTerm
  <2> DEFINE new == [rec[r] EXCEPT !.lease = l]
             made == Anchor(a, rec[r].home, rec[r].term, people)
  <2>2. rec[r] \in RecordRow /\ r \in Records /\ rec[r].app = a /\ rec[r].state = "verified"
    BY <1>0 DEF Live, TypeOK
  <2>3. new.app = a /\ new.state = "verified" /\ new.lease = l  BY <2>2 DEF RecordRow
  <2>4. rec' = [rec EXCEPT ![r] = new]  BY <2>1
  <2>5. /\ status[a] = "accepted_term_required" /\ ~HasLease(a)
        /\ agreed[a] = rec[r].term /\ NamedHome[a] \in {NoHome, rec[r].home}
    BY <1>0, <2>1 DEF ConfirmingStands
  <2>6. work'[a] >= 0
    <3>1. work[a] \in Int /\ work[a] > 0  BY <1>0, <2>5 DEF WorkStands, TypeOK
    <3> QED  BY <1>0, <2>1, <3>1 DEF TypeOK
  <2>7. /\ reading'[<<"term", a>>].verdict # "clean"
        /\ \A b \in Application : b # a => /\ work'[b] = work[b]
                                         /\ reading'[<<"term", b>>] = reading[<<"term", b>>]
    BY <1>0, <2>1 DEF TypeOK, Idle, Actors
  <2>8. lease' = [lease EXCEPT ![l] = made] /\ made = Anchor(a, rec[r].home, rec[r].term, people)
    BY <2>1
  <2>9. UNCHANGED agreed /\ status' = [status EXCEPT ![a] = "active"] /\ Fresh(l)  BY <2>1
  <2>10. rec[r].app \in {None, a} /\ r \in Records  BY <2>2
  <2> HIDE DEF new, made
  <2> QED  BY <1>15, <2>3, <2>4, <2>5, <2>6, <2>7, <2>8, <2>9, <2>10
<1> QED  BY <1>6, <1>7, <1>8, <1>10, <1>11, <1>14, <1>16, <1>17 DEF ApplicationStep

LEMMA BasisStep == BasisInv /\ [Next]_vars => BasisInv'
<1> SUFFICES ASSUME BasisInv, [Next]_vars PROVE BasisInv'
  OBVIOUS
<1>1. TenancyInv'  BY TenancyStep DEF BasisInv
<1>2. CASE \E a \in Application : ApplicationStep(a)  BY <1>1, <1>2, BasisApplicationStep
<1>3. CASE \E l \in Leases : LeaseStep(l)  BY <1>1, <1>3, BasisLeaseStep
<1>4. CASE \E r \in Row : RowStep(r)  BY <1>1, <1>4, BasisRowStep
<1>5. ASSUME UNCHANGED <<application, rec, lease, reading>> PROVE BasisInv'
  <2>1. OneEach'  BY <1>5 DEF BasisInv, Basis, OneEach
  <2> QED  BY <1>1, <1>5, <2>1, BasisLeases DEF application
<1>6. CASE UNCHANGED vars \/ \E s \in Setup : EstablishOpening(s)
  BY <1>5, <1>6 DEF vars, EstablishOpening
<1> QED  BY <1>2, <1>3, <1>4, <1>6 DEF Next

LEMMA BasisAlways == Spec => []BasisInv
  BY BasisInit, BasisStep, PTL DEF Spec

\* An application is active exactly when one lease was made from it, and that lease
\* still rests on the verified record it was made from.
THEOREM Standing == Spec => []StandingBasis
  BY BasisAlways, BasisMeans, PTL

\* The lease made from an application keeps the term its applicant acknowledged and the
\* home it names.
THEOREM AsAgreed == Spec => []TenancyAsAgreed
  BY BasisAlways, BasisMeans, PTL

\* An application that waits for its term has the work and the record to confirm it by.
THEOREM WorkToConfirm == Spec => []TermWorkStands
  BY BasisAlways, BasisMeans, PTL

-----------------------------------------------------------------------------
(* The opening position.  A confirmation in progress has a home, and so     *)
(* keeps its activation from being established until it commits.            *)

ConfirmingUnopened ==
    \A r \in Row : reading[<<"row", r>>].verdict # "none" =>
        reading[<<"row", r>>].home # NoHome /\ position[SetupOf[r]] = None
OpeningInv == TypeOK /\ OpeningCounts /\ ConfirmingUnopened

LEMMA OpeningRowStep ==
    ASSUME OpeningInv, TypeOK', NEW r \in Row, RowStep(r)
    PROVE  OpeningInv'
<1>1. TypeOK /\ UNCHANGED position /\ <<"row", r>> \in Actors /\ UNCHANGED claim
  BY DEF RowStep, BeginConfirmRow, CommitConfirmRow, RejectRow, ResolveResident, OpeningInv,
         activation, Actors
<1>2. position[SetupOf[r]] = None
  BY <1>1 DEF RowStep, BeginConfirmRow, CommitConfirmRow, RejectRow, ResolveResident, OpeningInv,
         ConfirmingUnopened
<1>3. \A k \in Row : k # r => row'[k] = row[k]
  BY <1>1 DEF RowStep, BeginConfirmRow, CommitConfirmRow, RejectRow, ResolveResident, TypeOK, activation
<1>4. ASSUME NEW s \in Setup, position[s] # None PROVE Confirmed(s)' = Confirmed(s)
  BY <1>2, <1>3, <1>4 DEF Confirmed
<1>5. OpeningCounts'  BY <1>1, <1>4 DEF OpeningInv, OpeningCounts
<1>6. \A y \in Actors : y # <<"row", r>> => reading'[y] = reading[y]
  BY <1>1 DEF RowStep, BeginConfirmRow, CommitConfirmRow, RejectRow, ResolveResident, TypeOK
<1>7. reading'[<<"row", r>>].verdict # "none" => reading'[<<"row", r>>].home # NoHome
  <2>1. CASE BeginConfirmRow(r)
    <3> DEFINE seen == Competing(claim[r].home, IF claim[r].dated \/ claim[r].who = Vacant
                                                THEN claim[r].term ELSE Observed, None)
    <3>1. reading'[<<"row", r>>] = Judged(r, seen)  BY <1>1, <2>1 DEF BeginConfirmRow, TypeOK
    <3>2. seen \in SUBSET Leases  BY DEF Competing
    <3> HIDE DEF seen
    <3>3. Judged(r, seen) \in [home : {claim[r].home}, verdict : {"insert", "record"}, row : RowValues]
      BY <1>1, <3>2, JudgedType
    <3>4. Judged(r, seen).home = claim[r].home  BY <3>3
    <3>5. claim[r] \in Claims  BY <1>1 DEF TypeOK
    <3> QED  BY <3>1, <3>4, <3>5
  <2>2. CASE \E l \in Leases : CommitConfirmRow(r, l)
    BY <1>1, <2>2 DEF CommitConfirmRow, TypeOK, Idle
  <2>3. CASE UNCHANGED reading  BY <2>3, <1>1 DEF OpeningInv, ConfirmingUnopened
  <2> QED  BY <2>1, <2>2, <2>3 DEF RowStep, RejectRow, ResolveResident
<1>8. ConfirmingUnopened'
  BY <1>1, <1>2, <1>6, <1>7 DEF OpeningInv, ConfirmingUnopened, Actors
<1> QED  BY <1>5, <1>8 DEF OpeningInv

LEMMA OpeningStep == OpeningInv /\ [Next]_vars => OpeningInv'
<1> SUFFICES ASSUME OpeningInv, [Next]_vars PROVE OpeningInv'
  OBVIOUS
<1>1. TypeOK /\ TypeOK'  BY TypeStep DEF OpeningInv
<1>2. CASE \E r \in Row : RowStep(r)  BY <1>1, <1>2, OpeningRowStep
<1>3. ASSUME UNCHANGED <<row, position>>,
             \A k \in Row : reading'[<<"row", k>>] = reading[<<"row", k>>]
      PROVE  OpeningInv'
  BY <1>1, <1>3 DEF OpeningInv, OpeningCounts, Confirmed, ConfirmingUnopened
<1>4. CASE \E a \in Application : ApplicationStep(a)
  <2>1. PICK a \in Application : ApplicationStep(a)  BY <1>4
  <2>2. UNCHANGED <<row, position>>
    BY <2>1 DEF ApplicationStep, Prepare, SignFree, BeginSign, CommitSign, Approve, Decline, Verify,
                Reevaluate, Execute, BeginConfirmTerm, RefuseTerm, CommitConfirmTerm, activation
  <2>3. \E v, x : x \in {<<"sign", a>>, <<"term", a>>}
            /\ (reading' = [reading EXCEPT ![x] = v] \/ reading' = reading)
    BY <2>1 DEF ApplicationStep, Prepare, SignFree, BeginSign, CommitSign, Approve, Decline, Verify,
                Reevaluate, Execute, BeginConfirmTerm, RefuseTerm, CommitConfirmTerm
  <2>4. \A k \in Row : <<"row", k>> \notin {<<"sign", a>>, <<"term", a>>} /\ <<"row", k>> \in Actors
    BY DEF Actors
  <2>5. \A k \in Row : reading'[<<"row", k>>] = reading[<<"row", k>>]
    BY <1>1, <2>3, <2>4 DEF TypeOK
  <2> QED  BY <1>3, <2>2, <2>5
<1>5. CASE (\E l \in Leases : LeaseStep(l)) \/ UNCHANGED vars
  BY <1>3, <1>5 DEF LeaseStep, ActivateEconomicTenancy, VoidHollowLease, LinkResident, RemoveTenant,
         DecideLease, LoadSnapshot, activation, vars
<1>6. CASE \E s \in Setup : EstablishOpening(s)
  <2>1. PICK s \in Setup : EstablishOpening(s)  BY <1>6
  <2>2. /\ SetupFree(s) /\ UNCHANGED <<row, reading>>
        /\ position' = [position EXCEPT ![s] = Cardinality(Confirmed(s))]
    BY <2>1 DEF EstablishOpening
  <2>3. \A u \in Setup : position'[u] = IF u = s THEN Cardinality(Confirmed(s)) ELSE position[u]
    BY <1>1, <2>2 DEF TypeOK
  <2>4. OpeningCounts'  BY <2>2, <2>3 DEF OpeningInv, OpeningCounts, Confirmed
  <2>5. ConfirmingUnopened'
    BY <2>2, <2>3 DEF OpeningInv, ConfirmingUnopened, SetupFree
  <2> QED  BY <1>1, <2>4, <2>5 DEF OpeningInv
<1> QED  BY <1>2, <1>4, <1>5, <1>6 DEF Next

\* The opening position keeps counting the rows that are confirmed.
THEOREM Opening == Spec => []OpeningCounts
<1>1. Init => OpeningInv
  <2> SUFFICES ASSUME Init PROVE OpeningInv
    OBVIOUS
  <2>1. TypeOK  BY InitType
  <2>2. OpeningCounts /\ ConfirmingUnopened
    BY DEF Init, OpeningCounts, ConfirmingUnopened, Idle, Actors
  <2> QED  BY <2>1, <2>2 DEF OpeningInv
<1>2. Spec => []OpeningInv  BY <1>1, OpeningStep, PTL DEF Spec
<1>3. OpeningInv => OpeningCounts  BY DEF OpeningInv
<1> QED  BY <1>2, <1>3, PTL

-----------------------------------------------------------------------------
(* The contract.  What a package, a record or a transaction in progress     *)
(* carries to a new lease is a home and a term of the property; the locks   *)
(* make the home as free when the lease appears as it was when asked.       *)

TermsInUse ==
    /\ \A a \in Application : pk[a].phase # "none" \/ ~PackageFree(a) => agreed[a] \in Terms
    /\ \A r \in Records : rec[r].state # "none" => rec[r].home \in Home /\ rec[r].term \in Terms
LedgerInv == TenancyInv /\ TermsInUse

Letting == [l \in Leases |-> LettingOf(lease[l])]

LEMMA OnlyBeginSignReads ==
    ASSUME TypeOK, [Next]_vars, NEW a \in Application, PackageFree(a), ~PackageFree(a)'
    PROVE  BeginSign(a)
<1> DEFINE x == <<"sign", a>>
<1> USE DEF PackageFree
<1>0. x \in Actors  BY DEF Actors
<1>k. reading'[x].home # reading[x].home  OBVIOUS
<1>1. ASSUME NEW b \in Application, ApplicationStep(b) PROVE BeginSign(a)
  <2>1. CASE BeginSign(b)
    BY <1>0, <1>k, <2>1 DEF BeginSign, Actors, TypeOK
  <2>2. CASE CommitSign(b)
    BY <1>0, <2>2 DEF CommitSign, Actors, TypeOK, Idle
  <2>3. CASE BeginConfirmTerm(b) \/ RefuseTerm(b)
             \/ \E l \in Leases, people \in People : CommitConfirmTerm(b, l, people)
    BY <1>0, <1>k, <2>3 DEF BeginConfirmTerm, RefuseTerm, CommitConfirmTerm, Actors, TypeOK
  <2>4. CASE reading' = reading
    BY <1>k, <2>4
  <2> QED
    BY <1>1, <2>1, <2>2, <2>3, <2>4 DEF ApplicationStep, Prepare, SignFree, Approve, Decline,
         Verify, Reevaluate, Execute
<1>2. ASSUME NEW l \in Leases, LeaseStep(l) PROVE BeginSign(a)
  BY <1>2, <1>k DEF LeaseStep, ActivateEconomicTenancy, VoidHollowLease, LinkResident,
       RemoveTenant, DecideLease, LoadSnapshot
<1>3. ASSUME NEW r \in Row, RowStep(r) PROVE BeginSign(a)
  <2>1. CASE BeginConfirmRow(r) \/ \E l \in Leases : CommitConfirmRow(r, l)
    BY <1>0, <1>k, <2>1 DEF BeginConfirmRow, CommitConfirmRow, Actors, TypeOK
  <2> QED  BY <1>3, <1>k, <2>1 DEF RowStep, RejectRow, ResolveResident
<1>4. CASE \E s \in Setup : EstablishOpening(s)
  BY <1>4, <1>k DEF EstablishOpening
<1>5. CASE UNCHANGED vars
  BY <1>5, <1>k DEF vars
<1> QED  BY <1>1, <1>2, <1>3, <1>4, <1>5 DEF Next

LEMMA TermsInUseStep == LedgerInv /\ [Next]_vars => TermsInUse'
<1> SUFFICES ASSUME LedgerInv, [Next]_vars PROVE TermsInUse'
  OBVIOUS
<1> USE DEF LedgerInv, TermsInUse
<1>t. TypeOK  BY DEF TenancyInv
<1>b. \A b \in Application : ~PackageFree(b)' => ~PackageFree(b) \/ BeginSign(b)
  BY <1>t, OnlyBeginSignReads
<1>f. \A b \in Application : BeginSign(b) => agreed'[b] \in Terms
  BY DEF BeginSign, MaySign, application
<1>k. ASSUME UNCHANGED <<agreed, pk, rec>> PROVE TermsInUse'
  BY <1>k, <1>b, <1>f
<1>s. ASSUME UNCHANGED <<agreed, rec>>, NEW a \in Application,
             pk[a].phase # "none" \/ ~PackageFree(a), NEW new, pk' = [pk EXCEPT ![a] = new]
      PROVE  TermsInUse'
  BY <1>s, <1>t, <1>b, <1>f DEF TypeOK
<1>r. ASSUME UNCHANGED <<agreed, pk>>,
             \A r \in Records : rec'[r].state = "none"
                 \/ (rec'[r].home \in Home /\ rec'[r].term \in Terms)
      PROVE  TermsInUse'
  BY <1>r, <1>b, <1>f
<1>1. ASSUME NEW a \in Application, ApplicationStep(a) PROVE TermsInUse'
  <2>1. ASSUME NEW t \in Terms, Prepare(a, t) PROVE TermsInUse'
    BY <2>1, <1>t, <1>b, <1>f DEF Prepare, TypeOK
  <2>2. ASSUME NEW signer \in Signers(a), SignFree(a, signer) PROVE TermsInUse'
    BY <2>2, <1>s DEF SignFree, MaySign
  <2>3. CASE BeginSign(a)
    BY <2>3, <1>k DEF BeginSign, application
  <2>4. CASE CommitSign(a)
    BY <2>4, <1>s, <1>k DEF CommitSign
  <2>5. CASE Approve(a) \/ Decline(a)
    BY <2>5, <1>k DEF Approve, Decline
  <2>6. ASSUME NEW h \in Home, NEW t \in Terms, NEW r \in Records, Verify(a, h, t, r)
        PROVE  TermsInUse'
    BY <2>6, <1>r, <1>t DEF Verify, Evaluate, NoRecord, TypeOK, RecordRow, Live
  <2>7. CASE Reevaluate(a)
    BY <2>7, <1>k DEF Reevaluate, Evaluate
  <2>8. ASSUME NEW h \in Home, NEW r \in Records, NEW l \in Leases, NEW people \in People,
               Execute(a, h, r, l, people)
        PROVE  TermsInUse'
    BY <2>8, <1>t, <1>b, <1>f DEF Execute, NoRecord, TypeOK, RecordRow
  <2>9. CASE BeginConfirmTerm(a) \/ RefuseTerm(a)
    BY <2>9, <1>k DEF BeginConfirmTerm, RefuseTerm, application
  <2>10. ASSUME NEW l \in Leases, NEW people \in People, CommitConfirmTerm(a, l, people)
         PROVE  TermsInUse'
    BY <2>10, <1>r, <1>t DEF CommitConfirmTerm, TypeOK, RecordRow, Live
  <2> QED
    BY <1>1, <2>1, <2>2, <2>3, <2>4, <2>5, <2>6, <2>7, <2>8, <2>9, <2>10 DEF ApplicationStep
<1>2. ASSUME NEW l \in Leases, LeaseStep(l) PROVE TermsInUse'
  BY <1>2, <1>k DEF LeaseStep, ActivateEconomicTenancy, VoidHollowLease, LinkResident,
       RemoveTenant, DecideLease, LoadSnapshot, application
<1>3. ASSUME NEW r \in Row, RowStep(r) PROVE TermsInUse'
  BY <1>3, <1>k DEF RowStep, BeginConfirmRow, RejectRow, CommitConfirmRow, ResolveResident,
       application
<1>4. ASSUME NEW s \in Setup, EstablishOpening(s) PROVE TermsInUse'
  BY <1>4, <1>k DEF EstablishOpening, application
<1>5. CASE UNCHANGED vars
  BY <1>5, <1>k DEF vars, application
<1> QED  BY <1>1, <1>2, <1>3, <1>4, <1>5 DEF Next

LEMMA LedgerAlways == Spec => []LedgerInv
<1>1. Init => TermsInUse  BY DEF Init, TermsInUse, NoRecord, PackageFree, Actors, Idle
<1>2. LedgerInv /\ [Next]_vars => LedgerInv'
  BY TermsInUseStep, TenancyStep DEF LedgerInv
<1> QED  BY <1>1, <1>2, TenancyInvInit, PTL DEF Spec, LedgerInv

\* A lease that is inserted is the contract's next one, let after asking or imported.
LEMMA NewLeaseLets ==
    ASSUME TypeOK, NEW l \in Leases, NEW new \in LeaseRow, Fresh(l),
           lease' = [lease EXCEPT ![l] = new], new.st \in {"pending", "active"},
           new.home \in Home, new.term \in Terms, ~new.revived,
           \/ new.via = "snapshot"
           \/ new.via \in {"term", "activation"} /\ Clear(new.home, new.term)
    PROVE  Ledger!Next
<1>1. \A k \in Leases : lease'[k] = IF k = l THEN new ELSE lease[k]
  BY DEF TypeOK
<1>2. Ledger!NextUnused(l)
  BY DEF Ledger!NextUnused, Fresh, LettingOf, Leases, Retired
<1>3. LettingOf(new) = [state |-> "let", home |-> new.home, term |-> new.term,
                        asked |-> new.via # "snapshot", revived |-> FALSE]
  BY DEF LettingOf, Retired, LeaseRow
<1>4. Letting' = [Letting EXCEPT ![l] = LettingOf(new)]
  BY <1>1 DEF Letting, LettingOf
<1>5. Ledger!NewLetting(l, new.home, new.term, new.via # "snapshot")
  BY <1>3, <1>4 DEF Ledger!NewLetting, Letting
<1>6. CASE new.via = "snapshot"
  BY <1>2, <1>5, <1>6 DEF Ledger!Next, Ledger!Import
<1>7. CASE new.via # "snapshot"
  <2>1. \A k \in Ledger!Against(new.home, new.term) : lease[k].revived
    BY <1>7, ClearMeans DEF Ledger!Against, Ledger!InForce, LettingOf, Operative, Retired
  <2>2. Ledger!Let(l, new.home, new.term)
    BY <1>5, <1>7, <2>1 DEF Ledger!Let, Ledger!Against, LettingOf
  <2> QED  BY <1>2, <2>2 DEF Ledger!Next
<1> QED  BY <1>6, <1>7

\* A lease that is not new keeps its letting, is voided, or is brought back.
LEMMA EditLets ==
    ASSUME TypeOK, NEW l \in Leases, NEW new, lease' = [lease EXCEPT ![l] = new],
           \/ LettingOf(new) = LettingOf(lease[l])
           \/ /\ Operative(l)
              /\ LettingOf(new) = [LettingOf(lease[l]) EXCEPT !.state = "void"]
           \/ /\ lease[l].st = "cancelled"
              /\ LettingOf(new) = [LettingOf(lease[l]) EXCEPT !.state = "let", !.revived = TRUE]
    PROVE  Ledger!Next \/ Letting' = Letting
<1>1. \A k \in Leases : lease'[k] = IF k = l THEN new ELSE lease[k]
  BY DEF TypeOK
<1>2. Letting' = [Letting EXCEPT ![l] = LettingOf(new)]
  <2>1. Letting' = [k \in Leases |-> LettingOf(lease'[k])]  BY DEF Letting, LettingOf
  <2>2. \A k \in Leases :
            LettingOf(lease'[k]) = IF k = l THEN LettingOf(new) ELSE LettingOf(lease[k])
    BY <1>1
  <2> QED  BY <2>1, <2>2 DEF Letting
<1>3. CASE LettingOf(new) = LettingOf(lease[l])
  BY <1>2, <1>3 DEF Letting
<1>4. CASE /\ Operative(l)
           /\ LettingOf(new) = [LettingOf(lease[l]) EXCEPT !.state = "void"]
  <2>1. Ledger!InForce(l)  BY <1>4 DEF Ledger!InForce, LettingOf, Operative
  <2>2. Letting' = [Letting EXCEPT ![l].state = "void"]  BY <1>2, <1>4 DEF Letting
  <2>3. Ledger!Void(l)  BY <2>1, <2>2 DEF Ledger!Void, Letting
  <2> QED  BY <2>3 DEF Ledger!Next
<1>5. CASE /\ lease[l].st = "cancelled"
           /\ LettingOf(new) = [LettingOf(lease[l]) EXCEPT !.state = "let", !.revived = TRUE]
  <2>1. Letting[l].state = "void"  BY <1>5 DEF Letting, LettingOf, Retired
  <2>2. Letting' = [Letting EXCEPT ![l].state = "let", ![l].revived = TRUE]
    BY <1>2, <1>5 DEF Letting
  <2>3. Ledger!BringBack(l)  BY <2>1, <2>2 DEF Ledger!BringBack, Letting
  <2> QED  BY <2>3 DEF Ledger!Next
<1> QED  BY <1>3, <1>4, <1>5

LEMMA LedgerLeaseStep ==
    ASSUME LedgerInv, NEW l \in Leases, LeaseStep(l)
    PROVE  Ledger!Next \/ Letting' = Letting
<1> USE DEF Retired
<1>t. TypeOK  BY DEF LedgerInv, TenancyInv
<1>l. lease[l] \in LeaseRow  BY <1>t DEF TypeOK
<1>1. CASE ActivateEconomicTenancy(l)
  <2> DEFINE new == [lease[l] EXCEPT !.st = "active", !.econ = TRUE]
  <2>1. lease' = [lease EXCEPT ![l] = new]  BY <1>1, <1>t DEF ActivateEconomicTenancy, TypeOK
  <2>2. LettingOf(new) = LettingOf(lease[l])
    BY <1>1, <1>l DEF ActivateEconomicTenancy, LettingOf, LeaseRow
  <2> HIDE DEF new
  <2> QED  BY <1>t, <2>1, <2>2, EditLets
<1>2. CASE VoidHollowLease(l)
  <2> DEFINE new == [lease[l] EXCEPT !.st = "cancelled"]
  <2>1. lease' = [lease EXCEPT ![l] = new]  BY <1>2, <1>t DEF VoidHollowLease, TypeOK
  <2>2. Operative(l)  BY <1>2 DEF VoidHollowLease
  <2>3. LettingOf(new) = [LettingOf(lease[l]) EXCEPT !.state = "void"]
    BY <1>l, <2>2 DEF LettingOf, LeaseRow, Operative
  <2> HIDE DEF new
  <2> QED  BY <1>t, <2>1, <2>2, <2>3, EditLets
<1>3. ASSUME NEW p \in Person, LinkResident(l, p) \/ RemoveTenant(l, p)
      PROVE  Ledger!Next \/ Letting' = Letting
  <2>1. PICK people : lease' = [lease EXCEPT ![l] = [lease[l] EXCEPT !.tenants = people]]
    BY <1>3, <1>t DEF LinkResident, RemoveTenant, TypeOK
  <2> DEFINE new == [lease[l] EXCEPT !.tenants = people]
  <2>2. LettingOf(new) = LettingOf(lease[l])  BY <1>l DEF LettingOf, LeaseRow
  <2>3. lease' = [lease EXCEPT ![l] = new]  BY <2>1
  <2> HIDE DEF new
  <2> QED  BY <1>t, <2>2, <2>3, EditLets
<1>4. ASSUME NEW st \in {"active", "rejected"}, DecideLease(l, st)
      PROVE  Ledger!Next \/ Letting' = Letting
  <2> DEFINE new == [lease[l] EXCEPT !.st = st, !.revived = @ \/ ~Operative(l)]
  <2>1. lease' = [lease EXCEPT ![l] = new]  BY <1>4, <1>t DEF DecideLease, TypeOK
  <2>2. CASE Operative(l)
    <3>1. LettingOf(new) = LettingOf(lease[l])
      BY <1>l, <2>2 DEF LettingOf, LeaseRow, Operative
    <3> HIDE DEF new
    <3> QED  BY <1>t, <2>1, <3>1, EditLets
  <2>3. CASE ~Operative(l)
    <3>1. lease[l].st = "cancelled"  BY <1>4, <2>3 DEF DecideLease, Operative
    <3>2. /\ new.st = st /\ new.home = lease[l].home /\ new.term = lease[l].term
          /\ new.via = lease[l].via /\ new.revived = TRUE
      <4>1. (lease[l].revived \/ ~Operative(l)) = TRUE  BY <2>3, Zenon
      <4>2. new.revived = (lease[l].revived \/ ~Operative(l))  BY <1>l DEF LeaseRow
      <4>3. new.revived = TRUE  BY <4>1, <4>2, Zenon
      <4> QED  BY <1>l, <4>3 DEF LeaseRow
    <3>3. LettingOf(new) = [LettingOf(lease[l]) EXCEPT !.state = "let", !.revived = TRUE]
      <4> HIDE DEF new
      <4>1. LettingOf(new) =
                [state |-> "let", home |-> lease[l].home, term |-> lease[l].term,
                 asked |-> lease[l].via \notin {"none", "snapshot"}, revived |-> TRUE]
        BY <3>2 DEF LettingOf
      <4>r. PICK revived : revived = TRUE  OBVIOUS
      <4>2. PICK state, asked :
                /\ LettingOf(lease[l]) =
                       [state |-> state, home |-> lease[l].home, term |-> lease[l].term,
                        asked |-> asked, revived |-> lease[l].revived]
                /\ LettingOf(new) =
                       [state |-> "let", home |-> lease[l].home, term |-> lease[l].term,
                        asked |-> asked, revived |-> revived]
        BY <4>r, <4>1 DEF LettingOf
      <4> DEFINE let == [LettingOf(lease[l]) EXCEPT !.state = "let"]
      <4>3. let = [state |-> "let", home |-> lease[l].home, term |-> lease[l].term,
                   asked |-> asked, revived |-> lease[l].revived]
        BY <4>2
      <4>4. LettingOf(new) = [let EXCEPT !.revived = revived]
        <5> HIDE DEF let
        <5> QED  BY <4>2, <4>3
      <4> QED  BY <4>r, <4>4
    <3> HIDE DEF new
    <3> QED  BY <1>t, <2>1, <3>1, <3>3, EditLets
  <2> QED  BY <2>2, <2>3
<1>5. ASSUME NEW h \in Home, NEW t \in Terms, NEW st \in {"active", "pending"},
             NEW people \in People, LoadSnapshot(l, h, t, st, people)
      PROVE  Ledger!Next
  <2> DEFINE new == [NoLease EXCEPT !.st = st, !.home = h, !.term = t, !.tenants = people,
                                    !.via = "snapshot"]
  <2>1. new \in LeaseRow  BY PeopleAreSets DEF NoLease, LeaseRow
  <2>2. /\ new.st \in {"pending", "active"} /\ new.home \in Home /\ new.term \in Terms
        /\ ~new.revived /\ new.via = "snapshot"
    BY DEF NoLease
  <2>3. lease' = [lease EXCEPT ![l] = new] /\ Fresh(l)  BY <1>5 DEF LoadSnapshot
  <2> HIDE DEF new
  <2> QED  BY <1>t, <2>1, <2>2, <2>3, NewLeaseLets
<1> QED  BY <1>1, <1>2, <1>3, <1>4, <1>5 DEF LeaseStep

LEMMA LedgerApplicationStep ==
    ASSUME LedgerInv, NEW a \in Application, ApplicationStep(a)
    PROVE  Ledger!Next \/ Letting' = Letting
<1>t. TypeOK  BY DEF LedgerInv, TenancyInv
<1>k. ASSUME lease' = lease PROVE Letting' = Letting
  BY <1>k DEF Letting, LettingOf
<1>a. ASSUME NEW h \in Home, NEW term \in Terms, NEW people \in People, NEW l \in Leases,
             Fresh(l), Clear(h, term), lease' = [lease EXCEPT ![l] = Anchor(a, h, term, people)]
      PROVE  Ledger!Next
  <2>1. Anchor(a, h, term, people) \in LeaseRow
    BY PeopleAreSets DEF Anchor, NoLease, LeaseRow
  <2>2. LET new == Anchor(a, h, term, people) IN
        /\ new.st = "pending" /\ new.via = "term" /\ ~new.revived
        /\ new.home = h /\ new.term = term
    BY DEF Anchor, NoLease
  <2> QED  BY <1>a, <1>t, <2>1, <2>2, NewLeaseLets
<1>1. ASSUME NEW h \in Home, NEW r \in Records, NEW l \in Leases, NEW people \in People,
             Execute(a, h, r, l, people), lease' # lease
      PROVE  Ledger!Next
  <2>1. /\ pk[a].phase = "resident_executed" /\ Fresh(l)
        /\ Competing(h, agreed[a], None) = {}
        /\ lease' = [lease EXCEPT ![l] = Anchor(a, h, agreed[a], people)]
    BY <1>1 DEF Execute, Unblocked
  <2>2. agreed[a] \in Terms  BY <2>1 DEF LedgerInv, TermsInUse
  <2>3. Clear(h, agreed[a])  BY <2>1 DEF Clear
  <2> QED  BY <1>a, <2>1, <2>2, <2>3
<1>2. ASSUME NEW l \in Leases, NEW people \in People, CommitConfirmTerm(a, l, people)
      PROVE  Ledger!Next
  <2>1. PICK r \in Live(a) :
            /\ reading[<<"term", a>>].verdict = "clean" /\ Fresh(l)
            /\ lease' = [lease EXCEPT ![l] = Anchor(a, rec[r].home, rec[r].term, people)]
    BY <1>2 DEF CommitConfirmTerm
  <2>2. Clear(rec[r].home, rec[r].term)
    BY <2>1 DEF LedgerInv, TenancyInv, TermStillClear
  <2>3. rec[r].home \in Home /\ rec[r].term \in Terms
    BY DEF LedgerInv, TermsInUse, Live
  <2> QED  BY <1>a, <2>1, <2>2, <2>3
<1> QED
  BY <1>k, <1>1, <1>2 DEF ApplicationStep, Prepare, SignFree, BeginSign, CommitSign, Approve,
     Decline, Verify, Reevaluate, BeginConfirmTerm, RefuseTerm

LEMMA LedgerRowStep ==
    ASSUME LedgerInv, NEW r \in Row, RowStep(r)
    PROVE  Ledger!Next \/ Letting' = Letting
<1>t. TypeOK  BY DEF LedgerInv, TenancyInv
<1>k. ASSUME lease' = lease PROVE Letting' = Letting
  BY <1>k DEF Letting, LettingOf
<1>1. ASSUME NEW l \in Leases, CommitConfirmRow(r, l), lease' # lease
      PROVE  Ledger!Next
  <2> DEFINE x == reading[<<"row", r>>]
             new == [NoLease EXCEPT !.st = "active", !.home = x.home, !.term = claim[r].term,
                         !.tenants = {x.row.who} \ {NoPerson}, !.via = "activation"]
  <2>1. x.verdict = "insert" /\ Fresh(l) /\ lease' = [lease EXCEPT ![l] = new]
    BY <1>1 DEF CommitConfirmRow
  <2>2. x.home = claim[r].home /\ Clear(claim[r].home, claim[r].term)
    BY <2>1 DEF LedgerInv, TenancyInv, RowStillClear
  <2>3. claim[r].home \in Home /\ claim[r].term \in Terms
    BY <1>t DEF TypeOK
  <2>4. x \in Reading  BY <1>t DEF TypeOK, Actors
  <2>5. {x.row.who} \ {NoPerson} \subseteq Person
    BY <2>1, <2>4 DEF Reading, RowValues
  <2>6. new \in LeaseRow  BY <2>2, <2>3, <2>5 DEF NoLease, LeaseRow
  <2>7. /\ new.st = "active" /\ new.via = "activation" /\ ~new.revived
        /\ new.home = claim[r].home /\ new.term = claim[r].term
    BY <2>2 DEF NoLease
  <2> HIDE DEF new
  <2> QED  BY <1>t, <2>1, <2>2, <2>3, <2>6, <2>7, NewLeaseLets
<1>2. ASSUME NEW l \in Leases, CommitConfirmRow(r, l) PROVE Ledger!Next \/ Letting' = Letting
  BY <1>k, <1>1, <1>2
<1>3. CASE BeginConfirmRow(r)
  BY <1>3, <1>k DEF BeginConfirmRow
<1>4. CASE RejectRow(r)
  BY <1>4, <1>k DEF RejectRow
<1>5. ASSUME NEW who, ResolveResident(r, who) PROVE Letting' = Letting
  BY <1>5, <1>k DEF ResolveResident
<1> QED  BY <1>2, <1>3, <1>4, <1>5 DEF RowStep

\* To somebody who asks about a home, every writer of leases is one act of the ledger:
\* a lease appears where nothing stands, is imported, is voided or is brought back.
\* The read of confirmTermService or confirmProposal and its insert are one act to
\* the others, for any number of them at once.
THEOREM LedgerImplemented == Spec => ImplementsLedger
<1>1. Init => Ledger!Init
  <2>1. ("none" \notin {"none", "snapshot"}) = FALSE  BY Zenon
  <2>2. LettingOf(NoLease) = Ledger!Unused
    BY <2>1 DEF LettingOf, NoLease, Ledger!Unused
  <2>3. Init => \A l \in Leases : LettingOf(lease[l]) = LettingOf(NoLease)
    BY DEF Init
  <2> QED  BY <2>2, <2>3 DEF Ledger!Init
<1>2. LedgerInv /\ [Next]_vars => Ledger!Next \/ Letting' = Letting
  <2> SUFFICES ASSUME LedgerInv, [Next]_vars PROVE Ledger!Next \/ Letting' = Letting
    OBVIOUS
  <2>k. ASSUME lease' = lease PROVE Letting' = Letting
    BY <2>k DEF Letting, LettingOf
  <2>1. CASE \E a \in Application : ApplicationStep(a)  BY <2>1, LedgerApplicationStep
  <2>2. CASE \E l \in Leases : LeaseStep(l)  BY <2>2, LedgerLeaseStep
  <2>3. CASE \E r \in Row : RowStep(r)  BY <2>3, LedgerRowStep
  <2>4. CASE UNCHANGED vars \/ \E s \in Setup : EstablishOpening(s)
    BY <2>4, <2>k DEF vars, EstablishOpening
  <2> QED  BY <2>1, <2>2, <2>3, <2>4 DEF Next
<1>3. LedgerInv /\ [Next]_vars => [Ledger!Next]_Letting
  BY <1>2
<1> QED
  BY <1>1, <1>3, LedgerAlways, PTL DEF Spec, ImplementsLedger, Ledger!Spec, Letting
=============================================================================
