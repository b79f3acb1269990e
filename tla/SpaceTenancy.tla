---------------------------- MODULE SpaceTenancy ----------------------------
(***************************************************************************)
(* One home, one tenancy: how the leases of a property come to exist.      *)
(*                                                                         *)
(* An application signs its package and so holds the home it names         *)
(* (application_inventory_hold.js); the company executes the package, or   *)
(* staff record a lease executed elsewhere (executed_lease_service.js);    *)
(* the confirmed term becomes a lease (tenancy_anchor_service.js).  A rent *)
(* roll being activated confirms its rows into leases of the same homes    *)
(* (activation_service.js), the snapshot loader imports them without       *)
(* asking, and leases are linked, approved, activated and voided by        *)
(* handlers of their own.                                                  *)
(*                                                                         *)
(* The three writers that read a home and then write it (sign, confirm     *)
(* term, confirm row) are two steps: the read under the locks they take,   *)
(* and the commit.  Every other handler is one transaction and one step.   *)
(***************************************************************************)
EXTENDS Integers, FiniteSets, ApplicationLifecycle

CONSTANTS
    Application, Home, Person, Day,
    NoHome,           \* an application that names a unit and no space
    NamedHome,        \* lease_applications.space_id
    Guaranteed,       \* applications whose package has a guarantor signer
    Setup, Row,       \* activations, and the lease rows of their sources
    SetupOf,
    Claims,           \* what a row may say: [home, term, dated, who]
    NoPerson,         \* who: no phone and no email, so nobody to recognise
    Vacant,           \* who: the source says the home is empty
    AsOf,             \* the day the sources were written
    Terms,            \* the terms in use, each a nonempty set of days
    Ungoverned,       \* doors in use that ask nothing: "approval", "snapshot"
    MaxRecords, MaxLeases, MaxWork      \* bounds

Leases == 1..MaxLeases
Records == 1..MaxRecords
None == 0                                   \* a null lease or record pointer
Signers(a) == {"tenant"} \union (IF a \in Guaranteed THEN {"guarantor"} ELSE {})
Observed == {d \in Day : d >= AsOf}         \* an undated row: from the source's date on

ASSUME ConstantAssumption ==
    /\ Day \subseteq Int /\ AsOf \in Day
    /\ Terms \subseteq SUBSET Day
    /\ NoHome \notin Home /\ None \notin Application /\ {NoPerson, Vacant} \cap Person = {}
    /\ NamedHome \in [Application -> Home \union {NoHome}]
    /\ SetupOf \in [Row -> Setup] /\ IsFiniteSet(Row)
    /\ Claims \subseteq [home : Home, term : Terms, dated : BOOLEAN,
                         who : Person \union {NoPerson, Vacant}]
    /\ Ungoverned \subseteq {"approval", "snapshot"}
    /\ MaxRecords \in Nat /\ MaxLeases \in Nat /\ MaxWork \in Nat

VARIABLES
    status,     \* lease_applications.status
    approved,   \* applications with terms_review_obligation_id
    agreed,     \* term of the confirmation the applicant's package carries, {} if none
    pk,         \* current package: [phase, signed]
    work,       \* how many term_required obligations of the application are open
    rec,        \* executed_lease_records
    lease,      \* leases
    claim,      \* what each row says
    row,        \* proposed_records
    position,   \* opening position of a setup: confirmed rows it published, None before
    reading     \* what a transaction in progress concluded under its locks

application == <<status, approved, agreed, pk, work>>
activation == <<claim, row, position>>
vars == <<application, rec, lease, activation, reading>>

-----------------------------------------------------------------------------
(* Leases. *)

Retired == {"cancelled"}                \* the one retired status these writers set
NoLease == [st |-> "none", home |-> NoHome, term |-> {}, app |-> None, tenants |-> {},
            via |-> "none", econ |-> FALSE, revived |-> FALSE]
Operative(l) == lease[l].st \notin Retired \union {"none"}

\* OPERATIVE_OVERLAP_SQL: same home, days in common, not retired.
WithinNothing(h, term, self) == {}                                   \* mutant
Competing(h, term, self) ==
    {l \in Leases \ {self} : Operative(l) /\ lease[l].home = h /\ lease[l].term \cap term # {}}

Fresh(l) == lease[l].st = "none" /\ \A k \in 1..(l - 1) : lease[k].st # "none"

Anchor(a, h, term, people) ==
    [NoLease EXCEPT !.st = "pending", !.home = h, !.term = term, !.app = a,
                    !.tenants = people, !.via = "term"]

-----------------------------------------------------------------------------
(* Transactions in progress and the row locks they hold. *)

NewRow == [st |-> "staged", who |-> "undecided", candidates |-> {}, lease |-> None]
Actors == ({"sign", "term"} \X Application) \union ({"row"} \X Row)
Idle == [home |-> NoHome, verdict |-> "none", row |-> NewRow]

AnySpace(h) == TRUE                                                  \* mutant
SpaceFree(h) == \A x \in Actors : reading[x].home # h                 \* spaces ... for update
AppFree(a) == reading[<<"term", a>>].home = NoHome                    \* lease_applications
PackageFree(a) == reading[<<"sign", a>>].home = NoHome                \* lease_packets
AnySetup(s) == TRUE                                                  \* mutant
SetupFree(s) == \A r \in Row : SetupOf[r] = s => reading[<<"row", r>>].home = NoHome

-----------------------------------------------------------------------------
(* The package an application signs, and the home its signature holds. *)

ReleasedStatuses == {"declined", "withdrawn", "expired", "accepted_term_required", "active"}

Holds(a) ==
    "tenant" \in pk[a].signed /\ status[a] \notin ReleasedStatuses /\ NamedHome[a] # NoHome

Holders(h) == {a \in Application : Holds(a) /\ NamedHome[a] = h}

\* A package is prepared, or its unfrozen version superseded by a new one
\* that may carry other terms and carries no signature.
Prepare(a, t) ==
    /\ status[a] \in PacketEligibleStatuses \union {"submitted"}
    /\ pk[a].phase \in {"none", "out"} /\ AppFree(a) /\ PackageFree(a)
    /\ pk' = [pk EXCEPT ![a] = [phase |-> "out", signed |-> {}]]
    /\ agreed' = [agreed EXCEPT ![a] = t]
    /\ UNCHANGED <<status, approved, work, rec, lease, activation, reading>>

MaySign(a, signer) ==
    /\ pk[a].phase = "out" /\ signer \in Signers(a) \ pk[a].signed /\ PackageFree(a)
    /\ signer = "tenant" => a \in approved \/ status[a] = "submitted"

SignedAsSubmitted(a, signer) ==                                      \* mutant
    [phase |-> IF signer = "tenant" THEN "submitted" ELSE "out", signed |-> pk[a].signed \union {signer}]
Signed(a, signer) ==
    LET signed == pk[a].signed \union {signer} IN
    [phase |-> IF signed = Signers(a) THEN "resident_executed" ELSE "out", signed |-> signed]

SignFree(a, signer) ==      \* a guarantor's signature, or one for no home in particular
    /\ MaySign(a, signer) /\ (signer = "tenant" => NamedHome[a] = NoHome)
    /\ pk' = [pk EXCEPT ![a] = Signed(a, signer)]
    /\ UNCHANGED <<status, approved, agreed, work, rec, lease, activation, reading>>

BeginSign(a) ==
    /\ MaySign(a, "tenant") /\ NamedHome[a] # NoHome /\ SpaceFree(NamedHome[a])
    /\ reading' = [reading EXCEPT ![<<"sign", a>>] =
            [Idle EXCEPT !.home = NamedHome[a],
                         !.verdict = IF Holders(NamedHome[a]) \subseteq {a}
                                     THEN "clean" ELSE "refused"]]
    /\ UNCHANGED <<application, rec, lease, activation>>

CommitSign(a) ==
    /\ ~PackageFree(a)
    /\ pk' = IF reading[<<"sign", a>>].verdict = "clean"
             THEN [pk EXCEPT ![a] = Signed(a, "tenant")] ELSE pk
    /\ reading' = [reading EXCEPT ![<<"sign", a>>] = Idle]
    /\ UNCHANGED <<status, approved, agreed, work, rec, lease, activation>>

Approve(a) ==
    /\ status[a] = "submitted" /\ AppFree(a)
    /\ status' = [status EXCEPT ![a] = "lease_ready"]
    /\ approved' = approved \union {a}
    /\ UNCHANGED <<agreed, pk, work, rec, lease, activation, reading>>

\* Declined, withdrawn or expired: the same statuses are left, the same home freed.
Decline(a) ==
    /\ AssessTransition(status[a], "declined") = "applied" /\ AppFree(a)
    /\ status' = [status EXCEPT ![a] = "declined"]
    /\ UNCHANGED <<approved, agreed, pk, work, rec, lease, activation, reading>>

-----------------------------------------------------------------------------
(* The executed lease and its admission. *)

Live(a) == {r \in Records : rec[r].app = a /\ rec[r].state = "verified"}

NoRecord == [app |-> None, home |-> NoHome, term |-> {}, state |-> "none", lease |-> None]
FreshRecord(r) == rec[r].state = "none" /\ \A k \in 1..(r - 1) : rec[k].state # "none"

\* computeAdmissionBlockers: the terms acknowledged, the premises, the overlap.
OverlapOnly(a, h, term, self) == Competing(h, term, self) = {}       \* mutant
Unblocked(a, h, term, self) ==
    /\ agreed[a] = term
    /\ NamedHome[a] \in {NoHome, h}
    /\ Competing(h, term, self) = {}

\* ADMISSION_ORIGINS, for the statuses an application has here
Admissible(st) == st \in {"lease_ready", "accepted_term_required"}
\* evaluateExecutedLeaseAdmission on a clean record: it opens term work, then
\* moves the status if the lifecycle lets it.
Admitted(a) == IF Admissible(status[a]) THEN "accepted_term_required" ELSE status[a]
EvaluateSilently(a, clean) ==                                        \* mutant
    /\ status' = IF clean THEN [status EXCEPT ![a] = Admitted(a)] ELSE status
    /\ UNCHANGED work
Evaluate(a, clean) ==
    /\ clean => work[a] < MaxWork
    /\ work' = IF clean THEN [work EXCEPT ![a] = @ + 1] ELSE work
    /\ status' = IF clean THEN [status EXCEPT ![a] = Admitted(a)] ELSE status

\* POST /operator/.../executed-lease: any home of the property, any term, whatever
\* the application's status.  A live record is superseded while no lease stands on it.
ReplaceAny(a, old) == old = Live(a)                                  \* mutant
Replaceable(a, old) == old = Live(a) /\ \A r \in old : rec[r].lease = None
Verify(a, h, t, r) ==
    /\ AppFree(a) /\ SpaceFree(h) /\ FreshRecord(r)
    /\ Replaceable(a, Live(a))
    /\ rec' = [k \in Records |->
            IF k = r THEN [NoRecord EXCEPT !.app = a, !.home = h, !.term = t, !.state = "verified"]
            ELSE IF k \in Live(a) THEN [rec[k] EXCEPT !.state = "superseded"] ELSE rec[k]]
    /\ Evaluate(a, Unblocked(a, h, t, None))
    /\ UNCHANGED <<approved, agreed, pk, lease, activation, reading>>

\* The same request again: the record that stands is evaluated once more.
Reevaluate(a) ==
    \E r \in Live(a) :
        /\ AppFree(a) /\ SpaceFree(rec[r].home)
        /\ Evaluate(a, Unblocked(a, rec[r].home, rec[r].term, rec[r].lease))
        /\ UNCHANGED <<approved, agreed, pk, rec, lease, activation, reading>>

\* POST .../execute: approve if that is still owed, sign for the company, record the
\* execution and, when it is admitted, confirm its term, all in one transaction.
Execute(a, h, r, l, people) ==
    LET t == agreed[a]
        from == IF a \in approved THEN status[a] ELSE "lease_ready"
        clean == Unblocked(a, h, t, None) /\ from = "lease_ready" /\ \A k \in Leases : lease[k].app # a
    IN
    /\ pk[a].phase = "resident_executed" /\ AppFree(a) /\ PackageFree(a)
    /\ status[a] \notin Terminal /\ (a \in approved \/ status[a] = "submitted")
    /\ h = NamedHome[a] /\ h # NoHome /\ SpaceFree(h)
    /\ Live(a) = {} /\ FreshRecord(r) /\ Fresh(l)
    /\ approved' = approved \union {a}
    /\ pk' = [pk EXCEPT ![a].phase = "executed"]
    /\ rec' = [rec EXCEPT ![r] = [NoRecord EXCEPT !.app = a, !.home = h, !.term = t,
                                    !.state = "verified", !.lease = IF clean THEN l ELSE None]]
    /\ lease' = IF clean THEN [lease EXCEPT ![l] = Anchor(a, h, t, people)] ELSE lease
    /\ status' = [status EXCEPT ![a] = IF clean THEN "active" ELSE from]
    /\ UNCHANGED <<agreed, work, activation, reading>>

\* confirmTermService: the application and its newest term work are locked, then the
\* home; the blockers are computed again from what stands now.
BeginConfirmTerm(a) ==
    \E r \in Live(a) :
        /\ status[a] = "accepted_term_required" /\ work[a] > 0
        /\ \A l \in Leases : lease[l].app # a
        /\ AppFree(a) /\ SpaceFree(rec[r].home)
        /\ reading' = [reading EXCEPT ![<<"term", a>>] =
                [Idle EXCEPT !.home = rec[r].home,
                             !.verdict = IF Unblocked(a, rec[r].home, rec[r].term, None)
                                         THEN "clean" ELSE "refused"]]
        /\ UNCHANGED <<application, rec, lease, activation>>

CommitConfirmTerm(a, l, people) ==
    \E r \in Live(a) :
        /\ reading[<<"term", a>>].verdict = "clean" /\ Fresh(l)
        /\ lease' = [lease EXCEPT ![l] = Anchor(a, rec[r].home, rec[r].term, people)]
        /\ rec' = [rec EXCEPT ![r].lease = l]
        /\ work' = [work EXCEPT ![a] = @ - 1]
        /\ status' = [status EXCEPT ![a] = "active"]
        /\ reading' = [reading EXCEPT ![<<"term", a>>] = Idle]
        /\ UNCHANGED <<approved, agreed, pk, activation>>

RefuseTerm(a) ==
    /\ reading[<<"term", a>>].verdict = "refused"
    /\ reading' = [reading EXCEPT ![<<"term", a>>] = Idle]
    /\ UNCHANGED <<application, rec, lease, activation>>

-----------------------------------------------------------------------------
(* The other handlers of a lease. *)

\* Term commenced and move-in funds applied, which are not part of this model.
ActivateEconomicTenancy(l) ==
    /\ lease[l].st = "pending"
    /\ lease' = [lease EXCEPT ![l].st = "active", ![l].econ = TRUE]
    /\ UNCHANGED <<application, rec, activation, reading>>

LinkResident(l, p) ==
    /\ lease[l].st # "none" /\ lease[l].tenants = {}
    /\ lease' = [lease EXCEPT ![l].tenants = {p}]
    /\ UNCHANGED <<application, rec, activation, reading>>

RemoveTenant(l, p) ==
    /\ p \in lease[l].tenants
    /\ lease' = [lease EXCEPT ![l].tenants = @ \ {p}]
    /\ UNCHANGED <<application, rec, activation, reading>>

VoidHollowLease(l) ==
    /\ Operative(l) /\ lease[l].tenants = {} /\ lease[l].app = None /\ ~lease[l].econ
    /\ lease' = [lease EXCEPT ![l].st = "cancelled"]
    /\ UNCHANGED <<application, rec, activation, reading>>

\* PATCH /leases/:id/approval asks nothing of the lease it decides.
DecideLease(l, st) ==
    /\ "approval" \in Ungoverned /\ lease[l].st # "none" /\ st \in {"active", "rejected"}
    /\ lease' = [lease EXCEPT ![l].st = st, ![l].revived = @ \/ ~Operative(l)]
    /\ UNCHANGED <<application, rec, activation, reading>>

\* The snapshot loader finds its own lease by home, status and term, or inserts one,
\* asking nothing else.  The foreign key makes the insert wait for the home's row.
LoadSnapshot(l, h, t, st, people) ==
    /\ "snapshot" \in Ungoverned /\ Fresh(l) /\ SpaceFree(h)
    /\ \A k \in Leases : <<lease[k].home, lease[k].term, lease[k].st>> # <<h, t, st>>
    /\ lease' = [lease EXCEPT ![l] = [NoLease EXCEPT !.st = st, !.home = h, !.term = t,
                                        !.tenants = people, !.via = "snapshot"]]
    /\ UNCHANGED <<application, rec, activation, reading>>

-----------------------------------------------------------------------------
(* Activating a rent roll. *)

\* ingestPerson: a decision already signed, the one person the contact names, a
\* person nobody can recognise, or a choice for a human.
Ingest(r, holders) ==
    LET c == claim[r] IN
    CASE row[r].who # "undecided"                             -> row[r].who
      [] row[r].who = "undecided" /\ c.who = NoPerson         ->
            IF holders = {} THEN NoPerson ELSE "undecided"
      [] OTHER                                                ->
            IF holders \subseteq {c.who} THEN c.who ELSE "undecided"

Review(r) == [row[r] EXCEPT !.st = "needs_review"]
Promote(r, l) == [row[r] EXCEPT !.st = "promoted", !.lease = l]

\* confirmProposal, from the read of the home to what it decides about the row:
\* "insert" a lease, or only "record" the row.
Judged(r, seen) ==
    LET c == claim[r]
        holders == UNION {lease[l].tenants : l \in seen}
        who == Ingest(r, holders)
        same == {l \in seen : who \in lease[l].tenants}
        tied == {l \in same : c.dated \/ AsOf \in lease[l].term}
        of(verdict, new) == [home |-> c.home, verdict |-> verdict, row |-> new]
    IN
    CASE c.who = Vacant -> of("record", IF seen = {} THEN Promote(r, None) ELSE Review(r))
      [] c.who # Vacant /\ seen # {} /\ holders = {} -> of("record", Review(r))
      [] c.who # Vacant /\ ~(seen # {} /\ holders = {}) /\ who = "undecided" ->
            of("record", [Review(r) EXCEPT !.candidates = holders])
      [] c.who # Vacant /\ who # "undecided" /\ seen = {} ->
            IF c.dated THEN of("insert", [Promote(r, None) EXCEPT !.who = who])
            ELSE of("record", [Promote(r, None) EXCEPT !.who = who])
      [] OTHER ->       \* somebody holds the home already
            IF Cardinality(seen) > 1 THEN of("record", Review(r))
            ELSE IF tied # {} THEN
                LET l == CHOOSE x \in tied : TRUE IN
                of("record", IF c.dated /\ lease[l].term # c.term
                             THEN Review(r) ELSE Promote(r, l))
            ELSE of("record", IF ~c.dated /\ same # {} THEN Promote(r, None) ELSE Review(r))

BeginConfirmRow(r) ==
    LET c == claim[r]
        window == IF c.dated \/ c.who = Vacant THEN c.term ELSE Observed
    IN
    /\ row[r].st \in {"staged", "needs_review"} /\ position[SetupOf[r]] = None
    /\ SetupFree(SetupOf[r]) /\ SpaceFree(c.home)
    /\ reading' = [reading EXCEPT ![<<"row", r>>] = Judged(r, Competing(c.home, window, None))]
    /\ UNCHANGED <<application, rec, lease, activation>>

CommitConfirmRow(r, l) ==
    LET x == reading[<<"row", r>>] IN
    /\ x.verdict \in {"insert", "record"}
    /\ x.verdict = "insert" => Fresh(l)
    /\ row' = [row EXCEPT ![r] = IF x.verdict = "insert" THEN [x.row EXCEPT !.lease = l] ELSE x.row]
    /\ lease' = IF x.verdict = "record" THEN lease
                ELSE [lease EXCEPT ![l] =
                        [NoLease EXCEPT !.st = "active", !.home = x.home, !.term = claim[r].term,
                                        !.tenants = {x.row.who} \ {NoPerson}, !.via = "activation"]]
    /\ reading' = [reading EXCEPT ![<<"row", r>>] = Idle]
    /\ UNCHANGED <<application, rec, claim, position>>

RejectRow(r) ==
    /\ row[r].st # "promoted" /\ position[SetupOf[r]] = None /\ SetupFree(SetupOf[r])
    /\ row' = [row EXCEPT ![r].st = "rejected"]
    /\ UNCHANGED <<application, rec, lease, claim, position, reading>>

\* resolveResidentIdentity: one of the candidates shown, or somebody else.
ResolveResident(r, who) ==
    /\ row[r].st \in {"staged", "needs_review"} /\ row[r].candidates # {}
    /\ who \in row[r].candidates \union {claim[r].who}
    /\ position[SetupOf[r]] = None /\ SetupFree(SetupOf[r])
    /\ row' = [row EXCEPT ![r] = [@ EXCEPT !.st = "staged", !.who = who, !.candidates = {}]]
    /\ UNCHANGED <<application, rec, lease, claim, position, reading>>

Confirmed(s) == {r \in Row : SetupOf[r] = s /\ row[r].st = "promoted"}

EstablishOpening(s) ==
    /\ position[s] = None /\ SetupFree(s) /\ Confirmed(s) # {}
    /\ position' = [position EXCEPT ![s] = Cardinality(Confirmed(s))]
    /\ UNCHANGED <<application, rec, lease, claim, row, reading>>

-----------------------------------------------------------------------------
Init ==
    /\ status = [a \in Application |-> "submitted"]
    /\ approved = {}
    /\ agreed = [a \in Application |-> {}]
    /\ pk = [a \in Application |-> [phase |-> "none", signed |-> {}]]
    /\ work = [a \in Application |-> 0]
    /\ rec = [r \in Records |-> NoRecord]
    /\ lease = [l \in Leases |-> NoLease]
    /\ claim \in [Row -> Claims]
    /\ row = [r \in Row |-> NewRow]
    /\ position = [s \in Setup |-> None]
    /\ reading = [x \in Actors |-> Idle]

People == {{}} \union {{p} : p \in Person}

ApplicationStep(a) ==
    \/ \E t \in Terms : Prepare(a, t)
    \/ \E signer \in Signers(a) : SignFree(a, signer)
    \/ BeginSign(a) \/ CommitSign(a) \/ Approve(a) \/ Decline(a)
    \/ \E h \in Home, t \in Terms, r \in Records : Verify(a, h, t, r)
    \/ Reevaluate(a)
    \/ \E h \in Home, r \in Records, l \in Leases, people \in People : Execute(a, h, r, l, people)
    \/ BeginConfirmTerm(a) \/ RefuseTerm(a)
    \/ \E l \in Leases, people \in People : CommitConfirmTerm(a, l, people)

LeaseStep(l) ==
    \/ ActivateEconomicTenancy(l) \/ VoidHollowLease(l)
    \/ \E p \in Person : LinkResident(l, p) \/ RemoveTenant(l, p)
    \/ \E st \in {"active", "rejected"} : DecideLease(l, st)
    \/ \E h \in Home, t \in Terms, st \in {"active", "pending"}, people \in People :
            LoadSnapshot(l, h, t, st, people)

RowStep(r) ==
    \/ BeginConfirmRow(r) \/ RejectRow(r)
    \/ \E l \in Leases : CommitConfirmRow(r, l)
    \/ \E who \in Person \union {NoPerson} : ResolveResident(r, who)

Next ==
    \/ \E a \in Application : ApplicationStep(a)
    \/ \E l \in Leases : LeaseStep(l)
    \/ \E r \in Row : RowStep(r)
    \/ \E s \in Setup : EstablishOpening(s)

Spec == Init /\ [][Next]_vars
=============================================================================
