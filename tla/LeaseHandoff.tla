---------------------------- MODULE LeaseHandoff ----------------------------
(***************************************************************************)
(* One lease application and everything that acts on it between submission *)
(* and an executed lease: the obligations it owes (completion, handoff,    *)
(* signing clock), the versions of its signing package, the recovery       *)
(* sweeps of the server processes, the staff's routes and the signers.     *)
(*                                                                         *)
(* A step is one database transaction, or the part of one between two      *)
(* places where another transaction can come in: an unlocked read, a wait  *)
(* for a row lock, a commit followed by work outside the transaction.      *)
(* What a transaction writes appears when it commits.                      *)
(***************************************************************************)
EXTENDS Integers, FiniteSets, ApplicationLifecycle

CONSTANTS
    Workers,          \* server processes with the recovery sweep switched on
    Signers,          \* signer roles of a package: the tenant, perhaps a guarantor
    MayBeMissing,     \* completion inputs that may be missing at submission
    MaxVersions,      \* bound: package versions
    MaxOffers,        \* bound: versions of the authored application offer
    MaxFaults,        \* bound: crashes and failed transactions
    Unconfirmed,      \* no proposed-terms confirmation on the application
    Governing,        \* the property's packages carry the governing instrument
    StaffPackages,    \* staff use their own generate and send routes
    ConversionBacked  \* the approval gate was spawned through the conversion rail

Tenant == "tenant"
CompletionInputs == {"resident_identity", "guarantor_contact", "applicant_contact"}
Versions == 1..MaxVersions
Offers == 0..MaxOffers          \* 0: no offer

ASSUME ConstantAssumption ==
    /\ Tenant \in Signers /\ Signers \subseteq {Tenant, "guarantor"}
    /\ MayBeMissing \subseteq CompletionInputs
    /\ MaxVersions \in Nat \ {0} /\ MaxOffers \in Nat /\ MaxFaults \in Nat
    /\ Unconfirmed \notin Int
    /\ {Governing, StaffPackages, ConversionBacked} \subseteq BOOLEAN

VARIABLES
    status,      \* lease_applications.status, "unsubmitted" before the row exists
    approved,    \* terms_review_obligation_id is set
    missing,     \* completion inputs the application's facts do not supply
    current,     \* newest authored offer
    bound,       \* offer the applicant acknowledged
    confirmed,   \* offer the current terms confirmation carries
    gate,        \* the application_approval obligation
    ob,          \* the three obligations lease_handoff.js owns
    packet,      \* package versions
    made,        \* how many versions exist
    worker,      \* each sweep's position and local variables
    deny,        \* the staff member's deny transaction
    faults       \* faults injected so far

application == <<status, approved, missing, current, bound, confirmed>>
vars == <<application, gate, ob, packet, made, worker, deny, faults>>

-----------------------------------------------------------------------------
(* Obligations. *)

Released == {"completion", "handoff", "signing"}      \* RELEASED_ON_TERMINAL

Obligation == [state : {"none", "open", "complete"},
               code : {"none", "expired", "revoked"},
               inputs : SUBSET (CompletionInputs \union Signers),
               due : BOOLEAN]

NoObligation == [state |-> "none", code |-> "none", inputs |-> {}, due |-> FALSE]

Spawned(inputs) == [NoObligation EXCEPT !.state = "open", !.inputs = inputs]

\* completeObligation (code "none") or a clock's or a release's own update.
ClosedWithCodeAsStatus(o, code) == [o EXCEPT !.state = code]   \* mutant
Closed(o, code) == [o EXCEPT !.state = "complete", !.code = code]

IsOpen(type) == ob[type].state = "open"
Satisfied(type) == ob[type].state = "complete" /\ ob[type].code = "none"

\* What completing the application writes: the last input closes the
\* obligation, owes the handoff and makes the approver's decision live.
CompletedStartingClock(o) ==                                    \* mutant
    [o EXCEPT !.completion = Closed([o.completion EXCEPT !.inputs = {}], "none"),
              !.handoff = Spawned({}), !.signing = Spawned(Signers)]
Completed(o) == [o EXCEPT !.completion = Closed([o.completion EXCEPT !.inputs = {}], "none"),
                          !.handoff = Spawned({})]

\* raiseApprovalDecision looks the gate up by related_type 'lease_application';
\* the conversion rail's gate is related to the conversion and is not found.
NeverRaised(g) == g                                             \* mutant
Raised(g) == IF g.state = "open" /\ ~ConversionBacked THEN [g EXCEPT !.raised = TRUE] ELSE g

\* releaseOnTerminal: every listed obligation still open is closed as revoked.
ReleaseAsSatisfied(o, types) ==                                 \* mutant
    [t \in Released |-> IF t \in types /\ o[t].state = "open"
                        THEN Closed(o[t], "none") ELSE o[t]]
ReleaseWithoutHandoff(o, types) ==                              \* mutant
    [t \in Released |-> IF t \in types \ {"handoff"} /\ o[t].state = "open"
                        THEN Closed(o[t], "revoked") ELSE o[t]]
Release(o, types) ==
    [t \in Released |-> IF t \in types /\ o[t].state = "open"
                        THEN Closed(o[t], "revoked") ELSE o[t]]

-----------------------------------------------------------------------------
(* Packages. *)

IssuedButNotSigning == {"sent", "in_progress"}                  \* mutant
Issued == {"sent", "in_progress", "tenant_in_progress"}
Frozen == {"submitted", "resident_executed", "executed"}

Package == [st : {"absent", "draft"} \union Issued \union Frozen,
            superseded : BOOLEAN,
            offer : Offers,
            signed : SUBSET Signers,      \* signers with submitted_at
            accepted : SUBSET Signers,    \* whose message the carrier accepted
            handed : BOOLEAN]             \* staff were shown the links

Absent == [st |-> "absent", superseded |-> FALSE, offer |-> 0,
           signed |-> {}, accepted |-> {}, handed |-> FALSE]

Live(v) == v <= made /\ ~packet[v].superseded

\* A submitted application whose acknowledged offer is still the current one.
AuthoredBasis == status = "submitted" /\ bound # 0 /\ bound = current

PreparationBasis ==
    \/ AuthoredBasis
    \/ /\ status \in PacketEligibleStatuses
       /\ approved
       /\ confirmed # Unconfirmed

\* assessLeasePacketEligibility and the refusals generateLeasePacket adds.
\* The newest version is always the newest unsuperseded one.
Eligible(createNewVersion) ==
    /\ PreparationBasis
    /\ made > 0 => /\ packet[made].st # "submitted"
                   /\ packet[made].st \in Issued => createNewVersion
                   /\ bound # 0 => packet[made].offer = bound
    /\ IF bound = 0 THEN current = 0 ELSE bound = current
    /\ ~AuthoredBasis /\ bound # 0 => confirmed = bound
    /\ "guarantor" \in Signers => "guarantor_contact" \notin missing

\* The refusals that close the handoff instead of leaving it owed.
NeverOwed ==
    \/ status \in Terminal
    \/ (PreparationBasis /\ made > 0 /\ packet[made].st = "submitted")

\* A draft is regenerated in place; anything else gets a new version, and
\* only a version out for signature is superseded by it.
NextVersionInPlace ==                                           \* mutant
    IF made > 0 /\ packet[made].st \notin Frozen THEN made ELSE made + 1
NextVersion == IF made > 0 /\ packet[made].st = "draft" THEN made ELSE made + 1

Generate(st) ==
    /\ NextVersion <= MaxVersions
    /\ made' = NextVersion
    /\ packet' = [v \in Versions |->
            IF v = NextVersion
            THEN [Absent EXCEPT !.st = st, !.offer = bound]
            ELSE IF v = made /\ packet[v].st \in Issued
            THEN [packet[v] EXCEPT !.superseded = TRUE]
            ELSE packet[v]]
    /\ confirmed' = IF AuthoredBasis THEN bound ELSE confirmed

\* observeOutstanding: the inputs the facts do not supply yet.
StillMissingAll == ob.completion.inputs                         \* mutant
StillMissing == ob.completion.inputs \intersect missing

\* observeOutstandingSignatures reads every unsuperseded package.
OutstandingUntilAnySigns ==                                     \* mutant
    {s \in Signers : \E v \in Versions : Live(v) /\ packet[v].signed = {}}
Outstanding == {s \in Signers : \E v \in Versions : Live(v) /\ s \notin packet[v].signed}

-----------------------------------------------------------------------------
(* Processes. *)

Phases == {"completions", "handoffs", "prepare", "not_owed", "dispatch", "close", "clock",
           "signatures", "completion_clock", "completion_lapse", "signing_clock", "signing_lapse"}

AtRest == [pc |-> "completions", regenerate |-> FALSE, version |-> 0,
           tried |-> {}, ok |-> {}, seen |-> "none"]

Statuses == {"unsubmitted"} \union OnLadder \union Terminal

Worker == [pc : Phases, regenerate : BOOLEAN, version : 0..MaxVersions,
           tried : SUBSET Signers, ok : SUBSET Signers, seen : Statuses \union {"none"}]

Denial == [pc : {"idle", "deciding"}, code : Terminal, found : SUBSET Released]

NoDenial == [pc |-> "idle", code |-> "declined", found |-> {}]

\* Locks held from one step to the next: the deny route holds the application
\* row; a sweep holds the handoff row while it prepares and while it closes.
ApplicationNeverLocked == FALSE                                 \* mutant
ApplicationLocked == deny.pc = "deciding"
HandoffNeverLocked == FALSE                                     \* mutant
HandoffLocked == \E w \in Workers : worker[w].pc \in {"prepare", "clock"}

At(w, phase) == worker[w].pc = phase
MoveTo(w, phase) == worker' = [worker EXCEPT ![w] = [AtRest EXCEPT !.pc = phase]]

Init ==
    /\ status = "unsubmitted" /\ approved = FALSE
    /\ missing \in SUBSET MayBeMissing
    /\ current \in {0, 1} \intersect Offers /\ bound = 0 /\ confirmed = Unconfirmed
    /\ gate = [state |-> "none", raised |-> FALSE]
    /\ ob = [t \in Released |-> NoObligation]
    /\ packet = [v \in Versions |-> Absent] /\ made = 0
    /\ worker = [w \in Workers |-> AtRest]
    /\ deny = NoDenial
    /\ faults = 0

-----------------------------------------------------------------------------
(* The application. *)

\* submitApplicationService inside the public or the internal submit route:
\* the row, its approval gate and its completion work in one transaction.
\* An invitation that carries an offer binds it.
Submit ==
    /\ status = "unsubmitted"
    /\ status' = "submitted"
    /\ bound' = current
    /\ LET owed == [ob EXCEPT !.completion = Spawned(missing)]
           opened == [state |-> "open", raised |-> FALSE]
       IN IF missing = {}
          THEN ob' = Completed(owed) /\ gate' = Raised(opened)
          ELSE ob' = owed /\ gate' = opened
    /\ UNCHANGED <<approved, missing, current, confirmed, packet, made, worker, deny, faults>>

\* A correction elsewhere in the product supplies a missing fact.
SupplyFact(i) ==
    /\ status # "unsubmitted" /\ i \in missing
    /\ missing' = missing \ {i}
    /\ UNCHANGED <<status, approved, current, bound, confirmed, gate, ob, packet, made, worker, deny, faults>>

\* A staff member authors a successor offer: refused over a live package.
AuthorOfferOverPackage ==                                       \* mutant
    /\ status \in {"submitted", "approved", "lease_ready"} /\ ~ApplicationLocked
    /\ current < MaxOffers
    /\ current' = current + 1
    /\ UNCHANGED <<status, approved, missing, bound, confirmed, gate, ob, packet, made, worker, deny, faults>>
AuthorOffer ==
    /\ status \in {"submitted", "approved", "lease_ready"} /\ ~ApplicationLocked
    /\ ~\E v \in Versions : Live(v)
    /\ current < MaxOffers
    /\ current' = current + 1
    /\ UNCHANGED <<status, approved, missing, bound, confirmed, gate, ob, packet, made, worker, deny, faults>>

\* The applicant accepts the revised terms on the consumed invitation:
\* refused once any package version exists.
AcceptTerms ==
    /\ status \in {"submitted", "approved", "lease_ready"} /\ ~ApplicationLocked
    /\ bound # current /\ made = 0
    /\ bound' = current
    /\ UNCHANGED <<status, approved, missing, current, confirmed, gate, ob, packet, made, worker, deny, faults>>

\* approveApplication: its unlocked read is re-verified under the row lock by
\* markLeaseReadyFromApproval, and a mismatch rolls everything back.
Approve ==
    /\ status \in {"submitted", "approved"} /\ ~approved /\ ~ApplicationLocked
    /\ status' = "lease_ready" /\ approved' = TRUE
    /\ gate' = [gate EXCEPT !.state = "complete"]
    /\ UNCHANGED <<missing, current, bound, confirmed, ob, packet, made, worker, deny, faults>>

\* confirmProposedTerms: while approved, on readable terms, before any package.
ConfirmTerms ==
    /\ status = "lease_ready" /\ approved /\ made = 0 /\ ~ApplicationLocked
    /\ IF bound = 0 THEN current = 0 ELSE bound = current
    /\ confirmed # bound
    /\ confirmed' = bound
    /\ UNCHANGED <<status, approved, missing, current, bound, gate, ob, packet, made, worker, deny, faults>>

\* The deny route locks the row and reads the obligations it will release;
\* its `for update` may then have to wait for a sweep that holds one of them.
BeginDeny(code) ==
    /\ status \in {"submitted", "approved", "lease_ready"} /\ deny.pc = "idle"
    /\ deny' = [pc |-> "deciding", code |-> code, found |-> {t \in Released : IsOpen(t)}]
    /\ UNCHANGED <<application, gate, ob, packet, made, worker, faults>>

\* Once it has the locks it closes the gate, releases what it found (a row
\* completed meanwhile is re-checked and skipped) and ends the application.
CommitDeny ==
    /\ deny.pc = "deciding"
    /\ "handoff" \in deny.found => ~HandoffLocked
    /\ status' = deny.code
    /\ gate' = [gate EXCEPT !.state = "complete"]
    /\ ob' = Release(ob, deny.found)
    /\ deny' = NoDenial
    /\ UNCHANGED <<approved, missing, current, bound, confirmed, packet, made, worker, faults>>

\* The deny transaction fails and rolls back.
AbortDeny ==
    /\ deny.pc = "deciding" /\ faults < MaxFaults
    /\ deny' = NoDenial /\ faults' = faults + 1
    /\ UNCHANGED <<application, gate, ob, packet, made, worker>>

-----------------------------------------------------------------------------
(* Packages outside the sweep. *)

StaffGenerate(createNewVersion) ==
    /\ StaffPackages /\ ~ApplicationLocked
    /\ Eligible(createNewVersion)
    /\ Generate("draft")
    /\ UNCHANGED <<status, approved, missing, current, bound, gate, ob, worker, deny, faults>>

\* issueLeasePacketLink from the send route; the links go to the staff's screen.
StaffSend ==
    /\ StaffPackages /\ ~ApplicationLocked
    /\ made > 0 /\ packet[made].st = "draft"
    /\ confirmed # Unconfirmed
    /\ \/ status \in PacketEligibleStatuses
       \/ status = "submitted" /\ packet[made].offer # 0
    /\ packet' = [packet EXCEPT ![made].st = "sent", ![made].handed = TRUE]
    /\ UNCHANGED <<application, gate, ob, made, worker, deny, faults>>

\* A review packet is acknowledged; a governing package waits for every signer.
SignedByAny(v, s) == IF Governing THEN "resident_executed" ELSE "submitted"   \* mutant
AfterSignature(v, s) ==
    IF ~Governing THEN "submitted"
    ELSE IF packet[v].signed \union {s} = Signers THEN "resident_executed"
    ELSE "tenant_in_progress"

\* The public signer submit.  It locks the package and the signer, reads the
\* application without a lock, and asks only the tenant where the application
\* stands.  It satisfies the terms review, never a signature input.
SignerSubmit(v, s) ==
    /\ Live(v) /\ packet[v].st \in Issued
    /\ s \in packet[v].accepted \/ packet[v].handed
    /\ s \notin packet[v].signed
    /\ s = Tenant => \/ approved
                     \/ status = "submitted" /\ bound # 0 /\ packet[v].offer = bound
    /\ packet' = [packet EXCEPT
            ![v].signed = @ \union {s},
            ![v].st = AfterSignature(v, s)]
    /\ UNCHANGED <<application, gate, ob, made, worker, deny, faults>>

\* The company signature, through Execute (which approves a submitted
\* application first) or through the company-sign door.  The executed lease is
\* admitted and its term confirmed, admitted only, or recorded and blocked.
CompanySign(v, outcome) ==
    /\ ~ApplicationLocked /\ Live(v) /\ packet[v].st = "resident_executed"
    /\ status \notin Terminal
    /\ \/ approved
       \/ /\ status = "submitted"
          /\ bound # 0 => bound = current /\ packet[v].offer = bound
    /\ ~\E u \in Versions : packet[u].st = "executed"
    /\ packet' = [packet EXCEPT ![v].st = "executed"]
    /\ status' = outcome /\ approved' = TRUE
    /\ gate' = IF approved THEN gate ELSE [gate EXCEPT !.state = "complete"]
    /\ UNCHANGED <<missing, current, bound, confirmed, ob, made, worker, deny, faults>>

\* confirmTermService, later, from the staff's screen.
ConfirmTerm ==
    /\ status = "accepted_term_required" /\ ~ApplicationLocked
    /\ status' = "active"
    /\ UNCHANGED <<approved, missing, current, bound, confirmed, gate, ob, packet, made, worker, deny, faults>>

\* The 30-day and the 60-day windows.
WindowEnds(type) ==
    /\ IsOpen(type) /\ ~ob[type].due
    /\ ob' = [ob EXCEPT ![type].due = TRUE]
    /\ UNCHANGED <<application, gate, packet, made, worker, deny, faults>>

-----------------------------------------------------------------------------
(* The sweep of one server process, in the order startHandoffRecovery runs it.*)

\* reconcileOwedCompletions: claim, then wait for the application row.  The
\* facts close the inputs they supply; the last one completes the application.
ReconcileCompletions(w) ==
    /\ At(w, "completions") /\ MoveTo(w, "handoffs")
    /\ IF ~IsOpen("completion")
       THEN UNCHANGED <<ob, gate>>
       ELSE /\ ~ApplicationLocked
            /\ IF StillMissing = {}
               THEN ob' = Completed(ob) /\ gate' = Raised(gate)
               ELSE ob' = [ob EXCEPT !.completion.inputs = StillMissing] /\ gate' = gate
    /\ UNCHANGED <<application, packet, made, deny, faults>>

\* A package already out is recovered by a new version of it.
NeverRegenerates == FALSE                                       \* mutant
Regenerates == made > 0 /\ packet[made].st \in Issued

\* runOwedHandoffs: claim the row with `skip locked`, check completion, read
\* the newest package to choose between preparing and regenerating.
ClaimHandoff(w) ==
    /\ At(w, "handoffs")
    /\ IsOpen("handoff") /\ ~HandoffLocked /\ ~IsOpen("completion")
    /\ worker' = [worker EXCEPT
            ![w] = [AtRest EXCEPT !.pc = "prepare", !.regenerate = Regenerates]]
    /\ UNCHANGED <<application, gate, ob, packet, made, deny, faults>>

PassHandoff(w) ==
    /\ At(w, "handoffs")
    /\ ~IsOpen("handoff") \/ HandoffLocked \/ IsOpen("completion")
    /\ MoveTo(w, "signatures")
    /\ UNCHANGED <<application, gate, ob, packet, made, deny, faults>>

\* generateLeasePacket and issueLeasePacketLink under the application lock,
\* then the commit that also gives the handoff row back.
PreparePackage(w) ==
    /\ At(w, "prepare") /\ ~ApplicationLocked
    /\ Eligible(worker[w].regenerate)
    /\ Generate("sent")
    /\ worker' = [worker EXCEPT ![w] = [AtRest EXCEPT !.pc = "dispatch", !.version = NextVersion]]
    /\ UNCHANGED <<status, approved, missing, current, bound, gate, ob, deny, faults>>

\* The packet writer refuses and the transaction rolls back: work that will
\* never be owed again is closed next, anything else stays owed.  (A version
\* beyond the bound counts as a refusal.)
RefusePackage(w) ==
    /\ At(w, "prepare") /\ ~ApplicationLocked
    /\ Eligible(worker[w].regenerate) => NextVersion > MaxVersions
    /\ MoveTo(w, IF NeverOwed THEN "not_owed" ELSE "signatures")
    /\ UNCHANGED <<application, gate, ob, packet, made, deny, faults>>

\* A second transaction, whose own failure is swallowed.
CloseNotOwed(w) ==
    /\ At(w, "not_owed") /\ ~HandoffLocked
    /\ ob' = IF IsOpen("handoff") THEN [ob EXCEPT !.handoff = Closed(@, "none")] ELSE ob
    /\ MoveTo(w, "signatures")
    /\ UNCHANGED <<application, gate, packet, made, deny, faults>>

\* Delivery means every signer's message was taken.
DeliveredToSome(ok) == ok # {}                                  \* mutant
Delivered(ok) == ok = Signers

\* dispatchSigningLinks, outside every transaction: one message per signer,
\* the tenant's first, each taken or refused on its own.  The message boundary
\* (consent, mode, no person or line) and the carrier may refuse every time.
Dispatch(w, s, taken) ==
    LET tried == worker[w].tried \union {s}
        ok == worker[w].ok \union (IF taken THEN {s} ELSE {})
    IN
    /\ At(w, "dispatch") /\ s \notin worker[w].tried
    /\ s # Tenant => Tenant \in worker[w].tried
    /\ packet' = IF taken THEN [packet EXCEPT ![worker[w].version].accepted = @ \union {s}]
                 ELSE packet
    /\ IF tried # Signers
       THEN worker' = [worker EXCEPT ![w].tried = tried, ![w].ok = ok]
       ELSE IF Delivered(ok)
       THEN worker' = [worker EXCEPT ![w] = [AtRest EXCEPT !.pc = "close"]]
       ELSE MoveTo(w, "signatures")
    /\ UNCHANGED <<application, gate, ob, made, deny, faults>>

\* The closing transaction: completeObligation locks the handoff row and
\* refuses one that is already complete (`accepted_not_closed`).
CloseHandoff(w) ==
    /\ At(w, "close") /\ ~HandoffLocked
    /\ MoveTo(w, IF IsOpen("handoff") THEN "clock" ELSE "signatures")
    /\ UNCHANGED <<application, gate, ob, packet, made, deny, faults>>

\* recordSigningOwed and the commit of both: check-then-insert of the clock on
\* the signatures outstanding now; none outstanding, no clock.
StartClock(w) ==
    /\ At(w, "clock") /\ MoveTo(w, "signatures")
    /\ LET closed == [ob EXCEPT !.handoff = Closed(@, "none")] IN
       ob' = IF ob.signing.state = "none" /\ Outstanding # {}
             THEN [closed EXCEPT !.signing = Spawned(Outstanding)]
             ELSE closed
    /\ UNCHANGED <<application, gate, packet, made, deny, faults>>

\* reconcileOwedSignatures: inputs no longer outstanding are satisfied, and
\* the last one closes the clock.
ReconcileSignatures(w) ==
    /\ At(w, "signatures") /\ MoveTo(w, "completion_clock")
    /\ LET left == ob.signing.inputs \intersect Outstanding IN
       ob' = IF ~IsOpen("signing") THEN ob
             ELSE IF left = {} THEN [ob EXCEPT !.signing = Closed([@ EXCEPT !.inputs = {}], "none")]
             ELSE [ob EXCEPT !.signing.inputs = left]
    /\ UNCHANGED <<application, gate, packet, made, deny, faults>>

ClockOf(phase) == IF phase \in {"completion_clock", "completion_lapse"} THEN "completion" ELSE "signing"
LapsePhase(type) == IF type = "completion" THEN "completion_lapse" ELSE "signing_lapse"
AfterClock(type) == IF type = "completion" THEN "signing_clock" ELSE "completions"

\* expireStaleClock's unlocked read of the overdue obligation together with
\* the application's status.
ReadClock(w) ==
    /\ worker[w].pc \in {"completion_clock", "signing_clock"}
    /\ LET type == ClockOf(worker[w].pc) IN
       IF IsOpen(type) /\ ob[type].due
       THEN worker' = [worker EXCEPT ![w] = [AtRest EXCEPT !.pc = LapsePhase(type), !.seen = status]]
       ELSE MoveTo(w, AfterClock(type))
    /\ UNCHANGED <<application, gate, ob, packet, made, deny, faults>>

\* Its claim and commit: unless the status read earlier was terminal the
\* application expires through markTerminal and its other work is released;
\* a refusal of markTerminal rolls the whole lapse back.
Lapse(w) ==
    /\ worker[w].pc \in {"completion_lapse", "signing_lapse"}
    /\ LET type == ClockOf(worker[w].pc)
           expired == [ob EXCEPT ![type] = Closed(@, "expired")]
           verdict == AssessTransition(status, "expired")
       IN
       /\ MoveTo(w, AfterClock(type))
       /\ IF ~IsOpen(type) THEN UNCHANGED <<status, ob>>
          ELSE IF worker[w].seen \in Terminal
          THEN ob' = expired /\ UNCHANGED status
          ELSE /\ ~ApplicationLocked
               /\ IsOpen("handoff") => ~HandoffLocked
               /\ IF verdict = "refused" THEN UNCHANGED <<status, ob>>
                  ELSE status' = "expired" /\ ob' = Release(expired, Released)
    /\ UNCHANGED <<approved, missing, current, bound, confirmed, gate, packet, made, deny, faults>>

\* A transaction of the sweep rolls back and its work stays owed: the sweep
\* reports it and goes on with the next kind of work.
Abandon(w) ==
    \/ At(w, "completions") /\ MoveTo(w, "handoffs")
    \/ worker[w].pc \in {"prepare", "not_owed", "close", "clock"} /\ MoveTo(w, "signatures")
    \/ At(w, "signatures") /\ MoveTo(w, "completion_clock")
    \/ At(w, "completion_lapse") /\ MoveTo(w, "signing_clock")
    \/ At(w, "signing_lapse") /\ MoveTo(w, "completions")

\* The process dies and its sweep starts over, or a statement fails.
Interrupt(w) ==
    /\ faults < MaxFaults /\ faults' = faults + 1
    /\ \/ ~At(w, "completions") /\ MoveTo(w, "completions")
       \/ Abandon(w)
    /\ UNCHANGED <<application, gate, ob, packet, made, deny>>

\* The obligation whose row a sweep holds while it waits for the application.
Held(w) ==
    CASE At(w, "completions") -> "completion"
      [] At(w, "prepare")     -> "handoff"
      [] OTHER                -> ClockOf(worker[w].pc)

WaitsForApplication(w) ==
    /\ worker[w].pc \in {"completions", "prepare", "completion_lapse", "signing_lapse"}
    /\ IsOpen(Held(w)) /\ worker[w].seen \notin Terminal

\* Deny holds the application and waits for that row, the sweep holds the row
\* and waits for the application.  The database rolls one of them back.
BreakDeadlock(w) ==
    /\ deny.pc = "deciding" /\ WaitsForApplication(w) /\ Held(w) \in deny.found
    /\ \/ deny' = NoDenial /\ UNCHANGED worker
       \/ Abandon(w) /\ UNCHANGED deny
    /\ UNCHANGED <<application, gate, ob, packet, made, faults>>

-----------------------------------------------------------------------------

Sweep(w) ==
    \/ ReconcileCompletions(w)
    \/ ClaimHandoff(w) \/ PassHandoff(w)
    \/ PreparePackage(w) \/ RefusePackage(w) \/ CloseNotOwed(w)
    \/ \E s \in Signers : Dispatch(w, s, TRUE)
    \/ CloseHandoff(w) \/ StartClock(w)
    \/ ReconcileSignatures(w)
    \/ ReadClock(w) \/ Lapse(w)

Environment ==
    \/ Submit \/ AuthorOffer \/ AcceptTerms \/ Approve \/ ConfirmTerms
    \/ \E i \in CompletionInputs : SupplyFact(i)
    \/ \E code \in Terminal : BeginDeny(code)
    \/ AbortDeny
    \/ \E new \in BOOLEAN : StaffGenerate(new)
    \/ StaffSend
    \/ \E v \in Versions, s \in Signers : SignerSubmit(v, s)
    \/ \E v \in Versions, outcome \in {"active", "accepted_term_required", "lease_ready"} :
            CompanySign(v, outcome)
    \/ ConfirmTerm
    \/ \E type \in {"completion", "signing"} : WindowEnds(type)
    \/ \E w \in Workers, s \in Signers : Dispatch(w, s, FALSE)
    \/ \E w \in Workers : Interrupt(w)

Next == Environment \/ CommitDeny \/ \E w \in Workers : BreakDeadlock(w) \/ Sweep(w)

Spec == Init /\ [][Next]_vars

\* The interval timer starts every enabled sweep again and again, row locks are
\* granted in the order they were asked for (so a waiting deny transaction gets
\* them and commits), and the database leaves no deadlock standing.  The
\* second SF says that a person's denials do not meet every sweep for ever.
FairSpec ==
    /\ Spec
    /\ SF_vars(CommitDeny)
    /\ \A w \in Workers : /\ SF_vars(Sweep(w))
                          /\ SF_vars(PreparePackage(w) \/ RefusePackage(w))
                          /\ WF_vars(BreakDeadlock(w))

-----------------------------------------------------------------------------
TypeOK ==
    /\ status \in Statuses /\ approved \in BOOLEAN /\ missing \subseteq CompletionInputs
    /\ current \in Offers /\ bound \in Offers /\ confirmed \in Offers \union {Unconfirmed}
    /\ gate \in [state : {"none", "open", "complete"}, raised : BOOLEAN]
    /\ ob \in [Released -> Obligation]
    /\ packet \in [Versions -> Package] /\ made \in 0..MaxVersions
    /\ worker \in [Workers -> Worker]
    /\ deny \in Denial
    /\ faults \in 0..MaxFaults
=============================================================================
