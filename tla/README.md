# Property Spine: verification project

TLA+ models, TLC runs and TLAPS proofs for the Property Spine API. Paths are
relative to the repository root. Five parts are covered: the pipeline from a
submitted application to an executed lease, the ways leases of one home come to
exist, the application link of a leasing conversation, the booking of tours, and
the bridging of bank lines into the books.

## The system

A Node/Express monolith over Postgres. Handlers open a transaction, lock rows
with `for update` and commit; a few background timers sweep work the database
says is owed. All state is in Postgres: "concurrency" means transactions of
requests and sweeps in one or several server processes, and "failure" means a
rolled-back transaction, a process that dies between two commits, or a carrier
that refuses a message or loses its answer.

| Part | State | Operations | Hard behaviour | What makes it correct | Module |
|---|---|---|---|---|---|
| `applications/application_lifecycle.js` | `lease_applications.status`, milestones | five writers, one judgement (`assessTransition`) | callers acting on old reads | endings are final, admission is not undone | `ApplicationLifecycle` |
| `applications/lease_handoff.js` | obligations `application_completion`, `lease_packet_preparation`, `lease_signing` | record, reconcile, run owed handoffs, lapse, release | several sweeping processes, crash between package, message and closing, deadline against late answer | work is owed exactly when it should be, settled once, eventually | `LeaseHandoff` |
| `applications/lease_packets.js`, `lease_packet_eligibility.js` | package versions, signers | generate, issue, sign, company signature | versions replaced while signers sign | one package open, on the agreed offer, executed once | `LeaseHandoff`, `SpaceTenancy` |
| `applications/proposed_terms_service.js`, offers | offers and confirmations | author, acknowledge, confirm, derive | four routes change the terms | a package never outlives its terms | `LeaseHandoff` |
| `applications/application_inventory_hold.js` | derived from signatures | hold for a space | two applications, one space | one holder | `SpaceTenancy` |
| `applications/executed_lease_service.js`, `spine_lease_execution.js`, `tenancy/tenancy_anchor_service.js` | executed lease records, term work, leases | verify, supersede, execute, admit, confirm the term | evidence replaced, two confirmations of one home | one tenancy a day, on the basis agreed | `SpaceTenancy` |
| `onboarding/activation_service.js`, `shared/snapshot_loader.js` | rent-roll rows, opening positions, imported leases | confirm, reject, resolve, publish, load | rows, signatures and imports meeting in one home | as above; a published position keeps counting | `SpaceTenancy` |
| `tenancy/` lease handlers | leases and their tenants | link, remove, void, activate, PATCH approval | doors that ask nothing | as above | `SpaceTenancy` |
| `applications/application_submission.js`, `leasing/leasing_conversion.js` | application, gate, invitations, rungs and commitments | submit, deny; prepare, dispatch, attest, expire, revoke, regenerate, retry, consume | a provider call between two commits | what is recorded as sent was sent, as unsent was not; a follow-up is answered once | `LeaseHandoff`, `ApplicationLink` |
| `leasing/tour_availability_service.js`, `leasing/leasing_leads.js`, staff routes in `identity/operator.js` | times, tours, booking links | publish, block, book, converge, cancel, reschedule, mark, complete, walk in | locked bookings beside unlocked cancellations, retries | one tour a time, time and tour agree | `TourBooking` |
| `money/bank_bridge.js`, `bank_intake.js`, `autoconfirm.js` | bank lines, money events, pairings, aliases | stage, identify, bridge, split, unbridge, park, pair, re-identify, flag, confirm automatically | retroactive passes over lines read without a lock | a line is booked once, for its amount; a return never | `BankBridge` |
| `shared/obligation_engine.js` | `obligations` | spawn, satisfy, complete | | never completed with inputs outstanding | in each module |
| `comms/` | messages, consent, threads | outbound text; capture, callback | lost answers | | the outbound text, in `ApplicationLink` |
| rest of `leasing/`, `conversation/`, `agent/` | leads, ladders, decisions | replies, follow-ups | stale ownership | one open rung | not modelled |
| `identity/` | people, sessions, invitations | enroll, sign in | token reuse, expiry | a session belongs to one identity | not modelled |
| `maintenance/`, `technician/` | work orders, turns, proof | accept, complete | two technicians, late proof | no completion without proof | not modelled |
| rest of `money/`, `asset/`, `entity/` | charges, payments, governed records | post, match, publish | double posting, stale versions | a payment is applied once | not modelled |
| `meeting_evidence/`, `evidence/` | webhooks, receipts | intake, validate, release | redelivery | idempotent intake | not modelled |
| rest of `onboarding/`, `baseline/`, `release0/`, `surfaces/`, `obligations/`, `governance/` | imports, reads | import, review | partial imports | | not modelled |

The parts meet in shared rows. Submission writes the application, its gate and
its completion obligation in one transaction; completion owes the handoff; the
sweep prepares a package, sends its links and starts the signing clock; signers
answer through public routes, and the applicant's signature holds the home. The
company executes the package, or staff verify a lease executed elsewhere; the
confirmed term becomes a lease of the home, which a rent roll, an import or a
handler of the lease may reach too. Before all that a completed tour opens a
follow-up in the leasing conversation, and the follow-up is answered by an
application link. Deny, and the clocks, end an application and free its home.

## Modules

| Module | What it is |
|---|---|
| `ApplicationLifecycle` | constant level: ladder, terminal statuses, `AssessTransition`; extended by `LeaseHandoff` and `SpaceTenancy` |
| `LeaseHandoff` | one application and all that acts on it until its lease is executed |
| `HandoffContract` | what the handoff promises, without packages, sweeps and locks |
| `HomeLedger` | what the writers of leases promise one another: asking for a home and letting it are one act |
| `LinkContract` | what the links of a conversation promise whoever follows a tour up |
| `SpaceTenancy` | the applications, rent-roll rows and leases of a few homes |
| `ApplicationLink` | the application links of one conversation |
| `TourBooking` | the times, tours and booking links of one property |
| `BankBridge` | the statement lines of one property and the payees that explain them |
| `<M>Properties` | what `M` promises: type invariant, safety, action and temporal properties |
| `MC<M>` | symmetry and function-valued constants for TLC |
| `LeaseHandoffProofs`, `LeasePackageProofs`, `LeaseHandoffRefinement`, `SpaceTenancyProofs`, `ApplicationLinkProofs`, `TourBookingProofs`, `BankBridgeProofs` | the theorems |
| `ContractProofs` | the three contracts keep their promises |

Definitions marked `\* mutant` are plausible mistakes in the definition below
them; the specification never uses them.

### `LeaseHandoff` and the code

State: `status`, `approved`, `bound`, `confirmed`, `missing` are columns or facts
of the application; `current` the newest authored offer; `gate` the approval
obligation; `ob` the three obligations of `lease_handoff.js`; `packet`/`made` the
package versions with their signers; `worker` the position and local variables
of each process's sweep; `deny` the deny transaction; `faults` a counter.

A step is one transaction, or the part of one between two points where another
can intervene:

- the sweep's package transaction is `ClaimHandoff` (claims with `skip locked`,
  reads the newest package), then `PreparePackage` or `RefusePackage` (waits for
  the application lock, writes, commits). The handoff row is held in between and
  released by that commit, before `Dispatch`, which runs in no transaction;
- closing is `CloseHandoff` (locks the row) and `StartClock` (inserts the clock,
  commits);
- the deny route is `BeginDeny` (locks the application, reads the obligations)
  and `CommitDeny` (has their locks, writes). Postgres re-checks rows it waited
  for and does not see rows inserted after its snapshot: `CommitDeny` closes only
  what `BeginDeny` found, and only if it is still open;
- `expireStaleClock` is `ReadClock` (unlocked) and `Lapse` (claim, markTerminal,
  release);
- everything else is one step under the application or package lock.

A sweep that finds another process's claim walks past it. The claim outlives a
step only for the handoff row, so only `PassHandoff` models that. The run that
`application_submission` starts after a submission is a run of the same
`runOwedHandoffs`: a second worker stands for it.

An offer is its version number, 0 meaning none. A fact or a signature is a name.
A deadline is a flag that time sets. A crash, a failing statement and an aborted
denial draw on `MaxFaults`; a refused message does not, since the boundary
refuses for good where consent is withheld or withdrawn, and deadlocks the
database resolves do not either. `SupplyFact` stands for the correction routes elsewhere whose
effect the sweep observes. `CompanySign` folds "execute" (which approves a
submitted application first) and the company-sign door; evidence checks that
only refuse are left out. One application is alone here: contention for its home
is `SpaceTenancy`'s subject.

### `SpaceTenancy` and the code

State: an application is its status, whether it has a terms review, the term its
package carries, the phase and signatures of its current package, and how many
term-required obligations are open; `rec` are the executed lease records, `lease`
the leases with home, days, tenants and the door they came through; a row of a
rent roll is what it says (`claim`) and what was decided about it (`row`);
`position` is a published opening position; `reading` is what a transaction in
progress concluded under the locks it holds.

Three writers read a home and then write it: the signer route, `confirmTermService`
and `confirmProposal`. They are two steps, the read under their locks and the
commit. Another writer of the same home, application, package or setup waits, as
`SpaceFree`, `AppFree`, `PackageFree` and `SetupFree` say: each is one `for
update` in the code, and dropping it is a mutant. Every other handler takes its
locks and commits in one step. Terms are sets of days, so overlap is a nonempty
intersection (`OPERATIVE_OVERLAP_SQL`, `Competing`). `ActivateEconomicTenancy`
leaves funds and commencement out, so it can happen to any pending lease.
`Judged` is `confirmProposal` from its read to what it decides, with
`ingestPerson` as `Ingest`. The doors that ask nothing, the approval PATCH and
the snapshot loader, are in the model and switched on by `Ungoverned`. A record's
`lease` pointer is what keeps a basis from being superseded. `revived` and `via`
record through which door a lease came; no guard reads them.

### `ApplicationLink` and the code

State: `rung` the tour-followup rungs, `active` and `advanced` the conversation's
state and whether the successor rung was ever opened; `prepare` the open prepare
commitment; `inv` the invitations, each with its send commitment (`child`) and
the state of the message bound to it; `live` whether an application is alive;
`call` where the request that dispatches a link stands; `task` the corrections
in progress; `texted` what the provider took, which no code reads.

A step is one transaction, one call of the provider, or one stamp the boundary
writes after it. `Retry` is told a link given up and a commitment closed, each by
its id, and takes them as they are. The dispatching request is Phase 1 (`Bind`), the text
(`CallProvider`), the boundary's stamp (`Stamp`), and Phase 3 (`RecordDispatch`)
or the correction after a refusal (`RefuseDispatch`); it may die anywhere
(`Drop`). `CallProvider` has three outcomes: refused, taken, and taken with its
answer lost, which the source reports as a refusal. `reconcileCorrection` is
three transactions: classification, recording what was sent after all, and the
revocation or expiry. A link's expiry is a flag that time sets.

### `TourBooking` and the code

State: `slot` with the tour it names, `past` the times that are over, `tour` with
the time it holds, the time it was booked for and the time its booking key names,
`link`, and in `task` what a
request in progress read.

Bookings lock the row of the time they take; a staff booking locks the lead too;
a public booking locks its link. `bookTourIntoSlot` looks its key up before that
lock, so the keyed booking is two steps, and the public booking holds its locks
over two. Cancellation, rescheduling, completion and the walk-in door read
without a lock and write later by id: they are two steps, and the second writes
what the first read whatever happened in between. `ConfirmTyped` is the legacy
route that confirms a tour for a typed time, with no slot and no look at its
status. The unique indexes are guards
that abort (`Unnamed`, `Prior`). "settled" stands for the four endings of a tour
(completed, no-show, cancelled, rescheduled), which no guard tells apart.
`Taken` also stands for the answer to a request that names the tour the time is
booked for: it is told so, and nothing is written. `adjustDay` closes every open time: the slots of an instance are one day.

### `BankBridge` and the code

State: `line` is a bank transaction with payee, exception reason, parking and the
bridged marker; `birth` the groups of money events it gave rise to; `pairing` its
proposed and confirmed tenant-return entries; `kind` and `alias` the vendors'
types and the payees that answer keys taught, each written on its own; `multi`
and `trusted` vendor flags; `retro` and `flagging` what a retroactive pass has
decided and not yet written.

Routes that lock the line are one step. `reidentify` and `flag-returns` select
their lines first and update them one by one without a lock and without a
transaction around the pass: `BeginReidentify` computes the updates,
`Reidentify` applies one by id, `StopPass` is the process dying half way. A
descriptor is what it proves: the aliases it contains and the flag it raises.
Lines in `Legacy` were staged before the word RETURN raised a flag. `trusted` is
earned from money events (`Confirms`) and `BridgeAuto` takes any set of the
eligible lines, since amount bands are left open. The code asks for five
confirmations in a row and no override; bridging writes the proposed category as
the confirmed one, so every money event is an agreement, and counting them is the
same. Lines and pairing entries are whole cents, as their columns are; money
events are in mills, because a split compares its allocations rounded to cents
(`RoundsTo`) and stores them as typed in a column without a scale. A half cent
rounds either way: the product is a binary fraction near it.

## Runs

| Run | Instance | Checks | Why the bounds are enough |
|---|---|---|---|
| `one_process` | 1 process, tenant and guarantor, 2 versions, 1 offer, 1 fault, `FairSpec` | a handoff closed as done means the package in force reached every signer; a settled clock rests on signatures; the clock follows delivery; facts settle completion; delivery settles or is refused on every version and attempt; an overdue clock ends | one fault separates each pair of commits; refusals are unlimited |
| `two_processes` | 2 processes, tenant, 2 versions, 2 offers, 1 fault, staff packages, no governing instrument | completion boundary, no delivery owed after an ending, packages on the agreed offer, the decision raised, `EndsOnce`, `SettledOnce`, `ImplementsContract` | two is what it takes to hold a claim and act on a stale read of it; a second offer is what a package could outlive |
| `staff_packages` | staff generate and send, 3 versions, 2 signers, no fault | one package open for signature; executed once and only when fully signed; signatures are kept | versions matter as newest, the one replaced, and an older one |
| `space_applications` | 2 applications with guarantors, 1 home named, 1 beside it, 2 days, 2 records, 2 leases, approval PATCH | one holder; the basis stands; terms as agreed; the work to confirm stands; `ImplementsLedger`, which says with `OneLettingKept` that a day is let once | every property is about two of something; two days give equal, overlapping and disjoint terms |
| `space_rows` | 1 application naming no home, 1 home, 1 person, 2 rows of 1 setup, 1 record, 2 leases, snapshot loader | one tenancy a day across rent roll, import and execution; an opening position keeps counting | two rows compete with each other, or one with a lease of any other door |
| `application_link` | 2 links, 2 tours, 1 correcting request | link and commitment together; unsent stays unsent; provider facts are true; one send per follow-up; `ImplementsLinkContract` | a link and its replacement, a follow-up and a later one |
| `tour_booking` | 2 times, 2 tours, 1 lead, 1 link, 2 requests | time and tour agree; a scheduled tour has its time | a stale release needs a release and a booking in between |
| `bank_bridge` | a return, a legacy return, a check; 2 aliases, 2 vendors, one of them an affiliate in some answer keys; 2 receipts, entries of 1 cent, allocations of 1.4 cents, autonomy after 3 confirmations | one birth, worth the line, or within half a cent an allocation; parked is unresolved; pairings tie; flagged returns stay out | one line of each kind, an affiliate and a plain payee; the return is worth two entries |

Deadlock is not checked in `space_applications`, `space_rows` and
`application_link`: those instances really stop, when no lease, record, link or
tour is left to make and everything has ended.

`DeliveredBeforeClosed` is about one process without staff packages under a
governing instrument: with two, another package may be in force at closing.
`DecisionRaised` is about applications whose gate is the bare one.
`GovernedTenancies` excepts, by name, a later lease the snapshot loader brought
in and a lease the approval PATCH brought back: neither asks about others.
`ReturnsNeverExpenses` assumes that aliases occurring in returns' descriptors
name vendors that every answer key calls plain payees, and excepts legacy lines; `paired_return` shows why.

Four runs each violate one sentence of the source:

| Run | The sentence | What happens |
|---|---|---|
| `retried_booking` | a retried confirmation "converges on the SAME tour" (`leasing_leads.js`) | the retry looks its key up before the first attempt commits, waits for the time's row, finds it booked and answers "just taken", which the caller does not resolve |
| `staff_second_tour` | "This inquiry already has an upcoming tour" (`operator.js`) | the guard looks for `confirmed`, a word the schema no longer has; a tour the prospect confirmed does not count |
| `split_rounding` | "allocations must sum to the bank amount EXACTLY, to the cent" (`bank_bridge.js:782`) | 1.0 and 1.4 cents, or 1.4 and 1.4, pass for a line of 2 cents, because each is rounded before it is compared and stored before it is rounded |
| `paired_return` | "a clawback is never an expense" (`bank_intake.js`, `bank_bridge.js`) | re-identification replaces the flag `payment_return` by `affiliate_transfer`, and the line can be bridged, pairing and all |

### Fairness

`FairSpec` (of `LeaseHandoff` only) asks strong fairness of each sweep and of the
deny transaction's commit, and weak fairness of the database's deadlock
detector. The sweep is a five-minute timer with no exit but the process's death,
and a restarted process starts it at once; row locks are granted in the order
they were asked for; the detector fires after a second. Strong fairness of
preparing (or refusing) a package says that a person does not deny the same
application at every sweep. Nothing is assumed of staff, applicants, signers or
the carrier, which may refuse every message for ever. `DeliverySettles` says what
is left: an owed handoff is settled, or its application stops being eligible, or
the sweep has tried every version the bound allows and each has a signer the
carrier never accepted, but for as many as faults interrupted
(`RefusedThroughout`). It is violated when the sweep stops regenerating.

The other four modules are made of one-shot requests that nobody is bound to
repeat. The code justifies no fairness for them, and they have no liveness
properties.

## Proofs

Every theorem is for any values of the constants that satisfy the module's
`ASSUME`: any number of processes, versions, offers, faults, applications,
homes, rows, links, tours, requests, lines and amounts.

**`LeaseHandoff`.** `TypeCorrect`; `InductiveInvariant`. The three promises are
not inductive. What makes them so: one sweep holds the handoff row and holds it
open (`ClaimInv`); nothing is owed before submission and an open completion waits
for every missing fact (`CompletionInv`); what a sweep believes it delivered was
accepted on an existing version (`DispatchInv`); a deny transaction has found
every delivery obligation that is open, because opening one needs the lock it
holds (`DenyInv`); what a sweep saw ended is ended (`StatusInv`). From it
`DeliveryOwedAtCompletion`, `ClockStartsAtDelivery`, `EndReleasesDelivery`, and
`EndingsAreFinal`. `ContractImplemented`: each transaction is one step of
`HandoffContract` or invisible to it, whence `SettlementsAreFinal`.
`PackageInvariant` gives `OneOpenPackage` and `PackagesOnAgreedOffer`: the newest
version is never superseded, so the offer route's check of live packages keeps
offers still while any version exists. The rest is about what is on the versions.

- `SignaturesAreKept` and `InputsAreSignatures`: a draft carries no signature and
  is all that is ever written over, and the clock has waited for every signer it
  no longer waits for (`InputsInv`).
- `CompanySignsOnce`: a version handed over for the company's signature carries
  every other one, and approval, once given, keeps the gate closed
  (`ExecutionInv`).
- `CompletionRaisesDecision`, for `~ConversionBacked`: only submission and the
  sweep's reconciliation settle completion as done, and both look at the gate in
  the same transaction (`SettledBy`). On the conversion rail it is false, since
  completion does not find that gate.
- `ClosingFollowsDelivery`, for `Governing`: no package is ever a review packet,
  so no sweep finds delivery not owed (`ReviewInv`), and a handoff closed as done
  means some version reached every signer, however many processes sweep.
  `DeliveryPrecedesClosing` says it of the version in force, for one process and
  no staff packages: what a sweep carries between its transactions is then about
  the newest version (`DeliveryInv`).

**`SpaceTenancy`.** `TenancyInv` adds to `GovernedTenancies` what a transaction
in progress relies on until it commits: one live record per application
(`OneLive`), one reader per home, application or setup (`Exclusive`), leases and
records made in order (`Prefix`), and, while a row or a term has been found
clear, that it is still clear, since everybody who could fill the home waits for
it (`RowStillClear`, `TermStillClear`). `HolderInv` is the same for signatures:
who was found to be the only holder still is. `BasisInv` carries
`StandingBasis`, `TenancyAsAgreed` and `TermWorkStands` together, because a
record is only safe from being superseded while its lease points at it.
`OpeningInv` says a reading row's setup has no position yet. `LedgerImplemented`:
every writer is one step of `HomeLedger` or invisible to it. It needs `TenancyInv`
at the commits, and that what a package, a record or a reading carries is a home
and a term of the property (`TermsInUse`).

**`ApplicationLink`.** `EvidenceInv` ties, for each link, the bound message, the
request's position and the fact at the provider: without a bound message nothing
went out and no request is past the binding; a link given up as unsent never had
one; every trace of an acceptance is of a text the provider took; and a
correction about to record a send acts on such a text. `CommitmentTracksLink`,
`UnsentIsFinal` and `ProviderFactsHold` follow; `OneAnswer` rests besides on
rungs being write-once and on reopening stopping at the successor rung.
`LinkContractImplemented` adds how a link's status, its commitment and its call
go together (`StandingInv`): each request, correction, text and late answer is
one step of `LinkContract` or invisible to it.

**`TourBooking`.** `TourInv` adds to the three promises that a tour not yet booked
holds no time (`UnbookedHoldsNone`) and that a tour whose release is in progress
still holds the time that was read, or none by now (`StaleReads`): what the late
write clears is never another time of the same tour. The index, not the time's
status, is what keeps two tours apart.

**`BankBridge`.** `BooksInv`: a marked line is a proven debit (`MarkedIsProven`),
beside `OneBirth`, `ParkedIsUnresolved` and `PairedToTheCent`; that a split is
within half a cent an allocation follows from `RoundsTo` alone. `ReturnInv`:
taught aliases come from the answer key, a return keeps its flag from staging on
and has no money event, and no update decided for it carries another flag.

**The contracts.** `PromiseKept`, `OneLettingKept` and `OneLinkKept` prove of the
three contracts what they are for, by themselves; `OneLettingKept` numbers leases
in the order they are made. The contracts are coarse on purpose: in
`HomeLedger` a letting that was asked for meets nothing in force but what was
brought back, and in `LinkContract` a link refused by the carrier may have been
texted all the same.

Only proved: `OneTourPerSlot`, whose smallest counterexample without the index
takes three tours (the tour released late, the one that took its time, and one
that tries the reopened time), more than a run with two times can hold.

Only model-checked: the three liveness properties (out of the prover's reach) and
the violated sentences. The sum of a set of entries (`PairedToTheCent`) is a
library fold the proof only carries, never computes.

## Observed, not judged by a run

Met while modelling; each is behaviour of the code that the models include.

- *Lease handoff.* A second process may re-prepare a package between commit and
  dispatch, so a clock can start on a package replaced since. Every attempt after
  a crash inserts a new message. A lapse leaves the approval gate open. A denial
  does not see a signing clock inserted after its snapshot. Signatures are not
  re-read when an overdue clock is acted on. A fully signed package does not stop
  another from being written beside it. A gate born on the conversion rail is not
  found by completion. An application declined between its package's commit and
  dispatch is still sent its links, and a guarantor can sign a package of an
  application that has ended (`lease_packets.js:2393`). When closing a handoff
  that is not owed fails, the connection goes back to the pool without a rollback
  (`lease_handoff.js:748-758`), its transaction still open; the model gives up
  cleanly there.
- *Tenancies.* Nothing stops a second term-required obligation
  (`executed_lease_service.js:633-644`). A hold ends when the application is
  admitted, before its term is confirmed (`application_inventory_hold.js:82`).
  PATCH approval revives a cancelled lease. The snapshot loader asks nothing.
  `voidExecutedLease` has no caller, `identity/activation.js` is never mounted.
- *Application link.* A lost provider answer is recorded as a refusal and may be
  retried. When the follow-up is closed while the text is in flight, an accepted
  send cannot be recorded. A missed rung leaves its obligation open, so a retry
  may use it. A retry reads the prior link and the prior commitment by two ids it
  never compares, with each other or with the conversation. `reconcileCorrection` locks the commitment before the invitation,
  the other doors the reverse. Recorded intent does not look for an active link.
- *Tours.* Two captures can both pass the check that a tour has no outcome. The
  events `reminder_sent` and `outcome_corrected` fail the schema's CHECKs. Cancel,
  reschedule, no-show and confirm never look at the status. A second, stale
  cancellation opens a time somebody else holds: it shows as open and cannot be
  booked, because the index refuses. The walk-in guard is check-then-insert. Two
  bookings of one conversation through sibling links can deadlock.
- *Bank.* Register-join rewrites the payee of a bridged check, and its money
  event keeps the old one. `revokeOnOverride` is never called; unbridging does
  not revoke autonomy, and automatic confirmations feed the history that earns
  it. Seeding a vendor again changes its type for lines still to come, and leaves
  the flags it raised before. One receipt may be linked
  under two bank lines.

## Not modelled, and the plan

Rendering, templates, wording, receipts, money arithmetic beyond sums and every
read-only surface are left out: they change no state a property here speaks of.
So are authority checks (sessions, perimeters), which only refuse. Conversation
text, language-model calls and document ingest have no protocol of their own.
Governed records in `asset/` and `entity/` are each one guarded statement.

Left for later, in order of importance:

1. Contracts for `TourBooking` (a calendar of times and prospects) and for
   `BankBridge` (a register of booked lines), and lemmas about
   `ApplicationLifecycle` for every status.
2. Work orders and technicians: acceptance, evidence by message, completion with
   proof, make-ready turns.
3. Charges, payments and the commitment ledger: a payment applied once, across
   callbacks.
4. Meeting receipts: redelivered webhooks and the release workflow.
5. The composition of `SpaceTenancy`'s packages with `LeaseHandoff`'s versions:
   today the first keeps only the current package, the second only one
   application; what they share is that a package is signed whole or not.
6. Staff sessions and invitations; the other conversation rungs and their
   follow-up ladder, whose timers would justify liveness properties.
