----------------------- MODULE LeaseHandoffProperties -----------------------
(***************************************************************************)
(* What LeaseHandoff guarantees: its safety invariants and the inductive   *)
(* invariants behind them, the contract it implements, and what its sweeps *)
(* bring about.                                                            *)
(***************************************************************************)
EXTENDS LeaseHandoff

Admitted == {"accepted_term_required", "active"}

-----------------------------------------------------------------------------
(* Safety. *)

\* Delivery is owed exactly from the moment the application is recorded
\* complete, and only with every required fact on file.  (completeApplication-
\* Requirement closes one obligation and spawns the other; two sweeps, a denial
\* and a lapse can all be working on the pair.)
CompletionBoundary ==
    /\ ob.handoff.state # "none" <=> Satisfied("completion")
    /\ Satisfied("completion") => ob.completion.inputs = {} /\ missing = {}

\* The 60-day signing clock runs only after a delivery closed the handoff, and
\* only if some package reached every signer.  (recordSigningOwed's caller.)
ClockFollowsDelivery ==
    ob.signing.state # "none" =>
        /\ Satisfied("handoff")
        /\ \E v \in Versions : packet[v].accepted = Signers

\* A signature input is discharged only by a signer who signed a package.
SignatureInputsAreSignatures ==
    ob.signing.state = "complete" /\ ob.signing.code = "none" =>
        \A s \in Signers : \E v \in Versions : s \in packet[v].signed

\* A terminal application owes neither completion nor delivery: deny and lapse
\* release under the application lock that recording them needs.
EndedOwesNoDelivery ==
    status \in Terminal => ~IsOpen("completion") /\ ~IsOpen("handoff")

\* At most one package is waiting to be sent or signed and it is the newest;
\* sweeps and the staff's generate route supersede what they replace.
OneOpenForSignature ==
    \A v \in Versions : Live(v) /\ packet[v].st \notin Frozen => v = made

\* Every package was written on the offer the applicant acknowledged, and that
\* offer is still the property's newest.  (The offer route refuses over a live
\* package, revised terms over any package, the writer over a stale offer.)
PackageOnAgreedOffer ==
    made > 0 => /\ bound = current
                /\ \A v \in 1..made : packet[v].offer = bound

\* A package is executed by the company only with every signature on it, and
\* only one is; the application is approved by then and its gate closed.
ExecutedOnce ==
    \A v \in Versions : packet[v].st = "executed" =>
        /\ packet[v].signed = Signers /\ ~packet[v].superseded
        /\ approved /\ gate.state = "complete"
        /\ \A u \in Versions : packet[u].st = "executed" => u = v

\* When the application is complete the approver's open decision is live.
DecisionRaised ==
    Satisfied("completion") /\ gate.state = "open" => gate.raised

\* The handoff is closed as done only if the package now in force reached
\* every signer (the commit that closes it comes after the last acceptance).
DeliveredBeforeClosed ==
    Satisfied("handoff") => made > 0 /\ packet[made].accepted = Signers

-----------------------------------------------------------------------------
(* The inductive invariant behind CompletionBoundary, ClockFollowsDelivery and
   EndedOwesNoDelivery, in parts. *)

\* One sweep at a time holds the handoff row, and it holds it open.
ClaimInv ==
    /\ \A w1, w2 \in Workers :
            worker[w1].pc \in {"prepare", "clock"} /\ worker[w2].pc \in {"prepare", "clock"}
                => w1 = w2
    /\ HandoffLocked => IsOpen("handoff")

\* Nothing is owed before submission, something always after, and an open
\* completion waits for every missing fact.
CompletionInv ==
    /\ status = "unsubmitted" => ~approved /\ \A t \in Released : ob[t].state = "none"
    /\ ob.completion.state = "none" => status = "unsubmitted"
    /\ IsOpen("completion") => missing \subseteq ob.completion.inputs

\* What a sweep believes it delivered was accepted, on a version that exists,
\* and a version not yet sent carries no acceptance.
DispatchInv ==
    /\ \A v \in Versions : packet[v].st \in {"absent", "draft"} => packet[v].accepted = {}
    /\ \A v \in Versions : packet[v].st = "absent" <=> v > made
    /\ \A w \in Workers :
          /\ worker[w].pc = "dispatch" =>
                /\ worker[w].version \in Versions
                /\ packet[worker[w].version].st \notin {"absent", "draft"}
                /\ worker[w].ok \subseteq packet[worker[w].version].accepted
          /\ worker[w].pc \in {"close", "clock"} =>
                \E v \in Versions : packet[v].accepted = Signers

\* The deny route has found every delivery obligation still open, and nobody
\* opens another under the row lock it holds.
DenyInv ==
    deny.pc = "deciding" =>
        /\ status \in {"submitted", "approved", "lease_ready"}
        /\ \A t \in {"completion", "handoff"} : IsOpen(t) => t \in deny.found

\* What a sweep saw ended is ended, and an admitted lease was executed.
StatusInv ==
    /\ \A w \in Workers : worker[w].seen \in Terminal => status \in Terminal
    /\ status \in Admitted => \E v \in Versions : packet[v].st = "executed"

\* Everything above, and the three promises themselves.
Inductive ==
    /\ TypeOK
    /\ ClaimInv /\ CompletionInv /\ DispatchInv /\ DenyInv /\ StatusInv
    /\ CompletionBoundary /\ ClockFollowsDelivery /\ EndedOwesNoDelivery

\* The same for OneOpenForSignature and PackageOnAgreedOffer: the newest
\* version is never superseded, so no offer is authored over a package.
PackageInv ==
    /\ status = "unsubmitted" => made = 0
    /\ made > 0 => ~packet[made].superseded
    /\ OneOpenForSignature /\ PackageOnAgreedOffer

-----------------------------------------------------------------------------
(* The contract this module implements. *)

Stage(o) ==
    CASE o.state = "none" -> "none"
      [] o.state = "open" -> "owed"
      [] o.state = "complete" /\ o.code = "none" -> "done"
      [] o.state = "complete" /\ o.code = "revoked" -> "called_off"
      [] o.state = "complete" /\ o.code = "expired" -> "lapsed"

Contract == INSTANCE HandoffContract WITH
    request <- Stage(ob.completion), delivery <- Stage(ob.handoff),
    clock <- Stage(ob.signing), ended <- status \in Terminal

\* Every step is a step of the contract or changes nothing it can see.
ImplementsContract == Contract!Spec

-----------------------------------------------------------------------------
(* Action properties. *)

KeepsEnding ==
    /\ status \in Terminal => status' = status
    /\ status \in Admitted => status' \in Admitted

KeepsSettlement ==
    \A t \in Released : ob[t].state = "complete" =>
        ob'[t].state = "complete" /\ ob'[t].code = ob[t].code

KeepsSignatures ==
    \A v \in Versions : packet[v].signed # {} =>
        /\ packet[v].signed \subseteq packet'[v].signed
        /\ packet'[v].offer = packet[v].offer
        /\ packet[v].superseded => packet'[v].superseded
        /\ packet[v].st = "executed" => packet'[v].st = "executed"

\* A terminal application stays as it ended, and an admitted lease is never
\* declined, withdrawn or lapsed, however old the read a sweep acts on.
EndsOnce == [][KeepsEnding]_vars

\* An obligation that was settled is never reopened or settled a second way.
SettledOnce == [][KeepsSettlement]_vars

\* A version somebody signed keeps its signatures and the offer they were given
\* for, is not brought back once replaced, and stays executed once it was: the
\* generate routes write over drafts only, and supersede what is out.
SignaturesKept == [][KeepsSignatures]_vars

-----------------------------------------------------------------------------
(* Liveness, under FairSpec. *)

\* Once every fact is supplied, an open completion is settled.
FactsSettleCompletion ==
    (IsOpen("completion") /\ missing = {}) ~> ~IsOpen("completion")

\* The message boundary refused its way through the bound: every version was
\* made and sent, and every one that no fault accounts for lacks a signer.
RefusedThroughout ==
    /\ made = MaxVersions
    /\ \A w \in Workers : worker[w].pc \notin {"dispatch", "close", "clock"}
    /\ Cardinality({v \in 1..made : packet[v].accepted # Signers}) >= MaxVersions - faults

\* An owed delivery is settled, unless the packet writer refuses the package or
\* the boundary refuses a message of version after version: through crashes and
\* failed transactions each sweep makes another version and sends it.
DeliverySettles ==
    IsOpen("handoff") ~> (~IsOpen("handoff") \/ ~Eligible(TRUE) \/ RefusedThroughout)

\* An overdue signing clock ends, unless the lease was admitted meanwhile.
OverdueClockEnds ==
    (IsOpen("signing") /\ ob.signing.due) ~> (~IsOpen("signing") \/ status \in Admitted)
=============================================================================
