------------------------- MODULE LeaseHandoffProofs -------------------------
(***************************************************************************)
(* Theorems about LeaseHandoff for every set of processes, every bound and *)
(* every choice of signers and missing facts.                              *)
(***************************************************************************)
EXTENDS LeaseHandoffProperties, TLAPS

-----------------------------------------------------------------------------
(* What the helper operators return. *)

\* The status vocabulary, spelled out.
LEMMA StatusNames ==
    /\ Statuses = {"unsubmitted", "draft", "submitted", "approved", "lease_ready",
                   "tenant_signed", "countersigned", "accepted_term_required", "active",
                   "declined", "withdrawn", "expired"}
    /\ OnLadder \intersect Terminal = {}
<1>1. OnLadder = {"draft", "submitted", "approved", "lease_ready", "tenant_signed",
                  "countersigned", "accepted_term_required", "active"}
  BY DEF OnLadder, Ladder
<1> QED BY <1>1 DEF Statuses, Terminal

\* Obligations are built and closed as obligations.
LEMMA ObligationTypes ==
    /\ NoObligation \in Obligation
    /\ \A i \in SUBSET (CompletionInputs \union Signers) : Spawned(i) \in Obligation
    /\ \A o \in Obligation, c \in {"none", "expired", "revoked"} : Closed(o, c) \in Obligation
    /\ \A o \in Obligation, i \in SUBSET (CompletionInputs \union Signers) :
            [o EXCEPT !.inputs = i] \in Obligation
BY DEF NoObligation, Spawned, Closed, Obligation

\* Completing, and releasing, the three obligations.
LEMMA CompletedTypes ==
    ASSUME NEW o \in [Released -> Obligation]
    PROVE  /\ Completed(o) \in [Released -> Obligation]
           /\ \A types : Release(o, types) \in [Released -> Obligation]
<1>1. Spawned({}) \in Obligation /\ Closed([o.completion EXCEPT !.inputs = {}], "none") \in Obligation
  <2>1. o["completion"] \in Obligation  BY DEF Released
  <2>2. [o["completion"] EXCEPT !.inputs = {}] \in Obligation  BY <2>1, ObligationTypes
  <2> QED BY <2>2, ObligationTypes
<1>2. Completed(o) \in [Released -> Obligation]
  BY <1>1 DEF Completed, Released
<1>3. ASSUME NEW types PROVE Release(o, types) \in [Released -> Obligation]
  BY ObligationTypes DEF Release
<1> QED BY <1>2, <1>3

\* A sweep that moves on is a worker at rest in a phase.
LEMMA WorkerTypes ==
    /\ AtRest \in Worker
    /\ \A p \in Phases : [AtRest EXCEPT !.pc = p] \in Worker
    /\ \A r \in BOOLEAN : [AtRest EXCEPT !.pc = "prepare", !.regenerate = r] \in Worker
    /\ \A v \in 0..MaxVersions : [AtRest EXCEPT !.pc = "dispatch", !.version = v] \in Worker
    /\ \A p \in Phases, s \in Statuses : [AtRest EXCEPT !.pc = p, !.seen = s] \in Worker
<1>1. 0 \in 0..MaxVersions  BY ConstantAssumption
<1>2. AtRest \in Worker  BY <1>1 DEF AtRest, Worker, Phases
<1>3. \A p \in Phases : [AtRest EXCEPT !.pc = p] \in Worker  BY <1>2 DEF Worker
<1>4. \A r \in BOOLEAN : [AtRest EXCEPT !.pc = "prepare", !.regenerate = r] \in Worker
  BY <1>2 DEF Worker, Phases
<1>5. \A v \in 0..MaxVersions : [AtRest EXCEPT !.pc = "dispatch", !.version = v] \in Worker
  BY <1>2 DEF Worker, Phases
<1>6. \A p \in Phases, s \in Statuses : [AtRest EXCEPT !.pc = p, !.seen = s] \in Worker
  BY <1>2 DEF Worker
<1> QED BY <1>2, <1>3, <1>4, <1>5, <1>6

\* A generated version is a package like the others.
LEMMA GenerateTypes ==
    ASSUME TypeOK, NEW st \in {"draft", "sent"}, Generate(st)
    PROVE  /\ packet' \in [Versions -> Package]
           /\ made' \in 0..MaxVersions /\ NextVersion \in 1..MaxVersions
           /\ confirmed' \in Offers \union {Unconfirmed}
<1>1. [Absent EXCEPT !.st = st, !.offer = bound] \in Package
  BY DEF TypeOK, Absent, Package, Issued
<1>2. \A p \in Package : [p EXCEPT !.superseded = TRUE] \in Package
  BY DEF Package
<1>3. packet' \in [Versions -> Package]
  BY <1>1, <1>2 DEF Generate, TypeOK
<1>4. NextVersion \in 1..MaxVersions /\ made' = NextVersion
  BY ConstantAssumption DEF Generate, NextVersion, TypeOK
<1>5. confirmed' \in Offers \union {Unconfirmed}
  BY DEF Generate, TypeOK
<1> QED BY <1>3, <1>4, <1>5, ConstantAssumption

-----------------------------------------------------------------------------
(* Type correctness. *)

\* Raising the decision changes the gate's pointer only.
LEMMA RaisedType ==
    \A g \in [state : {"none", "open", "complete"}, raised : BOOLEAN] :
        Raised(g) \in [state : {"none", "open", "complete"}, raised : BOOLEAN]
BY DEF Raised

\* Moving one sweep to a phase keeps every worker well typed.
LEMMA MoveToType ==
    ASSUME TypeOK, NEW w \in Workers, NEW p \in Phases, MoveTo(w, p)
    PROVE  worker' \in [Workers -> Worker]
BY WorkerTypes DEF TypeOK, MoveTo

\* A sweep that gives up on something is at rest before the next kind of work.
AbandonPhases == {"completions", "handoffs", "signatures", "completion_clock", "signing_clock"}

\* Giving up moves a sweep to one of those phases and does nothing else to it.
LEMMA AbandonMoves ==
    /\ \A w : Abandon(w) => \E phase \in AbandonPhases : MoveTo(w, phase)
    /\ AbandonPhases \subseteq Phases \ {"prepare", "dispatch", "close", "clock"}
BY DEF Abandon, AbandonPhases, Phases

\* Sending to one signer: the message, if taken, is noted on the version.
LEMMA DispatchType ==
    ASSUME TypeOK, NEW w \in Workers, NEW s \in Signers, NEW taken \in BOOLEAN,
           Dispatch(w, s, taken)
    PROVE  /\ worker' \in [Workers -> Worker]
           /\ packet' \in [Versions -> Package]
<1> DEFINE tried == worker[w].tried \union {s}
           ok == worker[w].ok \union (IF taken THEN {s} ELSE {})
           n == worker[w].version
<1>1. worker[w] \in Worker  BY DEF TypeOK
<1>2. tried \in SUBSET Signers /\ ok \in SUBSET Signers  BY <1>1 DEF Worker
<1>3. [worker[w] EXCEPT !.tried = tried, !.ok = ok] \in Worker
  BY <1>1, <1>2 DEF Worker
<1>4. [AtRest EXCEPT !.pc = "close"] \in Worker /\ [AtRest EXCEPT !.pc = "signatures"] \in Worker
  BY WorkerTypes DEF Phases
<1>5. \/ worker' = [worker EXCEPT ![w].tried = tried, ![w].ok = ok]
      \/ worker' = [worker EXCEPT ![w] = [AtRest EXCEPT !.pc = "close"]]
      \/ worker' = [worker EXCEPT ![w] = [AtRest EXCEPT !.pc = "signatures"]]
  BY DEF Dispatch, MoveTo
<1>6. [worker EXCEPT ![w].tried = tried, ![w].ok = ok]
        = [worker EXCEPT ![w] = [worker[w] EXCEPT !.tried = tried, !.ok = ok]]
  BY DEF TypeOK
<1>7. worker' \in [Workers -> Worker]
  BY <1>3, <1>4, <1>5, <1>6 DEF TypeOK
<1>8. packet' = packet \/ packet' = [packet EXCEPT ![n].accepted = @ \union {s}]
  BY DEF Dispatch
<1>9. packet' \in [Versions -> Package]
  BY <1>8 DEF TypeOK, Package
<1> QED BY <1>7, <1>9

\* Every route, signer, clock and failure preserves TypeOK.
LEMMA EnvironmentType == TypeOK /\ Environment => TypeOK'
<1> SUFFICES ASSUME TypeOK, Environment PROVE TypeOK'
  OBVIOUS
<1> USE ConstantAssumption
<1>1. CASE Submit
  <2>1. [ob EXCEPT !.completion = Spawned(missing)] \in [Released -> Obligation]
    BY ObligationTypes DEF TypeOK
  <2>2. /\ Completed([ob EXCEPT !.completion = Spawned(missing)]) \in [Released -> Obligation]
        /\ ob' \in {[ob EXCEPT !.completion = Spawned(missing)],
                    Completed([ob EXCEPT !.completion = Spawned(missing)])}
    BY <1>1, <2>1, CompletedTypes, Zenon DEF Submit
  <2>3. gate' \in [state : {"none", "open", "complete"}, raised : BOOLEAN]
    <3>1. gate' \in {[state |-> "open", raised |-> FALSE], Raised([state |-> "open", raised |-> FALSE])}
      BY <1>1, Zenon DEF Submit
    <3>2. [state |-> "open", raised |-> FALSE]
            \in [state : {"none", "open", "complete"}, raised : BOOLEAN]
      OBVIOUS
    <3> QED BY <3>1, <3>2, RaisedType
  <2> QED BY <1>1, <2>1, <2>2, <2>3, StatusNames DEF Submit, TypeOK
<1>2. CASE AuthorOffer
  BY <1>2 DEF AuthorOffer, TypeOK, Offers
<1>3. CASE AcceptTerms
  BY <1>3 DEF AcceptTerms, TypeOK
<1>4. CASE Approve
  BY <1>4, StatusNames DEF Approve, TypeOK
<1>5. CASE ConfirmTerms
  BY <1>5 DEF ConfirmTerms, TypeOK
<1>6. ASSUME NEW i \in CompletionInputs, SupplyFact(i) PROVE TypeOK'
  BY <1>6 DEF SupplyFact, TypeOK
<1>7. ASSUME NEW code \in Terminal, BeginDeny(code) PROVE TypeOK'
  BY <1>7 DEF BeginDeny, Denial, TypeOK, application
<1>8. CASE AbortDeny
  BY <1>8 DEF AbortDeny, NoDenial, Denial, Terminal, TypeOK, application
<1>9. ASSUME NEW new \in BOOLEAN, StaffGenerate(new) PROVE TypeOK'
  BY <1>9, GenerateTypes DEF StaffGenerate, TypeOK
<1>10. CASE StaffSend
  <2>1. made \in Versions  BY <1>10 DEF StaffSend, TypeOK, Versions
  <2>2. [packet[made] EXCEPT !.st = "sent", !.handed = TRUE] \in Package
    BY <2>1 DEF TypeOK, Package, Issued
  <2>3. packet' = [packet EXCEPT ![made] = [packet[made] EXCEPT !.st = "sent", !.handed = TRUE]]
    BY <1>10, <2>1 DEF StaffSend, TypeOK
  <2>4. packet' \in [Versions -> Package]
    BY <2>2, <2>3 DEF TypeOK
  <2> QED BY <1>10, <2>4 DEF StaffSend, TypeOK, application
<1>11. ASSUME NEW v \in Versions, NEW s \in Signers, SignerSubmit(v, s) PROVE TypeOK'
  <2>1. AfterSignature(v, s) \in Issued \union Frozen
    BY DEF AfterSignature, Issued, Frozen
  <2>2. [packet[v] EXCEPT !.signed = @ \union {s}, !.st = AfterSignature(v, s)] \in Package
    BY <2>1 DEF TypeOK, Package
  <2>3. packet' = [packet EXCEPT ![v] =
                    [packet[v] EXCEPT !.signed = @ \union {s}, !.st = AfterSignature(v, s)]]
    BY <1>11 DEF SignerSubmit, TypeOK
  <2>4. packet' \in [Versions -> Package]
    BY <2>2, <2>3 DEF TypeOK
  <2> QED BY <1>11, <2>4 DEF SignerSubmit, TypeOK, application
<1>12. ASSUME NEW v \in Versions,
              NEW outcome \in {"active", "accepted_term_required", "lease_ready"},
              CompanySign(v, outcome)
       PROVE  TypeOK'
  <2>1. packet' \in [Versions -> Package]
    BY <1>12 DEF CompanySign, TypeOK, Package, Frozen
  <2> QED BY <1>12, <2>1, StatusNames DEF CompanySign, TypeOK
<1>13. CASE ConfirmTerm
  BY <1>13, StatusNames DEF ConfirmTerm, TypeOK
<1>14. ASSUME NEW type \in {"completion", "signing"}, WindowEnds(type) PROVE TypeOK'
  BY <1>14, ZenonT(60) DEF WindowEnds, TypeOK, Obligation, Released, application
<1>15. ASSUME NEW w \in Workers, NEW s \in Signers, Dispatch(w, s, FALSE) PROVE TypeOK'
  <2>1. worker' \in [Workers -> Worker]
    BY <1>15, DispatchType
  <2> QED BY <1>15, <2>1 DEF Dispatch, TypeOK, application
<1>16. ASSUME NEW w \in Workers, Interrupt(w) PROVE TypeOK'
  <2>1. worker' \in [Workers -> Worker]
    BY <1>16, MoveToType, AbandonMoves DEF Interrupt, Phases
  <2> QED BY <1>16, <2>1 DEF Interrupt, TypeOK, application
<1> QED
  BY <1>1, <1>2, <1>3, <1>4, <1>5, <1>6, <1>7, <1>8, <1>9, <1>10, <1>11, <1>12, <1>13,
     <1>14, <1>15, <1>16 DEF Environment

\* Every step of a sweep preserves TypeOK.
LEMMA SweepType == TypeOK /\ (\E w \in Workers : Sweep(w)) => TypeOK'
<1> SUFFICES ASSUME TypeOK, NEW w \in Workers, Sweep(w) PROVE TypeOK'
  OBVIOUS
<1> USE ConstantAssumption
<1>1. CASE ReconcileCompletions(w)
  <2>1. worker' \in [Workers -> Worker]
    BY <1>1, MoveToType DEF ReconcileCompletions, Phases
  <2>2. /\ ob' \in {ob, Completed(ob), [ob EXCEPT !.completion.inputs = StillMissing]}
        /\ gate' \in {gate, Raised(gate)}
    BY <1>1, Zenon DEF ReconcileCompletions
  <2>3. StillMissing \in SUBSET (CompletionInputs \union Signers)
    BY DEF TypeOK, StillMissing
  <2>4. ob["completion"] \in Obligation  BY DEF TypeOK, Released
  <2>5. [ob["completion"] EXCEPT !.inputs = StillMissing] \in Obligation
    BY <2>3, <2>4, ObligationTypes
  <2>6. [ob EXCEPT !.completion.inputs = StillMissing] \in [Released -> Obligation]
    BY <2>5 DEF TypeOK
  <2>7. ob' \in [Released -> Obligation]
    BY <2>2, <2>6, CompletedTypes DEF TypeOK
  <2>8. gate' \in [state : {"none", "open", "complete"}, raised : BOOLEAN]
    BY <2>2, RaisedType DEF TypeOK
  <2> QED BY <1>1, <2>1, <2>7, <2>8 DEF ReconcileCompletions, TypeOK, application
<1>2. CASE ClaimHandoff(w)
  <2>1. Regenerates \in BOOLEAN  BY DEF Regenerates
  <2>2. worker' \in [Workers -> Worker]
    BY <1>2, <2>1, WorkerTypes DEF ClaimHandoff, TypeOK
  <2> QED BY <1>2, <2>2 DEF ClaimHandoff, TypeOK, application
<1>3. CASE PassHandoff(w)
  <2>1. worker' \in [Workers -> Worker]
    BY <1>3, MoveToType DEF PassHandoff, Phases
  <2> QED BY <1>3, <2>1 DEF PassHandoff, TypeOK, application
<1>4. CASE PreparePackage(w)
  <2>1. Generate("sent")  BY <1>4 DEF PreparePackage
  <2>2. /\ packet' \in [Versions -> Package]
        /\ made' \in 0..MaxVersions /\ NextVersion \in 0..MaxVersions
        /\ confirmed' \in Offers \union {Unconfirmed}
    BY <2>1, GenerateTypes
  <2>3. worker' \in [Workers -> Worker]
    BY <1>4, <2>2, WorkerTypes DEF PreparePackage, TypeOK
  <2> QED BY <1>4, <2>2, <2>3 DEF PreparePackage, TypeOK
<1>5. CASE RefusePackage(w)
  <2>1. worker' \in [Workers -> Worker]
    BY <1>5, MoveToType DEF RefusePackage, Phases
  <2> QED BY <1>5, <2>1 DEF RefusePackage, TypeOK, application
<1>6. CASE CloseNotOwed(w)
  <2>1. worker' \in [Workers -> Worker]
    BY <1>6, MoveToType DEF CloseNotOwed, Phases
  <2>2. ob' \in [Released -> Obligation]
    BY <1>6, ObligationTypes DEF CloseNotOwed, TypeOK
  <2> QED BY <1>6, <2>1, <2>2 DEF CloseNotOwed, TypeOK, application
<1>7. ASSUME NEW s \in Signers, Dispatch(w, s, TRUE) PROVE TypeOK'
  BY <1>7, DispatchType DEF Dispatch, TypeOK, application
<1>8. CASE CloseHandoff(w)
  <2>1. worker' \in [Workers -> Worker]
    BY <1>8, MoveToType DEF CloseHandoff, Phases
  <2> QED BY <1>8, <2>1 DEF CloseHandoff, TypeOK, application
<1>9. CASE StartClock(w)
  <2>1. worker' \in [Workers -> Worker]
    BY <1>9, MoveToType DEF StartClock, Phases
  <2>2. [ob EXCEPT !.handoff = Closed(@, "none")] \in [Released -> Obligation]
    BY ObligationTypes DEF TypeOK
  <2>3. Spawned(Outstanding) \in Obligation
    BY ObligationTypes DEF Outstanding
  <2>4. ob' \in [Released -> Obligation]
    BY <1>9, <2>2, <2>3 DEF StartClock
  <2> QED BY <1>9, <2>1, <2>4 DEF StartClock, TypeOK, application
<1>10. CASE ReconcileSignatures(w)
  <2> DEFINE left == ob.signing.inputs \intersect Outstanding
  <2>1. worker' \in [Workers -> Worker]
    BY <1>10, MoveToType DEF ReconcileSignatures, Phases
  <2>2. ob["signing"] \in Obligation  BY DEF TypeOK, Released
  <2>3. left \in SUBSET (CompletionInputs \union Signers)
    BY DEF Outstanding
  <2>4. /\ [ob["signing"] EXCEPT !.inputs = left] \in Obligation
        /\ Closed([ob["signing"] EXCEPT !.inputs = {}], "none") \in Obligation
    <3>1. [ob["signing"] EXCEPT !.inputs = {}] \in Obligation
      BY <2>2, ObligationTypes
    <3> QED BY <2>2, <2>3, <3>1, ObligationTypes
  <2>5. ob' \in {ob, [ob EXCEPT !.signing = Closed([ob["signing"] EXCEPT !.inputs = {}], "none")],
                [ob EXCEPT !.signing.inputs = left]}
    BY <1>10, Zenon DEF ReconcileSignatures
  <2>6. ob' \in [Released -> Obligation]
    BY <2>4, <2>5 DEF TypeOK
  <2> QED BY <1>10, <2>1, <2>6 DEF ReconcileSignatures, TypeOK, application
<1>11. CASE ReadClock(w)
  <2> DEFINE type == ClockOf(worker[w].pc)
             lapsing == [AtRest EXCEPT !.pc = LapsePhase(type), !.seen = status]
  <2>0. LapsePhase(type) \in Phases /\ AfterClock(type) \in Phases
    BY DEF LapsePhase, AfterClock, Phases
  <2>a. worker' = [worker EXCEPT ![w] = lapsing] \/ MoveTo(w, AfterClock(type))
    BY <1>11, Zenon DEF ReadClock
  <2>b. lapsing \in Worker  BY <2>0, WorkerTypes DEF TypeOK
  <2>c. MoveTo(w, AfterClock(type)) => worker' \in [Workers -> Worker]
    BY <2>0, MoveToType
  <2> HIDE DEF lapsing
  <2>1. worker' \in [Workers -> Worker]  BY <2>a, <2>b, <2>c DEF TypeOK
  <2> QED BY <1>11, <2>1 DEF ReadClock, TypeOK, application
<1>12. CASE Lapse(w)
  <2> DEFINE type == ClockOf(worker[w].pc)
             expired == [ob EXCEPT ![type] = Closed(@, "expired")]
  <2>1. worker' \in [Workers -> Worker]
    BY <1>12, MoveToType DEF Lapse, ClockOf, AfterClock, Phases
  <2>2. expired \in [Released -> Obligation]
    BY ObligationTypes DEF TypeOK
  <2>3. /\ ob' \in {ob, expired, Release(expired, Released)}
        /\ status' \in {status, "expired"}
    BY <1>12, Zenon DEF Lapse
  <2>4. ob' \in [Released -> Obligation]
    <3>1. Release(expired, Released) \in [Released -> Obligation]
      BY <2>2, CompletedTypes
    <3> HIDE DEF expired
    <3> QED BY <2>2, <2>3, <3>1 DEF TypeOK
  <2> QED BY <1>12, <2>1, <2>3, <2>4, StatusNames DEF Lapse, TypeOK
<1> QED
  BY <1>1, <1>2, <1>3, <1>4, <1>5, <1>6, <1>7, <1>8, <1>9, <1>10, <1>11, <1>12 DEF Sweep

\* Nothing the module's steps do leaves the types: the deny transaction and
\* the database's own rollback complete the picture.
LEMMA TypeStep == TypeOK /\ [Next]_vars => TypeOK'
<1> SUFFICES ASSUME TypeOK, [Next]_vars PROVE TypeOK'
  OBVIOUS
<1>1. CASE CommitDeny
  <2>1. deny.code \in Statuses  BY StatusNames DEF TypeOK, Denial, Terminal
  <2>2. ob' \in [Released -> Obligation]
    BY <1>1, CompletedTypes DEF CommitDeny, TypeOK
  <2> QED BY <1>1, <2>1, <2>2 DEF CommitDeny, NoDenial, Denial, Terminal, TypeOK
<1>2. ASSUME NEW w \in Workers, BreakDeadlock(w) PROVE TypeOK'
  <2>1. worker' \in [Workers -> Worker] /\ deny' \in Denial
    BY <1>2, MoveToType, AbandonMoves DEF BreakDeadlock, NoDenial, Denial, Terminal, TypeOK
  <2> QED BY <1>2, <2>1 DEF BreakDeadlock, TypeOK, application
<1>3. CASE UNCHANGED vars
  BY <1>3 DEF vars, application, TypeOK
<1> QED BY <1>1, <1>2, <1>3, EnvironmentType, SweepType DEF Next

\* The initial values are of their types.
LEMMA InitType == Init => TypeOK
<1> SUFFICES ASSUME Init PROVE TypeOK
  OBVIOUS
<1>1. [w \in Workers |-> AtRest] \in [Workers -> Worker]
  BY WorkerTypes
<1>2. [t \in Released |-> NoObligation] \in [Released -> Obligation]
  BY ObligationTypes
<1>3. [v \in Versions |-> Absent] \in [Versions -> Package]
  BY ConstantAssumption DEF Absent, Package, Offers
<1>4. NoDenial \in Denial  BY DEF NoDenial, Denial, Terminal
<1>5. /\ current \in Offers /\ bound \in Offers
      /\ made \in 0..MaxVersions /\ faults \in 0..MaxFaults
      /\ missing \subseteq CompletionInputs
  BY ConstantAssumption DEF Init, Offers
<1>6. gate \in [state : {"none", "open", "complete"}, raised : BOOLEAN]
  BY DEF Init
<1> QED BY <1>1, <1>2, <1>3, <1>4, <1>5, <1>6, StatusNames DEF Init, TypeOK

\* Every variable keeps its type.
THEOREM TypeCorrect == Spec => []TypeOK
BY InitType, TypeStep, PTL DEF Spec

-----------------------------------------------------------------------------
(* Packages: acceptances are never lost, and what a sweep holds is on them. *)

\* One package version reached every signer.
Reached == \E v \in Versions : packet[v].accepted = Signers

\* A generated version replaces one that was absent or a draft.
LEMMA GenerateEffect ==
    ASSUME TypeOK, DispatchInv, NEW st \in {"draft", "sent"}, Generate(st)
    PROVE  /\ NextVersion \in Versions /\ NextVersion >= made /\ made' = NextVersion
           /\ packet[NextVersion].st \in {"absent", "draft"}
           /\ packet[NextVersion].accepted = {}
           /\ packet'[NextVersion] = [Absent EXCEPT !.st = st, !.offer = bound]
           /\ \A v \in Versions \ {NextVersion} :
                  /\ packet'[v].st = packet[v].st /\ packet'[v].offer = packet[v].offer
                  /\ packet'[v].accepted = packet[v].accepted
                  /\ packet'[v].signed = packet[v].signed
           /\ \A v \in Versions : packet'[v].st = "absent" <=> v > made'
<1>1. NextVersion \in Versions /\ NextVersion >= made /\ made' = NextVersion /\ NextVersion <= made + 1
  BY GenerateTypes, ConstantAssumption DEF NextVersion, TypeOK, Versions, Generate
<1>2. packet[NextVersion].st \in {"absent", "draft"}
  BY <1>1 DEF DispatchInv, NextVersion, TypeOK, Versions
<1>3. packet[NextVersion].accepted = {}
  BY <1>1, <1>2 DEF DispatchInv
<1>4. packet'[NextVersion] = [Absent EXCEPT !.st = st, !.offer = bound]
  BY <1>1 DEF Generate
<1>5. \A v \in Versions \ {NextVersion} :
        packet'[v] = packet[v] \/ packet'[v] = [packet[v] EXCEPT !.superseded = TRUE]
  BY <1>1 DEF Generate
<1>6. \A v \in Versions : packet[v] \in Package  BY DEF TypeOK
<1>7. \A v \in Versions \ {NextVersion} :
        /\ packet'[v].st = packet[v].st /\ packet'[v].offer = packet[v].offer
        /\ packet'[v].accepted = packet[v].accepted
        /\ packet'[v].signed = packet[v].signed
  BY <1>5, <1>6 DEF Package
<1>8. packet'[NextVersion].st = st  BY <1>4 DEF Absent
<1>9. ASSUME NEW v \in Versions PROVE packet'[v].st = "absent" <=> v > made'
  <2>1. CASE v = NextVersion
    BY <1>1, <1>8, <2>1 DEF Versions
  <2>2. CASE v # NextVersion
    <3>1. v > made <=> v > NextVersion
      BY <1>1, <2>2, ConstantAssumption DEF Versions, TypeOK, NextVersion
    <3> QED BY <1>1, <1>7, <2>2, <3>1 DEF DispatchInv
  <2> QED BY <2>1, <2>2
<1> QED BY <1>1, <1>2, <1>3, <1>4, <1>7, <1>9

\* A step keeps every package version's acceptances: acceptance by every
\* signer, once reached, is reached for good, and no version is unsent.
LEMMA PackagesGrow ==
    ASSUME TypeOK, DispatchInv, [Next]_vars
    PROVE  \A v \in Versions :
              /\ packet[v].accepted \subseteq packet'[v].accepted
              /\ packet[v].st \notin {"absent", "draft"} => packet'[v].st \notin {"absent", "draft"}
<1> DEFINE Kept == \A v \in Versions :
              /\ packet[v].accepted \subseteq packet'[v].accepted
              /\ packet[v].st \notin {"absent", "draft"} => packet'[v].st \notin {"absent", "draft"}
<1> SUFFICES Kept
  OBVIOUS
<1>1. ASSUME NEW st \in {"draft", "sent"}, Generate(st) PROVE Kept
  <2>1. packet[NextVersion].accepted = {}  BY <1>1, GenerateEffect
  <2>2. \A v \in Versions \ {NextVersion} :
            packet'[v].st = packet[v].st /\ packet'[v].accepted = packet[v].accepted
    BY <1>1, GenerateEffect
  <2>3. packet[NextVersion].st \in {"absent", "draft"}  BY <1>1, GenerateEffect
  <2> QED BY <2>1, <2>2, <2>3
<1>2. ASSUME UNCHANGED packet PROVE Kept
  BY <1>2
<1>3. ASSUME StaffSend PROVE Kept
  BY <1>3 DEF StaffSend, TypeOK, Package
<1>4. ASSUME NEW v \in Versions, NEW s \in Signers, SignerSubmit(v, s) PROVE Kept
  BY <1>4 DEF SignerSubmit, AfterSignature, TypeOK, Package
<1>5. ASSUME NEW v \in Versions, NEW outcome, CompanySign(v, outcome) PROVE Kept
  BY <1>5 DEF CompanySign, TypeOK, Package
<1>6. ASSUME NEW w \in Workers, NEW s \in Signers, NEW taken \in BOOLEAN, Dispatch(w, s, taken)
      PROVE Kept
  BY <1>6 DEF Dispatch, TypeOK, Package
<1>7. CASE Environment
  <2>1. CASE Submit \/ AuthorOffer \/ AcceptTerms \/ Approve \/ ConfirmTerms \/ AbortDeny \/ ConfirmTerm
    BY <1>2, <2>1 DEF Submit, AuthorOffer, AcceptTerms, Approve, ConfirmTerms, AbortDeny, ConfirmTerm
  <2>2. ASSUME NEW i \in CompletionInputs, SupplyFact(i) PROVE Kept
    BY <1>2, <2>2 DEF SupplyFact
  <2>3. ASSUME NEW code \in Terminal, BeginDeny(code) PROVE Kept
    BY <1>2, <2>3 DEF BeginDeny
  <2>4. ASSUME NEW new \in BOOLEAN, StaffGenerate(new) PROVE Kept
    BY <1>1, <2>4 DEF StaffGenerate
  <2>5. ASSUME NEW type \in {"completion", "signing"}, WindowEnds(type) PROVE Kept
    BY <1>2, <2>5 DEF WindowEnds
  <2>6. ASSUME NEW w \in Workers, Interrupt(w) PROVE Kept
    BY <1>2, <2>6 DEF Interrupt
  <2> QED BY <1>3, <1>4, <1>5, <1>6, <1>7, <2>1, <2>2, <2>3, <2>4, <2>5, <2>6 DEF Environment
<1>8. CASE CommitDeny
  BY <1>2, <1>8 DEF CommitDeny
<1>9. ASSUME NEW w \in Workers, BreakDeadlock(w) PROVE Kept
  BY <1>2, <1>9 DEF BreakDeadlock
<1>10. ASSUME NEW w \in Workers, Sweep(w) PROVE Kept
  <2>1. CASE PreparePackage(w)
    BY <1>1, <2>1 DEF PreparePackage
  <2>2. ASSUME NEW s \in Signers, Dispatch(w, s, TRUE) PROVE Kept
    BY <1>6, <2>2
  <2>3. CASE UNCHANGED packet
    BY <1>2, <2>3
  <2> QED BY <1>10, <2>1, <2>2, <2>3
          DEF Sweep, ReconcileCompletions, ClaimHandoff, PassHandoff, RefusePackage, CloseNotOwed,
              CloseHandoff, StartClock, ReconcileSignatures, ReadClock, Lapse
<1>11. CASE UNCHANGED vars
  BY <1>2, <1>11 DEF vars
<1> QED BY <1>7, <1>8, <1>9, <1>10, <1>11 DEF Next

\* The package half of DispatchInv, and the half about one sweep.
PacketPart ==
    /\ \A v \in Versions : packet[v].st \in {"absent", "draft"} => packet[v].accepted = {}
    /\ \A v \in Versions : packet[v].st = "absent" <=> v > made

SweepPart(w) ==
    /\ worker[w].pc = "dispatch" =>
          /\ worker[w].version \in Versions
          /\ packet[worker[w].version].st \notin {"absent", "draft"}
          /\ worker[w].ok \subseteq packet[worker[w].version].accepted
    /\ worker[w].pc \in {"close", "clock"} => Reached

\* DispatchInv is these two parts, the second one sweep at a time.
LEMMA DispatchInvParts == DispatchInv <=> PacketPart /\ \A w \in Workers : SweepPart(w)
BY DEF DispatchInv, PacketPart, SweepPart, Reached

\* An unsent package has no acceptance, and exactly the made ones exist.
LEMMA PacketPartStep == TypeOK /\ DispatchInv /\ [Next]_vars => PacketPart'
<1> SUFFICES ASSUME TypeOK, DispatchInv, [Next]_vars PROVE PacketPart'
  OBVIOUS
<1>1. ASSUME NEW st \in {"draft", "sent"}, Generate(st) PROVE PacketPart'
  <2>1. packet'[NextVersion].accepted = {}
    BY <1>1, GenerateEffect DEF Absent
  <2>2. \A v \in Versions \ {NextVersion} :
            packet'[v].st = packet[v].st /\ packet'[v].accepted = packet[v].accepted
    BY <1>1, GenerateEffect
  <2>3. \A v \in Versions : packet'[v].st = "absent" <=> v > made'
    BY <1>1, GenerateEffect
  <2> QED BY <2>1, <2>2, <2>3 DEF PacketPart, DispatchInv
<1>2. ASSUME UNCHANGED <<packet, made>> PROVE PacketPart'
  BY <1>2 DEF PacketPart, DispatchInv
<1>3. ASSUME StaffSend PROVE PacketPart'
  BY <1>3 DEF StaffSend, TypeOK, Package, PacketPart, DispatchInv
<1>4. ASSUME NEW v \in Versions, NEW s \in Signers, SignerSubmit(v, s) PROVE PacketPart'
  BY <1>4 DEF SignerSubmit, AfterSignature, Issued, TypeOK, Package, PacketPart, DispatchInv
<1>5. ASSUME NEW v \in Versions, NEW outcome, CompanySign(v, outcome) PROVE PacketPart'
  BY <1>5 DEF CompanySign, TypeOK, Package, PacketPart, DispatchInv
<1>6. ASSUME NEW w \in Workers, NEW s \in Signers, NEW taken \in BOOLEAN, Dispatch(w, s, taken)
      PROVE PacketPart'
  <2>1. made' = made /\ worker[w].version \in Versions
        /\ packet[worker[w].version].st \notin {"absent", "draft"}
    BY <1>6 DEF Dispatch, At, DispatchInv
  <2>2. \/ packet' = packet
        \/ packet' = [packet EXCEPT ![worker[w].version].accepted = @ \union {s}]
    BY <1>6 DEF Dispatch
  <2> QED BY <2>1, <2>2 DEF TypeOK, Package, PacketPart, DispatchInv
<1>7. CASE Environment
  <2>1. CASE Submit \/ AuthorOffer \/ AcceptTerms \/ Approve \/ ConfirmTerms \/ AbortDeny \/ ConfirmTerm
    BY <1>2, <2>1 DEF Submit, AuthorOffer, AcceptTerms, Approve, ConfirmTerms, AbortDeny, ConfirmTerm
  <2>2. ASSUME NEW i \in CompletionInputs, SupplyFact(i) PROVE PacketPart'
    BY <1>2, <2>2 DEF SupplyFact
  <2>3. ASSUME NEW code \in Terminal, BeginDeny(code) PROVE PacketPart'
    BY <1>2, <2>3 DEF BeginDeny
  <2>4. ASSUME NEW new \in BOOLEAN, StaffGenerate(new) PROVE PacketPart'
    BY <1>1, <2>4 DEF StaffGenerate
  <2>5. ASSUME NEW type \in {"completion", "signing"}, WindowEnds(type) PROVE PacketPart'
    BY <1>2, <2>5 DEF WindowEnds
  <2>6. ASSUME NEW w \in Workers, Interrupt(w) PROVE PacketPart'
    BY <1>2, <2>6 DEF Interrupt
  <2> QED BY <1>3, <1>4, <1>5, <1>6, <1>7, <2>1, <2>2, <2>3, <2>4, <2>5, <2>6 DEF Environment
<1>8. CASE CommitDeny
  BY <1>2, <1>8 DEF CommitDeny
<1>9. ASSUME NEW w \in Workers, BreakDeadlock(w) PROVE PacketPart'
  BY <1>2, <1>9 DEF BreakDeadlock
<1>10. ASSUME NEW w \in Workers, Sweep(w) PROVE PacketPart'
  <2>1. CASE PreparePackage(w)
    BY <1>1, <2>1 DEF PreparePackage
  <2>2. ASSUME NEW s \in Signers, Dispatch(w, s, TRUE) PROVE PacketPart'
    BY <1>6, <2>2
  <2>3. CASE UNCHANGED <<packet, made>>
    BY <1>2, <2>3
  <2> QED BY <1>10, <2>1, <2>2, <2>3
          DEF Sweep, ReconcileCompletions, ClaimHandoff, PassHandoff, RefusePackage, CloseNotOwed,
              CloseHandoff, StartClock, ReconcileSignatures, ReadClock, Lapse
<1>11. CASE UNCHANGED vars
  BY <1>2, <1>11 DEF vars
<1> QED BY <1>7, <1>8, <1>9, <1>10, <1>11 DEF Next

\* A package that reached every signer has reached them for good.
LEMMA ReachedStays ==
    ASSUME TypeOK, DispatchInv, [Next]_vars, Reached
    PROVE  Reached'
<1> SUFFICES ASSUME NEW v \in Versions, packet[v].accepted = Signers
             PROVE  packet'[v].accepted = Signers
  BY DEF Reached
<1>1. packet'[v].accepted \in SUBSET Signers  BY TypeStep DEF TypeOK, Package
<1> QED BY <1>1, PackagesGrow

\* What one sweep believes about its delivery stays true, whoever moves.
LEMMA SweepPartStep ==
    ASSUME TypeOK, DispatchInv, [Next]_vars, NEW w \in Workers
    PROVE  SweepPart(w)'
<1>1. SweepPart(w)  BY DispatchInvParts
<1>2. Reached => Reached'  BY ReachedStays
<1>3. CASE worker'[w] = worker[w]
  BY <1>1, <1>2, <1>3, PackagesGrow DEF SweepPart
<1>4. CASE worker'[w].pc \notin {"dispatch", "close", "clock"}
  BY <1>4 DEF SweepPart
<1>5. ASSUME PreparePackage(w) PROVE SweepPart(w)'
  <2>1. Generate("sent")  BY <1>5 DEF PreparePackage
  <2>2. /\ NextVersion \in Versions
        /\ packet'[NextVersion].st = "sent"
    BY <2>1, GenerateEffect DEF Absent
  <2>3. worker'[w] = [AtRest EXCEPT !.pc = "dispatch", !.version = NextVersion]
    BY <1>5 DEF PreparePackage, TypeOK
  <2> QED BY <2>2, <2>3 DEF SweepPart, AtRest
<1>6. ASSUME NEW s \in Signers, NEW taken \in BOOLEAN, Dispatch(w, s, taken) PROVE SweepPart(w)'
  <2> DEFINE n == worker[w].version
             ok == worker[w].ok \union (IF taken THEN {s} ELSE {})
  <2>1. n \in Versions /\ packet[n].st \notin {"absent", "draft"} /\ worker[w].ok \subseteq packet[n].accepted
    BY <1>1, <1>6 DEF Dispatch, At, SweepPart
  <2>2. ok \subseteq packet'[n].accepted
    BY <1>6, <2>1 DEF Dispatch, TypeOK, Package
  <2>3. packet'[n].accepted \in SUBSET Signers
    BY <2>1, TypeStep DEF TypeOK, Package
  <2>4. packet'[n].st \notin {"absent", "draft"}
    BY <2>1, PackagesGrow
  <2>5. worker[w] \in Worker  BY DEF TypeOK
  <2>6. \/ worker'[w] = [worker[w] EXCEPT !.tried = @ \union {s}, !.ok = ok]
        \/ /\ worker'[w] = [AtRest EXCEPT !.pc = "close"] /\ ok = Signers
        \/ worker'[w] = [AtRest EXCEPT !.pc = "signatures"]
    BY <1>6 DEF Dispatch, Delivered, MoveTo, TypeOK
  <2>7. CASE worker'[w] = [worker[w] EXCEPT !.tried = @ \union {s}, !.ok = ok]
    <3>1. worker'[w].pc = "dispatch" /\ worker'[w].version = n /\ worker'[w].ok = ok
      BY <1>6, <2>5, <2>7 DEF Worker, Dispatch, At
    <3> QED BY <2>1, <2>2, <2>4, <3>1 DEF SweepPart
  <2>8. CASE worker'[w] = [AtRest EXCEPT !.pc = "close"] /\ ok = Signers
    BY <2>1, <2>2, <2>3, <2>8 DEF SweepPart, AtRest, Reached
  <2>9. CASE worker'[w] = [AtRest EXCEPT !.pc = "signatures"]
    BY <2>9 DEF SweepPart, AtRest
  <2> QED BY <2>6, <2>7, <2>8, <2>9
<1>7. ASSUME CloseHandoff(w) PROVE SweepPart(w)'
  BY <1>1, <1>2, <1>7 DEF CloseHandoff, At, MoveTo, AtRest, SweepPart, TypeOK
<1>8. ASSUME NEW u \in Workers, NEW phase \in Phases \ {"dispatch", "close", "clock"}, MoveTo(u, phase)
      PROVE  SweepPart(w)'
  BY <1>3, <1>4, <1>8 DEF MoveTo, AtRest, TypeOK
<1>9. ASSUME NEW u \in Workers, u # w, Sweep(u) PROVE worker'[w] = worker[w]
  BY <1>9 DEF Sweep, ReconcileCompletions, ClaimHandoff, PassHandoff, PreparePackage, RefusePackage,
              CloseNotOwed, Dispatch, CloseHandoff, StartClock, ReconcileSignatures, ReadClock, Lapse,
              MoveTo, TypeOK
<1>10. CASE Sweep(w)
  <2>1. CASE ClaimHandoff(w)
    BY <1>4, <2>1 DEF ClaimHandoff, AtRest, TypeOK
  <2>2. CASE ReadClock(w)
    <3>1. worker'[w].pc \in {LapsePhase(ClockOf(worker[w].pc)), AfterClock(ClockOf(worker[w].pc))}
      <4> DEFINE type == ClockOf(worker[w].pc)
      <4>1. \/ worker' = [worker EXCEPT ![w] = [AtRest EXCEPT !.pc = LapsePhase(type), !.seen = status]]
            \/ worker' = [worker EXCEPT ![w] = [AtRest EXCEPT !.pc = AfterClock(type)]]
        BY <2>2, Zenon DEF ReadClock, MoveTo
      <4> HIDE DEF type
      <4>2. worker'[w].pc \in {LapsePhase(type), AfterClock(type)}
        BY <4>1, ZenonT(60) DEF AtRest, TypeOK
      <4> QED BY <4>2 DEF type
    <3> QED BY <1>4, <3>1 DEF LapsePhase, AfterClock
  <2>3. CASE Lapse(w)
    BY <1>4, <2>3 DEF Lapse, ClockOf, AfterClock, MoveTo, AtRest, TypeOK
  <2>4. CASE \/ ReconcileCompletions(w) \/ PassHandoff(w) \/ RefusePackage(w) \/ CloseNotOwed(w)
             \/ StartClock(w) \/ ReconcileSignatures(w)
    BY <1>8, <2>4 DEF ReconcileCompletions, PassHandoff, RefusePackage, CloseNotOwed,
                      StartClock, ReconcileSignatures, Phases
  <2> QED BY <1>5, <1>6, <1>7, <1>10, <2>1, <2>2, <2>3, <2>4 DEF Sweep
<1>11. CASE Environment
  <2>1. ASSUME NEW u \in Workers, NEW s \in Signers, Dispatch(u, s, FALSE) PROVE SweepPart(w)'
    <3>1. CASE u = w
      BY <1>6, <2>1, <3>1
    <3>2. CASE u # w
      BY <1>3, <2>1, <3>2 DEF Dispatch, MoveTo, TypeOK
    <3> QED BY <3>1, <3>2
  <2>2. ASSUME NEW u \in Workers, Interrupt(u) PROVE SweepPart(w)'
    BY <1>8, <2>2, AbandonMoves DEF Interrupt, Phases
  <2>3. CASE worker' = worker
    BY <1>3, <2>3
  <2> QED BY <1>11, <2>1, <2>2, <2>3
          DEF Environment, Submit, AuthorOffer, AcceptTerms, Approve, ConfirmTerms, AbortDeny,
              ConfirmTerm, SupplyFact, BeginDeny, StaffGenerate, StaffSend, SignerSubmit,
              CompanySign, WindowEnds
<1>12. CASE CommitDeny
  BY <1>3, <1>12 DEF CommitDeny
<1>13. ASSUME NEW u \in Workers, BreakDeadlock(u) PROVE SweepPart(w)'
  BY <1>3, <1>8, <1>13, AbandonMoves DEF BreakDeadlock
<1>14. CASE UNCHANGED vars
  BY <1>3, <1>14 DEF vars
<1> QED BY <1>3, <1>9, <1>10, <1>11, <1>12, <1>13, <1>14 DEF Next

\* DispatchInv is inductive on its own.
LEMMA DispatchStep == TypeOK /\ DispatchInv /\ [Next]_vars => DispatchInv'
<1> SUFFICES ASSUME TypeOK, DispatchInv, [Next]_vars PROVE DispatchInv'
  OBVIOUS
<1>1. PacketPart'  BY PacketPartStep
<1>2. \A w \in Workers : SweepPart(w)'  BY SweepPartStep
<1> QED BY <1>1, <1>2 DEF DispatchInv, PacketPart, SweepPart, Reached

-----------------------------------------------------------------------------
(* Obligations: the handoff row is claimed by one sweep, and the three
   obligations follow one another. *)

\* A release closes what is open and listed, and touches nothing else.
LEMMA ReleaseEffect ==
    ASSUME NEW o \in [Released -> Obligation], NEW types, NEW t \in Released
    PROVE  /\ o[t].state # "open" \/ t \notin types => Release(o, types)[t] = o[t]
           /\ o[t].state = "open" /\ t \in types =>
                 /\ Release(o, types)[t].state = "complete"
                 /\ Release(o, types)[t].code = "revoked"
                 /\ Release(o, types)[t].inputs = o[t].inputs
BY DEF Release, Closed, Obligation

\* A handoff row a sweep holds is closed by nobody but the holder.
LEMMA HandoffKept ==
    ASSUME Inductive, [Next]_vars, HandoffLocked
    PROVE  IsOpen("handoff")' \/ \E w \in Workers : StartClock(w)
<1> USE DEF Inductive
<1>1. IsOpen("handoff") /\ "handoff" \in Released /\ ob \in [Released -> Obligation]
  BY DEF ClaimInv, TypeOK, Released
<1>2. CASE UNCHANGED ob
  BY <1>1, <1>2 DEF IsOpen
<1>3. CASE Submit
  BY <1>1, <1>3 DEF Submit, CompletionInv, IsOpen, Released
<1>4. ASSUME NEW type \in {"completion", "signing"}, WindowEnds(type) PROVE IsOpen("handoff")'
  BY <1>1, <1>4 DEF WindowEnds, IsOpen
<1>5. CASE CommitDeny
  <2>1. "handoff" \notin deny.found  BY <1>5 DEF CommitDeny
  <2>2. ob'["handoff"] = ob["handoff"]  BY <1>1, <1>5, <2>1, ReleaseEffect DEF CommitDeny
  <2> QED BY <1>1, <2>2 DEF IsOpen
<1>6. ASSUME NEW w \in Workers, ReconcileCompletions(w) PROVE IsOpen("handoff")'
  <2>1. ob' \in {ob, Completed(ob), [ob EXCEPT !.completion.inputs = StillMissing]}
    BY <1>6, Zenon DEF ReconcileCompletions
  <2> QED BY <1>1, <2>1 DEF Completed, Spawned, NoObligation, IsOpen
<1>7. ASSUME NEW w \in Workers, ReconcileSignatures(w) PROVE IsOpen("handoff")'
  <2>1. ob'["handoff"] = ob["handoff"]
    BY <1>1, <1>7 DEF ReconcileSignatures
  <2> QED BY <1>1, <2>1 DEF IsOpen
<1>8. ASSUME NEW w \in Workers, Lapse(w) PROVE IsOpen("handoff")'
  <2> DEFINE type == ClockOf(worker[w].pc)
             expired == [ob EXCEPT ![type] = Closed(@, "expired")]
  <2>1. ob' = ob \/ ob' = expired
    BY <1>1, <1>8, Zenon DEF Lapse
  <2>2. type # "handoff"  BY DEF ClockOf
  <2>3. expired["handoff"] = ob["handoff"]  BY <1>1, <2>2
  <2> QED BY <1>1, <2>1, <2>3 DEF IsOpen
<1>9. ASSUME NEW w \in Workers PROVE ~CloseNotOwed(w)
  BY DEF CloseNotOwed
<1>10. CASE Environment
  BY <1>2, <1>3, <1>4, <1>10
     DEF Environment, AuthorOffer, AcceptTerms, Approve, ConfirmTerms, AbortDeny, ConfirmTerm,
         SupplyFact, BeginDeny, StaffGenerate, StaffSend, SignerSubmit, CompanySign, Dispatch, Interrupt
<1>11. ASSUME NEW w \in Workers, Sweep(w)
       PROVE  IsOpen("handoff")' \/ \E u \in Workers : StartClock(u)
  BY <1>2, <1>6, <1>7, <1>8, <1>9, <1>11
     DEF Sweep, ClaimHandoff, PassHandoff, PreparePackage, RefusePackage, Dispatch, CloseHandoff, ReadClock
<1> QED BY <1>2, <1>5, <1>10, <1>11 DEF Next, BreakDeadlock, vars

\* One sweep holds the row at a time, and holds it open.
LEMMA ClaimStep == Inductive /\ [Next]_vars => ClaimInv'
<1> SUFFICES ASSUME Inductive, [Next]_vars PROVE ClaimInv'
  OBVIOUS
<1> USE DEF Inductive
<1> DEFINE Holds(w) == worker[w].pc \in {"prepare", "clock"}
           SameHolders == \A w \in Workers : Holds(w)' => Holds(w)
<1>1. \A w1, w2 \in Workers : Holds(w1) /\ Holds(w2) => w1 = w2
  BY DEF ClaimInv
<1>2. ASSUME SameHolders, \A w \in Workers : ~StartClock(w) PROVE ClaimInv'
  <2>1. HandoffLocked' => HandoffLocked  BY <1>2 DEF HandoffLocked
  <2>2. HandoffLocked' => IsOpen("handoff")'  BY <1>2, <2>1, HandoffKept
  <2> QED BY <1>1, <1>2, <2>2 DEF ClaimInv
<1>3. ASSUME NEW w \in Workers, StartClock(w) PROVE ClaimInv'
  <2>1. Holds(w) /\ worker' = [worker EXCEPT ![w] = [AtRest EXCEPT !.pc = "signatures"]]
    BY <1>3 DEF StartClock, At, MoveTo
  <2>2. \A u \in Workers : ~Holds(u)'
    BY <1>1, <2>1 DEF AtRest, TypeOK
  <2> QED BY <2>2 DEF ClaimInv, HandoffLocked
<1>4. ASSUME NEW w \in Workers, ClaimHandoff(w) \/ CloseHandoff(w), ~\E u \in Workers : StartClock(u)
      PROVE  ClaimInv'
  <2>1. CASE worker'[w].pc \in {"prepare", "clock"} /\ ~HandoffLocked
    <3>1. \A u \in Workers : Holds(u)' => u = w
      BY <1>4, <2>1 DEF HandoffLocked, ClaimHandoff, CloseHandoff, MoveTo, TypeOK
    <3>2. IsOpen("handoff")'
      BY <1>4, <2>1 DEF ClaimHandoff, CloseHandoff, MoveTo, IsOpen, AtRest, TypeOK
    <3> QED BY <3>1, <3>2 DEF ClaimInv
  <2>2. CASE worker'[w].pc \notin {"prepare", "clock"}
    <3>1. SameHolders
      BY <1>4, <2>2 DEF ClaimHandoff, CloseHandoff, MoveTo, TypeOK
    <3> QED BY <1>2, <1>4, <3>1
  <2> QED BY <1>4, <2>1, <2>2 DEF ClaimHandoff, CloseHandoff
<1>5. ASSUME NEW w \in Workers, NEW phase \in Phases \ {"prepare", "clock"}, MoveTo(w, phase),
             ~\E u \in Workers : StartClock(u)
      PROVE  ClaimInv'
  <2>1. SameHolders  BY <1>5 DEF MoveTo, AtRest, TypeOK
  <2> QED BY <1>2, <1>5, <2>1
<1>6. ASSUME worker' = worker, ~\E u \in Workers : StartClock(u) PROVE ClaimInv'
  <2>1. SameHolders  BY <1>6
  <2> QED BY <1>2, <1>6, <2>1
<1>7. ASSUME NEW w \in Workers, NEW s \in Signers, NEW taken \in BOOLEAN, Dispatch(w, s, taken),
             ~\E u \in Workers : StartClock(u)
      PROVE  ClaimInv'
  <2>1. worker[w] \in Worker /\ worker[w].pc = "dispatch"
    BY <1>7 DEF TypeOK, Dispatch, At
  <2>2. worker'[w].pc \in {"dispatch", "close", "signatures"}
    BY <1>7, <2>1 DEF Dispatch, MoveTo, AtRest, TypeOK, Worker
  <2>3. \A u \in Workers \ {w} : worker'[u] = worker[u]
    BY <1>7 DEF Dispatch, MoveTo, TypeOK
  <2>4. SameHolders  BY <2>2, <2>3
  <2> QED BY <1>2, <1>7, <2>4
<1>8. ASSUME NEW w \in Workers, ReadClock(w) \/ PreparePackage(w), ~\E u \in Workers : StartClock(u)
      PROVE  ClaimInv'
  <2>1. worker'[w].pc \notin {"prepare", "clock"}
    <3>1. CASE PreparePackage(w)
      BY <3>1 DEF PreparePackage, AtRest, TypeOK
    <3>2. CASE ReadClock(w)
      BY <3>2, DispatchStep, ZenonT(60) DEF ReadClock, LapsePhase, AfterClock, ClockOf, MoveTo, AtRest, TypeOK
    <3> QED BY <1>8, <3>1, <3>2
  <2>2. \A u \in Workers \ {w} : worker'[u] = worker[u]
    BY <1>8 DEF ReadClock, PreparePackage, MoveTo, TypeOK
  <2>3. SameHolders  BY <2>1, <2>2
  <2> QED BY <1>2, <1>8, <2>3
<1>9. ASSUME NEW w \in Workers, Sweep(w), ~\E u \in Workers : StartClock(u) PROVE ClaimInv'
  <2>1. CASE \/ ReconcileCompletions(w) \/ PassHandoff(w) \/ RefusePackage(w) \/ CloseNotOwed(w)
             \/ ReconcileSignatures(w) \/ Lapse(w)
    BY <1>5, <1>9, <2>1 DEF ReconcileCompletions, PassHandoff, RefusePackage, CloseNotOwed,
                      ReconcileSignatures, Lapse, AfterClock, Phases
  <2> QED BY <1>4, <1>7, <1>8, <1>9, <2>1 DEF Sweep
<1>10. ASSUME Environment, ~\E u \in Workers : StartClock(u) PROVE ClaimInv'
  <2>1. ASSUME NEW u \in Workers, Interrupt(u) PROVE ClaimInv'
    BY <1>5, <1>10, <2>1, AbandonMoves DEF Interrupt, Phases
  <2>2. ASSUME NEW u \in Workers, NEW s \in Signers, Dispatch(u, s, FALSE) PROVE ClaimInv'
    BY <1>7, <1>10, <2>2
  <2>3. CASE worker' = worker
    BY <1>6, <1>10, <2>3
  <2> QED BY <1>10, <2>1, <2>2, <2>3
          DEF Environment, Submit, AuthorOffer, AcceptTerms, Approve, ConfirmTerms, AbortDeny,
              ConfirmTerm, SupplyFact, BeginDeny, StaffGenerate, StaffSend, SignerSubmit,
              CompanySign, WindowEnds
<1>11. ASSUME NEW w \in Workers, BreakDeadlock(w), ~\E u \in Workers : StartClock(u) PROVE ClaimInv'
  BY <1>5, <1>6, <1>11, AbandonMoves DEF BreakDeadlock
<1> QED
  BY <1>3, <1>6, <1>9, <1>10, <1>11 DEF Next, CommitDeny, vars

\* The parts of the invariant that speak of obligations.
ObligationPart ==
    /\ CompletionInv /\ DenyInv
    /\ CompletionBoundary /\ ClockFollowsDelivery /\ EndedOwesNoDelivery

\* Completing: the request is satisfied, the delivery owed, the clock untouched.
LEMMA CompletedEffect ==
    ASSUME NEW o \in [Released -> Obligation]
    PROVE  /\ Completed(o)["completion"].state = "complete" /\ Completed(o)["completion"].code = "none"
           /\ Completed(o)["completion"].inputs = {}
           /\ Completed(o)["handoff"].state = "open"
           /\ Completed(o)["signing"] = o["signing"]
BY DEF Completed, Closed, Spawned, NoObligation, Released, Obligation

\* No step breaks the order of the three: every settling, releasing and
\* lapsing step is taken under a lock that keeps the others out.
LEMMA ObligationStep == Inductive /\ [Next]_vars => ObligationPart'
<1> SUFFICES ASSUME Inductive, [Next]_vars PROVE ObligationPart'
  OBVIOUS
<1> USE DEF Inductive
<1>1. ob \in [Released -> Obligation] /\ {"completion", "handoff", "signing"} = Released
  BY DEF TypeOK, Released
<1>2. (Reached => Reached') /\ (ob["signing"].state # "none" => Reached)
  BY ReachedStays DEF ClockFollowsDelivery, Reached
<1>3. ASSUME \A t \in Released : /\ ob'[t].state = ob[t].state /\ ob'[t].code = ob[t].code
                                /\ ob'[t].inputs = ob[t].inputs,
             missing' \subseteq missing, deny' = deny \/ deny' = NoDenial,
             status' = status, approved' = approved
      PROVE  ObligationPart'
  <2>1. deny'.pc = "deciding" => deny' = deny  BY <1>3 DEF NoDenial
  <2> QED BY <1>1, <1>2, <1>3, <2>1
          DEF ObligationPart, CompletionInv, DenyInv, CompletionBoundary, ClockFollowsDelivery,
              EndedOwesNoDelivery, IsOpen, Satisfied, Reached
<1>4. ASSUME UNCHANGED <<ob, missing, deny>>, deny.pc # "deciding",
             status # "unsubmitted", status' \notin Terminal \union {"unsubmitted"}
      PROVE  ObligationPart'
  BY <1>1, <1>2, <1>4
     DEF ObligationPart, CompletionInv, DenyInv, CompletionBoundary, ClockFollowsDelivery,
         EndedOwesNoDelivery, IsOpen, Satisfied, Reached
<1>5. ASSUME UNCHANGED <<ob, missing, deny, status, approved>> PROVE ObligationPart'
  BY <1>3, <1>5
<1>6. CASE Submit
  <2> DEFINE owed == [ob EXCEPT !.completion = Spawned(missing)]
  <2>1. /\ \A t \in Released : ob[t].state = "none"
        /\ deny' = deny /\ deny.pc # "deciding" /\ missing' = missing
        /\ status' = "submitted"
    BY <1>6 DEF Submit, CompletionInv, DenyInv
  <2>2. owed \in [Released -> Obligation]
    BY <1>1, ObligationTypes DEF TypeOK
  <2>3. /\ owed["completion"].state = "open" /\ owed["completion"].inputs = missing
        /\ owed["handoff"].state = "none" /\ owed["signing"].state = "none"
    BY <1>1, <2>1 DEF Spawned, NoObligation
  <2>4. CASE missing # {} /\ ob' = owed
    BY <1>1, <2>1, <2>3, <2>4
       DEF ObligationPart, CompletionInv, DenyInv, CompletionBoundary, ClockFollowsDelivery,
           EndedOwesNoDelivery, IsOpen, Satisfied, Terminal
  <2>5. CASE missing = {} /\ ob' = Completed(owed)
    <3> HIDE DEF owed
    <3> QED BY <1>1, <2>1, <2>2, <2>3, <2>5, CompletedEffect
       DEF ObligationPart, CompletionInv, DenyInv, CompletionBoundary, ClockFollowsDelivery,
           EndedOwesNoDelivery, IsOpen, Satisfied, Terminal
  <2>6. \/ missing # {} /\ ob' = owed
        \/ missing = {} /\ ob' = Completed(owed)
    BY <1>6, Zenon DEF Submit
  <2> QED BY <2>4, <2>5, <2>6
<1>7. ASSUME NEW code \in Terminal, BeginDeny(code) PROVE ObligationPart'
  <2>1. deny' = [pc |-> "deciding", code |-> code, found |-> {t \in Released : IsOpen(t)}]
    BY <1>7 DEF BeginDeny
  <2>2. UNCHANGED <<status, approved, missing, ob>>
        /\ status \in {"submitted", "approved", "lease_ready"}
    BY <1>7 DEF BeginDeny, application
  <2> QED BY <1>1, <1>2, <2>1, <2>2
          DEF ObligationPart, CompletionInv, DenyInv, CompletionBoundary, ClockFollowsDelivery,
              EndedOwesNoDelivery, IsOpen, Satisfied, Reached
<1>8. CASE CommitDeny
  <2>1. /\ ob' = Release(ob, deny.found) /\ status' \in Terminal /\ status # "unsubmitted"
        /\ UNCHANGED missing /\ deny' = NoDenial
        /\ ob["completion"].state = "open" => "completion" \in deny.found
        /\ ob["handoff"].state = "open" => "handoff" \in deny.found
    BY <1>8 DEF CommitDeny, DenyInv, TypeOK, Denial, IsOpen
  <2>2. status' # "unsubmitted"  BY <2>1 DEF Terminal
  <2>3. deny'.pc # "deciding"  BY <2>1 DEF NoDenial
  <2>4. \A t \in Released :
          /\ ob[t].state # "open" => ob'[t] = ob[t]
          /\ ob[t].state = "open" =>
                ob'[t] = ob[t] \/ (ob'[t].state = "complete" /\ ob'[t].code = "revoked")
          /\ ob[t].state = "open" /\ t \in deny.found => ob'[t].state = "complete"
    BY <1>1, <2>1, ReleaseEffect
  <2> QED BY <1>1, <1>2, <2>1, <2>2, <2>3, <2>4
          DEF ObligationPart, CompletionInv, DenyInv, CompletionBoundary, ClockFollowsDelivery,
              EndedOwesNoDelivery, IsOpen, Satisfied, Reached
<1>9. ASSUME NEW w \in Workers, ReconcileCompletions(w) PROVE ObligationPart'
  <2>1. UNCHANGED <<status, approved, missing, deny>>
    BY <1>9 DEF ReconcileCompletions, application
  <2>2. CASE ob' = ob
    BY <1>5, <2>1, <2>2
  <2>3. CASE IsOpen("completion") /\ StillMissing = {} /\ ob' = Completed(ob) /\ ~ApplicationLocked
    <3>1. missing = {}  BY <2>3 DEF CompletionInv, StillMissing
    <3>2. status \notin Terminal /\ status # "unsubmitted" /\ ob["handoff"].state = "none"
          /\ ob["signing"].state = "none"
      BY <1>1, <2>3 DEF EndedOwesNoDelivery, CompletionInv, CompletionBoundary,
                        ClockFollowsDelivery, IsOpen, Satisfied
    <3> QED BY <1>1, <2>1, <2>3, <3>1, <3>2, CompletedEffect
            DEF ObligationPart, CompletionInv, DenyInv, CompletionBoundary, ClockFollowsDelivery,
                EndedOwesNoDelivery, IsOpen, Satisfied, ApplicationLocked
  <2>4. CASE IsOpen("completion") /\ ob' = [ob EXCEPT !.completion.inputs = StillMissing]
    <3>1. missing \subseteq StillMissing  BY <2>4 DEF CompletionInv, StillMissing
    <3>2. /\ ob'["completion"].state = "open" /\ ob'["completion"].inputs = StillMissing
          /\ ob'["handoff"] = ob["handoff"] /\ ob'["signing"] = ob["signing"]
      BY <1>1, <2>4 DEF IsOpen, Obligation
    <3> QED BY <1>1, <1>2, <2>1, <2>4, <3>1, <3>2
            DEF ObligationPart, CompletionInv, DenyInv, CompletionBoundary, ClockFollowsDelivery,
                EndedOwesNoDelivery, IsOpen, Satisfied, Reached
  <2> QED BY <1>9, <2>2, <2>3, <2>4, Zenon DEF ReconcileCompletions
<1>10. ASSUME NEW w \in Workers, CloseNotOwed(w) PROVE ObligationPart'
  <2>1. UNCHANGED <<status, approved, missing, deny>>
    BY <1>10 DEF CloseNotOwed, application
  <2>2. CASE ob' = ob
    BY <1>5, <2>1, <2>2
  <2>3. CASE IsOpen("handoff") /\ ob' = [ob EXCEPT !.handoff = Closed(@, "none")]
    <3>1. /\ ob'["handoff"].state = "complete"
          /\ ob'["completion"] = ob["completion"] /\ ob'["signing"] = ob["signing"]
      BY <1>1, <2>3 DEF Closed, Obligation
    <3>2. ob["signing"].state = "none"
      BY <2>3 DEF ClockFollowsDelivery, Satisfied, IsOpen
    <3> QED BY <1>1, <2>1, <2>3, <3>1, <3>2
            DEF ObligationPart, CompletionInv, DenyInv, CompletionBoundary, ClockFollowsDelivery,
                EndedOwesNoDelivery, IsOpen, Satisfied
  <2> QED BY <1>10, <2>2, <2>3 DEF CloseNotOwed
<1>11. ASSUME NEW w \in Workers, StartClock(w) PROVE ObligationPart'
  <2>1. UNCHANGED <<status, approved, missing, deny>>
    BY <1>11 DEF StartClock, application
  <2>2. IsOpen("handoff") /\ Reached'
    BY <1>2, <1>11, ReachedStays DEF StartClock, At, ClaimInv, HandoffLocked, DispatchInv, Reached
  <2>3. /\ ob'["handoff"].state = "complete" /\ ob'["handoff"].code = "none"
        /\ ob'["completion"] = ob["completion"]
    BY <1>1, <1>11 DEF StartClock, Closed, Obligation
  <2> QED BY <1>1, <2>1, <2>2, <2>3
          DEF ObligationPart, CompletionInv, DenyInv, CompletionBoundary, ClockFollowsDelivery,
              EndedOwesNoDelivery, IsOpen, Satisfied, Reached
<1>12. ASSUME NEW w \in Workers, ReconcileSignatures(w) PROVE ObligationPart'
  <2>1. UNCHANGED <<status, approved, missing, deny>>
    BY <1>12 DEF ReconcileSignatures, application
  <2>2. /\ ob'["completion"] = ob["completion"] /\ ob'["handoff"] = ob["handoff"]
        /\ ob["signing"].state = "none" => ob'["signing"] = ob["signing"]
    BY <1>1, <1>12 DEF ReconcileSignatures, IsOpen
  <2> QED BY <1>1, <1>2, <2>1, <2>2
          DEF ObligationPart, CompletionInv, DenyInv, CompletionBoundary, ClockFollowsDelivery,
              EndedOwesNoDelivery, IsOpen, Satisfied, Reached
<1>13. ASSUME NEW w \in Workers, Lapse(w) PROVE ObligationPart'
  <2> DEFINE type == ClockOf(worker[w].pc)
             expired == [ob EXCEPT ![type] = Closed(@, "expired")]
  <2>1. UNCHANGED <<approved, missing, deny>>
    BY <1>13 DEF Lapse
  <2>2. CASE UNCHANGED <<status, ob>>
    BY <1>5, <2>1, <2>2
  <2>3. type \in {"completion", "signing"}  BY DEF ClockOf
  <2>4. expired \in [Released -> Obligation]
    BY <1>1, ObligationTypes DEF TypeOK
  <2>5. /\ \A t \in Released \ {type} : expired[t] = ob[t]
        /\ expired[type].state = "complete" /\ expired[type].code = "expired"
    BY <1>1, <2>3 DEF Closed, Obligation
  <2>6. CASE IsOpen(type) /\ ob' = expired /\ UNCHANGED status
    BY <1>1, <1>2, <2>1, <2>3, <2>5, <2>6
       DEF ObligationPart, CompletionInv, DenyInv, CompletionBoundary, ClockFollowsDelivery,
           EndedOwesNoDelivery, IsOpen, Satisfied, Reached
  <2>7. CASE /\ IsOpen(type) /\ ~ApplicationLocked /\ status' = "expired"
             /\ ob' = Release(expired, Released)
    <3> HIDE DEF expired, type
    <3>1. \A t \in Released :
            /\ ob'[t].state # "open"
            /\ ob[t].state # "open" => ob'[t] = ob[t]
            /\ ob[t].state = "open" => ob'[t].state = "complete" /\ ob'[t].code # "none"
      BY <1>1, <2>3, <2>4, <2>5, <2>7, ReleaseEffect DEF IsOpen, Obligation
    <3>2. status # "unsubmitted"  BY <1>1, <2>3, <2>7 DEF CompletionInv, IsOpen
    <3> QED BY <1>1, <1>2, <2>1, <2>7, <3>1, <3>2
            DEF ObligationPart, CompletionInv, DenyInv, CompletionBoundary, ClockFollowsDelivery,
                EndedOwesNoDelivery, IsOpen, Satisfied, Reached, ApplicationLocked
  <2> QED BY <1>13, <2>2, <2>6, <2>7, Zenon DEF Lapse
<1>14. CASE Environment
  <2>1. CASE Approve
    BY <1>4, <2>1 DEF Approve, ApplicationLocked, Terminal
  <2>2. ASSUME NEW v \in Versions, NEW outcome \in {"active", "accepted_term_required", "lease_ready"},
               CompanySign(v, outcome)
        PROVE  ObligationPart'
    BY <1>4, <2>2 DEF CompanySign, ApplicationLocked, Terminal, CompletionInv
  <2>3. CASE ConfirmTerm
    BY <1>4, <2>3 DEF ConfirmTerm, ApplicationLocked, Terminal
  <2>4. ASSUME NEW i \in CompletionInputs, SupplyFact(i) PROVE ObligationPart'
    BY <1>3, <2>4 DEF SupplyFact
  <2>5. CASE AbortDeny
    BY <1>3, <2>5 DEF AbortDeny, application
  <2>6. ASSUME NEW k \in {"completion", "signing"}, WindowEnds(k) PROVE ObligationPart'
    <3>1. ob' = [ob EXCEPT ![k].due = TRUE] /\ UNCHANGED <<status, approved, missing, deny>>
      BY <2>6 DEF WindowEnds, application
    <3>2. \A t \in Released : /\ ob'[t].state = ob[t].state /\ ob'[t].code = ob[t].code
                              /\ ob'[t].inputs = ob[t].inputs
      BY <1>1, <3>1 DEF Obligation
    <3> QED BY <1>3, <3>1, <3>2
  <2>7. ASSUME NEW w \in Workers, NEW s \in Signers, Dispatch(w, s, FALSE) PROVE ObligationPart'
    BY <1>5, <2>7 DEF Dispatch, application
  <2>8. ASSUME NEW w \in Workers, Interrupt(w) PROVE ObligationPart'
    BY <1>5, <2>8 DEF Interrupt, application
  <2>9. ASSUME NEW new \in BOOLEAN, StaffGenerate(new) PROVE ObligationPart'
    BY <1>5, <2>9 DEF StaffGenerate
  <2>10. ASSUME NEW v \in Versions, NEW s \in Signers, SignerSubmit(v, s) PROVE ObligationPart'
    BY <1>5, <2>10 DEF SignerSubmit, application
  <2>11. CASE AuthorOffer \/ AcceptTerms \/ ConfirmTerms \/ StaffSend
    BY <1>5, <2>11 DEF AuthorOffer, AcceptTerms, ConfirmTerms, StaffSend, application
  <2> QED BY <1>6, <1>7, <1>14, <2>1, <2>2, <2>3, <2>4, <2>5, <2>6, <2>7, <2>8, <2>9, <2>10, <2>11
          DEF Environment
<1>15. ASSUME NEW w \in Workers, Sweep(w) PROVE ObligationPart'
  <2>1. CASE ClaimHandoff(w) \/ PassHandoff(w) \/ PreparePackage(w) \/ RefusePackage(w)
             \/ CloseHandoff(w) \/ ReadClock(w)
    BY <1>5, <2>1 DEF ClaimHandoff, PassHandoff, PreparePackage, RefusePackage, CloseHandoff,
                      ReadClock, application
  <2>2. ASSUME NEW s \in Signers, Dispatch(w, s, TRUE) PROVE ObligationPart'
    BY <1>5, <2>2 DEF Dispatch, application
  <2> QED BY <1>9, <1>10, <1>11, <1>12, <1>13, <1>15, <2>1, <2>2 DEF Sweep
<1>16. ASSUME NEW w \in Workers, BreakDeadlock(w) PROVE ObligationPart'
  BY <1>3, <1>16 DEF BreakDeadlock, application
<1>17. CASE UNCHANGED vars
  BY <1>5, <1>17 DEF vars, application
<1> QED BY <1>8, <1>14, <1>15, <1>16, <1>17 DEF Next

-----------------------------------------------------------------------------
(* Where an application ends. *)

\* The lifecycle authority lets only an application still in play expire.
LEMMA ExpiryVerdict ==
    \A s \in Statuses : AssessTransition(s, "expired") # "refused" =>
        s \in {"expired", "submitted", "approved", "lease_ready"}
<1> SUFFICES ASSUME NEW s \in Statuses, s # "expired",
                    AssessTransition(s, "expired") # "refused"
             PROVE  s \in {"submitted", "approved", "lease_ready"}
  OBVIOUS
<1>1. AssessTransition(s, "expired") =
        IF s \notin Terminal /\ s \in TerminalOrigins("expired") THEN "applied" ELSE "refused"
  BY DEF AssessTransition, Terminal
<1> QED BY <1>1 DEF TerminalOrigins

\* An executed package stays executed.
LEMMA ExecutedStays ==
    ASSUME TypeOK, DispatchInv, [Next]_vars, NEW v \in Versions, packet[v].st = "executed"
    PROVE  packet'[v].st = "executed"
<1>1. ASSUME NEW st \in {"draft", "sent"}, Generate(st) PROVE packet'[v].st = "executed"
  BY <1>1, GenerateEffect
<1>2. CASE Environment
  <2>1. ASSUME NEW u \in Versions, NEW s \in Signers, SignerSubmit(u, s)
        PROVE  packet'[v].st = "executed"
    BY <2>1 DEF SignerSubmit, Issued, TypeOK, Package
  <2>2. ASSUME NEW u \in Versions, NEW outcome, CompanySign(u, outcome)
        PROVE  packet'[v].st = "executed"
    BY <2>2 DEF CompanySign, TypeOK, Package
  <2>3. CASE StaffSend
    BY <2>3 DEF StaffSend, TypeOK, Package
  <2>4. ASSUME NEW new \in BOOLEAN, StaffGenerate(new) PROVE packet'[v].st = "executed"
    BY <1>1, <2>4 DEF StaffGenerate
  <2>5. ASSUME NEW w \in Workers, NEW s \in Signers, Dispatch(w, s, FALSE)
        PROVE  packet'[v].st = "executed"
    BY <2>5 DEF Dispatch
  <2>6. CASE UNCHANGED packet
    BY <2>6
  <2> QED BY <1>2, <2>1, <2>2, <2>3, <2>4, <2>5, <2>6
          DEF Environment, Submit, AuthorOffer, AcceptTerms, Approve, ConfirmTerms, AbortDeny,
              ConfirmTerm, SupplyFact, BeginDeny, WindowEnds, Interrupt
<1>3. ASSUME NEW w \in Workers, Sweep(w) PROVE packet'[v].st = "executed"
  <2>1. CASE PreparePackage(w)
    BY <1>1, <2>1 DEF PreparePackage
  <2>2. ASSUME NEW s \in Signers, Dispatch(w, s, TRUE) PROVE packet'[v].st = "executed"
    BY <2>2 DEF Dispatch, TypeOK, Package
  <2>3. CASE UNCHANGED packet
    BY <2>3
  <2> QED BY <1>3, <2>1, <2>2, <2>3
          DEF Sweep, ReconcileCompletions, ClaimHandoff, PassHandoff, RefusePackage, CloseNotOwed,
              CloseHandoff, StartClock, ReconcileSignatures, ReadClock, Lapse
<1> QED BY <1>2, <1>3 DEF Next, CommitDeny, BreakDeadlock, vars

\* No step rewrites an ending, and none ends an admitted lease.
LEMMA StatusMoves ==
    ASSUME Inductive, [Next]_vars
    PROVE  /\ status \in Terminal => status' = status
           /\ status \in Admitted => status' \in Admitted
<1> DEFINE Moves == /\ status \in Terminal => status' = status
                    /\ status \in Admitted => status' \in Admitted
<1> SUFFICES Moves
  OBVIOUS
<1> USE DEF Inductive
<1>1. ASSUME status' = status PROVE Moves
  BY <1>1
<1>2. ASSUME status \notin Terminal \union Admitted PROVE Moves
  BY <1>2
<1>3. CASE Submit \/ Approve \/ CommitDeny
  BY <1>2, <1>3 DEF Submit, Approve, CommitDeny, DenyInv, Terminal, Admitted
<1>4. CASE ConfirmTerm
  BY <1>4 DEF ConfirmTerm, Terminal, Admitted
<1>5. ASSUME NEW v \in Versions, NEW outcome \in {"active", "accepted_term_required", "lease_ready"},
             CompanySign(v, outcome)
      PROVE  Moves
  BY <1>2, <1>5 DEF CompanySign, StatusInv
<1>6. ASSUME NEW w \in Workers, Lapse(w) PROVE Moves
  <2>1. \/ status' = status
        \/ status' = "expired" /\ AssessTransition(status, "expired") # "refused"
    BY <1>6, Zenon DEF Lapse
  <2>2. CASE status' = "expired" /\ AssessTransition(status, "expired") # "refused"
    <3>1. status \in {"expired", "submitted", "approved", "lease_ready"}
      BY <2>2, ExpiryVerdict DEF TypeOK
    <3> QED BY <2>2, <3>1 DEF Terminal, Admitted
  <2> QED BY <1>1, <2>1, <2>2
<1>7. CASE Environment
  BY <1>1, <1>3, <1>4, <1>5, <1>7
     DEF Environment, AuthorOffer, AcceptTerms, ConfirmTerms, AbortDeny, SupplyFact, BeginDeny,
         StaffGenerate, StaffSend, SignerSubmit, WindowEnds, Dispatch, Interrupt, application
<1>8. ASSUME NEW w \in Workers, Sweep(w) PROVE Moves
  BY <1>1, <1>6, <1>8
     DEF Sweep, ReconcileCompletions, ClaimHandoff, PassHandoff, PreparePackage, RefusePackage,
         CloseNotOwed, Dispatch, CloseHandoff, StartClock, ReconcileSignatures, ReadClock, application
<1> QED BY <1>1, <1>3, <1>7, <1>8 DEF Next, BreakDeadlock, vars, application

\* What a sweep remembers of a status, and what an admission rests on.
LEMMA StatusStep == Inductive /\ [Next]_vars => StatusInv'
<1> SUFFICES ASSUME Inductive, [Next]_vars PROVE StatusInv'
  OBVIOUS
<1> USE DEF Inductive
<1>1. ASSUME NEW w \in Workers, worker'[w].seen \in Terminal PROVE status \in Terminal
  <2>1. CASE worker'[w].seen = worker[w].seen
    BY <1>1, <2>1 DEF StatusInv
  <2>2. CASE worker'[w].seen = status
    BY <1>1, <2>2
  <2>3. worker'[w].seen # "none"  BY <1>1 DEF Terminal
  <2>4. CASE worker' = worker
    BY <2>1, <2>4
  <2>5. ASSUME NEW u \in Workers, NEW phase, MoveTo(u, phase) PROVE status \in Terminal
    <3>1. worker'[w] = worker[w] \/ worker'[w].seen = "none"
      BY <2>5 DEF MoveTo, AtRest, TypeOK
    <3> QED BY <2>1, <2>3, <3>1
  <2>6. ASSUME NEW u \in Workers, NEW s \in Signers, NEW taken \in BOOLEAN, Dispatch(u, s, taken)
        PROVE  status \in Terminal
    <3> DEFINE tried == worker[u].tried \union {s}
               ok == worker[u].ok \union (IF taken THEN {s} ELSE {})
    <3>1. \/ worker' = [worker EXCEPT ![u].tried = tried, ![u].ok = ok]
          \/ worker' = [worker EXCEPT ![u] = [AtRest EXCEPT !.pc = "close"]]
          \/ worker' = [worker EXCEPT ![u] = [AtRest EXCEPT !.pc = "signatures"]]
      BY <2>6 DEF Dispatch, MoveTo
    <3>2. worker'[w].seen = worker[w].seen \/ worker'[w].seen = "none"
      BY <3>1 DEF AtRest, TypeOK, Worker
    <3> QED BY <2>1, <2>3, <3>2
  <2>7. ASSUME NEW u \in Workers, ReadClock(u) PROVE status \in Terminal
    <3> DEFINE type == ClockOf(worker[u].pc)
    <3>1. \/ worker' = [worker EXCEPT ![u] = [AtRest EXCEPT !.pc = LapsePhase(type), !.seen = status]]
          \/ MoveTo(u, AfterClock(type))
      BY <2>7, Zenon DEF ReadClock
    <3>2. CASE worker' = [worker EXCEPT ![u] = [AtRest EXCEPT !.pc = LapsePhase(type), !.seen = status]]
      <4> HIDE DEF type
      <4>1. worker'[w].seen \in {worker[w].seen, status}
        BY <3>2 DEF AtRest, TypeOK
      <4> QED BY <2>1, <2>2, <4>1
    <3> QED BY <2>5, <3>1, <3>2
  <2>8. ASSUME NEW u \in Workers, ClaimHandoff(u) \/ PreparePackage(u) PROVE status \in Terminal
    <3>1. worker'[w] = worker[w] \/ worker'[w].seen = "none"
      BY <2>8, ZenonT(60) DEF ClaimHandoff, PreparePackage, AtRest, TypeOK
    <3> QED BY <2>1, <2>3, <3>1
  <2>9. CASE Environment
    BY <2>4, <2>5, <2>6, <2>9, AbandonMoves
       DEF Environment, Submit, AuthorOffer, AcceptTerms, Approve, ConfirmTerms, AbortDeny,
           ConfirmTerm, SupplyFact, BeginDeny, StaffGenerate, StaffSend, SignerSubmit,
           CompanySign, WindowEnds, Interrupt
  <2>10. ASSUME NEW u \in Workers, Sweep(u) PROVE status \in Terminal
    BY <2>5, <2>6, <2>7, <2>8, <2>10
       DEF Sweep, ReconcileCompletions, PassHandoff, RefusePackage, CloseNotOwed, CloseHandoff,
           StartClock, ReconcileSignatures, Lapse
  <2> QED BY <2>4, <2>5, <2>9, <2>10, AbandonMoves DEF Next, CommitDeny, BreakDeadlock, vars
<1>2. ASSUME status' \in Admitted PROVE \E v \in Versions : packet'[v].st = "executed"
  <2>1. CASE status \in Admitted
    BY <2>1, ExecutedStays DEF StatusInv
  <2>2. CASE status \notin Admitted
    <3>1. ASSUME NEW v \in Versions, NEW outcome, CompanySign(v, outcome)
          PROVE  packet'[v].st = "executed"
      BY <3>1 DEF CompanySign, TypeOK, Package
    <3>2. status' # status  BY <1>2, <2>2
    <3>3. ~(Submit \/ Approve \/ ConfirmTerm \/ CommitDeny)
      BY <1>2, <2>2 DEF Submit, Approve, ConfirmTerm, CommitDeny, Admitted, Terminal, TypeOK, Denial
    <3>4. \A w \in Workers : ~Lapse(w)
      <4>1. \A w \in Workers : Lapse(w) => status' \in {status, "expired"}
        BY Zenon DEF Lapse
      <4> QED BY <1>2, <3>2, <4>1 DEF Admitted
    <3>5. \A w \in Workers : ~Sweep(w)
      BY <3>2, <3>4
         DEF Sweep, ReconcileCompletions, ClaimHandoff, PassHandoff, PreparePackage, RefusePackage,
             CloseNotOwed, Dispatch, CloseHandoff, StartClock, ReconcileSignatures, ReadClock, application
    <3>6. Environment
      BY <3>2, <3>3, <3>5 DEF Next, BreakDeadlock, vars, application
    <3> QED BY <3>1, <3>2, <3>3, <3>6
            DEF Environment, AuthorOffer, AcceptTerms, ConfirmTerms, AbortDeny, SupplyFact, BeginDeny,
                StaffGenerate, StaffSend, SignerSubmit, WindowEnds, Dispatch, Interrupt, application
  <2> QED BY <2>1, <2>2
<1>3. status \in Terminal => status' \in Terminal  BY StatusMoves
<1> QED BY <1>1, <1>2, <1>3 DEF StatusInv

-----------------------------------------------------------------------------
(* The theorems. *)

\* The strengthened invariant holds of every behaviour.
THEOREM InductiveInvariant == Spec => []Inductive
<1>1. Init => Inductive
  <2> SUFFICES ASSUME Init PROVE Inductive
    OBVIOUS
  <2>1. TypeOK  BY InitType
  <2>2. /\ status = "unsubmitted" /\ ~approved /\ deny.pc = "idle" /\ made = 0
        /\ \A t \in Released : ob[t].state = "none"
        /\ \A w \in Workers : worker[w].pc = "completions" /\ worker[w].seen = "none"
        /\ \A v \in Versions : packet[v].st = "absent" /\ packet[v].accepted = {}
    BY DEF Init, NoDenial, NoObligation, AtRest, Absent
  <2>3. \A v \in Versions : v > made  BY <2>2, ConstantAssumption DEF Versions
  <2> QED BY <2>1, <2>2, <2>3
          DEF Inductive, ClaimInv, CompletionInv, DispatchInv, DenyInv, CompletionBoundary,
              ClockFollowsDelivery, EndedOwesNoDelivery, HandoffLocked, IsOpen, Satisfied,
              StatusInv, Admitted, Released, Terminal
<1>2. Inductive /\ [Next]_vars => Inductive'
  BY TypeStep, ClaimStep, DispatchStep, StatusStep, ObligationStep DEF Inductive, ObligationPart
<1> QED BY <1>1, <1>2, PTL DEF Spec

\* Delivery is owed exactly from completion on, with every fact on file.
THEOREM DeliveryOwedAtCompletion == Spec => []CompletionBoundary
BY InductiveInvariant, PTL DEF Inductive

\* The signing clock runs only after a delivery that reached every signer.
THEOREM ClockStartsAtDelivery == Spec => []ClockFollowsDelivery
BY InductiveInvariant, PTL DEF Inductive

\* A terminal application owes neither completion nor delivery.
THEOREM EndReleasesDelivery == Spec => []EndedOwesNoDelivery
BY InductiveInvariant, PTL DEF Inductive

\* An ending is never rewritten and an admitted lease never ended.
THEOREM EndingsAreFinal == Spec => EndsOnce
<1>1. Inductive /\ [Next]_vars => [KeepsEnding]_vars
  BY StatusMoves DEF KeepsEnding
<1> QED BY <1>1, InductiveInvariant, PTL DEF Spec, EndsOnce
=============================================================================
