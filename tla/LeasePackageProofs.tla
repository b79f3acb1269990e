------------------------- MODULE LeasePackageProofs -------------------------
(***************************************************************************)
(* Package versions: one open for signature, all on the agreed offer.      *)
(* Signatures are kept and are what the signing clock counts, the company  *)
(* signs once, completion makes the decision live, and a delivery comes    *)
(* before its closing.                                                     *)
(***************************************************************************)
EXTENDS LeaseHandoffProofs

\* Whether prepared by a sweep or by staff, the new version leaves no other
\* one open and carries the acknowledged, still current offer.
LEMMA GenerateKeeps ==
    ASSUME TypeOK, DispatchInv, PackageInv, NEW st \in {"draft", "sent"}, NEW new \in BOOLEAN,
           Eligible(new), Generate(st), UNCHANGED <<status, bound, current>>
    PROVE  PackageInv'
<1> DEFINE n == NextVersion
<1>1. n \in Versions /\ n >= made /\ made' = n /\ n \in {made, made + 1} /\ n > 0
  BY GenerateEffect, ConstantAssumption DEF NextVersion, Versions
<1>2. packet'[n] = [Absent EXCEPT !.st = st, !.offer = bound]
  BY GenerateEffect
<1>3. packet'[n].offer = bound /\ ~packet'[n].superseded
  BY <1>2 DEF Absent
<1>4. bound = current /\ status # "unsubmitted"
  BY DEF Eligible, PreparationBasis, AuthoredBasis, PacketEligibleStatuses
<1>5. ASSUME NEW v \in Versions, v < n
      PROVE  packet'[v].offer = bound /\ (~packet'[v].superseded => packet'[v].st \in Frozen)
  <2>1. v \in 1..made /\ packet[v] \in Package /\ packet[v].st # "absent"
    BY <1>1, <1>5 DEF Versions, TypeOK, DispatchInv
  <2>2. packet[v].offer = bound /\ (~packet[v].superseded /\ packet[v].st \notin Frozen => v = made)
    BY <2>1 DEF PackageInv, PackageOnAgreedOffer, OneOpenForSignature, Live, Versions, TypeOK
  <2>3. packet'[v] = IF v = made /\ packet[v].st \in Issued
                     THEN [packet[v] EXCEPT !.superseded = TRUE] ELSE packet[v]
    BY <1>1, <1>5 DEF Generate, Versions
  <2>4. v = made => packet[v].st # "draft"
    BY <1>1, <1>5, <2>1 DEF NextVersion, Versions, TypeOK
  <2>5. packet[v].st \in Issued \union Frozen \/ v # made
    BY <2>1, <2>4 DEF Package
  <2> QED BY <2>1, <2>2, <2>3, <2>5 DEF Package
<1>6. \A v \in Versions : v <= n => v < n \/ v = n
  BY <1>1 DEF Versions
<1>7. (status = "unsubmitted" => made = 0)' /\ (made > 0 => ~packet[made].superseded)'
  BY <1>1, <1>3, <1>4
<1>8. OneOpenForSignature'
  BY <1>1, <1>5, <1>6 DEF OneOpenForSignature, Live
<1>9. PackageOnAgreedOffer'
  <2>1. \A v \in 1..n : v \in Versions /\ v <= n  BY <1>1, ConstantAssumption DEF Versions
  <2> QED BY <1>1, <1>3, <1>4, <1>5, <1>6, <2>1 DEF PackageOnAgreedOffer
<1> QED BY <1>7, <1>8, <1>9 DEF PackageInv

\* Signing, sending and executing keep each version's offer and never reopen one.
LEMMA PacketUpdateKeeps ==
    ASSUME TypeOK, PackageInv, UNCHANGED <<made, bound, current>>,
           status' = "unsubmitted" => status = "unsubmitted",
           \A v \in Versions : /\ packet'[v].offer = packet[v].offer
                               /\ packet'[v].superseded = packet[v].superseded
                               /\ Live(v) /\ packet[v].st \in Frozen => packet'[v].st \in Frozen
    PROVE  PackageInv'
<1>1. made > 0 => made \in Versions  BY DEF TypeOK, Versions
<1>2. (status = "unsubmitted" => made = 0)' /\ (made > 0 => ~packet[made].superseded)'
  BY <1>1 DEF PackageInv
<1>3. OneOpenForSignature'
  BY DEF PackageInv, OneOpenForSignature, Live
<1>4. PackageOnAgreedOffer'
  <2>1. \A v \in 1..made : v \in Versions  BY ConstantAssumption DEF Versions, TypeOK
  <2> QED BY <2>1 DEF PackageInv, PackageOnAgreedOffer
<1> QED BY <1>2, <1>3, <1>4 DEF PackageInv

\* PackageInv is inductive relative to Inductive.
LEMMA PackageStep == Inductive /\ PackageInv /\ [Next]_vars => PackageInv'
<1> SUFFICES ASSUME Inductive, PackageInv, [Next]_vars PROVE PackageInv'
  OBVIOUS
<1> USE DEF Inductive
<1>1. ASSUME UNCHANGED <<packet, made, bound, current>>,
             status' = "unsubmitted" => status = "unsubmitted"
      PROVE  PackageInv'
  BY <1>1, PacketUpdateKeeps
<1>2. ASSUME UNCHANGED <<packet, made, application>> PROVE PackageInv'
  BY <1>1, <1>2 DEF application
<1>3. ASSUME made = 0, UNCHANGED <<packet, made>> PROVE PackageInv'
  BY <1>3 DEF PackageInv, OneOpenForSignature, PackageOnAgreedOffer, Live, Versions
<1>4. CASE Submit
  BY <1>3, <1>4 DEF Submit, PackageInv
<1>5. CASE AuthorOffer
  <2>1. made = 0
    BY <1>5 DEF AuthorOffer, Live, PackageInv, TypeOK, Versions
  <2> QED BY <1>3, <1>5, <2>1 DEF AuthorOffer
<1>6. CASE AcceptTerms
  BY <1>3, <1>6 DEF AcceptTerms
<1>7. CASE StaffSend
  <2>1. \A v \in Versions : /\ packet'[v].offer = packet[v].offer
                            /\ packet'[v].superseded = packet[v].superseded
                            /\ packet[v].st \in Frozen => packet'[v].st \in Frozen
    BY <1>7 DEF StaffSend, TypeOK, Package, Frozen
  <2> QED BY <1>7, <2>1, PacketUpdateKeeps DEF StaffSend, application
<1>8. ASSUME NEW v \in Versions, NEW s \in Signers, SignerSubmit(v, s) PROVE PackageInv'
  <2>1. \A u \in Versions : /\ packet'[u].offer = packet[u].offer
                            /\ packet'[u].superseded = packet[u].superseded
                            /\ packet[u].st \in Frozen => packet'[u].st \in Frozen
    BY <1>8 DEF SignerSubmit, TypeOK, Package, Frozen, Issued
  <2> QED BY <1>8, <2>1, PacketUpdateKeeps DEF SignerSubmit, application
<1>9. ASSUME NEW v \in Versions, NEW outcome \in {"active", "accepted_term_required", "lease_ready"},
             CompanySign(v, outcome)
      PROVE  PackageInv'
  <2>1. \A u \in Versions : /\ packet'[u].offer = packet[u].offer
                            /\ packet'[u].superseded = packet[u].superseded
                            /\ packet[u].st \in Frozen => packet'[u].st \in Frozen
    BY <1>9 DEF CompanySign, TypeOK, Package, Frozen
  <2> QED BY <1>9, <2>1, PacketUpdateKeeps DEF CompanySign
<1>10. ASSUME NEW w \in Workers, NEW s \in Signers, NEW taken \in BOOLEAN, Dispatch(w, s, taken)
       PROVE  PackageInv'
  <2>1. \A u \in Versions : /\ packet'[u].offer = packet[u].offer
                            /\ packet'[u].superseded = packet[u].superseded
                            /\ packet'[u].st = packet[u].st
    BY <1>10 DEF Dispatch, TypeOK, Package
  <2> QED BY <1>10, <2>1, PacketUpdateKeeps DEF Dispatch, application
<1>11. CASE Environment
  <2>1. CASE Approve \/ ConfirmTerms \/ ConfirmTerm
    BY <1>1, <2>1 DEF Approve, ConfirmTerms, ConfirmTerm
  <2>2. ASSUME NEW i \in CompletionInputs, SupplyFact(i) PROVE PackageInv'
    BY <1>1, <2>2 DEF SupplyFact
  <2>3. ASSUME NEW new \in BOOLEAN, StaffGenerate(new) PROVE PackageInv'
    BY <2>3, GenerateKeeps DEF StaffGenerate
  <2>4. CASE UNCHANGED <<packet, made, application>>
    BY <1>2, <2>4
  <2> QED BY <1>4, <1>5, <1>6, <1>7, <1>8, <1>9, <1>10, <1>11, <2>1, <2>2, <2>3, <2>4
          DEF Environment, BeginDeny, AbortDeny, WindowEnds, Interrupt
<1>12. ASSUME NEW w \in Workers, Sweep(w) PROVE PackageInv'
  <2>1. CASE PreparePackage(w)
    <3>1. worker[w].regenerate \in BOOLEAN  BY DEF TypeOK, Worker
    <3> QED BY <2>1, <3>1, GenerateKeeps DEF PreparePackage
  <2>2. ASSUME NEW s \in Signers, Dispatch(w, s, TRUE) PROVE PackageInv'
    BY <1>10, <2>2
  <2>3. CASE Lapse(w)
    <3>1. status' \in {status, "expired"}  BY <2>3, Zenon DEF Lapse
    <3> QED BY <1>1, <2>3, <3>1 DEF Lapse
  <2>4. CASE UNCHANGED <<packet, made, application>>
    BY <1>2, <2>4
  <2> QED BY <1>12, <2>1, <2>2, <2>3, <2>4
          DEF Sweep, ReconcileCompletions, ClaimHandoff, PassHandoff, RefusePackage, CloseNotOwed,
              CloseHandoff, StartClock, ReconcileSignatures, ReadClock
<1>13. CASE CommitDeny
  BY <1>1, <1>13 DEF CommitDeny, TypeOK, Denial, Terminal
<1> QED BY <1>2, <1>11, <1>12, <1>13 DEF Next, BreakDeadlock, vars

\* The newest version is in force and every version is on the agreed offer.
THEOREM PackageInvariant == Spec => []PackageInv
<1>1. Init => PackageInv
  BY ConstantAssumption
     DEF Init, PackageInv, OneOpenForSignature, PackageOnAgreedOffer, Live, Versions
<1>2. Inductive /\ PackageInv /\ [Next]_vars => PackageInv'
  BY PackageStep
<1> QED BY <1>1, <1>2, InductiveInvariant, PTL DEF Spec

\* At most one package is open for signature, and it is the newest.
THEOREM OneOpenPackage == Spec => []OneOpenForSignature
BY PackageInvariant, PTL DEF PackageInv

\* Every package carries the acknowledged offer, and that offer is current.
THEOREM PackagesOnAgreedOffer == Spec => []PackageOnAgreedOffer
BY PackageInvariant, PTL DEF PackageInv

-----------------------------------------------------------------------------
(* What a step may do to the packages, and to the handoff and the clock.    *)

\* Six steps write packages; every other one leaves all of them alone.
LEMMA PackageChanges ==
    ASSUME [Next]_vars
    PROVE  \/ UNCHANGED <<packet, made>>
           \/ \E new \in BOOLEAN : StaffGenerate(new)
           \/ \E w \in Workers : PreparePackage(w)
           \/ StaffSend
           \/ \E v \in Versions, s \in Signers : SignerSubmit(v, s)
           \/ \E v \in Versions, outcome \in {"active", "accepted_term_required", "lease_ready"} :
                    CompanySign(v, outcome)
           \/ \E w \in Workers, s \in Signers, taken \in BOOLEAN : Dispatch(w, s, taken)
<1>1. CASE UNCHANGED vars
  BY <1>1 DEF vars
<1>2. CASE Environment
  BY <1>2 DEF Environment, Submit, AuthorOffer, AcceptTerms, Approve, ConfirmTerms, SupplyFact,
              BeginDeny, AbortDeny, ConfirmTerm, WindowEnds, Interrupt
<1>3. CASE \E w \in Workers : Sweep(w)
  BY <1>3 DEF Sweep, ReconcileCompletions, ClaimHandoff, PassHandoff, RefusePackage, CloseNotOwed,
              CloseHandoff, StartClock, ReconcileSignatures, ReadClock, Lapse
<1>4. CASE CommitDeny \/ \E w \in Workers : BreakDeadlock(w)
  BY <1>4 DEF CommitDeny, BreakDeadlock
<1> QED BY <1>1, <1>2, <1>3, <1>4 DEF Next

\* The signing clock is started by one step, discharged by another, and else
\* only gets due, or is closed with a code; its inputs are kept then.
LEMMA ClockChanges ==
    ASSUME Inductive, [Next]_vars
    PROVE  \/ \E w \in Workers : StartClock(w) \/ ReconcileSignatures(w)
           \/ /\ ob'.signing.inputs = ob.signing.inputs
              /\ \/ ob'.signing.state = ob.signing.state /\ ob'.signing.code = ob.signing.code
                 \/ ob.signing.state = "open" /\ ob'.signing.code # "none"
<1> USE DEF Inductive
<1> DEFINE Kept == /\ ob'.signing.inputs = ob.signing.inputs
                   /\ \/ ob'.signing.state = ob.signing.state /\ ob'.signing.code = ob.signing.code
                      \/ ob.signing.state = "open" /\ ob'.signing.code # "none"
<1>1. ob \in [Released -> Obligation] /\ Released = {"completion", "handoff", "signing"}
  BY DEF TypeOK, Released
<1>2. CASE UNCHANGED ob
  BY <1>2
<1>3. ASSUME ob'["signing"] = ob["signing"] PROVE Kept
  BY <1>3
<1>4. CASE Submit
  <2> DEFINE owed == [ob EXCEPT !.completion = Spawned(missing)]
  <2>1. owed \in [Released -> Obligation] /\ owed["signing"] = ob["signing"]
    BY <1>1, ObligationTypes DEF TypeOK
  <2>2. ob' = owed \/ ob' = Completed(owed)
    BY <1>4, Zenon DEF Submit
  <2> HIDE DEF owed
  <2> QED BY <1>3, <2>1, <2>2, CompletedEffect
<1>5. ASSUME NEW type \in {"completion", "signing"}, WindowEnds(type) PROVE Kept
  BY <1>1, <1>5 DEF WindowEnds, Obligation
<1>6. ASSUME NEW types, NEW o \in [Released -> Obligation], ob' = Release(o, types),
             o["signing"] = ob["signing"] \/ o["signing"] = Closed(ob["signing"], "expired"),
             o["signing"] # ob["signing"] => IsOpen("signing")
      PROVE  Kept
  <2>1. CASE o["signing"] = ob["signing"]
    BY <1>1, <1>6, <2>1, ReleaseEffect
  <2>2. CASE IsOpen("signing") /\ o["signing"] = Closed(ob["signing"], "expired")
    <3>1. o["signing"].state = "complete" /\ o["signing"].code = "expired"
          /\ o["signing"].inputs = ob["signing"].inputs
      BY <1>1, <2>2 DEF Closed, Obligation
    <3>2. ob'["signing"] = o["signing"]  BY <1>1, <1>6, <3>1, ReleaseEffect
    <3> QED BY <2>2, <3>1, <3>2 DEF IsOpen
  <2> QED BY <1>6, <2>1, <2>2
<1>7. CASE CommitDeny
  BY <1>1, <1>6, <1>7 DEF CommitDeny
<1>8. ASSUME NEW w \in Workers, ReconcileCompletions(w) PROVE Kept
  <2>1. ob' \in {ob, Completed(ob), [ob EXCEPT !.completion.inputs = StillMissing]}
    BY <1>8, Zenon DEF ReconcileCompletions
  <2>2. ob'["signing"] = ob["signing"]
    BY <1>1, <2>1, CompletedEffect
  <2> QED BY <1>3, <2>2
<1>9. ASSUME NEW w \in Workers, CloseNotOwed(w) PROVE Kept
  <2>1. ob'["signing"] = ob["signing"]
    BY <1>1, <1>9 DEF CloseNotOwed
  <2> QED BY <1>3, <2>1
<1>10. ASSUME NEW w \in Workers, Lapse(w) PROVE Kept
  <2> DEFINE type == ClockOf(worker[w].pc)
             expired == [ob EXCEPT ![type] = Closed(@, "expired")]
  <2>1. \/ ob' = ob
        \/ IsOpen(type) /\ (ob' = expired \/ ob' = Release(expired, Released))
    BY <1>10, Zenon DEF Lapse
  <2>2. type \in {"completion", "signing"}  BY DEF ClockOf
  <2> HIDE DEF type
  <2>3. /\ expired \in [Released -> Obligation]
        /\ \/ expired["signing"] = ob["signing"]
           \/ type = "signing" /\ expired["signing"] = Closed(ob["signing"], "expired")
    <3>1. Closed(ob[type], "expired") \in Obligation  BY <1>1, <2>2, ObligationTypes
    <3> QED BY <1>1, <2>2, <3>1
  <2>4. ASSUME IsOpen(type), ob' = expired PROVE Kept
    BY <1>1, <2>3, <2>4 DEF Closed, Obligation, IsOpen
  <2>5. ASSUME IsOpen(type), ob' = Release(expired, Released) PROVE Kept
    <3> HIDE DEF expired
    <3> QED BY <1>6, <2>3, <2>5
  <2> QED BY <1>2, <2>1, <2>4, <2>5
<1>11. CASE Environment
  BY <1>2, <1>4, <1>5, <1>11
     DEF Environment, AuthorOffer, AcceptTerms, Approve, ConfirmTerms, AbortDeny, ConfirmTerm,
         SupplyFact, BeginDeny, StaffGenerate, StaffSend, SignerSubmit, CompanySign, Dispatch, Interrupt
<1>12. ASSUME NEW w \in Workers, Sweep(w)
       PROVE  Kept \/ \E u \in Workers : StartClock(u) \/ ReconcileSignatures(u)
  BY <1>2, <1>8, <1>9, <1>10, <1>12
     DEF Sweep, ClaimHandoff, PassHandoff, PreparePackage, RefusePackage, Dispatch, CloseHandoff, ReadClock
<1> QED BY <1>2, <1>7, <1>11, <1>12 DEF Next, BreakDeadlock, vars
-----------------------------------------------------------------------------
(* Signatures: kept for good, and what the clock's inputs say of them.       *)

Unsigned == \A v \in Versions : packet[v].st \in {"absent", "draft"} => packet[v].signed = {}
Signed(s) == \E v \in Versions : s \in packet[v].signed

\* A version nobody was sent carries no signature, every signer the clock does
\* not wait for has signed, and it is closed as done only when it waits for nobody.
InputsInv ==
    /\ Unsigned
    /\ ob.signing.state # "none" => \A s \in Signers \ ob.signing.inputs : Signed(s)
    /\ ob.signing.state = "complete" /\ ob.signing.code = "none" => ob.signing.inputs = {}

\* A signature on a package is never lost: a version in force is replaced by
\* another one, and only an unsigned draft is written over.
LEMMA SignaturesStay ==
    ASSUME Inductive, Unsigned, [Next]_vars
    PROVE  /\ \A v \in Versions : packet[v].signed \subseteq packet'[v].signed
           /\ Unsigned'
<1> USE DEF Inductive
<1>1. packet \in [Versions -> Package]  BY DEF TypeOK
<1> DEFINE Stay == /\ \A v \in Versions : packet[v].signed \subseteq packet'[v].signed
                   /\ Unsigned'
<1>2. CASE UNCHANGED <<packet, made>>
  BY <1>2 DEF Unsigned
<1>3. ASSUME NEW st \in {"draft", "sent"}, Generate(st) PROVE Stay
  <2> DEFINE n == NextVersion
  <2>1. /\ n \in Versions /\ packet[n].st \in {"absent", "draft"}
        /\ packet'[n] = [Absent EXCEPT !.st = st, !.offer = bound]
        /\ \A v \in Versions \ {n} : /\ packet'[v].st = packet[v].st
                                    /\ packet'[v].signed = packet[v].signed
    BY <1>3, GenerateEffect
  <2>2. packet[n].signed = {} /\ packet'[n].signed = {}
    BY <2>1 DEF Unsigned, Absent
  <2> HIDE DEF n
  <2> QED BY <2>1, <2>2 DEF Unsigned
<1>4. CASE StaffSend
  BY <1>1, <1>4 DEF StaffSend, Unsigned, Package
<1>5. ASSUME NEW v \in Versions, NEW s \in Signers, SignerSubmit(v, s) PROVE Stay
  BY <1>1, <1>5 DEF SignerSubmit, AfterSignature, Unsigned, Package
<1>6. ASSUME NEW v \in Versions, NEW outcome, CompanySign(v, outcome) PROVE Stay
  BY <1>1, <1>6 DEF CompanySign, Unsigned, Package
<1>7. ASSUME NEW w \in Workers, NEW s \in Signers, NEW taken \in BOOLEAN, Dispatch(w, s, taken)
      PROVE  Stay
  BY <1>1, <1>7 DEF Dispatch, Unsigned, Package
<1> QED BY <1>2, <1>3, <1>4, <1>5, <1>6, <1>7, PackageChanges DEF StaffGenerate, PreparePackage

\* Signatures, and the offer they were given for, are kept for good.
THEOREM SignaturesAreKept == Spec => SignaturesKept
<1>1. Inductive /\ Unsigned /\ [Next]_vars => [KeepsSignatures]_vars
  <2> SUFFICES ASSUME Inductive, Unsigned, [Next]_vars,
                      NEW v \in Versions, packet[v].signed # {}
               PROVE  /\ packet'[v].offer = packet[v].offer
                      /\ packet[v].superseded => packet'[v].superseded
                      /\ packet[v].st = "executed" => packet'[v].st = "executed"
    BY SignaturesStay DEF KeepsSignatures
  <2>1. packet \in [Versions -> Package]  BY DEF Inductive, TypeOK
  <2>2. packet[v].st = "executed" => packet'[v].st = "executed"
    BY ExecutedStays DEF Inductive
  <2> DEFINE Same == packet'[v].offer = packet[v].offer
                     /\ (packet[v].superseded => packet'[v].superseded)
  <2>3. ASSUME NEW st \in {"draft", "sent"}, Generate(st) PROVE Same
    <3>1. v # NextVersion
      BY <2>3, GenerateEffect DEF Inductive, Unsigned
    <3>2. packet'[v] = packet[v] \/ packet'[v] = [packet[v] EXCEPT !.superseded = TRUE]
      BY <2>3, <3>1 DEF Generate
    <3> QED BY <2>1, <3>2 DEF Package
  <2>4. CASE StaffSend
    BY <2>1, <2>4 DEF StaffSend, Package
  <2>5. ASSUME NEW u \in Versions, NEW s \in Signers, SignerSubmit(u, s) PROVE Same
    BY <2>1, <2>5 DEF SignerSubmit, Package
  <2>6. ASSUME NEW u \in Versions, NEW outcome, CompanySign(u, outcome) PROVE Same
    BY <2>1, <2>6 DEF CompanySign, Package
  <2>7. ASSUME NEW w \in Workers, NEW s \in Signers, NEW taken \in BOOLEAN, Dispatch(w, s, taken)
        PROVE  Same
    BY <2>1, <2>7 DEF Dispatch, Package
  <2>8. ASSUME UNCHANGED <<packet, made>> PROVE Same
    BY <2>8
  <2>9. Same
    BY <2>3, <2>4, <2>5, <2>6, <2>7, <2>8, PackageChanges DEF StaffGenerate, PreparePackage
  <2> QED BY <2>2, <2>9
<1>2. Init => Unsigned
  BY DEF Init, Unsigned, Absent
<1>3. Inductive /\ Unsigned /\ [Next]_vars => Unsigned'
  BY SignaturesStay
<1> QED BY <1>1, <1>2, <1>3, InductiveInvariant, PTL DEF Spec, SignaturesKept

\* Once a version reached every signer there is a newest one in force, so a
\* signature that is not outstanding is on it.
LEMMA NotOutstanding ==
    ASSUME Inductive, PackageInv, Reached, NEW s \in Signers \ Outstanding
    PROVE  Signed(s)
<1> USE DEF Inductive
<1>1. PICK v \in Versions : packet[v].accepted = Signers  BY DEF Reached
<1>2. packet[v].st # "absent"
  BY <1>1, ConstantAssumption DEF DispatchInv
<1>3. made \in Versions  BY <1>2 DEF DispatchInv, TypeOK, Versions
<1>4. Live(made)  BY <1>3, ConstantAssumption DEF Live, PackageInv, Versions
<1> QED BY <1>3, <1>4 DEF Outstanding, Signed

\* The clock's inputs leave it only by signatures.
LEMMA InputsStep == Inductive /\ Inductive' /\ PackageInv /\ InputsInv /\ [Next]_vars => InputsInv'
<1> SUFFICES ASSUME Inductive, Inductive', PackageInv, InputsInv, [Next]_vars PROVE InputsInv'
  OBVIOUS
<1> DEFINE c == ob["signing"]
<1>1. /\ ob \in [Released -> Obligation] /\ ob' \in [Released -> Obligation]
      /\ "signing" \in Released /\ "handoff" \in Released
      /\ c \in Obligation /\ c' \in Obligation
  BY DEF Inductive, TypeOK, Released
<1>2. Unsigned' /\ \A s \in Signers : Signed(s) => Signed(s)'
  BY SignaturesStay DEF InputsInv, Signed
<1>3. ASSUME c'.inputs = c.inputs,
             \/ c'.state = c.state /\ c'.code = c.code
             \/ c.state = "open" /\ c'.code # "none"
      PROVE  InputsInv'
  BY <1>2, <1>3 DEF InputsInv
<1>4. ASSUME NEW w \in Workers, StartClock(w) PROVE InputsInv'
  <2>1. Reached
    BY <1>4 DEF StartClock, At, Inductive, DispatchInv, Reached
  <2>2. \A s \in Signers \ Outstanding : Signed(s)
    BY <2>1, NotOutstanding
  <2>3. \/ c' = c
        \/ c' = Spawned(Outstanding)
    BY <1>1, <1>4 DEF StartClock
  <2>4. CASE c' = Spawned(Outstanding)
    <3>1. c'.inputs = Outstanding /\ c'.state = "open"
      BY <2>4 DEF Spawned, NoObligation
    <3> QED BY <1>2, <2>2, <3>1 DEF InputsInv
  <2> QED BY <1>3, <2>3, <2>4
<1>5. ASSUME NEW w \in Workers, ReconcileSignatures(w) PROVE InputsInv'
  <2> DEFINE left == c.inputs \intersect Outstanding
  <2>1. CASE ~IsOpen("signing")
    BY <1>3, <1>5, <2>1 DEF ReconcileSignatures
  <2>2. CASE IsOpen("signing")
    <3>1. c.state = "open"  BY <2>2 DEF IsOpen
    <3>2. Reached  BY <3>1 DEF Inductive, ClockFollowsDelivery, Reached
    <3>3. \A s \in Signers \ left : Signed(s)
      BY <3>1, <3>2, NotOutstanding DEF InputsInv
    <3>4. c'.inputs = left /\ c'.state # "none" /\ (c'.state = "complete" => left = {})
      BY <1>1, <1>5, <2>2, <3>1 DEF ReconcileSignatures, Closed, Obligation
    <3> QED BY <1>2, <3>3, <3>4 DEF InputsInv
  <2> QED BY <2>1, <2>2
<1> QED BY <1>3, <1>4, <1>5, ClockChanges

\* A signing clock closed as done rests on a signature of every signer,
\* whichever versions were live when each of them was counted.
THEOREM InputsAreSignatures == Spec => []SignatureInputsAreSignatures
<1>1. Init => InputsInv
  BY DEF Init, InputsInv, Unsigned, NoObligation, Released, Absent
<1>2. InputsInv => SignatureInputsAreSignatures
  BY DEF InputsInv, SignatureInputsAreSignatures, Signed
<1> QED BY <1>1, <1>2, InputsStep, InductiveInvariant, PackageInvariant, PTL DEF Spec

-----------------------------------------------------------------------------
(* Execution: the company signs last, and once.                             *)

\* An approved application has its gate closed, and a version handed over for
\* the company's signature carries every other one.
Handed(v) == packet[v].st = "resident_executed" => packet[v].signed = Signers
GateClosed == approved => gate.state = "complete"
ExecutionInv == GateClosed /\ (\A v \in Versions : Handed(v)) /\ ExecutedOnce

\* Approval is for good, and every step that records it closes the gate.
LEMMA GateStep == Inductive /\ GateClosed /\ [Next]_vars => GateClosed' /\ (approved => approved')
<1> SUFFICES ASSUME Inductive, GateClosed, [Next]_vars
             PROVE  GateClosed' /\ (approved => approved')
  OBVIOUS
<1> USE DEF Inductive, GateClosed
<1>1. gate \in [state : {"none", "open", "complete"}, raised : BOOLEAN]  BY DEF TypeOK
<1>2. CASE UNCHANGED <<approved, gate>>
  BY <1>2
<1>3. CASE Submit
  BY <1>3 DEF Submit, CompletionInv
<1>4. CASE Approve \/ CommitDeny
  BY <1>1, <1>4 DEF Approve, CommitDeny
<1>5. ASSUME NEW v \in Versions, NEW outcome, CompanySign(v, outcome)
      PROVE  GateClosed' /\ (approved => approved')
  BY <1>1, <1>5 DEF CompanySign
<1>6. ASSUME NEW w \in Workers, ReconcileCompletions(w)
      PROVE  GateClosed' /\ (approved => approved')
  <2>1. gate' = gate \/ gate' = Raised(gate)
    BY <1>6, Zenon DEF ReconcileCompletions
  <2>2. gate'.state = gate.state
    BY <1>1, <2>1 DEF Raised
  <2> QED BY <1>6, <2>2 DEF ReconcileCompletions, application
<1>7. CASE Environment
  BY <1>2, <1>3, <1>4, <1>5, <1>7
     DEF Environment, AuthorOffer, AcceptTerms, ConfirmTerms, AbortDeny, ConfirmTerm, SupplyFact,
         BeginDeny, StaffGenerate, StaffSend, SignerSubmit, WindowEnds, Dispatch, Interrupt, application
<1>8. ASSUME NEW w \in Workers, Sweep(w) PROVE GateClosed' /\ (approved => approved')
  BY <1>2, <1>6, <1>8
     DEF Sweep, ClaimHandoff, PassHandoff, PreparePackage, RefusePackage, CloseNotOwed, Dispatch,
         CloseHandoff, StartClock, ReconcileSignatures, ReadClock, Lapse, application
<1> QED BY <1>2, <1>4, <1>7, <1>8 DEF Next, BreakDeadlock, vars, application

\* A version already executed is left alone, and only the company's signature
\* executes one, on a version handed over and when no other one was.
LEMMA ExecutionStep == Inductive /\ Unsigned /\ ExecutionInv /\ [Next]_vars => ExecutionInv'
<1> SUFFICES ASSUME Inductive, Unsigned, ExecutionInv, [Next]_vars PROVE ExecutionInv'
  OBVIOUS
<1> USE DEF Inductive
<1>1. packet \in [Versions -> Package]  BY DEF TypeOK
<1>2. GateClosed' /\ (approved => approved')
  BY GateStep DEF ExecutionInv
<1>3. ASSUME \A v \in Versions :
                /\ packet'[v].st \in {"executed", "resident_executed"} =>
                      packet'[v].st = packet[v].st
                /\ packet[v].st \in {"executed", "resident_executed"} =>
                      /\ packet'[v].signed = packet[v].signed
                      /\ packet'[v].superseded = packet[v].superseded
      PROVE  ExecutionInv'
  <2>1. \A v \in Versions : packet'[v].st = "executed" => packet[v].st = "executed"
    BY <1>3
  <2>2. ExecutedOnce'
    BY <1>2, <1>3, <2>1 DEF ExecutionInv, ExecutedOnce, GateClosed
  <2>3. \A v \in Versions : Handed(v)'
    BY <1>3 DEF ExecutionInv, Handed
  <2> QED BY <1>2, <2>2, <2>3 DEF ExecutionInv
<1>4. ASSUME NEW st \in {"draft", "sent"}, Generate(st) PROVE ExecutionInv'
  <2> DEFINE n == NextVersion
  <2>1. /\ n \in Versions /\ packet[n].st \in {"absent", "draft"} /\ packet'[n].st = st
        /\ \A v \in Versions \ {n} : /\ packet'[v].st = packet[v].st
                                    /\ packet'[v].signed = packet[v].signed
    BY <1>4, GenerateEffect DEF Absent
  <2>2. \A v \in Versions \ {n} : packet[v].st \notin Issued => packet'[v] = packet[v]
    BY <1>4 DEF Generate
  <2>3. {"executed", "resident_executed"} \intersect (Issued \union {"absent", "draft", "sent"}) = {}
    BY DEF Issued
  <2> HIDE DEF n
  <2> QED BY <1>3, <2>1, <2>2, <2>3
<1>5. CASE StaffSend
  BY <1>1, <1>3, <1>5 DEF StaffSend, Package
<1>6. ASSUME NEW w \in Workers, NEW s \in Signers, NEW taken \in BOOLEAN, Dispatch(w, s, taken)
      PROVE  ExecutionInv'
  BY <1>1, <1>3, <1>6 DEF Dispatch, Package
<1>7. ASSUME NEW v \in Versions, NEW s \in Signers, SignerSubmit(v, s) PROVE ExecutionInv'
  <2>1. /\ packet[v].st \in Issued
        /\ packet'[v].signed = packet[v].signed \union {s}
        /\ packet'[v].st = AfterSignature(v, s)
        /\ \A u \in Versions \ {v} : packet'[u] = packet[u]
    BY <1>1, <1>7 DEF SignerSubmit, Package
  <2>2. packet'[v].st # "executed" /\ packet[v].st # "executed"
    BY <2>1 DEF AfterSignature, Issued
  <2>3. ExecutedOnce'
    BY <1>2, <2>1, <2>2 DEF ExecutionInv, ExecutedOnce, GateClosed
  <2>4. Handed(v)'
    BY <2>1 DEF AfterSignature, Handed
  <2> QED BY <1>2, <2>1, <2>3, <2>4 DEF ExecutionInv, Handed
<1>8. ASSUME NEW v \in Versions, NEW outcome, CompanySign(v, outcome) PROVE ExecutionInv'
  <2>1. /\ packet[v].st = "resident_executed" /\ ~packet[v].superseded /\ approved'
        /\ ~\E u \in Versions : packet[u].st = "executed"
    BY <1>8 DEF CompanySign, Live
  <2>2. /\ packet'[v].st = "executed" /\ packet'[v].signed = packet[v].signed
        /\ packet'[v].superseded = packet[v].superseded
        /\ \A u \in Versions \ {v} : packet'[u] = packet[u]
    BY <1>1, <1>8 DEF CompanySign, Package
  <2>3. packet[v].signed = Signers  BY <2>1 DEF ExecutionInv, Handed
  <2>4. ExecutedOnce'
    BY <1>2, <2>1, <2>2, <2>3 DEF ExecutedOnce, GateClosed
  <2> QED BY <1>2, <2>2, <2>4 DEF ExecutionInv, Handed
<1>9. CASE UNCHANGED <<packet, made>>
  BY <1>3, <1>9
<1> QED BY <1>4, <1>5, <1>6, <1>7, <1>8, <1>9, PackageChanges DEF StaffGenerate, PreparePackage

\* The company signs one version, fully signed and in force, of an application
\* that is approved by then.
THEOREM CompanySignsOnce == Spec => []ExecutedOnce
<1>1. Init => Unsigned /\ ExecutionInv
  BY DEF Init, Unsigned, ExecutionInv, GateClosed, Handed, ExecutedOnce, Absent
<1>2. Inductive /\ Unsigned /\ ExecutionInv /\ [Next]_vars => (Unsigned /\ ExecutionInv)'
  BY ExecutionStep, SignaturesStay
<1> QED BY <1>1, <1>2, InductiveInvariant, PTL DEF Spec, ExecutionInv

-----------------------------------------------------------------------------
(* Which steps settle an obligation as done.                                *)

\* Work done is recorded by four steps only; every other one leaves it, gets
\* it due, or closes it with a code.
LEMMA SettledBy ==
    ASSUME Inductive, [Next]_vars
    PROVE  /\ Satisfied("completion")' =>
                 Satisfied("completion") \/ Submit \/ \E w \in Workers : ReconcileCompletions(w)
           /\ Satisfied("handoff")' =>
                 Satisfied("handoff") \/ \E w \in Workers : CloseNotOwed(w) \/ StartClock(w)
<1> USE DEF Inductive
<1> DEFINE Kept(t) == Satisfied(t)' => Satisfied(t)
           Both == Kept("completion") /\ Kept("handoff")
<1>1. ob \in [Released -> Obligation] /\ Released = {"completion", "handoff", "signing"}
  BY DEF TypeOK, Released
<1>2. ASSUME UNCHANGED ob PROVE Both
  BY <1>2 DEF Satisfied
<1>3. ASSUME NEW types, NEW o \in [Released -> Obligation], ob' = Release(o, types),
             \A t \in {"completion", "handoff"} :
                o[t] = ob[t] \/ (o[t].state = "complete" /\ o[t].code # "none")
      PROVE  Both
  BY <1>1, <1>3, ReleaseEffect DEF Satisfied, Obligation
<1>4. ASSUME NEW o, o \in [Released -> Obligation], ob' = Completed(o) PROVE Kept("handoff")
  BY <1>4, CompletedEffect DEF Satisfied
<1>5. CASE Submit
  <2> DEFINE owed == [ob EXCEPT !.completion = Spawned(missing)]
  <2>1. owed \in [Released -> Obligation] /\ owed["handoff"] = ob["handoff"]
    BY <1>1, ObligationTypes DEF TypeOK
  <2>2. ob' = owed \/ ob' = Completed(owed)
    BY <1>5, Zenon DEF Submit
  <2> HIDE DEF owed
  <2>3. Kept("handoff")
    BY <1>4, <2>1, <2>2 DEF Satisfied
  <2> QED BY <1>5, <2>3
<1>6. ASSUME NEW w \in Workers, ReconcileCompletions(w) PROVE Kept("handoff")
  <2>1. ob' \in {ob, Completed(ob), [ob EXCEPT !.completion.inputs = StillMissing]}
    BY <1>6, Zenon DEF ReconcileCompletions
  <2> QED BY <1>1, <1>4, <2>1 DEF Satisfied
<1>7. ASSUME NEW type \in {"completion", "signing"}, WindowEnds(type) PROVE Both
  BY <1>1, <1>7 DEF WindowEnds, Obligation, Satisfied
<1>8. ASSUME CommitDeny PROVE Both
  <2>1. ob' = Release(ob, deny.found)  BY <1>8 DEF CommitDeny
  <2> HIDE DEF Both
  <2> QED BY <1>1, <1>3, <2>1
<1>9. ASSUME NEW w \in Workers, CloseNotOwed(w) PROVE Kept("completion")
  BY <1>1, <1>9 DEF CloseNotOwed, Satisfied
<1>10. ASSUME NEW w \in Workers, StartClock(w) PROVE Kept("completion")
  BY <1>1, <1>10 DEF StartClock, Satisfied
<1>11. ASSUME NEW w \in Workers, ReconcileSignatures(w) PROVE Both
  BY <1>1, <1>11 DEF ReconcileSignatures, Satisfied
<1>12. ASSUME NEW w \in Workers, Lapse(w) PROVE Both
  <2> DEFINE type == ClockOf(worker[w].pc)
             expired == [ob EXCEPT ![type] = Closed(@, "expired")]
  <2>1. ob' = ob \/ ob' = expired \/ ob' = Release(expired, Released)
    BY <1>12, Zenon DEF Lapse
  <2>2. type \in {"completion", "signing"}  BY DEF ClockOf
  <2> HIDE DEF type
  <2>3. /\ expired \in [Released -> Obligation]
        /\ \A t \in Released : \/ expired[t] = ob[t]
                               \/ expired[t].state = "complete" /\ expired[t].code # "none"
    <3>1. ob[type] \in Obligation  BY <1>1, <2>2
    <3>2. Closed(ob[type], "expired") \in Obligation  BY <3>1, ObligationTypes
    <3>3. Closed(ob[type], "expired").state = "complete" /\ Closed(ob[type], "expired").code # "none"
      BY <3>1 DEF Closed, Obligation
    <3> QED BY <1>1, <2>2, <3>2, <3>3
  <2> HIDE DEF expired
  <2>4. CASE ob' = expired
    BY <1>1, <2>3, <2>4 DEF Satisfied
  <2>5. CASE ob' = Release(expired, Released)
    <3>1. {"completion", "handoff"} \subseteq Released  BY <1>1
    <3> HIDE DEF Both
    <3> QED BY <1>3, <2>3, <2>5, <3>1
  <2> QED BY <1>2, <2>1, <2>4, <2>5
<1>13. CASE Environment
  <2>1. Submit \/ Both
    BY <1>2, <1>7, <1>13
       DEF Environment, AuthorOffer, AcceptTerms, Approve, ConfirmTerms, AbortDeny, ConfirmTerm,
           SupplyFact, BeginDeny, StaffGenerate, StaffSend, SignerSubmit, CompanySign, Dispatch, Interrupt
  <2> QED BY <1>5, <2>1
<1>14. ASSUME NEW w \in Workers, Sweep(w)
       PROVE  Both \/ ReconcileCompletions(w) \/ CloseNotOwed(w) \/ StartClock(w)
  BY <1>2, <1>11, <1>12, <1>14
     DEF Sweep, ClaimHandoff, PassHandoff, PreparePackage, RefusePackage, Dispatch, CloseHandoff, ReadClock
<1> QED BY <1>2, <1>5, <1>6, <1>8, <1>9, <1>10, <1>13, <1>14 DEF Next, BreakDeadlock, vars

-----------------------------------------------------------------------------
(* The approver's decision.                                                 *)

\* Where the gate was not spawned through a conversion, completing raises it;
\* it is opened once, by the submission.
LEMMA DecisionStep ==
    ASSUME ~ConversionBacked, Inductive, DecisionRaised, [Next]_vars
    PROVE  DecisionRaised'
<1> USE DEF Inductive
<1>1. ob \in [Released -> Obligation] /\ "completion" \in Released
      /\ gate \in [state : {"none", "open", "complete"}, raised : BOOLEAN]
  BY DEF TypeOK, Released
<1>2. CASE Submit
  <2> DEFINE owed == [ob EXCEPT !.completion = Spawned(missing)]
             opened == [state |-> "open", raised |-> FALSE]
  <2>1. \/ gate' = Raised(opened)
        \/ ob' = owed
    BY <1>2, Zenon DEF Submit
  <2>2. Raised(opened).raised
    BY DEF Raised
  <2>3. owed["completion"].state = "open"
    BY <1>1 DEF Spawned, NoObligation
  <2> HIDE DEF owed, opened
  <2> QED BY <2>1, <2>2, <2>3 DEF DecisionRaised, Satisfied
<1>3. ASSUME NEW w \in Workers, ReconcileCompletions(w) PROVE DecisionRaised'
  <2>1. \/ ob' = ob /\ gate' = gate
        \/ gate' = Raised(gate)
        \/ /\ IsOpen("completion") /\ gate' = gate
           /\ ob' = [ob EXCEPT !.completion.inputs = StillMissing]
    BY <1>3, Zenon DEF ReconcileCompletions
  <2>2. gate' = Raised(gate) => DecisionRaised'
    BY <1>1 DEF Raised, DecisionRaised
  <2>3. ob' = [ob EXCEPT !.completion.inputs = StillMissing] =>
            ob'["completion"].state = ob["completion"].state
    BY <1>1 DEF Obligation
  <2> QED BY <2>1, <2>2, <2>3 DEF DecisionRaised, Satisfied, IsOpen
<1>4. ASSUME Satisfied("completion")' => Satisfied("completion"),
             gate' = gate \/ gate'.state = "complete"
      PROVE  DecisionRaised'
  BY <1>4 DEF DecisionRaised
<1>5. Submit \/ (\E w \in Workers : ReconcileCompletions(w)) \/ gate' = gate \/ gate'.state = "complete"
  <2>1. CASE Environment
    BY <1>1, <2>1
       DEF Environment, AuthorOffer, AcceptTerms, Approve, ConfirmTerms, AbortDeny, ConfirmTerm,
           SupplyFact, BeginDeny, StaffGenerate, StaffSend, SignerSubmit, CompanySign, WindowEnds,
           Dispatch, Interrupt
  <2>2. ASSUME NEW w \in Workers, Sweep(w) PROVE ReconcileCompletions(w) \/ gate' = gate
    BY <2>2 DEF Sweep, ClaimHandoff, PassHandoff, PreparePackage, RefusePackage, CloseNotOwed,
                Dispatch, CloseHandoff, StartClock, ReconcileSignatures, ReadClock, Lapse
  <2> QED BY <1>1, <2>1, <2>2 DEF Next, CommitDeny, BreakDeadlock, vars
<1> QED BY <1>2, <1>3, <1>4, <1>5, SettledBy

\* When an application is complete, the decision its approver has open is a
\* live one, unless the conversion rail spawned the gate.
THEOREM CompletionRaisesDecision == ASSUME ~ConversionBacked PROVE Spec => []DecisionRaised
<1>1. Init => DecisionRaised
  BY DEF Init, DecisionRaised
<1> QED BY <1>1, DecisionStep, InductiveInvariant, PTL DEF Spec

-----------------------------------------------------------------------------
(* Delivery, where every package is a governing one.                        *)

\* No package is handed in as a mere review packet, so no sweep finds its
\* delivery never owed, and a handoff is closed as done by a delivery only.
ReviewInv ==
    /\ \A v \in Versions : packet[v].st # "submitted"
    /\ \A w \in Workers : worker[w].pc # "not_owed"
DeliveredOnce == Satisfied("handoff") => Reached

\* The steps after which a sweep stands elsewhere in the delivery.
LEMMA SweepMoves ==
    ASSUME Inductive, [Next]_vars, NEW w \in Workers
    PROVE  \/ worker'[w] = worker[w]
           \/ worker'[w].pc \notin {"not_owed", "dispatch", "close", "clock"}
           \/ PreparePackage(w) \/ RefusePackage(w) \/ CloseHandoff(w)
           \/ \E s \in Signers, taken \in BOOLEAN : Dispatch(w, s, taken)
<1> USE DEF Inductive
<1> DEFINE Out == {"not_owed", "dispatch", "close", "clock"}
           Goal == worker'[w] = worker[w] \/ worker'[w].pc \notin Out
<1>1. worker \in [Workers -> Worker]  BY DEF TypeOK
<1>2. ASSUME NEW u \in Workers, NEW phase \in Phases \ Out, MoveTo(u, phase) PROVE Goal
  BY <1>1, <1>2 DEF MoveTo, AtRest
<1>3. ASSUME NEW u \in Workers, u # w, Sweep(u) PROVE Goal
  BY <1>1, <1>3 DEF Sweep, ReconcileCompletions, ClaimHandoff, PassHandoff, PreparePackage,
              RefusePackage, CloseNotOwed, Dispatch, CloseHandoff, StartClock, ReconcileSignatures,
              ReadClock, Lapse, MoveTo
<1>4. ASSUME ClaimHandoff(w) PROVE Goal
  BY <1>1, <1>4 DEF ClaimHandoff, AtRest
<1>5. ASSUME ReadClock(w) PROVE Goal
  <2> DEFINE type == ClockOf(worker[w].pc)
  <2>1. \/ worker' = [worker EXCEPT ![w] = [AtRest EXCEPT !.pc = LapsePhase(type), !.seen = status]]
        \/ worker' = [worker EXCEPT ![w] = [AtRest EXCEPT !.pc = AfterClock(type)]]
    BY <1>5, Zenon DEF ReadClock, MoveTo
  <2> HIDE DEF type
  <2>2. worker'[w].pc \in {LapsePhase(type), AfterClock(type)}
    BY <1>1, <2>1 DEF AtRest
  <2> QED BY <2>2 DEF LapsePhase, AfterClock
<1>6. ASSUME ReconcileCompletions(w) \/ PassHandoff(w) \/ CloseNotOwed(w) \/ StartClock(w)
             \/ ReconcileSignatures(w) \/ Lapse(w)
      PROVE  Goal
  BY <1>2, <1>6 DEF ReconcileCompletions, PassHandoff, CloseNotOwed, StartClock,
                    ReconcileSignatures, Lapse, AfterClock, Phases
<1>7. ASSUME NEW u \in Workers, NEW s \in Signers, Dispatch(u, s, FALSE)
      PROVE  Goal \/ Dispatch(w, s, FALSE)
  <2>1. CASE u = w
    BY <1>7, <2>1
  <2>2. CASE u # w
    BY <1>1, <1>7, <2>2 DEF Dispatch, MoveTo
  <2> QED BY <2>1, <2>2
<1>8. ASSUME NEW u \in Workers, Interrupt(u) \/ BreakDeadlock(u) PROVE Goal
  <2>1. \/ worker' = worker
        \/ \E phase \in AbandonPhases : MoveTo(u, phase)
    BY <1>8, AbandonMoves DEF Interrupt, BreakDeadlock, AbandonPhases
  <2> QED BY <1>2, <2>1 DEF AbandonPhases, Phases
<1>9. CASE Environment
  <2>1. ASSUME worker' = worker PROVE Goal
    BY <2>1
  <2> QED BY <1>7, <1>8, <1>9, <2>1
          DEF Environment, Submit, AuthorOffer, AcceptTerms, Approve, ConfirmTerms, AbortDeny,
              ConfirmTerm, SupplyFact, BeginDeny, StaffGenerate, StaffSend, SignerSubmit,
              CompanySign, WindowEnds
<1> QED BY <1>3, <1>4, <1>5, <1>6, <1>8, <1>9 DEF Next, Sweep, CommitDeny, vars

\* A claimed handoff is an open one, its application has not ended, and its
\* newest version is not a review packet: a refusal leaves it owed.
LEMMA ReviewStep ==
    ASSUME Governing, Inductive, ReviewInv, [Next]_vars
    PROVE  ReviewInv'
<1> USE DEF Inductive
<1>1. packet \in [Versions -> Package] /\ worker \in [Workers -> Worker]  BY DEF TypeOK
<1>2. ASSUME NEW v \in Versions PROVE packet'[v].st # "submitted"
  <2>1. ASSUME NEW st \in {"draft", "sent"}, Generate(st) PROVE packet'[v].st # "submitted"
    <3> DEFINE n == NextVersion
    <3>1. packet'[n].st = st /\ \A u \in Versions \ {n} : packet'[u].st = packet[u].st
      BY <2>1, GenerateEffect DEF Absent
    <3> HIDE DEF n
    <3> QED BY <3>1 DEF ReviewInv
  <2>2. ASSUME NEW u \in Versions, NEW s \in Signers, SignerSubmit(u, s)
        PROVE  packet'[v].st # "submitted"
    BY <1>1, <2>2 DEF SignerSubmit, AfterSignature, ReviewInv, Package
  <2>3. ASSUME NEW u \in Versions, NEW outcome, CompanySign(u, outcome)
        PROVE  packet'[v].st # "submitted"
    BY <1>1, <2>3 DEF CompanySign, ReviewInv, Package
  <2>4. ASSUME NEW w \in Workers, NEW s \in Signers, NEW taken \in BOOLEAN, Dispatch(w, s, taken)
        PROVE  packet'[v].st # "submitted"
    BY <1>1, <2>4 DEF Dispatch, ReviewInv, Package
  <2>5. CASE StaffSend
    BY <1>1, <2>5 DEF StaffSend, ReviewInv, Package
  <2>6. CASE UNCHANGED <<packet, made>>
    BY <2>6 DEF ReviewInv
  <2> QED BY <2>1, <2>2, <2>3, <2>4, <2>5, <2>6, PackageChanges DEF StaffGenerate, PreparePackage
<1>3. ASSUME NEW w \in Workers PROVE worker'[w].pc # "not_owed"
  <2>1. CASE worker'[w] = worker[w]
    BY <2>1 DEF ReviewInv
  <2>2. CASE PreparePackage(w)
    BY <1>1, <2>2 DEF PreparePackage, AtRest
  <2>3. CASE RefusePackage(w)
    <3>1. IsOpen("handoff")  BY <2>3 DEF RefusePackage, At, ClaimInv, HandoffLocked
    <3>2. made > 0 => made \in Versions  BY DEF TypeOK, Versions
    <3>3. ~NeverOwed  BY <3>1, <3>2 DEF EndedOwesNoDelivery, NeverOwed, ReviewInv
    <3>4. worker' = [worker EXCEPT ![w] = [AtRest EXCEPT !.pc = "signatures"]]
      BY <2>3, <3>3 DEF RefusePackage, MoveTo
    <3> QED BY <1>1, <3>4 DEF AtRest
  <2>4. CASE CloseHandoff(w)
    BY <1>1, <2>4 DEF CloseHandoff, MoveTo, AtRest
  <2>5. ASSUME NEW s \in Signers, NEW taken \in BOOLEAN, Dispatch(w, s, taken)
        PROVE  worker'[w].pc # "not_owed"
    <3>1. worker[w] \in Worker /\ worker[w].pc = "dispatch"  BY <1>1, <2>5 DEF Dispatch, At
    <3>2. worker'[w].pc \in {"dispatch", "close", "signatures"}
      BY <1>1, <2>5, <3>1 DEF Dispatch, MoveTo, AtRest, Worker
    <3> QED BY <3>2
  <2> QED BY <2>1, <2>2, <2>3, <2>4, <2>5, SweepMoves
<1> QED BY <1>2, <1>3 DEF ReviewInv

\* Governing packages are never closed as review packets.
LEMMA ReviewInvariant == ASSUME Governing PROVE Spec => []ReviewInv
<1>1. Init => ReviewInv
  BY DEF Init, ReviewInv, AtRest, Absent
<1> QED BY <1>1, ReviewStep, InductiveInvariant, PTL DEF Spec

\* However many processes sweep and whatever the staff prepare, a handoff
\* closed as done means that some version reached every signer.
THEOREM ClosingFollowsDelivery == ASSUME Governing PROVE Spec => []DeliveredOnce
<1>1. Init => DeliveredOnce
  BY DEF Init, DeliveredOnce, Satisfied, Released, NoObligation
<1>2. ASSUME Inductive, ReviewInv, DeliveredOnce, [Next]_vars PROVE DeliveredOnce'
  <2>1. Reached => Reached'  BY <1>2, ReachedStays DEF Inductive
  <2>2. ASSUME NEW w \in Workers, StartClock(w) PROVE Reached
    BY <1>2, <2>2 DEF StartClock, At, Inductive, DispatchInv, Reached
  <2>3. \A w \in Workers : ~CloseNotOwed(w)
    BY <1>2 DEF CloseNotOwed, At, ReviewInv
  <2> QED BY <1>2, <2>1, <2>2, <2>3, SettledBy DEF DeliveredOnce
<1> QED BY <1>1, <1>2, InductiveInvariant, ReviewInvariant, PTL DEF Spec

-----------------------------------------------------------------------------
(* Delivery by one process, the staff leaving the packages to it.           *)

OneProcess == \A w1, w2 \in Workers : w1 = w2

\* What a sweep carries from one of its transactions to the next is about the
\* newest version.
ReachedNewest == made > 0 /\ packet[made].accepted = Signers
DeliveryPart(w) ==
    /\ worker[w].pc = "dispatch" => worker[w].version = made
    /\ worker[w].pc \in {"close", "clock"} => ReachedNewest
DeliveryInv == (\A w \in Workers : DeliveryPart(w)) /\ DeliveredBeforeClosed

\* Nothing but the preparation of a new version takes the newest one's reach.
LEMMA NewestStays ==
    ASSUME Inductive, Inductive', [Next]_vars, ~StaffPackages, ReachedNewest,
           \A w \in Workers : ~PreparePackage(w)
    PROVE  ReachedNewest'
<1> USE DEF Inductive
<1>1. made' = made
  BY PackageChanges DEF StaffGenerate, StaffSend, SignerSubmit, CompanySign, Dispatch
<1>2. made \in Versions  BY DEF ReachedNewest, TypeOK, Versions
<1>3. packet'[made].accepted \in SUBSET Signers  BY <1>2 DEF TypeOK, Package
<1> QED BY <1>1, <1>2, <1>3, PackagesGrow DEF ReachedNewest

\* A preparation starts while the handoff is open, by the only sweep there is.
LEMMA DeliveryStep ==
    ASSUME OneProcess, ~StaffPackages, Inductive, Inductive', ReviewInv, ReviewInv',
           DeliveryInv, [Next]_vars
    PROVE  DeliveryInv'
<1> USE DEF Inductive
<1>1. packet \in [Versions -> Package] /\ worker \in [Workers -> Worker]  BY DEF TypeOK
<1>2. ASSUME NEW w \in Workers, PreparePackage(w) PROVE DeliveryInv'
  <2>1. /\ worker[w].pc = "prepare" /\ Generate("sent")
        /\ worker' = [worker EXCEPT ![w] = [AtRest EXCEPT !.pc = "dispatch", !.version = NextVersion]]
        /\ ob' = ob
    BY <1>2 DEF PreparePackage, At
  <2>2. made' = NextVersion  BY <2>1 DEF Generate
  <2>3. \A u \in Workers : DeliveryPart(u)'
    <3>1. \A u \in Workers : worker'[u].pc = "dispatch" /\ worker'[u].version = NextVersion
      BY <1>1, <2>1 DEF OneProcess, AtRest
    <3> QED BY <2>2, <3>1 DEF DeliveryPart
  <2>4. ~Satisfied("handoff")'
    BY <2>1 DEF ClaimInv, HandoffLocked, IsOpen, Satisfied
  <2> QED BY <2>3, <2>4 DEF DeliveryInv, DeliveredBeforeClosed
<1>3. ASSUME \A w \in Workers : ~PreparePackage(w) PROVE DeliveryInv'
  <2>1. ReachedNewest => ReachedNewest'  BY <1>3, NewestStays
  <2>2. made' = made
    BY <1>3, PackageChanges DEF StaffGenerate, StaffSend, SignerSubmit, CompanySign, Dispatch
  <2>3. ASSUME NEW w \in Workers PROVE DeliveryPart(w)'
    <3>1. DeliveryPart(w)  BY DEF DeliveryInv
    <3>2. CASE worker'[w] = worker[w]
      BY <2>1, <2>2, <3>1, <3>2 DEF DeliveryPart
    <3>3. CASE worker'[w].pc \notin {"not_owed", "dispatch", "close", "clock"}
      BY <3>3 DEF DeliveryPart
    <3>4. CASE RefusePackage(w)
      <4>1. worker'[w].pc \in {"not_owed", "signatures"}
        BY <1>1, <3>4 DEF RefusePackage, MoveTo, AtRest
      <4> QED BY <4>1 DEF ReviewInv, DeliveryPart
    <3>5. CASE CloseHandoff(w)
      BY <1>1, <2>1, <3>1, <3>5 DEF CloseHandoff, At, MoveTo, AtRest, DeliveryPart
    <3>6. ASSUME NEW s \in Signers, NEW taken \in BOOLEAN, Dispatch(w, s, taken)
          PROVE  DeliveryPart(w)'
      <4> DEFINE ok == worker[w].ok \union (IF taken THEN {s} ELSE {})
      <4>1. /\ worker[w].version = made /\ made \in Versions
            /\ worker[w].ok \subseteq packet[made].accepted /\ worker[w] \in Worker
        BY <1>1, <3>1, <3>6 DEF Dispatch, At, DeliveryPart, DispatchInv
      <4>2. ok \subseteq packet'[made].accepted /\ packet'[made].accepted \in SUBSET Signers
        BY <1>1, <3>6, <4>1 DEF Dispatch, Package
      <4>3. \/ worker'[w] = [worker[w] EXCEPT !.tried = @ \union {s}, !.ok = ok]
            \/ worker'[w] = [AtRest EXCEPT !.pc = "close"] /\ ok = Signers
            \/ worker'[w] = [AtRest EXCEPT !.pc = "signatures"]
        BY <1>1, <3>6 DEF Dispatch, Delivered, MoveTo
      <4>4. CASE worker'[w] = [worker[w] EXCEPT !.tried = @ \union {s}, !.ok = ok]
        <5>1. worker'[w].pc = "dispatch" /\ worker'[w].version = made
          BY <3>6, <4>1, <4>4 DEF Worker, Dispatch, At
        <5> QED BY <2>2, <5>1 DEF DeliveryPart
      <4>5. CASE worker'[w] = [AtRest EXCEPT !.pc = "close"] /\ ok = Signers
        <5>1. made > 0  BY <4>1 DEF Versions
        <5>2. ReachedNewest'  BY <2>2, <4>2, <4>5, <5>1 DEF ReachedNewest
        <5> QED BY <4>5, <5>2 DEF DeliveryPart, AtRest
      <4> QED BY <3>3, <4>3, <4>4, <4>5 DEF AtRest
    <3> QED BY <1>3, <3>2, <3>3, <3>4, <3>5, <3>6, SweepMoves
  <2>4. DeliveredBeforeClosed'
    <3>1. ASSUME NEW w \in Workers, StartClock(w) PROVE ReachedNewest
      BY <3>1 DEF StartClock, At, DeliveryInv, DeliveryPart
    <3>2. \A w \in Workers : ~CloseNotOwed(w)
      BY DEF CloseNotOwed, At, ReviewInv
    <3>3. Satisfied("handoff")' => ReachedNewest
      BY <3>1, <3>2, SettledBy DEF DeliveryInv, DeliveredBeforeClosed, ReachedNewest
    <3> QED BY <2>1, <3>3 DEF DeliveredBeforeClosed, ReachedNewest
  <2> QED BY <2>3, <2>4 DEF DeliveryInv
<1> QED BY <1>2, <1>3

\* With one process sweeping, governing packages and no staff package, a
\* handoff closed as done means the package in force reached every signer.
THEOREM DeliveryPrecedesClosing ==
    ASSUME OneProcess, Governing, ~StaffPackages
    PROVE  Spec => []DeliveredBeforeClosed
<1>1. Init => DeliveryInv
  BY DEF Init, DeliveryInv, DeliveryPart, DeliveredBeforeClosed, Satisfied, Released, NoObligation,
         AtRest, Absent
<1>2. /\ Inductive /\ Inductive' /\ ReviewInv /\ ReviewInv' /\ DeliveryInv /\ [Next]_vars
      => DeliveryInv'
  BY DeliveryStep
<1>3. DeliveryInv => DeliveredBeforeClosed
  BY DEF DeliveryInv
<1> QED BY <1>1, <1>2, <1>3, InductiveInvariant, ReviewInvariant, PTL DEF Spec
=============================================================================
