----------------------- MODULE LeaseHandoffRefinement -----------------------
(***************************************************************************)
(* LeaseHandoff implements HandoffContract, and what the contract gives:   *)
(* an obligation that was settled is never reopened or settled otherwise.  *)
(***************************************************************************)
EXTENDS LeaseHandoffProofs

\* The contract sees an obligation's state and code and nothing else of it.
LEMMA StageOf ==
    ASSUME NEW o \in Obligation
    PROVE  /\ o.state = "none" => Stage(o) = "none"
           /\ o.state = "open" => Stage(o) = "owed"
           /\ o.state = "complete" /\ o.code = "none" => Stage(o) = "done"
           /\ o.state = "complete" /\ o.code = "revoked" => Stage(o) = "called_off"
           /\ o.state = "complete" /\ o.code = "expired" => Stage(o) = "lapsed"
BY DEF Stage

\* The same, read from the stage back to the obligation.
LEMMA StageBack ==
    ASSUME NEW o \in Obligation
    PROVE  /\ Stage(o) = "none" <=> o.state = "none"
           /\ Stage(o) = "owed" <=> o.state = "open"
           /\ Stage(o) = "done" <=> o.state = "complete" /\ o.code = "none"
           /\ Stage(o) = "called_off" <=> o.state = "complete" /\ o.code = "revoked"
           /\ Stage(o) = "lapsed" <=> o.state = "complete" /\ o.code = "expired"
<1>1. o.state \in {"none", "open", "complete"} /\ o.code \in {"none", "expired", "revoked"}
  BY DEF Obligation
<1> QED BY <1>1, StageOf

\* A step that leaves every obligation's state and code, and whether the
\* application has ended, is invisible to the contract.
LEMMA Stutter ==
    ASSUME TypeOK, TypeOK',
           \A t \in Released : ob'[t].state = ob[t].state /\ ob'[t].code = ob[t].code,
           status' \in Terminal <=> status \in Terminal
    PROVE  UNCHANGED Contract!contract
<1>1. \A t \in Released : ob[t] \in Obligation /\ ob'[t] \in Obligation  BY DEF TypeOK
<1>2. \A t \in Released : Stage(ob'[t]) = Stage(ob[t])
  <2> SUFFICES ASSUME NEW t \in Released PROVE Stage(ob'[t]) = Stage(ob[t])
    OBVIOUS
  <2>1. /\ ob[t].state \in {"none", "open", "complete"}
        /\ ob[t].code \in {"none", "expired", "revoked"}
    BY <1>1 DEF Obligation
  <2> QED BY <1>1, <2>1, StageOf
<1>3. Stage(ob.completion)' = Stage(ob'["completion"]) /\ Stage(ob.handoff)' = Stage(ob'["handoff"])
      /\ Stage(ob.signing)' = Stage(ob'["signing"])
  BY DEF Stage
<1> QED BY <1>2, <1>3 DEF Contract!contract, Released

\* The step simulation: each transaction is one step of the contract.
LEMMA Simulation == Inductive /\ Inductive' /\ [Next]_vars => [Contract!Next]_(Contract!contract)
<1> SUFFICES ASSUME Inductive, Inductive', [Next]_vars PROVE [Contract!Next]_(Contract!contract)
  OBVIOUS
<1> USE DEF Inductive
<1> DEFINE c == ob["completion"]
           h == ob["handoff"]
           s == ob["signing"]
<1>1. /\ ob \in [Released -> Obligation] /\ ob' \in [Released -> Obligation]
      /\ {"completion", "handoff", "signing"} = Released
      /\ c \in Obligation /\ h \in Obligation /\ s \in Obligation
      /\ c' \in Obligation /\ h' \in Obligation /\ s' \in Obligation
  BY DEF TypeOK, Released
<1>2. ASSUME ob' = ob, status' \in Terminal <=> status \in Terminal
      PROVE  UNCHANGED Contract!contract
  BY <1>2, Stutter
<1>3. CASE Submit
  <2>1. c.state = "none" /\ h.state = "none" /\ s.state = "none" /\ status \notin Terminal
        /\ status' \notin Terminal
    BY <1>1, <1>3 DEF Submit, CompletionInv, Terminal
  <2> DEFINE owed == [ob EXCEPT !.completion = Spawned(missing)]
  <2>2. owed \in [Released -> Obligation] /\ owed["completion"].state = "open"
        /\ owed["handoff"] = h /\ owed["signing"] = s
    BY <1>1, ObligationTypes DEF TypeOK, Spawned, NoObligation
  <2>3. ob' = owed \/ ob' = Completed(owed)
    BY <1>3, Zenon DEF Submit
  <2>4. /\ s' = s
        /\ \/ c'.state = "open" /\ h' = h
           \/ c'.state = "complete" /\ c'.code = "none" /\ h'.state = "open"
    <3> HIDE DEF owed
    <3> QED BY <1>1, <2>2, <2>3, CompletedEffect
  <2>5. Contract!Arrive
    <3>1. Stage(c) = "none"  BY <1>1, <2>1, StageOf
    <3>2. \/ Stage(c') = "owed" /\ Stage(h') = Stage(h)
          \/ Stage(c') = "done" /\ Stage(h') = "owed"
      BY <1>1, <2>4, StageOf
    <3>3. Stage(s') = Stage(s)  BY <2>4
    <3> QED BY <2>1, <3>1, <3>2, <3>3 DEF Contract!Arrive
  <2> QED BY <2>5 DEF Contract!Next
<1>4. ASSUME NEW w \in Workers, ReconcileCompletions(w) PROVE [Contract!Next]_(Contract!contract)
  <2>1. status' = status  BY <1>4 DEF ReconcileCompletions, application
  <2>2. CASE ob' = ob
    BY <1>2, <2>1, <2>2
  <2>3. CASE ob' = [ob EXCEPT !.completion.inputs = StillMissing]
    <3>1. \A t \in Released : ob'[t].state = ob[t].state /\ ob'[t].code = ob[t].code
      BY <1>1, <2>3 DEF Obligation
    <3> QED BY <2>1, <3>1, Stutter
  <2>4. CASE IsOpen("completion") /\ ob' = Completed(ob)
    <3>1. c.state = "open" /\ status \notin Terminal
      BY <2>4 DEF IsOpen, EndedOwesNoDelivery
    <3>2. c'.state = "complete" /\ c'.code = "none" /\ h'.state = "open" /\ s' = s
      BY <1>1, <2>4, CompletedEffect
    <3>3. Stage(c) = "owed" /\ Stage(c') = "done" /\ Stage(h') = "owed" /\ Stage(s') = Stage(s)
      BY <1>1, <3>1, <3>2, StageOf
    <3> QED BY <2>1, <3>1, <3>3 DEF Contract!Next, Contract!Complete
  <2> QED BY <1>4, <2>2, <2>3, <2>4, Zenon DEF ReconcileCompletions
<1>5. ASSUME h.state = "open", h'.state = "complete", h'.code = "none", c' = c, status' = status,
             s' = s \/ (s.state = "none" /\ s'.state = "open")
      PROVE  Contract!Next
  <2>1. status \notin Terminal  BY <1>5 DEF EndedOwesNoDelivery, IsOpen
  <2>2. s.state = "none"  BY <1>5 DEF ClockFollowsDelivery, Satisfied
  <2>3. Stage(h) = "owed" /\ Stage(h') = "done" /\ Stage(c') = Stage(c) /\ Stage(s) = "none"
        /\ Stage(s') \in {Stage(s), "owed"}
    BY <1>1, <1>5, <2>2, StageOf
  <2> QED BY <1>5, <2>1, <2>3 DEF Contract!Next, Contract!Deliver
<1>6. ASSUME NEW w \in Workers, CloseNotOwed(w) PROVE [Contract!Next]_(Contract!contract)
  <2>1. status' = status  BY <1>6 DEF CloseNotOwed, application
  <2>2. CASE ob' = ob
    BY <1>2, <2>1, <2>2
  <2>3. CASE IsOpen("handoff") /\ ob' = [ob EXCEPT !.handoff = Closed(@, "none")]
    BY <1>1, <1>5, <2>1, <2>3, ZenonT(60) DEF Closed, Obligation, IsOpen
  <2> QED BY <1>6, <2>2, <2>3 DEF CloseNotOwed
<1>7. ASSUME NEW w \in Workers, StartClock(w) PROVE [Contract!Next]_(Contract!contract)
  <2>1. status' = status /\ h.state = "open"
    BY <1>7 DEF StartClock, At, ClaimInv, HandoffLocked, IsOpen, application
  <2>2. h'.state = "complete" /\ h'.code = "none" /\ c' = c
        /\ (s' = s \/ (s.state = "none" /\ s'.state = "open"))
    BY <1>1, <1>7, ZenonT(60) DEF StartClock, Closed, Spawned, NoObligation, Obligation
  <2> QED BY <1>5, <2>1, <2>2
<1>8. ASSUME NEW w \in Workers, ReconcileSignatures(w) PROVE [Contract!Next]_(Contract!contract)
  <2> DEFINE left == s.inputs \intersect Outstanding
  <2>1. status' = status  BY <1>8 DEF ReconcileSignatures, application
  <2>2. \/ ob' = ob
        \/ ob' = [ob EXCEPT !.signing.inputs = left]
        \/ IsOpen("signing") /\ ob' = [ob EXCEPT !.signing = Closed([s EXCEPT !.inputs = {}], "none")]
    BY <1>8, Zenon DEF ReconcileSignatures
  <2>3. CASE ob' = [ob EXCEPT !.signing.inputs = left]
    <3>1. \A t \in Released : ob'[t].state = ob[t].state /\ ob'[t].code = ob[t].code
      BY <1>1, <2>3 DEF Obligation
    <3> QED BY <2>1, <3>1, Stutter
  <2>4. CASE IsOpen("signing") /\ ob' = [ob EXCEPT !.signing = Closed([s EXCEPT !.inputs = {}], "none")]
    <3>1. s.state = "open" /\ s'.state = "complete" /\ s'.code = "none" /\ c' = c /\ h' = h
      BY <1>1, <2>4, ZenonT(60) DEF IsOpen, Closed, Obligation
    <3>2. Stage(s) = "owed" /\ Stage(s') = "done" /\ Stage(c') = Stage(c) /\ Stage(h') = Stage(h)
      BY <1>1, <3>1, StageOf
    <3> QED BY <2>1, <3>2 DEF Contract!Next, Contract!Sign
  <2> QED BY <1>2, <2>1, <2>2, <2>3, <2>4
<1>9. CASE CommitDeny
  <2>1. /\ ob' = Release(ob, deny.found) /\ status' \in Terminal
        /\ c.state = "open" => "completion" \in deny.found
        /\ h.state = "open" => "handoff" \in deny.found
    BY <1>9 DEF CommitDeny, DenyInv, TypeOK, Denial, IsOpen
  <2>2. \A t \in Released :
          /\ ob[t].state # "open" => ob'[t] = ob[t]
          /\ ob[t].state = "open" =>
                ob'[t] = ob[t] \/ (ob'[t].state = "complete" /\ ob'[t].code = "revoked")
          /\ ob[t].state = "open" /\ t \in deny.found =>
                ob'[t].state = "complete" /\ ob'[t].code = "revoked"
    BY <1>1, <2>1, ReleaseEffect
  <2>3. /\ Stage(c') = Contract!CalledOff(Stage(c))
        /\ Stage(h') = Contract!CalledOff(Stage(h))
        /\ Stage(s') \in {Stage(s), Contract!CalledOff(Stage(s))}
    BY <1>1, <2>1, <2>2, StageOf, StageBack DEF Contract!CalledOff
  <2> QED BY <2>1, <2>3 DEF Contract!Next, Contract!End
<1>10. ASSUME NEW w \in Workers, Lapse(w) PROVE [Contract!Next]_(Contract!contract)
  <2> DEFINE type == ClockOf(worker[w].pc)
             expired == [ob EXCEPT ![type] = Closed(@, "expired")]
  <2>1. CASE UNCHANGED <<status, ob>>
    BY <1>2, <2>1
  <2>2. type \in {"completion", "signing"}  BY DEF ClockOf
  <2>3. expired \in [Released -> Obligation]
    BY <1>1, ObligationTypes DEF TypeOK
  <2>4. /\ \A t \in Released \ {type} : expired[t] = ob[t]
        /\ expired[type].state = "complete" /\ expired[type].code = "expired"
    BY <1>1, <2>2 DEF Closed, Obligation
  <2>5. ASSUME IsOpen(type), status' \in Terminal,
               ob'[type].state = "complete" /\ ob'[type].code = "expired",
               \A t \in Released \ {type} :
                  /\ ob[t].state # "open" => ob'[t] = ob[t]
                  /\ ob[t].state = "open" => ob'[t].state = "complete" /\ ob'[t].code = "revoked"
        PROVE  Contract!Next
    <3> HIDE DEF type
    <3>1. CASE type = "completion"
      <4>1. /\ Stage(c) = "owed" /\ Stage(c') = "lapsed"
            /\ Stage(h') = Contract!CalledOff(Stage(h)) /\ Stage(s') = Contract!CalledOff(Stage(s))
        BY <1>1, <2>5, <3>1, StageOf, StageBack DEF Contract!CalledOff, IsOpen
      <4> QED BY <2>5, <4>1 DEF Contract!Next, Contract!LapseRequest
    <3>2. CASE type = "signing"
      <4>1. /\ Stage(s) = "owed" /\ Stage(s') = "lapsed"
            /\ Stage(c') = Contract!CalledOff(Stage(c)) /\ Stage(h') = Contract!CalledOff(Stage(h))
        BY <1>1, <2>5, <3>2, StageOf, StageBack DEF Contract!CalledOff, IsOpen
      <4> QED BY <2>5, <4>1 DEF Contract!Next, Contract!LapseClock
    <3> QED BY <2>2, <3>1, <3>2
  <2>6. CASE IsOpen(type) /\ worker[w].seen \in Terminal /\ ob' = expired /\ UNCHANGED status
    <3>1. status \in Terminal  BY <2>6 DEF StatusInv
    <3>2. \A t \in Released \ {type} : ob[t].state # "open"
      BY <1>1, <2>2, <2>6, <3>1 DEF EndedOwesNoDelivery, IsOpen, ClockFollowsDelivery, Satisfied
    <3> QED BY <2>4, <2>5, <2>6, <3>1, <3>2
  <2>7. CASE IsOpen(type) /\ status' = "expired" /\ ob' = Release(expired, Released)
    <3>1. status' \in Terminal  BY <2>7 DEF Terminal
    <3>2. ob'[type] = expired[type]
      <4> HIDE DEF expired, type
      <4> QED BY <1>1, <2>2, <2>3, <2>4, <2>7, ReleaseEffect
    <3>3. \A t \in Released \ {type} :
                  /\ ob[t].state # "open" => ob'[t] = ob[t]
                  /\ ob[t].state = "open" => ob'[t].state = "complete" /\ ob'[t].code = "revoked"
      <4> HIDE DEF expired, type
      <4> QED BY <1>1, <2>3, <2>4, <2>7, ReleaseEffect
    <3> QED BY <2>4, <2>5, <2>7, <3>1, <3>2, <3>3
  <2> QED BY <1>10, <2>1, <2>6, <2>7, Zenon DEF Lapse
<1>11. CASE Environment
  <2>1. CASE Approve \/ ConfirmTerm
    BY <1>2, <2>1 DEF Approve, ConfirmTerm, Terminal
  <2>2. ASSUME NEW v \in Versions, NEW outcome \in {"active", "accepted_term_required", "lease_ready"},
               CompanySign(v, outcome)
        PROVE  UNCHANGED Contract!contract
    BY <1>2, <2>2 DEF CompanySign, Terminal
  <2>3. ASSUME NEW k \in {"completion", "signing"}, WindowEnds(k) PROVE UNCHANGED Contract!contract
    <3>1. \A t \in Released : ob'[t].state = ob[t].state /\ ob'[t].code = ob[t].code
      BY <1>1, <2>3 DEF WindowEnds, Obligation
    <3> QED BY <2>3, <3>1, Stutter DEF WindowEnds, application
  <2>4. CASE UNCHANGED <<ob, status>>
    BY <1>2, <2>4
  <2> QED BY <1>3, <1>11, <2>1, <2>2, <2>3, <2>4
          DEF Environment, AuthorOffer, AcceptTerms, ConfirmTerms, AbortDeny, SupplyFact, BeginDeny,
              StaffGenerate, StaffSend, SignerSubmit, Dispatch, Interrupt, application
<1>12. ASSUME NEW w \in Workers, Sweep(w) PROVE [Contract!Next]_(Contract!contract)
  <2>1. CASE UNCHANGED <<ob, status>>
    BY <1>2, <2>1
  <2> QED BY <1>4, <1>6, <1>7, <1>8, <1>10, <1>12, <2>1
          DEF Sweep, ClaimHandoff, PassHandoff, PreparePackage, RefusePackage, Dispatch,
              CloseHandoff, ReadClock, application
<1> QED BY <1>2, <1>9, <1>11, <1>12 DEF Next, BreakDeadlock, vars, application

\* The sweeps, routes and signers implement the contract.
THEOREM ContractImplemented == Spec => ImplementsContract
<1>1. Init => Contract!Init
  <2> SUFFICES ASSUME Init PROVE Contract!Init
    OBVIOUS
  <2>1. \A t \in Released : ob[t] = NoObligation  BY DEF Init
  <2>2. Stage(NoObligation) = "none"  BY DEF Stage, NoObligation
  <2> QED BY <2>1, <2>2 DEF Init, Contract!Init, Released, Terminal
<1> QED BY <1>1, Simulation, InductiveInvariant, PTL DEF Spec, ImplementsContract, Contract!Spec

-----------------------------------------------------------------------------
\* A settled obligation keeps its settlement: the contract's stages only move
\* forward, and Inductive is what the contract's promise says of them.
THEOREM SettlementsAreFinal == Spec => SettledOnce
<1>1. Inductive /\ Inductive' /\ [Next]_vars => [KeepsSettlement]_vars
  <2> SUFFICES ASSUME Inductive, Inductive', [Next]_vars,
                      NEW t \in Released, ob[t].state = "complete"
               PROVE  ob'[t].state = "complete" /\ ob'[t].code = ob[t].code
    BY DEF KeepsSettlement
  <2> DEFINE c == Stage(ob["completion"])
             h == Stage(ob["handoff"])
             s == Stage(ob["signing"])
  <2>1. \A u \in Released : ob[u] \in Obligation /\ ob'[u] \in Obligation
    BY DEF Inductive, TypeOK
  <2>2. {"completion", "handoff", "signing"} = Released  BY DEF Released
  <2>3. h # "none" <=> c = "done"
    BY <2>1, <2>2, StageBack DEF Inductive, CompletionBoundary, Satisfied
  <2>4. s # "none" => h = "done"
    BY <2>1, <2>2, StageBack DEF Inductive, ClockFollowsDelivery, Satisfied
  <2>5. [Contract!Next]_(Contract!contract)  BY Simulation
  <2>6. \A x \in {"done", "called_off", "lapsed"} :
            (c = x => c' = x) /\ (h = x => h' = x) /\ (s = x => s' = x)
    BY <2>3, <2>4, <2>5
       DEF Contract!Next, Contract!contract, Contract!Arrive, Contract!Complete, Contract!Deliver,
           Contract!Sign, Contract!End, Contract!LapseRequest, Contract!LapseClock, Contract!CalledOff
  <2>7. ob[t].code \in {"none", "revoked", "expired"}  BY <2>1 DEF Obligation
  <2>8. Stage(ob[t]) \in {"done", "called_off", "lapsed"}
    BY <2>1, <2>7, StageBack
  <2>9. Stage(ob'[t]) = Stage(ob[t])
    <3>1. c' = Stage(ob'["completion"]) /\ h' = Stage(ob'["handoff"]) /\ s' = Stage(ob'["signing"])
      BY DEF Stage
    <3> QED BY <2>2, <2>6, <2>8, <3>1
  <2> QED BY <2>1, <2>7, <2>9, StageBack
<1> QED BY <1>1, InductiveInvariant, PTL DEF Spec, SettledOnce
=============================================================================
