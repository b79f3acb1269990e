------------------------ MODULE ApplicationLinkProofs ------------------------
(* The promises of the application link, for every number of links, tours and
   corrections. *)
EXTENDS ApplicationLinkProperties, TLAPS

USE LinkConstants

\* Lemmas.  What a link's dispatch says, and what each correction makes of a link.
LEMMA Decisive ==
    ASSUME NEW l \in LinkType
    PROVE  /\ Dispatch(l) = "no_attempt" <=> l.event = "none"
           /\ Dispatch(l) = "refused" <=> l.event = "refused"
           /\ Accepted(l) <=> l.event = "accepted"
           /\ Correctable(l) /\ l.status = "prepared" => l.event \in {"none", "refused"}
  BY DEF LinkType, Dispatch, Accepted, Correctable

\* What changes of a link is its status and the end of its send commitment; an open
\* commitment of a prepared link is never left open, and says "given up" only when
\* no refusal was stamped.
LEMMA Endings ==
    ASSUME NEW l \in LinkType, NEW e \in {Revoked(l), Expired(l)}
    PROVE  /\ e \in LinkType
           /\ e.event = l.event /\ e.source = l.source /\ e.parent = l.parent
           /\ e.status \in {"revoked", "expired"}
           /\ l.status # "prepared" \/ l.child # "open" => e.child = l.child
           /\ l.status = "prepared" /\ l.child = "open" =>
                 IF l.event = "refused" THEN e.child = "dispatch_refused"
                 ELSE e.child \in {"revoked", "expired"}
<1>1. \E s \in {"revoked", "expired"} :
          e = IF l.status = "prepared" THEN Ended(l, s, s) ELSE [l EXCEPT !.status = s]
  BY DEF Revoked, Expired
<1>2. PICK s \in {"revoked", "expired"} :
          e = IF l.status = "prepared" THEN Ended(l, s, s) ELSE [l EXCEPT !.status = s]
  BY <1>1
<1>3. CASE l.status # "prepared"
  BY <1>2, <1>3 DEF LinkType, Active, Sent
<1>4. CASE l.status = "prepared"
  <2> DEFINE why == IF l.child # "open" THEN l.child
                    ELSE IF l.event = "refused" THEN "dispatch_refused" ELSE s
  <2>1. e = [l EXCEPT !.status = s, !.child = why]
    <3>1. CASE l.child # "open"  BY <1>2, <1>4, <3>1 DEF Ended, LinkType
    <3>2. CASE l.child = "open" /\ l.event = "refused"
      BY <1>2, <1>4, <3>2, Decisive DEF Ended, LinkType
    <3>3. CASE l.child = "open" /\ l.event # "refused"
      BY <1>2, <1>4, <3>3, Decisive DEF Ended, LinkType
    <3> QED  BY <3>1, <3>2, <3>3
  <2>2. why \in {"none", "open", "satisfied", "superseded", "revoked", "dispatch_refused", "expired"}
        /\ s \in {"revoked", "expired"}
    BY DEF LinkType
  <2>3. e \in LinkType /\ e.status = s /\ e.child = why /\ e.event = l.event
        /\ e.source = l.source /\ e.parent = l.parent
    <3> HIDE DEF why
    <3> QED  BY <2>1, <2>2 DEF LinkType
  <2> QED  BY <2>2, <2>3, <1>4
<1> QED  BY <1>3, <1>4

LEMMA LinkTypes ==
    /\ Unborn \in LinkType
    /\ \A p \in Tour, late \in BOOLEAN : Fresh(p, late) \in LinkType
    /\ \A l \in LinkType : Revoked(l) \in LinkType /\ Expired(l) \in LinkType
<1>1. Unborn \in LinkType  BY DEF LinkType, Unborn
<1>2. \A p \in Tour, late \in BOOLEAN : Fresh(p, late) \in LinkType
  BY <1>1 DEF LinkType, Fresh, Unborn, Active
<1>3. \A l \in LinkType : Revoked(l) \in LinkType /\ Expired(l) \in LinkType  BY Endings
<1> QED  BY <1>1, <1>2, <1>3

-----------------------------------------------------------------------------
(* Types. *)

LEMMA SentType ==
    ASSUME TypeOK, NEW i \in Inv, NEW source \in {"manual", "provider"},
           Recordable(i), RecordSent(i, source)
    PROVE  inv' \in [Inv -> LinkType] /\ rung' \in [Tour -> {"none", "open", "completed", "released", "missed"}]
           /\ advanced' \in BOOLEAN /\ active' \in BOOLEAN
  BY DEF TypeOK, Recordable, ParentOpen, RecordSent, LinkType, Active, Sent

LEMMA RailStepType == TypeOK /\ RailStep => TypeOK'
<1> SUFFICES ASSUME TypeOK, RailStep PROVE TypeOK'  OBVIOUS
<1> USE DEF TypeOK, wire, rail
<1>1. ASSUME NEW t \in Tour, GiveTour(t) \/ Reopen(t) PROVE TypeOK'
  BY <1>1 DEF GiveTour, Reopen
<1>2. ASSUME NEW t \in Tour, NEW outcome \in {"completed", "released", "missed"},
             NEW suppress \in BOOLEAN, Resolve(t, outcome, suppress)
      PROVE TypeOK'
  BY <1>2 DEF Resolve
<1>3. CASE RecordIntent  BY <1>3 DEF RecordIntent
<1> QED  BY <1>1, <1>2, <1>3 DEF RailStep

LEMMA LinkStepType == ASSUME TypeOK, NEW i \in Inv, LinkStep(i) PROVE TypeOK'
<1> USE DEF TypeOK, wire, rail
<1>0. inv[i] \in LinkType /\ inv[i].late \in BOOLEAN /\ inv[i].parent \in Tour \union {None}
  BY DEF LinkType
<1>1. ASSUME NEW sends \in BOOLEAN, Prepare(i, sends) PROVE TypeOK'
  BY <1>1, LinkTypes DEF Prepare
<1>2. ASSUME NEW j \in Inv, Regenerate(i, j) PROVE TypeOK'
  <2>1. [inv[i] EXCEPT !.status = "revoked", !.child = "superseded"] \in LinkType
    BY <1>0 DEF LinkType, Active, Sent
  <2>2. Fresh(inv[i].parent, inv[i].late) \in LinkType
    BY <1>0 DEF LinkType, Fresh, Unborn, Active, Sent
  <2> QED  BY <1>2, <2>1, <2>2 DEF Regenerate
<1>3. ASSUME NEW j \in Inv, NEW p \in Tour, Retry(i, j, p) PROVE TypeOK'
  BY <1>3 DEF Retry
<1>4. CASE Attest(i)  BY <1>4, SentType DEF Attest
<1>5. CASE Submit(i) \/ PassExpiry(i)
  <2>1. /\ [inv[i] EXCEPT !.status = "consumed"] \in LinkType
        /\ [inv[i] EXCEPT !.late = TRUE] \in LinkType
    BY <1>0 DEF LinkType
  <2> QED  BY <1>5, <2>1 DEF Submit, PassExpiry
<1> QED  BY <1>1, <1>2, <1>3, <1>4, <1>5 DEF LinkStep

LEMMA DispatchStepType == ASSUME TypeOK, NEW i \in Inv, DispatchStep(i) PROVE TypeOK'
<1> USE DEF TypeOK, wire, rail
<1>0. inv[i] \in LinkType  OBVIOUS
<1>1. \A e \in {"pending", "refused", "accepted"} : [inv[i] EXCEPT !.event = e] \in LinkType
  BY <1>0 DEF LinkType
<1>2. CASE Bind(i)  BY <1>1, <1>2 DEF Bind
<1>3. CASE Stamp(i)  BY <1>1, <1>3 DEF Stamp
<1>4. CASE RefuseDispatch(i)
  <2> DEFINE l == [inv[i] EXCEPT !.event = "refused"]
             new == IF l.status = "consumed" THEN inv[i]
                    ELSE IF Correctable(l) THEN Revoked(l) ELSE l
  <2>1. l \in LinkType /\ Revoked(l) \in LinkType  BY <1>1, LinkTypes
  <2>2. new \in LinkType  BY <1>0, <2>1
  <2> QED  BY <1>4, <2>2 DEF RefuseDispatch
<1>5. CASE RecordDispatch(i)  BY <1>5, SentType DEF RecordDispatch
<1>6. CASE Drop(i)  BY <1>6 DEF Drop
<1>7. ASSUME NEW taken \in BOOLEAN, NEW answered \in BOOLEAN, CallProvider(i, taken, answered)
      PROVE TypeOK'
  BY <1>7 DEF CallProvider
<1> QED  BY <1>2, <1>3, <1>4, <1>5, <1>6, <1>7 DEF DispatchStep

LEMMA CorrectionStepType == ASSUME TypeOK, NEW w \in Worker, CorrectionStep(w) PROVE TypeOK'
<1> USE DEF TypeOK, wire, rail
<1> DEFINE Tasks == [inv : Inv, act : {"revoke", "expire"}, at : {"record", "apply"}]
<1>0. task[w] \in Tasks \union {None}  OBVIOUS
<1>1. ASSUME NEW i \in Inv, NEW act \in {"revoke", "expire"}, BeginCorrection(w, i, act) PROVE TypeOK'
  BY <1>1 DEF BeginCorrection
<1>2. CASE RecordFirst(w)
  <2>1. task[w].inv \in Inv /\ [task[w] EXCEPT !.at = "apply"] \in Tasks
    BY <1>0, <1>2 DEF RecordFirst
  <2>2. task' \in [Worker -> Tasks \union {None}]
    BY <1>2, <2>1 DEF RecordFirst
  <2>3. /\ inv' \in [Inv -> LinkType] /\ advanced' \in BOOLEAN /\ active' \in BOOLEAN
        /\ rung' \in [Tour -> {"none", "open", "completed", "released", "missed"}]
    BY <1>2, <2>1, SentType DEF RecordFirst
  <2> QED  BY <1>2, <2>2, <2>3 DEF RecordFirst
<1>3. CASE Correct(w)
  <2> DEFINE i == task[w].inv
             new == IF ~Correctable(inv[i]) THEN inv[i]
                    ELSE IF task[w].act = "revoke" THEN Revoked(inv[i])
                    ELSE IF inv[i].late THEN Expired(inv[i]) ELSE inv[i]
  <2>1. i \in Inv  BY <1>0, <1>3 DEF Correct
  <2>2. new \in LinkType  BY <2>1, LinkTypes
  <2> QED  BY <1>3, <2>1, <2>2 DEF Correct
<1> QED  BY <1>1, <1>2, <1>3 DEF CorrectionStep

LEMMA NextType == TypeOK /\ [Next]_vars => TypeOK'
<1> SUFFICES ASSUME TypeOK, [Next]_vars PROVE TypeOK'  OBVIOUS
<1>1. CASE EnterOrEndApplication  BY <1>1 DEF EnterOrEndApplication, TypeOK, wire, rail
<1>2. CASE UNCHANGED vars  BY <1>2 DEF vars, TypeOK, wire, rail
<1> QED  BY <1>1, <1>2, RailStepType, LinkStepType, DispatchStepType, CorrectionStepType DEF Next

\* Every reachable record has the values the constraints allow.
THEOREM LinkTypeCorrect == Spec => []TypeOK
<1>1. Init => TypeOK  BY LinkTypes DEF Init, TypeOK
<1> QED  BY <1>1, NextType, PTL DEF Spec

-----------------------------------------------------------------------------
(* Evidence: what the record says of a text, against what the provider did. *)

\* Of one link: without a bound dispatch nothing was sent and nobody is past the
\* binding; given up as unsent means no bound dispatch; every trace of an
\* acceptance is of a text that was accepted.
Evidence(i) ==
    /\ inv[i].status = "none" => inv[i] = Unborn /\ call[i] = "none"
    /\ inv[i].status = "prepared" <=> inv[i].child = "open"
    /\ inv[i].event = "none" => i \notin texted /\ call[i] \notin {"bound", "accepted", "refused"}
    /\ inv[i].child \in GivenUp => inv[i].event = "none"
    /\ inv[i].event = "accepted" \/ call[i] = "accepted" \/ inv[i].source = "provider"
          => i \in texted
EvidenceInv ==
    /\ \A i \in Inv : Evidence(i)
    /\ \A w \in Worker : task[w] # None => (task[w].at = "record" => task[w].inv \in texted)

\* A step that touches one link, its request and its text only.
LEMMA OneLinkEvidence ==
    ASSUME TypeOK, EvidenceInv, NEW i \in Inv, Evidence(i)', texted \subseteq texted',
           \A j \in Inv \ {i} : /\ inv'[j] = inv[j] /\ call'[j] = call[j]
                               /\ (j \in texted' <=> j \in texted),
           task' = task
    PROVE  EvidenceInv'
<1>1. ASSUME NEW j \in Inv, j # i PROVE Evidence(j)'
  <2>1. inv'[j] = inv[j] /\ call'[j] = call[j] /\ (j \in texted' <=> j \in texted)
    BY <1>1
  <2>2. Evidence(j)  BY DEF EvidenceInv
  <2> QED  BY <2>1, <2>2 DEF Evidence
<1>2. \A j \in Inv : Evidence(j)'  BY <1>1
<1>3. \A w \in Worker : task'[w] # None => (task'[w].at = "record" => task'[w].inv \in texted')
  <2> SUFFICES ASSUME NEW w \in Worker, task[w] # None, task[w].at = "record"
               PROVE  task[w].inv \in texted'
    OBVIOUS
  <2>1. task[w].inv \in texted  BY DEF EvidenceInv
  <2>2. task[w].inv = i \/ task[w].inv \in Inv \ {i}  BY DEF TypeOK
  <2> QED  BY <2>1, <2>2
<1> QED  BY <1>2, <1>3 DEF EvidenceInv

LEMMA SentEvidence ==
    ASSUME TypeOK, EvidenceInv, NEW i \in Inv, NEW source \in {"manual", "provider"},
           Recordable(i), RecordSent(i, source), source = "provider" => i \in texted,
           texted' = texted, \A j \in Inv : call'[j] \in {call[j], "none"}
    PROVE  \A j \in Inv : Evidence(j)'
<1>1. inv[i] \in LinkType  BY DEF TypeOK
<1>2. Evidence(i)'
  BY <1>1 DEF TypeOK, EvidenceInv, Evidence, Recordable, RecordSent, LinkType, GivenUp
<1>3. ASSUME NEW j \in Inv, j # i PROVE Evidence(j)'
  BY <1>3 DEF TypeOK, EvidenceInv, Evidence, RecordSent, GivenUp
<1> QED  BY <1>2, <1>3

LEMMA RailEvidence == TypeOK /\ EvidenceInv /\ (RailStep \/ EnterOrEndApplication) => EvidenceInv'
  BY DEF EvidenceInv, Evidence, RailStep, EnterOrEndApplication, GiveTour, Resolve, Reopen,
         RecordIntent, wire

LEMMA LinkEvidence == ASSUME TypeOK, EvidenceInv, NEW i \in Inv, LinkStep(i) PROVE EvidenceInv'
<1> USE DEF wire
<1>0. \A j \in Inv : inv[j] \in LinkType  BY DEF TypeOK
<1>1. ASSUME NEW sends \in BOOLEAN, Prepare(i, sends) PROVE EvidenceInv'
  BY <1>0, <1>1 DEF Prepare, Evidence, EvidenceInv, TypeOK, Fresh, Unborn, GivenUp
<1>2. ASSUME NEW j \in Inv, Regenerate(i, j) PROVE EvidenceInv'
  <2>1. /\ i # j /\ inv[i].event = "none" /\ Unborn = inv[j]
    BY <1>0, <1>2, Decisive DEF Regenerate, Evidence, EvidenceInv
  <2>2. /\ inv'[i].status = "revoked" /\ inv'[i].child = "superseded"
        /\ inv'[i].event = inv[i].event /\ inv'[i].source = inv[i].source
        /\ inv'[j] = Fresh(inv[i].parent, inv[i].late)
        /\ \A k \in Inv \ {i, j} : inv'[k] = inv[k]
    BY <1>0, <1>2, <2>1 DEF Regenerate, TypeOK, LinkType
  <2>3. inv'[j].status = "prepared" /\ inv'[j].child = "open" /\ inv'[j].event = "none"
        /\ inv'[j].source = "none"
    BY <2>2 DEF Fresh, Unborn
  <2>4. call' = call /\ texted' = texted /\ task' = task  BY <1>2 DEF Regenerate
  <2>5. Evidence(i)'
    BY <2>1, <2>2, <2>4 DEF EvidenceInv, Evidence, GivenUp
  <2>6. inv[j].event = "none" /\ inv[j].source = "none" /\ call[j] # "accepted"
    BY <1>2, <2>1 DEF Regenerate, EvidenceInv, Evidence, Unborn
  <2>7. Evidence(j)'
    BY <2>3, <2>4, <2>6 DEF EvidenceInv, Evidence, GivenUp
  <2>8. \A k \in Inv \ {i, j} : Evidence(k)'
    BY <2>2, <2>4 DEF EvidenceInv, Evidence
  <2> QED  BY <2>4, <2>5, <2>7, <2>8 DEF EvidenceInv
<1>3. ASSUME NEW j \in Inv, NEW p \in Tour, Retry(i, j, p) PROVE EvidenceInv'
  BY <1>3 DEF Retry, Evidence, EvidenceInv
<1>4. CASE Attest(i)
  <2>1. \A j \in Inv : Evidence(j)'  BY <1>4, SentEvidence DEF Attest
  <2> QED  BY <1>4, <2>1 DEF Attest, EvidenceInv
<1>5. CASE Submit(i)
  BY <1>0, <1>5 DEF Submit, Evidence, EvidenceInv, TypeOK, LinkType, Sent, GivenUp
<1>6. CASE PassExpiry(i)
  BY <1>0, <1>6 DEF PassExpiry, Evidence, EvidenceInv, TypeOK, LinkType, Active, Sent, GivenUp
<1> QED  BY <1>1, <1>2, <1>3, <1>4, <1>5, <1>6 DEF LinkStep

\* A correction of a link keeps its evidence, if the correction was allowed.
LEMMA CorrectedEvidence ==
    ASSUME NEW l \in LinkType, NEW e \in {Revoked(l), Expired(l)}, Correctable(l),
           l.status = "prepared" <=> l.child = "open"
    PROVE  /\ e.status \notin {"none", "prepared"} /\ e.child # "open"
           /\ e.child \in GivenUp => l.child \in GivenUp \/ l.event = "none"
           /\ e.event = l.event /\ e.source = l.source
  BY Endings, Decisive DEF GivenUp, LinkType

LEMMA DispatchEvidence == ASSUME TypeOK, EvidenceInv, NEW i \in Inv, DispatchStep(i) PROVE EvidenceInv'
<1> USE DEF wire
<1>0. \A j \in Inv : inv[j] \in LinkType  BY DEF TypeOK
<1>1. CASE Bind(i)
  BY <1>0, <1>1 DEF Bind, Bindable, Evidence, EvidenceInv, TypeOK, LinkType, GivenUp
<1>2. CASE Stamp(i)
  <2>1. /\ inv'[i].event = call[i] /\ inv'[i].status = inv[i].status
        /\ inv'[i].child = inv[i].child /\ inv'[i].source = inv[i].source
        /\ \A j \in Inv \ {i} : inv'[j] = inv[j]
    BY <1>0, <1>2 DEF Stamp, TypeOK, LinkType
  <2>2. /\ call' = call /\ texted' = texted /\ task' = task
        /\ call[i] \in {"accepted", "refused"} /\ inv[i].event = "pending"
    BY <1>2 DEF Stamp
  <2>3. Evidence(i)'
    BY <2>1, <2>2 DEF EvidenceInv, Evidence, Unborn
  <2> QED  BY <2>1, <2>2, <2>3, OneLinkEvidence
<1>3. CASE RefuseDispatch(i)
  <2> DEFINE l == [inv[i] EXCEPT !.event = "refused"]
  <2>1. l \in LinkType  BY <1>0 DEF LinkType
  <2>2. /\ inv[i].event # "none" /\ inv[i].child \notin GivenUp /\ inv[i].status # "none"
    BY <1>0, <1>3 DEF RefuseDispatch, Evidence, EvidenceInv
  <2>3. /\ l.status = inv[i].status /\ l.child = inv[i].child /\ l.source = inv[i].source
        /\ l.event = "refused"
    BY <1>0 DEF LinkType
  <2>4. CASE inv[i].status = "consumed"
    BY <1>3, <2>4, <2>3 DEF RefuseDispatch, Evidence, EvidenceInv, TypeOK
  <2>5. call'[i] = "none" /\ texted' = texted /\ task' = task
        /\ \A j \in Inv \ {i} : inv'[j] = inv[j] /\ call'[j] = call[j]
    BY <1>3 DEF RefuseDispatch, TypeOK
  <2>6. CASE inv[i].status # "consumed" /\ Correctable(l)
    <3>1. inv'[i] = Revoked(l)
      BY <1>3, <2>3, <2>6 DEF RefuseDispatch, TypeOK
    <3>2. l.status = "prepared" <=> l.child = "open"
      BY <2>3 DEF EvidenceInv, Evidence
    <3>3. l.child \notin GivenUp /\ l.event # "none"  BY <2>2, <2>3
    <3> HIDE DEF l
    <3>4. Revoked(l).child \notin GivenUp /\ Revoked(l).status \notin {"none", "prepared"}
          /\ Revoked(l).child # "open" /\ Revoked(l).event = l.event
          /\ Revoked(l).source = l.source
      BY <2>1, <2>6, <3>2, <3>3, CorrectedEvidence
    <3>5. Evidence(i)'
      BY <2>3, <2>5, <3>1, <3>4 DEF EvidenceInv, Evidence
    <3> QED  BY <2>5, <3>5, OneLinkEvidence
  <2>7. CASE inv[i].status # "consumed" /\ ~Correctable(l)
    <3>1. inv'[i] = l
      BY <1>3, <2>3, <2>7 DEF RefuseDispatch, TypeOK
    <3> HIDE DEF l
    <3>2. Evidence(i)'
      BY <2>2, <2>3, <2>5, <3>1 DEF EvidenceInv, Evidence
    <3> QED  BY <2>5, <3>2, OneLinkEvidence
  <2> QED  BY <2>4, <2>6, <2>7
<1>4. CASE RecordDispatch(i)
  <2>1. i \in texted  BY <1>4 DEF RecordDispatch, EvidenceInv, Evidence
  <2>2. \A j \in Inv : call'[j] \in {call[j], "none"}
    BY <1>4 DEF RecordDispatch, TypeOK
  <2>3. \A j \in Inv : Evidence(j)'
    BY <1>4, <2>1, <2>2, SentEvidence DEF RecordDispatch
  <2> QED  BY <1>4, <2>3 DEF RecordDispatch, EvidenceInv
<1>5. CASE Drop(i)
  BY <1>5 DEF Drop, Evidence, EvidenceInv, TypeOK
<1>6. ASSUME NEW taken \in BOOLEAN, NEW answered \in BOOLEAN, CallProvider(i, taken, answered)
      PROVE EvidenceInv'
  BY <1>6 DEF CallProvider, Evidence, EvidenceInv, TypeOK
<1> QED  BY <1>1, <1>2, <1>3, <1>4, <1>5, <1>6 DEF DispatchStep

LEMMA CorrectionEvidence ==
    ASSUME TypeOK, EvidenceInv, NEW w \in Worker, CorrectionStep(w) PROVE EvidenceInv'
<1> USE DEF wire
<1>0. \A j \in Inv : inv[j] \in LinkType  BY DEF TypeOK
<1>1. ASSUME NEW i \in Inv, NEW act \in {"revoke", "expire"}, BeginCorrection(w, i, act)
      PROVE EvidenceInv'
  <2>1. Accepted(inv[i]) => i \in texted
    BY <1>0, Decisive DEF EvidenceInv, Evidence
  <2>2. task'[w].at = "record" => task'[w].inv \in texted
    BY <1>1, <2>1 DEF BeginCorrection, TypeOK
  <2> QED  BY <1>1, <2>2 DEF BeginCorrection, Evidence, EvidenceInv, TypeOK
<1>2. CASE RecordFirst(w)
  <2> DEFINE i == task[w].inv
  <2>1. i \in Inv /\ i \in texted  BY <1>2 DEF RecordFirst, EvidenceInv, TypeOK
  <2>2. \A j \in Inv : Evidence(j)'
    <3>1. CASE UNCHANGED <<rail, inv>>
      BY <1>2, <3>1 DEF RecordFirst, EvidenceInv, Evidence, rail
    <3>2. CASE Recordable(i) /\ RecordSent(i, "provider")
      BY <1>2, <2>1, <3>2, SentEvidence DEF RecordFirst
    <3> QED  BY <1>2, <3>1, <3>2 DEF RecordFirst
  <2>3. \A v \in Worker : task'[v] # None => (task'[v].at = "record" => task'[v].inv \in texted)
    <3>1. task'[w] = None \/ task'[w].at = "apply"
      BY <1>2 DEF RecordFirst, TypeOK
    <3>2. \A v \in Worker \ {w} : task'[v] = task[v]
      BY <1>2 DEF RecordFirst, TypeOK
    <3> QED  BY <3>1, <3>2 DEF EvidenceInv
  <2> QED  BY <1>2, <2>2, <2>3 DEF RecordFirst, EvidenceInv
<1>3. CASE Correct(w)
  <2>0. task[w].inv \in Inv  BY <1>3 DEF Correct, TypeOK
  <2> PICK i \in Inv : i = task[w].inv  BY <2>0
  <2>1. /\ call' = call /\ texted' = texted /\ task' = [task EXCEPT ![w] = None]
        /\ \A j \in Inv \ {i} : inv'[j] = inv[j]
    BY <1>3 DEF Correct, TypeOK
  <2>2. \/ inv'[i] = inv[i]
        \/ Correctable(inv[i]) /\ inv'[i] \in {Revoked(inv[i]), Expired(inv[i])}
    BY <1>3 DEF Correct, TypeOK
  <2>3. Evidence(i)'
    <3>1. CASE inv'[i] = inv[i]  BY <2>1, <3>1 DEF Evidence, EvidenceInv
    <3>2. CASE Correctable(inv[i]) /\ inv'[i] \in {Revoked(inv[i]), Expired(inv[i])}
      <4>1. inv[i].status = "prepared" <=> inv[i].child = "open"
        BY DEF Evidence, EvidenceInv
      <4>2. /\ inv'[i].status \notin {"none", "prepared"} /\ inv'[i].child # "open"
            /\ inv'[i].child \in GivenUp => inv[i].child \in GivenUp \/ inv[i].event = "none"
            /\ inv'[i].event = inv[i].event /\ inv'[i].source = inv[i].source
        BY <1>0, <3>2, <4>1, CorrectedEvidence
      <4> QED  BY <2>1, <4>2 DEF Evidence, EvidenceInv
    <3> QED  BY <2>2, <3>1, <3>2
  <2>4. \A j \in Inv \ {i} : Evidence(j)'
    BY <2>1 DEF Evidence, EvidenceInv
  <2>5. \A v \in Worker : task'[v] # None => task'[v] = task[v]
    BY <2>1 DEF TypeOK
  <2> QED  BY <2>1, <2>3, <2>4, <2>5 DEF EvidenceInv
<1> QED  BY <1>1, <1>2, <1>3 DEF CorrectionStep

LEMMA EvidenceCorrect == Spec => []EvidenceInv
<1>1. Init => EvidenceInv
  BY DEF Init, EvidenceInv, Evidence, Unborn, GivenUp
<1>2. TypeOK /\ EvidenceInv /\ [Next]_vars => EvidenceInv'
  <2>1. EvidenceInv /\ UNCHANGED vars => EvidenceInv'
    BY DEF EvidenceInv, Evidence, vars, wire
  <2> QED  BY <2>1, RailEvidence, LinkEvidence, DispatchEvidence, CorrectionEvidence DEF Next
<1> QED  BY <1>1, <1>2, LinkTypeCorrect, PTL DEF Spec

\* A prepared link and its open send commitment come and go together.
THEOREM CommitmentTracksLink == Spec => []ChildTracksLink
<1>1. EvidenceInv => ChildTracksLink  BY DEF EvidenceInv, Evidence, ChildTracksLink
<1> QED  BY <1>1, EvidenceCorrect, PTL

\* A link given up as unsent was not sent, and nobody can still send it.
THEOREM UnsentIsFinal == Spec => []UnsentStaysUnsent
<1>1. EvidenceInv => UnsentStaysUnsent  BY DEF EvidenceInv, Evidence, UnsentStaysUnsent
<1> QED  BY <1>1, EvidenceCorrect, PTL

\* A provider's send fact is of a text the provider accepted.
THEOREM ProviderFactsHold == Spec => []ProviderFactTrue
<1>1. EvidenceInv => ProviderFactTrue  BY DEF EvidenceInv, Evidence, ProviderFactTrue
<1> QED  BY <1>1, EvidenceCorrect, PTL

-----------------------------------------------------------------------------
(* One send answers a follow-up. *)

LEMMA SentAnswers ==
    ASSUME TypeOK, OneSendPerFollowUp, NEW i \in Inv, NEW source \in {"manual", "provider"},
           Recordable(i), RecordSent(i, source)
    PROVE  OneSendPerFollowUp'
<1>1. inv[i] \in LinkType /\ inv[i].parent \in Tour
  BY DEF TypeOK, Recordable, ParentOpen, LinkType
<1>2. inv'[i].child = "satisfied" /\ inv'[i].parent = inv[i].parent
  BY <1>1 DEF TypeOK, RecordSent, LinkType
<1>3. \A j \in Inv \ {i} : inv'[j] = inv[j]  BY DEF TypeOK, RecordSent
<1>4. \A j \in Inv \ {i} : inv[j].child = "satisfied" => inv[j].parent # inv[i].parent
  BY DEF OneSendPerFollowUp, Recordable, ParentOpen
<1>5. rung'[inv[i].parent] = "completed" /\ advanced'
      /\ \A t \in Tour \ {inv[i].parent} : rung'[t] = rung[t]
  BY <1>1 DEF TypeOK, RecordSent
<1>6. \A j \in Inv : inv[j].parent \in Tour \union {None}  BY DEF TypeOK, LinkType
<1>7. \A j \in Inv \ {i} : inv[j].child = "satisfied" => rung'[inv[j].parent] = "completed"
  BY <1>4, <1>6 DEF RecordSent, OneSendPerFollowUp, TypeOK
<1> QED  BY <1>2, <1>3, <1>4, <1>5, <1>7 DEF OneSendPerFollowUp

\* A step that satisfies no send commitment and closes no follow-up differently
\* keeps the answers.
LEMMA UnansweredKeeps ==
    ASSUME OneSendPerFollowUp, advanced => advanced',
           \A i \in Inv : inv'[i].child = "satisfied" =>
                inv[i].child = "satisfied" /\ inv'[i].parent = inv[i].parent,
           \A i \in Inv : inv[i].child = "satisfied" => rung'[inv[i].parent] = rung[inv[i].parent]
    PROVE  OneSendPerFollowUp'
  BY DEF OneSendPerFollowUp

LEMMA RailAnswers == TypeOK /\ OneSendPerFollowUp /\ RailStep => OneSendPerFollowUp'
<1> SUFFICES ASSUME TypeOK, OneSendPerFollowUp, RailStep PROVE OneSendPerFollowUp'  OBVIOUS
<1> USE DEF rail
<1>1. ASSUME NEW t \in Tour, GiveTour(t) PROVE OneSendPerFollowUp'
  BY <1>1, UnansweredKeeps DEF GiveTour, TypeOK, OneSendPerFollowUp
<1>2. ASSUME NEW t \in Tour, Reopen(t) PROVE OneSendPerFollowUp'
  <2>1. ~\E i \in Inv : inv[i].child = "satisfied"
    BY <1>2 DEF Reopen, Reopenable, OneSendPerFollowUp
  <2> QED  BY <1>2, <2>1, UnansweredKeeps DEF Reopen
<1>3. ASSUME NEW t \in Tour, NEW outcome \in {"completed", "released", "missed"},
             NEW suppress \in BOOLEAN, Resolve(t, outcome, suppress)
      PROVE  OneSendPerFollowUp'
  <2>1. \A i \in Inv : inv[i].child = "satisfied" => inv[i].parent # t
    BY <1>3 DEF Resolve, OneSendPerFollowUp
  <2>2. \A i \in Inv : inv[i].child = "satisfied" => rung'[inv[i].parent] = rung[inv[i].parent]
    BY <1>3, <2>1 DEF Resolve, TypeOK, OneSendPerFollowUp
  <2>3. inv' = inv /\ (advanced => advanced')  BY <1>3 DEF Resolve
  <2> QED  BY <2>2, <2>3, UnansweredKeeps
<1>4. CASE RecordIntent  BY <1>4, UnansweredKeeps DEF RecordIntent
<1> QED  BY <1>1, <1>2, <1>3, <1>4 DEF RailStep

LEMMA LinkAnswers ==
    ASSUME TypeOK, EvidenceInv, OneSendPerFollowUp, NEW i \in Inv, LinkStep(i)
    PROVE  OneSendPerFollowUp'
<1> USE DEF rail
<1>0. \A j \in Inv : inv[j] \in LinkType  BY DEF TypeOK
<1>1. ASSUME NEW sends \in BOOLEAN, Prepare(i, sends) PROVE OneSendPerFollowUp'
  BY <1>0, <1>1, UnansweredKeeps DEF Prepare, Fresh, Unborn, TypeOK
<1>2. ASSUME NEW j \in Inv, Regenerate(i, j) PROVE OneSendPerFollowUp'
  BY <1>0, <1>2, UnansweredKeeps DEF Regenerate, Fresh, Unborn, TypeOK, LinkType
<1>3. ASSUME NEW j \in Inv, NEW p \in Tour, Retry(i, j, p) PROVE OneSendPerFollowUp'
  BY <1>3, UnansweredKeeps DEF Retry
<1>4. CASE Attest(i)  BY <1>4, SentAnswers DEF Attest
<1>5. CASE Submit(i) \/ PassExpiry(i)
  BY <1>0, <1>5, UnansweredKeeps DEF Submit, PassExpiry, TypeOK, LinkType
<1> QED  BY <1>1, <1>2, <1>3, <1>4, <1>5 DEF LinkStep

LEMMA DispatchAnswers ==
    ASSUME TypeOK, EvidenceInv, OneSendPerFollowUp, NEW i \in Inv, DispatchStep(i)
    PROVE  OneSendPerFollowUp'
<1> USE DEF rail
<1>0. \A j \in Inv : inv[j] \in LinkType  BY DEF TypeOK
<1>1. CASE Bind(i) \/ Stamp(i) \/ Drop(i)
  BY <1>0, <1>1, UnansweredKeeps DEF Bind, Stamp, Drop, TypeOK, LinkType
<1>2. ASSUME NEW taken \in BOOLEAN, NEW answered \in BOOLEAN, CallProvider(i, taken, answered)
      PROVE OneSendPerFollowUp'
  BY <1>2, UnansweredKeeps DEF CallProvider
<1>3. CASE RecordDispatch(i)  BY <1>3, SentAnswers DEF RecordDispatch
<1>4. CASE RefuseDispatch(i)
  <2> DEFINE l == [inv[i] EXCEPT !.event = "refused"]
  <2>1. l \in LinkType /\ l.child = inv[i].child /\ l.parent = inv[i].parent
        /\ l.status = inv[i].status
    BY <1>0 DEF LinkType
  <2>2. Revoked(l).child = "satisfied" => l.child = "satisfied"
    BY <2>1, Endings DEF EvidenceInv, Evidence
  <2>3. Revoked(l).parent = l.parent  BY <2>1, Endings
  <2>4. inv'[i] \in {inv[i], l, Revoked(l)} /\ \A j \in Inv \ {i} : inv'[j] = inv[j]
    BY <1>4 DEF RefuseDispatch, TypeOK
  <2>5. rung' = rung /\ advanced' = advanced  BY <1>4 DEF RefuseDispatch
  <2> HIDE DEF l
  <2> QED  BY <2>1, <2>2, <2>3, <2>4, <2>5, UnansweredKeeps
<1> QED  BY <1>1, <1>2, <1>3, <1>4 DEF DispatchStep

LEMMA CorrectionAnswers ==
    ASSUME TypeOK, EvidenceInv, OneSendPerFollowUp, NEW w \in Worker, CorrectionStep(w)
    PROVE  OneSendPerFollowUp'
<1> USE DEF rail
<1>0. \A j \in Inv : inv[j] \in LinkType  BY DEF TypeOK
<1>1. ASSUME NEW i \in Inv, NEW act \in {"revoke", "expire"}, BeginCorrection(w, i, act)
      PROVE OneSendPerFollowUp'
  BY <1>1, UnansweredKeeps DEF BeginCorrection
<1>2. CASE RecordFirst(w)
  <2>1. task[w].inv \in Inv  BY <1>2 DEF RecordFirst, TypeOK
  <2>2. CASE UNCHANGED <<rail, inv>>  BY <2>2, UnansweredKeeps
  <2>3. CASE Recordable(task[w].inv) /\ RecordSent(task[w].inv, "provider")
    BY <2>1, <2>3, SentAnswers
  <2> QED  BY <1>2, <2>2, <2>3 DEF RecordFirst
<1>3. CASE Correct(w)
  <2> DEFINE i == task[w].inv
  <2>1. i \in Inv  BY <1>3 DEF Correct, TypeOK
  <2>2. /\ inv'[i] \in {inv[i], Revoked(inv[i]), Expired(inv[i])}
        /\ \A j \in Inv \ {i} : inv'[j] = inv[j]
    BY <1>3, <2>1 DEF Correct, TypeOK
  <2>3. \A e \in {Revoked(inv[i]), Expired(inv[i])} :
            e.parent = inv[i].parent /\ (e.child = "satisfied" => inv[i].child = "satisfied")
    BY <1>0, <2>1, Endings DEF EvidenceInv, Evidence
  <2>4. rung' = rung /\ advanced' = advanced  BY <1>3 DEF Correct
  <2> HIDE DEF i
  <2> QED  BY <2>2, <2>3, <2>4, UnansweredKeeps
<1> QED  BY <1>1, <1>2, <1>3 DEF CorrectionStep

\* A follow-up is answered by at most one recorded send, and stays answered.
THEOREM OneAnswer == Spec => []OneSendPerFollowUp
<1>1. Init => OneSendPerFollowUp  BY DEF Init, OneSendPerFollowUp, Unborn
<1>2. TypeOK /\ EvidenceInv /\ OneSendPerFollowUp /\ [Next]_vars => OneSendPerFollowUp'
  <2>1. OneSendPerFollowUp /\ UNCHANGED vars => OneSendPerFollowUp'
    BY DEF OneSendPerFollowUp, vars, rail
  <2>2. OneSendPerFollowUp /\ EnterOrEndApplication => OneSendPerFollowUp'
    BY DEF OneSendPerFollowUp, EnterOrEndApplication, rail
  <2> QED
    BY <2>1, <2>2, RailAnswers, LinkAnswers, DispatchAnswers, CorrectionAnswers DEF Next
<1> QED  BY <1>1, <1>2, LinkTypeCorrect, EvidenceCorrect, PTL DEF Spec

-----------------------------------------------------------------------------
(* The contract.  Where a link stands, besides what its record shows: a text *)
(* is still to come only while its request is bound, and a refusal on the    *)
(* record is the request's last word.                                        *)

Standing(i) ==
    /\ inv[i].status = "none" <=> inv[i].child = "none"
    /\ inv[i].status \in Sent \union {"consumed"} => inv[i].child = "satisfied"
    /\ inv[i].child = "dispatch_refused" => inv[i].event = "refused"
    /\ call[i] \in {"staged", "bound"} => i \notin texted
    /\ inv[i].event \in {"refused", "accepted"} => call[i] \notin {"staged", "bound"}
StandingInv == \A i \in Inv : Standing(i)
LinkInv == TypeOK /\ EvidenceInv /\ OneSendPerFollowUp /\ StandingInv

\* A step that leaves a link's record and its request alone, but for time.
LEMMA OthersStand ==
    ASSUME StandingInv, NEW i \in Inv, Standing(i)',
           \A j \in Inv \ {i} : /\ inv'[j] = inv[j] /\ call'[j] \in {call[j], "none"}
                               /\ (j \in texted' <=> j \in texted)
    PROVE  StandingInv'
<1> SUFFICES ASSUME NEW j \in Inv, j # i PROVE Standing(j)'
  BY DEF StandingInv
<1> QED  BY DEF StandingInv, Standing

LEMMA SentStands ==
    ASSUME LinkInv, NEW i \in Inv, NEW source \in {"manual", "provider"},
           Recordable(i), RecordSent(i, source), texted' = texted,
           \A j \in Inv : call'[j] \in {call[j], "none"}
    PROVE  StandingInv'
<1>1. inv[i] \in LinkType  BY DEF LinkInv, TypeOK
<1>2. /\ inv'[i].child = "satisfied" /\ inv'[i].status \in Sent
      /\ inv'[i].event = inv[i].event
      /\ \A j \in Inv \ {i} : inv'[j] = inv[j]
  BY <1>1 DEF LinkInv, TypeOK, RecordSent, LinkType, Sent
<1>3. Standing(i)'  BY <1>2 DEF LinkInv, StandingInv, Standing, Sent
<1> QED  BY <1>2, <1>3, OthersStand DEF LinkInv

\* A link revoked or expired stands as its record says.
LEMMA EndedStands ==
    ASSUME NEW l \in LinkType, NEW e \in {Revoked(l), Expired(l)}, Correctable(l),
           l.status = "prepared" <=> l.child = "open", l.status # "none", l.child # "none",
           l.child = "dispatch_refused" => l.event = "refused"
    PROVE  /\ e.status \notin Sent \union {"consumed", "none"} /\ e.child # "none"
           /\ e.child = "dispatch_refused" => e.event = "refused"
           /\ e.event = l.event
  BY Endings DEF LinkType, Sent

LEMMA LinkStands == ASSUME LinkInv, NEW i \in Inv, LinkStep(i) PROVE StandingInv'
<1> USE DEF wire, LinkInv
<1>0. \A j \in Inv : inv[j] \in LinkType  BY DEF TypeOK
<1>1. ASSUME NEW sends \in BOOLEAN, Prepare(i, sends) PROVE StandingInv'
  <2>0. inv[i] = Unborn  BY <1>1 DEF Prepare, EvidenceInv, Evidence
  <2>1. inv[i] = Unborn /\ i \notin texted
    BY <2>0 DEF EvidenceInv, Evidence, Unborn
  <2>2. inv'[i] = Fresh(prepare, FALSE) /\ texted' = texted
        /\ \A j \in Inv \ {i} : inv'[j] = inv[j] /\ call'[j] = call[j]
    BY <1>1 DEF Prepare, TypeOK
  <2>3. Standing(i)'
    BY <2>1, <2>2 DEF Standing, Fresh, Unborn, Sent
  <2> QED  BY <2>2, <2>3, OthersStand
<1>2. ASSUME NEW j \in Inv, Regenerate(i, j) PROVE StandingInv'
  <2>1. i # j /\ inv[j] = Unborn /\ call[j] = "none" /\ inv[i].event = "none"
    BY <1>0, <1>2, Decisive DEF Regenerate, EvidenceInv, Evidence
  <2>2. /\ inv'[i].status = "revoked" /\ inv'[i].child = "superseded"
        /\ inv'[i].event = inv[i].event
        /\ inv'[j] = Fresh(inv[i].parent, inv[i].late)
        /\ \A k \in Inv \ {i, j} : inv'[k] = inv[k]
    BY <1>0, <1>2, <2>1 DEF Regenerate, TypeOK, LinkType
  <2>3. call' = call /\ texted' = texted  BY <1>2 DEF Regenerate
  <2>4. Standing(i)'
    BY <2>2, <2>3 DEF StandingInv, Standing, Sent
  <2>5. Standing(j)'
    BY <2>1, <2>2, <2>3 DEF StandingInv, Standing, Fresh, Unborn, Sent
  <2>6. \A k \in Inv \ {i, j} : Standing(k)'
    BY <2>2, <2>3 DEF StandingInv, Standing
  <2> QED  BY <2>4, <2>5, <2>6 DEF StandingInv
<1>3. ASSUME NEW j \in Inv, NEW p \in Tour, Retry(i, j, p) PROVE StandingInv'
  BY <1>3 DEF Retry, StandingInv, Standing
<1>4. CASE Attest(i)  BY <1>4, SentStands DEF Attest
<1>5. CASE Submit(i) \/ PassExpiry(i)
  <2>1. /\ inv'[i].child = inv[i].child /\ inv'[i].event = inv[i].event
        /\ inv'[i].status = inv[i].status
             \/ (inv[i].status \in Sent /\ inv'[i].status = "consumed")
        /\ \A j \in Inv \ {i} : inv'[j] = inv[j]
    BY <1>0, <1>5 DEF Submit, PassExpiry, TypeOK, LinkType
  <2>2. call' = call /\ texted' = texted  BY <1>5 DEF Submit, PassExpiry
  <2>3. Standing(i)'  BY <2>1, <2>2 DEF StandingInv, Standing, Sent
  <2> QED  BY <2>1, <2>2, <2>3, OthersStand
<1> QED  BY <1>1, <1>2, <1>3, <1>4, <1>5 DEF LinkStep

LEMMA DispatchStands == ASSUME LinkInv, NEW i \in Inv, DispatchStep(i) PROVE StandingInv'
<1> USE DEF wire, LinkInv
<1>0. \A j \in Inv : inv[j] \in LinkType  BY DEF TypeOK
<1>1. CASE Bind(i) \/ Stamp(i)
  <2>1. /\ inv'[i].child = inv[i].child /\ inv'[i].status = inv[i].status
        /\ \A j \in Inv \ {i} : inv'[j] = inv[j] /\ call'[j] = call[j]
        /\ texted' = texted
    BY <1>0, <1>1 DEF Bind, Stamp, TypeOK, LinkType
  <2>2. \/ Bind(i) /\ inv'[i].event = "pending" /\ inv[i].child = "open"
        \/ Stamp(i) /\ call' = call /\ call[i] \notin {"staged", "bound"}
                    /\ inv[i].event # "refused"
    BY <1>0, <1>1 DEF Bind, Bindable, Stamp, TypeOK, LinkType
  <2>3. Standing(i)'
    BY <2>1, <2>2 DEF StandingInv, Standing, Bind
  <2> QED  BY <2>1, <2>3, OthersStand
<1>2. CASE RefuseDispatch(i)
  <2> DEFINE l == [inv[i] EXCEPT !.event = "refused"]
  <2>1. /\ l \in LinkType /\ l.status = inv[i].status /\ l.child = inv[i].child
        /\ l.event = "refused"
    BY <1>0 DEF LinkType
  <2>2. /\ inv'[i] \in {inv[i], l} \/ (inv'[i] = Revoked(l) /\ Correctable(l))
        /\ call'[i] = "none" /\ texted' = texted
        /\ \A j \in Inv \ {i} : inv'[j] = inv[j] /\ call'[j] = call[j]
    BY <1>2 DEF RefuseDispatch, TypeOK
  <2>3. inv[i].status # "none"
    BY <1>2 DEF RefuseDispatch, EvidenceInv, Evidence
  <2> HIDE DEF l
  <2>4. CASE inv'[i] = inv[i] \/ inv'[i] = l
    BY <2>1, <2>2, <2>4, OthersStand DEF StandingInv, Standing
  <2>5. CASE inv'[i] = Revoked(l) /\ Correctable(l)
    <3>1. l.status = "prepared" <=> l.child = "open"
      BY <2>1 DEF EvidenceInv, Evidence
    <3>2. /\ Revoked(l).status \notin Sent \union {"consumed", "none"}
          /\ Revoked(l).child # "none" /\ Revoked(l).event = "refused"
      BY <2>1, <2>3, <2>5, <3>1, EndedStands DEF StandingInv, Standing
    <3>3. Standing(i)'  BY <2>2, <2>5, <3>2 DEF Standing
    <3> QED  BY <2>2, <3>3, OthersStand
  <2> QED  BY <2>2, <2>4, <2>5
<1>3. CASE RecordDispatch(i)
  BY <1>3, SentStands DEF RecordDispatch, TypeOK
<1>4. CASE Drop(i)
  BY <1>4 DEF Drop, StandingInv, Standing, TypeOK
<1>5. ASSUME NEW taken \in BOOLEAN, NEW answered \in BOOLEAN, CallProvider(i, taken, answered)
      PROVE  StandingInv'
  BY <1>5 DEF CallProvider, StandingInv, Standing, TypeOK
<1> QED  BY <1>1, <1>2, <1>3, <1>4, <1>5 DEF DispatchStep

LEMMA CorrectionStands ==
    ASSUME LinkInv, NEW w \in Worker, CorrectionStep(w) PROVE StandingInv'
<1> USE DEF wire, LinkInv
<1>0. \A j \in Inv : inv[j] \in LinkType  BY DEF TypeOK
<1>k. ASSUME UNCHANGED <<inv, wire>> PROVE StandingInv'
  BY <1>k DEF StandingInv, Standing
<1>1. ASSUME NEW i \in Inv, NEW act \in {"revoke", "expire"}, BeginCorrection(w, i, act)
      PROVE  StandingInv'
  BY <1>1, <1>k DEF BeginCorrection
<1>2. CASE RecordFirst(w)
  <2>1. task[w].inv \in Inv  BY <1>2 DEF RecordFirst, TypeOK
  <2>2. CASE UNCHANGED inv  BY <1>2, <2>2, <1>k DEF RecordFirst
  <2>3. CASE Recordable(task[w].inv) /\ RecordSent(task[w].inv, "provider")
    BY <1>2, <2>1, <2>3, SentStands DEF RecordFirst
  <2> QED  BY <1>2, <2>2, <2>3 DEF RecordFirst
<1>3. CASE Correct(w)
  <2>0. task[w].inv \in Inv  BY <1>3 DEF Correct, TypeOK
  <2> PICK i \in Inv : i = task[w].inv  BY <2>0
  <2>1. /\ call' = call /\ texted' = texted
        /\ \A j \in Inv \ {i} : inv'[j] = inv[j]
    BY <1>3 DEF Correct, TypeOK
  <2>2. \/ inv'[i] = inv[i]
        \/ Correctable(inv[i]) /\ inv'[i] \in {Revoked(inv[i]), Expired(inv[i])}
    BY <1>3 DEF Correct, TypeOK
  <2>3. Standing(i)'
    <3>1. CASE inv'[i] = inv[i]  BY <2>1, <3>1 DEF StandingInv, Standing
    <3>2. CASE Correctable(inv[i]) /\ inv'[i] \in {Revoked(inv[i]), Expired(inv[i])}
      <4>1. /\ inv[i].status = "prepared" <=> inv[i].child = "open"
            /\ inv[i].status # "none"
        BY <3>2 DEF Correctable, Active, Sent, EvidenceInv, Evidence
      <4>2. /\ inv'[i].status \notin Sent \union {"consumed", "none"} /\ inv'[i].child # "none"
            /\ inv'[i].child = "dispatch_refused" => inv'[i].event = "refused"
            /\ inv'[i].event = inv[i].event
        BY <1>0, <3>2, <4>1, EndedStands DEF StandingInv, Standing
      <4> QED  BY <2>1, <4>2 DEF StandingInv, Standing
    <3> QED  BY <2>2, <3>1, <3>2
  <2> QED  BY <2>1, <2>3, OthersStand
<1> QED  BY <1>1, <1>2, <1>3 DEF CorrectionStep

LEMMA LinkInvAlways == Spec => []LinkInv
<1>1. Init => StandingInv  BY DEF Init, StandingInv, Standing, Unborn, Sent
<1>2. LinkInv /\ [Next]_vars => StandingInv'
  <2>1. StandingInv /\ UNCHANGED <<inv, wire>> => StandingInv'
    BY DEF StandingInv, Standing, wire
  <2>2. UNCHANGED vars \/ RailStep \/ EnterOrEndApplication => UNCHANGED <<inv, wire>>
    BY DEF vars, RailStep, EnterOrEndApplication, GiveTour, Resolve, Reopen, RecordIntent, wire
  <2> QED  BY <2>1, <2>2, LinkStands, DispatchStands, CorrectionStands DEF Next, LinkInv
<1> QED
  BY <1>1, <1>2, LinkTypeCorrect, EvidenceCorrect, OneAnswer, PTL DEF Spec, LinkInv

\* What a link's fate says of its record.
LEMMA FateMeans ==
    ASSUME NEW l \in LinkType
    PROVE  /\ Fate(l) = "unused" <=> l.child = "none"
           /\ Fate(l) = "waiting" <=> l.child = "open"
           /\ Fate(l) = "given_up" <=> l.child \in GivenUp
           /\ Fate(l) = "refused" <=> l.child = "dispatch_refused"
           /\ Fate(l) = "sent" <=> l.child = "satisfied" /\ l.status \in Sent
           /\ Fate(l) = "used" <=> l.child = "satisfied" /\ l.status = "consumed"
           /\ Fate(l) = "withdrawn" <=>
                  l.child = "satisfied" /\ l.status \notin Sent \union {"consumed"}
<1>1. CASE l.child = "none"  BY <1>1 DEF Fate, GivenUp
<1>2. CASE l.child = "open"  BY <1>2 DEF Fate, GivenUp
<1>3. CASE l.child \in GivenUp  BY <1>3 DEF Fate, GivenUp
<1>4. CASE l.child = "dispatch_refused"  BY <1>4 DEF Fate, GivenUp
<1>5. CASE l.child = "satisfied"
  <2>1. CASE l.status \in Sent  BY <1>5, <2>1 DEF Fate, GivenUp, Sent
  <2>2. CASE l.status = "consumed"  BY <1>5, <2>2 DEF Fate, GivenUp, Sent
  <2>3. CASE l.status \notin Sent \union {"consumed"}  BY <1>5, <2>3 DEF Fate, GivenUp
  <2> QED  BY <2>1, <2>2, <2>3
<1> QED  BY <1>1, <1>2, <1>3, <1>4, <1>5 DEF LinkType, GivenUp

Links == [i \in Inv |-> [fate |-> Fate(inv[i]), of |-> inv[i].parent]]

LEMMA LinkMeans ==
    ASSUME TypeOK, NEW i \in Inv
    PROVE  /\ Links[i].fate = Fate(inv[i]) /\ Links[i].of = inv[i].parent
           /\ Contract!Current(i) <=>
                  inv[i].child = "open" \/ (inv[i].child = "satisfied" /\ inv[i].status \in Sent)
           /\ Contract!Answers(i) <=> inv[i].child = "satisfied"
<1>1. inv[i] \in LinkType  BY DEF TypeOK
<1> QED
  BY <1>1, FateMeans DEF Links, Contract!Current, Contract!Answers

LEMMA LinksKeep ==
    ASSUME \A i \in Inv : Fate(inv'[i]) = Fate(inv[i]) /\ inv'[i].parent = inv[i].parent
    PROVE  Links' = Links
  BY DEF Links

\* A step of one link that keeps its parent and turns its fate.
LEMMA LinkTurns ==
    ASSUME NEW i \in Inv, NEW from, NEW to, Fate(inv[i]) = from, Fate(inv'[i]) = to,
           inv'[i].parent = inv[i].parent, texted' = texted,
           \A j \in Inv \ {i} : inv'[j] = inv[j]
    PROVE  Contract!Turn(i, from, to)
<1>1. Links'= [Links EXCEPT ![i].fate = to]
  <2>1. \A j \in Inv : Fate(inv'[j]) = IF j = i THEN to ELSE Fate(inv[j])  OBVIOUS
  <2>2. \A j \in Inv : inv'[j].parent = inv[j].parent  OBVIOUS
  <2>3. Links' = [j \in Inv |-> [fate |-> Fate(inv'[j]), of |-> inv'[j].parent]]
    BY DEF Links
  <2> HIDE DEF Fate
  <2> QED  BY <2>1, <2>2, <2>3 DEF Links
<1>2. Links[i].fate = from  BY DEF Links
<1> QED  BY <1>1, <1>2 DEF Contract!Turn, Links

\* A step that leaves the fate of every link and every text alone is none of the
\* contract's.
LEMMA ContractStutters ==
    ASSUME texted' = texted,
           \A i \in Inv : Fate(inv'[i]) = Fate(inv[i]) /\ inv'[i].parent = inv[i].parent
    PROVE  Contract!Next
  BY LinksKeep DEF Contract!Next, Contract!view, Links

LEMMA ContractRecords ==
    ASSUME LinkInv, NEW i \in Inv, NEW source \in {"manual", "provider"},
           Recordable(i), RecordSent(i, source), texted' = texted
    PROVE  Contract!Next
<1>t. TypeOK /\ inv[i] \in LinkType  BY DEF LinkInv, TypeOK
<1>1. /\ inv'[i].child = "satisfied" /\ inv'[i].status \in Sent /\ inv'[i] \in LinkType
      /\ inv'[i].parent = inv[i].parent
      /\ \A j \in Inv \ {i} : inv'[j] = inv[j]
  BY <1>t DEF TypeOK, RecordSent, LinkType, Sent, Active
<1>2. Fate(inv[i]) = "waiting" /\ Fate(inv'[i]) = "sent"
  BY <1>t, <1>1, FateMeans DEF Recordable
<1>3. Contract!Turn(i, "waiting", "sent")
  BY <1>1, <1>2, LinkTurns
<1>4. \A j \in Inv : inv[j].child = "satisfied" => inv[j].parent # inv[i].parent
  BY DEF LinkInv, OneSendPerFollowUp, Recordable, ParentOpen
<1>5. \A j \in Inv : Contract!Answers(j) => Links[j].of # Links[i].of
  BY <1>t, <1>4, LinkMeans
<1>6. Contract!Record(i)  BY <1>3, <1>5 DEF Contract!Record, Links
<1> QED  BY <1>6 DEF Contract!Next

\* A correction gives an unsent link up, takes a refusal at its word, or withdraws a
\* link that was sent.
LEMMA ContractCorrects ==
    ASSUME LinkInv, NEW i \in Inv, NEW l \in LinkType, l.child = inv[i].child,
           l.status = inv[i].status, l.parent = inv[i].parent,
           l.event = "refused" \/ l.event = inv[i].event,
           Correctable(l), inv'[i] \in {Revoked(l), Expired(l)}, texted' = texted,
           \A j \in Inv \ {i} : inv'[j] = inv[j]
    PROVE  Contract!Next
<1>t. inv[i] \in LinkType  BY DEF LinkInv, TypeOK
<1>e. /\ inv'[i] \in LinkType /\ inv'[i].parent = inv[i].parent
      /\ inv'[i].status \in {"revoked", "expired"}
      /\ l.status # "prepared" \/ l.child # "open" => inv'[i].child = inv[i].child
      /\ l.status = "prepared" /\ l.child = "open" =>
            IF l.event = "refused" THEN inv'[i].child = "dispatch_refused"
            ELSE inv'[i].child \in {"revoked", "expired"}
  BY Endings
<1>1. CASE l.status = "prepared"
  <2>1. inv[i].child = "open"  BY <1>1, ZenonT(60) DEF LinkInv, EvidenceInv, Evidence
  <2>2. Fate(inv[i]) = "waiting"  BY <1>t, <2>1, FateMeans
  <2>3. CASE l.event = "refused"
    <3>1. Fate(inv'[i]) = "refused"  BY <1>1, <1>e, <2>1, <2>3, FateMeans
    <3>2. Contract!Refuse(i)  BY <1>e, <2>2, <3>1, LinkTurns DEF Contract!Refuse
    <3> QED  BY <3>2 DEF Contract!Next
  <2>4. CASE l.event # "refused"
    <3>1. Fate(inv'[i]) = "given_up"
      BY <1>1, <1>e, <2>1, <2>4, FateMeans DEF GivenUp
    <3>2. i \notin texted
      BY <1>1, <2>4, Decisive DEF LinkInv, EvidenceInv, Evidence
    <3>3. Contract!GiveUp(i)  BY <1>e, <2>2, <3>1, <3>2, LinkTurns DEF Contract!GiveUp
    <3> QED  BY <3>3 DEF Contract!Next
  <2> QED  BY <2>3, <2>4
<1>2. CASE l.status # "prepared"
  <2>1. l.status \in Sent /\ inv[i].child = "satisfied"
    BY <1>2 DEF Correctable, Active, LinkInv, StandingInv, Standing
  <2>2. Fate(inv[i]) = "sent"  BY <1>t, <2>1, FateMeans
  <2>3. Fate(inv'[i]) = "withdrawn"
    BY <1>2, <1>e, <2>1, FateMeans DEF Sent
  <2>4. Contract!Withdraw(i)  BY <1>e, <2>2, <2>3, LinkTurns DEF Contract!Withdraw
  <2> QED  BY <2>4 DEF Contract!Next
<1> QED  BY <1>1, <1>2

LEMMA ContractLinkStep == ASSUME LinkInv, NEW i \in Inv, LinkStep(i) PROVE Contract!Next
<1> USE DEF wire
<1>t. TypeOK /\ \A j \in Inv : inv[j] \in LinkType  BY DEF LinkInv, TypeOK
<1>1. ASSUME NEW sends \in BOOLEAN, Prepare(i, sends) PROVE Contract!Next
  <2>0. prepare \in Tour  BY <1>t, <1>1 DEF Prepare, TypeOK
  <2> PICK p \in Tour : p = prepare  BY <2>0
  <2>1. /\ inv' = [inv EXCEPT ![i] = Fresh(p, FALSE)] /\ texted' = texted
        /\ NoActive /\ inv[i].status = "none"
    BY <1>t, <1>1 DEF Prepare, TypeOK
  <2>2. Fate(Fresh(p, FALSE)) = "waiting" /\ Fresh(p, FALSE).parent = p
    BY <2>1, LinkTypes, FateMeans DEF Fresh, Unborn
  <2>3. Links' = [Links EXCEPT ![i] = [fate |-> "waiting", of |-> p]]
    <3>1. \A j \in Inv : inv'[j] = IF j = i THEN Fresh(p, FALSE) ELSE inv[j]
      BY <1>t, <2>1 DEF TypeOK
    <3>2. Links' = [j \in Inv |-> [fate |-> Fate(inv'[j]), of |-> inv'[j].parent]]
      BY DEF Links
    <3> HIDE DEF Fate, Fresh
    <3> QED  BY <2>2, <3>1, <3>2 DEF Links
  <2>4. \A j \in Inv : ~Contract!Current(j)
    BY <1>t, <2>1, LinkMeans DEF NoActive, Active, LinkInv, EvidenceInv, Evidence
  <2>5. Links[i].fate = "unused"
    BY <1>t, <2>1, FateMeans DEF Links, LinkInv, StandingInv, Standing
  <2>6. Contract!Issue(i, p)
    BY <2>1, <2>3, <2>4, <2>5 DEF Contract!Issue, Links
  <2> QED  BY <2>6 DEF Contract!Next
<1>2. ASSUME NEW j \in Inv, Regenerate(i, j) PROVE Contract!Next
  <2>1. /\ i # j /\ inv[i].event = "none" /\ inv[i].child = "open" /\ i \notin texted
        /\ inv[j].child = "none" /\ texted' = texted
    BY <1>t, <1>2, Decisive DEF Regenerate, LinkInv, EvidenceInv, Evidence, StandingInv, Standing
  <2>2. /\ inv'[i].child = "superseded" /\ inv'[i].parent = inv[i].parent
        /\ inv'[i] \in LinkType
        /\ inv'[j] = Fresh(inv[i].parent, inv[i].late)
        /\ \A k \in Inv \ {i, j} : inv'[k] = inv[k]
    BY <1>t, <1>2, <2>1, ZenonT(60) DEF Regenerate, TypeOK, LinkType, Active, Sent
  <2>3. /\ inv'[j].child = "open" /\ inv'[j].parent = inv[i].parent
        /\ inv'[j] \in LinkType
    BY <1>t, <2>2, NextType, <1>2 DEF Fresh, Unborn, LinkType, Active, Sent
  <2>4. /\ Fate(inv[i]) = "waiting" /\ Fate(inv'[i]) = "given_up"
        /\ Fate(inv[j]) = "unused" /\ Fate(inv'[j]) = "waiting"
    BY <1>t, <2>1, <2>2, <2>3, FateMeans DEF GivenUp
  <2>5. Links' = [Links EXCEPT ![i].fate = "given_up",
                               ![j] = [fate |-> "waiting", of |-> Links[i].of]]
    <3>1. Links' = [k \in Inv |-> [fate |-> Fate(inv'[k]), of |-> inv'[k].parent]]
      BY DEF Links
    <3> HIDE DEF Fate, Fresh
    <3> QED  BY <2>1, <2>2, <2>3, <2>4, <3>1 DEF Links
  <2>6. Links[i].fate = "waiting" /\ Links[j].fate = "unused"  BY <2>4 DEF Links
  <2>7. Contract!Replace(i, j)
    BY <2>1, <2>5, <2>6 DEF Contract!Replace, Links
  <2> QED  BY <2>7 DEF Contract!Next
<1>3. ASSUME NEW j \in Inv, NEW p \in Tour, Retry(i, j, p) PROVE Contract!Next
  BY <1>3, ContractStutters DEF Retry
<1>4. CASE Attest(i)  BY <1>4, ContractRecords DEF Attest
<1>5. CASE Submit(i)
  <2>1. /\ inv'[i].status = "consumed" /\ inv'[i].child = inv[i].child
        /\ inv'[i].parent = inv[i].parent /\ inv'[i] \in LinkType
        /\ \A j \in Inv \ {i} : inv'[j] = inv[j]
    BY <1>t, <1>5 DEF Submit, TypeOK, LinkType
  <2>2. inv[i].status \in Sent /\ inv[i].child = "satisfied"
    BY <1>5 DEF Submit, LinkInv, StandingInv, Standing
  <2>3. Fate(inv[i]) = "sent" /\ Fate(inv'[i]) = "used"
    BY <1>t, <2>1, <2>2, FateMeans
  <2>4. Contract!Use(i)
    BY <1>5, <2>1, <2>3, LinkTurns DEF Submit, Contract!Use
  <2> QED  BY <2>4 DEF Contract!Next
<1>6. CASE PassExpiry(i)
  <2>1. \A j \in Inv : /\ inv'[j].status = inv[j].status /\ inv'[j].child = inv[j].child
                       /\ inv'[j].parent = inv[j].parent
    BY <1>t, <1>6 DEF PassExpiry, TypeOK, LinkType
  <2>2. \A j \in Inv : Fate(inv'[j]) = Fate(inv[j])  BY <2>1 DEF Fate
  <2> QED  BY <1>6, <2>1, <2>2, ContractStutters DEF PassExpiry
<1> QED  BY <1>1, <1>2, <1>3, <1>4, <1>5, <1>6 DEF LinkStep

LEMMA ContractDispatchStep ==
    ASSUME LinkInv, NEW i \in Inv, DispatchStep(i) PROVE Contract!Next
<1> USE DEF wire
<1>t. TypeOK /\ \A j \in Inv : inv[j] \in LinkType  BY DEF LinkInv, TypeOK
<1>1. CASE Bind(i) \/ Stamp(i)
  <2>1. \A j \in Inv : /\ inv'[j].status = inv[j].status /\ inv'[j].child = inv[j].child
                       /\ inv'[j].parent = inv[j].parent
    BY <1>t, <1>1 DEF Bind, Stamp, TypeOK, LinkType
  <2>2. \A j \in Inv : Fate(inv'[j]) = Fate(inv[j])  BY <2>1 DEF Fate
  <2> QED  BY <1>1, <2>1, <2>2, ContractStutters DEF Bind, Stamp
<1>2. CASE Drop(i)
  BY <1>2, ContractStutters DEF Drop
<1>3. CASE RecordDispatch(i)
  BY <1>3, ContractRecords DEF RecordDispatch
<1>4. CASE RefuseDispatch(i)
  <2> DEFINE l == [inv[i] EXCEPT !.event = "refused"]
  <2>1. /\ l \in LinkType /\ l.status = inv[i].status /\ l.child = inv[i].child
        /\ l.event = "refused" /\ l.parent = inv[i].parent
    BY <1>t DEF LinkType
  <2>2. /\ inv'[i] \in {inv[i], l} \/ (inv'[i] = Revoked(l) /\ Correctable(l))
        /\ texted' = texted
        /\ \A j \in Inv \ {i} : inv'[j] = inv[j]
    BY <1>4, <1>t DEF RefuseDispatch, TypeOK
  <2> HIDE DEF l
  <2>3. CASE inv'[i] \in {inv[i], l}
    <3>1. \A j \in Inv : /\ inv'[j].status = inv[j].status /\ inv'[j].child = inv[j].child
                         /\ inv'[j].parent = inv[j].parent
      BY <2>1, <2>2, <2>3
    <3>2. \A j \in Inv : Fate(inv'[j]) = Fate(inv[j])  BY <3>1 DEF Fate
    <3> QED  BY <2>2, <3>1, <3>2, ContractStutters
  <2>4. CASE inv'[i] = Revoked(l) /\ Correctable(l)
    BY <2>1, <2>2, <2>4, ContractCorrects
  <2> QED  BY <2>2, <2>3, <2>4
<1>5. ASSUME NEW taken \in BOOLEAN, NEW answered \in BOOLEAN, CallProvider(i, taken, answered)
      PROVE  Contract!Next
  <2>1. CASE texted' = texted
    BY <1>5, <2>1, ContractStutters DEF CallProvider
  <2>2. CASE texted' # texted
    <3>1. /\ call[i] = "bound" /\ texted' = texted \union {i} /\ inv' = inv
      BY <1>5, <2>2 DEF CallProvider
    <3>2. i \notin texted /\ inv[i].child \notin GivenUp \union {"none", "dispatch_refused"}
      BY <3>1 DEF LinkInv, EvidenceInv, Evidence, StandingInv, Standing
    <3>3. Links[i].fate \notin {"unused", "given_up", "refused"}
      BY <1>t, <3>2, FateMeans DEF Links
    <3>4. Links' = Links  BY <3>1, LinksKeep
    <3>5. Contract!Text(i)  BY <3>1, <3>2, <3>3, <3>4 DEF Contract!Text, Links
    <3> QED  BY <3>5 DEF Contract!Next
  <2> QED  BY <2>1, <2>2
<1> QED  BY <1>1, <1>2, <1>3, <1>4, <1>5 DEF DispatchStep

LEMMA ContractCorrectionStep ==
    ASSUME LinkInv, NEW w \in Worker, CorrectionStep(w) PROVE Contract!Next
<1> USE DEF wire
<1>t. TypeOK /\ \A j \in Inv : inv[j] \in LinkType  BY DEF LinkInv, TypeOK
<1>1. ASSUME NEW i \in Inv, NEW act \in {"revoke", "expire"}, BeginCorrection(w, i, act)
      PROVE  Contract!Next
  BY <1>1, ContractStutters DEF BeginCorrection
<1>2. CASE RecordFirst(w)
  <2>1. task[w].inv \in Inv  BY <1>2, <1>t DEF RecordFirst, TypeOK
  <2>2. CASE UNCHANGED inv  BY <1>2, <2>2, ContractStutters DEF RecordFirst
  <2>3. CASE Recordable(task[w].inv) /\ RecordSent(task[w].inv, "provider")
    BY <1>2, <2>1, <2>3, ContractRecords DEF RecordFirst
  <2> QED  BY <1>2, <2>2, <2>3 DEF RecordFirst
<1>3. CASE Correct(w)
  <2>0. task[w].inv \in Inv  BY <1>3, <1>t DEF Correct, TypeOK
  <2> PICK i \in Inv : i = task[w].inv  BY <2>0
  <2>1. texted' = texted /\ \A j \in Inv \ {i} : inv'[j] = inv[j]
    BY <1>3, <1>t DEF Correct, TypeOK
  <2>2. \/ inv'[i] = inv[i]
        \/ Correctable(inv[i]) /\ inv'[i] \in {Revoked(inv[i]), Expired(inv[i])}
    BY <1>3, <1>t DEF Correct, TypeOK
  <2>3. CASE inv'[i] = inv[i]  BY <2>1, <2>3, ContractStutters
  <2>4. CASE Correctable(inv[i]) /\ inv'[i] \in {Revoked(inv[i]), Expired(inv[i])}
    BY <1>t, <2>1, <2>4, ContractCorrects
  <2> QED  BY <2>2, <2>3, <2>4
<1> QED  BY <1>1, <1>2, <1>3 DEF CorrectionStep

\* To whoever follows a tour up, every request, retry, correction and late answer is
\* one act on one link: a text goes out once, for a link nobody gave up; a follow-up
\* takes one send; and no link is issued beside another.
THEOREM LinkContractImplemented == Spec => ImplementsLinkContract
<1>1. Init => Contract!Init
  <2>1. Fate(Unborn) = "unused" /\ Unborn.parent = None
    BY LinkTypes, FateMeans DEF Unborn
  <2> HIDE DEF Fate, Unborn
  <2> QED  BY <2>1 DEF Init, Contract!Init, Contract!Unused
<1>2. LinkInv /\ [Next]_vars => Contract!Next
  <2> SUFFICES ASSUME LinkInv, [Next]_vars PROVE Contract!Next
    OBVIOUS
  <2>1. CASE UNCHANGED vars \/ RailStep \/ EnterOrEndApplication
    <3>1. UNCHANGED <<inv, texted>>
      BY <2>1 DEF vars, RailStep, EnterOrEndApplication, GiveTour, Resolve, Reopen, RecordIntent,
                  wire
    <3> QED  BY <3>1, ContractStutters
  <2> QED
    BY <2>1, ContractLinkStep, ContractDispatchStep, ContractCorrectionStep DEF Next
<1>3. LinkInv /\ [Next]_vars => [Contract!Next]_<<Links, texted>>
  BY <1>2
<1> QED
  BY <1>1, <1>3, LinkInvAlways, PTL
     DEF Spec, ImplementsLinkContract, Contract!Spec, Contract!view, Links
=============================================================================
