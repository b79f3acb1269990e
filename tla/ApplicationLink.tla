--------------------------- MODULE ApplicationLink ---------------------------
(***************************************************************************)
(* The application link of one leasing conversation, from the tour that    *)
(* owes it to the applicant who uses it.                                   *)
(*                                                                         *)
(* A completed tour opens a tour_followup rung (leasing_conversion.js).    *)
(* Recorded intent opens a prepare commitment under it; preparing closes   *)
(* that and opens an invitation with a send commitment; recording the send *)
(* closes the send commitment and the rung together                        *)
(* (application_submission.js).  The text itself goes out between two      *)
(* transactions of the request that prepared the link, while other         *)
(* requests revoke, expire, regenerate, attest or retry.                   *)
(*                                                                         *)
(* One step is one transaction, or one call of the provider, or one stamp  *)
(* the boundary writes after it.  A request may die between its steps.     *)
(***************************************************************************)
EXTENDS Integers, FiniteSets

CONSTANTS
    Inv,            \* invitations
    MaxTours,       \* bound: tours given in the conversation
    Worker,         \* requests that revoke or expire
    None            \* no follow-up, no correction in progress

Tour == 1..MaxTours         \* in the order they were given

ASSUME LinkConstants == MaxTours \in Nat /\ None \notin Tour /\ IsFiniteSet(Inv)

VARIABLES
    rung,       \* leasing_conversion_obligations, rung tour_followup: outcome of each
    active,     \* leasing_conversions.status = 'active'
    advanced,   \* an applicant_followup rung was ever opened
    prepare,    \* parent of the open prepare_application_link, None if there is none
    inv,        \* application_invitations with their send commitment and comm_event
    live,       \* the conversation has an application in no terminal status
    call,       \* the request that prepared the link and sends it: where it stands
    task,       \* corrections in progress
    texted      \* external: invitations the provider accepted the text of

rail == <<rung, active, advanced>>
wire == <<call, texted>>
vars == <<rail, prepare, inv, live, task, wire>>

-----------------------------------------------------------------------------
(* Records. *)

Sent == {"manually_sent", "provider_dispatched"}
Active == Sent \union {"prepared"}
Unborn == [status |-> "none", source |-> "none", child |-> "none", parent |-> None,
           event |-> "none", late |-> FALSE]
Fresh(p, late) == [Unborn EXCEPT !.status = "prepared", !.child = "open",
                                 !.parent = p, !.late = late]

\* classifyDispatch.  A bound comm_event with neither a sid nor a refusal
\* ("pending") decides nothing.
Dispatch(l) == CASE l.event = "none" -> "no_attempt"
                 [] l.event = "pending" -> "indeterminate"
                 [] OTHER -> l.event
AcceptedOrPending(l) == Dispatch(l) \in {"accepted", "indeterminate"} \* mutant
Accepted(l) == Dispatch(l) = "accepted"

ParentOpen(p) == p # None /\ rung[p] = "open"
NoActive == \A i \in Inv : inv[i].status \notin Active   \* one active per conversation

\* revokeInvitationCorrection and expireInvitationService on a link that was
\* not sent: the send commitment ends with it, and says why.
EndedAlone(l, status, why) == [l EXCEPT !.status = status]           \* mutant
EndedByState(l, status, why) ==                                      \* mutant
    [l EXCEPT !.status = status, !.child = IF @ = "open" THEN Dispatch(l) ELSE @]
Ended(l, status, why) ==
    [l EXCEPT !.status = status,
              !.child = IF @ # "open" THEN @
                        ELSE IF Dispatch(l) = "refused" THEN "dispatch_refused" ELSE why]
Correctable(l) == l.status \in Active
                  /\ (l.status = "prepared" => Dispatch(l) \in {"no_attempt", "refused"})
Revoked(l) == IF l.status = "prepared" THEN Ended(l, "revoked", "revoked")
              ELSE [l EXCEPT !.status = "revoked"]
Expired(l) == IF l.status = "prepared" THEN Ended(l, "expired", "expired")
              ELSE [l EXCEPT !.status = "expired"]

\* finalizeInvitationSent: the rail refuses a follow-up that has an outcome.
Recordable(i) == inv[i].status = "prepared" /\ inv[i].child = "open" /\ ParentOpen(inv[i].parent)
RecordSent(i, source) ==
    /\ inv' = [inv EXCEPT ![i].source = source, ![i].child = "satisfied",
                          ![i].status = IF source = "manual" THEN "manually_sent"
                                        ELSE "provider_dispatched"]
    /\ rung' = [rung EXCEPT ![inv[i].parent] = "completed"]
    /\ advanced' = TRUE
    /\ UNCHANGED active

-----------------------------------------------------------------------------
Init ==
    /\ rung = [t \in Tour |-> "none"] /\ active = TRUE /\ advanced = FALSE
    /\ prepare = None /\ inv = [i \in Inv |-> Unborn] /\ live = FALSE
    /\ call = [i \in Inv |-> "none"] /\ texted = {}
    /\ task = [w \in Worker |-> None]

(* The rail. *)

\* createConversionFromTour on the conversation's live relationship.
GiveTour(t) ==
    /\ active /\ rung[t] = "none" /\ \A s \in Tour : s < t => rung[s] # "none"
    /\ rung' = [rung EXCEPT ![t] = "open"]
    /\ UNCHANGED <<active, advanced, prepare, inv, live, task, wire>>

\* resolveRung through the task door or the operator-key door, which passes
\* suppress_next on.  A missed rung leaves its obligation open.
Resolve(t, outcome, suppress) ==
    /\ rung[t] = "open"
    /\ rung' = [rung EXCEPT ![t] = outcome]
    /\ advanced' = (advanced \/ (outcome = "completed" /\ ~suppress))
    /\ active' = (active /\ outcome # "released")
    /\ UNCHANGED <<prepare, inv, live, task, wire>>

\* assessReopenability: not a released relationship, not past the successor rung.
ReopenAny(t) == rung[t] \in {"completed", "missed"} /\ active        \* mutant
Reopenable(t) == rung[t] \in {"completed", "missed"} /\ active /\ ~advanced
Reopen(t) ==
    /\ Reopenable(t)
    /\ rung' = [rung EXCEPT ![t] = "open"]
    /\ UNCHANGED <<active, advanced, prepare, inv, live, task, wire>>

\* recordApplicationIntent: an open prepare commitment is returned as it is,
\* and an active invitation does not stop a new one.
RecordIntent ==
    /\ ~live /\ prepare = None
    /\ \E t \in Tour : /\ rung[t] = "open" /\ \A s \in Tour : s > t => rung[s] # "open"
                       /\ prepare' = t
    /\ UNCHANGED <<rail, inv, live, task, wire>>

(* Preparing. *)

\* prepareApplicationLinkForObligation; sends says whether the same request
\* goes on to dispatch the link.  The parent is not looked at.
Prepare(i, sends) ==
    /\ prepare # None /\ ~live /\ NoActive /\ inv[i].status = "none"
    /\ inv' = [inv EXCEPT ![i] = Fresh(prepare, FALSE)]
    /\ prepare' = None
    /\ call' = [call EXCEPT ![i] = IF sends THEN "staged" ELSE "none"]
    /\ UNCHANGED <<rail, live, task, texted>>

\* regenerateInvitation: the replacement keeps the expiry of the lost link.
Regenerate(i, j) ==
    /\ inv[i].status = "prepared" /\ Dispatch(inv[i]) = "no_attempt"
    /\ inv[i].child = "open" /\ inv[j].status = "none"
    /\ inv' = [inv EXCEPT ![i] = [inv[i] EXCEPT !.status = "revoked", !.child = "superseded"],
                          ![j] = Fresh(inv[i].parent, inv[i].late)]
    /\ UNCHANGED <<rail, prepare, live, task, wire>>

\* beginRetryWithDispatchGate and beginApplicationLinkRetry: the caller names a
\* prior link i and a prior send commitment j, and nothing says that j is i's.
\* The obligation of a missed rung is open too.
Retry(i, j, p) ==
    /\ rung[p] \in {"open", "missed"} /\ ~live /\ prepare = None
    /\ inv[i].status \notin Active \union {"none"}
    /\ Dispatch(inv[i]) \in {"no_attempt", "refused"}
    /\ inv[j].child \in {"revoked", "dispatch_refused", "expired"}
    /\ NoActive /\ \A k \in Inv : inv[k].child # "open"
    /\ prepare' = p
    /\ UNCHANGED <<rail, inv, live, task, wire>>

(* dispatchPreparedLinkProvider. *)

\* Phase 1: under the invitation's lock, still prepared, nothing bound yet.
BindableLate(l) == l.event = "none"                                  \* mutant
Bindable(l) == l.status = "prepared" /\ l.event = "none" /\ l.child = "open"
Bind(i) ==
    /\ call[i] = "staged" /\ Bindable(inv[i])
    /\ inv' = [inv EXCEPT ![i].event = "pending"]
    /\ call' = [call EXCEPT ![i] = "bound"]
    /\ UNCHANGED <<rail, prepare, live, task, texted>>

\* Phase 2.  The gate refuses, or the provider takes the text and answers, or
\* its answer is lost and sms.js reports send_failed.
CallProvider(i, taken, answered) ==
    /\ call[i] = "bound"
    /\ call' = [call EXCEPT ![i] = IF taken /\ answered THEN "accepted" ELSE "refused"]
    /\ texted' = IF taken THEN texted \union {i} ELSE texted
    /\ UNCHANGED <<rail, prepare, inv, live, task>>

\* sendPropertySms writes what it saw on the comm_event; a failure is swallowed.
Stamp(i) ==
    /\ call[i] \in {"accepted", "refused"} /\ inv[i].event = "pending"
    /\ inv' = [inv EXCEPT ![i].event = call[i]]
    /\ UNCHANGED <<rail, prepare, live, task, wire>>

\* The correction after a refusal; no phone is one too.  It stamps the refusal
\* and revokes in one transaction, whatever the link is by then.
RefuseDispatch(i) ==
    /\ call[i] \in {"refused", "bound"}
    /\ LET l == [inv[i] EXCEPT !.event = "refused"] IN
       inv' = [inv EXCEPT ![i] =
                 IF l.status = "consumed" THEN @
                 ELSE IF Correctable(l) THEN Revoked(l) ELSE l]
    /\ call' = [call EXCEPT ![i] = "none"]
    /\ UNCHANGED <<rail, prepare, live, task, texted>>

\* Phase 3.
RecordDispatch(i) ==
    /\ call[i] = "accepted" /\ Recordable(i) /\ RecordSent(i, "provider")
    /\ call' = [call EXCEPT ![i] = "none"]
    /\ UNCHANGED <<prepare, live, task, texted>>

\* The process dies, or the transaction the request is at refuses.
Drop(i) ==
    /\ call[i] # "none" /\ call' = [call EXCEPT ![i] = "none"]
    /\ UNCHANGED <<rail, prepare, inv, live, task, texted>>

(* Staff. *)

Attest(i) ==
    /\ Recordable(i) /\ RecordSent(i, "manual")
    /\ UNCHANGED <<prepare, live, task, wire>>

\* reconcileCorrection: three transactions.
BeginCorrection(w, i, act) ==
    /\ task[w] = None /\ inv[i].status # "none"
    /\ task' = [task EXCEPT ![w] =
          [inv |-> i, act |-> act,
           at |-> IF inv[i].status = "prepared" /\ Accepted(inv[i]) THEN "record" ELSE "apply"]]
    /\ UNCHANGED <<rail, prepare, inv, live, wire>>

RecordFirst(w) ==
    /\ task[w] # None /\ task[w].at = "record"
    /\ LET i == task[w].inv IN
       \/ /\ inv[i].child = "open" /\ Recordable(i) /\ RecordSent(i, "provider")
          /\ task' = [task EXCEPT ![w].at = "apply"]
       \/ /\ inv[i].child = "open" /\ ~Recordable(i)             \* 409, the correction ends
          /\ task' = [task EXCEPT ![w] = None] /\ UNCHANGED <<rail, inv>>
       \/ /\ inv[i].child # "open"
          /\ task' = [task EXCEPT ![w].at = "apply"] /\ UNCHANGED <<rail, inv>>
    /\ UNCHANGED <<prepare, live, wire>>

Correct(w) ==
    /\ task[w] # None /\ task[w].at = "apply"
    /\ LET i == task[w].inv
           l == inv[i] IN
       inv' = [inv EXCEPT ![i] = IF ~Correctable(l) THEN l
                                 ELSE IF task[w].act = "revoke" THEN Revoked(l)
                                 ELSE IF l.late THEN Expired(l) ELSE l]
    /\ task' = [task EXCEPT ![w] = None]
    /\ UNCHANGED <<rail, prepare, live, wire>>

(* The applicant, time, and applications that come and go. *)

\* submit-public: consume and submit are one transaction.
Submit(i) ==
    /\ inv[i].status \in Sent /\ ~inv[i].late
    /\ inv' = [inv EXCEPT ![i].status = "consumed"] /\ live' = TRUE
    /\ UNCHANGED <<rail, prepare, task, wire>>

PassExpiry(i) ==
    /\ inv[i].status \in Active /\ ~inv[i].late
    /\ inv' = [inv EXCEPT ![i].late = TRUE]
    /\ UNCHANGED <<rail, prepare, live, task, wire>>

\* Entered by staff, or declined, withdrawn, expired.
EnterOrEndApplication ==
    /\ live' = ~live /\ UNCHANGED <<rail, prepare, inv, task, wire>>

-----------------------------------------------------------------------------
RailStep ==
    \/ \E t \in Tour : GiveTour(t) \/ Reopen(t)
    \/ \E t \in Tour, outcome \in {"completed", "released", "missed"}, suppress \in BOOLEAN :
          Resolve(t, outcome, suppress)
    \/ RecordIntent
LinkStep(i) ==
    \/ \E sends \in BOOLEAN : Prepare(i, sends)
    \/ \E j \in Inv : Regenerate(i, j) \/ \E p \in Tour : Retry(i, j, p)
    \/ Attest(i) \/ Submit(i) \/ PassExpiry(i)
DispatchStep(i) ==
    \/ Bind(i) \/ Stamp(i) \/ RefuseDispatch(i) \/ RecordDispatch(i) \/ Drop(i)
    \/ \E taken, answered \in BOOLEAN : CallProvider(i, taken, answered)
CorrectionStep(w) ==
    \/ \E i \in Inv, act \in {"revoke", "expire"} : BeginCorrection(w, i, act)
    \/ RecordFirst(w) \/ Correct(w)

Next ==
    \/ RailStep \/ EnterOrEndApplication
    \/ \E i \in Inv : LinkStep(i) \/ DispatchStep(i)
    \/ \E w \in Worker : CorrectionStep(w)

Spec == Init /\ [][Next]_vars
=============================================================================
