---------------------- MODULE ApplicationLinkProperties ----------------------
(* What the application link promises (ApplicationLink). *)
EXTENDS ApplicationLink

\* Every field has the values the code and the CHECK constraints allow.
LinkType == [status : Active \union {"none", "consumed", "revoked", "expired"},
             source : {"none", "manual", "provider"},
             child : {"none", "open", "satisfied", "superseded", "revoked",
                      "dispatch_refused", "expired"},
             parent : Tour \union {None},
             event : {"none", "pending", "refused", "accepted"},
             late : BOOLEAN]
TypeOK ==
    /\ rung \in [Tour -> {"none", "open", "completed", "released", "missed"}]
    /\ active \in BOOLEAN /\ advanced \in BOOLEAN /\ live \in BOOLEAN
    /\ prepare \in Tour \union {None}
    /\ inv \in [Inv -> LinkType]
    /\ call \in [Inv -> {"none", "staged", "bound", "accepted", "refused"}]
    /\ texted \subseteq Inv
    /\ task \in [Worker -> [inv : Inv, act : {"revoke", "expire"}, at : {"record", "apply"}]
                           \union {None}]

\* A prepared link and its open send commitment come and go together, whichever
\* request ends them: no link waits that nobody owes, and nothing is owed for a
\* link that is gone (application_submission.js:2586-2948).
ChildTracksLink == \A i \in Inv : inv[i].status = "prepared" <=> inv[i].child = "open"

\* A link given up as unsent was not sent and will not be: no request is past
\* the lock that could still put its text on the wire (the comment at
\* application_submission.js:2531-2537, "no revoked-before-send fiction").
GivenUp == {"superseded", "revoked", "expired"}
UnsentStaysUnsent ==
    \A i \in Inv : inv[i].child \in GivenUp =>
        i \notin texted /\ call[i] \notin {"bound", "accepted", "refused"}

\* A send the record attributes to the provider is one the provider accepted,
\* whoever wrote the record and however late (finalizeInvitationSent, Phase 3
\* and reconcileCorrection).
ProviderFactTrue == \A i \in Inv : inv[i].source = "provider" => i \in texted

\* A follow-up is answered by one send: the send commitment and its parent close
\* together, the parent stays closed, and no other link is ever recorded as the
\* answer to the same follow-up (resolveRung is write-once, reopenRung stops at
\* the successor rung).
OneSendPerFollowUp ==
    \A i \in Inv : inv[i].child = "satisfied" =>
        /\ rung[inv[i].parent] = "completed" /\ advanced
        /\ \A j \in Inv \ {i} : inv[j].child = "satisfied" => inv[j].parent # inv[i].parent

-----------------------------------------------------------------------------
(* The contract this module implements. *)

Fate(l) == CASE l.child = "none" -> "unused"
             [] l.child = "open" -> "waiting"
             [] l.child \in GivenUp -> "given_up"
             [] l.child = "dispatch_refused" -> "refused"
             [] l.child = "satisfied" /\ l.status \in Sent -> "sent"
             [] l.child = "satisfied" /\ l.status = "consumed" -> "used"
             [] OTHER -> "withdrawn"

Contract == INSTANCE LinkContract WITH
    Link <- Inv, FollowUp <- Tour, Nothing <- None, texted <- texted,
    link <- [i \in Inv |-> [fate |-> Fate(inv[i]), of |-> inv[i].parent]]

\* To whoever follows the tour up, each request, correction, retry or late answer of
\* the provider is one act on one link: a text goes out only for a link nobody gave
\* up, and a follow-up that has its send takes no other (application_submission.js).
ImplementsLinkContract == Contract!Spec
=============================================================================
