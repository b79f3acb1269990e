------------------------ MODULE ApplicationLifecycle ------------------------
(***************************************************************************)
(* The vocabulary of lease_applications.status and the one judgement about *)
(* moving between two statuses (application_lifecycle.js).  Everything     *)
(* here is constant-level: the modules that own the row use it.            *)
(***************************************************************************)
EXTENDS Naturals

\* The progressive ladder, in order; terminal statuses are off it.
Ladder == <<"draft", "submitted", "approved", "lease_ready", "tenant_signed",
            "countersigned", "accepted_term_required", "active">>

Terminal == {"declined", "withdrawn", "expired"}

OnLadder == {Ladder[i] : i \in 1..8}

Rank(s) == CHOOSE i \in 1..8 : Ladder[i] = s

\* Where each terminal disposition may be reached from.
SubmittedOnly(code) == {"submitted"}                            \* mutant
TerminalOrigins(code) ==
    {"submitted", "approved", "lease_ready"}
        \union (IF code = "withdrawn" THEN {"draft"} ELSE {})

\* APPROVAL_REACHED less the statuses a review packet is no longer open for.
PacketEligibleStatuses == {"approved", "lease_ready", "tenant_signed"}

\* applied | already_at_target | already_beyond_target | refused
AssessWithoutOrigins(from, to) ==                               \* mutant
    IF from = to THEN "already_at_target" ELSE "applied"
AssessTransition(from, to) ==
    CASE from = to                             -> "already_at_target"
      [] from # to /\ to \in Terminal          ->
            IF from \notin Terminal /\ from \in TerminalOrigins(to)
            THEN "applied" ELSE "refused"
      [] from # to /\ to \notin Terminal       ->
            IF from \notin OnLadder THEN "refused"
            ELSE IF Rank(from) > Rank(to) THEN "already_beyond_target"
            ELSE "applied"
=============================================================================
