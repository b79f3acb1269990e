----------------------- MODULE SpaceTenancyProperties -----------------------
(* What the writers of a home's leases owe each other. *)
EXTENDS SpaceTenancy

RowValues ==
    [st : {"staged", "needs_review", "promoted", "rejected"},
     who : Person \union {NoPerson, "undecided"}, candidates : SUBSET Person,
     lease : Leases \union {None}]

Statuses == {"submitted", "lease_ready", "accepted_term_required", "active", "declined"}
LeaseRow ==
    [st : {"none", "pending", "active", "cancelled", "rejected"},
     home : Home \union {NoHome}, term : Terms \union {{}},
     app : Application \union {None}, tenants : SUBSET Person,
     via : {"none", "term", "activation", "snapshot"}, econ : BOOLEAN, revived : BOOLEAN]
RecordRow ==
    [app : Application \union {None}, home : Home \union {NoHome}, term : Terms \union {{}},
     state : {"none", "verified", "superseded"}, lease : Leases \union {None}]
Reading ==       \* a row whose lease is to be inserted names its resident, or nobody
    {x \in [home : Home \union {NoHome},
            verdict : {"none", "clean", "refused", "insert", "record"}, row : RowValues] :
        x.verdict = "insert" => x.row.who # "undecided"}

TypeOK ==
    /\ status \in [Application -> Statuses]
    /\ approved \subseteq Application
    /\ agreed \in [Application -> Terms \union {{}}]
    /\ pk \in [Application -> [phase : {"none", "out", "resident_executed", "executed"},
                               signed : SUBSET {"tenant", "guarantor"}]]
    /\ work \in [Application -> Int]
    /\ rec \in [Records -> RecordRow]
    /\ lease \in [Leases -> LeaseRow]
    /\ claim \in [Row -> Claims]
    /\ row \in [Row -> RowValues]
    /\ position \in [Setup -> Int]
    /\ reading \in [Actors -> Reading]

Overlap(k, l) ==
    /\ k # l /\ Operative(k) /\ Operative(l)
    /\ lease[k].home = lease[l].home /\ lease[k].term \cap lease[l].term # {}

\* Two leases in force never share a home and a day, except where the later one was
\* imported by the snapshot loader, or one was brought back by the approval PATCH: the
\* writers that ask first never let each other in, however their transactions
\* interleave (executed_lease_service.js 2b, activation_service.js 2c).
GovernedTenancies ==
    \A k, l \in Leases :
        k < l /\ Overlap(k, l) =>
            lease[l].via = "snapshot" \/ lease[k].revived \/ lease[l].revived

\* Two applicants never both hold one home by their signatures (lease_packets.js
\* 2567, application_inventory_hold.js 108), although each locks only its own package.
OneHolderPerHome ==
    \A a, b \in Application : Holds(a) /\ Holds(b) /\ NamedHome[a] = NamedHome[b] => a = b

\* An application is active exactly when a lease was made from it, only one was, and
\* the record that lease rests on is still the verified one: it was not superseded
\* and no other lease claims it (tenancy_anchor_service.js, executed_lease_service.js).
StandingBasis ==
    /\ \A a \in Application :
            status[a] = "active" <=> \E l \in Leases : lease[l].app = a
    /\ \A l \in Leases : lease[l].app # None =>
            /\ \E r \in Live(lease[l].app) : rec[r].lease = l
            /\ \A k \in Leases \ {l} : lease[k].app # lease[l].app

\* The lease made from an application is for the home it names and the term its
\* applicant last acknowledged, whatever was verified, superseded or prepared between.
TenancyAsAgreed ==
    \A l \in Leases : \A a \in Application : lease[l].app = a =>
        lease[l].term = agreed[a] /\ NamedHome[a] \in {NoHome, lease[l].home}

\* An application that waits for its term has the open work and the verified record
\* that let somebody confirm it (application_lifecycle.js, executed_lease_service.js).
TermWorkStands ==
    \A a \in Application : status[a] = "accepted_term_required" => work[a] > 0 /\ Live(a) # {}

\* A published opening position keeps counting the rows that are confirmed: no
\* confirmation commits underneath it (activation_service.js 1205).
OpeningCounts ==
    \A s \in Setup : position[s] # None => position[s] = Cardinality(Confirmed(s))

-----------------------------------------------------------------------------
(* The contract this module implements. *)

LettingOf(l) ==
    [state |-> IF l.st = "none" THEN "unused" ELSE IF l.st \in Retired THEN "void" ELSE "let",
     home |-> l.home, term |-> l.term,
     asked |-> l.via \notin {"none", "snapshot"}, revived |-> l.revived]

Ledger == INSTANCE HomeLedger WITH letting <- [l \in Leases |-> LettingOf(lease[l])]

\* To the property's ledger every writer is one act: a term or a row confirmed in two
\* steps lets a home that is free when the lease appears, not when it was asked.
ImplementsLedger == Ledger!Spec
=============================================================================
