----------------------------- MODULE BankBridge -----------------------------
(***************************************************************************)
(* From a bank statement to the books: src/money/bank_intake.js stages     *)
(* each statement line as a claim and proves its payee; bank_bridge.js     *)
(* turns a proven debit into money events, or pairs a returned tenant      *)
(* payment with the receipts it reverses; applications/autoconfirm.js      *)
(* decides which vendors' lines need no click.                             *)
(*                                                                         *)
(* Every bridge and pairing route locks the bank line and is one step.     *)
(* The two retroactive passes, reidentify and flag-returns, read their     *)
(* lines without a lock and update them one by one, by id alone: each is a *)
(* reading step and one step per update.                                   *)
(*                                                                         *)
(* Left out: categories and wording; the amount band of an automatic       *)
(* confirmation (which lines fall in it is left open); rejected pairings,  *)
(* a pure trail; the link to a re-payment; check returns, which only       *)
(* staging and parking touch; the test-only bank reset.                    *)
(*                                                                         *)
(* Money events are in mills, tenths of a cent: their column has no scale, *)
(* unlike the lines' and the entries'.                                     *)
(*                                                                         *)
(* Bounds: a split has two allocations of at most three decimals, and one  *)
(* pass of each kind runs at a time.                                       *)
(***************************************************************************)
EXTENDS Integers, Sequences, FiniteSets, FiniteSetsExt

CONSTANTS
    Line,        \* statement lines, by their natural key
    Cents,       \* [Line -> Int]: the signed amount, negative for money out
    Check,       \* the lines that are checks
    Flag,        \* [Line -> Reason \cup {None}]: what the descriptor is flagged as
    Legacy,      \* the lines staged before returns had a flag of their own
    Settlement,  \* the lines whose descriptor says SETTLEMENT
    Token,       \* normalised alias values
    Carries,     \* [Line -> SUBSET Token]: the aliases a descriptor contains
    Vendor,
    Kinds,       \* [Vendor -> SUBSET VendorType]: what answer keys may call a vendor
    Teachable,   \* the (alias, vendor) pairs an answer key may teach
    Receipt,     \* tenant-return (RC) entries
    Part,        \* the cents a person may type for an entry
    Mills,       \* the mills a person may type for an allocation
    MinConfirms, \* confirmations that earn an automatic one: 5 in the code
    None

Reason == {"payment_return", "affiliate_transfer", "composite_batch",
           "ambiguous_payee", "amount_mismatch", "possible_non_property_spend",
           "rejected_check"}

\* The other types of the schema act as "vendor" does.
VendorType == {"vendor", "management", "owner_affiliate"}

Magnitude(l) == IF Cents[l] < 0 THEN -Cents[l] ELSE Cents[l]
Debit(l) == Cents[l] < 0

ASSUME LinesAssumption ==
    /\ Cents \in [Line -> Int]
    /\ Flag \in [Line -> Reason \cup {None}]
    /\ None \notin Reason /\ None \notin Vendor
    /\ Check \subseteq Line /\ Legacy \subseteq Line /\ Settlement \subseteq Line
    /\ \A l \in Line : Flag[l] = "payment_return" => Debit(l) /\ l \notin Check

ASSUME PayeesAssumption ==
    /\ Part \subseteq Nat \ {0} /\ Mills \subseteq Nat \ {0}
    /\ Kinds \in [Vendor -> SUBSET VendorType \ {{}}]
    /\ Carries \in [Line -> SUBSET Token]
    /\ Teachable \subseteq Token \X Vendor

VARIABLES
    line,     \* the bank transaction of each statement line
    birth,    \* its money events: a sequence of groups, each the parts of one bridging
    pairing,  \* its proposed and confirmed RC entries
    kind,     \* the type the last answer key gave each vendor
    alias,    \* the vendor a taught alias names
    multi,    \* the vendors marked multi-nature
    trusted,  \* the vendors whose lines may confirm themselves
    retro,    \* updates a reidentify pass has decided and not yet written
    flagging  \* lines a flag-returns pass has found and not yet flagged

lines == <<line, birth, pairing>>
payees == <<kind, alias, multi, trusted>>
passes == <<retro, flagging>>
vars == <<lines, payees, passes>>

NotStaged == [status |-> "none", vendor |-> None, why |-> None,
              parked |-> FALSE, bridged |-> FALSE]

\* A draft names each receipt once.
Entry == [rc : Receipt, cents : Part]
Drafts == {d \in SUBSET Entry : d # {} /\ \A e, f \in d : e.rc = f.rc => e = f}
Sum(entries) == MapThenSumSet(LAMBDA e : e.cents, entries)

(***************************************************************************)
(* What a descriptor proves about the payee.                               *)
(***************************************************************************)
Hits(l) == {alias[t] : t \in Carries[l]} \ {None}
OnePayee(l, v) == Hits(l) = {v}

KindFlag(l, k) ==
    IF k = "owner_affiliate" THEN "affiliate_transfer"
    ELSE IF k = "management" /\ Debit(l) /\ l \in Settlement
         THEN "composite_batch" ELSE None
VendorFlag(l, v) == KindFlag(l, kind[v])

\* A legacy return was staged when the word RETURN raised no flag.
DescriptorFlag(l) ==
    IF l \in Legacy /\ Flag[l] = "payment_return" THEN None ELSE Flag[l]

\* coalesce(new, old)
Over(new, old) == IF new = None THEN old ELSE new

Claimed(l, why) == [NotStaged EXCEPT !.status = "claimed", !.why = Over(DescriptorFlag(l), why)]
IdentifiedNameless(row, v, why) == [row EXCEPT !.status = "identified", !.why = why] \* mutant
Identified(row, v, why) == [row EXCEPT !.status = "identified", !.vendor = v, !.why = why]

(***************************************************************************)
(* What may be bridged, and what bridging leaves behind.                   *)
(***************************************************************************)
Unbridged(l) == ~line[l].bridged
Proven(l) == line[l].status = "identified"
Bridgeable(l) == Unbridged(l) /\ Proven(l) /\ Debit(l)

\* ELIGIBLE: a batch takes no exception and nothing a person parked.
Eligible(l) == Bridgeable(l) /\ line[l].why = None /\ ~line[l].parked

\* An exception bridges only one by one, acknowledged; a lump only as a split.
OneByOne(l) == Bridgeable(l) /\ line[l].why \notin {"composite_batch", "payment_return"}
Splittable(l) == Bridgeable(l) /\ line[l].why # "payment_return"

MarkedStillParked(row) == [row EXCEPT !.bridged = TRUE]              \* mutant
Marked(row) == [row EXCEPT !.bridged = TRUE, !.parked = FALSE]

InMills(l) == 10 * Magnitude(l)
Born(l, parts) == Append(birth[l], [vendor |-> line[l].vendor, parts |-> parts])

\* One money event for each line of B, all in one transaction.
BridgeAll(B) ==
    /\ line' = [l \in Line |-> IF l \in B THEN Marked(line[l]) ELSE line[l]]
    /\ birth' = [l \in Line |-> IF l \in B THEN Born(l, <<InMills(l)>>) ELSE birth[l]]
    /\ UNCHANGED <<pairing, payees, passes>>

DroppedMarkerOnly(groups) ==                                       \* mutant
    IF Len(groups[Len(groups)].parts) = 1 THEN <<>>
    ELSE [groups EXCEPT ![Len(groups)].parts = Tail(@)]
\* Unbridging deletes the whole group the marker names.
Dropped(groups) == SubSeq(groups, 1, Len(groups) - 1)

Total(parts) == IF Len(parts) = 1 THEN parts[1] ELSE parts[1] + parts[2]

\* Math.round(Number(x) * 100), for x in mills: a half cent goes either way,
\* as the binary fraction nearest to it does.
RoundsTo(x, c) == 10 * c - 5 <= x /\ x <= 10 * c + 5

\* The vendor's money events, the history autonomy is earned from.  Bridging
\* writes proposed = confirmed, so each is an agreement and none an override.
Confirms(v) == {c \in Line \X (1..2) : \E i \in DOMAIN birth[c[1]] :
                    /\ birth[c[1]][i].vendor = v
                    /\ c[2] \in DOMAIN birth[c[1]][i].parts}

Init ==
    /\ line = [l \in Line |-> NotStaged]
    /\ birth = [l \in Line |-> <<>>]
    /\ pairing = [l \in Line |-> [proposed |-> {}, confirmed |-> {}]]
    /\ kind \in [Vendor -> VendorType] /\ \A v \in Vendor : kind[v] \in Kinds[v]
    /\ alias = [t \in Token |-> None]
    /\ multi = {} /\ trusted = {}
    /\ retro = {} /\ flagging = {}

(***************************************************************************)
(* Intake.                                                                 *)
(***************************************************************************)
\* A statement upload or a Plaid pull; a line staged before is skipped.
Stage(l) ==
    /\ line[l].status = "none"
    /\ \/ /\ l \in Check \/ Hits(l) = {}
          /\ line' = [line EXCEPT ![l] = Claimed(l, None)]
       \/ /\ l \notin Check
          /\ \E v, w \in Hits(l) : v # w
          /\ line' = [line EXCEPT ![l] = Claimed(l, "ambiguous_payee")]
       \/ /\ l \notin Check
          /\ \E v \in Vendor :
                /\ OnePayee(l, v)
                /\ line' = [line EXCEPT ![l] =
                        Identified(NotStaged, v, Over(DescriptorFlag(l), VendorFlag(l, v)))]
    /\ UNCHANGED <<birth, pairing, payees, passes>>

\* Seeding the registry writes the vendor's type, and after that each of its
\* aliases, in no transaction: an alias is new, or taken from another vendor.
SeedVendor(v, k) ==
    /\ k \in Kinds[v]
    /\ kind' = [kind EXCEPT ![v] = k]
    /\ UNCHANGED <<lines, alias, multi, trusted, passes>>

SeedAlias(t, v) ==
    /\ <<t, v>> \in Teachable
    /\ alias' = [alias EXCEPT ![t] = v]
    /\ UNCHANGED <<lines, kind, multi, trusted, passes>>

\* A register row of the same number and amount: the line's state is not asked.
RegisterJoin(l, v) ==
    /\ l \in Check /\ line[l].status # "none"
    /\ line' = [line EXCEPT ![l] = Identified(@, v,
            IF kind[v] = "owner_affiliate" THEN "affiliate_transfer" ELSE @.why)]
    /\ UNCHANGED <<birth, pairing, payees, passes>>

\* The same number with another amount.
RegisterMismatch(l) ==
    /\ l \in Check /\ line[l].status # "none"
    /\ line' = [line EXCEPT ![l].why = "amount_mismatch"]
    /\ UNCHANGED <<birth, pairing, payees, passes>>

BeginFlagReturns ==
    /\ flagging = {}
    /\ flagging' = {l \in Line : /\ line[l].status # "none" /\ Unbridged(l)
                                 /\ Flag[l] = "payment_return" /\ line[l].why = None}
    /\ UNCHANGED <<lines, payees, retro>>

FlagReturn(l) ==
    /\ l \in flagging
    /\ line' = [line EXCEPT ![l].why = "payment_return"]
    /\ flagging' = flagging \ {l}
    /\ UNCHANGED <<birth, pairing, payees, retro>>

(***************************************************************************)
(* The second look at claimed lines, once the registry knows more.         *)
(***************************************************************************)
Update == [of : Line, vendor : Vendor, why : Reason \cup {None}]

BeginReidentify ==
    /\ retro = {}
    /\ retro' = {u \in Update :
                    /\ line[u.of].status = "claimed" /\ Unbridged(u.of)
                    /\ u.of \notin Check /\ OnePayee(u.of, u.vendor)
                    /\ u.why = VendorFlag(u.of, u.vendor)}
    /\ UNCHANGED <<lines, payees, flagging>>

ReidentifiedAfresh(row, u) == Identified(row, u.vendor, u.why)       \* mutant
Reidentified(row, u) == Identified(row, u.vendor, Over(u.why, row.why))

Reidentify(u) ==
    /\ u \in retro
    /\ line' = [line EXCEPT ![u.of] = Reidentified(@, u)]
    /\ retro' = retro \ {u}
    /\ UNCHANGED <<birth, pairing, payees, flagging>>

\* A pass stops half way when its process does; nothing is undone.
StopPass ==
    /\ retro # {} \/ flagging # {}
    /\ retro' = {} /\ flagging' = {}
    /\ UNCHANGED <<lines, payees>>

(***************************************************************************)
(* Bridging.                                                               *)
(***************************************************************************)
SetMultiNature(v) ==
    /\ multi' = IF v \in multi THEN multi \ {v} ELSE multi \cup {v}
    /\ UNCHANGED <<lines, kind, alias, trusted, passes>>

BridgeVendor(v) ==
    /\ v \notin multi
    /\ BridgeAll({l \in Line : Eligible(l) /\ line[l].vendor = v})

BridgeOne(l) ==
    /\ OneByOne(l)
    /\ BridgeAll({l})

\* The allocations are compared rounded and stored as they were typed.
Split(l, a, b) ==
    /\ Splittable(l)
    /\ \E c, d \in 0..Magnitude(l) :
          RoundsTo(a, c) /\ RoundsTo(b, d) /\ c + d = Magnitude(l)
    /\ line' = [line EXCEPT ![l] = Marked(@)]
    /\ birth' = [birth EXCEPT ![l] = Born(l, <<a, b>>)]
    /\ UNCHANGED <<pairing, payees, passes>>

Unbridge(l) ==
    /\ line[l].bridged
    /\ line' = [line EXCEPT ![l].bridged = FALSE]
    /\ birth' = [birth EXCEPT ![l] = Dropped(@)]
    /\ UNCHANGED <<pairing, payees, passes>>

Grant(v) ==
    /\ Cardinality(Confirms(v)) >= MinConfirms
    /\ trusted' = trusted \cup {v}
    /\ UNCHANGED <<lines, kind, alias, multi, passes>>

\* The off switch, or clearing the property's rule.
Revoke(v) ==
    /\ v \in trusted
    /\ trusted' = trusted \ {v}
    /\ UNCHANGED <<lines, kind, alias, multi, passes>>

\* The sweep after a pull takes the trusted vendors' lines inside their bands.
SelfConfirming == {l \in Line : Eligible(l) /\ line[l].vendor \in trusted \ multi}

BridgeAuto(B) ==
    /\ B # {}
    /\ BridgeAll(B)

(***************************************************************************)
(* Parking, and pairing returned payments.                                 *)
(***************************************************************************)
Park(l) ==
    /\ line[l].status # "none" /\ Unbridged(l)
    /\ line' = [line EXCEPT ![l].parked = TRUE]
    /\ UNCHANGED <<birth, pairing, payees, passes>>

Unpark(l) ==
    /\ line[l].parked
    /\ line' = [line EXCEPT ![l].parked = FALSE]
    /\ UNCHANGED <<birth, pairing, payees, passes>>

Pairable(l) == line[l].why = "payment_return" /\ Debit(l)
Paired(l) == pairing[l].confirmed # {}

OpenWhilePaired(l) == Pairable(l)                                    \* mutant
OpenForDraft(l) == Pairable(l) /\ ~Paired(l)

Propose(l, draft) ==
    /\ OpenForDraft(l)
    /\ pairing' = [pairing EXCEPT ![l].proposed = draft]
    /\ UNCHANGED <<line, birth, payees, passes>>

ConfirmPairing(l) ==
    /\ OpenForDraft(l)
    /\ pairing[l].proposed # {}
    /\ Sum(pairing[l].proposed) = Magnitude(l)
    /\ pairing' = [pairing EXCEPT ![l] =
            [proposed |-> {}, confirmed |-> @.confirmed \cup @.proposed]]
    /\ UNCHANGED <<line, birth, payees, passes>>

Unpair(l) ==
    /\ Pairable(l) /\ Paired(l)
    /\ pairing' = [pairing EXCEPT ![l].confirmed = {}]
    /\ UNCHANGED <<line, birth, payees, passes>>

Next ==
    \/ \E l \in Line : \/ Stage(l) \/ RegisterMismatch(l) \/ FlagReturn(l)
                        \/ BridgeOne(l) \/ Unbridge(l) \/ Park(l) \/ Unpark(l)
                        \/ ConfirmPairing(l) \/ Unpair(l)
                        \/ \E v \in Vendor : RegisterJoin(l, v)
                        \/ \E a, b \in Mills : Split(l, a, b)
                        \/ \E draft \in Drafts : Propose(l, draft)
    \/ \E v \in Vendor : \/ SetMultiNature(v) \/ BridgeVendor(v)
                          \/ Grant(v) \/ Revoke(v)
                          \/ \E k \in Kinds[v] : SeedVendor(v, k)
                          \/ \E t \in Token : SeedAlias(t, v)
    \/ \E u \in retro : Reidentify(u)
    \/ \E B \in SUBSET SelfConfirming : BridgeAuto(B)
    \/ BeginFlagReturns \/ BeginReidentify \/ StopPass

Spec == Init /\ [][Next]_vars
=============================================================================
