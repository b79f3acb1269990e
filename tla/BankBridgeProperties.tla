------------------------ MODULE BankBridgeProperties ------------------------
(***************************************************************************)
(* What bridging and pairing promise about the money on a statement.       *)
(***************************************************************************)
EXTENDS BankBridge

Row == [status : {"none", "claimed", "identified"}, vendor : Vendor \cup {None},
        why : Reason \cup {None}, parked : BOOLEAN, bridged : BOOLEAN]
Group == [vendor : Vendor \cup {None}, parts : Seq(Nat)]

\* Every variable keeps its type, and only a proven payee has a name on the line.
TypeOK ==
    /\ line \in [Line -> Row]
    /\ \A l \in Line : line[l].vendor # None <=> line[l].status = "identified"
    /\ birth \in [Line -> Seq(Group)]
    /\ pairing \in [Line -> [proposed : SUBSET Entry, confirmed : SUBSET Entry]]
    /\ kind \in [Vendor -> VendorType] /\ \A v \in Vendor : kind[v] \in Kinds[v]
    /\ alias \in [Token -> Vendor \cup {None}]
    /\ multi \subseteq Vendor /\ trusted \subseteq Vendor
    /\ retro \subseteq Update /\ flagging \subseteq Line

\* One event is the line itself; each allocation of a split may be half a cent off.
Worth(l, parts) ==
    IF Len(parts) = 1 THEN Total(parts) = InMills(l)
    ELSE InMills(l) - 10 <= Total(parts) /\ Total(parts) <= InMills(l) + 10

\* ONE TXN, ONE EVENT, ONCE: a marked line has one group of money events, from
\* a debit, worth exactly the line or, split, within half a cent for each
\* allocation; an unmarked line has none, whatever was bridged, split, undone,
\* swept or re-identified before.
OneBirth ==
    \A l \in Line :
        /\ line[l].bridged => /\ Len(birth[l]) = 1
                              /\ Debit(l)
                              /\ Worth(l, birth[l][1].parts)
        /\ ~line[l].bridged => birth[l] = <<>>

\* "HARD RULE: allocations must sum to the bank amount EXACTLY, to the cent":
\* what a marked line gave to the books is what the bank took.
SplitToTheCent ==
    \A l \in Line : line[l].bridged => Total(birth[l][1].parts) = InMills(l)

\* Resolution is the unpark: no line is both parked and in the books.
ParkedIsUnresolved ==
    \A l \in Line : line[l].parked => ~line[l].bridged

\* A paired return's confirmed entries tie to the bank line to the cent, and
\* no draft waits beside them.
PairedToTheCent ==
    \A l \in Line : Paired(l) => /\ Sum(pairing[l].confirmed) = Magnitude(l)
                                 /\ pairing[l].proposed = {}

\* The aliases that occur in returns' descriptors are taught to vendors every
\* answer key calls plain payees: no owner affiliate, no manager's settlement.
ReturnsNamePlainPayees ==
    \A l \in Line \ Legacy : Flag[l] = "payment_return" =>
        \A t \in Carries[l], v \in Vendor : <<t, v>> \in Teachable =>
            \A k \in Kinds[v] : KindFlag(l, k) = None

\* Then a return flagged when it was staged never becomes an expense, through
\* any door or retroactive pass.
ReturnsNeverExpenses ==
    ReturnsNamePlainPayees =>
        \A l \in Line \ Legacy : Flag[l] = "payment_return" => birth[l] = <<>>

\* No money event is ever born from a paired return.
PairedNeverExpense ==
    \A l \in Line : Paired(l) => birth[l] = <<>>
=============================================================================
