--------------------------- MODULE BankBridgeProofs ---------------------------
(***************************************************************************)
(* Proofs about BankBridge.  The books (BooksInv) are inductive: each      *)
(* route either leaves a line's marker and money events alone or changes   *)
(* both.  That a flagged return stays out of the books also needs what a   *)
(* reidentify pass carries in flight (ReturnInv).                          *)
(***************************************************************************)
EXTENDS BankBridgeProperties, TLAPS

MarkedIsProven == \A l \in Line : line[l].bridged => Proven(l)

BooksInv == TypeOK /\ MarkedIsProven /\ OneBirth /\ ParkedIsUnresolved /\ PairedToTheCent

\* The same, for one line.
SoundRow(row) ==
    /\ row \in Row
    /\ row.vendor # None <=> row.status = "identified"
    /\ row.bridged => row.status = "identified"

OneGroup(l, groups) ==
    Len(groups) = 1 /\ Debit(l) /\ Worth(l, groups[1].parts)

-----------------------------------------------------------------------------
\* What the row operators make.
LEMMA Flags ==
    ASSUME TypeOK, NEW l \in Line, NEW v \in Vendor,
           NEW new \in Reason \cup {None}, NEW old \in Reason \cup {None}
    PROVE  /\ VendorFlag(l, v) \in Reason \cup {None}
           /\ DescriptorFlag(l) \in Reason \cup {None}
           /\ Over(new, old) \in Reason \cup {None}
           /\ Magnitude(l) \in Nat
  <1>1. VendorFlag(l, v) \in Reason \cup {None}
    BY DEF VendorFlag, KindFlag, Reason
  <1>2. DescriptorFlag(l) \in Reason \cup {None}
    BY LinesAssumption DEF DescriptorFlag
  <1>3. Over(new, old) \in Reason \cup {None}
    BY DEF Over
  <1>4. Magnitude(l) \in Nat
    BY LinesAssumption DEF Magnitude
  <1>5. QED BY <1>1, <1>2, <1>3, <1>4

LEMMA ClaimedRow ==
    ASSUME NEW l \in Line, NEW why \in Reason \cup {None}
    PROVE  SoundRow(Claimed(l, why)) /\ ~Claimed(l, why).bridged /\ ~Claimed(l, why).parked
  <1> DEFINE flag == Over(DescriptorFlag(l), why)
  <1>1. flag \in Reason \cup {None}
    BY LinesAssumption DEF DescriptorFlag, Over
  <1>2. Claimed(l, why) = [NotStaged EXCEPT !.status = "claimed", !.why = flag]
    BY DEF Claimed
  <1> HIDE DEF flag
  <1>3. NotStaged \in Row /\ NotStaged.vendor = None /\ ~NotStaged.bridged /\ ~NotStaged.parked
    BY DEF NotStaged, Row
  <1>4. QED BY <1>1, <1>2, <1>3 DEF SoundRow, Row

LEMMA IdentifiedRow ==
    ASSUME NEW row \in Row, NEW v \in Vendor, NEW why \in Reason \cup {None}
    PROVE  /\ SoundRow(Identified(row, v, why))
           /\ Identified(row, v, why).bridged = row.bridged
           /\ Identified(row, v, why).parked = row.parked
           /\ Identified(row, v, why).why = why
  BY LinesAssumption DEF Identified, SoundRow, Row

LEMMA MarkedRow ==
    ASSUME NEW row, SoundRow(row), row.status = "identified"
    PROVE  SoundRow(Marked(row)) /\ Marked(row).bridged /\ ~Marked(row).parked
  BY DEF Marked, SoundRow, Row

LEMMA LineTyped ==
    ASSUME BooksInv
    PROVE  \A l \in Line : SoundRow(line[l])
  BY DEF BooksInv, TypeOK, MarkedIsProven, Proven, SoundRow

-----------------------------------------------------------------------------
\* A row rewritten without touching its marker or its money events.
LEMMA RowStep ==
    ASSUME BooksInv, NEW l \in Line, NEW row, SoundRow(row),
           line' = [line EXCEPT ![l] = row], row.bridged = line[l].bridged,
           row.parked => line[l].parked \/ ~row.bridged,
           UNCHANGED <<birth, pairing, payees>>,
           retro' \subseteq Update, flagging' \subseteq Line
    PROVE  BooksInv'
  <1>1. row \in Row /\ line \in [Line -> Row]
    BY DEF SoundRow, BooksInv, TypeOK
  <1>2. line' \in [Line -> Row]
    BY <1>1
  <1>3. line'[l] = row /\ \A m \in Line \ {l} : line'[m] = line[m]
    BY <1>1
  <1>4. \A m \in Line : line'[m].vendor # None <=> line'[m].status = "identified"
    BY <1>3 DEF SoundRow, BooksInv, TypeOK
  <1>5. \A m \in Line : line'[m].bridged = line[m].bridged
    BY <1>3
  <1>6. TypeOK'
    BY <1>2, <1>4 DEF BooksInv, TypeOK, payees
  <1>7. MarkedIsProven'
    BY <1>3 DEF SoundRow, BooksInv, MarkedIsProven, Proven
  <1>8. OneBirth'
    BY <1>5 DEF BooksInv, OneBirth
  <1>9. ParkedIsUnresolved'
    BY <1>3, <1>5 DEF BooksInv, ParkedIsUnresolved
  <1>10. PairedToTheCent'
    BY DEF BooksInv, PairedToTheCent, Paired
  <1>11. QED BY <1>6, <1>7, <1>8, <1>9, <1>10 DEF BooksInv

\* The group a bridging adds to a line that had none.
LEMMA FirstGroup ==
    ASSUME BooksInv, NEW l \in Line, Bridgeable(l), NEW parts \in Seq(Nat),
           Worth(l, parts)
    PROVE  Born(l, parts) \in Seq(Group) /\ OneGroup(l, Born(l, parts))
  <1> DEFINE g == [vendor |-> line[l].vendor, parts |-> parts]
  <1>1. birth[l] = <<>> /\ Debit(l)
    BY DEF BooksInv, OneBirth, Bridgeable, Unbridged
  <1>2. g \in Group
    BY DEF Group, BooksInv, TypeOK, Row
  <1>3. g.parts = parts
    OBVIOUS
  <1> HIDE DEF g
  <1>4. Append(<<>>, g) \in Seq(Group) /\ Len(Append(<<>>, g)) = 1 /\ Append(<<>>, g)[1] = g
    BY <1>2
  <1>5. Born(l, parts) = Append(<<>>, g)
    BY <1>1 DEF Born, g
  <1>6. QED BY <1>1, <1>3, <1>4, <1>5 DEF OneGroup

\* Bridging lines that may be bridged.
LEMMA BridgeStep ==
    ASSUME BooksInv, NEW B \in SUBSET Line, \A l \in B : Bridgeable(l), BridgeAll(B)
    PROVE  BooksInv'
  <1>1. line \in [Line -> Row] /\ birth \in [Line -> Seq(Group)]
    BY DEF BooksInv, TypeOK
  <1>2. \A l \in B : /\ SoundRow(line'[l]) /\ line'[l].bridged /\ ~line'[l].parked
                     /\ birth'[l] \in Seq(Group) /\ OneGroup(l, birth'[l])
    <2> TAKE l \in B
    <2>1. line'[l] = Marked(line[l]) /\ birth'[l] = Born(l, <<InMills(l)>>)
      BY DEF BridgeAll
    <2>2. InMills(l) \in Nat
      BY LinesAssumption DEF InMills, Magnitude
    <2>3. <<InMills(l)>> \in Seq(Nat) /\ Worth(l, <<InMills(l)>>)
      BY <2>2 DEF Worth, Total
    <2>4. Born(l, <<InMills(l)>>) \in Seq(Group) /\ OneGroup(l, Born(l, <<InMills(l)>>))
      BY <2>3, FirstGroup
    <2>5. SoundRow(line[l]) /\ line[l].status = "identified"
      BY LineTyped DEF Bridgeable, Proven
    <2>6. QED BY <2>1, <2>4, <2>5, MarkedRow
  <1>3. \A l \in Line \ B : line'[l] = line[l] /\ birth'[l] = birth[l]
    BY DEF BridgeAll
  <1>4. line' \in [Line -> Row] /\ birth' \in [Line -> Seq(Group)]
    <2>1. /\ line' = [l \in Line |-> line'[l]] /\ birth' = [l \in Line |-> birth'[l]]
      BY DEF BridgeAll
    <2>2. \A l \in Line : line'[l] \in Row /\ birth'[l] \in Seq(Group)
      BY <1>1, <1>2, <1>3 DEF SoundRow
    <2>3. QED BY <2>1, <2>2
  <1>5. \A l \in Line : line'[l].vendor # None <=> line'[l].status = "identified"
    BY <1>2, <1>3 DEF SoundRow, BooksInv, TypeOK
  <1>6. TypeOK'
    BY <1>4, <1>5 DEF BooksInv, TypeOK, BridgeAll, payees, passes
  <1>7. OneBirth'
    BY <1>2, <1>3 DEF BooksInv, OneBirth, OneGroup
  <1>8. ParkedIsUnresolved'
    BY <1>2, <1>3 DEF BooksInv, ParkedIsUnresolved
  <1>9. PairedToTheCent'
    BY DEF BooksInv, PairedToTheCent, Paired, BridgeAll
  <1>10. MarkedIsProven'
    BY <1>2, <1>3 DEF SoundRow, BooksInv, MarkedIsProven, Proven
  <1>11. QED BY <1>6, <1>7, <1>8, <1>9, <1>10 DEF BooksInv

-----------------------------------------------------------------------------
\* Staging and the answer key.
LEMMA StageStep ==
    ASSUME BooksInv, NEW l \in Line, Stage(l)
    PROVE  BooksInv'
  <1>1. SoundRow(line[l]) /\ line[l].status = "none"
    BY LineTyped DEF Stage
  <1>2. ~line[l].bridged
    BY <1>1 DEF SoundRow
  <1>3. UNCHANGED <<birth, pairing, payees>> /\ retro' \subseteq Update /\ flagging' \subseteq Line
    BY DEF Stage, BooksInv, TypeOK, passes
  <1>4. CASE \E why \in {None, "ambiguous_payee"} : line' = [line EXCEPT ![l] = Claimed(l, why)]
    <2>1. PICK why \in Reason \cup {None} : line' = [line EXCEPT ![l] = Claimed(l, why)]
      BY <1>4 DEF Reason
    <2> DEFINE q == Claimed(l, why)
    <2>2. SoundRow(q) /\ ~q.bridged /\ ~q.parked
      BY ClaimedRow
    <2> HIDE DEF q
    <2>3. line' = [line EXCEPT ![l] = q]
      BY <2>1 DEF q
    <2>4. q.bridged = line[l].bridged
      BY <2>2, <1>2, <1>1 DEF SoundRow, Row
    <2>5. QED BY <2>2, <2>3, <2>4, <1>3, RowStep
  <1>5. CASE \E v \in Vendor : line' = [line EXCEPT ![l] =
                    Identified(NotStaged, v, Over(DescriptorFlag(l), VendorFlag(l, v)))]
    <2>1. PICK v \in Vendor : line' = [line EXCEPT ![l] =
                    Identified(NotStaged, v, Over(DescriptorFlag(l), VendorFlag(l, v)))]
      BY <1>5
    <2> DEFINE why == Over(DescriptorFlag(l), VendorFlag(l, v))
    <2>2. why \in Reason \cup {None}
      <3>1. VendorFlag(l, v) \in Reason \cup {None} /\ DescriptorFlag(l) \in Reason \cup {None}
        BY Flags DEF BooksInv
      <3>2. QED BY <3>1, Flags DEF BooksInv
    <2> HIDE DEF why
    <2> DEFINE q == Identified(NotStaged, v, why)
    <2>3. NotStaged \in Row /\ ~NotStaged.bridged /\ ~NotStaged.parked
      BY DEF NotStaged, Row
    <2>4. SoundRow(q) /\ q.bridged = NotStaged.bridged /\ q.parked = NotStaged.parked
      BY <2>2, <2>3, IdentifiedRow
    <2>5. line' = [line EXCEPT ![l] = q]
      BY <2>1 DEF why
    <2> HIDE DEF q
    <2>6. q.bridged = line[l].bridged /\ ~q.parked
      BY <2>3, <2>4, <1>2, <1>1 DEF SoundRow, Row
    <2>7. QED BY <2>4, <2>5, <2>6, <1>3, RowStep
  <1>6. QED BY <1>4, <1>5 DEF Stage

\* A join, and an identified line of a reidentify pass.
LEMMA IdentifyStep ==
    ASSUME BooksInv, NEW l \in Line, NEW v \in Vendor, NEW why \in Reason \cup {None},
           line' = [line EXCEPT ![l] = Identified(line[l], v, why)],
           UNCHANGED <<birth, pairing, payees>>,
           retro' \subseteq Update, flagging' \subseteq Line
    PROVE  BooksInv'
  <1> DEFINE q == Identified(line[l], v, why)
  <1>1. line[l] \in Row
    BY LineTyped DEF SoundRow
  <1>2. SoundRow(q) /\ q.bridged = line[l].bridged /\ q.parked = line[l].parked
    BY <1>1, IdentifiedRow
  <1>3. line' = [line EXCEPT ![l] = q]
    OBVIOUS
  <1> HIDE DEF q
  <1>4. QED BY <1>2, <1>3, RowStep

LEMMA RegisterJoinStep ==
    ASSUME BooksInv, NEW l \in Line, NEW v \in Vendor, RegisterJoin(l, v)
    PROVE  BooksInv'
  <1> DEFINE why == IF kind[v] = "owner_affiliate" THEN "affiliate_transfer" ELSE line[l].why
  <1>1. line[l].why \in Reason \cup {None}
    BY LineTyped DEF SoundRow, Row
  <1>2. why \in Reason \cup {None}
    BY <1>1 DEF Reason
  <1>3. line' = [line EXCEPT ![l] = Identified(line[l], v, why)]
    BY DEF RegisterJoin, BooksInv, TypeOK
  <1> HIDE DEF why
  <1>4. UNCHANGED <<birth, pairing, payees>> /\ retro' \subseteq Update /\ flagging' \subseteq Line
    BY DEF RegisterJoin, BooksInv, TypeOK, passes
  <1>5. QED BY <1>2, <1>3, <1>4, IdentifyStep

LEMMA ReidentifyStep ==
    ASSUME BooksInv, NEW u \in retro, Reidentify(u)
    PROVE  BooksInv'
  <1>1. u \in Update
    BY DEF BooksInv, TypeOK
  <1> DEFINE l == u.of
             v == u.vendor
             why == Over(u.why, line[l].why)
  <1>2. l \in Line /\ v \in Vendor /\ u.why \in Reason \cup {None}
    BY <1>1 DEF Update
  <1>3. why \in Reason \cup {None}
    <2>1. line[l].why \in Reason \cup {None}
      BY <1>2, LineTyped DEF SoundRow, Row
    <2>2. QED BY <2>1, <1>2 DEF Over
  <1>4. line' = [line EXCEPT ![l] = Identified(line[l], v, why)]
    BY <1>2 DEF Reidentify, Reidentified, BooksInv, TypeOK
  <1> HIDE DEF l, v, why
  <1>5. UNCHANGED <<birth, pairing, payees>> /\ retro' \subseteq Update /\ flagging' \subseteq Line
    BY DEF Reidentify, BooksInv, TypeOK
  <1>6. QED BY <1>2, <1>3, <1>4, <1>5, IdentifyStep

\* A flag changed on a line.
LEMMA ReasonStep ==
    ASSUME BooksInv, NEW l \in Line, NEW why \in Reason,
           line' = [line EXCEPT ![l].why = why],
           UNCHANGED <<birth, pairing, payees>>,
           retro' \subseteq Update, flagging' \subseteq Line
    PROVE  BooksInv'
  <1> DEFINE q == [line[l] EXCEPT !.why = why]
  <1>1. SoundRow(line[l]) /\ line[l] \in Row
    BY LineTyped DEF SoundRow
  <1>2. SoundRow(q) /\ q.bridged = line[l].bridged /\ q.parked = line[l].parked
    BY <1>1 DEF SoundRow, Row
  <1>3. line' = [line EXCEPT ![l] = q]
    BY DEF BooksInv, TypeOK
  <1> HIDE DEF q
  <1>4. QED BY <1>2, <1>3, RowStep

\* A line set aside, or taken back.
LEMMA ParkStep ==
    ASSUME BooksInv, NEW l \in Line, NEW p \in BOOLEAN,
           line' = [line EXCEPT ![l].parked = p], p => Unbridged(l),
           UNCHANGED <<birth, pairing, payees, passes>>
    PROVE  BooksInv'
  <1> DEFINE q == [line[l] EXCEPT !.parked = p]
  <1>1. SoundRow(line[l]) /\ line[l] \in Row
    BY LineTyped DEF SoundRow
  <1>2. SoundRow(q) /\ q.bridged = line[l].bridged /\ q.parked = p
    BY <1>1 DEF SoundRow, Row
  <1>3. line' = [line EXCEPT ![l] = q]
    BY DEF BooksInv, TypeOK
  <1>4. retro' \subseteq Update /\ flagging' \subseteq Line
    BY DEF BooksInv, TypeOK, passes
  <1> HIDE DEF q
  <1>5. q.parked => line[l].parked \/ ~q.bridged
    BY <1>2 DEF Unbridged
  <1>6. QED BY <1>2, <1>3, <1>4, <1>5, RowStep

-----------------------------------------------------------------------------
\* One line's marker and money events changed together.
LEMMA BookStep ==
    ASSUME BooksInv, NEW l \in Line, NEW row, SoundRow(row), NEW groups \in Seq(Group),
           row.bridged => OneGroup(l, groups), ~row.bridged => groups = <<>>,
           row.parked => ~row.bridged,
           line' = [line EXCEPT ![l] = row], birth' = [birth EXCEPT ![l] = groups],
           UNCHANGED <<pairing, payees, passes>>
    PROVE  BooksInv'
  <1>1. row \in Row /\ line \in [Line -> Row] /\ birth \in [Line -> Seq(Group)]
    BY DEF SoundRow, BooksInv, TypeOK
  <1>2. line' \in [Line -> Row] /\ birth' \in [Line -> Seq(Group)]
    BY <1>1
  <1>3. /\ line'[l] = row /\ birth'[l] = groups
        /\ \A m \in Line \ {l} : line'[m] = line[m] /\ birth'[m] = birth[m]
    BY <1>1
  <1>4. \A m \in Line : line'[m].vendor # None <=> line'[m].status = "identified"
    BY <1>3 DEF SoundRow, BooksInv, TypeOK
  <1>5. TypeOK'
    BY <1>2, <1>4 DEF BooksInv, TypeOK, payees, passes
  <1>6. MarkedIsProven'
    BY <1>3 DEF SoundRow, BooksInv, MarkedIsProven, Proven
  <1>7. OneBirth'
    BY <1>3 DEF BooksInv, OneBirth, OneGroup
  <1>8. ParkedIsUnresolved'
    BY <1>3 DEF BooksInv, ParkedIsUnresolved
  <1>9. PairedToTheCent'
    BY DEF BooksInv, PairedToTheCent, Paired
  <1>10. QED BY <1>5, <1>6, <1>7, <1>8, <1>9 DEF BooksInv

LEMMA SplitStep ==
    ASSUME BooksInv, NEW l \in Line, NEW a \in Mills, NEW b \in Mills, Split(l, a, b)
    PROVE  BooksInv'
  <1>1. Bridgeable(l) /\ Worth(l, <<a, b>>)
    <2>1. PICK c \in 0..Magnitude(l), d \in 0..Magnitude(l) :
              RoundsTo(a, c) /\ RoundsTo(b, d) /\ c + d = Magnitude(l)
      BY DEF Split
    <2>2. Magnitude(l) \in Nat /\ a \in Nat /\ b \in Nat
      <3>1. Cents[l] \in Int
        BY LinesAssumption
      <3>2. Mills \subseteq Nat
        BY PayeesAssumption
      <3>3. QED BY <3>1, <3>2 DEF Magnitude
    <2>3. InMills(l) - 10 <= a + b /\ a + b <= InMills(l) + 10
      BY <2>1, <2>2 DEF RoundsTo, InMills
    <2>4. Len(<<a, b>>) = 2 /\ Total(<<a, b>>) = a + b
      BY DEF Total
    <2> DEFINE parts == <<a, b>>
    <2>5. Worth(l, parts)
      <3>1. Len(parts) = 2 /\ InMills(l) - 10 <= Total(parts) /\ Total(parts) <= InMills(l) + 10
        BY <2>3, <2>4
      <3> HIDE DEF parts
      <3>2. QED BY <3>1 DEF Worth
    <2>6. Bridgeable(l)
      BY DEF Split, Splittable
    <2>7. QED BY <2>5, <2>6
  <1>2. <<a, b>> \in Seq(Nat)
    BY PayeesAssumption
  <1> DEFINE row == Marked(line[l])
             groups == Born(l, <<a, b>>)
  <1>3. SoundRow(line[l]) /\ line[l].status = "identified"
    BY <1>1, LineTyped DEF Bridgeable, Proven
  <1>4. SoundRow(row) /\ row.bridged /\ ~row.parked
    BY <1>3, MarkedRow
  <1>5. groups \in Seq(Group) /\ OneGroup(l, groups)
    BY <1>1, <1>2, FirstGroup
  <1>6. /\ line' = [line EXCEPT ![l] = row] /\ birth' = [birth EXCEPT ![l] = groups]
        /\ UNCHANGED <<pairing, payees, passes>>
    BY DEF Split
  <1> HIDE DEF row, groups
  <1>7. QED BY <1>4, <1>5, <1>6, BookStep

LEMMA UnbridgeStep ==
    ASSUME BooksInv, NEW l \in Line, Unbridge(l)
    PROVE  BooksInv'
  <1> DEFINE row == [line[l] EXCEPT !.bridged = FALSE]
             groups == Dropped(birth[l])
  <1>1. birth[l] \in Seq(Group) /\ Len(birth[l]) = 1
    BY DEF Unbridge, BooksInv, TypeOK, OneBirth
  <1>2. groups = <<>>
    BY <1>1 DEF Dropped
  <1>3. SoundRow(line[l]) /\ line[l] \in Row
    BY LineTyped DEF SoundRow
  <1>4. SoundRow(row) /\ ~row.bridged
    BY <1>3 DEF SoundRow, Row
  <1>5. /\ line' = [line EXCEPT ![l] = row] /\ birth' = [birth EXCEPT ![l] = groups]
        /\ UNCHANGED <<pairing, payees, passes>>
    BY DEF Unbridge, BooksInv, TypeOK
  <1>6. groups \in Seq(Group)
    BY <1>2
  <1> HIDE DEF row, groups
  <1>7. QED BY <1>2, <1>4, <1>5, <1>6, BookStep

-----------------------------------------------------------------------------
\* Pairing: a draft replaces a draft, and a confirmation starts from none.
LEMMA PairingStep ==
    ASSUME BooksInv, NEW l \in Line,
           (\E draft \in Drafts : Propose(l, draft))
               \/ ConfirmPairing(l) \/ Unpair(l)
    PROVE  BooksInv'
  <1> DEFINE Pair == [proposed : SUBSET Entry, confirmed : SUBSET Entry]
  <1>1. pairing \in [Line -> Pair]
    BY DEF BooksInv, TypeOK
  <1>2. UNCHANGED <<line, birth, payees, passes>>
    BY DEF Propose, ConfirmPairing, Unpair
  <1>3. PICK p \in Pair : /\ pairing' = [pairing EXCEPT ![l] = p]
                          /\ p.confirmed # {} => /\ Sum(p.confirmed) = Magnitude(l)
                                                 /\ p.proposed = {}
    <2>1. CASE \E draft \in SUBSET Entry : Propose(l, draft)
      <3>1. PICK draft \in SUBSET Entry : Propose(l, draft)
        BY <2>1
      <3> DEFINE q == [pairing[l] EXCEPT !.proposed = draft]
      <3>2. q \in Pair /\ q.confirmed = {}
        BY <1>1, <3>1 DEF Propose, OpenForDraft, Paired
      <3>3. pairing' = [pairing EXCEPT ![l] = q]
        BY <1>1, <3>1 DEF Propose
      <3> HIDE DEF q
      <3>4. QED BY <3>2, <3>3
    <2>2. CASE ConfirmPairing(l)
      <3> DEFINE q == [proposed |-> {},
                       confirmed |-> pairing[l].confirmed \cup pairing[l].proposed]
      <3>1. pairing[l].confirmed = {}
        BY <2>2 DEF ConfirmPairing, OpenForDraft, Paired
      <3>2. q \in Pair /\ q.proposed = {}
        BY <1>1
      <3>3. q.confirmed = pairing[l].proposed
        BY <3>1
      <3>4. Sum(q.confirmed) = Magnitude(l)
        BY <2>2, <3>3 DEF ConfirmPairing
      <3>5. pairing' = [pairing EXCEPT ![l] = q]
        BY <1>1, <2>2 DEF ConfirmPairing
      <3> HIDE DEF q
      <3>6. QED BY <3>2, <3>4, <3>5
    <2>3. CASE Unpair(l)
      <3> DEFINE q == [pairing[l] EXCEPT !.confirmed = {}]
      <3>1. q \in Pair /\ q.confirmed = {}
        BY <1>1
      <3>2. pairing' = [pairing EXCEPT ![l] = q]
        BY <1>1, <2>3 DEF Unpair
      <3> HIDE DEF q
      <3>3. QED BY <3>1, <3>2
    <2>4. QED BY <2>1, <2>2, <2>3 DEF Drafts
  <1>4. /\ pairing' \in [Line -> Pair] /\ pairing'[l] = p
        /\ \A m \in Line \ {l} : pairing'[m] = pairing[m]
    BY <1>1, <1>3
  <1>5. PairedToTheCent'
    BY <1>3, <1>4 DEF BooksInv, PairedToTheCent, Paired
  <1>6. TypeOK'
    BY <1>2, <1>4 DEF BooksInv, TypeOK, payees, passes
  <1>7. MarkedIsProven' /\ OneBirth' /\ ParkedIsUnresolved'
    BY <1>2 DEF BooksInv, MarkedIsProven, Proven, OneBirth, ParkedIsUnresolved
  <1>8. QED BY <1>5, <1>6, <1>7 DEF BooksInv

\* What leaves the lines, their events and their pairings alone.
LEMMA PayeeStep ==
    ASSUME BooksInv, UNCHANGED lines,
           kind' \in [Vendor -> VendorType], \A v \in Vendor : kind'[v] \in Kinds[v],
           alias' \in [Token -> Vendor \cup {None}],
           multi' \subseteq Vendor, trusted' \subseteq Vendor,
           retro' \subseteq Update, flagging' \subseteq Line
    PROVE  BooksInv'
  BY DEF BooksInv, TypeOK, MarkedIsProven, Proven, OneBirth, ParkedIsUnresolved,
         PairedToTheCent, Paired, lines

-----------------------------------------------------------------------------
LEMMA BooksInit == Init => BooksInv
  <1> SUFFICES ASSUME Init PROVE BooksInv
    OBVIOUS
  <1>1. TypeOK
    BY DEF Init, TypeOK, NotStaged, Row
  <1>2. MarkedIsProven /\ OneBirth /\ ParkedIsUnresolved /\ PairedToTheCent
    BY DEF Init, NotStaged, MarkedIsProven, OneBirth, ParkedIsUnresolved, PairedToTheCent, Paired
  <1>3. QED BY <1>1, <1>2 DEF BooksInv

LEMMA BooksKept == BooksInv /\ [Next]_vars => BooksInv'
  <1> SUFFICES ASSUME BooksInv, [Next]_vars PROVE BooksInv'
    OBVIOUS
  <1> USE DEF lines, payees, passes
  <1>1. ASSUME NEW l \in Line, Stage(l) PROVE BooksInv'
    BY <1>1, StageStep
  <1>2. ASSUME NEW l \in Line, RegisterMismatch(l) PROVE BooksInv'
    <2>1. "amount_mismatch" \in Reason
      BY DEF Reason
    <2>2. QED BY <1>2, <2>1, ReasonStep DEF RegisterMismatch, BooksInv, TypeOK
  <1>3. ASSUME NEW l \in Line, FlagReturn(l) PROVE BooksInv'
    <2>1. "payment_return" \in Reason
      BY DEF Reason
    <2>2. flagging' \subseteq Line /\ retro' \subseteq Update
      BY <1>3 DEF FlagReturn, BooksInv, TypeOK
    <2>3. QED BY <1>3, <2>1, <2>2, ReasonStep DEF FlagReturn
  <1>4. ASSUME NEW l \in Line, BridgeOne(l) PROVE BooksInv'
    BY <1>4, BridgeStep DEF BridgeOne, OneByOne
  <1>5. ASSUME NEW l \in Line, Unbridge(l) PROVE BooksInv'
    BY <1>5, UnbridgeStep
  <1>6. ASSUME NEW l \in Line, Park(l) \/ Unpark(l) PROVE BooksInv'
    BY <1>6, ParkStep DEF Park, Unpark
  <1>7. ASSUME NEW l \in Line, ConfirmPairing(l) \/ Unpair(l) PROVE BooksInv'
    BY <1>7, PairingStep
  <1>8. ASSUME NEW l \in Line, NEW v \in Vendor, RegisterJoin(l, v) PROVE BooksInv'
    BY <1>8, RegisterJoinStep
  <1>9. ASSUME NEW l \in Line, NEW a \in Mills, NEW b \in Mills, Split(l, a, b) PROVE BooksInv'
    BY <1>9, SplitStep
  <1>10. ASSUME NEW l \in Line, NEW draft \in Drafts, Propose(l, draft) PROVE BooksInv'
    BY <1>10, PairingStep
  <1>11. ASSUME NEW v \in Vendor,
                SetMultiNature(v) \/ Grant(v) \/ Revoke(v) \/ \E t \in Token : SeedAlias(t, v)
         PROVE  BooksInv'
    BY <1>11, PayeeStep DEF SetMultiNature, Grant, Revoke, SeedAlias, BooksInv, TypeOK
  <1>12. ASSUME NEW v \in Vendor, BridgeVendor(v) PROVE BooksInv'
    BY <1>12, BridgeStep DEF BridgeVendor, Eligible
  <1>13. ASSUME NEW u \in retro, Reidentify(u) PROVE BooksInv'
    BY <1>13, ReidentifyStep
  <1>14. ASSUME NEW B \in SUBSET SelfConfirming, BridgeAuto(B) PROVE BooksInv'
    <2>1. B \in SUBSET Line /\ \A l \in B : Bridgeable(l)
      BY DEF SelfConfirming, Eligible
    <2>2. QED BY <1>14, <2>1, BridgeStep DEF BridgeAuto
  <1>15. ASSUME BeginFlagReturns \/ BeginReidentify \/ StopPass PROVE BooksInv'
    BY <1>15, PayeeStep DEF BeginFlagReturns, BeginReidentify, StopPass, BooksInv, TypeOK
  <1>16. ASSUME UNCHANGED vars PROVE BooksInv'
    BY <1>16, PayeeStep DEF vars, BooksInv, TypeOK
  <1>17. ASSUME NEW v \in Vendor, NEW k \in Kinds[v], SeedVendor(v, k) PROVE BooksInv'
    <2>1. k \in VendorType /\ kind' = [kind EXCEPT ![v] = k]
      BY <1>17, PayeesAssumption DEF SeedVendor
    <2>2. kind \in [Vendor -> VendorType] /\ \A w \in Vendor : kind[w] \in Kinds[w]
      BY DEF BooksInv, TypeOK
    <2>3. kind' \in [Vendor -> VendorType] /\ \A w \in Vendor : kind'[w] \in Kinds[w]
      BY <2>1, <2>2
    <2>4. QED BY <1>17, <2>3, PayeeStep DEF SeedVendor, BooksInv, TypeOK
  <1>18. QED
    BY <1>1, <1>2, <1>3, <1>4, <1>5, <1>6, <1>7, <1>8, <1>9, <1>10, <1>11, <1>12,
       <1>13, <1>14, <1>15, <1>16, <1>17 DEF Next

LEMMA BooksHold == Spec => []BooksInv
  BY BooksInit, BooksKept, PTL DEF Spec

\* The variables keep their types, whatever the constants.
THEOREM BooksTypeCorrect == Spec => []TypeOK
  BY BooksHold, PTL DEF BooksInv

\* A marked line has one group of money events, from a debit: one event worth
\* the line exactly, or a split within half a cent for each allocation (see
\* SplitToTheCent for why no nearer).  An unmarked line has none.
THEOREM OneEventPerLine == Spec => []OneBirth
  BY BooksHold, PTL DEF BooksInv

\* A parked line is in no book.
THEOREM ParkedStaysExposed == Spec => []ParkedIsUnresolved
  BY BooksHold, PTL DEF BooksInv

\* A confirmed pairing ties to the cent.
THEOREM PairingsTie == Spec => []PairedToTheCent
  BY BooksHold, PTL DEF BooksInv

-----------------------------------------------------------------------------
\* A flagged return keeps its flag from staging on, the updates in flight for
\* it carry no flag, and it has no money event.
Return(l) == l \in Line \ Legacy /\ Flag[l] = "payment_return"
KeptOut(l) ==
    /\ line[l].status # "none" => line[l].why = "payment_return"
    /\ birth[l] = <<>>
    /\ \A u \in retro : u.of = l => u.why = None /\ line[l].status # "none"
ReturnInv ==
    ReturnsNamePlainPayees =>
        /\ \A t \in Token : alias[t] # None => <<t, alias[t]>> \in Teachable
        /\ \A l \in Line : Return(l) => KeptOut(l)

LEMMA ReturnInit == Init => ReturnInv
  BY DEF Init, ReturnInv, KeptOut, NotStaged

\* A return whose line is left alone, with no new update in flight.
LEMMA LeftAlone ==
    ASSUME NEW l \in Line, KeptOut(l), UNCHANGED <<line[l], birth[l]>>, retro' \subseteq retro
    PROVE  KeptOut(l)'
  BY DEF KeptOut

\* The one payee of a return is a plain one.
LEMMA PlainPayee ==
    ASSUME BooksInv, ReturnInv, ReturnsNamePlainPayees, NEW l \in Line, Return(l),
           NEW v \in Vendor, OnePayee(l, v)
    PROVE  VendorFlag(l, v) = None
  <1>0. kind[v] \in Kinds[v]
    BY DEF BooksInv, TypeOK
  <1>1. v \in {alias[t] : t \in Carries[l]} /\ v # None
    BY LinesAssumption DEF OnePayee, Hits
  <1>2. PICK t \in Carries[l] : alias[t] = v
    BY <1>1
  <1>3. t \in Token
    BY PayeesAssumption
  <1>4. <<t, v>> \in Teachable
    BY <1>1, <1>2, <1>3 DEF ReturnInv
  <1>5. QED BY <1>0, <1>2, <1>4 DEF ReturnsNamePlainPayees, Return, VendorFlag

LEMMA ReturnKept == BooksInv /\ ReturnInv /\ [Next]_vars => ReturnInv'
  <1> SUFFICES ASSUME BooksInv, ReturnInv, [Next]_vars, ReturnsNamePlainPayees
               PROVE  /\ \A t \in Token : alias'[t] # None => <<t, alias'[t]>> \in Teachable
                      /\ \A l \in Line : Return(l) => KeptOut(l)'
    BY DEF ReturnInv, ReturnsNamePlainPayees, KindFlag, Debit
  <1> USE DEF lines, payees, passes
  <1>1. \A t \in Token : alias'[t] # None => <<t, alias'[t]>> \in Teachable
    <2>1. CASE \E v \in Vendor, t \in Token : SeedAlias(t, v)
      <3>1. PICK v \in Vendor, t \in Token : SeedAlias(t, v)
        BY <2>1
      <3>2. <<t, v>> \in Teachable /\ alias' = [alias EXCEPT ![t] = v] /\ alias \in [Token -> Vendor \cup {None}]
        BY <3>1 DEF SeedAlias, BooksInv, TypeOK
      <3>3. alias'[t] = v /\ \A s \in Token \ {t} : alias'[s] = alias[s]
        BY <3>2
      <3>4. QED BY <3>2, <3>3 DEF ReturnInv
    <2>2. CASE UNCHANGED alias
      BY <2>2 DEF ReturnInv
    <2>3. QED
      BY <2>1, <2>2 DEF Next, vars, Stage, RegisterMismatch, FlagReturn, BridgeOne, Unbridge,
         Park, Unpark, ConfirmPairing, Unpair, RegisterJoin, Split, Propose, SetMultiNature,
         BridgeVendor, Grant, Revoke, Reidentify, BridgeAuto, BridgeAll, BeginFlagReturns,
         BeginReidentify, StopPass, SeedVendor
  <1>2. ASSUME NEW l \in Line, Return(l) PROVE KeptOut(l)'
    <2>0. /\ KeptOut(l) /\ l \notin Check /\ l \notin Legacy /\ Flag[l] = "payment_return"
          /\ line \in [Line -> Row] /\ birth \in [Line -> Seq(Group)]
      BY <1>2, LinesAssumption DEF Return, ReturnInv, BooksInv, TypeOK
    <2>1. ASSUME NEW m \in Line, Stage(m) PROVE KeptOut(l)'
      <3>1. CASE m # l
        BY <2>0, <2>1, <3>1, LeftAlone DEF Stage
      <3>2. CASE m = l
        <4>1. \A u \in retro' : u.of # l
          BY <2>0, <2>1, <3>2 DEF Stage, KeptOut
        <4>2. birth'[l] = <<>>
          BY <2>0, <2>1, <3>2 DEF Stage, KeptOut
        <4>3. \A why : Over(DescriptorFlag(l), why) = "payment_return"
          BY <2>0, LinesAssumption DEF Over, DescriptorFlag, Reason
        <4>4. \A why : Claimed(l, why).why = "payment_return"
          BY <4>3 DEF Claimed, NotStaged
        <4>5. \A v, why : Identified(NotStaged, v, Over(DescriptorFlag(l), why)).why = "payment_return"
          BY <4>3 DEF Identified, NotStaged
        <4>6. line'[l].why = "payment_return"
          BY <2>0, <2>1, <3>2, <4>4, <4>5 DEF Stage
        <4>7. QED BY <4>1, <4>2, <4>6 DEF KeptOut
      <3>3. QED BY <3>1, <3>2
    <2>2. ASSUME NEW m \in Line, RegisterMismatch(m) \/ \E v \in Vendor : RegisterJoin(m, v)
          PROVE  KeptOut(l)'
      <3>1. line'[l] = line[l] /\ UNCHANGED <<birth, retro>>
        BY <2>0, <2>2 DEF RegisterMismatch, RegisterJoin
      <3>2. QED BY <2>0, <3>1, LeftAlone
    <2>3. ASSUME NEW m \in Line, FlagReturn(m) \/ Park(m) \/ Unpark(m) PROVE KeptOut(l)'
      <3>1. /\ line'[l].status = line[l].status /\ UNCHANGED <<birth, retro>>
            /\ line'[l].why \in {line[l].why, "payment_return"}
        <4>1. PICK q \in Row : /\ line' = [line EXCEPT ![m] = q] /\ q.status = line[m].status
                               /\ q.why \in {line[m].why, "payment_return"}
          <5>1. CASE FlagReturn(m)
            <6> DEFINE q == [line[m] EXCEPT !.why = "payment_return"]
            <6>1. q \in Row /\ q.status = line[m].status /\ q.why = "payment_return"
              BY <2>0 DEF Row, Reason
            <6>2. line' = [line EXCEPT ![m] = q]
              BY <5>1 DEF FlagReturn
            <6> HIDE DEF q
            <6>3. QED BY <6>1, <6>2
          <5>2. CASE \E p \in BOOLEAN : line' = [line EXCEPT ![m].parked = p]
            <6>1. PICK p \in BOOLEAN : line' = [line EXCEPT ![m].parked = p]
              BY <5>2
            <6> DEFINE q == [line[m] EXCEPT !.parked = p]
            <6>2. q \in Row /\ q.status = line[m].status /\ q.why = line[m].why
              BY <2>0 DEF Row
            <6>3. line' = [line EXCEPT ![m] = q]
              BY <6>1
            <6> HIDE DEF q
            <6>4. QED BY <6>2, <6>3
          <5>3. QED BY <2>3, <5>1, <5>2 DEF Park, Unpark
        <4>2. UNCHANGED <<birth, retro>>
          BY <2>3 DEF FlagReturn, Park, Unpark
        <4>3. QED BY <2>0, <4>1, <4>2
      <3>2. QED BY <2>0, <3>1 DEF KeptOut
    <2>4. ASSUME NEW B \in SUBSET Line, BridgeAll(B), \A m \in B : OneByOne(m)
          PROVE  KeptOut(l)'
      <3>1. l \notin B
        BY <2>0, <2>4 DEF OneByOne, Bridgeable, Proven, KeptOut
      <3>2. line'[l] = line[l] /\ birth'[l] = birth[l] /\ UNCHANGED retro
        BY <2>4, <3>1 DEF BridgeAll
      <3>3. QED BY <2>0, <3>2, LeftAlone
    <2>5. ASSUME NEW m \in Line, Unbridge(m) \/ \E a, b \in Mills : Split(m, a, b)
          PROVE  KeptOut(l)'
      <3>1. m # l
        <4>1. ~line[l].bridged
          BY <2>0 DEF KeptOut, BooksInv, OneBirth
        <4>2. ~Splittable(l)
          BY <2>0 DEF KeptOut, Splittable, Bridgeable, Proven
        <4>3. QED BY <2>5, <4>1, <4>2 DEF Unbridge, Split
      <3>2. line'[l] = line[l] /\ birth'[l] = birth[l] /\ UNCHANGED retro
        BY <2>0, <2>5, <3>1 DEF Unbridge, Split
      <3>3. QED BY <2>0, <3>2, LeftAlone
    <2>6. ASSUME NEW u \in retro, Reidentify(u) PROVE KeptOut(l)'
      <3>1. retro' \subseteq retro /\ UNCHANGED birth
        BY <2>6 DEF Reidentify
      <3>2. CASE u.of # l
        BY <2>0, <2>6, <3>1, <3>2, LeftAlone DEF Reidentify
      <3>3. CASE u.of = l
        <4>1. u.why = None /\ line[l].why = "payment_return"
          BY <2>0, <3>3 DEF KeptOut
        <4>2. line'[l] = Identified(line[l], u.vendor, line[l].why)
          BY <2>0, <2>6, <3>3, <4>1 DEF Reidentify, Reidentified, Over
        <4>3. line[l] \in Row
          BY <2>0
        <4>4. line'[l].why = "payment_return" /\ line'[l].status = "identified"
          BY <4>1, <4>2, <4>3 DEF Identified, Row
        <4>5. QED BY <2>0, <3>1, <4>4 DEF KeptOut
      <3>4. QED BY <3>2, <3>3
    <2>7. ASSUME BeginReidentify PROVE KeptOut(l)'
      <3>1. ASSUME NEW u \in retro', u.of = l PROVE u.why = None /\ line[l].status # "none"
        <4>1. /\ u \in Update /\ line[l].status = "claimed" /\ OnePayee(l, u.vendor)
              /\ u.why = VendorFlag(l, u.vendor)
          BY <2>7, <3>1 DEF BeginReidentify
        <4>2. u.vendor \in Vendor
          BY <4>1 DEF Update
        <4>3. QED BY <4>1, <4>2, <1>2, PlainPayee
      <3>2. UNCHANGED <<line, birth>>
        BY <2>7 DEF BeginReidentify
      <3>3. QED BY <2>0, <3>1, <3>2 DEF KeptOut
    <2>8. ASSUME UNCHANGED <<line, birth>>, retro' \subseteq retro PROVE KeptOut(l)'
      BY <2>0, <2>8, LeftAlone
    <2>9. CASE \E m \in Line : BridgeOne(m)
      BY <2>4, <2>9 DEF BridgeOne
    <2>10. CASE \E v \in Vendor : BridgeVendor(v)
      <3>1. PICK v \in Vendor : BridgeAll({m \in Line : Eligible(m) /\ line[m].vendor = v})
        BY <2>10 DEF BridgeVendor
      <3>2. \A m \in Line : Eligible(m) => OneByOne(m)
        BY LinesAssumption DEF Eligible, OneByOne, Reason
      <3>3. QED BY <2>4, <3>1, <3>2
    <2>11. CASE \E B \in SUBSET SelfConfirming : BridgeAuto(B)
      <3>1. PICK B \in SUBSET SelfConfirming : BridgeAll(B)
        BY <2>11 DEF BridgeAuto
      <3>2. B \in SUBSET Line /\ \A m \in B : OneByOne(m)
        BY LinesAssumption DEF SelfConfirming, Eligible, OneByOne, Reason
      <3>3. QED BY <2>4, <3>1, <3>2
    <2>12. QED
      BY <2>1, <2>2, <2>3, <2>5, <2>6, <2>7, <2>8, <2>9, <2>10, <2>11
         DEF Next, vars, ConfirmPairing, Unpair, Propose, SetMultiNature, Grant, Revoke, SeedAlias, SeedVendor,
             BeginFlagReturns, StopPass
  <1>3. QED BY <1>1, <1>2

\* A return flagged at staging never reaches the books.
THEOREM ReturnsStayOut == Spec => []ReturnsNeverExpenses
  <1>1. ReturnInv => ReturnsNeverExpenses
    BY DEF ReturnInv, ReturnsNeverExpenses, Return, KeptOut
  <1>2. QED BY <1>1, BooksHold, ReturnInit, ReturnKept, PTL DEF Spec
=============================================================================
