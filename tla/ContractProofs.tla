--------------------------- MODULE ContractProofs ---------------------------
(* The contracts keep their promises, and so does whatever implements them. *)
EXTENDS HandoffContract, Integers, TLAPS

CONSTANTS Home, NoHome, Terms, Leases
VARIABLE letting
Ledger == INSTANCE HomeLedger

CONSTANTS Link, FollowUp, Nothing
VARIABLES link, texted
Links == INSTANCE LinkContract

-----------------------------------------------------------------------------
(* A lease handed off. *)

\* Delivery is owed from completion on and never without it, the clock runs
\* only after delivery, and an ended application owes neither: what every
\* implementation of the contract inherits.
THEOREM PromiseKept == Spec => []Promise
<1>1. Init => Promise
  BY DEF Init, Promise, Stages
<1>2. Promise /\ [Next]_contract => Promise'
  <2> SUFFICES ASSUME Promise, [Next]_contract PROVE Promise'
    OBVIOUS
  <2> USE DEF Promise, Stages, CalledOff
  <2>1. CASE Arrive
    BY <2>1 DEF Arrive
  <2>7. CASE Complete
    BY <2>7 DEF Complete
  <2>5. CASE Deliver
    BY <2>5 DEF Deliver
  <2>6. CASE Sign
    BY <2>6 DEF Sign
  <2>2. CASE End
    BY <2>2 DEF End
  <2>3. CASE LapseRequest \/ LapseClock
    BY <2>3 DEF LapseRequest, LapseClock
  <2>4. CASE UNCHANGED contract
    BY <2>4 DEF contract
  <2> QED BY <2>1, <2>2, <2>3, <2>4, <2>5, <2>6, <2>7 DEF Next
<1> QED BY <1>1, <1>2, PTL DEF Spec

-----------------------------------------------------------------------------
(* The ledger of a property's homes. *)

Entry == [state : {"unused", "let", "void"}, home : Home \union {NoHome},
          term : Terms \union {{}}, asked : BOOLEAN, revived : BOOLEAN]
InOrder ==
    \A k, l \in Leases : k < l /\ letting[k].state = "unused" => letting[l].state = "unused"
LedgerInv == letting \in [Leases -> Entry] /\ InOrder /\ Ledger!OneLetting

LEMMA LettingKept ==
    ASSUME Leases \subseteq Int, LedgerInv, NEW l \in Leases, NEW h \in Home, NEW t \in Terms,
           NEW asked \in BOOLEAN, Ledger!NextUnused(l), Ledger!NewLetting(l, h, t, asked),
           asked => \A k \in Ledger!Against(h, t) : letting[k].revived
    PROVE  LedgerInv'
<1> DEFINE new == [state |-> "let", home |-> h, term |-> t, asked |-> asked, revived |-> FALSE]
<1>1. \A k \in Leases : letting'[k] = IF k = l THEN new ELSE letting[k]
  BY DEF LedgerInv, Ledger!NewLetting
<1>2. letting' \in [Leases -> Entry]
  BY DEF LedgerInv, Ledger!NewLetting, Entry
<1>3. /\ \A k \in Leases : k < l => letting[k].state # "unused"
      /\ \A k \in Leases : k > l => letting[k].state = "unused"
  BY DEF LedgerInv, InOrder, Ledger!NextUnused
<1>4. InOrder'
  BY <1>1, <1>3 DEF LedgerInv, InOrder
<1>5. ASSUME NEW k \in Leases, NEW m \in Leases, k < m, Ledger!InForce(k)', Ledger!InForce(m)',
             letting'[k].home = letting'[m].home, letting'[k].term \cap letting'[m].term # {}
      PROVE  ~letting'[m].asked \/ letting'[k].revived \/ letting'[m].revived
  <2>1. CASE k # l /\ m # l
    BY <1>1, <1>5, <2>1 DEF LedgerInv, Ledger!OneLetting, Ledger!InForce
  <2>2. CASE m = l
    BY <1>1, <1>5, <2>2 DEF Ledger!Against, Ledger!InForce
  <2>3. CASE k = l
    BY <1>1, <1>3, <1>5, <2>3 DEF Ledger!InForce
  <2> QED  BY <2>1, <2>2, <2>3
<1> QED  BY <1>2, <1>4, <1>5 DEF LedgerInv, Ledger!OneLetting

\* Of two leases in force for one home and day the later one was imported, or one of
\* them was brought back, however many homes, leases and writers there are.
THEOREM OneLettingKept ==
    ASSUME Leases \subseteq Int PROVE Ledger!Spec => []Ledger!OneLetting
<1>1. Ledger!Init => LedgerInv
  BY DEF Ledger!Init, Ledger!Unused, LedgerInv, Entry, InOrder, Ledger!OneLetting,
         Ledger!InForce
<1>2. LedgerInv /\ [Ledger!Next]_letting => LedgerInv'
  <2> SUFFICES ASSUME LedgerInv, [Ledger!Next]_letting PROVE LedgerInv'
    OBVIOUS
  <2>1. ASSUME NEW l \in Leases, NEW h \in Home, NEW t \in Terms, Ledger!NextUnused(l),
               Ledger!Let(l, h, t)
        PROVE  LedgerInv'
    BY <2>1, LettingKept DEF Ledger!Let
  <2>2. ASSUME NEW l \in Leases, NEW h \in Home, NEW t \in Terms, Ledger!NextUnused(l),
               Ledger!Import(l, h, t)
        PROVE  LedgerInv'
    BY <2>2, LettingKept DEF Ledger!Import
  <2>3. ASSUME NEW l \in Leases, Ledger!Void(l) PROVE LedgerInv'
    <3>1. \A k \in Leases :
              letting'[k] = IF k = l THEN [letting[l] EXCEPT !.state = "void"] ELSE letting[k]
      BY <2>3 DEF LedgerInv, Ledger!Void
    <3>2. letting' \in [Leases -> Entry]
      BY <2>3 DEF LedgerInv, Ledger!Void, Entry
    <3>3. InOrder'
      BY <2>3, <3>1 DEF LedgerInv, InOrder, Ledger!Void, Ledger!InForce, Entry
    <3>4. Ledger!OneLetting'
      BY <3>1 DEF LedgerInv, Ledger!OneLetting, Ledger!InForce, Entry
    <3> QED  BY <3>2, <3>3, <3>4 DEF LedgerInv
  <2>4. ASSUME NEW l \in Leases, Ledger!BringBack(l) PROVE LedgerInv'
    <3>1. \A k \in Leases :
              /\ k # l => letting'[k] = letting[k]
              /\ k = l => /\ letting'[k].state = "let" /\ letting'[k].revived = TRUE
                         /\ letting'[k].home = letting[k].home
                         /\ letting'[k].term = letting[k].term
                         /\ letting'[k].asked = letting[k].asked
      BY <2>4 DEF LedgerInv, Ledger!BringBack, Entry
    <3>2. letting' \in [Leases -> Entry]
      BY <2>4, ZenonT(60) DEF LedgerInv, Ledger!BringBack, Entry
    <3>3. InOrder'
      BY <2>4, <3>1 DEF LedgerInv, InOrder, Ledger!BringBack
    <3>4. Ledger!OneLetting'
      BY <3>1 DEF LedgerInv, Ledger!OneLetting, Ledger!InForce
    <3> QED  BY <3>2, <3>3, <3>4 DEF LedgerInv
  <2>5. CASE UNCHANGED letting
    BY <2>5 DEF LedgerInv, InOrder, Ledger!OneLetting, Ledger!InForce
  <2> QED  BY <2>1, <2>2, <2>3, <2>4, <2>5 DEF Ledger!Next
<1>3. LedgerInv => Ledger!OneLetting  BY DEF LedgerInv
<1> QED  BY <1>1, <1>2, <1>3, PTL DEF Ledger!Spec

-----------------------------------------------------------------------------
(* The links of a conversation. *)

LinkInv ==
    /\ link \in [Link -> [fate : {"unused", "waiting", "sent", "used", "withdrawn", "given_up",
                                  "refused"},
                          of : FollowUp \union {Nothing}]]
    /\ Links!Promise

\* One link at a time, one recorded send per follow-up, no text for a link given up.
THEOREM OneLinkKept == Links!Spec => []Links!Promise
<1> USE DEF Links!Promise, Links!Current, Links!Answers
<1>1. Links!Init => LinkInv
  BY DEF Links!Init, Links!Unused, LinkInv
<1>2. LinkInv /\ [Links!Next]_Links!view => LinkInv'
  <2> SUFFICES ASSUME LinkInv, [Links!Next]_Links!view PROVE LinkInv'
    OBVIOUS
  <2> USE DEF LinkInv
  <2>1. ASSUME NEW i \in Link, NEW p \in FollowUp, Links!Issue(i, p) PROVE LinkInv'
    BY <2>1 DEF Links!Issue
  <2>2. ASSUME NEW i \in Link, NEW j \in Link, Links!Replace(i, j) PROVE LinkInv'
    <3> DEFINE new == [fate |-> "waiting", of |-> link[i].of]
    <3>1. i # j /\ new \in [fate : {"waiting"}, of : FollowUp \union {Nothing}]
      BY <2>2 DEF Links!Replace
    <3>2. \A k \in Link :
              link'[k] = IF k = j THEN new
                         ELSE IF k = i THEN [link[i] EXCEPT !.fate = "given_up"] ELSE link[k]
      BY <2>2, <3>1 DEF Links!Replace
    <3> QED  BY <2>2, <3>1, <3>2 DEF Links!Replace
  <2>3. ASSUME NEW i \in Link, Links!Text(i) PROVE LinkInv'
    BY <2>3 DEF Links!Text
  <2>4. ASSUME NEW i \in Link, Links!Record(i) PROVE LinkInv'
    BY <2>4 DEF Links!Record, Links!Turn
  <2>5. ASSUME NEW i \in Link, Links!GiveUp(i) \/ Links!Refuse(i) PROVE LinkInv'
    BY <2>5 DEF Links!GiveUp, Links!Refuse, Links!Turn
  <2>6. ASSUME NEW i \in Link, Links!Withdraw(i) \/ Links!Use(i) PROVE LinkInv'
    BY <2>6 DEF Links!Withdraw, Links!Use, Links!Turn
  <2>7. CASE UNCHANGED Links!view
    BY <2>7 DEF Links!view
  <2> QED  BY <2>1, <2>2, <2>3, <2>4, <2>5, <2>6, <2>7 DEF Links!Next
<1>3. LinkInv => Links!Promise  BY DEF LinkInv
<1> QED  BY <1>1, <1>2, <1>3, PTL DEF Links!Spec
=============================================================================
