---------------------------- MODULE MCBankBridge ----------------------------
(* A small statement for BankBridge: a tenant's returned payment, a return *)
(* staged before returns had a flag, and a check.                          *)
EXTENDS BankBridgeProperties, TLC

CONSTANTS ret, old, chk, t1, t2, v1, v2

Amounts == [l \in Line |-> IF l = old THEN -3 ELSE -2]
Descriptors == [l \in Line |-> IF l \in {ret, old} THEN "payment_return" ELSE None]
Aliases == [l \in Line |-> CASE l = ret -> {t2} [] l = old -> {t1, t2} [] OTHER -> {}]
Types == [v \in Vendor |-> IF v = v2 THEN {"vendor", "owner_affiliate"} ELSE {"vendor"}]

\* The answer key gives ret's alias to a plain vendor, or to anyone.
PlainForReturns == {<<t1, v2>>, <<t2, v1>>}
AnyVendor == Token \X Vendor

Symmetry == Permutations(Receipt)
=============================================================================
