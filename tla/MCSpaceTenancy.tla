--------------------------- MODULE MCSpaceTenancy ---------------------------
(* Instances of SpaceTenancy for TLC. *)
EXTENDS SpaceTenancyProperties, TLC
CONSTANTS h2, a1, a2, h1, p1, s1, s2, r1, r2

OneHome == [a \in Application |-> h1]
NoHomeNamed == [a \in Application |-> NoHome]
TwoSetups == [r \in Row |-> IF r = r1 THEN s1 ELSE s2]
OneSetup == [r \in Row |-> s1]

Symmetry == Permutations(Application) \union Permutations(Row)

Days == {{1}}
Years == {{1}, {2}}

\* One home: a resident with a contact, one without, and an undated observation.
RowClaims ==
    [home : {h1}, term : {{1}}, dated : {TRUE}, who : {p1, NoPerson, Vacant}]
        \union [home : {h1}, term : {{1}}, dated : {FALSE}, who : {p1}]
=============================================================================
