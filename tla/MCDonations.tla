---------------------------- MODULE MCDonations ----------------------------
(***************************************************************************)
(* One tip on Ko-fi and one membership on Patreon, made with one address.  *)
(* Its owner u1 may move to another, and u2, who has that one, claims the  *)
(* donations of the first.                                                 *)
(***************************************************************************)
EXTENDS Donations

CONSTANTS kofi, member, m1, m2, u1, u2

MCAddressOf == [e \in Events |-> m1]
MCKindOf == [e \in Events |-> IF e = kofi THEN "one_time" ELSE "subscription"]
MCUses == {<<u1, m1>>, <<u1, m2>>, <<u2, m2>>}
MCClaims == {<<u2, m1>>}
MCImported == {[event |-> kofi, active |-> TRUE, at |-> None],
               [event |-> member, active |-> TRUE, at |-> 0]}
MCAdminSets == {<<u1, "none">>}
=============================================================================
