----------------------------- MODULE MCLimiters -----------------------------
(***************************************************************************)
(* Instance of Limiters: two subjects, two limits, a map that is swept as  *)
(* soon as it holds both.                                                  *)
(***************************************************************************)
EXTENDS Limiters

MCLimits == {1, 2}
MCRate == [l \in MCLimits |-> 1]
MCBurst == [l \in MCLimits |-> l]
=============================================================================
