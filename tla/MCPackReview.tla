---------------------------- MODULE MCPackReview ----------------------------
(***************************************************************************)
(* Instances of PackReview: one pack, a brand-new submission of it and a   *)
(* contribution to it, or a second brand-new submission of the same name.  *)
(***************************************************************************)
EXTENDS PackReview, TLC

CONSTANTS p1, p2, s1, s2, s3, a1, a2, a3, pk, snes

MCPackOf == [s \in Subs |-> pk]

\* a1 belongs to s1; the others to s2.
MCSubOf == [a \in Art |-> IF a = a1 THEN s1 ELSE s2]

\* One slot, so that uploads replace each other.
MCSlotOf == [a \in Art |-> snes]

\* a2 replaces a1 by the other format, a3 by the same one.
MCExtOf == [a \in Art |-> IF a = a2 THEN ".gif" ELSE ".webp"]

\* a1 and a2 both in s1: a submission with two files.
MCSubOfBoth == [a \in Art |-> IF a \in {a1, a2} THEN s1 ELSE s2]

MCSlots == {snes}

\* Request handlers are interchangeable.
Handlers == Permutations(Procs)
=============================================================================
