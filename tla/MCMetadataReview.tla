-------------------------- MODULE MCMetadataReview --------------------------
(***************************************************************************)
(* An instance of MetadataReview: one user's submission creates the game   *)
(* with a cover, another user's edits upload, move and delete its covers,  *)
(* and the same user reports the game as a duplicate.                      *)
(***************************************************************************)
EXTENDS MetadataReview

CONSTANTS g1, u1, u2, s1, s2, s3, f1, f2, f3, f4, jp, us, p1

MCTarget == [s \in Subs |-> g1]
MCUserOf == [s \in Subs |-> IF s = s1 THEN u1 ELSE u2]

\* The report also proposes a name, which the edit does too.
MCFields == [s \in Subs |-> IF s = s3 THEN {"delete_game", "name"} ELSE {"name"}]

\* f1 comes with the game; f2 is another cover, f3 moves one, f4 deletes one.
MCSubOf == [f \in Files |-> IF f = f1 THEN s1 ELSE s2]
MCOp == [f \in Files |-> IF f = f3 THEN "move" ELSE IF f = f4 THEN "delete" ELSE "upload"]
MCKindOf == [f \in Files |-> "cover"]
MCRegionsOf ==
    [f \in Files |-> IF f = f1 THEN {jp, None} ELSE IF f = f3 THEN {us} ELSE {jp}]
=============================================================================
