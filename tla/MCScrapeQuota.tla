--------------------------- MODULE MCScrapeQuota ---------------------------
(***************************************************************************)
(* Instances of ScrapeQuota: one user with two apps, or one app that two   *)
(* users call through.                                                     *)
(***************************************************************************)
EXTENDS ScrapeQuota, TLC

CONSTANT owner

MCOwnerOf == [a \in Apps |-> owner]

\* Handlers, and the apps of one owner, are interchangeable.
Interchangeable == Permutations(Procs) \cup Permutations(Apps)
=============================================================================
