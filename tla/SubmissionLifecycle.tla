------------------------- MODULE SubmissionLifecycle -------------------------
(***************************************************************************)
(* What the pack review promises of a submission, seen through its status  *)
(* alone: which change may happen, in which state, and that a pack id is   *)
(* taken by one brand-new submission or extended once it is published.     *)
(***************************************************************************)
CONSTANTS Subs, PackOf, Contribution

VARIABLE status

Init == status = [s \in Subs |-> "absent"]

Move(s, from, to) ==
    /\ status[s] \in from
    /\ status' = [status EXCEPT ![s] = to]

Free(pk) ==
    \A t \in Subs : PackOf[t] = pk => status[t] \in {"absent", "trashed", "deleted"}

Published(pk) == \E t \in Subs : PackOf[t] = pk /\ status[t] = "approved"

\* The README has a creation leave a draft, CreateSubmission inserts a pending
\* row: which of the two is left open here.
Create(s) ==
    /\ IF s \in Contribution THEN Published(PackOf[s]) ELSE Free(PackOf[s])
    /\ Move(s, {"absent"}, "created") \/ Move(s, {"absent"}, "pending")

Submit(s) == Move(s, {"created", "rejected"}, "pending")
Approve(s) == Move(s, {"pending"}, "approved")
Reject(s) == Move(s, {"pending"}, "rejected")
Trash(s) == Move(s, {"created", "rejected"}, "trashed")
Delete(s) ==
    Move(s, {"created", "pending", "approved", "rejected", "trashed"}, "deleted")

Next ==
    \E s \in Subs :
       Create(s) \/ Submit(s) \/ Approve(s) \/ Reject(s) \/ Trash(s) \/ Delete(s)

Spec == Init /\ [][Next]_status
=============================================================================
