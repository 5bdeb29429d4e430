------------------------ MODULE ContributionLifecycle ------------------------
(***************************************************************************)
(* What the metadata review promises of a contribution, seen through its   *)
(* status and the game it belongs to: it is pending from the start, one    *)
(* reviewer decides, an approval is final, anything else its owner may     *)
(* delete; and the text a user has in review for a game never overlaps.    *)
(***************************************************************************)
CONSTANTS Subs, Games, NewGame, Target, UserOf, Fields, None

VARIABLES status, gameOf

vars == <<status, gameOf>>

Init ==
    /\ status = [s \in Subs |-> "absent"]
    /\ gameOf = [s \in Subs |-> None]

Move(s, from, to) ==
    /\ status[s] \in from
    /\ status' = [status EXCEPT ![s] = to]

\* A pending t proposes what s is about to propose.
InReview(s, t) ==
    /\ status[t] = "pending" /\ UserOf[s] = UserOf[t]
    /\ \/ s \in NewGame /\ t \in NewGame /\ Target[s] = Target[t]
       \/ /\ s \notin NewGame /\ t \notin NewGame
          /\ gameOf[t] = Target[s] /\ Fields[s] \cap Fields[t] # {}

Create(s) ==
    /\ \A t \in Subs : ~InReview(s, t)
    /\ Move(s, {"absent"}, "pending")
    /\ gameOf' = [gameOf EXCEPT ![s] = IF s \in NewGame THEN None ELSE Target[s]]

\* A new game is created while its submission is being approved.
Attach(s) ==
    /\ s \in NewGame /\ status[s] = "pending" /\ gameOf[s] = None
    /\ gameOf' = [gameOf EXCEPT ![s] = Target[s]]
    /\ UNCHANGED status

\* A deleted game lets go of its submissions, and their history survives.
Detach(g) ==
    /\ gameOf' = [s \in Subs |-> IF gameOf[s] = g THEN None ELSE gameOf[s]]
    /\ UNCHANGED status

Decide(s, to) == Move(s, {"pending"}, to) /\ UNCHANGED gameOf
Cancel(s) == Move(s, {"pending", "rejected"}, "deleted") /\ UNCHANGED gameOf

Next ==
    \/ \E s \in Subs :
          Create(s) \/ Attach(s) \/ Cancel(s) \/ \E to \in {"approved", "rejected"} : Decide(s, to)
    \/ \E g \in Games : Detach(g)

Spec == Init /\ [][Next]_vars
=============================================================================
