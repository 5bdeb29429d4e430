----------------------------- MODULE VideoSlots -----------------------------
(***************************************************************************)
(* The two pools of video slots.  A video is held in memory while ffprobe  *)
(* or ffmpeg works on it, so few are at a time: contributors probe the     *)
(* video of a new submission under probeSlots and with a deadline,         *)
(* reviewers probe and then convert every video of the one they approve    *)
(* under reviewSlots, without any.                                         *)
(*                                                                         *)
(* Downloads, ffprobe and ffmpeg are reduced to whether they succeed.  The *)
(* deadline of a contributor is a step that may be taken at any time.      *)
(***************************************************************************)
EXTENDS Naturals, FiniteSets

CONSTANTS
    Contributors,  \* requests that create a submission with a video
    Reviewers,     \* requests that approve submissions
    MaxVideos,     \* bound: videos of one submission
    ProbeCap,      \* cap(probeSlots)
    ReviewCap      \* cap(reviewSlots)

ASSUME VideoSlotsAssumption ==
    /\ IsFiniteSet(Contributors) /\ IsFiniteSet(Reviewers)
    /\ Contributors \cap Reviewers = {}
    /\ MaxVideos \in Nat \ {0} /\ ProbeCap \in Nat \ {0} /\ ReviewCap \in Nat \ {0}

Requests == Contributors \cup Reviewers

VARIABLES
    pc,           \* idle, waiting for a slot, or holding one
    pass,         \* an approval first validates and then converts
    left,         \* videos the pass has still to handle
    videos,       \* videos of the submission
    probeSlots,   \* len(probeSlots)
    reviewSlots   \* len(reviewSlots)

vars == <<pc, pass, left, videos, probeSlots, reviewSlots>>

TypeOK ==
    /\ pc \in [Requests -> {"idle", "wait", "hold"}]
    /\ pass \in [Reviewers -> {"validate", "convert"}]
    /\ left \in [Reviewers -> 0..MaxVideos]
    /\ videos \in [Reviewers -> 0..MaxVideos]
    /\ probeSlots \in 0..ProbeCap
    /\ reviewSlots \in 0..ReviewCap

Init ==
    /\ pc = [p \in Requests |-> "idle"]
    /\ pass = [p \in Reviewers |-> "validate"]
    /\ left = [p \in Reviewers |-> 0]
    /\ videos = [p \in Reviewers |-> 0]
    /\ probeSlots = 0
    /\ reviewSlots = 0

Goto(p, l) == pc' = [pc EXCEPT ![p] = l]

-----------------------------------------------------------------------------
(***************************************************************************)
(* CreateMetadataSubmission: checkVideoEntries lets one video through,     *)
(* probeVideo takes it under a slot.                                       *)
(***************************************************************************)

CreateSubmission(p) ==
    /\ pc[p] = "idle"
    /\ Goto(p, "wait")
    /\ UNCHANGED <<pass, left, videos, probeSlots, reviewSlots>>

AcquireProbeSlot(p) ==
    /\ pc[p] = "wait" /\ probeSlots < ProbeCap
    /\ Goto(p, "hold")
    /\ probeSlots' = probeSlots + 1
    /\ UNCHANGED <<pass, left, videos, reviewSlots>>

\* The slot goes back whether the video could be read or not.
ProbeVideo(p) ==
    /\ pc[p] = "hold"
    /\ Goto(p, "idle")
    /\ probeSlots' = probeSlots - 1
    /\ UNCHANGED <<pass, left, videos, reviewSlots>>

\* After videoProbeTimeout a waiter is told errVideoBusy, and the download or
\* ffprobe of a holder is killed.
ProbeDeadline(p) ==
    /\ pc[p] \in {"wait", "hold"}
    /\ Goto(p, "idle")
    /\ probeSlots' = IF pc[p] = "hold" THEN probeSlots - 1 ELSE probeSlots
    /\ UNCHANGED <<pass, left, videos, reviewSlots>>

-----------------------------------------------------------------------------
(***************************************************************************)
(* ApproveMetadataSubmission: validateApprovedFile for every video, then   *)
(* convertVideoToCanonical for every video.                                *)
(***************************************************************************)

ApproveSubmission(p) ==
    /\ pc[p] = "idle"
    /\ \E n \in 1..MaxVideos :
          videos' = [videos EXCEPT ![p] = n] /\ left' = [left EXCEPT ![p] = n]
    /\ pass' = [pass EXCEPT ![p] = "validate"]
    /\ Goto(p, "wait")
    /\ UNCHANGED <<probeSlots, reviewSlots>>

\* Without the channel's capacity.
AcquireReviewSlotAtOnce(p) ==
    /\ pc[p] = "wait"
    /\ Goto(p, "hold")
    /\ reviewSlots' = reviewSlots + 1
    /\ UNCHANGED <<pass, left, videos, probeSlots>>

AcquireReviewSlot(p) ==
    /\ pc[p] = "wait" /\ reviewSlots < ReviewCap
    /\ Goto(p, "hold")
    /\ reviewSlots' = reviewSlots + 1
    /\ UNCHANGED <<pass, left, videos, probeSlots>>

ReviewVideoFailsLeaks(p) ==
    /\ pc[p] = "hold"
    /\ Goto(p, "idle")
    /\ UNCHANGED <<pass, left, videos, probeSlots, reviewSlots>>

\* A video that is gone, unreadable, too slow or does not convert ends the
\* approval; the deferred release runs all the same.
ReviewVideoFails(p) ==
    /\ pc[p] = "hold"
    /\ Goto(p, "idle")
    /\ reviewSlots' = reviewSlots - 1
    /\ UNCHANGED <<pass, left, videos, probeSlots>>

\* The release deferred to the end of the loop over the files: all the videos
\* are held together.
ValidateVideoDefersRelease(p) ==
    /\ pc[p] = "hold" /\ pass[p] = "validate"
    /\ Goto(p, "wait")
    /\ \/ /\ left[p] > 1
          /\ left' = [left EXCEPT ![p] = @ - 1]
          /\ UNCHANGED <<pass, reviewSlots>>
       \/ /\ left[p] = 1
          /\ left' = [left EXCEPT ![p] = videos[p]]
          /\ pass' = [pass EXCEPT ![p] = "convert"]
          /\ reviewSlots' = reviewSlots - videos[p]
    /\ UNCHANGED <<videos, probeSlots>>

\* The probe is good: on to the next video, after the last one to converting.
ValidateVideo(p) ==
    /\ pc[p] = "hold" /\ pass[p] = "validate"
    /\ reviewSlots' = reviewSlots - 1
    /\ Goto(p, "wait")
    /\ \/ /\ left[p] > 1
          /\ left' = [left EXCEPT ![p] = @ - 1]
          /\ UNCHANGED pass
       \/ /\ left[p] = 1
          /\ left' = [left EXCEPT ![p] = videos[p]]
          /\ pass' = [pass EXCEPT ![p] = "convert"]
    /\ UNCHANGED <<videos, probeSlots>>

\* The video is published; the approval goes on until all of them are.
ConvertVideo(p) ==
    /\ pc[p] = "hold" /\ pass[p] = "convert"
    /\ reviewSlots' = reviewSlots - 1
    /\ left' = [left EXCEPT ![p] = @ - 1]
    /\ Goto(p, IF left[p] > 1 THEN "wait" ELSE "idle")
    /\ UNCHANGED <<pass, videos, probeSlots>>

-----------------------------------------------------------------------------
ProbeStep(p) == AcquireProbeSlot(p) \/ ProbeVideo(p)
ReviewWork(p) == ValidateVideo(p) \/ ConvertVideo(p) \/ ReviewVideoFails(p)
ReviewStep(p) == AcquireReviewSlot(p) \/ ReviewWork(p)

Next ==
    \/ \E p \in Contributors : CreateSubmission(p) \/ ProbeStep(p) \/ ProbeDeadline(p)
    \/ \E p \in Reviewers : ApproveSubmission(p) \/ ReviewStep(p)

Spec == Init /\ [][Next]_vars

(***************************************************************************)
(* Fairness.  A reviewer's ffmpeg ends, and a Go channel serves its        *)
(* waiters in the order they came, so one that waits while the pool has    *)
(* room again and again gets its turn.  Of contributors nothing is         *)
(* assumed.                                                                *)
(***************************************************************************)
FairSpec ==
    /\ Spec
    /\ \A p \in Reviewers : SF_vars(AcquireReviewSlot(p)) /\ WF_vars(ReviewWork(p))

-----------------------------------------------------------------------------
\* Every slot taken is held by a request with a video in memory: no path of an
\* error leaks one, and there are never more videos than slots.
SlotsHeld ==
    /\ probeSlots = Cardinality({p \in Contributors : pc[p] = "hold"})
    /\ reviewSlots = Cardinality({p \in Reviewers : pc[p] = "hold"})

\* "Neither can hold up the other": an approval gets its slot for every video
\* and ends, however many of them compete and even if no probe ever returns
\* (acquireVideoSlot, validateApprovedFile, convertVideoToCanonical).
ReviewsEnd ==
    \A p \in Reviewers : pc[p] = "wait" ~> pc[p] = "idle"
=============================================================================
