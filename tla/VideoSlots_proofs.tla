-------------------------- MODULE VideoSlots_proofs --------------------------
(***************************************************************************)
(* Proofs about VideoSlots, for any finite number of contributors and      *)
(* reviewers, any number of slots and any number of videos.                *)
(*                                                                         *)
(* The argument: a step takes or gives back a slot exactly when one        *)
(* request starts or stops to hold it, and a request that waits or holds   *)
(* has a video left, so the count of videos never falls below zero.        *)
(***************************************************************************)
EXTENDS VideoSlots, FiniteSetTheorems, TLAPS

Held(S) == {p \in S : pc[p] = "hold"}

VideosLeft ==
    \A p \in Reviewers : pc[p] # "idle" => left[p] > 0 /\ videos[p] > 0

IInv == TypeOK /\ SlotsHeld /\ VideosLeft

LEMMA HeldFinite ==
    ASSUME NEW S, IsFiniteSet(S)
    PROVE  IsFiniteSet(Held(S)) /\ Cardinality(Held(S)) \in Nat
<1>1. IsFiniteSet(Held(S))
  BY FS_Subset DEF Held
<1> QED BY <1>1, FS_CardinalityType

\* How many hold a slot after the step of one request.
LEMMA HeldAfter ==
    ASSUME NEW S, IsFiniteSet(S), NEW p \in Requests, NEW l, DOMAIN pc = Requests,
           S \subseteq Requests, Goto(p, l)
    PROVE  /\ p \in S /\ pc[p] # "hold" /\ l = "hold" =>
                Cardinality(Held(S)') = Cardinality(Held(S)) + 1
           /\ p \in S /\ pc[p] = "hold" /\ l # "hold" =>
                Cardinality(Held(S)') = Cardinality(Held(S)) - 1 /\ Cardinality(Held(S)) > 0
           /\ p \notin S \/ (pc[p] # "hold" /\ l # "hold") =>
                Cardinality(Held(S)') = Cardinality(Held(S))
<1>1. pc'[p] = l /\ \A q \in S \ {p} : pc'[q] = pc[q]
  BY DEF Goto
<1>2. IsFiniteSet(Held(S)) /\ Cardinality(Held(S)) \in Nat
  BY HeldFinite
<1>3. CASE p \in S /\ pc[p] # "hold" /\ l = "hold"
  <2>1. Held(S)' = Held(S) \cup {p} /\ p \notin Held(S)
    BY <1>1, <1>3 DEF Held
  <2> QED BY <1>2, <1>3, <2>1, FS_AddElement
<1>4. CASE p \in S /\ pc[p] = "hold" /\ l # "hold"
  <2>1. Held(S)' = Held(S) \ {p} /\ p \in Held(S)
    BY <1>1, <1>4 DEF Held
  <2>2. Cardinality(Held(S)') = Cardinality(Held(S)) - 1 /\ Cardinality(Held(S)') \in Nat
    BY <1>2, <2>1, FS_RemoveElement, FS_CardinalityType
  <2> QED BY <1>2, <1>4, <2>2
<1>5. CASE p \notin S \/ (pc[p] # "hold" /\ l # "hold")
  <2>1. Held(S)' = Held(S)
    BY <1>1, <1>5 DEF Held
  <2> QED BY <1>5, <2>1
<1> QED BY <1>3, <1>4, <1>5

LEMMA InitInv == Init => IInv
<1> SUFFICES ASSUME Init PROVE IInv
  OBVIOUS
<1>1. TypeOK
  BY VideoSlotsAssumption DEF Init, TypeOK
<1>2. \A p \in Requests : pc[p] = "idle"
  BY DEF Init
<1>3. SlotsHeld
  <2>1. {p \in Contributors : pc[p] = "hold"} = {} /\ {p \in Reviewers : pc[p] = "hold"} = {}
    BY <1>2 DEF Requests
  <2> QED BY <2>1, FS_EmptySet DEF Init, SlotsHeld
<1>4. VideosLeft
  BY <1>2 DEF VideosLeft, Requests
<1> QED BY <1>1, <1>3, <1>4 DEF IInv

\* Steps of contributors leave the reviewers' slots alone.
LEMMA ContributorInv ==
    ASSUME IInv, NEW p \in Contributors, CreateSubmission(p) \/ ProbeStep(p) \/ ProbeDeadline(p)
    PROVE  IInv'
<1> DEFINE C == Cardinality(Held(Contributors))
           R == Cardinality(Held(Reviewers))
<1>1. /\ TypeOK /\ VideosLeft /\ probeSlots = C /\ reviewSlots = R
      /\ p \in Requests /\ p \notin Reviewers /\ DOMAIN pc = Requests
  BY VideoSlotsAssumption DEF IInv, TypeOK, SlotsHeld, Held, Requests
<1>2. UNCHANGED <<pass, left, videos, reviewSlots>>
  BY DEF CreateSubmission, ProbeStep, AcquireProbeSlot, ProbeVideo, ProbeDeadline
<1>3. PICK l \in {"idle", "wait", "hold"} :
        /\ Goto(p, l)
        /\ \/ pc[p] # "hold" /\ l = "hold" /\ probeSlots < ProbeCap /\ probeSlots' = probeSlots + 1
           \/ pc[p] = "hold" /\ l # "hold" /\ probeSlots' = probeSlots - 1
           \/ pc[p] # "hold" /\ l # "hold" /\ probeSlots' = probeSlots
  BY DEF CreateSubmission, ProbeStep, AcquireProbeSlot, ProbeVideo, ProbeDeadline
<1>4. probeSlots' = C' /\ reviewSlots' = R' /\ (pc[p] = "hold" => C > 0)
  BY <1>1, <1>2, <1>3, HeldAfter, VideoSlotsAssumption DEF Requests
<1>5. TypeOK'
  <2>1. pc' \in [Requests -> {"idle", "wait", "hold"}]
    BY <1>1, <1>3 DEF Goto, TypeOK
  <2>2. probeSlots' \in 0..ProbeCap
    BY <1>1, <1>3, <1>4, VideoSlotsAssumption DEF TypeOK
  <2> QED BY <1>1, <1>2, <2>1, <2>2 DEF TypeOK
<1>6. VideosLeft'
  BY <1>1, <1>2, <1>3 DEF VideosLeft, Goto, Requests
<1> QED BY <1>4, <1>5, <1>6 DEF IInv, SlotsHeld, Held

LEMMA ReviewerInv ==
    ASSUME IInv, NEW p \in Reviewers, ApproveSubmission(p) \/ ReviewStep(p)
    PROVE  IInv'
<1> DEFINE C == Cardinality(Held(Contributors))
           R == Cardinality(Held(Reviewers))
<1>1. /\ TypeOK /\ VideosLeft /\ probeSlots = C /\ reviewSlots = R
      /\ p \in Requests /\ p \notin Contributors /\ DOMAIN pc = Requests
  BY VideoSlotsAssumption DEF IInv, TypeOK, SlotsHeld, Held, Requests
<1>2. /\ probeSlots' = probeSlots
      /\ pc[p] # "idle" => left[p] \in 1..MaxVideos /\ videos[p] \in 1..MaxVideos
  BY <1>1, VideoSlotsAssumption
     DEF ApproveSubmission, ReviewStep, AcquireReviewSlot, ReviewWork,
         ValidateVideo, ConvertVideo, ReviewVideoFails, TypeOK, VideosLeft
<1>3. PICK l \in {"idle", "wait", "hold"} :
        /\ Goto(p, l)
        /\ \/ pc[p] # "hold" /\ l = "hold" /\ reviewSlots < ReviewCap /\ reviewSlots' = reviewSlots + 1
           \/ pc[p] = "hold" /\ l # "hold" /\ reviewSlots' = reviewSlots - 1
           \/ pc[p] # "hold" /\ l # "hold" /\ reviewSlots' = reviewSlots
  BY DEF ApproveSubmission, ReviewStep, AcquireReviewSlot, ReviewWork,
         ValidateVideo, ConvertVideo, ReviewVideoFails
<1>4. probeSlots' = C' /\ reviewSlots' = R' /\ (pc[p] = "hold" => R > 0)
  BY <1>1, <1>2, <1>3, HeldAfter, VideoSlotsAssumption DEF Requests
<1>5. /\ pass' \in [Reviewers -> {"validate", "convert"}]
      /\ left' \in [Reviewers -> 0..MaxVideos]
      /\ videos' \in [Reviewers -> 0..MaxVideos]
      /\ \A q \in Reviewers \ {p} : left'[q] = left[q] /\ videos'[q] = videos[q]
      /\ pc'[p] # "idle" => left'[p] > 0 /\ videos'[p] > 0
  <2>1. CASE ApproveSubmission(p)
    BY <1>1, <2>1, VideoSlotsAssumption DEF ApproveSubmission, TypeOK
  <2>2. CASE AcquireReviewSlot(p) \/ ReviewVideoFails(p)
    BY <1>1, <1>2, <2>2, VideoSlotsAssumption DEF AcquireReviewSlot, ReviewVideoFails, TypeOK, Goto
  <2>3. CASE ValidateVideo(p)
    <3>1. left[p] \in 1..MaxVideos /\ videos[p] \in 1..MaxVideos
      BY <1>2, <2>3 DEF ValidateVideo
    <3> QED BY <1>1, <2>3, <3>1, VideoSlotsAssumption DEF ValidateVideo, TypeOK
  <2>4. CASE ConvertVideo(p)
    <3>1. left[p] \in 1..MaxVideos /\ videos[p] \in 1..MaxVideos
      BY <1>2, <2>4 DEF ConvertVideo
    <3> QED BY <1>1, <2>4, <3>1, VideoSlotsAssumption DEF ConvertVideo, Goto, TypeOK
  <2> QED BY <2>1, <2>2, <2>3, <2>4 DEF ReviewStep, ReviewWork
<1>6. TypeOK'
  <2>1. pc' \in [Requests -> {"idle", "wait", "hold"}]
    BY <1>1, <1>3 DEF Goto, TypeOK
  <2>2. reviewSlots' \in 0..ReviewCap
    BY <1>1, <1>3, <1>4, VideoSlotsAssumption DEF TypeOK
  <2> QED BY <1>1, <1>2, <1>5, <2>1, <2>2 DEF TypeOK
<1>7. VideosLeft'
  <2>1. \A q \in Reviewers \ {p} : pc'[q] = pc[q]
    BY <1>1, <1>3 DEF Goto, Requests
  <2> QED BY <1>1, <1>5, <2>1 DEF VideosLeft
<1> QED BY <1>4, <1>6, <1>7 DEF IInv, SlotsHeld, Held

LEMMA NextInv == IInv /\ [Next]_vars => IInv'
<1> SUFFICES ASSUME IInv, [Next]_vars PROVE IInv'
  OBVIOUS
<1>1. CASE UNCHANGED vars
  BY <1>1 DEF vars, IInv, TypeOK, SlotsHeld, VideosLeft
<1> QED BY <1>1, ContributorInv, ReviewerInv DEF Next

THEOREM InvariantHolds == Spec => []IInv
BY InitInv, NextInv, PTL DEF Spec

\* The counters keep their types: the pools never hold more videos than they
\* have slots and never give back one that nobody took.
THEOREM TypeCorrect == Spec => []TypeOK
<1>1. IInv => TypeOK
  BY DEF IInv
<1> QED BY <1>1, InvariantHolds, PTL

\* Every slot taken is held by a request at work, whichever way requests end
\* (acquireVideoSlot and the releases its callers defer).
THEOREM NoSlotLeaks == Spec => []SlotsHeld
<1>1. IInv => SlotsHeld
  BY DEF IInv
<1> QED BY <1>1, InvariantHolds, PTL
=============================================================================
