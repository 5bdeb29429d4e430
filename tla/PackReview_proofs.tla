-------------------------- MODULE PackReview_proofs --------------------------
(***************************************************************************)
(* Proofs about PackReview for every value of its constants: types, then   *)
(* what holds whatever requests overlap, then what holds when they run one *)
(* after the other.                                                        *)
(***************************************************************************)
EXTENDS PackReview, FiniteSetTheorems, TLAPS

(***************************************************************************)
(* Type correctness needs to know what a request holds at each program     *)
(* point: the submission it is about, the file at hand, and in a rejection *)
(* only staged keys that can still be moved.                               *)
(***************************************************************************)
FilePCs == {"presign", "unlink", "droprow", "unstage", "relabel", "relabel_rejected"}

RequestFine(r) ==
    /\ r.pc # "idle" => r.sub \in Subs
    /\ r.pc \in FilePCs => r.file \in File
    /\ r.pc \in {"preserve", "relabel_rejected"} => \A f \in r.todo : f.key \in StagedKeys
    /\ r.pc = "relabel_rejected" => /\ r.file.key \in StagedKeys
                                    /\ r.file.key.rejected < MaxRejections

TypeInv == TypeOK /\ \A p \in Procs : RequestFine(req[p])

-----------------------------------------------------------------------------
(***************************************************************************)
(* Keys and helpers.                                                       *)
(***************************************************************************)

LEMMA ReviewKeyType ==
    ASSUME NEW a \in Art
    PROVE  reviewObjectKey(a) \in StagedKeys /\ reviewObjectKey(a) \in Keys
BY PackReviewAssumption DEF reviewObjectKey, StagedKeys, Keys

LEMMA ObjectKeyType ==
    ASSUME NEW a \in Art
    PROVE  ObjectKey(a) \in PublicKeys /\ ObjectKey(a) \in Keys
BY PackReviewAssumption DEF ObjectKey, PublicKeys, Keys

LEMMA RejectedKeyType ==
    ASSUME NEW k \in StagedKeys, k.rejected < MaxRejections
    PROVE  rejectedObjectKey(k) \in Keys
BY PackReviewAssumption DEF rejectedObjectKey, StagedKeys, Keys

LEMMA IdleType == Idle \in Request /\ RequestFine(Idle)
BY DEF Idle, Request, RequestFine, PCs, FilePCs

LEMMA ListFilesType ==
    ASSUME TypeOK, NEW s
    PROVE  ListFiles(s) \subseteq File
BY DEF ListFiles, Rows, File, TypeOK

LEMMA InputsType ==
    ASSUME NEW as \in SUBSET Art
    PROVE  Inputs(as) \subseteq File
<1> SUFFICES ASSUME NEW a \in as
             PROVE  [art |-> a, key |-> reviewObjectKey(a)] \in File
  BY Zenon DEF Inputs
<1> QED
  BY ReviewKeyType DEF File

LEMMA WithoutType ==
    ASSUME TypeOK, NEW ks
    PROVE  Without(ks) \in [Keys -> Art \cup {None}]
BY DEF Without, TypeOK

LEMMA CountType ==
    ASSUME NEW s \in Subs
    PROVE  CountApprovedByPack(s) \in Nat
<1> DEFINE others == {t \in Subs \ {s} : SamePack(s, t) /\ status[t] = "approved"}
<1>1. IsFiniteSet(others)
  BY FS_Subset, PackReviewAssumption
<1>2. QED
  BY <1>1, FS_CardinalityType DEF CountApprovedByPack

\* One request moves on: the others are as they were.
LEMMA GoType ==
    ASSUME TypeInv, NEW p \in Procs, NEW r \in Request, RequestFine(r), Go(p, r)
    PROVE  req' \in [Procs -> Request] /\ \A q \in Procs : RequestFine(req[q])'
<1>1. req' \in [Procs -> Request]
  BY DEF TypeInv, TypeOK, Go
<1>2. ASSUME NEW q \in Procs PROVE RequestFine(req[q])'
  <2>1. req'[q] = IF q = p THEN r ELSE req[q]
    BY DEF TypeInv, TypeOK, Go
  <2>2. RequestFine(req[q])
    BY DEF TypeInv
  <2>3. QED
    BY <2>1, <2>2 DEF RequestFine
<1>3. QED
  BY <1>1, <1>2

LEMMA DoneType ==
    ASSUME TypeInv, NEW p \in Procs, Done(p)
    PROVE  req' \in [Procs -> Request] /\ \A q \in Procs : RequestFine(req[q])'
BY GoType, IdleType DEF Done, Go

\* A step that moves one request and keeps the data well typed.
LEMMA StepType ==
    ASSUME TypeInv, NEW p \in Procs, NEW r \in Request, RequestFine(r), Go(p, r),
           status' \in [Subs -> Statuses],
           version' \in [Subs -> Nat],
           row' \in [Art -> {"unused", "live", "dropped"}],
           rowKey' \in [Art -> Keys],
           bucket' \in [Keys -> Art \cup {None}],
           url' \in [Art -> {"none", "signed", "issued", "used"}],
           ledger' \in [Subs -> Nat],
           failures' \in 0..MaxFailures
    PROVE  TypeInv'
BY GoType DEF TypeInv, TypeOK

\* A step that moves one request and changes nothing else.
LEMMA ReadType ==
    ASSUME TypeInv, NEW p \in Procs, NEW r \in Request, RequestFine(r), Go(p, r),
           UNCHANGED <<db, bucket, url, ledger, failures>>
    PROVE  TypeInv'
BY StepType DEF TypeInv, TypeOK, db

LEMMA TypeInit == Init => TypeInv
<1> SUFFICES ASSUME Init PROVE TypeInv
  OBVIOUS
<1>1. 0 \in 0..MaxFailures
  BY PackReviewAssumption
<1>2. rowKey \in [Art -> Keys]
  BY ReviewKeyType DEF Init
<1>3. TypeOK
  BY <1>1, <1>2, IdleType DEF Init, TypeOK, Statuses
<1>4. QED
  BY <1>3, IdleType DEF Init, TypeInv

-----------------------------------------------------------------------------
(***************************************************************************)
(* Uploads, creation and the submitter's edits.                            *)
(***************************************************************************)

LEMMA BrowserTyped == TypeInv /\ Browser => TypeInv'
<1> SUFFICES ASSUME TypeInv, NEW a \in Art, PresignedUpload(a) \/ BrowserUpload(a)
             PROVE  TypeInv'
  BY DEF Browser
<1>1. /\ url' \in [Art -> {"none", "signed", "issued", "used"}]
      /\ bucket' \in [Keys -> Art \cup {None}]
      /\ UNCHANGED <<db, ledger, req, failures>>
  BY DEF TypeInv, TypeOK, PresignedUpload, BrowserUpload
<1>2. QED
  BY <1>1 DEF TypeInv, TypeOK, db, RequestFine

\* What AddFileReason leaves behind.
LEMMA AddFileReasonTyped ==
    ASSUME TypeInv, NEW f \in File, AddFileReason(f)
    PROVE  /\ row' \in [Art -> {"unused", "live", "dropped"}]
           /\ rowKey' \in [Art -> Keys]
BY DEF TypeInv, TypeOK, AddFileReason, File

LEMMA GetUploadURLTyped ==
    ASSUME TypeInv, NEW p \in Procs, NEW a \in Art, GetUploadURL(p, a)
    PROVE  TypeInv'
<1> DEFINE r == [Idle EXCEPT !.pc = "presign", !.sub = SubOf[a],
                             !.file = [art |-> a, key |-> reviewObjectKey(a)]]
<1>1. r \in Request /\ RequestFine(r)
  BY PackReviewAssumption, ReviewKeyType
     DEF Idle, Request, RequestFine, PCs, FilePCs, File
<1>2. Go(p, r) /\ url' \in [Art -> {"none", "signed", "issued", "used"}]
  BY DEF GetUploadURL, TypeInv, TypeOK
<1> HIDE DEF r
<1>3. QED
  BY <1>1, <1>2, StepType DEF GetUploadURL, TypeInv, TypeOK, db

LEMMA UploadURLRegisterTyped ==
    ASSUME TypeInv, NEW p \in Procs, UploadURLRegister(p)
    PROVE  TypeInv'
<1>1. req[p].file \in File
  BY DEF TypeInv, RequestFine, FilePCs, UploadURLRegister, At
<1>2. /\ row' \in [Art -> {"unused", "live", "dropped"}]
      /\ rowKey' \in [Art -> Keys]
      /\ url' \in [Art -> {"none", "signed", "issued", "used"}]
  <2>1. CASE Exists(req[p].sub)
    BY <1>1, <2>1, AddFileReasonTyped DEF UploadURLRegister, TypeInv, TypeOK
  <2>2. CASE ~Exists(req[p].sub)
    BY <2>2 DEF UploadURLRegister, TypeInv, TypeOK
  <2>3. QED
    BY <2>1, <2>2
<1>3. Go(p, Idle)
  BY DEF UploadURLRegister, Done, Go
<1>4. QED
  BY <1>2, <1>3, IdleType, StepType DEF UploadURLRegister, TypeInv, TypeOK

LEMMA CreateSubmissionTyped ==
    ASSUME TypeInv, NEW p \in Procs, NEW s \in Subs, CreateSubmission(p, s)
    PROVE  TypeInv'
<1>1. PICK as \in SUBSET Uploaded(s) :
         Go(p, [Idle EXCEPT !.pc = "insert", !.sub = s, !.todo = Inputs(as)])
  BY DEF CreateSubmission
<1> DEFINE r == [Idle EXCEPT !.pc = "insert", !.sub = s, !.todo = Inputs(as)]
<1>2. Inputs(as) \subseteq File
  BY InputsType DEF Uploaded
<1>3. r \in Request /\ RequestFine(r)
  BY <1>2 DEF Idle, Request, RequestFine, PCs, FilePCs
<1> HIDE DEF r
<1>4. QED
  BY <1>1, <1>3, ReadType DEF CreateSubmission, r

LEMMA InsertSubmissionTyped ==
    ASSUME TypeInv, NEW p \in Procs, InsertSubmission(p)
    PROVE  TypeInv'
<1> DEFINE r == [req[p] EXCEPT !.pc = "register"]
<1>1. r \in Request /\ RequestFine(r)
  BY DEF InsertSubmission, At, TypeInv, TypeOK, Request, RequestFine, PCs, FilePCs
<1>2. status' \in [Subs -> Statuses]
  BY DEF InsertSubmission, TypeInv, TypeOK, Statuses
<1> HIDE DEF r
<1>3. QED
  BY <1>1, <1>2, StepType DEF InsertSubmission, TypeInv, TypeOK, r

LEMMA RegisterFileTyped ==
    ASSUME TypeInv, NEW p \in Procs, RegisterFile(p)
    PROVE  TypeInv'
<1>1. PICK f \in req[p].todo :
         /\ At(p, "register")
         /\ IF bucket[f.key] # None /\ Exists(req[p].sub)
            THEN /\ AddFileReason(f)
                 /\ Go(p, [req[p] EXCEPT !.todo = @ \ {f}])
            ELSE /\ UNCHANGED <<row, rowKey>>
                 /\ Done(p)
         /\ UNCHANGED <<status, version, bucket, url, ledger, failures>>
  BY DEF RegisterFile, ensureUploaded
<1>2. f \in File
  BY DEF TypeInv, TypeOK, Request
<1>3. CASE bucket[f.key] # None /\ Exists(req[p].sub)
  <2> DEFINE r == [req[p] EXCEPT !.todo = @ \ {f}]
  <2>1. r \in Request /\ RequestFine(r)
    BY <1>1 DEF At, TypeInv, TypeOK, Request, RequestFine, PCs, FilePCs
  <2>2. /\ row' \in [Art -> {"unused", "live", "dropped"}]
        /\ rowKey' \in [Art -> Keys]
    BY <1>1, <1>2, <1>3, AddFileReasonTyped
  <2> HIDE DEF r
  <2>3. QED
    BY <1>1, <1>3, <2>1, <2>2, StepType DEF TypeInv, TypeOK, r
<1>4. CASE ~(bucket[f.key] # None /\ Exists(req[p].sub))
  BY <1>1, <1>4, IdleType, ReadType DEF Done, Go, db
<1>5. QED
  BY <1>3, <1>4

LEMMA RegisterDoneTyped ==
    ASSUME TypeInv, NEW p \in Procs, RegisterDone(p)
    PROVE  TypeInv'
BY IdleType, ReadType DEF RegisterDone, Done, Go

LEMMA AddSubmissionFilesTyped ==
    ASSUME TypeInv, NEW p \in Procs, NEW s \in Subs, AddSubmissionFiles(p, s)
    PROVE  TypeInv'
<1>1. PICK as \in (SUBSET Uploaded(s)) \ {{}} :
         Go(p, [Idle EXCEPT !.pc = "register", !.sub = s, !.todo = Inputs(as)])
  BY DEF AddSubmissionFiles
<1> DEFINE r == [Idle EXCEPT !.pc = "register", !.sub = s, !.todo = Inputs(as)]
<1>2. Inputs(as) \subseteq File
  BY InputsType DEF Uploaded
<1>3. r \in Request /\ RequestFine(r)
  BY <1>2 DEF Idle, Request, RequestFine, PCs, FilePCs
<1> HIDE DEF r
<1>4. QED
  BY <1>1, <1>3, ReadType DEF AddSubmissionFiles, r

LEMMA RemoveSubmissionFileTyped ==
    ASSUME TypeInv, NEW p \in Procs, NEW a \in Art, RemoveSubmissionFile(p, a)
    PROVE  TypeInv'
<1> DEFINE r == [Idle EXCEPT !.pc = "unlink", !.sub = SubOf[a],
                             !.file = [art |-> a, key |-> rowKey[a]]]
<1>1. r \in Request /\ RequestFine(r)
  BY PackReviewAssumption
     DEF TypeInv, TypeOK, Idle, Request, RequestFine, PCs, FilePCs, File
<1>2. Go(p, r)
  BY DEF RemoveSubmissionFile
<1> HIDE DEF r
<1>3. QED
  BY <1>1, <1>2, ReadType DEF RemoveSubmissionFile

LEMMA RemoveObjectTyped ==
    ASSUME TypeInv, NEW p \in Procs, RemoveObject(p)
    PROVE  TypeInv'
<1> DEFINE r == [req[p] EXCEPT !.pc = "droprow"]
<1>1. r \in Request /\ RequestFine(r)
  BY DEF RemoveObject, At, TypeInv, TypeOK, Request, RequestFine, PCs, FilePCs
<1>2. bucket' \in [Keys -> Art \cup {None}]
  BY WithoutType DEF RemoveObject, TypeInv, TypeOK
<1> HIDE DEF r
<1>3. QED
  BY <1>1, <1>2, StepType DEF RemoveObject, TypeInv, TypeOK, db, r

LEMMA RemoveRowTyped ==
    ASSUME TypeInv, NEW p \in Procs, RemoveRow(p)
    PROVE  TypeInv'
<1>1. row' \in [Art -> {"unused", "live", "dropped"}]
  BY DEF RemoveRow, TypeInv, TypeOK
<1>2. Go(p, Idle)
  BY DEF RemoveRow, Done, Go
<1>3. QED
  BY <1>1, <1>2, IdleType, StepType DEF RemoveRow, TypeInv, TypeOK

LEMMA SubmitForReviewTyped ==
    ASSUME TypeInv, NEW s \in Subs, SubmitForReview(s)
    PROVE  TypeInv'
<1>1. status' \in [Subs -> Statuses]
  BY DEF SubmitForReview, TypeInv, TypeOK, Statuses
<1>2. QED
  BY <1>1 DEF SubmitForReview, TypeInv, TypeOK, RequestFine

-----------------------------------------------------------------------------
(***************************************************************************)
(* Approval.                                                               *)
(***************************************************************************)

LEMMA ApproveTyped ==
    ASSUME TypeInv, NEW p \in Procs, NEW s \in Subs, Approve(p, s)
    PROVE  TypeInv'
<1> DEFINE r == [Idle EXCEPT !.pc = "list_approve", !.sub = s,
                             !.version = CountApprovedByPack(s) + 1]
<1>1. CountApprovedByPack(s) + 1 \in Nat
  BY CountType
<1>2. r \in Request /\ RequestFine(r)
  BY <1>1 DEF Idle, Request, RequestFine, PCs, FilePCs
<1>3. Go(p, r)
  BY DEF Approve
<1> HIDE DEF r
<1>4. QED
  BY <1>2, <1>3, ReadType DEF Approve

LEMMA ApproveListTyped ==
    ASSUME TypeInv, NEW p \in Procs, ApproveList(p)
    PROVE  TypeInv'
<1> DEFINE r == [req[p] EXCEPT !.pc = "publish", !.todo = ListFiles(req[p].sub)]
<1>1. ListFiles(req[p].sub) \subseteq File
  BY ListFilesType DEF TypeInv
<1>2. r \in Request /\ RequestFine(r)
  BY <1>1 DEF ApproveList, At, TypeInv, TypeOK, Request, RequestFine, PCs, FilePCs
<1> HIDE DEF r
<1>3. QED
  BY <1>2, ReadType DEF ApproveList, r

\* One file fewer to do: what the request holds is still fine.
LEMMA LessToDo ==
    ASSUME TypeInv, NEW p \in Procs, NEW f \in req[p].todo, At(p, "publish")
    PROVE  LET r == [req[p] EXCEPT !.todo = @ \ {f}] IN r \in Request /\ RequestFine(r)
BY DEF At, TypeInv, TypeOK, Request, RequestFine, PCs, FilePCs

LEMMA PublishNothingTyped ==
    ASSUME TypeInv, NEW p \in Procs, PublishNothing(p)
    PROVE  TypeInv'
<1>1. PICK f \in req[p].todo :
         /\ At(p, "publish")
         /\ Go(p, [req[p] EXCEPT !.todo = @ \ {f}])
         /\ UNCHANGED <<db, bucket, url, ledger, failures>>
  BY DEF PublishNothing
<1> DEFINE r == [req[p] EXCEPT !.todo = @ \ {f}]
<1>2. r \in Request /\ RequestFine(r)
  BY <1>1, LessToDo
<1> HIDE DEF r
<1>3. QED
  BY <1>1, <1>2, ReadType DEF r

LEMMA PublishMissingTyped ==
    ASSUME TypeInv, NEW p \in Procs, PublishMissing(p)
    PROVE  TypeInv'
<1>1. PICK f \in req[p].todo :
         /\ At(p, "publish")
         /\ \/ bucket[f.key] = None /\ UNCHANGED failures
            \/ f.art \in Unlucky /\ failures < MaxFailures /\ failures' = failures + 1
         /\ row' = [row EXCEPT ![f.art] = "dropped"]
         /\ Go(p, [req[p] EXCEPT !.todo = @ \ {f}])
         /\ UNCHANGED <<status, version, rowKey, bucket, url, ledger>>
  BY DEF PublishMissing, MistakenForMissing
<1> DEFINE r == [req[p] EXCEPT !.todo = @ \ {f}]
<1>2. r \in Request /\ RequestFine(r)
  BY <1>1, LessToDo
<1>3. failures' \in 0..MaxFailures
  BY <1>1, PackReviewAssumption DEF TypeInv, TypeOK
<1>4. row' \in [Art -> {"unused", "live", "dropped"}]
  BY <1>1 DEF TypeInv, TypeOK
<1> HIDE DEF r
<1>5. QED
  BY <1>1, <1>2, <1>3, <1>4, StepType DEF TypeInv, TypeOK, r

LEMMA PublishFileTyped ==
    ASSUME TypeInv, NEW p \in Procs, PublishFile(p)
    PROVE  TypeInv'
<1>1. PICK f \in req[p].todo :
         /\ At(p, "publish")
         /\ bucket' = [bucket EXCEPT ![ObjectKey(f.art)] = bucket[f.key]]
         /\ Go(p, [req[p] EXCEPT !.pc = "unstage", !.file = f, !.todo = @ \ {f}])
         /\ UNCHANGED <<db, url, ledger, failures>>
  BY DEF PublishFile
<1> DEFINE r == [req[p] EXCEPT !.pc = "unstage", !.file = f, !.todo = @ \ {f}]
<1>2. f \in File
  BY DEF TypeInv, TypeOK, Request
<1>3. r \in Request /\ RequestFine(r)
  BY <1>1, <1>2 DEF At, TypeInv, TypeOK, Request, RequestFine, PCs, FilePCs
<1>4. bucket' \in [Keys -> Art \cup {None}]
  BY <1>1, <1>2 DEF TypeInv, TypeOK, File
<1> HIDE DEF r
<1>5. QED
  BY <1>1, <1>3, <1>4, StepType DEF TypeInv, TypeOK, db, r

LEMMA PublishUnstageTyped ==
    ASSUME TypeInv, NEW p \in Procs, PublishUnstage(p)
    PROVE  TypeInv'
<1> DEFINE r == [req[p] EXCEPT !.pc = "relabel"]
<1>1. r \in Request /\ RequestFine(r)
  BY DEF PublishUnstage, At, TypeInv, TypeOK, Request, RequestFine, PCs, FilePCs
<1>2. bucket' \in [Keys -> Art \cup {None}]
  BY WithoutType DEF PublishUnstage, TypeInv
<1> HIDE DEF r
<1>3. QED
  BY <1>1, <1>2, StepType DEF PublishUnstage, TypeInv, TypeOK, db, r

LEMMA PublishRelabelTyped ==
    ASSUME TypeInv, NEW p \in Procs, PublishRelabel(p)
    PROVE  TypeInv'
<1> DEFINE r == [req[p] EXCEPT !.pc = "publish", !.file = None]
<1>1. r \in Request /\ RequestFine(r)
  BY DEF PublishRelabel, At, TypeInv, TypeOK, Request, RequestFine, PCs, FilePCs
<1>2. req[p].file \in File
  BY DEF PublishRelabel, At, TypeInv, RequestFine, FilePCs
<1>3. row' \in [Art -> {"unused", "live", "dropped"}]
  BY DEF PublishRelabel, TypeInv, TypeOK
<1>4. rowKey' \in [Art -> Keys]
  <2>1. ObjectKey(req[p].file.art) \in Keys
    BY <1>2, ObjectKeyType DEF File
  <2>2. QED
    BY <2>1 DEF PublishRelabel, TypeInv, TypeOK
<1> HIDE DEF r
<1>5. QED
  BY <1>1, <1>3, <1>4, StepType DEF PublishRelabel, TypeInv, TypeOK, r

LEMMA SetSubmissionStatusTyped ==
    ASSUME TypeInv, NEW s \in Subs, NEW st \in Statuses, SetSubmissionStatus(s, st)
    PROVE  status' \in [Subs -> Statuses]
BY DEF TypeInv, TypeOK, SetSubmissionStatus

LEMMA ApproveSetStatusTyped ==
    ASSUME TypeInv, NEW p \in Procs, ApproveSetStatus(p)
    PROVE  TypeInv'
<1> DEFINE s == req[p].sub
           r == IF Exists(s) THEN [req[p] EXCEPT !.pc = "award"] ELSE Idle
<1>1. r \in Request /\ RequestFine(r)
  BY IdleType
     DEF ApproveSetStatus, At, TypeInv, TypeOK, Request, RequestFine, PCs, FilePCs
<1>2. s \in Subs /\ req[p].version \in Nat
  BY DEF ApproveSetStatus, At, TypeInv, TypeOK, Request, RequestFine
<1>3. status' \in [Subs -> Statuses]
  BY <1>2, SetSubmissionStatusTyped DEF ApproveSetStatus, Statuses
<1>4. version' \in [Subs -> Nat]
  BY <1>2 DEF ApproveSetStatus, TypeInv, TypeOK
<1>5. Go(p, r)
  BY DEF ApproveSetStatus, Done, Go
<1> HIDE DEF r
<1>6. QED
  BY <1>1, <1>3, <1>4, <1>5, StepType DEF ApproveSetStatus, TypeInv, TypeOK

LEMMA AwardCheckTyped ==
    ASSUME TypeInv, NEW p \in Procs, AwardCheck(p)
    PROVE  TypeInv'
<1> DEFINE r == [req[p] EXCEPT !.pc = "credit"]
<1>1. r \in Request /\ RequestFine(r)
  BY DEF AwardCheck, At, TypeInv, TypeOK, Request, RequestFine, PCs, FilePCs
<1>2. Go(p, Idle) \/ Go(p, r)
  BY DEF AwardCheck, Done, Go
<1> HIDE DEF r
<1>3. QED
  BY <1>1, <1>2, IdleType, ReadType DEF AwardCheck

LEMMA AwardXPTyped ==
    ASSUME TypeInv, NEW p \in Procs, AwardXP(p)
    PROVE  TypeInv'
<1>1. req[p].sub \in Subs
  BY DEF AwardXP, At, TypeInv, RequestFine
<1>2. ledger' \in [Subs -> Nat]
  BY <1>1 DEF AwardXP, TypeInv, TypeOK
<1>3. Go(p, Idle)
  BY DEF AwardXP, Done, Go
<1>4. QED
  BY <1>2, <1>3, IdleType, StepType DEF AwardXP, TypeInv, TypeOK, db

-----------------------------------------------------------------------------
(***************************************************************************)
(* Rejection.                                                              *)
(***************************************************************************)

\* The requests that start with nothing but a submission.
LEMMA BeginTyped ==
    ASSUME TypeInv, NEW p \in Procs, NEW s \in Subs,
           NEW pc \in {"list_reject", "keep", "delete_list"}, Begin(p, s, pc),
           UNCHANGED <<db, bucket, url, ledger, failures>>
    PROVE  TypeInv'
<1> DEFINE r == [Idle EXCEPT !.pc = pc, !.sub = s]
<1>1. r \in Request /\ RequestFine(r)
  BY DEF Idle, Request, RequestFine, PCs, FilePCs
<1>2. Go(p, r)
  BY DEF Begin
<1> HIDE DEF r
<1>3. QED
  BY <1>1, <1>2, ReadType

LEMMA RejectListTyped ==
    ASSUME TypeInv, NEW p \in Procs, RejectList(p)
    PROVE  TypeInv'
<1> DEFINE fs == {f \in ListFiles(req[p].sub) : isReviewObjectKey(f.key)}
           r == [req[p] EXCEPT !.pc = "preserve", !.todo = fs]
<1>1. fs \subseteq File /\ \A f \in fs : f.key \in StagedKeys
  BY ListFilesType DEF TypeInv, isReviewObjectKey
<1> HIDE DEF fs
<1>2. r \in Request /\ RequestFine(r)
  BY <1>1 DEF RejectList, At, TypeInv, TypeOK, Request, RequestFine, PCs, FilePCs
<1>3. Go(p, r)
  BY DEF RejectList, fs
<1> HIDE DEF r
<1>4. QED
  BY <1>2, <1>3, ReadType DEF RejectList

LEMMA PreserveRejectedFileTyped ==
    ASSUME TypeInv, NEW p \in Procs, PreserveRejectedFile(p)
    PROVE  TypeInv'
<1>1. PICK f \in req[p].todo :
         /\ At(p, "preserve")
         /\ f.key.rejected < MaxRejections
         /\ IF bucket[f.key] = None
            THEN Done(p) /\ UNCHANGED bucket
            ELSE /\ bucket' = [bucket EXCEPT ![rejectedObjectKey(f.key)] = bucket[f.key],
                                             ![f.key] = None]
                 /\ Go(p, [req[p] EXCEPT !.pc = "relabel_rejected", !.file = f, !.todo = @ \ {f}])
         /\ UNCHANGED <<db, url, ledger, failures>>
  BY DEF PreserveRejectedFile
<1>2. f \in File /\ f.key \in StagedKeys
  BY <1>1 DEF TypeInv, TypeOK, Request, RequestFine, At
<1>3. CASE bucket[f.key] = None
  BY <1>1, <1>3, IdleType, ReadType DEF Done, Go
<1>4. CASE bucket[f.key] # None
  <2> DEFINE r == [req[p] EXCEPT !.pc = "relabel_rejected", !.file = f, !.todo = @ \ {f}]
  <2>1. r \in Request /\ RequestFine(r)
    BY <1>1, <1>2 DEF At, TypeInv, TypeOK, Request, RequestFine, PCs, FilePCs
  <2>2. bucket' \in [Keys -> Art \cup {None}]
    BY <1>1, <1>2, <1>4, RejectedKeyType DEF TypeInv, TypeOK, File
  <2>3. Go(p, r)
    BY <1>1, <1>4
  <2> HIDE DEF r
  <2>4. QED
    BY <1>1, <2>1, <2>2, <2>3, StepType DEF TypeInv, TypeOK, db
<1>5. QED
  BY <1>3, <1>4

LEMMA RejectRelabelTyped ==
    ASSUME TypeInv, NEW p \in Procs, RejectRelabel(p)
    PROVE  TypeInv'
<1> DEFINE r == [req[p] EXCEPT !.pc = "preserve", !.file = None]
<1>1. /\ req[p].file.key \in StagedKeys
      /\ req[p].file.key.rejected < MaxRejections
  BY DEF RejectRelabel, At, TypeInv, RequestFine
<1>2. r \in Request /\ RequestFine(r)
  BY DEF RejectRelabel, At, TypeInv, TypeOK, Request, RequestFine, PCs, FilePCs
<1>3. rowKey' \in [Art -> Keys]
  BY <1>1, RejectedKeyType DEF RejectRelabel, TypeInv, TypeOK
<1> HIDE DEF r
<1>4. QED
  BY <1>2, <1>3, StepType DEF RejectRelabel, TypeInv, TypeOK, r

LEMMA RejectSetStatusTyped ==
    ASSUME TypeInv, NEW p \in Procs, RejectSetStatus(p)
    PROVE  TypeInv'
<1>1. req[p].sub \in Subs
  BY DEF RejectSetStatus, At, TypeInv, RequestFine
<1>2. status' \in [Subs -> Statuses]
  BY <1>1, SetSubmissionStatusTyped DEF RejectSetStatus, Statuses
<1>3. Go(p, Idle)
  BY DEF RejectSetStatus, Done, Go
<1>4. QED
  BY <1>2, <1>3, IdleType, StepType DEF RejectSetStatus, TypeInv, TypeOK

-----------------------------------------------------------------------------
(***************************************************************************)
(* Trash, deletion, and a request cut short.                               *)
(***************************************************************************)

LEMMA TrashKeepTyped ==
    ASSUME TypeInv, NEW p \in Procs, TrashKeep(p)
    PROVE  TypeInv'
<1> DEFINE r == [req[p] EXCEPT !.pc = "sweep", !.keep = ListLivePackObjectKeys(req[p].sub)]
<1>1. ListLivePackObjectKeys(req[p].sub) \subseteq Keys
  BY DEF ListLivePackObjectKeys, TypeInv, TypeOK
<1>2. r \in Request /\ RequestFine(r)
  BY <1>1 DEF TrashKeep, At, TypeInv, TypeOK, Request, RequestFine, PCs, FilePCs
<1> HIDE DEF r
<1>3. QED
  BY <1>2, ReadType DEF TrashKeep, r

LEMMA TrashSweepTyped ==
    ASSUME TypeInv, NEW p \in Procs, TrashSweep(p)
    PROVE  TypeInv'
<1> DEFINE r == [req[p] EXCEPT !.pc = "droprows", !.keep = {}]
<1>1. r \in Request /\ RequestFine(r)
  BY DEF TrashSweep, At, TypeInv, TypeOK, Request, RequestFine, PCs, FilePCs
<1>2. bucket' \in [Keys -> Art \cup {None}]
  BY WithoutType DEF TrashSweep, TypeInv
<1> HIDE DEF r
<1>3. QED
  BY <1>1, <1>2, StepType DEF TrashSweep, TypeInv, TypeOK, db, r

LEMMA TrashDropRowsTyped ==
    ASSUME TypeInv, NEW p \in Procs, TrashDropRows(p)
    PROVE  TypeInv'
<1> DEFINE r == [req[p] EXCEPT !.pc = "trash_status"]
<1>1. r \in Request /\ RequestFine(r)
  BY DEF TrashDropRows, At, TypeInv, TypeOK, Request, RequestFine, PCs, FilePCs
<1>2. row' \in [Art -> {"unused", "live", "dropped"}]
  BY DEF TrashDropRows, TypeInv, TypeOK
<1> HIDE DEF r
<1>3. QED
  BY <1>1, <1>2, StepType DEF TrashDropRows, TypeInv, TypeOK, r

LEMMA TrashSubmissionTyped ==
    ASSUME TypeInv, NEW p \in Procs, TrashSubmission(p)
    PROVE  TypeInv'
<1>1. status' \in [Subs -> Statuses]
  BY DEF TrashSubmission, TypeInv, TypeOK, Statuses
<1>2. Go(p, Idle)
  BY DEF TrashSubmission, Done, Go
<1>3. QED
  BY <1>1, <1>2, IdleType, StepType DEF TrashSubmission, TypeInv, TypeOK

LEMMA DeleteListTyped ==
    ASSUME TypeInv, NEW p \in Procs, DeleteList(p)
    PROVE  TypeInv'
<1> DEFINE r == [req[p] EXCEPT !.pc = "delete_objects", !.todo = ListFiles(req[p].sub)]
<1>1. ListFiles(req[p].sub) \subseteq File
  BY ListFilesType DEF TypeInv
<1>2. r \in Request /\ RequestFine(r)
  BY <1>1 DEF DeleteList, At, TypeInv, TypeOK, Request, RequestFine, PCs, FilePCs
<1> HIDE DEF r
<1>3. QED
  BY <1>2, ReadType DEF DeleteList, r

LEMMA DeleteObjectsTyped ==
    ASSUME TypeInv, NEW p \in Procs, DeleteObjects(p)
    PROVE  TypeInv'
<1> DEFINE r == [req[p] EXCEPT !.pc = "delete_row", !.todo = {}]
<1>1. r \in Request /\ RequestFine(r)
  BY DEF DeleteObjects, At, TypeInv, TypeOK, Request, RequestFine, PCs, FilePCs
<1>2. bucket' \in [Keys -> Art \cup {None}]
  BY WithoutType DEF DeleteObjects, TypeInv
<1> HIDE DEF r
<1>3. QED
  BY <1>1, <1>2, StepType DEF DeleteObjects, TypeInv, TypeOK, db, r

LEMMA DeleteRowTyped ==
    ASSUME TypeInv, NEW p \in Procs, DeleteRow(p)
    PROVE  TypeInv'
<1>1. /\ status' \in [Subs -> Statuses]
      /\ row' \in [Art -> {"unused", "live", "dropped"}]
  BY DEF DeleteRow, TypeInv, TypeOK, Statuses
<1>2. Go(p, Idle)
  BY DEF DeleteRow, Done, Go
<1>3. QED
  BY <1>1, <1>2, IdleType, StepType DEF DeleteRow, TypeInv, TypeOK

LEMMA AbortTyped ==
    ASSUME TypeInv, NEW p \in Procs, Abort(p)
    PROVE  TypeInv'
<1>1. failures' \in 0..MaxFailures
  BY PackReviewAssumption DEF Abort, TypeInv, TypeOK
<1>2. Go(p, Idle)
  BY DEF Abort, Done, Go
<1>3. QED
  BY <1>1, <1>2, IdleType, StepType DEF Abort, TypeInv, TypeOK, db

-----------------------------------------------------------------------------
LEMMA StartTyped ==
    ASSUME TypeInv, NEW p \in Procs, Start(p)
    PROVE  TypeInv'
<1>1. ASSUME NEW a \in Art, GetUploadURL(p, a) \/ RemoveSubmissionFile(p, a) PROVE TypeInv'
  BY <1>1, GetUploadURLTyped, RemoveSubmissionFileTyped
<1>2. ASSUME NEW s \in Subs, CreateSubmission(p, s) \/ AddSubmissionFiles(p, s) PROVE TypeInv'
  BY <1>2, CreateSubmissionTyped, AddSubmissionFilesTyped
<1>3. ASSUME NEW s \in Subs, Approve(p, s) PROVE TypeInv'
  BY <1>3, ApproveTyped
<1>4. ASSUME NEW s \in Subs, Reject(p, s) PROVE TypeInv'
  BY <1>4, BeginTyped DEF Reject
<1>5. ASSUME NEW s \in Subs, Trash(p, s) PROVE TypeInv'
  BY <1>5, BeginTyped DEF Trash
<1>6. ASSUME NEW s \in Subs, DeleteSubmission(p, s) PROVE TypeInv'
  BY <1>6, BeginTyped DEF DeleteSubmission
<1>7. QED
  BY <1>1, <1>2, <1>3, <1>4, <1>5, <1>6 DEF Start

LEMMA StepTyped ==
    ASSUME TypeInv, NEW p \in Procs, Step(p)
    PROVE  TypeInv'
BY UploadURLRegisterTyped, InsertSubmissionTyped, RegisterFileTyped, RegisterDoneTyped,
   RemoveObjectTyped, RemoveRowTyped, ApproveListTyped, PublishNothingTyped,
   PublishMissingTyped, PublishFileTyped, PublishUnstageTyped, PublishRelabelTyped,
   ApproveSetStatusTyped, AwardCheckTyped, AwardXPTyped, RejectListTyped,
   PreserveRejectedFileTyped, RejectRelabelTyped, RejectSetStatusTyped, TrashKeepTyped,
   TrashSweepTyped, TrashDropRowsTyped, TrashSubmissionTyped, DeleteListTyped,
   DeleteObjectsTyped, DeleteRowTyped
   DEF Step

LEMMA TypeStep == TypeInv /\ [Next]_vars => TypeInv'
<1> SUFFICES ASSUME TypeInv, [Next]_vars PROVE TypeInv'
  OBVIOUS
<1>1. CASE UNCHANGED vars
  BY <1>1 DEF TypeInv, TypeOK, RequestFine, vars
<1>2. CASE Browser
  BY <1>2, BrowserTyped
<1>3. ASSUME NEW s \in Subs, SubmitForReview(s) PROVE TypeInv'
  BY <1>3, SubmitForReviewTyped
<1>4. ASSUME NEW p \in Procs, Start(p) \/ Step(p) \/ Abort(p) PROVE TypeInv'
  BY <1>4, StartTyped, StepTyped, AbortTyped
<1>5. QED
  BY <1>1, <1>2, <1>3, <1>4 DEF Next

LEMMA TypeInvHolds == Spec => []TypeInv
BY TypeInit, TypeStep, PTL DEF Spec

\* Whatever requests overlap, fail or are cut short, every table, object and
\* request keeps its type: no step leaves the key space or reads a missing row.
THEOREM TypeCorrect == Spec => []TypeOK
<1>1. TypeInv => TypeOK
  BY DEF TypeInv
<1>2. QED
  BY <1>1, TypeInvHolds, PTL
-----------------------------------------------------------------------------
(***************************************************************************)
(* Safety of overlapping requests, for every value of PackReview's         *)
(* constants: no interleaving and no request cut short puts art where it   *)
(* does not belong, credits a submission no reviewer approved, or takes a  *)
(* published submission back to the queue.                                 *)
(***************************************************************************)

(***************************************************************************)
(* Rows and requests only name an upload together with a key of its own:   *)
(* one of its staging keys, or the canonical key it is published under.    *)
(***************************************************************************)
OwnKey(f) ==
    \/ f.key = ObjectKey(f.art)
    \/ f.key \in StagedKeys /\ f.key.art = f.art

OwnRequest(r) ==
    /\ \A f \in r.todo : OwnKey(f)
    /\ r.pc \in FilePCs => OwnKey(r.file)

OwnRows == \A a \in Art : OwnKey([art |-> a, key |-> rowKey[a]])

OwnKeys == OwnRows /\ \A p \in Procs : OwnRequest(req[p])

\* The two key spaces are disjoint.
LEMMA StagedNotPublic ==
    ASSUME NEW k \in StagedKeys
    PROVE  k \notin PublicKeys
<1> SUFFICES ASSUME k \in PublicKeys PROVE FALSE
  OBVIOUS
<1>1. "art" \in DOMAIN k
  BY DEF StagedKeys
<1>2. DOMAIN k = {"pack", "slot", "ext"}
  BY DEF PublicKeys
<1>3. QED
  BY <1>1, <1>2

LEMMA OwnStep ==
    ASSUME TypeInv, OwnKeys, NEW p \in Procs, NEW r, OwnRequest(r), Go(p, r), OwnRows'
    PROVE  OwnKeys'
<1>1. ASSUME NEW q \in Procs PROVE OwnRequest(req[q])'
  <2>1. req'[q] = IF q = p THEN r ELSE req[q]
    BY DEF TypeInv, TypeOK, Go
  <2>2. OwnRequest(req[q])
    BY DEF OwnKeys
  <2>3. OwnRequest(req'[q])
    BY <2>1, <2>2
  <2>4. QED
    BY <2>3 DEF OwnRequest, OwnKey
<1>2. QED
  BY <1>1 DEF OwnKeys

\* A step that writes no key and gives one request no file it did not have.
LEMMA OwnReadStep ==
    ASSUME TypeInv, OwnKeys, NEW p \in Procs, NEW r, OwnRequest(r), Go(p, r),
           UNCHANGED rowKey
    PROVE  OwnKeys'
BY OwnStep DEF OwnKeys, OwnRows, OwnKey

LEMMA OwnIdle == OwnRequest(Idle)
BY DEF OwnRequest, Idle, FilePCs

LEMMA OwnReviewKey ==
    ASSUME NEW a \in Art
    PROVE  OwnKey([art |-> a, key |-> reviewObjectKey(a)])
BY ReviewKeyType DEF OwnKey, reviewObjectKey

LEMMA OwnList ==
    ASSUME OwnKeys, NEW s
    PROVE  \A f \in ListFiles(s) : OwnKey(f)
BY DEF ListFiles, Rows, OwnKeys, OwnRows

LEMMA OwnInputs ==
    ASSUME NEW as \in SUBSET Art
    PROVE  \A f \in Inputs(as) : OwnKey(f)
BY OwnReviewKey DEF Inputs

\* Writing one row with a key of its upload.
LEMMA OwnWrite ==
    ASSUME TypeInv, OwnKeys, NEW a \in Art, NEW k, OwnKey([art |-> a, key |-> k]),
           rowKey' = [rowKey EXCEPT ![a] = k]
    PROVE  OwnRows'
<1> SUFFICES ASSUME NEW b \in Art
             PROVE  OwnKey([art |-> b, key |-> rowKey'[b]])
  BY DEF OwnRows, OwnKey
<1>1. rowKey'[b] = IF b = a THEN k ELSE rowKey[b]
  BY DEF TypeInv, TypeOK
<1>2. OwnKey([art |-> b, key |-> rowKey[b]])
  BY DEF OwnKeys, OwnRows
<1>3. QED
  BY <1>1, <1>2

LEMMA OwnInit == Init => OwnKeys
<1> SUFFICES ASSUME Init PROVE OwnKeys
  OBVIOUS
<1>1. OwnRows
  BY OwnReviewKey DEF Init, OwnRows
<1>2. QED
  BY <1>1, OwnIdle DEF Init, OwnKeys

LEMMA OwnStart ==
    ASSUME TypeInv, OwnKeys, NEW p \in Procs, Start(p)
    PROVE  OwnKeys'
<1>1. ASSUME NEW a \in Art, GetUploadURL(p, a) PROVE OwnKeys'
  <2> DEFINE r == [Idle EXCEPT !.pc = "presign", !.sub = SubOf[a],
                               !.file = [art |-> a, key |-> reviewObjectKey(a)]]
  <2>1. OwnRequest(r)
    BY OwnReviewKey DEF OwnRequest, Idle, FilePCs
  <2>2. Go(p, r) /\ UNCHANGED rowKey
    BY <1>1 DEF GetUploadURL, db
  <2> QED
    BY <2>1, <2>2, OwnReadStep
<1>2. ASSUME NEW a \in Art, RemoveSubmissionFile(p, a) PROVE OwnKeys'
  <2> DEFINE r == [Idle EXCEPT !.pc = "unlink", !.sub = SubOf[a],
                               !.file = [art |-> a, key |-> rowKey[a]]]
  <2>1. OwnRequest(r)
    BY DEF OwnRequest, Idle, FilePCs, OwnKeys, OwnRows
  <2>2. Go(p, r) /\ UNCHANGED rowKey
    BY <1>2 DEF RemoveSubmissionFile, db
  <2> QED
    BY <2>1, <2>2, OwnReadStep
<1>3. ASSUME NEW s \in Subs, CreateSubmission(p, s) PROVE OwnKeys'
  <2>1. PICK as \in SUBSET Uploaded(s) :
           Go(p, [Idle EXCEPT !.pc = "insert", !.sub = s, !.todo = Inputs(as)])
    BY <1>3 DEF CreateSubmission
  <2> DEFINE r == [Idle EXCEPT !.pc = "insert", !.sub = s, !.todo = Inputs(as)]
  <2>2. OwnRequest(r)
    BY OwnInputs DEF OwnRequest, Idle, FilePCs, Uploaded
  <2>3. UNCHANGED rowKey
    BY <1>3 DEF CreateSubmission, db
  <2> QED
    BY <2>1, <2>2, <2>3, OwnReadStep
<1>4. ASSUME NEW s \in Subs, AddSubmissionFiles(p, s) PROVE OwnKeys'
  <2>1. PICK as \in (SUBSET Uploaded(s)) \ {{}} :
           Go(p, [Idle EXCEPT !.pc = "register", !.sub = s, !.todo = Inputs(as)])
    BY <1>4 DEF AddSubmissionFiles
  <2> DEFINE r == [Idle EXCEPT !.pc = "register", !.sub = s, !.todo = Inputs(as)]
  <2>2. OwnRequest(r)
    BY OwnInputs DEF OwnRequest, Idle, FilePCs, Uploaded
  <2>3. UNCHANGED rowKey
    BY <1>4 DEF AddSubmissionFiles, db
  <2> QED
    BY <2>1, <2>2, <2>3, OwnReadStep
<1>5. ASSUME NEW s \in Subs, Approve(p, s) PROVE OwnKeys'
  <2> DEFINE r == [Idle EXCEPT !.pc = "list_approve", !.sub = s,
                               !.version = CountApprovedByPack(s) + 1]
  <2>1. OwnRequest(r)
    BY DEF OwnRequest, Idle, FilePCs
  <2>2. Go(p, r) /\ UNCHANGED rowKey
    BY <1>5 DEF Approve, db
  <2> QED
    BY <2>1, <2>2, OwnReadStep
<1>6. ASSUME NEW s \in Subs, NEW pc \in {"list_reject", "keep", "delete_list"},
             Begin(p, s, pc), UNCHANGED rowKey
      PROVE  OwnKeys'
  <2> DEFINE r == [Idle EXCEPT !.pc = pc, !.sub = s]
  <2>1. OwnRequest(r)
    BY DEF OwnRequest, Idle, FilePCs
  <2>2. Go(p, r)
    BY <1>6 DEF Begin
  <2> QED
    BY <1>6, <2>1, <2>2, OwnReadStep
<1>7. QED
  BY <1>1, <1>2, <1>3, <1>4, <1>5, <1>6 DEF Start, Reject, Trash, DeleteSubmission, db

\* A request that goes on with the files it has, or fewer of them.
LEMMA OwnFewer ==
    ASSUME TypeInv, OwnKeys, NEW p \in Procs, NEW r,
           r.todo \subseteq req[p].todo,
           r.pc \in FilePCs => (req[p].pc \in FilePCs /\ r.file = req[p].file) \/ OwnKey(r.file)
    PROVE  OwnRequest(r)
BY DEF OwnKeys, OwnRequest, OwnKey

LEMMA OwnSubmitter ==
    ASSUME TypeInv, OwnKeys, NEW p \in Procs,
           \/ UploadURLRegister(p) \/ InsertSubmission(p) \/ RegisterFile(p)
           \/ RegisterDone(p) \/ RemoveObject(p) \/ RemoveRow(p)
    PROVE  OwnKeys'
<1>1. CASE UploadURLRegister(p)
  <2>1. Go(p, Idle)
    BY <1>1 DEF UploadURLRegister, Done, Go
  <2>2. req[p].file \in File /\ OwnKey(req[p].file)
    BY <1>1 DEF UploadURLRegister, At, TypeInv, RequestFine, OwnKeys, OwnRequest, FilePCs
  <2>3. CASE Exists(req[p].sub)
    <3>1. rowKey' = [rowKey EXCEPT ![req[p].file.art] = req[p].file.key]
      BY <1>1, <2>3 DEF UploadURLRegister, AddFileReason
    <3>2. OwnRows'
      BY <2>2, <3>1, OwnWrite DEF File, OwnKey
    <3>3. QED
      BY <2>1, <3>2, OwnStep, OwnIdle
  <2>4. CASE ~Exists(req[p].sub)
    BY <1>1, <2>1, <2>4, OwnReadStep, OwnIdle DEF UploadURLRegister
  <2>5. QED
    BY <2>3, <2>4
<1>2. CASE InsertSubmission(p)
  <2> DEFINE r == [req[p] EXCEPT !.pc = "register"]
  <2>1. OwnRequest(r)
    BY OwnFewer DEF FilePCs, TypeInv, TypeOK, Request
  <2> QED
    BY <1>2, <2>1, OwnReadStep DEF InsertSubmission
<1>3. CASE RegisterFile(p)
  <2>1. PICK f \in req[p].todo :
           /\ At(p, "register")
           /\ IF bucket[f.key] # None /\ Exists(req[p].sub)
              THEN /\ AddFileReason(f)
                   /\ Go(p, [req[p] EXCEPT !.todo = @ \ {f}])
              ELSE /\ UNCHANGED <<row, rowKey>>
                   /\ Done(p)
    BY <1>3 DEF RegisterFile, ensureUploaded
  <2>2. f \in File /\ OwnKey(f)
    BY DEF TypeInv, TypeOK, Request, OwnKeys, OwnRequest
  <2>3. CASE bucket[f.key] # None /\ Exists(req[p].sub)
    <3> DEFINE r == [req[p] EXCEPT !.todo = @ \ {f}]
    <3>1. OwnRequest(r)
      BY <2>1, OwnFewer DEF FilePCs, TypeInv, TypeOK, Request, At
    <3>2. rowKey' = [rowKey EXCEPT ![f.art] = f.key]
      BY <2>1, <2>3 DEF AddFileReason
    <3>3. OwnRows'
      BY <2>2, <3>2, OwnWrite DEF File, OwnKey
    <3> QED
      BY <2>1, <2>3, <3>1, <3>3, OwnStep
  <2>4. CASE ~(bucket[f.key] # None /\ Exists(req[p].sub))
    BY <2>1, <2>4, OwnReadStep, OwnIdle DEF Done, Go
  <2>5. QED
    BY <2>3, <2>4
<1>4. CASE RegisterDone(p)
  BY <1>4, OwnReadStep, OwnIdle DEF RegisterDone, Done, Go, db
<1>5. CASE RemoveObject(p)
  <2> DEFINE r == [req[p] EXCEPT !.pc = "droprow"]
  <2>1. OwnRequest(r)
    BY <1>5, OwnFewer DEF RemoveObject, At, FilePCs, TypeInv, TypeOK, Request
  <2> QED
    BY <1>5, <2>1, OwnReadStep DEF RemoveObject, db
<1>6. CASE RemoveRow(p)
  BY <1>6, OwnReadStep, OwnIdle DEF RemoveRow, Done, Go
<1>7. QED
  BY <1>1, <1>2, <1>3, <1>4, <1>5, <1>6

LEMMA OwnApproval ==
    ASSUME TypeInv, OwnKeys, NEW p \in Procs,
           \/ ApproveList(p) \/ PublishNothing(p) \/ PublishMissing(p) \/ PublishFile(p)
           \/ PublishUnstage(p) \/ PublishRelabel(p) \/ ApproveSetStatus(p)
           \/ AwardCheck(p) \/ AwardXP(p)
    PROVE  OwnKeys'
<1>1. CASE ApproveList(p)
  <2> DEFINE r == [req[p] EXCEPT !.pc = "publish", !.todo = ListFiles(req[p].sub)]
  <2>1. OwnRequest(r)
    BY OwnList DEF OwnRequest, FilePCs, TypeInv, TypeOK, Request
  <2> QED
    BY <1>1, <2>1, OwnReadStep DEF ApproveList, db
<1>2. CASE PublishNothing(p) \/ PublishMissing(p)
  <2>1. PICK f \in req[p].todo :
           /\ At(p, "publish")
           /\ Go(p, [req[p] EXCEPT !.todo = @ \ {f}])
           /\ UNCHANGED rowKey
    BY <1>2 DEF PublishNothing, PublishMissing, db
  <2> DEFINE r == [req[p] EXCEPT !.todo = @ \ {f}]
  <2>2. OwnRequest(r)
    BY <2>1, OwnFewer DEF FilePCs, TypeInv, TypeOK, Request, At
  <2> QED
    BY <2>1, <2>2, OwnReadStep
<1>3. CASE PublishFile(p)
  <2>1. PICK f \in req[p].todo :
           /\ Go(p, [req[p] EXCEPT !.pc = "unstage", !.file = f, !.todo = @ \ {f}])
           /\ UNCHANGED rowKey
    BY <1>3 DEF PublishFile, db
  <2> DEFINE r == [req[p] EXCEPT !.pc = "unstage", !.file = f, !.todo = @ \ {f}]
  <2>2. OwnRequest(r)
    BY DEF OwnKeys, OwnRequest, TypeInv, TypeOK, Request
  <2> QED
    BY <2>1, <2>2, OwnReadStep
<1>4. CASE PublishUnstage(p)
  <2> DEFINE r == [req[p] EXCEPT !.pc = "relabel"]
  <2>1. OwnRequest(r)
    BY <1>4, OwnFewer DEF PublishUnstage, At, FilePCs, TypeInv, TypeOK, Request
  <2> QED
    BY <1>4, <2>1, OwnReadStep DEF PublishUnstage, db
<1>5. CASE PublishRelabel(p)
  <2> DEFINE f == req[p].file
             r == [req[p] EXCEPT !.pc = "publish", !.file = None]
             k == IF row[f.art] = "live" THEN ObjectKey(f.art) ELSE rowKey[f.art]
  <2>1. OwnRequest(r)
    BY OwnFewer DEF FilePCs, TypeInv, TypeOK, Request
  <2>2. f.art \in Art
    BY <1>5 DEF PublishRelabel, At, TypeInv, RequestFine, FilePCs, File
  <2>3. OwnKey([art |-> f.art, key |-> k])
    BY <2>2 DEF OwnKeys, OwnRows, OwnKey
  <2>4. rowKey' = [rowKey EXCEPT ![f.art] = k] /\ Go(p, r)
    BY <1>5 DEF PublishRelabel
  <2> HIDE DEF k, f, r
  <2>5. OwnRows'
    BY <2>2, <2>3, <2>4, OwnWrite
  <2> QED
    BY <2>1, <2>4, <2>5, OwnStep
<1>6. CASE ApproveSetStatus(p)
  <2> DEFINE r == [req[p] EXCEPT !.pc = "award"]
  <2>1. OwnRequest(r)
    BY OwnFewer DEF FilePCs, TypeInv, TypeOK, Request
  <2>2. (Go(p, r) \/ Go(p, Idle)) /\ UNCHANGED rowKey
    BY <1>6 DEF ApproveSetStatus, Done, Go
  <2> QED
    BY <2>1, <2>2, OwnReadStep, OwnIdle
<1>7. CASE AwardCheck(p)
  <2> DEFINE r == [req[p] EXCEPT !.pc = "credit"]
  <2>1. OwnRequest(r)
    BY OwnFewer DEF FilePCs, TypeInv, TypeOK, Request
  <2>2. (Go(p, r) \/ Go(p, Idle)) /\ UNCHANGED rowKey
    BY <1>7 DEF AwardCheck, Done, Go, db
  <2> QED
    BY <2>1, <2>2, OwnReadStep, OwnIdle
<1>8. CASE AwardXP(p)
  BY <1>8, OwnReadStep, OwnIdle DEF AwardXP, Done, Go, db
<1>9. QED
  BY <1>1, <1>2, <1>3, <1>4, <1>5, <1>6, <1>7, <1>8

LEMMA OwnRejection ==
    ASSUME TypeInv, OwnKeys, NEW p \in Procs,
           RejectList(p) \/ PreserveRejectedFile(p) \/ RejectRelabel(p) \/ RejectSetStatus(p)
    PROVE  OwnKeys'
<1>1. CASE RejectList(p)
  <2> DEFINE fs == {f \in ListFiles(req[p].sub) : isReviewObjectKey(f.key)}
             r == [req[p] EXCEPT !.pc = "preserve", !.todo = fs]
  <2>1. \A f \in fs : OwnKey(f)
    BY OwnList
  <2> HIDE DEF fs
  <2>2. OwnRequest(r)
    BY <2>1 DEF OwnRequest, FilePCs, TypeInv, TypeOK, Request
  <2>3. Go(p, r) /\ UNCHANGED rowKey
    BY <1>1 DEF RejectList, db, fs
  <2> QED
    BY <2>2, <2>3, OwnReadStep
<1>2. CASE PreserveRejectedFile(p)
  <2>1. PICK f \in req[p].todo :
           /\ \/ Done(p)
              \/ Go(p, [req[p] EXCEPT !.pc = "relabel_rejected", !.file = f, !.todo = @ \ {f}])
           /\ UNCHANGED rowKey
    BY <1>2 DEF PreserveRejectedFile, db
  <2> DEFINE r == [req[p] EXCEPT !.pc = "relabel_rejected", !.file = f, !.todo = @ \ {f}]
  <2>2. OwnRequest(r)
    BY DEF OwnKeys, OwnRequest, TypeInv, TypeOK, Request
  <2>3. Go(p, r) \/ Go(p, Idle)
    BY <2>1 DEF Done, Go
  <2> QED
    BY <2>1, <2>2, <2>3, OwnReadStep, OwnIdle
<1>3. CASE RejectRelabel(p)
  <2> DEFINE f == req[p].file
             r == [req[p] EXCEPT !.pc = "preserve", !.file = None]
             k == IF row[f.art] = "live" THEN rejectedObjectKey(f.key) ELSE rowKey[f.art]
  <2>1. OwnRequest(r)
    BY OwnFewer DEF FilePCs, TypeInv, TypeOK, Request
  <2>2. /\ f \in File
        /\ f.key \in StagedKeys
        /\ f.key.rejected < MaxRejections
        /\ OwnKey(f)
    BY <1>3 DEF RejectRelabel, At, TypeInv, RequestFine, FilePCs, OwnKeys, OwnRequest
  <2>3. f.art \in Art
    BY <2>2 DEF File
  <2>4. rejectedObjectKey(f.key) \in StagedKeys /\ rejectedObjectKey(f.key).art = f.key.art
    BY <2>2, PackReviewAssumption DEF rejectedObjectKey, StagedKeys
  <2>5. f.key.art = f.art
    BY <2>2, <2>3, ObjectKeyType, StagedNotPublic DEF OwnKey
  <2>6. OwnKey([art |-> f.art, key |-> k])
    BY <2>3, <2>4, <2>5 DEF OwnKeys, OwnRows, OwnKey
  <2>7. rowKey' = [rowKey EXCEPT ![f.art] = k] /\ Go(p, r)
    BY <1>3 DEF RejectRelabel
  <2> HIDE DEF k, f, r
  <2>8. OwnRows'
    BY <2>3, <2>6, <2>7, OwnWrite
  <2> QED
    BY <2>1, <2>7, <2>8, OwnStep
<1>4. CASE RejectSetStatus(p)
  BY <1>4, OwnReadStep, OwnIdle DEF RejectSetStatus, Done, Go
<1>5. QED
  BY <1>1, <1>2, <1>3, <1>4

LEMMA OwnRemoval ==
    ASSUME TypeInv, OwnKeys, NEW p \in Procs,
           \/ TrashKeep(p) \/ TrashSweep(p) \/ TrashDropRows(p) \/ TrashSubmission(p)
           \/ DeleteList(p) \/ DeleteObjects(p) \/ DeleteRow(p) \/ Abort(p)
    PROVE  OwnKeys'
<1>1. CASE TrashKeep(p)
  <2> DEFINE r == [req[p] EXCEPT !.pc = "sweep", !.keep = ListLivePackObjectKeys(req[p].sub)]
  <2>1. OwnRequest(r)
    BY OwnFewer DEF FilePCs, TypeInv, TypeOK, Request
  <2> QED
    BY <1>1, <2>1, OwnReadStep DEF TrashKeep, db
<1>2. CASE TrashSweep(p)
  <2> DEFINE r == [req[p] EXCEPT !.pc = "droprows", !.keep = {}]
  <2>1. OwnRequest(r)
    BY OwnFewer DEF FilePCs, TypeInv, TypeOK, Request
  <2> QED
    BY <1>2, <2>1, OwnReadStep DEF TrashSweep, db
<1>3. CASE TrashDropRows(p)
  <2> DEFINE r == [req[p] EXCEPT !.pc = "trash_status"]
  <2>1. OwnRequest(r)
    BY OwnFewer DEF FilePCs, TypeInv, TypeOK, Request
  <2> QED
    BY <1>3, <2>1, OwnReadStep DEF TrashDropRows, db
<1>4. CASE DeleteObjects(p)
  <2> DEFINE r == [req[p] EXCEPT !.pc = "delete_row", !.todo = {}]
  <2>1. OwnRequest(r)
    BY OwnFewer DEF FilePCs, TypeInv, TypeOK, Request
  <2> QED
    BY <1>4, <2>1, OwnReadStep DEF DeleteObjects, db
<1>5. CASE DeleteList(p)
  <2> DEFINE r == [req[p] EXCEPT !.pc = "delete_objects", !.todo = ListFiles(req[p].sub)]
  <2>1. OwnRequest(r)
    BY OwnList DEF OwnRequest, FilePCs, TypeInv, TypeOK, Request
  <2> QED
    BY <1>5, <2>1, OwnReadStep DEF DeleteList, db
<1>6. CASE TrashSubmission(p) \/ DeleteRow(p) \/ Abort(p)
  BY <1>6, OwnReadStep, OwnIdle DEF TrashSubmission, DeleteRow, Abort, Done, Go, db
<1>7. QED
  BY <1>1, <1>2, <1>3, <1>4, <1>5, <1>6

LEMMA OwnKeysStep == TypeInv /\ OwnKeys /\ [Next]_vars => OwnKeys'
<1> SUFFICES ASSUME TypeInv, OwnKeys, [Next]_vars PROVE OwnKeys'
  OBVIOUS
<1>1. CASE Browser \/ (\E s \in Subs : SubmitForReview(s)) \/ UNCHANGED vars
  <2>1. UNCHANGED <<rowKey, req>>
    BY <1>1 DEF Browser, PresignedUpload, BrowserUpload, SubmitForReview, vars, db
  <2>2. QED
    BY <2>1 DEF OwnKeys, OwnRows, OwnRequest, OwnKey
<1>2. ASSUME NEW p \in Procs, Start(p) PROVE OwnKeys'
  BY <1>2, OwnStart
<1>3. ASSUME NEW p \in Procs, Step(p) PROVE OwnKeys'
  BY <1>3, OwnSubmitter, OwnApproval, OwnRejection, OwnRemoval DEF Step
<1>4. ASSUME NEW p \in Procs, Abort(p) PROVE OwnKeys'
  BY <1>4, OwnRemoval
<1>5. QED
  BY <1>1, <1>2, <1>3, <1>4 DEF Next

LEMMA OwnKeysHold == Spec => []OwnKeys
BY OwnInit, OwnKeysStep, TypeInvHolds, PTL DEF Spec

-----------------------------------------------------------------------------
(***************************************************************************)
(* What an object holds.                                                   *)
(***************************************************************************)
Belongs(k, a) == IF k \in PublicKeys THEN ObjectKey(a) = k ELSE a = k.art

LEMMA BytesWithout ==
    ASSUME TypeInv, BytesBelong, NEW ks, bucket' = Without(ks)
    PROVE  BytesBelong'
BY DEF TypeInv, TypeOK, BytesBelong, Without

LEMMA BytesWrite ==
    ASSUME TypeInv, BytesBelong, NEW k \in Keys, NEW a \in Art, Belongs(k, a),
           bucket' = [bucket EXCEPT ![k] = a]
    PROVE  BytesBelong'
BY DEF TypeInv, TypeOK, BytesBelong, Belongs

LEMMA BytesUpload ==
    ASSUME TypeInv, BytesBelong, NEW a \in Art,
           bucket' = [bucket EXCEPT ![reviewObjectKey(a)] = a]
    PROVE  BytesBelong'
<1>1. Belongs(reviewObjectKey(a), a)
  BY ReviewKeyType, StagedNotPublic DEF Belongs, reviewObjectKey
<1>2. QED
  BY <1>1, ReviewKeyType, BytesWrite

\* A copy to the canonical key takes the bytes from a staging key of the same
\* upload: a file at its canonical key is not published again.
LEMMA BytesPublish ==
    ASSUME TypeInv, OwnKeys, BytesBelong, NEW p \in Procs, PublishFile(p)
    PROVE  BytesBelong'
<1>1. PICK f \in req[p].todo :
         /\ f.key # ObjectKey(f.art)
         /\ bucket[f.key] # None
         /\ bucket' = [bucket EXCEPT ![ObjectKey(f.art)] = bucket[f.key]]
  BY DEF PublishFile
<1>2. f \in File /\ OwnKey(f)
  BY DEF TypeInv, TypeOK, Request, OwnKeys, OwnRequest
<1>3. f.key \in StagedKeys /\ f.key.art = f.art
  BY <1>1, <1>2 DEF OwnKey
<1>4. bucket[f.key] = f.art
  BY <1>1, <1>2, <1>3, StagedNotPublic DEF BytesBelong, File
<1>5. f.art \in Art /\ ObjectKey(f.art) \in Keys
  BY <1>2, ObjectKeyType DEF File
<1>6. Belongs(ObjectKey(f.art), f.art)
  BY <1>5, ObjectKeyType DEF Belongs
<1>7. QED
  BY <1>1, <1>4, <1>5, <1>6, BytesWrite

LEMMA BytesPreserve ==
    ASSUME TypeInv, BytesBelong, NEW p \in Procs, PreserveRejectedFile(p)
    PROVE  BytesBelong'
<1>1. PICK f \in req[p].todo :
         /\ At(p, "preserve")
         /\ f.key.rejected < MaxRejections
         /\ \/ UNCHANGED bucket
            \/ /\ bucket[f.key] # None
               /\ bucket' = [bucket EXCEPT ![rejectedObjectKey(f.key)] = bucket[f.key],
                                           ![f.key] = None]
  BY DEF PreserveRejectedFile
<1> DEFINE from == f.key
           to == rejectedObjectKey(f.key)
<1>2. from \in StagedKeys /\ from \in Keys
  BY <1>1 DEF TypeInv, TypeOK, Request, RequestFine, At, File, Keys
<1>3. to \in StagedKeys /\ to.art = from.art
  BY <1>1, <1>2, PackReviewAssumption DEF rejectedObjectKey, StagedKeys
<1>4. CASE UNCHANGED bucket
  BY <1>4 DEF BytesBelong
<1>5. CASE /\ bucket[from] # None
           /\ bucket' = [bucket EXCEPT ![to] = bucket[from], ![from] = None]
  <2> HIDE DEF from, to
  <2>1. bucket[from] = from.art
    BY <1>2, <1>5, StagedNotPublic DEF BytesBelong
  <2>2. SUFFICES ASSUME NEW k \in Keys, bucket'[k] # None
                 PROVE  Belongs(k, bucket'[k])
    BY DEF BytesBelong, Belongs
  <2>3. bucket'[k] = IF k = from THEN None ELSE IF k = to THEN bucket[from] ELSE bucket[k]
    BY <1>5 DEF TypeInv, TypeOK
  <2>4. CASE k = to
    BY <1>3, <2>1, <2>2, <2>3, <2>4, StagedNotPublic DEF Belongs
  <2>5. CASE k # to
    BY <2>2, <2>3, <2>5 DEF BytesBelong, Belongs
  <2>6. QED
    BY <2>4, <2>5
<1>6. QED
  BY <1>1, <1>4, <1>5

LEMMA BytesStep == TypeInv /\ OwnKeys /\ BytesBelong /\ [Next]_vars => BytesBelong'
<1> SUFFICES ASSUME TypeInv, OwnKeys, BytesBelong, [Next]_vars PROVE BytesBelong'
  OBVIOUS
<1>1. CASE Browser
  <2>1. PICK a \in Art : PresignedUpload(a) \/ BrowserUpload(a)
    BY <1>1 DEF Browser
  <2>2. QED
    BY <2>1, BytesUpload DEF PresignedUpload, BrowserUpload
<1>2. ASSUME NEW p \in Procs, PublishFile(p) PROVE BytesBelong'
  BY <1>2, BytesPublish
<1>3. ASSUME NEW p \in Procs, PreserveRejectedFile(p) PROVE BytesBelong'
  BY <1>3, BytesPreserve
<1>4. ASSUME NEW p \in Procs,
             RemoveObject(p) \/ PublishUnstage(p) \/ TrashSweep(p) \/ DeleteObjects(p)
      PROVE  BytesBelong'
  <2>1. UNCHANGED bucket \/ \E ks : bucket' = Without(ks)
    BY <1>4 DEF RemoveObject, PublishUnstage, TrashSweep, DeleteObjects
  <2>2. CASE UNCHANGED bucket
    BY <2>2 DEF BytesBelong
  <2>3. QED
    BY <2>1, <2>2, BytesWithout
<1>5. CASE UNCHANGED bucket
  BY <1>5 DEF BytesBelong
<1>6. ASSUME NEW p \in Procs, Start(p) \/ Abort(p) PROVE UNCHANGED bucket
  BY <1>6 DEF Start, Abort, GetUploadURL, RemoveSubmissionFile, CreateSubmission,
              AddSubmissionFiles, Approve, Reject, Trash, DeleteSubmission
<1>7. ASSUME NEW p \in Procs, Step(p)
      PROVE  \/ UNCHANGED bucket
             \/ PublishFile(p) \/ PreserveRejectedFile(p) \/ RemoveObject(p)
             \/ PublishUnstage(p) \/ TrashSweep(p) \/ DeleteObjects(p)
  BY <1>7 DEF Step, UploadURLRegister, InsertSubmission, RegisterFile, RegisterDone,
              RemoveRow, ApproveList, PublishNothing, PublishMissing, PublishRelabel,
              ApproveSetStatus, AwardCheck, AwardXP, RejectList, RejectRelabel,
              RejectSetStatus, TrashKeep, TrashDropRows, TrashSubmission, DeleteList,
              DeleteRow
<1>8. CASE UNCHANGED vars \/ \E s \in Subs : SubmitForReview(s)
  BY <1>5, <1>8 DEF vars, SubmitForReview
<1>9. QED
  BY <1>1, <1>2, <1>3, <1>4, <1>5, <1>6, <1>7, <1>8 DEF Next

\* However uploads, approvals, rejections and sweeps interleave and wherever
\* they are cut short, no object ever holds art of another pack, slot or format.
THEOREM BytesAlwaysBelong == Spec => []BytesBelong
<1>1. Init => BytesBelong
  BY DEF Init, BytesBelong
<1>2. QED
  BY <1>1, BytesStep, OwnKeysHold, TypeInvHolds, PTL DEF Spec

-----------------------------------------------------------------------------
(***************************************************************************)
(* The control flow of a request: where a step takes it.                   *)
(***************************************************************************)
Flow == {
    <<"insert", "register">>, <<"register", "register">>, <<"unlink", "droprow">>,
    <<"list_approve", "publish">>, <<"publish", "publish">>, <<"publish", "unstage">>,
    <<"unstage", "relabel">>, <<"relabel", "publish">>, <<"publish", "award">>,
    <<"award", "credit">>,
    <<"list_reject", "preserve">>, <<"preserve", "relabel_rejected">>,
    <<"relabel_rejected", "preserve">>,
    <<"keep", "sweep">>, <<"sweep", "droprows">>, <<"droprows", "trash_status">>,
    <<"delete_list", "delete_objects">>, <<"delete_objects", "delete_row">>}

Others(p) == \A q \in Procs \ {p} : req'[q] = req[q]

Moves(p) ==
    \/ req'[p] = Idle
    \/ /\ req'[p].sub = req[p].sub
       /\ req'[p].version = req[p].version
       /\ <<req[p].pc, req'[p].pc>> \in Flow

LEMMA GoOthers ==
    ASSUME TypeInv, NEW p \in Procs, NEW r, Go(p, r)
    PROVE  Others(p) /\ req'[p] = r
BY DEF TypeInv, TypeOK, Go, Others

LEMMA MovesTo ==
    ASSUME TypeInv, NEW p \in Procs, NEW r, Go(p, r),
           r.sub = req[p].sub, r.version = req[p].version, <<req[p].pc, r.pc>> \in Flow
    PROVE  Others(p) /\ Moves(p)
BY GoOthers DEF Moves

LEMMA MovesIdle ==
    ASSUME TypeInv, NEW p \in Procs, Done(p)
    PROVE  Others(p) /\ Moves(p)
BY DEF TypeInv, TypeOK, Done, Others, Moves

LEMMA SubmitterMoves ==
    ASSUME TypeInv, NEW p \in Procs,
           \/ UploadURLRegister(p) \/ InsertSubmission(p) \/ RegisterFile(p)
           \/ RegisterDone(p) \/ RemoveObject(p) \/ RemoveRow(p)
    PROVE  Others(p) /\ Moves(p)
<1>1. CASE InsertSubmission(p)
  <2> DEFINE r == [req[p] EXCEPT !.pc = "register"]
  <2>1. Go(p, r) /\ req[p].pc = "insert"
    BY <1>1 DEF InsertSubmission, At
  <2>2. <<req[p].pc, r.pc>> \in Flow /\ r.sub = req[p].sub /\ r.version = req[p].version
    BY <2>1 DEF Flow, TypeInv, TypeOK, Request
  <2> QED
    BY <2>1, <2>2, MovesTo
<1>2. CASE RegisterFile(p)
  <2>1. CASE Done(p)
    BY <2>1, MovesIdle
  <2>2. CASE ~Done(p)
    <3>1. PICK f \in req[p].todo :
             Go(p, [req[p] EXCEPT !.todo = @ \ {f}]) /\ req[p].pc = "register"
      BY <1>2, <2>2 DEF RegisterFile, At
    <3> DEFINE r == [req[p] EXCEPT !.todo = @ \ {f}]
    <3>2. <<req[p].pc, r.pc>> \in Flow /\ r.sub = req[p].sub /\ r.version = req[p].version
      BY <3>1 DEF Flow, TypeInv, TypeOK, Request
    <3> QED
      BY <3>1, <3>2, MovesTo
  <2>3. QED
    BY <2>1, <2>2
<1>3. CASE RemoveObject(p)
  <2> DEFINE r == [req[p] EXCEPT !.pc = "droprow"]
  <2>1. Go(p, r) /\ req[p].pc = "unlink"
    BY <1>3 DEF RemoveObject, At
  <2>2. <<req[p].pc, r.pc>> \in Flow /\ r.sub = req[p].sub /\ r.version = req[p].version
    BY <2>1 DEF Flow, TypeInv, TypeOK, Request
  <2> QED
    BY <2>1, <2>2, MovesTo
<1>4. CASE UploadURLRegister(p) \/ RegisterDone(p) \/ RemoveRow(p)
  BY <1>4, MovesIdle DEF UploadURLRegister, RegisterDone, RemoveRow
<1>5. QED
  BY <1>1, <1>2, <1>3, <1>4

LEMMA ApprovalMoves ==
    ASSUME TypeInv, NEW p \in Procs,
           \/ ApproveList(p) \/ PublishNothing(p) \/ PublishMissing(p) \/ PublishFile(p)
           \/ PublishUnstage(p) \/ PublishRelabel(p) \/ ApproveSetStatus(p)
           \/ AwardCheck(p) \/ AwardXP(p)
    PROVE  Others(p) /\ Moves(p)
<1>1. CASE ApproveList(p)
  <2> DEFINE r == [req[p] EXCEPT !.pc = "publish", !.todo = ListFiles(req[p].sub)]
  <2>1. Go(p, r) /\ req[p].pc = "list_approve"
    BY <1>1 DEF ApproveList, At
  <2>2. <<req[p].pc, r.pc>> \in Flow /\ r.sub = req[p].sub /\ r.version = req[p].version
    BY <2>1 DEF Flow, TypeInv, TypeOK, Request
  <2> QED
    BY <2>1, <2>2, MovesTo
<1>2. CASE PublishNothing(p) \/ PublishMissing(p)
  <2>1. PICK f \in req[p].todo :
           Go(p, [req[p] EXCEPT !.todo = @ \ {f}]) /\ req[p].pc = "publish"
    BY <1>2 DEF PublishNothing, PublishMissing, At
  <2> DEFINE r == [req[p] EXCEPT !.todo = @ \ {f}]
  <2>2. <<req[p].pc, r.pc>> \in Flow /\ r.sub = req[p].sub /\ r.version = req[p].version
    BY <2>1 DEF Flow, TypeInv, TypeOK, Request
  <2> QED
    BY <2>1, <2>2, MovesTo
<1>3. CASE PublishFile(p)
  <2>1. PICK f \in req[p].todo :
           Go(p, [req[p] EXCEPT !.pc = "unstage", !.file = f, !.todo = @ \ {f}]) /\ req[p].pc = "publish"
    BY <1>3 DEF PublishFile, At
  <2> DEFINE r == [req[p] EXCEPT !.pc = "unstage", !.file = f, !.todo = @ \ {f}]
  <2>2. <<req[p].pc, r.pc>> \in Flow /\ r.sub = req[p].sub /\ r.version = req[p].version
    BY <2>1 DEF Flow, TypeInv, TypeOK, Request
  <2> QED
    BY <2>1, <2>2, MovesTo
<1>4. CASE PublishUnstage(p)
  <2> DEFINE r == [req[p] EXCEPT !.pc = "relabel"]
  <2>1. Go(p, r) /\ req[p].pc = "unstage"
    BY <1>4 DEF PublishUnstage, At
  <2>2. <<req[p].pc, r.pc>> \in Flow /\ r.sub = req[p].sub /\ r.version = req[p].version
    BY <2>1 DEF Flow, TypeInv, TypeOK, Request
  <2> QED
    BY <2>1, <2>2, MovesTo
<1>5. CASE PublishRelabel(p)
  <2> DEFINE r == [req[p] EXCEPT !.pc = "publish", !.file = None]
  <2>1. Go(p, r) /\ req[p].pc = "relabel"
    BY <1>5 DEF PublishRelabel, At
  <2>2. <<req[p].pc, r.pc>> \in Flow /\ r.sub = req[p].sub /\ r.version = req[p].version
    BY <2>1 DEF Flow, TypeInv, TypeOK, Request
  <2> QED
    BY <2>1, <2>2, MovesTo
<1>6. CASE ApproveSetStatus(p)
  <2> DEFINE r == [req[p] EXCEPT !.pc = "award"]
  <2>1. (Go(p, r) \/ Done(p)) /\ req[p].pc = "publish"
    BY <1>6 DEF ApproveSetStatus, At
  <2>2. <<req[p].pc, r.pc>> \in Flow /\ r.sub = req[p].sub /\ r.version = req[p].version
    BY <2>1 DEF Flow, TypeInv, TypeOK, Request
  <2> QED
    BY <2>1, <2>2, MovesTo, MovesIdle
<1>7. CASE AwardCheck(p)
  <2> DEFINE r == [req[p] EXCEPT !.pc = "credit"]
  <2>1. (Go(p, r) \/ Done(p)) /\ req[p].pc = "award"
    BY <1>7 DEF AwardCheck, At
  <2>2. <<req[p].pc, r.pc>> \in Flow /\ r.sub = req[p].sub /\ r.version = req[p].version
    BY <2>1 DEF Flow, TypeInv, TypeOK, Request
  <2> QED
    BY <2>1, <2>2, MovesTo, MovesIdle
<1>8. CASE AwardXP(p)
  BY <1>8, MovesIdle DEF AwardXP
<1>9. QED
  BY <1>1, <1>2, <1>3, <1>4, <1>5, <1>6, <1>7, <1>8

LEMMA RejectionMoves ==
    ASSUME TypeInv, NEW p \in Procs,
           RejectList(p) \/ PreserveRejectedFile(p) \/ RejectRelabel(p) \/ RejectSetStatus(p)
    PROVE  Others(p) /\ Moves(p)
<1>1. CASE RejectList(p)
  <2> DEFINE fs == {f \in ListFiles(req[p].sub) : isReviewObjectKey(f.key)}
             r == [req[p] EXCEPT !.pc = "preserve", !.todo = fs]
  <2>1. Go(p, r) /\ req[p].pc = "list_reject"
    BY <1>1 DEF RejectList, At
  <2> HIDE DEF fs
  <2>2. <<req[p].pc, r.pc>> \in Flow /\ r.sub = req[p].sub /\ r.version = req[p].version
    BY <2>1 DEF Flow, TypeInv, TypeOK, Request
  <2> QED
    BY <2>1, <2>2, MovesTo
<1>2. CASE PreserveRejectedFile(p)
  <2>1. CASE Done(p)
    BY <2>1, MovesIdle
  <2>2. CASE ~Done(p)
    <3>1. PICK f \in req[p].todo :
             Go(p, [req[p] EXCEPT !.pc = "relabel_rejected", !.file = f, !.todo = @ \ {f}]) /\ req[p].pc = "preserve"
      BY <1>2, <2>2 DEF PreserveRejectedFile, At
    <3> DEFINE r == [req[p] EXCEPT !.pc = "relabel_rejected", !.file = f, !.todo = @ \ {f}]
    <3>2. <<req[p].pc, r.pc>> \in Flow /\ r.sub = req[p].sub /\ r.version = req[p].version
      BY <3>1 DEF Flow, TypeInv, TypeOK, Request
    <3> QED
      BY <3>1, <3>2, MovesTo
  <2>3. QED
    BY <2>1, <2>2
<1>3. CASE RejectRelabel(p)
  <2> DEFINE r == [req[p] EXCEPT !.pc = "preserve", !.file = None]
  <2>1. Go(p, r) /\ req[p].pc = "relabel_rejected"
    BY <1>3 DEF RejectRelabel, At
  <2>2. <<req[p].pc, r.pc>> \in Flow /\ r.sub = req[p].sub /\ r.version = req[p].version
    BY <2>1 DEF Flow, TypeInv, TypeOK, Request
  <2> QED
    BY <2>1, <2>2, MovesTo
<1>4. CASE RejectSetStatus(p)
  BY <1>4, MovesIdle DEF RejectSetStatus
<1>5. QED
  BY <1>1, <1>2, <1>3, <1>4

LEMMA RemovalMoves ==
    ASSUME TypeInv, NEW p \in Procs,
           \/ TrashKeep(p) \/ TrashSweep(p) \/ TrashDropRows(p) \/ TrashSubmission(p)
           \/ DeleteList(p) \/ DeleteObjects(p) \/ DeleteRow(p) \/ Abort(p)
    PROVE  Others(p) /\ Moves(p)
<1>1. CASE TrashKeep(p)
  <2> DEFINE r == [req[p] EXCEPT !.pc = "sweep", !.keep = ListLivePackObjectKeys(req[p].sub)]
  <2>1. Go(p, r) /\ req[p].pc = "keep"
    BY <1>1 DEF TrashKeep, At
  <2>2. <<req[p].pc, r.pc>> \in Flow /\ r.sub = req[p].sub /\ r.version = req[p].version
    BY <2>1 DEF Flow, TypeInv, TypeOK, Request
  <2> QED
    BY <2>1, <2>2, MovesTo
<1>2. CASE TrashSweep(p)
  <2> DEFINE r == [req[p] EXCEPT !.pc = "droprows", !.keep = {}]
  <2>1. Go(p, r) /\ req[p].pc = "sweep"
    BY <1>2 DEF TrashSweep, At
  <2>2. <<req[p].pc, r.pc>> \in Flow /\ r.sub = req[p].sub /\ r.version = req[p].version
    BY <2>1 DEF Flow, TypeInv, TypeOK, Request
  <2> QED
    BY <2>1, <2>2, MovesTo
<1>3. CASE TrashDropRows(p)
  <2> DEFINE r == [req[p] EXCEPT !.pc = "trash_status"]
  <2>1. Go(p, r) /\ req[p].pc = "droprows"
    BY <1>3 DEF TrashDropRows, At
  <2>2. <<req[p].pc, r.pc>> \in Flow /\ r.sub = req[p].sub /\ r.version = req[p].version
    BY <2>1 DEF Flow, TypeInv, TypeOK, Request
  <2> QED
    BY <2>1, <2>2, MovesTo
<1>4. CASE DeleteList(p)
  <2> DEFINE r == [req[p] EXCEPT !.pc = "delete_objects", !.todo = ListFiles(req[p].sub)]
  <2>1. Go(p, r) /\ req[p].pc = "delete_list"
    BY <1>4 DEF DeleteList, At
  <2>2. <<req[p].pc, r.pc>> \in Flow /\ r.sub = req[p].sub /\ r.version = req[p].version
    BY <2>1 DEF Flow, TypeInv, TypeOK, Request
  <2> QED
    BY <2>1, <2>2, MovesTo
<1>5. CASE DeleteObjects(p)
  <2> DEFINE r == [req[p] EXCEPT !.pc = "delete_row", !.todo = {}]
  <2>1. Go(p, r) /\ req[p].pc = "delete_objects"
    BY <1>5 DEF DeleteObjects, At
  <2>2. <<req[p].pc, r.pc>> \in Flow /\ r.sub = req[p].sub /\ r.version = req[p].version
    BY <2>1 DEF Flow, TypeInv, TypeOK, Request
  <2> QED
    BY <2>1, <2>2, MovesTo
<1>6. CASE TrashSubmission(p) \/ DeleteRow(p) \/ Abort(p)
  BY <1>6, MovesIdle DEF TrashSubmission, DeleteRow, Abort
<1>7. QED
  BY <1>1, <1>2, <1>3, <1>4, <1>5, <1>6

LEMMA StepMoves ==
    ASSUME TypeInv, NEW p \in Procs, Step(p) \/ Abort(p)
    PROVE  Others(p) /\ Moves(p)
BY SubmitterMoves, ApprovalMoves, RejectionMoves, RemovalMoves DEF Step

\* Where a request starts.
Started(p) ==
    /\ req[p].pc = "idle"
    /\ req'[p].pc # "insert" => status[req'[p].sub] # "absent"
    /\ LET r == req'[p] IN
       \/ r.pc \in {"presign", "unlink", "register", "keep"}
       \/ r.pc = "insert" /\ CreateSubmission(p, r.sub)
       \/ r.pc = "list_approve" /\ Approve(p, r.sub) /\ r.version > 0
       \/ r.pc = "list_reject" /\ Reject(p, r.sub)
       \/ r.pc = "delete_list" /\ DeleteSubmission(p, r.sub)

\* A request that starts as r.
LEMMA StartsAs ==
    ASSUME TypeInv, NEW p \in Procs, NEW pc, NEW r, Go(p, r), r.pc = pc, Enter(p)
    PROVE  Others(p) /\ req[p].pc = "idle" /\ req'[p] = r /\ req'[p].pc = pc
BY GoOthers DEF Enter

LEMMA StartMoves ==
    ASSUME TypeInv, NEW p \in Procs, Start(p)
    PROVE  Others(p) /\ Started(p)
<1>1. ASSUME NEW a \in Art, GetUploadURL(p, a) PROVE Others(p) /\ Started(p)
  <2> DEFINE r == [Idle EXCEPT !.pc = "presign", !.sub = SubOf[a],
                               !.file = [art |-> a, key |-> reviewObjectKey(a)]]
  <2>1. Go(p, r) /\ Enter(p)
    BY <1>1 DEF GetUploadURL
  <2>2. r.pc = "presign" /\ r.sub = SubOf[a]
    BY DEF Idle
  <2>3. status[SubOf[a]] # "absent"
    BY <1>1 DEF GetUploadURL, UploadURLEditable
  <2> HIDE DEF r
  <2>4. QED
    BY <2>1, <2>2, <2>3, StartsAs DEF Started
<1>2. ASSUME NEW a \in Art, RemoveSubmissionFile(p, a) PROVE Others(p) /\ Started(p)
  <2> DEFINE r == [Idle EXCEPT !.pc = "unlink", !.sub = SubOf[a],
                               !.file = [art |-> a, key |-> rowKey[a]]]
  <2>1. Go(p, r) /\ Enter(p)
    BY <1>2 DEF RemoveSubmissionFile
  <2>2. r.pc = "unlink" /\ r.sub = SubOf[a]
    BY DEF Idle
  <2>3. status[SubOf[a]] # "absent"
    BY <1>2 DEF RemoveSubmissionFile, Editable
  <2> HIDE DEF r
  <2>4. QED
    BY <2>1, <2>2, <2>3, StartsAs DEF Started
<1>3. ASSUME NEW s \in Subs, CreateSubmission(p, s) PROVE Others(p) /\ Started(p)
  <2>1. PICK as \in SUBSET Uploaded(s) :
           Go(p, [Idle EXCEPT !.pc = "insert", !.sub = s, !.todo = Inputs(as)])
    BY <1>3 DEF CreateSubmission
  <2> DEFINE r == [Idle EXCEPT !.pc = "insert", !.sub = s, !.todo = Inputs(as)]
  <2>2. r.pc = "insert" /\ r.sub = s
    BY DEF Idle
  <2>3. Enter(p)
    BY <1>3 DEF CreateSubmission
  <2> HIDE DEF r
  <2>4. Others(p) /\ req[p].pc = "idle" /\ req'[p] = r
    BY <2>1, <2>2, <2>3, StartsAs DEF r
  <2>5. QED
    BY <1>3, <2>2, <2>4 DEF Started
<1>4. ASSUME NEW s \in Subs, AddSubmissionFiles(p, s) PROVE Others(p) /\ Started(p)
  <2>1. PICK as \in (SUBSET Uploaded(s)) \ {{}} :
           Go(p, [Idle EXCEPT !.pc = "register", !.sub = s, !.todo = Inputs(as)])
    BY <1>4 DEF AddSubmissionFiles
  <2> DEFINE r == [Idle EXCEPT !.pc = "register", !.sub = s, !.todo = Inputs(as)]
  <2>2. r.pc = "register" /\ r.sub = s
    BY DEF Idle
  <2>3. Enter(p) /\ status[s] # "absent"
    BY <1>4 DEF AddSubmissionFiles, Editable
  <2> HIDE DEF r
  <2>4. Others(p) /\ req[p].pc = "idle" /\ req'[p] = r
    BY <2>1, <2>2, <2>3, StartsAs DEF r
  <2>5. QED
    BY <2>2, <2>3, <2>4 DEF Started
<1>5. ASSUME NEW s \in Subs, Approve(p, s) PROVE Others(p) /\ Started(p)
  <2> DEFINE n == CountApprovedByPack(s) + 1
             r == [Idle EXCEPT !.pc = "list_approve", !.sub = s, !.version = n]
  <2>1. n > 0
    BY CountType
  <2>2. Go(p, r) /\ Enter(p)
    BY <1>5 DEF Approve
  <2> HIDE DEF n
  <2>3. r.pc = "list_approve" /\ r.sub = s /\ r.version = n
    BY DEF Idle
  <2> HIDE DEF r
  <2>4. Others(p) /\ req[p].pc = "idle" /\ req'[p] = r
    BY <2>2, <2>3, StartsAs
  <2>5. status[s] # "absent"
    BY <1>5 DEF Approve
  <2>6. QED
    BY <1>5, <2>1, <2>3, <2>4, <2>5 DEF Started
<1>6. ASSUME NEW s \in Subs, Reject(p, s) \/ Trash(p, s) \/ DeleteSubmission(p, s)
      PROVE  Others(p) /\ Started(p)
  <2>1. PICK pc \in {"list_reject", "keep", "delete_list"} :
           /\ Begin(p, s, pc)
           /\ pc = "list_reject" => Reject(p, s)
           /\ pc = "delete_list" => DeleteSubmission(p, s)
    BY <1>6 DEF Reject, Trash, DeleteSubmission
  <2> DEFINE r == [Idle EXCEPT !.pc = pc, !.sub = s]
  <2>2. r.pc = pc /\ r.sub = s
    BY DEF Idle
  <2>3. Go(p, r) /\ Enter(p)
    BY <1>6, <2>1 DEF Begin, Reject, Trash, DeleteSubmission
  <2> HIDE DEF r
  <2>4. Others(p) /\ req[p].pc = "idle" /\ req'[p] = r
    BY <2>2, <2>3, StartsAs
  <2>5. status[s] # "absent"
    BY <1>6 DEF Reject, Trash, DeleteSubmission, Exists
  <2>6. QED
    BY <2>1, <2>2, <2>4, <2>5 DEF Started
<1>7. QED
  BY <1>1, <1>2, <1>3, <1>4, <1>5, <1>6 DEF Start

\* Only GetUploadURL leads to the registration of an upload that is not there.
LEMMA OnlyPresigns ==
    ASSUME TypeInv, NEW p \in Procs, Start(p), \A a \in Art : ~GetUploadURL(p, a)
    PROVE  req'[p].pc # "presign"
<1>1. ASSUME NEW a \in Art, RemoveSubmissionFile(p, a) PROVE req'[p].pc # "presign"
  <2> DEFINE r == [Idle EXCEPT !.pc = "unlink", !.sub = SubOf[a],
                               !.file = [art |-> a, key |-> rowKey[a]]]
  <2>1. Go(p, r) /\ r.pc = "unlink"
    BY <1>1 DEF RemoveSubmissionFile, Idle
  <2> HIDE DEF r
  <2>2. QED
    BY <2>1, GoOthers
<1>2. ASSUME NEW s \in Subs, CreateSubmission(p, s) \/ AddSubmissionFiles(p, s)
      PROVE  req'[p].pc # "presign"
  <2>1. PICK pc \in {"insert", "register"}, as \in SUBSET Uploaded(s) :
           Go(p, [Idle EXCEPT !.pc = pc, !.sub = s, !.todo = Inputs(as)])
    BY <1>2 DEF CreateSubmission, AddSubmissionFiles
  <2> DEFINE r == [Idle EXCEPT !.pc = pc, !.sub = s, !.todo = Inputs(as)]
  <2>2. r.pc = pc
    BY DEF Idle
  <2> HIDE DEF r
  <2>3. req'[p] = r
    BY <2>1, GoOthers DEF r
  <2>4. QED
    BY <2>2, <2>3
<1>3. ASSUME NEW s \in Subs, Approve(p, s) PROVE req'[p].pc # "presign"
  <2> DEFINE n == CountApprovedByPack(s) + 1
             r == [Idle EXCEPT !.pc = "list_approve", !.sub = s, !.version = n]
  <2>1. Go(p, r)
    BY <1>3 DEF Approve
  <2> HIDE DEF n
  <2>2. r.pc = "list_approve"
    BY DEF Idle
  <2> HIDE DEF r
  <2>3. QED
    BY <2>1, <2>2, GoOthers
<1>4. ASSUME NEW s \in Subs, Reject(p, s) \/ Trash(p, s) \/ DeleteSubmission(p, s)
      PROVE  req'[p].pc # "presign"
  <2>1. PICK pc \in {"list_reject", "keep", "delete_list"} : Begin(p, s, pc)
    BY <1>4 DEF Reject, Trash, DeleteSubmission
  <2> DEFINE r == [Idle EXCEPT !.pc = pc, !.sub = s]
  <2>2. Go(p, r) /\ r.pc = pc
    BY <2>1 DEF Begin, Idle
  <2> HIDE DEF r
  <2>3. QED
    BY <2>2, GoOthers
<1>5. QED
  BY <1>1, <1>2, <1>3, <1>4 DEF Start

-----------------------------------------------------------------------------
(***************************************************************************)
(* Who is credited.  An approval carries the version it will assign from   *)
(* its first step on, and awards XP only after it assigned it.             *)
(***************************************************************************)
CreditRequest(r) ==
    /\ r.pc \in {"list_approve", "publish", "unstage", "relabel"} => r.version > 0
    /\ r.pc \in {"award", "credit"} => version[r.sub] > 0

CreditInv == CreditedWasApproved /\ \A p \in Procs : CreditRequest(req[p])

LEMMA CreditSetStatus ==
    ASSUME TypeInv, CreditInv, NEW p \in Procs, ApproveSetStatus(p)
    PROVE  CreditInv'
<1> DEFINE s == req[p].sub
<1>1. s \in Subs /\ req[p].version > 0 /\ req[p].version \in Nat
  BY DEF ApproveSetStatus, At, TypeInv, TypeOK, Request, RequestFine, CreditInv, CreditRequest
<1>2. /\ version' \in [Subs -> Nat]
      /\ \A t \in Subs : version[t] > 0 => version'[t] > 0
      /\ Exists(s) => version'[s] > 0
  BY <1>1 DEF ApproveSetStatus, TypeInv, TypeOK
<1>3. ASSUME NEW q \in Procs PROVE CreditRequest(req[q])'
  <2>1. CASE q # p
    <3>1. req'[q] = req[q]
      BY <2>1, StepMoves DEF Step, Others
    <3>2. req[q].pc # "idle" => req[q].sub \in Subs
      BY DEF TypeInv, RequestFine
    <3>3. QED
      BY <1>2, <3>1, <3>2 DEF CreditInv, CreditRequest
  <2>2. CASE q = p /\ ~Exists(s)
    BY <2>2 DEF ApproveSetStatus, Done, TypeInv, TypeOK, CreditRequest, Idle
  <2>3. CASE q = p /\ Exists(s)
    <3>1. Go(p, [req[p] EXCEPT !.pc = "award"])
      BY <2>3 DEF ApproveSetStatus
    <3>2. req'[q].pc = "award" /\ req'[q].sub = s
      BY <2>3, <3>1, GoOthers DEF TypeInv, TypeOK, Request
    <3>3. QED
      BY <1>2, <2>3, <3>2 DEF CreditRequest
  <2>4. QED
    BY <2>1, <2>2, <2>3
<1>4. CreditedWasApproved'
  BY <1>2 DEF ApproveSetStatus, CreditInv, CreditedWasApproved
<1>5. QED
  BY <1>3, <1>4 DEF CreditInv

\* Every other step keeps the versions and credits at most its submission.
LEMMA CreditKeeps ==
    ASSUME NEW p \in Procs, Step(p) \/ Abort(p), ~ApproveSetStatus(p)
    PROVE  /\ UNCHANGED version
           /\ \/ UNCHANGED ledger
              \/ req[p].pc = "credit" /\ ledger' = [ledger EXCEPT ![req[p].sub] = @ + 1]
BY DEF Step, Abort, UploadURLRegister, InsertSubmission, RegisterFile, RegisterDone,
       RemoveObject, RemoveRow, ApproveList, PublishNothing, PublishMissing, PublishFile,
       PublishUnstage, PublishRelabel, AwardCheck, AwardXP, RejectList,
       PreserveRejectedFile, RejectRelabel, RejectSetStatus, TrashKeep, TrashSweep,
       TrashDropRows, TrashSubmission, DeleteList, DeleteObjects, DeleteRow, At, db

\* Only ApproveSetStatus brings a request to the award.
LEMMA NoOtherAward ==
    ASSUME TypeInv, NEW p \in Procs, Step(p) \/ Abort(p), req'[p].pc = "award"
    PROVE  ApproveSetStatus(p)
<1>1. req[p].pc = "publish" /\ req[p].sub \in Subs
  <2>1. Moves(p)
    BY StepMoves
  <2>2. QED
    BY <2>1 DEF Moves, Flow, Idle, TypeInv, RequestFine
<1>2. req'[p] # Idle
  BY DEF Idle
<1>3. PublishNothing(p) \/ PublishMissing(p) \/ PublishFile(p) \/ ApproveSetStatus(p)
  BY <1>1, <1>2, GoOthers, IdleType
     DEF Step, Abort, Done, Go, UploadURLRegister, InsertSubmission, RegisterFile,
         RegisterDone, RemoveObject, RemoveRow, ApproveList, PublishUnstage,
         PublishRelabel, AwardCheck, AwardXP, RejectList, PreserveRejectedFile,
         RejectRelabel, RejectSetStatus, TrashKeep, TrashSweep, TrashDropRows,
         TrashSubmission, DeleteList, DeleteObjects, DeleteRow, At, TypeInv, TypeOK
<1>4. ~(PublishNothing(p) \/ PublishMissing(p))
  <2> SUFFICES ASSUME PublishNothing(p) \/ PublishMissing(p) PROVE FALSE
    OBVIOUS
  <2>1. PICK f \in req[p].todo : Go(p, [req[p] EXCEPT !.todo = @ \ {f}])
    BY DEF PublishNothing, PublishMissing
  <2>2. req'[p].pc = req[p].pc
    BY <2>1, GoOthers DEF TypeInv, TypeOK, Request
  <2>3. QED
    BY <1>1, <2>2
<1>5. ~PublishFile(p)
  <2> SUFFICES ASSUME PublishFile(p) PROVE FALSE
    OBVIOUS
  <2>1. PICK f \in req[p].todo :
           Go(p, [req[p] EXCEPT !.pc = "unstage", !.file = f, !.todo = @ \ {f}])
    BY DEF PublishFile
  <2> DEFINE r == [req[p] EXCEPT !.pc = "unstage", !.file = f, !.todo = @ \ {f}]
  <2>2. r.pc = "unstage"
    BY DEF TypeInv, TypeOK, Request
  <2> HIDE DEF r
  <2>3. req'[p] = r
    BY <2>1, GoOthers DEF r
  <2>4. QED
    BY <2>2, <2>3
<1>6. QED
  BY <1>3, <1>4, <1>5

LEMMA CreditStep == TypeInv /\ CreditInv /\ [Next]_vars => CreditInv'
<1> SUFFICES ASSUME TypeInv, CreditInv, [Next]_vars PROVE CreditInv'
  OBVIOUS
<1>1. CASE Browser \/ (\E s \in Subs : SubmitForReview(s)) \/ UNCHANGED vars
  <2>1. UNCHANGED <<version, ledger, req>>
    BY <1>1 DEF Browser, PresignedUpload, BrowserUpload, SubmitForReview, vars, db
  <2>2. QED
    BY <2>1 DEF CreditInv, CreditRequest, CreditedWasApproved
<1>2. ASSUME NEW p \in Procs, Start(p) PROVE CreditInv'
  <2>1. UNCHANGED <<version, ledger>>
    BY <1>2 DEF Start, GetUploadURL, RemoveSubmissionFile, CreateSubmission,
                AddSubmissionFiles, Approve, Reject, Trash, DeleteSubmission, db
  <2>2. Others(p) /\ Started(p)
    BY <1>2, StartMoves
  <2>3. CreditRequest(req[p])'
    BY <2>2 DEF Started, CreditRequest
  <2>4. QED
    BY <2>1, <2>2, <2>3 DEF Others, CreditInv, CreditRequest, CreditedWasApproved
<1>3. ASSUME NEW p \in Procs, Step(p) \/ Abort(p), ~ApproveSetStatus(p) PROVE CreditInv'
  <2>1. Others(p) /\ Moves(p) /\ req'[p].pc # "award"
    BY <1>3, StepMoves, NoOtherAward
  <2>2. /\ UNCHANGED version
        /\ \/ UNCHANGED ledger
           \/ req[p].pc = "credit" /\ ledger' = [ledger EXCEPT ![req[p].sub] = @ + 1]
    BY <1>3, CreditKeeps
  <2>3. CreditRequest(req[p])'
    BY <2>1, <2>2 DEF Moves, Flow, Idle, CreditInv, CreditRequest
  <2>4. CreditedWasApproved'
    <3>1. SUFFICES ASSUME NEW s \in Subs, ledger'[s] > 0 PROVE version[s] > 0
      BY <2>2 DEF CreditedWasApproved
    <3>2. CASE ledger[s] > 0
      BY <3>2 DEF CreditInv, CreditedWasApproved
    <3>3. CASE req[p].pc = "credit" /\ req[p].sub = s
      BY <3>3 DEF CreditInv, CreditRequest
    <3>4. QED
      BY <2>2, <3>1, <3>2, <3>3 DEF TypeInv, TypeOK
  <2>5. QED
    BY <2>1, <2>2, <2>3, <2>4 DEF Others, CreditInv, CreditRequest
<1>4. ASSUME NEW p \in Procs, ApproveSetStatus(p) PROVE CreditInv'
  BY <1>4, CreditSetStatus
<1>5. QED
  BY <1>1, <1>2, <1>3, <1>4 DEF Next

\* XP is only ever credited for a submission some approval gave a version, even
\* when approvals overlap rejections and deletions or are cut short.
THEOREM CreditNeedsApproval == Spec => []CreditedWasApproved
<1>1. Init => CreditInv
  BY DEF Init, Idle, CreditInv, CreditRequest, CreditedWasApproved
<1>2. CreditInv => CreditedWasApproved
  BY DEF CreditInv
<1>3. QED
  BY <1>1, <1>2, CreditStep, TypeInvHolds, PTL DEF Spec

-----------------------------------------------------------------------------
(***************************************************************************)
(* Who changes a status.  Only the last step of a decision, of a trash and *)
(* of a deletion does, and the insertion of a submission whose id is new.  *)
(***************************************************************************)
Publishing == {"list_approve", "publish", "unstage", "relabel",
               "list_reject", "preserve", "relabel_rejected"}

Deleting == {"delete_list", "delete_objects", "delete_row"}

Sets(p, st) == status' = [status EXCEPT ![req[p].sub] = st]

StatusChange(p) ==
    LET s == req[p].sub IN
    \/ UNCHANGED status
    \/ /\ s \in Subs
       /\ req'[p].pc \in {"idle", "register", "award"}
       /\ \/ req[p].pc = "insert" /\ Sets(p, "pending")
          \/ req[p].pc = "publish" /\ Exists(s) /\ Sets(p, "approved")
          \/ req[p].pc = "preserve" /\ Exists(s) /\ Sets(p, "rejected")
          \/ req[p].pc = "trash_status" /\ status[s] \in Editable /\ Sets(p, "trashed")
          \/ req[p].pc = "delete_row" /\ Sets(p, "deleted")

LEMMA SetStatusChange ==
    ASSUME TypeInv, NEW s \in Subs, NEW st, SetSubmissionStatus(s, st)
    PROVE  UNCHANGED status \/ (Exists(s) /\ status' = [status EXCEPT ![s] = st])
BY DEF SetSubmissionStatus, TypeInv, TypeOK

LEMMA StepStatus ==
    ASSUME TypeInv, NEW p \in Procs, Step(p) \/ Abort(p)
    PROVE  StatusChange(p)
<1> DEFINE s == req[p].sub
<1>1. CASE InsertSubmission(p)
  <2>1. req[p].pc = "insert" /\ s \in Subs /\ Sets(p, "pending")
    BY <1>1 DEF InsertSubmission, At, TypeInv, RequestFine, Sets
  <2> DEFINE r == [req[p] EXCEPT !.pc = "register"]
  <2>2. r.pc = "register"
    BY DEF TypeInv, TypeOK, Request
  <2> HIDE DEF r
  <2>3. req'[p] = r
    BY <1>1, GoOthers DEF InsertSubmission, r
  <2>4. QED
    BY <2>1, <2>2, <2>3 DEF StatusChange
<1>2. CASE ApproveSetStatus(p)
  <2>1. req[p].pc = "publish" /\ s \in Subs
    BY <1>2 DEF ApproveSetStatus, At, TypeInv, RequestFine
  <2>2. UNCHANGED status \/ (Exists(s) /\ Sets(p, "approved"))
    BY <1>2, <2>1, SetStatusChange DEF ApproveSetStatus, Sets
  <2> DEFINE r == [req[p] EXCEPT !.pc = "award"]
  <2>3. r.pc = "award"
    BY DEF TypeInv, TypeOK, Request
  <2> HIDE DEF r
  <2>4. req'[p] = r \/ req'[p] = Idle
    BY <1>2, GoOthers DEF ApproveSetStatus, Done, Go, r
  <2>5. req'[p].pc \in {"award", "idle"}
    BY <2>3, <2>4 DEF Idle
  <2>6. QED
    BY <2>1, <2>2, <2>5 DEF StatusChange
<1>3. CASE RejectSetStatus(p)
  <2>1. req[p].pc = "preserve" /\ s \in Subs
    BY <1>3 DEF RejectSetStatus, At, TypeInv, RequestFine
  <2>2. UNCHANGED status \/ (Exists(s) /\ Sets(p, "rejected"))
    BY <1>3, <2>1, SetStatusChange DEF RejectSetStatus, Sets
  <2>3. req'[p].pc = "idle"
    BY <1>3 DEF RejectSetStatus, Done, TypeInv, TypeOK, Idle
  <2>4. QED
    BY <2>1, <2>2, <2>3 DEF StatusChange
<1>4. CASE TrashSubmission(p)
  <2>1. req[p].pc = "trash_status" /\ s \in Subs
    BY <1>4 DEF TrashSubmission, At, TypeInv, RequestFine
  <2>2. UNCHANGED status \/ (status[s] \in Editable /\ Sets(p, "trashed"))
    BY <1>4, <2>1 DEF TrashSubmission, Sets, TypeInv, TypeOK
  <2>3. req'[p].pc = "idle"
    BY <1>4 DEF TrashSubmission, Done, TypeInv, TypeOK, Idle
  <2>4. QED
    BY <2>1, <2>2, <2>3 DEF StatusChange
<1>5. CASE DeleteRow(p)
  <2>1. req[p].pc = "delete_row" /\ s \in Subs /\ Sets(p, "deleted")
    BY <1>5 DEF DeleteRow, At, TypeInv, RequestFine, Sets
  <2>2. req'[p].pc = "idle"
    BY <1>5 DEF DeleteRow, Done, TypeInv, TypeOK, Idle
  <2>3. QED
    BY <2>1, <2>2 DEF StatusChange
<1>6. CASE ~(\/ InsertSubmission(p) \/ ApproveSetStatus(p) \/ RejectSetStatus(p)
             \/ TrashSubmission(p) \/ DeleteRow(p))
  BY <1>6
     DEF StatusChange, Step, Abort, UploadURLRegister, RegisterFile, RegisterDone,
         RemoveObject, RemoveRow, ApproveList, PublishNothing, PublishMissing, PublishFile,
         PublishUnstage, PublishRelabel, AwardCheck, AwardXP, RejectList,
         PreserveRejectedFile, RejectRelabel, TrashKeep, TrashSweep, TrashDropRows,
         DeleteList, DeleteObjects, db
<1>7. QED
  BY <1>1, <1>2, <1>3, <1>4, <1>5, <1>6

LEMMA StartStatus ==
    ASSUME NEW p \in Procs, Start(p)
    PROVE  UNCHANGED status
BY DEF Start, GetUploadURL, RemoveSubmissionFile, CreateSubmission, AddSubmissionFiles,
       Approve, Reject, Trash, DeleteSubmission, db

LEMMA BrowserStatus ==
    ASSUME Browser
    PROVE  UNCHANGED <<status, req>>
BY DEF Browser, PresignedUpload, BrowserUpload, db

\* The submission a request is about to insert is nobody else's.
Inserting(p) ==
    req[p].pc = "insert" =>
       /\ status[req[p].sub] = "absent"
       /\ \A q \in Procs \ {p} : req[q].sub # req[p].sub

InsertInv == \A p \in Procs : Inserting(p)

LEMMA InsertStart ==
    ASSUME TypeInv, InsertInv, NEW p \in Procs, Start(p)
    PROVE  InsertInv'
<1>1. Others(p) /\ Started(p) /\ UNCHANGED status
  BY StartMoves, StartStatus
<1>2. Inserting(p)'
  <2>1. SUFFICES ASSUME req'[p].pc = "insert"
                 PROVE  /\ status[req'[p].sub] = "absent"
                        /\ \A q \in Procs \ {p} : req'[q].sub # req'[p].sub
    BY <1>1 DEF Inserting
  <2>2. CreateSubmission(p, req'[p].sub)
    BY <1>1, <2>1 DEF Started
  <2>3. QED
    BY <1>1, <2>2 DEF CreateSubmission, Others
<1>3. ASSUME NEW q \in Procs \ {p} PROVE Inserting(q)'
  <2>1. SUFFICES ASSUME req[q].pc = "insert"
                 PROVE  /\ status[req[q].sub] = "absent"
                        /\ \A t \in Procs \ {q} : req'[t].sub # req[q].sub
    BY <1>1 DEF Inserting, Others
  <2>2. status[req[q].sub] = "absent" /\ \A t \in Procs \ {q} : req[t].sub # req[q].sub
    BY <2>1 DEF InsertInv, Inserting
  <2>3. req'[p].sub # req[q].sub
    <3>1. CASE req'[p].pc = "insert"
      <4>1. CreateSubmission(p, req'[p].sub)
        BY <1>1, <3>1 DEF Started
      <4>2. QED
        BY <4>1 DEF CreateSubmission
    <3>2. CASE req'[p].pc # "insert"
      BY <1>1, <2>2, <3>2 DEF Started
    <3>3. QED
      BY <3>1, <3>2
  <2>4. QED
    BY <1>1, <2>2, <2>3 DEF Others
<1>4. QED
  BY <1>2, <1>3 DEF InsertInv

LEMMA InsertStep ==
    ASSUME TypeInv, InsertInv, NEW p \in Procs, Step(p) \/ Abort(p)
    PROVE  InsertInv'
<1>1. Others(p) /\ Moves(p) /\ StatusChange(p)
  BY StepMoves, StepStatus
<1>2. req'[p].pc # "insert"
  BY <1>1 DEF Moves, Flow, Idle
<1>3. req'[p].sub \in {req[p].sub, None}
  BY <1>1 DEF Moves, Idle
<1>4. ASSUME NEW q \in Procs \ {p} PROVE Inserting(q)'
  <2>1. SUFFICES ASSUME req[q].pc = "insert"
                 PROVE  /\ status'[req[q].sub] = "absent"
                        /\ \A t \in Procs \ {q} : req'[t].sub # req[q].sub
    BY <1>1 DEF Inserting, Others
  <2>2. /\ status[req[q].sub] = "absent"
        /\ \A t \in Procs \ {q} : req[t].sub # req[q].sub
        /\ req[q].sub \in Subs
    BY <2>1 DEF InsertInv, Inserting, TypeInv, RequestFine
  <2>3. status'[req[q].sub] = "absent"
    BY <1>1, <2>2 DEF StatusChange, Sets, TypeInv, TypeOK
  <2>4. None \notin Subs
    BY PackReviewAssumption
  <2>5. QED
    BY <1>1, <1>3, <2>2, <2>3, <2>4 DEF Others
<1>5. QED
  BY <1>2, <1>4 DEF InsertInv, Inserting

LEMMA InsertInvStep == TypeInv /\ InsertInv /\ [Next]_vars => InsertInv'
<1> SUFFICES ASSUME TypeInv, InsertInv, [Next]_vars PROVE InsertInv'
  OBVIOUS
<1>1. CASE Browser \/ UNCHANGED vars
  BY <1>1, BrowserStatus DEF vars, InsertInv, Inserting
<1>2. ASSUME NEW s \in Subs, SubmitForReview(s) PROVE InsertInv'
  <2>1. UNCHANGED req /\ status[s] # "absent" /\ status' = [status EXCEPT ![s] = "pending"]
    BY <1>2 DEF SubmitForReview, Editable
  <2>2. \A p \in Procs : req[p].pc = "insert" => req[p].sub \in Subs
    BY DEF TypeInv, RequestFine
  <2>3. QED
    BY <2>1, <2>2 DEF InsertInv, Inserting, TypeInv, TypeOK
<1>3. ASSUME NEW p \in Procs, Start(p) \/ Step(p) \/ Abort(p) PROVE InsertInv'
  BY <1>3, InsertStart, InsertStep
<1>4. QED
  BY <1>1, <1>2, <1>3 DEF Next

\* The action ApprovedNeverRequeued allows at a submission.
NotRequeued(s) == status[s] = "approved" => status'[s] \in {"approved", "rejected", "deleted"}

LEMMA RequeueStep ==
    ASSUME TypeInv, InsertInv, [Next]_vars, NEW s \in Subs
    PROVE  NotRequeued(s)
<1>1. CASE Browser \/ UNCHANGED vars
  BY <1>1, BrowserStatus DEF vars, NotRequeued
<1>2. ASSUME NEW t \in Subs, SubmitForReview(t) PROVE NotRequeued(s)
  BY <1>2 DEF SubmitForReview, Editable, NotRequeued, TypeInv, TypeOK
<1>3. ASSUME NEW p \in Procs, Start(p) PROVE NotRequeued(s)
  BY <1>3, StartStatus DEF NotRequeued
<1>4. ASSUME NEW p \in Procs, Step(p) \/ Abort(p) PROVE NotRequeued(s)
  <2>1. StatusChange(p) /\ Inserting(p)
    BY <1>4, StepStatus DEF InsertInv
  <2>2. QED
    BY <2>1 DEF StatusChange, Sets, Inserting, Editable, NotRequeued, TypeInv, TypeOK
<1>5. QED
  BY <1>1, <1>2, <1>3, <1>4 DEF Next

LEMMA InsertInvHolds == Spec => []InsertInv
<1>1. Init => InsertInv
  BY DEF Init, Idle, InsertInv, Inserting
<1>2. QED
  BY <1>1, InsertInvStep, TypeInvHolds, PTL DEF Spec

\* A published submission is never put back in the queue or trashed by a
\* request that overlaps its approval: only another decision or a deletion,
\* whose writes have no condition on the status, changes it.
THEOREM NeverRequeued == Spec => ApprovedNeverRequeued
<1>1. TypeInv /\ InsertInv /\ [Next]_vars =>
         [\A s \in Subs : status[s] = "approved" =>
             status'[s] \in {"approved", "rejected", "deleted"}]_status
  BY RequeueStep DEF NotRequeued
<1>2. QED
  BY <1>1, InsertInvHolds, TypeInvHolds, PTL DEF Spec, ApprovedNeverRequeued
-----------------------------------------------------------------------------
(***************************************************************************)
(* The handlers run one after the other (Serial), any of them possibly cut *)
(* short, for every number of submissions, packs and uploads: they         *)
(* implement the lifecycle, approved submissions are read-only and list    *)
(* canonical keys, a sweep spares what others refer to, rejected art       *)
(* leaves staging, and, when nothing is cut short, only an admin's         *)
(* deletion empties a published slot.                                      *)
(***************************************************************************)

(***************************************************************************)
(* What a request checked when it started still holds when it acts, because *)
(* no other request runs: it is the only one (Alone), and the status it    *)
(* read is the status the submission has (Fresh).                          *)
(***************************************************************************)
Alone == \A p, q \in Procs : p = q \/ req[p].pc = "idle" \/ req[q].pc = "idle"

Fresh(p) ==
    LET s == req[p].sub IN
    /\ req[p].pc \in Publishing => status[s] = "pending"
    /\ req[p].pc \in Deleting => Exists(s)
    /\ req[p].pc = "insert" => IF s \in Contribution THEN ApprovedPack(PackOf[s])
                                                     ELSE ~PackIDInUse(PackOf[s])

SerialInv == Alone /\ \A p \in Procs : Fresh(p)

\* An idle request is fresh, whatever the statuses.
LEMMA IdleFresh ==
    ASSUME NEW p \in Procs, req[p].pc = "idle"
    PROVE  Fresh(p)
BY DEF Fresh, Publishing, Deleting

LEMMA SerialStart ==
    ASSUME Serial, TypeInv, SerialInv, NEW p \in Procs, Start(p)
    PROVE  SerialInv'
<1>1. Others(p) /\ Started(p) /\ UNCHANGED status
  BY StartMoves, StartStatus
<1>2. Quiet
  BY DEF Start, GetUploadURL, RemoveSubmissionFile, CreateSubmission, AddSubmissionFiles,
         Approve, Reject, Trash, DeleteSubmission, Enter
<1>3. \A q \in Procs \ {p} : req'[q].pc = "idle"
  BY <1>1, <1>2 DEF Others, Quiet
<1>4. Alone'
  BY <1>3 DEF Alone
<1>5. Fresh(p)'
  BY <1>1 DEF Started, Fresh, Publishing, Deleting, CreateSubmission, Approve, Reject,
              DeleteSubmission, Exists, ApprovedPack, PackIDInUse
<1>6. \A q \in Procs \ {p} : Fresh(q)'
  BY <1>3 DEF Fresh, Publishing, Deleting
<1>7. QED
  BY <1>4, <1>5, <1>6 DEF SerialInv

LEMMA SerialStep ==
    ASSUME Serial, TypeInv, SerialInv, NEW p \in Procs, Step(p) \/ Abort(p)
    PROVE  SerialInv'
<1>1. Others(p) /\ Moves(p) /\ StatusChange(p)
  BY StepMoves, StepStatus
<1>2. CASE req[p].pc = "idle"
  <2>1. req'[p].pc = "idle"
    BY <1>1, <1>2 DEF Moves, Flow, Idle
  <2>2. UNCHANGED status
    BY <1>1, <1>2 DEF StatusChange
  <2>3. \A q \in Procs : req'[q].pc = req[q].pc /\ (q = p \/ req'[q] = req[q])
    BY <1>1, <1>2, <2>1 DEF Others
  <2>4. Alone'
    BY <2>3 DEF SerialInv, Alone
  <2>5. ASSUME NEW q \in Procs PROVE Fresh(q)'
    BY <1>2, <2>1, <2>2, <2>3
       DEF SerialInv, Fresh, Publishing, Deleting, Exists, ApprovedPack, PackIDInUse
  <2>6. QED
    BY <2>4, <2>5 DEF SerialInv
<1>3. CASE req[p].pc # "idle"
  <2>1. \A q \in Procs \ {p} : req'[q].pc = "idle"
    BY <1>1, <1>3 DEF SerialInv, Alone, Others
  <2>2. Alone'
    BY <2>1 DEF Alone
  <2>3. \A q \in Procs \ {p} : Fresh(q)'
    BY <2>1 DEF Fresh, Publishing, Deleting
  <2>4. Fresh(p)'
    <3>1. CASE UNCHANGED status
      BY <1>1, <3>1 DEF SerialInv, Moves, Flow, Idle, Fresh, Publishing, Deleting, Exists
    <3>2. CASE ~UNCHANGED status
      BY <1>1, <3>2 DEF StatusChange, Fresh, Publishing, Deleting
    <3>3. QED
      BY <3>1, <3>2
  <2>5. QED
    BY <2>2, <2>3, <2>4 DEF SerialInv
<1>4. QED
  BY <1>2, <1>3

LEMMA SerialInvStep ==
    ASSUME Serial, TypeInv, SerialInv, [Next]_vars
    PROVE  SerialInv'
<1>1. CASE Browser \/ UNCHANGED vars
  BY <1>1, BrowserStatus
     DEF vars, db, SerialInv, Alone, Fresh, Exists, ApprovedPack, PackIDInUse
<1>2. ASSUME NEW s \in Subs, SubmitForReview(s) PROVE SerialInv'
  BY <1>2 DEF SubmitForReview, Quiet, SerialInv, Alone, Fresh, Publishing, Deleting
<1>3. ASSUME NEW p \in Procs, Start(p) \/ Step(p) \/ Abort(p) PROVE SerialInv'
  BY <1>3, SerialStart, SerialStep
<1>4. QED
  BY <1>1, <1>2, <1>3 DEF Next

LEMMA SerialInvHolds ==
    ASSUME Serial
    PROVE  Spec => []SerialInv
<1>1. Init => SerialInv
  BY DEF Init, Idle, SerialInv, Alone, Fresh, Publishing, Deleting
<1>2. TypeInv /\ SerialInv /\ [Next]_vars => SerialInv'
  BY SerialInvStep
<1>3. QED
  BY <1>1, <1>2, TypeInvHolds, PTL DEF Spec

-----------------------------------------------------------------------------
(***************************************************************************)
(* Every step changes at most one status, as the lifecycle allows.         *)
(***************************************************************************)

LEMMA LifecycleStep ==
    ASSUME Serial, TypeInv, InsertInv, SerialInv, [Next]_vars
    PROVE  [Lifecycle!Next]_status
<1>1. CASE Browser \/ UNCHANGED vars
  BY <1>1, BrowserStatus DEF vars, db
<1>2. ASSUME NEW s \in Subs, SubmitForReview(s) PROVE Lifecycle!Next
  <2>1. Lifecycle!Submit(s)
    BY <1>2 DEF SubmitForReview, Editable, Lifecycle!Submit, Lifecycle!Move
  <2>2. QED
    BY <2>1 DEF Lifecycle!Next
<1>3. ASSUME NEW p \in Procs, Start(p) PROVE UNCHANGED status
  BY <1>3, StartStatus
<1>4. ASSUME NEW p \in Procs, Step(p) \/ Abort(p), ~UNCHANGED status
      PROVE  Lifecycle!Next
  <2> DEFINE s == req[p].sub
  <2>1. StatusChange(p) /\ Fresh(p) /\ Inserting(p) /\ s \in Subs
    BY <1>4, StepStatus DEF SerialInv, InsertInv, StatusChange
  <2>2. CASE req[p].pc = "insert" /\ Sets(p, "pending")
    <3>1. IF s \in Contribution THEN Lifecycle!Published(PackOf[s])
                                ELSE Lifecycle!Free(PackOf[s])
      BY <2>1, <2>2 DEF Fresh, ApprovedPack, PackIDInUse, Exists,
                        Lifecycle!Published, Lifecycle!Free
    <3>2. Lifecycle!Move(s, {"absent"}, "pending")
      BY <2>1, <2>2 DEF Inserting, Sets, Lifecycle!Move
    <3>3. Lifecycle!Create(s)
      BY <3>1, <3>2 DEF Lifecycle!Create
    <3>4. QED
      BY <2>1, <3>3 DEF Lifecycle!Next
  <2>3. CASE req[p].pc = "publish" /\ Sets(p, "approved")
    <3>1. Lifecycle!Approve(s)
      BY <2>1, <2>3 DEF Fresh, Publishing, Sets, Lifecycle!Approve, Lifecycle!Move
    <3>2. QED
      BY <2>1, <3>1 DEF Lifecycle!Next
  <2>4. CASE req[p].pc = "preserve" /\ Sets(p, "rejected")
    <3>1. Lifecycle!Reject(s)
      BY <2>1, <2>4 DEF Fresh, Publishing, Sets, Lifecycle!Reject, Lifecycle!Move
    <3>2. QED
      BY <2>1, <3>1 DEF Lifecycle!Next
  <2>5. CASE status[s] \in Editable /\ Sets(p, "trashed")
    <3>1. Lifecycle!Trash(s)
      BY <2>1, <2>5 DEF Editable, Sets, Lifecycle!Trash, Lifecycle!Move
    <3>2. QED
      BY <2>1, <3>1 DEF Lifecycle!Next
  <2>6. CASE req[p].pc = "delete_row" /\ Sets(p, "deleted")
    <3>1. Lifecycle!Delete(s)
      BY <2>1, <2>6 DEF Fresh, Deleting, Exists, Sets, TypeInv, TypeOK, Statuses,
                        Lifecycle!Delete, Lifecycle!Move
    <3>2. QED
      BY <2>1, <3>1 DEF Lifecycle!Next
  <2>7. QED
    BY <1>4, <2>1, <2>2, <2>3, <2>4, <2>5, <2>6 DEF StatusChange
<1>5. QED
  BY <1>1, <1>2, <1>3, <1>4 DEF Next

\* One request at a time, each of them possibly cut short after any step, the
\* handlers implement the lifecycle of a submission.
THEOREM SerialImplementsLifecycle == Serial => (Spec => ImplementsLifecycle)
<1> SUFFICES ASSUME Serial PROVE Spec => ImplementsLifecycle
  OBVIOUS
<1>1. Init => Lifecycle!Init
  BY DEF Init, Lifecycle!Init
<1>2. TypeInv /\ InsertInv /\ SerialInv /\ [Next]_vars => [Lifecycle!Next]_status
  BY LifecycleStep
<1>3. QED
  BY <1>1, <1>2, TypeInvHolds, InsertInvHolds, SerialInvHolds, PTL
     DEF Spec, ImplementsLifecycle, Lifecycle!Spec

-----------------------------------------------------------------------------
\* The lifecycle alone keeps a pack id with one brand-new submission.
LEMMA LifecycleOwnedOnce ==
    ASSUME TypeOK, PackOwnedOnce, [Lifecycle!Next]_status
    PROVE  PackOwnedOnce'
<1> DEFINE Gone == {"absent", "trashed", "deleted"}
<1>1. CASE UNCHANGED status
  BY <1>1 DEF PackOwnedOnce, SamePack
<1>2. ASSUME NEW s \in Subs, Lifecycle!Create(s) PROVE PackOwnedOnce'
  <2>1. PICK st \in {"created", "pending"} : status' = [status EXCEPT ![s] = st]
    BY <1>2 DEF Lifecycle!Create, Lifecycle!Move
  <2>2. s \notin Contribution => \A t \in Subs : SamePack(s, t) => status[t] \in Gone
    BY <1>2 DEF Lifecycle!Create, Lifecycle!Free, SamePack
  <2>3. QED
    BY <2>1, <2>2 DEF PackOwnedOnce, SamePack, TypeOK
<1>3. ASSUME NEW s \in Subs,
             \/ Lifecycle!Submit(s) \/ Lifecycle!Approve(s) \/ Lifecycle!Reject(s)
             \/ Lifecycle!Trash(s) \/ Lifecycle!Delete(s)
      PROVE  PackOwnedOnce'
  <2>1. \A t \in Subs : status[t] \in Gone => status'[t] \in Gone
    BY <1>3 DEF Lifecycle!Submit, Lifecycle!Approve, Lifecycle!Reject, Lifecycle!Trash,
                Lifecycle!Delete, Lifecycle!Move, TypeOK
  <2>2. QED
    BY <2>1 DEF PackOwnedOnce, SamePack
<1>4. QED
  BY <1>1, <1>2, <1>3 DEF Lifecycle!Next

\* One request at a time, no two brand-new submissions hold one pack id; the
\* check and the insertion are two statements, and only Serial keeps them
\* together.
THEOREM SerialOwnsPackOnce == Serial => (Spec => []PackOwnedOnce)
<1> SUFFICES ASSUME Serial PROVE Spec => []PackOwnedOnce
  OBVIOUS
<1>1. Init => PackOwnedOnce
  BY DEF Init, PackOwnedOnce
<1>2. TypeInv /\ PackOwnedOnce /\ [Lifecycle!Next]_status => PackOwnedOnce'
  BY LifecycleOwnedOnce DEF TypeInv
<1>3. Spec => ImplementsLifecycle
  BY SerialImplementsLifecycle
<1>4. QED
  BY <1>1, <1>2, <1>3, TypeInvHolds, PTL DEF ImplementsLifecycle, Lifecycle!Spec, Spec

-----------------------------------------------------------------------------
(***************************************************************************)
(* The files of a request: each of them is a file of its submission.       *)
(***************************************************************************)
OwnFiles(r) ==
    /\ \A f \in r.todo : SubOf[f.art] = r.sub
    /\ r.pc \in FilePCs => SubOf[r.file.art] = r.sub

\* A request that goes on with files it had or lists now.
LEMMA FilesKept ==
    ASSUME TypeInv, NEW p \in Procs, OwnFiles(req[p]), NEW r,
           r.sub = req[p].sub,
           r.todo \subseteq req[p].todo \cup ListFiles(req[p].sub),
           r.pc \in FilePCs => r.file \in req[p].todo \/ (req[p].pc \in FilePCs /\ r.file = req[p].file)
    PROVE  OwnFiles(r)
BY DEF OwnFiles, ListFiles, Rows

LEMMA FilesIdle == OwnFiles(Idle)
BY DEF OwnFiles, Idle, FilePCs

LEMMA FilesListed ==
    ASSUME TypeInv, NEW p \in Procs, OwnFiles(req[p]), NEW pc, pc \notin FilePCs,
           NEW todo, todo \subseteq ListFiles(req[p].sub)
    PROVE  OwnFiles([req[p] EXCEPT !.pc = pc, !.todo = todo])
<1> DEFINE r == [req[p] EXCEPT !.pc = pc, !.todo = todo]
<1>1. r.sub = req[p].sub /\ r.todo = todo /\ r.pc = pc
  BY DEF TypeInv, TypeOK, Request
<1> HIDE DEF r
<1>2. OwnFiles(r)
  BY <1>1, FilesKept
<1> QED
  BY <1>2 DEF r

LEMMA FilesStep ==
    ASSUME TypeInv, NEW p \in Procs, OwnFiles(req[p]), Step(p) \/ Abort(p)
    PROVE  OwnFiles(req'[p])
<1> DEFINE old == req[p]
<1>1. CASE Done(p)
  <2>1. Go(p, Idle)
    BY <1>1 DEF Done, Go
  <2>2. QED
    BY <2>1, GoOthers, FilesIdle
<1>2. CASE /\ ~Done(p)
           /\ \/ InsertSubmission(p) \/ ApproveSetStatus(p) \/ AwardCheck(p)
              \/ TrashDropRows(p) \/ PublishRelabel(p) \/ RejectRelabel(p)
  <2>1. PICK pc \in {"register", "award", "credit", "trash_status", "publish", "preserve"} :
           Go(p, [old EXCEPT !.pc = pc]) \/ Go(p, [old EXCEPT !.pc = pc, !.file = None])
    BY <1>2 DEF InsertSubmission, ApproveSetStatus, AwardCheck, TrashDropRows, PublishRelabel,
                RejectRelabel
  <2>2. PICK r : r \in {[old EXCEPT !.pc = pc], [old EXCEPT !.pc = pc, !.file = None]} /\ Go(p, r)
    BY <2>1
  <2>3. r.sub = old.sub /\ r.todo = old.todo /\ r.pc \notin FilePCs
    BY <2>2 DEF TypeInv, TypeOK, Request, FilePCs
  <2>4. OwnFiles(r)
    BY <2>3, FilesKept
  <2>5. QED
    BY <2>2, <2>4, GoOthers
<1>3. CASE TrashKeep(p) \/ TrashSweep(p)
  <2>1. PICK pc \in {"sweep", "droprows"} :
           \E keep : Go(p, [old EXCEPT !.pc = pc, !.keep = keep])
    BY <1>3 DEF TrashKeep, TrashSweep
  <2> PICK keep : Go(p, [old EXCEPT !.pc = pc, !.keep = keep])
    BY <2>1
  <2> DEFINE r == [old EXCEPT !.pc = pc, !.keep = keep]
  <2>2. r.sub = old.sub /\ r.todo = old.todo /\ r.pc \notin FilePCs
    BY DEF TypeInv, TypeOK, Request, FilePCs
  <2> HIDE DEF r
  <2>3. OwnFiles(r)
    BY <2>2, FilesKept
  <2>4. req'[p] = r
    BY <2>1, GoOthers DEF r
  <2> QED
    BY <2>3, <2>4
<1>4. CASE \/ ApproveList(p) \/ RejectList(p) \/ DeleteList(p) \/ DeleteObjects(p)
  <2>1. PICK pc \in {"publish", "preserve", "delete_objects", "delete_row"},
             todo \in SUBSET (ListFiles(old.sub)) :
           Go(p, [old EXCEPT !.pc = pc, !.todo = todo])
    BY <1>4 DEF ApproveList, RejectList, DeleteList, DeleteObjects
  <2>2. req'[p] = [old EXCEPT !.pc = pc, !.todo = todo]
    BY <2>1, GoOthers
  <2>3. pc \notin FilePCs
    BY DEF FilePCs
  <2>4. OwnFiles([old EXCEPT !.pc = pc, !.todo = todo])
    BY <2>3, FilesListed
  <2>5. QED
    BY <2>2, <2>4
<1>5. CASE ~Done(p) /\ (RegisterFile(p) \/ PublishNothing(p) \/ PublishMissing(p))
  <2>1. PICK f \in old.todo :
           Go(p, [old EXCEPT !.todo = @ \ {f}]) /\ old.pc \in {"register", "publish"}
    BY <1>5 DEF RegisterFile, PublishNothing, PublishMissing, At
  <2> DEFINE r == [old EXCEPT !.todo = @ \ {f}]
  <2>2. r.sub = old.sub /\ r.todo \subseteq old.todo /\ r.pc \notin FilePCs
    BY <2>1 DEF TypeInv, TypeOK, Request, FilePCs
  <2> HIDE DEF r
  <2>3. OwnFiles(r)
    BY <2>2, FilesKept
  <2>4. req'[p] = r
    BY <2>1, GoOthers DEF r
  <2> QED
    BY <2>3, <2>4
<1>6. CASE ~Done(p) /\ (PublishFile(p) \/ PreserveRejectedFile(p))
  <2>1. PICK f \in old.todo, pc \in {"unstage", "relabel_rejected"} :
           Go(p, [old EXCEPT !.pc = pc, !.file = f, !.todo = @ \ {f}])
    BY <1>6 DEF PublishFile, PreserveRejectedFile
  <2> DEFINE r == [old EXCEPT !.pc = pc, !.file = f, !.todo = @ \ {f}]
  <2>2. r.sub = old.sub /\ r.todo \subseteq old.todo /\ r.file \in old.todo
    BY <2>1 DEF TypeInv, TypeOK, Request
  <2> HIDE DEF r
  <2>3. OwnFiles(r)
    BY <2>2, FilesKept
  <2>4. req'[p] = r
    BY <2>1, GoOthers DEF r
  <2> QED
    BY <2>3, <2>4
<1>7. CASE RemoveObject(p) \/ PublishUnstage(p)
  <2>1. PICK pc \in {"droprow", "relabel"} :
           Go(p, [old EXCEPT !.pc = pc]) /\ old.pc \in {"unlink", "unstage"}
    BY <1>7 DEF RemoveObject, PublishUnstage, At
  <2> DEFINE r == [old EXCEPT !.pc = pc]
  <2>2. r.sub = old.sub /\ r.todo = old.todo /\ r.file = old.file /\ old.pc \in FilePCs
    BY <2>1 DEF TypeInv, TypeOK, Request, FilePCs
  <2> HIDE DEF r
  <2>3. OwnFiles(r)
    BY <2>2, FilesKept
  <2>4. req'[p] = r
    BY <2>1, GoOthers DEF r
  <2> QED
    BY <2>3, <2>4
<1>8. CASE \/ UploadURLRegister(p) \/ RegisterDone(p) \/ RemoveRow(p) \/ AwardXP(p)
           \/ RejectSetStatus(p) \/ TrashSubmission(p) \/ DeleteRow(p) \/ Abort(p)
  BY <1>1, <1>8 DEF UploadURLRegister, RegisterDone, RemoveRow, AwardXP, RejectSetStatus,
                    TrashSubmission, DeleteRow, Abort
<1>9. QED
  BY <1>1, <1>2, <1>3, <1>4, <1>5, <1>6, <1>7, <1>8 DEF Step

LEMMA FilesStart ==
    ASSUME TypeInv, NEW p \in Procs, Start(p)
    PROVE  OwnFiles(req'[p])
<1>1. ASSUME NEW a \in Art, GetUploadURL(p, a) \/ RemoveSubmissionFile(p, a)
      PROVE  OwnFiles(req'[p])
  <2>1. PICK pc, key :
           Go(p, [Idle EXCEPT !.pc = pc, !.sub = SubOf[a], !.file = [art |-> a, key |-> key]])
    BY <1>1 DEF GetUploadURL, RemoveSubmissionFile
  <2> DEFINE r == [Idle EXCEPT !.pc = pc, !.sub = SubOf[a], !.file = [art |-> a, key |-> key]]
  <2>2. OwnFiles(r)
    BY DEF OwnFiles, Idle
  <2> HIDE DEF r
  <2>3. req'[p] = r
    BY <2>1, GoOthers DEF r
  <2> QED
    BY <2>2, <2>3
<1>2. ASSUME NEW s \in Subs, CreateSubmission(p, s) \/ AddSubmissionFiles(p, s)
      PROVE  OwnFiles(req'[p])
  <2>1. PICK pc \in {"insert", "register"}, as \in SUBSET Uploaded(s) :
           Go(p, [Idle EXCEPT !.pc = pc, !.sub = s, !.todo = Inputs(as)])
    BY <1>2 DEF CreateSubmission, AddSubmissionFiles
  <2> DEFINE r == [Idle EXCEPT !.pc = pc, !.sub = s, !.todo = Inputs(as)]
  <2>2. ASSUME NEW f \in Inputs(as) PROVE SubOf[f.art] = s
    <3>1. PICK a \in as : f = [art |-> a, key |-> reviewObjectKey(a)]
      BY DEF Inputs
    <3>2. QED
      BY <3>1 DEF Uploaded
  <2>3. OwnFiles(r)
    BY <2>2 DEF OwnFiles, Idle, FilePCs
  <2> HIDE DEF r
  <2>4. req'[p] = r
    BY <2>1, GoOthers DEF r
  <2> QED
    BY <2>3, <2>4
<1>3. ASSUME NEW s \in Subs,
             Approve(p, s) \/ Reject(p, s) \/ Trash(p, s) \/ DeleteSubmission(p, s)
      PROVE  OwnFiles(req'[p])
  <2>1. PICK pc \in {"list_approve", "list_reject", "keep", "delete_list"} :
           \/ Go(p, [Idle EXCEPT !.pc = pc, !.sub = s])
           \/ \E v : Go(p, [Idle EXCEPT !.pc = pc, !.sub = s, !.version = v])
    BY <1>3 DEF Approve, Reject, Trash, DeleteSubmission, Begin
  <2>2. \/ req'[p] = [Idle EXCEPT !.pc = pc, !.sub = s]
        \/ \E v : req'[p] = [Idle EXCEPT !.pc = pc, !.sub = s, !.version = v]
    BY <2>1, GoOthers
  <2>3. QED
    BY <2>2 DEF OwnFiles, Idle, FilePCs
<1>4. QED
  BY <1>1, <1>2, <1>3 DEF Start

-----------------------------------------------------------------------------
(***************************************************************************)
(* Which rows a step writes: rows of the request's submission, at program  *)
(* points where that submission is not approved, or while it is deleted.   *)
(***************************************************************************)
Editing == {"presign", "register", "unlink", "droprow", "keep", "sweep", "droprows"}

NotApproved(p) == req[p].pc \in Editing => status[req[p].sub] # "approved"

RowKept(a) == row'[a] = row[a] /\ rowKey'[a] = rowKey[a]

Writes(p) ==
    \/ UNCHANGED <<row, rowKey>>
    \/ /\ req[p].pc \in Editing \cup Publishing \/ Sets(p, "deleted")
       /\ \A a \in Art : SubOf[a] = req[p].sub \/ RowKept(a)

LEMMA AddFileWrites ==
    ASSUME TypeInv, NEW f \in File, AddFileReason(f), NEW a \in Art, SubOf[a] # SubOf[f.art]
    PROVE  RowKept(a)
<1>1. f.art \in Art /\ a # f.art
  BY DEF File
<1>2. a \notin Rows(SubOf[f.art])
  BY DEF Rows
<1>3. QED
  BY <1>1, <1>2 DEF AddFileReason, RowKept, TypeInv, TypeOK

LEMMA StepWrites ==
    ASSUME TypeInv, NEW p \in Procs, OwnFiles(req[p]), Step(p) \/ Abort(p)
    PROVE  Writes(p)
<1> DEFINE s == req[p].sub
<1>1. CASE UploadURLRegister(p) /\ Exists(s)
  <2>1. /\ AddFileReason(req[p].file)
        /\ req[p].pc = "presign"
    BY <1>1 DEF UploadURLRegister, At
  <2>2. req[p].file \in File /\ SubOf[req[p].file.art] = s
    BY <2>1 DEF TypeInv, RequestFine, OwnFiles, FilePCs
  <2>3. QED
    BY <2>1, <2>2, AddFileWrites DEF Writes, Editing
<1>2. CASE RegisterFile(p) /\ ~UNCHANGED <<row, rowKey>>
  <2>1. PICK f \in req[p].todo : AddFileReason(f) /\ req[p].pc = "register"
    BY <1>2 DEF RegisterFile, At
  <2>2. f \in File /\ SubOf[f.art] = s
    BY DEF TypeInv, TypeOK, Request, OwnFiles
  <2>3. QED
    BY <2>1, <2>2, AddFileWrites DEF Writes, Editing
<1>3. CASE RemoveRow(p)
  <2>1. req[p].pc = "droprow" /\ SubOf[req[p].file.art] = s
    BY <1>3 DEF RemoveRow, At, OwnFiles, FilePCs
  <2>2. QED
    BY <1>3, <2>1 DEF RemoveRow, Writes, RowKept, Editing, TypeInv, TypeOK
<1>4. CASE PublishMissing(p)
  <2>1. PICK f \in req[p].todo :
           /\ row' = [row EXCEPT ![f.art] = "dropped"]
           /\ UNCHANGED rowKey
           /\ req[p].pc = "publish"
    BY <1>4 DEF PublishMissing, At
  <2>2. SubOf[f.art] = s
    BY DEF OwnFiles
  <2>3. QED
    BY <2>1, <2>2 DEF Writes, RowKept, Publishing, TypeInv, TypeOK
<1>5. CASE PublishRelabel(p)
  <2>1. req[p].pc = "relabel" /\ SubOf[req[p].file.art] = s
    BY <1>5 DEF PublishRelabel, At, OwnFiles, FilePCs
  <2>2. ASSUME NEW a \in Art, SubOf[a] # s PROVE RowKept(a)
    <3>1. a # req[p].file.art /\ a \notin Rows(SubOf[req[p].file.art])
      BY <2>1, <2>2 DEF Rows
    <3>2. QED
      BY <1>5, <3>1 DEF PublishRelabel, RowKept, TypeInv, TypeOK
  <2>3. QED
    BY <2>1, <2>2 DEF Writes, Publishing
<1>6. CASE RejectRelabel(p)
  <2>1. req[p].pc = "relabel_rejected" /\ SubOf[req[p].file.art] = s
    BY <1>6 DEF RejectRelabel, At, OwnFiles, FilePCs
  <2>2. ASSUME NEW a \in Art, SubOf[a] # s PROVE RowKept(a)
    BY <1>6, <2>1, <2>2 DEF RejectRelabel, RowKept, TypeInv, TypeOK
  <2>3. QED
    BY <2>1, <2>2 DEF Writes, Publishing
<1>7. CASE TrashDropRows(p)
  <2>1. ASSUME NEW a \in Art, SubOf[a] # s PROVE RowKept(a)
    BY <1>7, <2>1 DEF TrashDropRows, Rows, RowKept
  <2>2. req[p].pc = "droprows"
    BY <1>7 DEF TrashDropRows, At
  <2>3. QED
    BY <2>1, <2>2 DEF Writes, Editing
<1>8. CASE DeleteRow(p)
  <2>1. ASSUME NEW a \in Art, SubOf[a] # s PROVE RowKept(a)
    BY <1>8, <2>1 DEF DeleteRow, Rows, RowKept
  <2>2. Sets(p, "deleted")
    BY <1>8 DEF DeleteRow, Sets
  <2>3. QED
    BY <2>1, <2>2 DEF Writes
<1>9. CASE ~(\/ UploadURLRegister(p) /\ Exists(s)
             \/ RegisterFile(p) /\ ~UNCHANGED <<row, rowKey>>
             \/ RemoveRow(p) \/ PublishMissing(p) \/ PublishRelabel(p) \/ RejectRelabel(p)
             \/ TrashDropRows(p) \/ DeleteRow(p))
  BY <1>9
     DEF Writes, Step, Abort, UploadURLRegister, InsertSubmission, RegisterDone, RemoveObject,
         ApproveList, PublishNothing, PublishFile, PublishUnstage, ApproveSetStatus,
         AwardCheck, AwardXP, RejectList, PreserveRejectedFile, RejectSetStatus, TrashKeep,
         TrashSweep, TrashSubmission, DeleteList, DeleteObjects, db
<1>10. QED
  BY <1>1, <1>2, <1>3, <1>4, <1>5, <1>6, <1>7, <1>8, <1>9

LEMMA NotApprovedStart ==
    ASSUME TypeInv, NEW p \in Procs, Start(p)
    PROVE  NotApproved(p)'
<1>1. UNCHANGED status
  BY StartStatus
<1>2. ASSUME NEW a \in Art, GetUploadURL(p, a) \/ RemoveSubmissionFile(p, a)
      PROVE  status[req'[p].sub] # "approved"
  <2>1. status[SubOf[a]] # "approved"
    BY <1>2 DEF GetUploadURL, RemoveSubmissionFile, UploadURLEditable, Editable
  <2>2. PICK pc, key :
           Go(p, [Idle EXCEPT !.pc = pc, !.sub = SubOf[a], !.file = [art |-> a, key |-> key]])
    BY <1>2 DEF GetUploadURL, RemoveSubmissionFile
  <2>3. req'[p] = [Idle EXCEPT !.pc = pc, !.sub = SubOf[a], !.file = [art |-> a, key |-> key]]
    BY <2>2, GoOthers
  <2>4. req'[p].sub = SubOf[a]
    BY <2>3 DEF Idle
  <2>5. QED
    BY <2>1, <2>4
<1>3. ASSUME NEW s \in Subs, AddSubmissionFiles(p, s) \/ Trash(p, s)
      PROVE  status[req'[p].sub] # "approved"
  <2>1. /\ status[s] # "approved"
        /\ req'[p].sub = s
    BY <1>3 DEF AddSubmissionFiles, Trash, Begin, Editable, Go, Idle, TypeInv, TypeOK
  <2>2. QED
    BY <2>1
<1>4. ASSUME NEW s \in Subs,
             \/ CreateSubmission(p, s) \/ Approve(p, s) \/ Reject(p, s) \/ DeleteSubmission(p, s)
      PROVE  req'[p].pc \notin Editing
  BY <1>4 DEF CreateSubmission, Approve, Reject, DeleteSubmission, Begin, Go, Idle, Editing,
              TypeInv, TypeOK
<1>5. QED
  BY <1>1, <1>2, <1>3, <1>4 DEF Start, NotApproved

-----------------------------------------------------------------------------
(***************************************************************************)
(* The files an approval has not looked at yet are on its list: every live *)
(* row of the submission is canonical, or still to do, or at hand.         *)
(***************************************************************************)
Covered(a, r) ==
    \/ rowKey[a] = ObjectKey(a)
    \/ [art |-> a, key |-> rowKey[a]] \in r.todo
    \/ r.pc # "publish" /\ r.file.art = a

Approving == {"publish", "unstage", "relabel"}

Listing(p) ==
    req[p].pc \in Approving =>
       \A a \in Art : row[a] = "live" /\ SubOf[a] = req[p].sub => Covered(a, req[p])

ListingInv == \A p \in Procs : OwnFiles(req[p]) /\ NotApproved(p) /\ Listing(p)

LEMMA ListingTo ==
    ASSUME TypeInv, NEW p \in Procs, NEW r, Go(p, r), r.sub = req[p].sub,
           ASSUME NEW a \in Art, row'[a] = "live", SubOf[a] = req[p].sub
           PROVE  \/ rowKey'[a] = ObjectKey(a)
                  \/ [art |-> a, key |-> rowKey'[a]] \in r.todo
                  \/ r.pc # "publish" /\ r.file.art = a
    PROVE  Listing(p)'
<1>1. req'[p] = r
  BY GoOthers
<1>2. QED
  BY <1>1 DEF Listing, Covered

LEMMA ListingStep ==
    ASSUME TypeInv, NEW p \in Procs, Listing(p), Step(p) \/ Abort(p)
    PROVE  Listing(p)'
<1> DEFINE old == req[p]
<1>1. CASE ApproveList(p)
  <2> DEFINE r == [old EXCEPT !.pc = "publish", !.todo = ListFiles(old.sub)]
  <2>1. r.sub = old.sub /\ r.todo = ListFiles(old.sub)
    BY DEF TypeInv, TypeOK, Request
  <2>2. Go(p, r) /\ UNCHANGED <<row, rowKey>>
    BY <1>1 DEF ApproveList, db
  <2>3. ASSUME NEW a \in Art, row'[a] = "live", SubOf[a] = old.sub
        PROVE  [art |-> a, key |-> rowKey'[a]] \in ListFiles(old.sub)
    BY <2>2, <2>3 DEF ListFiles, Rows
  <2> HIDE DEF r
  <2> QED
    BY <2>1, <2>2, <2>3, ListingTo
<1>2. CASE PublishNothing(p) \/ PublishMissing(p)
  <2>1. PICK f \in old.todo :
           /\ old.pc = "publish"
           /\ Go(p, [old EXCEPT !.todo = @ \ {f}])
           /\ UNCHANGED rowKey
           /\ \/ f.key = ObjectKey(f.art) /\ UNCHANGED row
              \/ row' = [row EXCEPT ![f.art] = "dropped"]
    BY <1>2 DEF PublishNothing, PublishMissing, At, db
  <2> DEFINE r == [old EXCEPT !.todo = @ \ {f}]
  <2>2. r.sub = old.sub /\ r.todo = old.todo \ {f}
    BY DEF TypeInv, TypeOK, Request
  <2>3. Go(p, r)
    BY <2>1
  <2>4. ASSUME NEW a \in Art, row'[a] = "live", SubOf[a] = old.sub
        PROVE  rowKey'[a] = ObjectKey(a) \/ [art |-> a, key |-> rowKey'[a]] \in old.todo \ {f}
    <3>1. row[a] = "live" /\ (row' = [row EXCEPT ![f.art] = "dropped"] => a # f.art)
      BY <2>1, <2>4 DEF TypeInv, TypeOK
    <3>2. rowKey[a] = ObjectKey(a) \/ [art |-> a, key |-> rowKey[a]] \in old.todo
      BY <2>1, <2>4, <3>1 DEF Listing, Covered, Approving
    <3>3. QED
      BY <2>1, <3>1, <3>2
  <2> HIDE DEF r
  <2> QED
    BY <2>2, <2>3, <2>4, ListingTo
<1>3. CASE PublishFile(p)
  <2>1. PICK f \in old.todo :
           /\ old.pc = "publish"
           /\ Go(p, [old EXCEPT !.pc = "unstage", !.file = f, !.todo = @ \ {f}])
           /\ UNCHANGED <<row, rowKey>>
    BY <1>3 DEF PublishFile, At, db
  <2> DEFINE r == [old EXCEPT !.pc = "unstage", !.file = f, !.todo = @ \ {f}]
  <2>2. r.sub = old.sub /\ r.todo = old.todo \ {f} /\ r.pc = "unstage" /\ r.file = f
    BY DEF TypeInv, TypeOK, Request
  <2>3. Go(p, r)
    BY <2>1
  <2>4. ASSUME NEW a \in Art, row'[a] = "live", SubOf[a] = old.sub
        PROVE  \/ rowKey'[a] = ObjectKey(a)
               \/ [art |-> a, key |-> rowKey'[a]] \in old.todo \ {f}
               \/ f.art = a
    BY <2>1, <2>4 DEF Listing, Covered, Approving
  <2> HIDE DEF r
  <2> QED
    BY <2>2, <2>3, <2>4, ListingTo
<1>4. CASE PublishUnstage(p)
  <2> DEFINE r == [old EXCEPT !.pc = "relabel"]
  <2>1. r.sub = old.sub /\ r.todo = old.todo /\ r.pc = "relabel" /\ r.file = old.file
    BY DEF TypeInv, TypeOK, Request
  <2>2. Go(p, r) /\ UNCHANGED <<row, rowKey>> /\ old.pc = "unstage"
    BY <1>4 DEF PublishUnstage, At, db
  <2>3. ASSUME NEW a \in Art, row'[a] = "live", SubOf[a] = old.sub
        PROVE  \/ rowKey'[a] = ObjectKey(a)
               \/ [art |-> a, key |-> rowKey'[a]] \in old.todo
               \/ old.file.art = a
    BY <2>2, <2>3 DEF Listing, Covered, Approving
  <2> HIDE DEF r
  <2> QED
    BY <2>1, <2>2, <2>3, ListingTo
<1>5. CASE PublishRelabel(p)
  <2> DEFINE r == [old EXCEPT !.pc = "publish", !.file = None]
  <2>1. r.sub = old.sub /\ r.todo = old.todo
    BY DEF TypeInv, TypeOK, Request
  <2>2. Go(p, r) /\ old.pc = "relabel" /\ old.file \in File
    BY <1>5 DEF PublishRelabel, At, TypeInv, RequestFine, FilePCs
  <2>3. ASSUME NEW a \in Art, row'[a] = "live", SubOf[a] = old.sub
        PROVE  \/ rowKey'[a] = ObjectKey(a)
               \/ [art |-> a, key |-> rowKey'[a]] \in old.todo
    <3>1. row[a] = "live"
      BY <1>5, <2>3 DEF PublishRelabel
    <3>2. CASE a = old.file.art
      BY <1>5, <3>1, <3>2 DEF PublishRelabel, TypeInv, TypeOK
    <3>3. CASE a # old.file.art
      <4>1. rowKey'[a] = rowKey[a]
        BY <1>5, <3>3 DEF PublishRelabel, TypeInv, TypeOK
      <4>2. QED
        BY <2>2, <2>3, <3>1, <3>3, <4>1 DEF Listing, Covered, Approving
    <3>4. QED
      BY <3>2, <3>3
  <2> HIDE DEF r
  <2> QED
    BY <2>1, <2>2, <2>3, ListingTo
<1>6. CASE ~(\/ ApproveList(p) \/ PublishNothing(p) \/ PublishMissing(p) \/ PublishFile(p)
             \/ PublishUnstage(p) \/ PublishRelabel(p))
  <2>1. Moves(p)
    BY StepMoves
  <2>2. ASSUME req[p].pc \in Approving \cup {"list_approve"}
        PROVE  req'[p].pc \notin Approving
    <3>1. ApproveSetStatus(p) \/ Abort(p)
      BY <1>6, <2>2
         DEF Approving, Step, At, UploadURLRegister, InsertSubmission, RegisterFile,
             RegisterDone, RemoveObject, RemoveRow, AwardCheck, AwardXP, RejectList,
             PreserveRejectedFile, RejectRelabel, RejectSetStatus, TrashKeep, TrashSweep,
             TrashDropRows, TrashSubmission, DeleteList, DeleteObjects, DeleteRow
    <3>2. req'[p] \in {Idle, [old EXCEPT !.pc = "award"]}
      BY <3>1, GoOthers DEF ApproveSetStatus, Abort, Done, Go
    <3>3. QED
      BY <3>2 DEF Idle, Approving, TypeInv, TypeOK, Request
  <2>3. req'[p].pc \notin Approving
    BY <2>1, <2>2 DEF Moves, Flow, Idle, Approving
  <2>4. QED
    BY <2>3 DEF Listing
<1>7. QED
  BY <1>1, <1>2, <1>3, <1>4, <1>5, <1>6

\* Only a running request takes a step.
LEMMA StepBusy ==
    ASSUME NEW p \in Procs, Step(p) \/ Abort(p)
    PROVE  req[p].pc # "idle"
BY DEF Step, Abort, At, UploadURLRegister, InsertSubmission, RegisterFile, RegisterDone,
       RemoveObject, RemoveRow, ApproveList, PublishNothing, PublishMissing, PublishFile,
       PublishUnstage, PublishRelabel, ApproveSetStatus, AwardCheck, AwardXP, RejectList,
       PreserveRejectedFile, RejectRelabel, RejectSetStatus, TrashKeep, TrashSweep,
       TrashDropRows, TrashSubmission, DeleteList, DeleteObjects, DeleteRow

LEMMA ListingInvStart ==
    ASSUME Serial, TypeInv, ListingInv, NEW p \in Procs, Start(p)
    PROVE  ListingInv'
<1>1. Others(p) /\ Started(p) /\ OwnFiles(req'[p]) /\ NotApproved(p)'
  BY StartMoves, FilesStart, NotApprovedStart
<1>2. Listing(p)'
  BY <1>1 DEF Started, Listing, Approving
<1>3. UNCHANGED <<status, row, rowKey>>
  BY DEF Start, GetUploadURL, RemoveSubmissionFile, CreateSubmission, AddSubmissionFiles,
         Approve, Reject, Trash, DeleteSubmission, db
<1>4. ASSUME NEW q \in Procs \ {p}
      PROVE  OwnFiles(req'[q]) /\ NotApproved(q)' /\ Listing(q)'
  BY <1>1, <1>3 DEF Others, ListingInv, NotApproved, Listing, Covered
<1>5. QED
  BY <1>1, <1>2, <1>4 DEF ListingInv, OwnFiles

LEMMA ListingInvStep ==
    ASSUME Serial, TypeInv, InsertInv, SerialInv, ListingInv, NEW p \in Procs,
           Step(p) \/ Abort(p)
    PROVE  ListingInv'
<1>1. /\ Others(p) /\ Moves(p) /\ StatusChange(p) /\ Inserting(p)
      /\ OwnFiles(req'[p]) /\ Listing(p)'
  BY StepMoves, StepStatus, FilesStep, ListingStep DEF InsertInv, ListingInv
<1>2. NotApproved(p)'
  <2>1. SUFFICES ASSUME req'[p].pc \in Editing PROVE status'[req'[p].sub] # "approved"
    BY DEF NotApproved
  <2>2. /\ req'[p].sub = req[p].sub
        /\ req[p].pc \in {"insert", "register", "unlink", "keep", "sweep"}
    BY <1>1, <2>1 DEF Moves, Flow, Idle, Editing
  <2>3. status[req[p].sub] # "approved" /\ req[p].sub \in Subs
    BY <1>1, <2>2 DEF Inserting, ListingInv, NotApproved, Editing, TypeInv, RequestFine
  <2>4. QED
    BY <1>1, <2>2, <2>3 DEF StatusChange, Sets, TypeInv, TypeOK
<1>3. req[p].pc # "idle"
  BY StepBusy
<1>4. ASSUME NEW q \in Procs \ {p}
      PROVE  OwnFiles(req'[q]) /\ NotApproved(q)' /\ Listing(q)'
  <2>1. req'[q] = req[q] /\ req'[q].pc = "idle" /\ OwnFiles(req[q])
    BY <1>1, <1>3 DEF Others, SerialInv, Alone, ListingInv
  <2>2. QED
    BY <2>1 DEF NotApproved, Listing, Editing, Approving
<1>5. QED
  BY <1>1, <1>2, <1>4 DEF ListingInv, OwnFiles

LEMMA ListingInvNext ==
    ASSUME Serial, TypeInv, InsertInv, SerialInv, ListingInv, [Next]_vars
    PROVE  ListingInv'
<1>1. CASE Browser \/ UNCHANGED vars
  <2>1. UNCHANGED <<status, row, rowKey, req>>
    BY <1>1 DEF Browser, PresignedUpload, BrowserUpload, vars, db
  <2>2. QED
    BY <2>1 DEF ListingInv, OwnFiles, NotApproved, Listing, Covered
<1>2. ASSUME NEW s \in Subs, SubmitForReview(s) PROVE ListingInv'
  <2>1. UNCHANGED <<row, rowKey, req>> /\ \A p \in Procs : req[p].pc = "idle"
    BY <1>2 DEF SubmitForReview, Quiet
  <2>2. QED
    BY <2>1 DEF ListingInv, OwnFiles, NotApproved, Listing, Editing, Approving
<1>3. ASSUME NEW p \in Procs, Start(p) \/ Step(p) \/ Abort(p) PROVE ListingInv'
  BY <1>3, ListingInvStart, ListingInvStep
<1>4. QED
  BY <1>1, <1>2, <1>3 DEF Next

LEMMA ListingInvHolds ==
    ASSUME Serial
    PROVE  Spec => []ListingInv
<1>1. Init => ListingInv
  BY FilesIdle DEF Init, Idle, ListingInv, NotApproved, Listing, Editing, Approving
<1>2. TypeInv /\ InsertInv /\ SerialInv /\ ListingInv /\ [Next]_vars => ListingInv'
  BY ListingInvNext
<1>3. QED
  BY <1>1, <1>2, TypeInvHolds, InsertInvHolds, SerialInvHolds, PTL DEF Spec

-----------------------------------------------------------------------------
(***************************************************************************)
(* What an approved submission lists.                                      *)
(***************************************************************************)

\* A file of a submission that is approved before and after a step is kept.
LEMMA ReadOnlyStep ==
    ASSUME TypeInv, SerialInv, ListingInv, [Next]_vars,
           NEW a \in Art, status[SubOf[a]] = "approved", status'[SubOf[a]] = "approved"
    PROVE  RowKept(a)
<1>1. CASE Browser \/ UNCHANGED vars
  BY <1>1 DEF Browser, PresignedUpload, BrowserUpload, vars, db, RowKept
<1>2. ASSUME NEW s \in Subs, SubmitForReview(s) PROVE RowKept(a)
  BY <1>2 DEF SubmitForReview, RowKept
<1>3. ASSUME NEW p \in Procs, Start(p) PROVE RowKept(a)
  BY <1>3 DEF Start, GetUploadURL, RemoveSubmissionFile, CreateSubmission, AddSubmissionFiles,
              Approve, Reject, Trash, DeleteSubmission, db, RowKept
<1>4. ASSUME NEW p \in Procs, Step(p) \/ Abort(p) PROVE RowKept(a)
  <2>1. Writes(p) /\ NotApproved(p) /\ Fresh(p)
    BY <1>4, StepWrites DEF SerialInv, ListingInv
  <2>2. SubOf[a] \in Subs
    BY PackReviewAssumption
  <2>3. CASE SubOf[a] = req[p].sub
    <3>1. req[p].pc \notin Editing \cup Publishing
      BY <2>1, <2>3 DEF NotApproved, Fresh
    <3>2. ~Sets(p, "deleted")
      BY <2>2, <2>3 DEF Sets, TypeInv, TypeOK
    <3>3. QED
      BY <2>1, <3>1, <3>2 DEF Writes, RowKept
  <2>4. CASE SubOf[a] # req[p].sub
    BY <2>1, <2>4 DEF Writes, RowKept
  <2>5. QED
    BY <2>3, <2>4
<1>5. QED
  BY <1>1, <1>2, <1>3, <1>4 DEF Next

\* One request at a time, each of them possibly cut short, nobody adds, drops
\* or moves a file of a submission that stays approved: the handlers check the
\* status first, and nothing else runs before they write.
THEOREM SerialApprovedReadOnly == Serial => (Spec => ApprovedReadOnly)
<1> SUFFICES ASSUME Serial PROVE Spec => ApprovedReadOnly
  OBVIOUS
<1>1. TypeInv /\ SerialInv /\ ListingInv /\ [Next]_vars =>
         [\A a \in Art : status[SubOf[a]] = "approved" /\ status'[SubOf[a]] = "approved" =>
             row'[a] = row[a] /\ rowKey'[a] = rowKey[a]]_vars
  BY ReadOnlyStep DEF RowKept
<1>2. QED
  BY <1>1, TypeInvHolds, SerialInvHolds, ListingInvHolds, PTL DEF Spec, ApprovedReadOnly

\* A submission becomes approved when nothing is left to publish.
LEMMA ApprovalListsPublicKeys ==
    ASSUME TypeInv, InsertInv, ListingInv, [Next]_vars,
           NEW a \in Art, status[SubOf[a]] # "approved", status'[SubOf[a]] = "approved"
    PROVE  row'[a] = "live" => rowKey'[a] = ObjectKey(a)
<1> DEFINE s == SubOf[a]
<1>1. s \in Subs
  BY PackReviewAssumption
<1>2. PICK p \in Procs : Step(p) \/ Abort(p)
  <2>1. ~(Browser \/ UNCHANGED vars)
    BY BrowserStatus DEF vars, db
  <2>2. \A t \in Subs : ~SubmitForReview(t)
    BY <1>1 DEF SubmitForReview, TypeInv, TypeOK
  <2>3. \A p \in Procs : ~Start(p)
    BY StartStatus
  <2>4. QED
    BY <2>1, <2>2, <2>3 DEF Next
<1>3. req[p].pc = "publish" /\ s = req[p].sub /\ Sets(p, "approved")
  BY <1>1, <1>2, StepStatus DEF StatusChange, Sets, TypeInv, TypeOK
<1>4. ApproveSetStatus(p)
  <2>1. UNCHANGED status \/ ApproveSetStatus(p)
    BY <1>2, <1>3
       DEF Step, Abort, At, UploadURLRegister, InsertSubmission, RegisterFile, RegisterDone,
           RemoveObject, RemoveRow, ApproveList, PublishNothing, PublishMissing, PublishFile,
           PublishUnstage, PublishRelabel, AwardCheck, AwardXP, RejectList,
           PreserveRejectedFile, RejectRelabel, RejectSetStatus, TrashKeep, TrashSweep,
           TrashDropRows, TrashSubmission, DeleteList, DeleteObjects, DeleteRow, db
  <2>2. QED
    BY <2>1
<1>5. row[a] = "live" => rowKey[a] = ObjectKey(a)
  BY <1>3, <1>4 DEF ApproveSetStatus, ListingInv, Listing, Covered, Approving
<1>6. QED
  BY <1>4, <1>5 DEF ApproveSetStatus

\* One request at a time, each of them possibly cut short, every file an
\* approved submission lists has its canonical key: an approval that fails
\* half way leaves the submission pending, and a later one finds the rest.
THEOREM SerialListsPublicKeys == Serial => (Spec => []ApprovedListsPublicKeys)
<1> SUFFICES ASSUME Serial PROVE Spec => []ApprovedListsPublicKeys
  OBVIOUS
<1>1. Init => ApprovedListsPublicKeys
  BY DEF Init, ApprovedListsPublicKeys
<1>2. /\ TypeInv /\ InsertInv /\ SerialInv /\ ListingInv
      /\ ApprovedListsPublicKeys /\ [Next]_vars
      => ApprovedListsPublicKeys'
  <2>1. SUFFICES ASSUME TypeInv, InsertInv, SerialInv, ListingInv, ApprovedListsPublicKeys,
                        [Next]_vars, NEW a \in Art,
                        row'[a] = "live", status'[SubOf[a]] = "approved"
                 PROVE  rowKey'[a] = ObjectKey(a)
    BY DEF ApprovedListsPublicKeys, ObjectKey
  <2>2. CASE status[SubOf[a]] = "approved"
    BY <2>1, <2>2, ReadOnlyStep DEF RowKept, ApprovedListsPublicKeys
  <2>3. CASE status[SubOf[a]] # "approved"
    BY <2>1, <2>3, ApprovalListsPublicKeys
  <2>4. QED
    BY <2>2, <2>3
<1>3. QED
  BY <1>1, <1>2, TypeInvHolds, InsertInvHolds, SerialInvHolds, ListingInvHolds, PTL DEF Spec

-----------------------------------------------------------------------------
(***************************************************************************)
(* What a sweep keeps.                                                     *)
(***************************************************************************)

\* The keys a request is about to keep are those it would list now.
Keeping(p) ==
    req[p].pc = "sweep" => req[p].keep = ListLivePackObjectKeys(req[p].sub)

KeepInv == \A p \in Procs : Keeping(p)

LEMMA KeepStep ==
    ASSUME Serial, TypeInv, SerialInv, KeepInv, [Next]_vars
    PROVE  KeepInv'
<1>1. CASE Browser \/ UNCHANGED vars
  <2>1. UNCHANGED <<status, row, rowKey, req>>
    BY <1>1 DEF Browser, PresignedUpload, BrowserUpload, vars, db
  <2>2. QED
    BY <2>1 DEF KeepInv, Keeping, ListLivePackObjectKeys
<1>2. ASSUME NEW s \in Subs, SubmitForReview(s) PROVE KeepInv'
  BY <1>2 DEF SubmitForReview, Quiet, KeepInv, Keeping
<1>3. ASSUME NEW p \in Procs, Start(p) PROVE KeepInv'
  <2>1. Others(p) /\ Started(p)
    BY <1>3, StartMoves
  <2>2. UNCHANGED <<status, row, rowKey>>
    BY <1>3 DEF Start, GetUploadURL, RemoveSubmissionFile, CreateSubmission,
                AddSubmissionFiles, Approve, Reject, Trash, DeleteSubmission, db
  <2>3. QED
    BY <2>1, <2>2 DEF Others, Started, KeepInv, Keeping, ListLivePackObjectKeys
<1>4. ASSUME NEW p \in Procs, Step(p) \/ Abort(p) PROVE KeepInv'
  <2>1. Others(p) /\ Moves(p)
    BY <1>4, StepMoves
  <2>2. req[p].pc # "idle"
    BY <1>4, StepBusy
  <2>3. \A q \in Procs \ {p} : req'[q].pc = "idle"
    BY <2>1, <2>2 DEF Others, SerialInv, Alone
  <2>4. CASE TrashKeep(p)
    <3> DEFINE r == [req[p] EXCEPT !.pc = "sweep",
                                   !.keep = ListLivePackObjectKeys(req[p].sub)]
    <3>1. r.keep = ListLivePackObjectKeys(req[p].sub) /\ r.sub = req[p].sub
      BY DEF TypeInv, TypeOK, Request
    <3>2. Go(p, r) /\ UNCHANGED <<status, row, rowKey>>
      BY <2>4 DEF TrashKeep, db
    <3> HIDE DEF r
    <3>3. Keeping(p)'
      BY <3>1, <3>2, GoOthers DEF Keeping, ListLivePackObjectKeys
    <3> QED
      BY <2>3, <3>3 DEF KeepInv, Keeping
  <2>5. CASE ~TrashKeep(p)
    <3>1. CASE req[p].pc = "keep"
      <4>1. Abort(p)
        BY <1>4, <2>5, <3>1
           DEF Step, At, UploadURLRegister, InsertSubmission, RegisterFile, RegisterDone,
               RemoveObject, RemoveRow, ApproveList, PublishNothing, PublishMissing,
               PublishFile, PublishUnstage, PublishRelabel, ApproveSetStatus, AwardCheck,
               AwardXP, RejectList, PreserveRejectedFile, RejectRelabel, RejectSetStatus,
               TrashSweep, TrashDropRows, TrashSubmission, DeleteList, DeleteObjects, DeleteRow
      <4>2. req'[p].pc = "idle"
        BY <4>1 DEF Abort, Done, TypeInv, TypeOK, Idle
      <4>3. QED
        BY <2>3, <4>2 DEF KeepInv, Keeping
    <3>2. CASE req[p].pc # "keep"
      <4>1. req'[p].pc # "sweep"
        BY <2>1, <3>2 DEF Moves, Flow, Idle
      <4>2. QED
        BY <2>3, <4>1 DEF KeepInv, Keeping
    <3>3. QED
      BY <3>1, <3>2
  <2>6. QED
    BY <2>4, <2>5
<1>5. QED
  BY <1>1, <1>2, <1>3, <1>4 DEF Next

LEMMA KeepInvHolds ==
    ASSUME Serial
    PROVE  Spec => []KeepInv
<1>1. Init => KeepInv
  BY DEF Init, Idle, KeepInv, Keeping
<1>2. TypeInv /\ SerialInv /\ KeepInv /\ [Next]_vars => KeepInv'
  BY KeepStep
<1>3. QED
  BY <1>1, <1>2, TypeInvHolds, SerialInvHolds, PTL DEF Spec

\* A key of an upload lies under the prefix of its own pack only.
LEMMA PrefixOwn ==
    ASSUME NEW a \in Art, NEW k, OwnKey([art |-> a, key |-> k]), NEW pk, k \in PackPrefix(pk)
    PROVE  PackOf[SubOf[a]] = pk
<1>1. CASE k = ObjectKey(a)
  <2>1. k \in PublicKeys /\ k.pack = PackOf[SubOf[a]]
    BY <1>1, ObjectKeyType DEF ObjectKey
  <2>2. k.pack = pk
    BY <2>1, StagedNotPublic DEF PackPrefix
  <2>3. QED
    BY <2>1, <2>2
<1>2. CASE k \in StagedKeys /\ k.art = a
  BY <1>2, StagedNotPublic DEF PackPrefix
<1>3. QED
  BY <1>1, <1>2 DEF OwnKey

LEMMA SweepStep ==
    ASSUME TypeInv, OwnKeys, KeepInv, [Next]_vars, NEW p \in Procs, NEW a \in Art,
           req[p].pc = "sweep", req'[p].pc = "droprows",
           row[a] = "live", SubOf[a] # req[p].sub, status[SubOf[a]] \in LiveStatuses
    PROVE  bucket'[rowKey[a]] = bucket[rowKey[a]]
<1>1. PICK q \in Procs : Step(q) \/ Abort(q)
  <2>1. ~(Browser \/ UNCHANGED vars)
    BY BrowserStatus DEF vars
  <2>2. \A t \in Subs : ~SubmitForReview(t)
    BY DEF SubmitForReview
  <2>3. \A q \in Procs : ~Start(q)
    <3>1. ASSUME NEW q \in Procs, Start(q) PROVE FALSE
      <4>1. Others(q) /\ Started(q)
        BY <3>1, StartMoves
      <4>2. QED
        BY <4>1 DEF Others, Started
    <3>2. QED
      BY <3>1
  <2>4. QED
    BY <2>1, <2>2, <2>3 DEF Next
<1>2. q = p
  <2>1. Others(q)
    BY <1>1, StepMoves
  <2>2. QED
    BY <2>1 DEF Others
<1>3. ~Abort(p)
  BY DEF Abort, Done, Idle, TypeInv, TypeOK
<1>4. TrashSweep(p)
  BY <1>1, <1>2, <1>3
     DEF Step, At, UploadURLRegister, InsertSubmission, RegisterFile, RegisterDone,
         RemoveObject, RemoveRow, ApproveList, PublishNothing, PublishMissing,
         PublishFile, PublishUnstage, PublishRelabel, ApproveSetStatus, AwardCheck,
         AwardXP, RejectList, PreserveRejectedFile, RejectRelabel, RejectSetStatus,
         TrashKeep, TrashDropRows, TrashSubmission, DeleteList, DeleteObjects, DeleteRow
<1>5. rowKey[a] \in Keys /\ OwnKey([art |-> a, key |-> rowKey[a]])
  BY DEF TypeInv, TypeOK, OwnKeys, OwnRows
<1>6. rowKey[a] \notin PackPrefix(PackOf[req[p].sub]) \ req[p].keep
  <2>1. CASE PackOf[SubOf[a]] = PackOf[req[p].sub]
    <3>1. rowKey[a] \in ListLivePackObjectKeys(req[p].sub)
      BY <2>1 DEF ListLivePackObjectKeys, SamePack
    <3>2. QED
      BY <3>1 DEF KeepInv, Keeping
  <2>2. CASE PackOf[SubOf[a]] # PackOf[req[p].sub]
    BY <1>5, <2>2, PrefixOwn
  <2>3. QED
    BY <2>1, <2>2
<1>7. QED
  BY <1>4, <1>5, <1>6 DEF TrashSweep, Without

\* One request at a time, trashing a submission never deletes an object that a
\* created, pending or approved submission refers to: the list it keeps is
\* still right when the sweep runs, and a sweep does not leave its pack.
THEOREM SerialSweepSparesLive == Serial => (Spec => SweepSparesLive)
<1> SUFFICES ASSUME Serial PROVE Spec => SweepSparesLive
  OBVIOUS
<1>1. TypeInv /\ OwnKeys /\ KeepInv /\ [Next]_vars =>
         [\A p \in Procs, a \in Art :
             /\ At(p, "sweep") /\ req'[p].pc = "droprows"
             /\ row[a] = "live" /\ SubOf[a] # req[p].sub
             /\ status[SubOf[a]] \in {"created", "pending", "approved"}
             => bucket'[rowKey[a]] = bucket[rowKey[a]]]_vars
  BY SweepStep DEF At, LiveStatuses
<1>2. QED
  BY <1>1, TypeInvHolds, OwnKeysHold, KeepInvHolds, PTL DEF Spec, SweepSparesLive

-----------------------------------------------------------------------------
(***************************************************************************)
(* What a rejection has moved so far: every staged row of the submission   *)
(* is still to do, or preserved with its bytes, or at hand and copied.     *)
(***************************************************************************)
Rejecting == {"preserve", "relabel_rejected"}

IsPreserved(a, k) == k.rejected > 0 /\ bucket[k] = a

Moved(a, r) ==
    \/ [art |-> a, key |-> rowKey[a]] \in r.todo
    \/ IsPreserved(a, rowKey[a])
    \/ r.pc = "relabel_rejected" /\ r.file.art = a

Staged(a, s) == row[a] = "live" /\ SubOf[a] = s /\ rowKey[a] \in StagedKeys

Preserving(p) ==
    LET r == req[p] IN
    /\ r.pc \in Rejecting => \A a \in Art : Staged(a, r.sub) => Moved(a, r)
    /\ r.pc = "relabel_rejected" => IsPreserved(r.file.art, rejectedObjectKey(r.file.key))

PreserveInv == \A p \in Procs : Preserving(p)

LEMMA RejectedKeyMoved ==
    ASSUME NEW k \in StagedKeys
    PROVE  /\ rejectedObjectKey(k).art = k.art
           /\ rejectedObjectKey(k).rejected > 0
           /\ rejectedObjectKey(k) # k
<1>1. k.rejected \in Nat /\ k \in [art : Art, rejected : 0..MaxRejections]
  BY PackReviewAssumption DEF StagedKeys
<1>2. rejectedObjectKey(k).art = k.art /\ rejectedObjectKey(k).rejected = k.rejected + 1
  BY <1>1 DEF rejectedObjectKey
<1>3. QED
  BY <1>1, <1>2

\* A PUT of the browser goes to a key that was never rejected.
LEMMA BrowserPreserves ==
    ASSUME TypeInv, Browser, NEW a, NEW k, IsPreserved(a, k)
    PROVE  IsPreserved(a, k)'
<1>1. PICK b \in Art : bucket' = [bucket EXCEPT ![reviewObjectKey(b)] = b]
  BY DEF Browser, PresignedUpload, BrowserUpload
<1>2. k # reviewObjectKey(b)
  BY DEF IsPreserved, reviewObjectKey
<1>3. QED
  BY <1>1, <1>2 DEF IsPreserved, TypeInv, TypeOK

\* The step of a rejection that copies and deletes an object.
LEMMA PreserveFileStep ==
    ASSUME TypeInv, OwnKeys, BytesBelong, PreserveInv, NEW p \in Procs,
           PreserveRejectedFile(p), ~Done(p)
    PROVE  Preserving(p)'
<1> DEFINE old == req[p]
<1>1. PICK f \in old.todo :
         /\ old.pc = "preserve"
         /\ f.key.rejected < MaxRejections
         /\ bucket[f.key] # None
         /\ bucket' = [bucket EXCEPT ![rejectedObjectKey(f.key)] = bucket[f.key],
                                     ![f.key] = None]
         /\ Go(p, [old EXCEPT !.pc = "relabel_rejected", !.file = f, !.todo = @ \ {f}])
         /\ UNCHANGED <<row, rowKey>>
  BY DEF PreserveRejectedFile, At, db
<1> DEFINE r == [old EXCEPT !.pc = "relabel_rejected", !.file = f, !.todo = @ \ {f}]
           moved == rejectedObjectKey(f.key)
<1>2. r.sub = old.sub /\ r.todo = old.todo \ {f} /\ r.pc = "relabel_rejected" /\ r.file = f
  BY DEF TypeInv, TypeOK, Request
<1>3. f \in File /\ f.key \in StagedKeys /\ OwnKey(f)
  BY <1>1 DEF TypeInv, TypeOK, Request, RequestFine, OwnKeys, OwnRequest
<1>4. f.art \in Art /\ f.key.art = f.art /\ f.key \in Keys
  BY <1>3, ObjectKeyType, StagedNotPublic DEF OwnKey, File
<1>5. bucket[f.key] = f.art
  BY <1>1, <1>3, <1>4, StagedNotPublic DEF BytesBelong
<1>6. moved \in Keys /\ moved.art = f.art /\ moved.rejected > 0 /\ moved # f.key
  BY <1>1, <1>3, <1>4, RejectedKeyType, RejectedKeyMoved
<1>7. bucket'[moved] = f.art
  BY <1>1, <1>4, <1>5, <1>6 DEF TypeInv, TypeOK
<1>8. req'[p] = r
  BY <1>1, GoOthers
<1>9. ASSUME NEW a \in Art, Staged(a, old.sub)
      PROVE  [art |-> a, key |-> rowKey[a]] \in old.todo \ {f} \/ f.art = a
             \/ (rowKey[a].rejected > 0 /\ bucket'[rowKey[a]] = a)
  <2>1. Moved(a, old)
    BY <1>1, <1>9 DEF PreserveInv, Preserving, Rejecting
  <2>2. CASE [art |-> a, key |-> rowKey[a]] \in old.todo
    BY <2>2
  <2>3. CASE IsPreserved(a, rowKey[a]) /\ f.art # a
    <3>1. rowKey[a].art = a /\ rowKey[a] \in Keys
      BY <1>9, ObjectKeyType, StagedNotPublic DEF Staged, OwnKeys, OwnRows, OwnKey, TypeInv, TypeOK
    <3>2. rowKey[a] # moved /\ rowKey[a] # f.key
      BY <1>4, <1>6, <2>3, <3>1
    <3>3. QED
      BY <1>1, <2>3, <3>1, <3>2 DEF IsPreserved, TypeInv, TypeOK
  <2>4. QED
    BY <1>1, <2>1, <2>2, <2>3 DEF Moved
<1> HIDE DEF r, moved
<1>10. QED
  BY <1>1, <1>2, <1>6, <1>7, <1>8, <1>9 DEF Preserving, Staged, Moved, IsPreserved, moved

LEMMA RejectRelabelStep ==
    ASSUME TypeInv, OwnKeys, PreserveInv, NEW p \in Procs, RejectRelabel(p)
    PROVE  Preserving(p)'
<1> DEFINE old == req[p]
           r == [old EXCEPT !.pc = "preserve", !.file = None]
<1>1. r.sub = old.sub /\ r.todo = old.todo /\ r.pc = "preserve"
  BY DEF TypeInv, TypeOK, Request
<1>2. /\ old.pc = "relabel_rejected" /\ Go(p, r) /\ UNCHANGED <<row, bucket>>
      /\ rowKey' = [rowKey EXCEPT ![old.file.art] =
                       IF row[old.file.art] = "live" THEN rejectedObjectKey(old.file.key) ELSE @]
  BY DEF RejectRelabel, At
<1>3. IsPreserved(old.file.art, rejectedObjectKey(old.file.key))
  BY <1>2 DEF PreserveInv, Preserving
<1>4. req'[p] = r
  BY <1>2, GoOthers
<1> HIDE DEF r
<1>5. ASSUME NEW a \in Art, Staged(a, req[p].sub)'
      PROVE  Moved(a, req[p])'
  <2>1. row[a] = "live" /\ SubOf[a] = old.sub
    BY <1>1, <1>2, <1>4, <1>5 DEF Staged
  <2>2. CASE a = old.file.art
    <3>1. rowKey'[a] = rejectedObjectKey(old.file.key)
      BY <1>2, <2>1, <2>2 DEF TypeInv, TypeOK
    <3>2. QED
      BY <1>2, <1>3, <2>2, <3>1 DEF Moved, IsPreserved
  <2>3. CASE a # old.file.art
    <3>1. rowKey'[a] = rowKey[a]
      BY <1>2, <2>3 DEF TypeInv, TypeOK
    <3>2. Staged(a, old.sub)
      BY <1>5, <2>1, <3>1 DEF Staged
    <3>3. Moved(a, old)
      BY <1>2, <3>2 DEF PreserveInv, Preserving, Rejecting
    <3>4. QED
      BY <1>1, <1>2, <1>4, <2>3, <3>1, <3>3 DEF Moved, IsPreserved
  <2>4. QED
    BY <2>2, <2>3
<1>6. QED
  BY <1>1, <1>4, <1>5 DEF Preserving

LEMMA PreserveStep ==
    ASSUME TypeInv, OwnKeys, BytesBelong, PreserveInv, NEW p \in Procs, Step(p) \/ Abort(p)
    PROVE  Preserving(p)'
<1> DEFINE old == req[p]
<1>1. CASE RejectList(p)
  <2> DEFINE fs == {f \in ListFiles(old.sub) : isReviewObjectKey(f.key)}
             r == [old EXCEPT !.pc = "preserve", !.todo = fs]
  <2>1. r.sub = old.sub /\ r.todo = fs /\ r.pc = "preserve"
    BY DEF TypeInv, TypeOK, Request
  <2>2. Go(p, r) /\ UNCHANGED <<row, rowKey, bucket>>
    BY <1>1 DEF RejectList, db
  <2>3. ASSUME NEW a \in Art, Staged(a, old.sub)
        PROVE  [art |-> a, key |-> rowKey[a]] \in fs
    BY <2>3 DEF Staged, ListFiles, Rows, isReviewObjectKey
  <2> HIDE DEF r, fs
  <2>4. req'[p] = r
    BY <2>2, GoOthers
  <2> QED
    BY <2>1, <2>2, <2>3, <2>4 DEF Preserving, Staged, Moved
<1>2. CASE PreserveRejectedFile(p) /\ ~Done(p)
  BY <1>2, PreserveFileStep
<1>3. CASE RejectRelabel(p)
  BY <1>3, RejectRelabelStep
<1>4. CASE ~(RejectList(p) \/ (PreserveRejectedFile(p) /\ ~Done(p)) \/ RejectRelabel(p))
  <2>1. CASE old.pc \in Rejecting \cup {"list_reject"}
    <3>1. RejectSetStatus(p) \/ Abort(p) \/ Done(p)
      BY <1>4, <2>1
         DEF Rejecting, Step, At, UploadURLRegister, InsertSubmission, RegisterFile,
             RegisterDone, RemoveObject, RemoveRow, ApproveList, PublishNothing,
             PublishMissing, PublishFile, PublishUnstage, PublishRelabel, ApproveSetStatus,
             AwardCheck, AwardXP, TrashKeep, TrashSweep, TrashDropRows, TrashSubmission,
             DeleteList, DeleteObjects, DeleteRow
    <3>2. req'[p].pc = "idle"
      BY <3>1 DEF RejectSetStatus, Abort, Done, TypeInv, TypeOK, Idle
    <3>3. QED
      BY <3>2 DEF Preserving, Rejecting
  <2>2. CASE old.pc \notin Rejecting \cup {"list_reject"}
    <3>1. Moves(p)
      BY StepMoves
    <3>2. req'[p].pc \notin Rejecting
      BY <2>2, <3>1 DEF Moves, Flow, Idle, Rejecting
    <3>3. QED
      BY <3>2 DEF Preserving, Rejecting
  <2>3. QED
    BY <2>1, <2>2
<1>5. QED
  BY <1>1, <1>2, <1>3, <1>4

LEMMA PreserveInvStep ==
    ASSUME Serial, TypeInv, SerialInv, OwnKeys, BytesBelong, PreserveInv, [Next]_vars
    PROVE  PreserveInv'
<1>1. CASE Browser
  <2>1. UNCHANGED <<row, rowKey, req>>
    BY <1>1 DEF Browser, PresignedUpload, BrowserUpload, db
  <2>2. ASSUME NEW a, NEW k, IsPreserved(a, k) PROVE IsPreserved(a, k)'
    BY <1>1, <2>2, BrowserPreserves
  <2>3. ASSUME NEW p \in Procs PROVE Preserving(p)'
    <3>1. Preserving(p)
      BY DEF PreserveInv
    <3>2. ASSUME NEW a \in Art, Moved(a, req[p]) PROVE Moved(a, req[p])'
      BY <2>1, <2>2, <3>2 DEF Moved
    <3>3. req[p].pc = "relabel_rejected" =>
             IsPreserved(req[p].file.art, rejectedObjectKey(req[p].file.key))'
      BY <2>1, <2>2, <3>1 DEF Preserving, rejectedObjectKey
    <3>4. QED
      BY <2>1, <3>1, <3>2, <3>3 DEF Preserving, Staged
  <2>4. QED
    BY <2>3 DEF PreserveInv
<1>2. CASE UNCHANGED vars
  BY <1>2 DEF vars, db, PreserveInv, Preserving, Staged, Moved, IsPreserved
<1>3. ASSUME NEW s \in Subs, SubmitForReview(s) PROVE PreserveInv'
  BY <1>3 DEF SubmitForReview, Quiet, PreserveInv, Preserving, Rejecting
<1>4. ASSUME NEW p \in Procs, Start(p) PROVE PreserveInv'
  <2>1. Others(p) /\ Started(p)
    BY <1>4, StartMoves
  <2>2. UNCHANGED <<row, rowKey, bucket>>
    BY <1>4 DEF Start, GetUploadURL, RemoveSubmissionFile, CreateSubmission,
                AddSubmissionFiles, Approve, Reject, Trash, DeleteSubmission, db
  <2>3. ASSUME NEW q \in Procs \ {p} PROVE Preserving(q)'
    BY <2>1, <2>2 DEF Others, PreserveInv, Preserving, Staged, Moved, IsPreserved
  <2>4. QED
    BY <2>1, <2>3 DEF Started, PreserveInv, Preserving, Rejecting
<1>5. ASSUME NEW p \in Procs, Step(p) \/ Abort(p) PROVE PreserveInv'
  <2>1. Others(p) /\ Preserving(p)' /\ req[p].pc # "idle"
    BY <1>5, StepMoves, PreserveStep, StepBusy
  <2>2. \A q \in Procs \ {p} : req'[q].pc = "idle"
    BY <2>1 DEF Others, SerialInv, Alone
  <2>3. QED
    BY <2>1, <2>2 DEF PreserveInv, Preserving, Rejecting
<1>6. QED
  BY <1>1, <1>2, <1>3, <1>4, <1>5 DEF Next

LEMMA PreserveInvHolds ==
    ASSUME Serial
    PROVE  Spec => []PreserveInv
<1>1. Init => PreserveInv
  BY DEF Init, Idle, PreserveInv, Preserving, Rejecting
<1>2. /\ TypeInv /\ SerialInv /\ OwnKeys /\ BytesBelong /\ PreserveInv /\ [Next]_vars
      => PreserveInv'
  BY PreserveInvStep
<1>3. QED
  BY <1>1, <1>2, TypeInvHolds, SerialInvHolds, OwnKeysHold, BytesAlwaysBelong, PTL DEF Spec

LEMMA RejectedStep ==
    ASSUME TypeInv, InsertInv, PreserveInv, [Next]_vars, NEW s \in Subs,
           status[s] # "rejected", status'[s] = "rejected",
           NEW a \in Art, Staged(a, s)
    PROVE  IsPreserved(a, rowKey[a])
<1>1. PICK p \in Procs : Step(p) \/ Abort(p)
  <2>1. ~(Browser \/ UNCHANGED vars)
    BY BrowserStatus DEF vars, db
  <2>2. \A t \in Subs : ~SubmitForReview(t)
    BY DEF SubmitForReview, TypeInv, TypeOK
  <2>3. \A p \in Procs : ~Start(p)
    BY StartStatus
  <2>4. QED
    BY <2>1, <2>2, <2>3 DEF Next
<1>2. req[p].pc = "preserve" /\ s = req[p].sub
  BY <1>1, StepStatus DEF StatusChange, Sets, TypeInv, TypeOK
<1>3. RejectSetStatus(p)
  BY <1>1, <1>2
     DEF Step, Abort, At, UploadURLRegister, InsertSubmission, RegisterFile, RegisterDone,
         RemoveObject, RemoveRow, ApproveList, PublishNothing, PublishMissing, PublishFile,
         PublishUnstage, PublishRelabel, ApproveSetStatus, AwardCheck, AwardXP, RejectList,
         PreserveRejectedFile, RejectRelabel, TrashKeep, TrashSweep, TrashDropRows,
         TrashSubmission, DeleteList, DeleteObjects, DeleteRow, db
<1>4. Moved(a, req[p])
  BY <1>2 DEF PreserveInv, Preserving, Rejecting
<1>5. QED
  BY <1>2, <1>3, <1>4 DEF RejectSetStatus, Moved

(***************************************************************************)
(* An upload has one staged object at most, and none before its PUT: a URL *)
(* is used once, and a rejection deletes what it copied.                   *)
(***************************************************************************)
Holds(k) == k \in StagedKeys /\ bucket[k] # None

OneObject ==
    \A k : Holds(k) =>
       /\ url[k.art] = "used"
       /\ \A other : Holds(other) /\ other.art = k.art => other = k

Presigning == \A p \in Procs : req[p].pc = "presign" => url[req[p].file.art] = "signed"

\* Objects that go leave one at most.
LEMMA OneObjectFewer ==
    ASSUME OneObject, \A k : Holds(k)' => Holds(k), UNCHANGED url
    PROVE  OneObject'
BY DEF OneObject

\* A PUT finds no object of its upload.
LEMMA OneObjectUpload ==
    ASSUME TypeInv, OneObject, NEW a \in Art, url[a] # "used",
           url' = [url EXCEPT ![a] = "used"],
           bucket' = [bucket EXCEPT ![reviewObjectKey(a)] = a]
    PROVE  OneObject'
<1>1. \A k : Holds(k) => k.art \in Art /\ k.art # a
  BY DEF OneObject, Holds, StagedKeys
<1>2. reviewObjectKey(a).art = a
  BY DEF reviewObjectKey
<1>3. ASSUME NEW k, Holds(k)' PROVE k = reviewObjectKey(a) \/ Holds(k)
  BY <1>3 DEF Holds, TypeInv, TypeOK, Keys
<1>4. url'[a] = "used" /\ \A b \in Art \ {a} : url'[b] = url[b]
  BY DEF TypeInv, TypeOK
<1>5. QED
  BY <1>1, <1>2, <1>3, <1>4 DEF OneObject

\* A rejection leaves the copy in the place of the object it copied.
LEMMA OneObjectPreserve ==
    ASSUME TypeInv, OneObject, NEW p \in Procs, PreserveRejectedFile(p)
    PROVE  OneObject'
<1>1. PICK f \in req[p].todo :
         /\ At(p, "preserve")
         /\ f.key.rejected < MaxRejections
         /\ UNCHANGED url
         /\ \/ UNCHANGED bucket
            \/ /\ bucket[f.key] # None
               /\ bucket' = [bucket EXCEPT ![rejectedObjectKey(f.key)] = bucket[f.key],
                                           ![f.key] = None]
  BY DEF PreserveRejectedFile
<1> DEFINE from == f.key
           to == rejectedObjectKey(f.key)
<1>2. from \in StagedKeys /\ from \in Keys
  BY <1>1 DEF TypeInv, TypeOK, Request, RequestFine, At, File, Keys
<1>3. to \in StagedKeys /\ to.art = from.art
  BY <1>1, <1>2, PackReviewAssumption DEF rejectedObjectKey, StagedKeys
<1>4. CASE UNCHANGED bucket
  BY <1>1, <1>4, OneObjectFewer DEF Holds
<1>5. CASE /\ bucket[from] # None
           /\ bucket' = [bucket EXCEPT ![to] = bucket[from], ![from] = None]
  <2> HIDE DEF from, to
  <2>1. Holds(from)
    BY <1>2, <1>5 DEF Holds
  <2>2. ASSUME NEW k, Holds(k)' PROVE k = to \/ (Holds(k) /\ k # from)
    BY <1>2, <1>3, <1>5, <2>2 DEF Holds, TypeInv, TypeOK, Keys
  <2>3. \A k : Holds(k) /\ k # from => k.art # from.art
    BY <2>1 DEF OneObject
  <2>4. QED
    BY <1>1, <1>3, <2>1, <2>2, <2>3 DEF OneObject
<1>6. QED
  BY <1>1, <1>4, <1>5

\* The other steps that touch an object or a URL.
LEMMA OneObjectOther ==
    ASSUME TypeInv, OneObject, Presigning, NEW p \in Procs,
           Start(p) \/ Step(p) \/ Abort(p), ~PreserveRejectedFile(p)
    PROVE  OneObject'
<1>1. CASE PublishFile(p)
  <2>1. PICK f \in req[p].todo :
           /\ bucket' = [bucket EXCEPT ![ObjectKey(f.art)] = bucket[f.key]]
           /\ UNCHANGED url
    BY <1>1 DEF PublishFile
  <2>2. ObjectKey(f.art) \notin StagedKeys
    BY ObjectKeyType, StagedNotPublic DEF TypeInv, TypeOK, Request, File
  <2>3. \A k : Holds(k)' => Holds(k)
    BY <2>1, <2>2 DEF Holds, TypeInv, TypeOK, Keys
  <2>4. QED
    BY <2>1, <2>3, OneObjectFewer
<1>2. CASE RemoveObject(p) \/ PublishUnstage(p) \/ TrashSweep(p) \/ DeleteObjects(p)
  <2>1. UNCHANGED url /\ (UNCHANGED bucket \/ \E ks : bucket' = Without(ks))
    BY <1>2 DEF RemoveObject, PublishUnstage, TrashSweep, DeleteObjects
  <2>2. \A k : Holds(k)' => Holds(k)
    BY <2>1 DEF Holds, Without, Keys
  <2>3. QED
    BY <2>1, <2>2, OneObjectFewer
<1>3. CASE UploadURLRegister(p) \/ \E a \in Art : GetUploadURL(p, a)
  <2>1. UNCHANGED bucket
    BY <1>3 DEF UploadURLRegister, GetUploadURL
  <2>2. UNCHANGED url \/ \E a, u : url[a] # "used" /\ url' = [url EXCEPT ![a] = u]
    BY <1>3 DEF UploadURLRegister, GetUploadURL, Presigning, At
  <2>3. \A a \in Art : url[a] = "used" => url'[a] = "used"
    BY <2>2 DEF TypeInv, TypeOK
  <2>4. \A k : Holds(k) => k.art \in Art
    BY DEF Holds, StagedKeys
  <2>5. QED
    BY <2>1, <2>3, <2>4 DEF OneObject, Holds
<1>4. CASE UNCHANGED <<bucket, url>>
  BY <1>4, OneObjectFewer DEF Holds
<1>5. QED
  BY <1>1, <1>2, <1>3, <1>4
     DEF Start, Step, Abort, RemoveSubmissionFile, CreateSubmission, AddSubmissionFiles,
         Approve, Reject, Trash, DeleteSubmission, InsertSubmission, RegisterFile,
         RegisterDone, RemoveRow, ApproveList, PublishNothing, PublishMissing,
         PublishRelabel, ApproveSetStatus, AwardCheck, AwardXP, RejectList, RejectRelabel,
         RejectSetStatus, TrashKeep, TrashDropRows, TrashSubmission, DeleteList, DeleteRow

\* A URL is signed until the request that signed it has registered the file.
LEMMA PresigningStep ==
    ASSUME Serial, TypeInv, SerialInv, Presigning, [Next]_vars
    PROVE  Presigning'
<1>1. CASE Browser
  <2>1. PICK a \in Art : /\ url[a] # "signed"
                         /\ url' = [url EXCEPT ![a] = "used"]
                         /\ UNCHANGED req
    BY <1>1 DEF Browser, PresignedUpload, BrowserUpload
  <2>2. QED
    BY <2>1 DEF Presigning, TypeInv, TypeOK
<1>2. CASE UNCHANGED vars \/ \E s \in Subs : SubmitForReview(s)
  BY <1>2 DEF vars, SubmitForReview, Presigning
<1>3. ASSUME NEW p \in Procs, Start(p) PROVE Presigning'
  <2>1. Others(p) /\ Quiet
    BY <1>3, StartMoves
       DEF Start, GetUploadURL, RemoveSubmissionFile, CreateSubmission, AddSubmissionFiles,
           Approve, Reject, Trash, DeleteSubmission, Enter
  <2>2. \A q \in Procs \ {p} : req'[q].pc = "idle"
    BY <2>1 DEF Others, Quiet
  <2>3. CASE \E a \in Art : GetUploadURL(p, a)
    <3>1. PICK a \in Art :
             /\ url' = [url EXCEPT ![a] = "signed"]
             /\ Go(p, [Idle EXCEPT !.pc = "presign", !.sub = SubOf[a],
                                   !.file = [art |-> a, key |-> reviewObjectKey(a)]])
      BY <2>3 DEF GetUploadURL
    <3>2. req'[p].file.art = a
      BY <3>1 DEF Go, Idle, TypeInv, TypeOK
    <3>3. url'[a] = "signed"
      BY <3>1 DEF TypeInv, TypeOK
    <3>4. QED
      BY <2>2, <3>2, <3>3 DEF Presigning
  <2>4. CASE ~\E a \in Art : GetUploadURL(p, a)
    <3>1. req'[p].pc # "presign"
      BY <1>3, <2>4, OnlyPresigns
    <3>2. QED
      BY <2>2, <3>1 DEF Presigning
  <2>5. QED
    BY <2>3, <2>4
<1>4. ASSUME NEW p \in Procs, Step(p) \/ Abort(p) PROVE Presigning'
  <2>1. Others(p) /\ Moves(p) /\ req[p].pc # "idle"
    BY <1>4, StepMoves, StepBusy
  <2>2. \A q \in Procs \ {p} : req'[q].pc = "idle"
    BY <2>1 DEF Others, SerialInv, Alone
  <2>3. req'[p].pc # "presign"
    BY <2>1 DEF Moves, Flow, Idle
  <2>4. QED
    BY <2>2, <2>3 DEF Presigning
<1>5. QED
  BY <1>1, <1>2, <1>3, <1>4 DEF Next

LEMMA OneObjectStep ==
    ASSUME Serial, TypeInv, SerialInv, Presigning, OneObject, [Next]_vars
    PROVE  OneObject'
<1>1. CASE Browser
  <2>1. PICK a \in Art : PresignedUpload(a) \/ BrowserUpload(a)
    BY <1>1 DEF Browser
  <2>2. QED
    BY <2>1, OneObjectUpload DEF PresignedUpload, BrowserUpload
<1>2. CASE UNCHANGED vars \/ \E s \in Subs : SubmitForReview(s)
  BY <1>2 DEF vars, SubmitForReview, OneObject, Holds
<1>3. ASSUME NEW p \in Procs, Start(p) \/ Step(p) \/ Abort(p) PROVE OneObject'
  BY <1>3, OneObjectPreserve, OneObjectOther
<1>4. QED
  BY <1>1, <1>2, <1>3 DEF Next

LEMMA OneObjectHolds ==
    ASSUME Serial
    PROVE  Spec => []OneObject
<1>1. Init => Presigning /\ OneObject
  BY DEF Init, Idle, Presigning, OneObject, Holds, Keys
<1>2. /\ TypeInv /\ SerialInv /\ Presigning /\ OneObject /\ [Next]_vars
      => Presigning' /\ OneObject'
  BY PresigningStep, OneObjectStep
<1>3. QED
  BY <1>1, <1>2, TypeInvHolds, SerialInvHolds, PTL DEF Spec

\* One request at a time, each of them possibly cut short, a submission is
\* rejected only when each staged file it lists is named under rejected/ and
\* has no other staged object, whatever a browser uploads in the meantime.
THEOREM SerialRejectedLeavesStaging == Serial => (Spec => RejectedLeavesStaging)
<1> SUFFICES ASSUME Serial PROVE Spec => RejectedLeavesStaging
  OBVIOUS
<1> DEFINE Left(s, a) == /\ rowKey[a].rejected > 0
                         /\ \A k \in StagedKeys : k.art = a /\ bucket[k] # None => k = rowKey[a]
<1>1. ASSUME TypeInv, InsertInv, PreserveInv, OwnKeys, OneObject, [Next]_vars, NEW s \in Subs,
             status[s] # "rejected", status'[s] = "rejected", NEW a \in Art, Staged(a, s)
      PROVE  Left(s, a)
  <2>1. IsPreserved(a, rowKey[a])
    BY <1>1, RejectedStep
  <2>2. rowKey[a].art = a
    BY <1>1, ObjectKeyType, StagedNotPublic DEF Staged, OwnKeys, OwnRows, OwnKey
  <2>3. Holds(rowKey[a])
    BY <1>1, <2>1, PackReviewAssumption DEF Staged, IsPreserved, Holds
  <2>4. QED
    BY <1>1, <2>1, <2>2, <2>3 DEF OneObject, Holds, IsPreserved
<1>2. TypeInv /\ InsertInv /\ PreserveInv /\ OwnKeys /\ OneObject /\ [Next]_vars =>
         [\A s \in Subs : status[s] # "rejected" /\ status'[s] = "rejected" =>
             \A a \in Rows(s) : rowKey[a] \in StagedKeys => Left(s, a)]_vars
  BY <1>1 DEF Staged, Rows
<1>3. QED
  BY <1>2, TypeInvHolds, InsertInvHolds, PreserveInvHolds, OwnKeysHold, OneObjectHolds, PTL
     DEF Spec, RejectedLeavesStaging

-----------------------------------------------------------------------------
(***************************************************************************)
(* What is published.  As long as no request was cut short, a canonical key *)
(* is in a row of an approved submission, or of one being approved, and a  *)
(* canonical object has such a row or is about to get one.                 *)
(***************************************************************************)
Relabelling == {"unstage", "relabel"}

Approves(p, s) == req[p].pc \in Approving /\ req[p].sub = s

HoldsPublic(a) == row[a] = "live" /\ rowKey[a] \in PublicKeys

PublicRows ==
    \A a \in Art : HoldsPublic(a) =>
       status[SubOf[a]] = "approved" \/ \E p \in Procs : Approves(p, SubOf[a])

PublicObjects ==
    \A k \in PublicKeys : bucket[k] # None =>
       \/ \E a \in Art : row[a] = "live" /\ rowKey[a] = k
       \/ \E p \in Procs : req[p].pc \in Relabelling /\ ObjectKey(req[p].file.art) = k

\* A file that an approval lists under a staging key is still listed so.
Current(f) == f.key \in StagedKeys => row[f.art] = "live" /\ rowKey[f.art] = f.key

WorkFine(p) ==
    LET r == req[p] IN
    /\ r.pc = "presign" => r.file.key \in StagedKeys
    /\ r.pc \in {"insert", "register"} => \A f \in r.todo : f.key \in StagedKeys
    /\ r.pc \in Approving => \A f \in r.todo : Current(f)
    /\ r.pc \in Relabelling =>
          /\ r.file.key \in StagedKeys /\ Current(r.file) /\ r.file \notin r.todo
          /\ bucket[ObjectKey(r.file.art)] # None
    /\ r.pc = "delete_objects" => ListFiles(r.sub) \subseteq r.todo
    /\ r.pc = "delete_row" =>
          \A a \in Rows(r.sub) : HoldsPublic(a) => bucket[rowKey[a]] = None

PublicFine == PublicRows /\ PublicObjects /\ \A p \in Procs : WorkFine(p)

PublicInv == failures = 0 => PublicFine

LEMMA KeySpaces ==
    ASSUME NEW a \in Art, NEW k, OwnKey([art |-> a, key |-> k])
    PROVE  /\ k \in PublicKeys <=> k = ObjectKey(a)
           /\ k \in StagedKeys <=> k # ObjectKey(a)
BY ObjectKeyType, StagedNotPublic DEF OwnKey

LEMMA RowKeySpaces ==
    ASSUME OwnKeys, NEW a \in Art
    PROVE  rowKey[a] \in StagedKeys <=> rowKey[a] \notin PublicKeys
<1>1. OwnKey([art |-> a, key |-> rowKey[a]])
  BY DEF OwnKeys, OwnRows
<1>2. QED
  BY <1>1, KeySpaces

\* A step outside an approval that leaves the canonical rows alone, takes no
\* approval back and adds no canonical object.
LEMMA CalmStep ==
    ASSUME PublicFine,
           \A q \in Procs : req[q].pc \notin Approving,
           \A a \in Art : HoldsPublic(a) \/ HoldsPublic(a)' => RowKept(a),
           \A k \in PublicKeys : bucket'[k] # None => bucket[k] # None,
           \A s \in Subs : status[s] = "approved" => status'[s] = "approved"
    PROVE  PublicRows' /\ PublicObjects'
<1>1. ASSUME NEW a \in Art, HoldsPublic(a)' PROVE status'[SubOf[a]] = "approved"
  <2>1. HoldsPublic(a)
    BY <1>1 DEF HoldsPublic, RowKept
  <2>2. status[SubOf[a]] = "approved" /\ SubOf[a] \in Subs
    BY <2>1, PackReviewAssumption DEF PublicFine, PublicRows, Approves
  <2>3. QED
    BY <2>2
<1>2. ASSUME NEW k \in PublicKeys, bucket'[k] # None
      PROVE  \E a \in Art : row'[a] = "live" /\ rowKey'[a] = k
  <2>1. PICK a \in Art : row[a] = "live" /\ rowKey[a] = k
    BY <1>2 DEF PublicFine, PublicObjects, Relabelling, Approving
  <2>2. RowKept(a)
    BY <2>1 DEF HoldsPublic
  <2>3. QED
    BY <2>1, <2>2 DEF RowKept
<1>3. QED
  BY <1>1, <1>2 DEF PublicRows, PublicObjects

\* What a registration, a removal, a rejection and a trash write is staged.
LEMMA WritesStaged ==
    ASSUME TypeInv, NEW p \in Procs, WorkFine(p),
           \/ UploadURLRegister(p) \/ RegisterFile(p) \/ RemoveRow(p)
           \/ RejectRelabel(p) \/ TrashDropRows(p),
           NEW a \in Art, row'[a] = "live"
    PROVE  RowKept(a) \/ rowKey'[a] \in StagedKeys
<1>1. ASSUME NEW f \in File, f.key \in StagedKeys, AddFileReason(f)
      PROVE  RowKept(a) \/ rowKey'[a] \in StagedKeys
  BY <1>1 DEF AddFileReason, RowKept, TypeInv, TypeOK, File
<1>2. CASE UploadURLRegister(p)
  <2>1. req[p].file \in File /\ req[p].file.key \in StagedKeys
    BY <1>2 DEF UploadURLRegister, At, TypeInv, RequestFine, FilePCs, WorkFine
  <2>2. QED
    BY <1>1, <1>2, <2>1 DEF UploadURLRegister, RowKept
<1>3. CASE RegisterFile(p)
  <2>1. \A f \in req[p].todo : f \in File /\ f.key \in StagedKeys
    BY <1>3 DEF RegisterFile, At, TypeInv, TypeOK, Request, WorkFine
  <2>2. QED
    BY <1>1, <1>3, <2>1 DEF RegisterFile, RowKept
<1>4. CASE RemoveRow(p) \/ TrashDropRows(p)
  BY <1>4 DEF RemoveRow, TrashDropRows, RowKept, TypeInv, TypeOK
<1>5. CASE RejectRelabel(p)
  <2>1. /\ req[p].file.key \in StagedKeys
        /\ req[p].file.key.rejected < MaxRejections
    BY <1>5 DEF RejectRelabel, At, TypeInv, RequestFine
  <2>2. rejectedObjectKey(req[p].file.key) \in StagedKeys
    BY <2>1, PackReviewAssumption DEF rejectedObjectKey, StagedKeys
  <2>3. QED
    BY <1>5, <2>2 DEF RejectRelabel, RowKept, TypeInv, TypeOK
<1>6. QED
  BY <1>2, <1>3, <1>4, <1>5

\* Outside an approval a step that writes rows and is not a deletion leaves
\* the canonical ones alone: the submission it writes to has none.
LEMMA CalmRows ==
    ASSUME TypeInv, OwnKeys, PublicFine, NEW p \in Procs,
           \A q \in Procs : req[q].pc \notin Approving,
           OwnFiles(req[p]), NotApproved(p), Fresh(p),
           \/ UploadURLRegister(p) \/ RegisterFile(p) \/ RemoveRow(p)
           \/ RejectRelabel(p) \/ TrashDropRows(p),
           OwnKeys', NEW a \in Art, HoldsPublic(a) \/ HoldsPublic(a)'
    PROVE  RowKept(a)
<1>1. SUFFICES ASSUME ~RowKept(a) PROVE FALSE
  OBVIOUS
<1>2. Writes(p) /\ UNCHANGED status
  BY StepWrites DEF Step, UploadURLRegister, RegisterFile, RemoveRow, RejectRelabel,
                    TrashDropRows
<1>3. CASE HoldsPublic(a)
  <2>1. status[SubOf[a]] = "approved" /\ SubOf[a] \in Subs
    BY <1>3, PackReviewAssumption DEF PublicFine, PublicRows, Approves
  <2>2. ~Sets(p, "deleted") \/ SubOf[a] # req[p].sub
    BY <1>2, <2>1 DEF Sets, TypeInv, TypeOK
  <2>3. SubOf[a] = req[p].sub => req[p].pc \notin Editing \cup Publishing
    BY <2>1 DEF NotApproved, Fresh
  <2>4. QED
    BY <1>1, <1>2, <2>2, <2>3 DEF Writes, RowKept
<1>4. CASE HoldsPublic(a)'
  <2>1. rowKey'[a] \in PublicKeys /\ row'[a] = "live"
    BY <1>4 DEF HoldsPublic
  <2>2. rowKey'[a] \in StagedKeys
    BY <1>1, <2>1, WritesStaged DEF PublicFine
  <2>3. QED
    BY <2>1, <2>2, StagedNotPublic
<1>5. QED
  BY <1>3, <1>4

\* Outside an approval no step adds a canonical object, and RemoveObject and
\* PreserveRejectedFile remove none.
LEMMA CalmBucket ==
    ASSUME TypeInv, NEW p \in Procs, Step(p), ~PublishFile(p), NEW k \in PublicKeys
    PROVE  /\ bucket'[k] # None => bucket[k] # None
           /\ RemoveObject(p) \/ PreserveRejectedFile(p) => bucket'[k] = bucket[k]
<1>1. k \in Keys
  BY DEF Keys
<1>2. CASE RemoveObject(p)
  BY <1>1, <1>2, StagedNotPublic DEF RemoveObject, Without, isReviewObjectKey
<1>3. CASE PreserveRejectedFile(p)
  <2>1. PICK f \in req[p].todo :
           /\ At(p, "preserve")
           /\ f.key.rejected < MaxRejections
           /\ \/ UNCHANGED bucket
              \/ bucket' = [bucket EXCEPT ![rejectedObjectKey(f.key)] = bucket[f.key],
                                          ![f.key] = None]
    BY <1>3 DEF PreserveRejectedFile
  <2>2. f.key \in StagedKeys
    BY <2>1 DEF At, TypeInv, RequestFine
  <2>3. rejectedObjectKey(f.key) \in StagedKeys
    BY <2>1, <2>2, PackReviewAssumption DEF rejectedObjectKey, StagedKeys
  <2>4. k # f.key /\ k # rejectedObjectKey(f.key)
    BY <2>2, <2>3, StagedNotPublic
  <2>5. QED
    BY <1>1, <2>1, <2>4 DEF TypeInv, TypeOK
<1>4. CASE PublishUnstage(p) \/ TrashSweep(p) \/ DeleteObjects(p)
  BY <1>1, <1>4 DEF PublishUnstage, TrashSweep, DeleteObjects, Without, RemoveObject,
                    PreserveRejectedFile, At
<1>5. CASE ~(\/ RemoveObject(p) \/ PreserveRejectedFile(p) \/ PublishUnstage(p)
             \/ TrashSweep(p) \/ DeleteObjects(p))
  BY <1>5 DEF Step, UploadURLRegister, InsertSubmission, RegisterFile, RegisterDone,
              RemoveRow, ApproveList, PublishNothing, PublishMissing, PublishRelabel,
              ApproveSetStatus, AwardCheck, AwardXP, RejectList, RejectRelabel,
              RejectSetStatus, TrashKeep, TrashDropRows, TrashSubmission, DeleteList,
              DeleteRow, db
<1>6. QED
  BY <1>2, <1>3, <1>4, <1>5

\* A step of a request that is not approving.
LEMMA PublicOther ==
    ASSUME TypeInv, OwnKeys, OwnKeys', InsertInv, PublicFine, NEW p \in Procs, Step(p),
           \A q \in Procs : req[q].pc \notin Approving,
           OwnFiles(req[p]), NotApproved(p), Fresh(p), ~DeleteRow(p)
    PROVE  PublicRows' /\ PublicObjects'
<1>1. ~(\/ PublishNothing(p) \/ PublishMissing(p) \/ PublishFile(p) \/ PublishUnstage(p)
        \/ PublishRelabel(p) \/ ApproveSetStatus(p))
  BY DEF PublishNothing, PublishMissing, PublishFile, PublishUnstage, PublishRelabel,
         ApproveSetStatus, At, Approving
<1>2. \A a \in Art : HoldsPublic(a) \/ HoldsPublic(a)' => RowKept(a)
  <2>1. CASE \/ UploadURLRegister(p) \/ RegisterFile(p) \/ RemoveRow(p)
             \/ RejectRelabel(p) \/ TrashDropRows(p)
    BY <2>1, CalmRows
  <2>2. CASE ~(\/ UploadURLRegister(p) \/ RegisterFile(p) \/ RemoveRow(p)
               \/ RejectRelabel(p) \/ TrashDropRows(p))
    BY <1>1, <2>2
       DEF RowKept, Step, InsertSubmission, RegisterDone, RemoveObject, ApproveList,
           AwardCheck, AwardXP, RejectList, PreserveRejectedFile, RejectSetStatus, TrashKeep,
           TrashSweep, TrashSubmission, DeleteList, DeleteObjects, db
  <2>3. QED
    BY <2>1, <2>2
<1>3. \A k \in PublicKeys : bucket'[k] # None => bucket[k] # None
  BY <1>1, CalmBucket
<1>4. \A s \in Subs : status[s] = "approved" => status'[s] = "approved"
  <2>1. StatusChange(p) /\ Inserting(p)
    BY StepStatus DEF InsertInv
  <2>2. req[p].pc = "preserve" => status[req[p].sub] = "pending"
    BY DEF Fresh, Publishing
  <2>3. req[p].pc = "delete_row" => UNCHANGED status
    BY <1>1 DEF Step, At, UploadURLRegister, InsertSubmission, RegisterFile, RegisterDone,
           RemoveObject, RemoveRow, ApproveList, AwardCheck, AwardXP, RejectList,
           PreserveRejectedFile, RejectRelabel, RejectSetStatus, TrashKeep, TrashSweep,
           TrashDropRows, TrashSubmission, DeleteList, DeleteObjects
  <2>4. QED
    BY <2>1, <2>2, <2>3 DEF StatusChange, Inserting, Sets, Editable, Approving, TypeInv, TypeOK
<1>5. QED
  BY <1>2, <1>3, <1>4, CalmStep

\* The last step of a deletion: the objects of the rows it drops are gone.
LEMMA PublicDelete ==
    ASSUME TypeInv, PublicFine, NEW p \in Procs, DeleteRow(p),
           \A q \in Procs : req[q].pc \notin Approving
    PROVE  PublicRows' /\ PublicObjects'
<1> DEFINE s == req[p].sub
<1>1. /\ req[p].pc = "delete_row" /\ s \in Subs
      /\ status' = [status EXCEPT ![s] = "deleted"]
      /\ row' = [a \in Art |-> IF a \in Rows(s) THEN "dropped" ELSE row[a]]
      /\ UNCHANGED <<rowKey, bucket>>
  BY DEF DeleteRow, At, TypeInv, RequestFine
<1>2. ASSUME NEW a \in Art, row'[a] = "live" PROVE SubOf[a] # s /\ row[a] = "live"
  BY <1>1, <1>2 DEF Rows
<1>3. ASSUME NEW a \in Art, HoldsPublic(a)' PROVE status'[SubOf[a]] = "approved"
  <2>1. SubOf[a] # s /\ HoldsPublic(a) /\ SubOf[a] \in Subs
    BY <1>1, <1>2, <1>3, PackReviewAssumption DEF HoldsPublic
  <2>2. status[SubOf[a]] = "approved"
    BY <2>1 DEF PublicFine, PublicRows, Approves
  <2>3. QED
    BY <1>1, <2>1, <2>2 DEF TypeInv, TypeOK
<1>4. ASSUME NEW k \in PublicKeys, bucket'[k] # None
      PROVE  \E a \in Art : row'[a] = "live" /\ rowKey'[a] = k
  <2>1. PICK a \in Art : row[a] = "live" /\ rowKey[a] = k
    BY <1>1, <1>4 DEF PublicFine, PublicObjects, Relabelling, Approving
  <2>2. a \notin Rows(s)
    BY <1>1, <1>4, <2>1 DEF PublicFine, WorkFine, HoldsPublic
  <2>3. QED
    BY <1>1, <2>1, <2>2
<1>5. QED
  BY <1>3, <1>4 DEF PublicRows, PublicObjects

\* What a request that is not approving holds after a step.
LEMMA WorkOther ==
    ASSUME TypeInv, PublicFine, NEW p \in Procs, Step(p), req'[p].pc \notin Approving
    PROVE  WorkFine(p)'
<1> DEFINE old == req[p]
<1>1. Moves(p)
  BY StepMoves
<1>2. CASE req'[p].pc = "register"
  <2>1. PICK todo \in SUBSET old.todo : req'[p].todo = todo /\ old.pc \in {"insert", "register"}
    <3>1. CASE InsertSubmission(p)
      <4> DEFINE r == [old EXCEPT !.pc = "register"]
      <4>1. r.todo = old.todo
        BY DEF TypeInv, TypeOK, Request
      <4> HIDE DEF r
      <4>2. req'[p] = r /\ old.pc = "insert"
        BY <3>1, GoOthers DEF InsertSubmission, At, r
      <4> QED
        BY <4>1, <4>2
    <3>2. CASE RegisterFile(p)
      <4>1. PICK f \in old.todo : Go(p, [old EXCEPT !.todo = @ \ {f}]) /\ old.pc = "register"
        <5>1. ~Done(p)
          BY <1>2 DEF Done, Idle, TypeInv, TypeOK
        <5>2. QED
          BY <3>2, <5>1 DEF RegisterFile, At
      <4> DEFINE r == [old EXCEPT !.todo = @ \ {f}]
      <4>2. r.todo = old.todo \ {f}
        BY DEF TypeInv, TypeOK, Request
      <4> HIDE DEF r
      <4>3. req'[p] = r
        BY <4>1, GoOthers DEF r
      <4> QED
        BY <4>1, <4>2, <4>3
    <3>3. InsertSubmission(p) \/ RegisterFile(p)
      <4>1. old.pc \in {"insert", "register"} /\ ~Done(p)
        BY <1>1, <1>2 DEF Moves, Flow, Idle, Done, TypeInv, TypeOK
      <4>2. QED
        BY <4>1 DEF Step, At, UploadURLRegister, RegisterDone, RemoveObject, RemoveRow,
               ApproveList, PublishNothing, PublishMissing, PublishFile, PublishUnstage,
               PublishRelabel, ApproveSetStatus, AwardCheck, AwardXP, RejectList,
               PreserveRejectedFile, RejectRelabel, RejectSetStatus, TrashKeep, TrashSweep,
               TrashDropRows, TrashSubmission, DeleteList, DeleteObjects, DeleteRow
    <3>4. QED
      BY <3>1, <3>2, <3>3
  <2>2. \A f \in old.todo : f.key \in StagedKeys
    BY <2>1 DEF PublicFine, WorkFine
  <2>3. QED
    BY <1>2, <2>1, <2>2 DEF WorkFine, Relabelling, Approving
<1>3. CASE req'[p].pc = "delete_objects"
  <2>1. DeleteList(p)
    <3>1. old.pc = "delete_list" /\ ~Done(p)
      BY <1>1, <1>3 DEF Moves, Flow, Idle, Done, TypeInv, TypeOK
    <3>2. QED
      BY <3>1 DEF Step, At, UploadURLRegister, InsertSubmission, RegisterFile, RegisterDone,
             RemoveObject, RemoveRow, ApproveList, PublishNothing, PublishMissing,
             PublishFile, PublishUnstage, PublishRelabel, ApproveSetStatus, AwardCheck,
             AwardXP, RejectList, PreserveRejectedFile, RejectRelabel, RejectSetStatus,
             TrashKeep, TrashSweep, TrashDropRows, TrashSubmission, DeleteObjects, DeleteRow
  <2> DEFINE r == [old EXCEPT !.pc = "delete_objects", !.todo = ListFiles(old.sub)]
  <2>2. r.todo = ListFiles(old.sub) /\ r.sub = old.sub
    BY DEF TypeInv, TypeOK, Request
  <2> HIDE DEF r
  <2>3. req'[p] = r /\ UNCHANGED <<row, rowKey>>
    BY <2>1, GoOthers DEF DeleteList, db, r
  <2> QED
    BY <1>3, <2>2, <2>3 DEF WorkFine, Relabelling, Approving, ListFiles, Rows
<1>4. CASE req'[p].pc = "delete_row"
  <2>1. DeleteObjects(p) /\ old.pc = "delete_objects"
    <3>1. old.pc = "delete_objects" /\ ~Done(p)
      BY <1>1, <1>4 DEF Moves, Flow, Idle, Done, TypeInv, TypeOK
    <3>2. QED
      BY <3>1 DEF Step, At, UploadURLRegister, InsertSubmission, RegisterFile, RegisterDone,
             RemoveObject, RemoveRow, ApproveList, PublishNothing, PublishMissing,
             PublishFile, PublishUnstage, PublishRelabel, ApproveSetStatus, AwardCheck,
             AwardXP, RejectList, PreserveRejectedFile, RejectRelabel, RejectSetStatus,
             TrashKeep, TrashSweep, TrashDropRows, TrashSubmission, DeleteList, DeleteRow
  <2>2. req'[p].sub = old.sub /\ UNCHANGED <<row, rowKey>>
    BY <1>1, <1>4, <2>1 DEF Moves, Idle, DeleteObjects, db
  <2>3. ASSUME NEW a \in Rows(old.sub), HoldsPublic(a) PROVE bucket'[rowKey[a]] = None
    <3>1. [art |-> a, key |-> rowKey[a]] \in old.todo /\ a \in Art
      BY <2>1 DEF PublicFine, WorkFine, ListFiles, Rows
    <3>2. rowKey[a] \in {f.key : f \in old.todo} /\ rowKey[a] \in Keys
      BY <3>1 DEF TypeInv, TypeOK
    <3>3. QED
      BY <2>1, <3>2 DEF DeleteObjects, Without
  <2>4. QED
    BY <1>4, <2>2, <2>3 DEF WorkFine, Relabelling, Approving, HoldsPublic, Rows
<1>5. CASE req'[p].pc \notin {"register", "delete_objects", "delete_row"}
  <2>1. req'[p].pc \notin {"presign", "insert"}
    BY <1>1 DEF Moves, Flow, Idle
  <2>2. QED
    BY <1>5, <2>1 DEF WorkFine, Relabelling, Approving
<1>6. QED
  BY <1>2, <1>3, <1>4, <1>5

\* A step of an approval, cut into what it does to the rows, the objects and
\* the work list.
LEMMA ApprovingStep ==
    ASSUME PublicFine, NEW p \in Procs, \A q \in Procs \ {p} : req[q].pc = "idle",
           Others(p), UNCHANGED status,
           req[p].pc \in Approving \cup {"list_approve"},
           req'[p].pc \in Approving, req'[p].sub = req[p].sub,
           ASSUME NEW a \in Art, HoldsPublic(a)'
           PROVE  HoldsPublic(a) \/ SubOf[a] = req[p].sub,
           ASSUME NEW k \in PublicKeys, bucket'[k] # None
           PROVE  \/ \E a \in Art : row'[a] = "live" /\ rowKey'[a] = k
                  \/ req'[p].pc \in Relabelling /\ ObjectKey(req'[p].file.art) = k,
           WorkFine(p)'
    PROVE  PublicFine'
<1>1. PublicRows'
  <2>1. ASSUME NEW a \in Art, HoldsPublic(a)'
        PROVE  status'[SubOf[a]] = "approved" \/ Approves(p, SubOf[a])'
    <3>1. CASE SubOf[a] = req[p].sub
      BY <3>1 DEF Approves
    <3>2. CASE SubOf[a] # req[p].sub
      <4>1. HoldsPublic(a)
        BY <2>1, <3>2
      <4>2. status[SubOf[a]] = "approved"
        BY <3>2, <4>1 DEF PublicFine, PublicRows, Approves, Approving
      <4>3. QED
        BY <4>2
    <3>3. QED
      BY <3>1, <3>2
  <2>2. QED
    BY <2>1 DEF PublicRows
<1>2. PublicObjects'
  BY DEF PublicObjects, ObjectKey
<1>3. \A q \in Procs : WorkFine(q)'
  BY DEF Others, WorkFine, Approving, Relabelling
<1>4. QED
  BY <1>1, <1>2, <1>3 DEF PublicFine

\* Where a canonical object of the state before comes from.
LEMMA ObjectsBefore ==
    ASSUME PublicFine, NEW p \in Procs, \A q \in Procs \ {p} : req[q].pc = "idle",
           NEW k \in PublicKeys, bucket[k] # None
    PROVE  \/ \E a \in Art : row[a] = "live" /\ rowKey[a] = k
           \/ req[p].pc \in Relabelling /\ ObjectKey(req[p].file.art) = k
BY DEF PublicFine, PublicObjects, Relabelling

LEMMA PublicList ==
    ASSUME TypeInv, PublicFine, NEW p \in Procs, ApproveList(p),
           \A q \in Procs \ {p} : req[q].pc = "idle"
    PROVE  PublicFine'
<1> DEFINE r == [req[p] EXCEPT !.pc = "publish", !.todo = ListFiles(req[p].sub)]
<1>1. r.sub = req[p].sub /\ r.todo = ListFiles(req[p].sub) /\ r.pc = "publish"
  BY DEF TypeInv, TypeOK, Request
<1> HIDE DEF r
<1>2. /\ Others(p) /\ req'[p] = r /\ req[p].pc = "list_approve"
      /\ UNCHANGED <<status, row, rowKey, bucket>>
  BY GoOthers DEF ApproveList, At, db, r
<1>3. \A f \in ListFiles(req[p].sub) : row[f.art] = "live" /\ rowKey[f.art] = f.key
  <2>1. ASSUME NEW f \in ListFiles(req[p].sub) PROVE row[f.art] = "live" /\ rowKey[f.art] = f.key
    <3>1. PICK a \in Rows(req[p].sub) : f = [art |-> a, key |-> rowKey[a]]
      BY DEF ListFiles
    <3>2. QED
      BY <3>1 DEF Rows
  <2>2. QED
    BY <2>1
<1>4. WorkFine(p)'
  BY <1>1, <1>2, <1>3 DEF WorkFine, Relabelling, Current
<1>5. ASSUME NEW k \in PublicKeys, bucket'[k] # None
      PROVE  \E a \in Art : row'[a] = "live" /\ rowKey'[a] = k
  BY <1>2, <1>5, ObjectsBefore DEF Relabelling
<1>6. QED
  BY <1>1, <1>2, <1>4, <1>5, ApprovingStep DEF HoldsPublic, Approving

\* Two staged files of a list that are both current name two uploads.
LEMMA CurrentOnce ==
    ASSUME NEW f \in File, NEW g \in File, f.key \in StagedKeys, g.key \in StagedKeys,
           Current(f), Current(g), f.art = g.art
    PROVE  f = g
BY DEF Current, File

LEMMA PublicPassOver ==
    ASSUME TypeInv, OwnKeys, PublicFine, NEW p \in Procs,
           PublishNothing(p) \/ PublishMissing(p), UNCHANGED failures,
           \A q \in Procs \ {p} : req[q].pc = "idle"
    PROVE  PublicFine'
<1> DEFINE old == req[p]
<1>1. PICK f \in old.todo :
         /\ old.pc = "publish"
         /\ Go(p, [old EXCEPT !.todo = @ \ {f}])
         /\ UNCHANGED <<status, rowKey, bucket>>
         /\ \/ UNCHANGED row
            \/ f.key # ObjectKey(f.art) /\ row' = [row EXCEPT ![f.art] = "dropped"]
  BY DEF PublishNothing, PublishMissing, At, db
<1> DEFINE r == [old EXCEPT !.todo = @ \ {f}]
<1>2. r.sub = old.sub /\ r.todo = old.todo \ {f} /\ r.pc = "publish"
  BY <1>1 DEF TypeInv, TypeOK, Request
<1> HIDE DEF r
<1>3. Others(p) /\ req'[p] = r
  BY <1>1, GoOthers DEF r
<1>4. old.todo \subseteq File /\ \A g \in old.todo : Current(g) /\ OwnKey(g)
  BY <1>1 DEF TypeInv, TypeOK, Request, PublicFine, WorkFine, Approving, OwnKeys, OwnRequest
<1>5. \A a \in Art : row'[a] = row[a] \/ (a = f.art /\ row'[a] = "dropped" /\ f.key \in StagedKeys)
  BY <1>1, <1>4 DEF OwnKey, TypeInv, TypeOK
<1>6. WorkFine(p)'
  <2>1. ASSUME NEW g \in old.todo \ {f}, g.key \in StagedKeys
        PROVE  row'[g.art] = "live" /\ rowKey'[g.art] = g.key
    <3>1. row[g.art] = "live" /\ rowKey[g.art] = g.key /\ g.art \in Art
      BY <1>4, <2>1 DEF Current, File
    <3>2. f.key \in StagedKeys => g.art # f.art
      BY <1>4, <2>1, CurrentOnce
    <3>3. QED
      BY <1>1, <1>5, <3>1, <3>2
  <2>2. QED
    BY <1>2, <1>3, <2>1 DEF WorkFine, Relabelling, Current
<1>7. ASSUME NEW k \in PublicKeys, bucket'[k] # None
      PROVE  \E a \in Art : row'[a] = "live" /\ rowKey'[a] = k
  <2>1. PICK a \in Art : row[a] = "live" /\ rowKey[a] = k
    BY <1>1, <1>7, ObjectsBefore DEF Relabelling
  <2>2. row'[a] = row[a]
    <3>1. a = f.art => f.key \notin StagedKeys
      BY <1>4, <2>1, StagedNotPublic DEF Current
    <3>2. QED
      BY <1>5, <3>1
  <2>3. QED
    BY <1>1, <2>1, <2>2
<1>8. ASSUME NEW a \in Art, HoldsPublic(a)' PROVE HoldsPublic(a)
  BY <1>1, <1>5, <1>8 DEF HoldsPublic
<1>9. QED
  BY <1>1, <1>2, <1>3, <1>6, <1>7, <1>8, ApprovingStep DEF Approving

LEMMA PublicPublish ==
    ASSUME TypeInv, OwnKeys, PublicFine, NEW p \in Procs, PublishFile(p),
           \A q \in Procs \ {p} : req[q].pc = "idle"
    PROVE  PublicFine'
<1> DEFINE old == req[p]
<1>1. PICK f \in old.todo :
         /\ old.pc = "publish"
         /\ f.key # ObjectKey(f.art)
         /\ bucket[f.key] # None
         /\ bucket' = [bucket EXCEPT ![ObjectKey(f.art)] = bucket[f.key]]
         /\ Go(p, [old EXCEPT !.pc = "unstage", !.file = f, !.todo = @ \ {f}])
         /\ UNCHANGED <<status, row, rowKey>>
  BY DEF PublishFile, At, db
<1> DEFINE r == [old EXCEPT !.pc = "unstage", !.file = f, !.todo = @ \ {f}]
<1>2. r.sub = old.sub /\ r.todo = old.todo \ {f} /\ r.pc = "unstage" /\ r.file = f
  BY <1>1 DEF TypeInv, TypeOK, Request
<1> HIDE DEF r
<1>3. Others(p) /\ req'[p] = r
  BY <1>1, GoOthers DEF r
<1>4. /\ \A g \in old.todo : Current(g)
      /\ f.key \in StagedKeys /\ f.art \in Art /\ ObjectKey(f.art) \in Keys
  BY <1>1, ObjectKeyType
     DEF TypeInv, TypeOK, Request, File, PublicFine, WorkFine, Approving, OwnKeys, OwnRequest,
         OwnKey
<1>5. bucket'[ObjectKey(f.art)] # None
  BY <1>1, <1>4 DEF TypeInv, TypeOK
<1>6. WorkFine(p)'
  BY <1>1, <1>2, <1>3, <1>4, <1>5 DEF WorkFine, Relabelling, Approving, Current, ObjectKey
<1>7. ASSUME NEW k \in PublicKeys, bucket'[k] # None
      PROVE  \/ \E a \in Art : row'[a] = "live" /\ rowKey'[a] = k
             \/ ObjectKey(f.art) = k
  <2>1. CASE ObjectKey(f.art) # k
    <3>1. bucket[k] # None
      BY <1>1, <1>7, <2>1 DEF TypeInv, TypeOK
    <3>2. QED
      BY <1>1, <3>1, ObjectsBefore DEF Relabelling
  <2>2. QED
    BY <2>1
<1>8. QED
  BY <1>1, <1>2, <1>3, <1>6, <1>7, ApprovingStep DEF HoldsPublic, Approving, Relabelling

\* The canonical keys of a slot are a key and its sibling.
LEMMA SiblingPair ==
    ASSUME NEW k \in PublicKeys
    PROVE  /\ SiblingKey(k) \in PublicKeys
           /\ SiblingKey(k) # k
           /\ SiblingKey(k).pack = k.pack /\ SiblingKey(k).slot = k.slot
           /\ \A j \in PublicKeys : j.pack = k.pack /\ j.slot = k.slot => j \in {k, SiblingKey(k)}
<1> DEFINE e == CHOOSE x \in Exts : x # k.ext
<1>1. k.ext \in Exts /\ k = [pack |-> k.pack, slot |-> k.slot, ext |-> k.ext]
  BY DEF PublicKeys
<1>2. \E x \in Exts : x # k.ext
  BY <1>1 DEF Exts
<1>3. e \in Exts /\ e # k.ext
  BY <1>2
<1>4. \A x \in Exts : x \in {k.ext, e}
  BY <1>1, <1>3 DEF Exts
<1>5. SiblingKey(k) = [k EXCEPT !.ext = e]
  BY DEF SiblingKey
<1> HIDE DEF e
<1>6. QED
  BY <1>1, <1>3, <1>4, <1>5 DEF PublicKeys

LEMMA PublicUnstage ==
    ASSUME TypeInv, PublicFine, NEW p \in Procs, PublishUnstage(p),
           \A q \in Procs \ {p} : req[q].pc = "idle"
    PROVE  PublicFine'
<1> DEFINE old == req[p]
           f == req[p].file
           r == [old EXCEPT !.pc = "relabel"]
<1>1. r.sub = old.sub /\ r.todo = old.todo /\ r.pc = "relabel" /\ r.file = f
  BY DEF TypeInv, TypeOK, Request
<1> HIDE DEF r
<1>2. /\ Others(p) /\ req'[p] = r /\ old.pc = "unstage"
      /\ UNCHANGED <<status, row, rowKey>>
  BY GoOthers DEF PublishUnstage, At, db, r
<1>3. /\ f.art \in Art
      /\ f.key \in StagedKeys /\ Current(f) /\ f \notin old.todo
      /\ bucket[ObjectKey(f.art)] # None
      /\ \A g \in old.todo : Current(g)
  BY <1>2 DEF TypeInv, RequestFine, FilePCs, File, PublicFine, WorkFine, Relabelling, Approving
<1> PICK gone \in {{f.key}, {f.key, SiblingKey(ObjectKey(f.art))}} : bucket' = Without(gone)
  BY DEF PublishUnstage
<1>4. bucket'[ObjectKey(f.art)] # None
  <2>1. ObjectKey(f.art) \notin gone
    BY <1>3, ObjectKeyType, SiblingPair, StagedNotPublic
  <2>2. QED
    BY <1>3, <2>1, ObjectKeyType DEF Without
<1>5. WorkFine(p)'
  BY <1>1, <1>2, <1>3, <1>4 DEF WorkFine, Relabelling, Approving, Current, ObjectKey
<1>6. ASSUME NEW k \in PublicKeys, bucket'[k] # None
      PROVE  (\E a \in Art : row'[a] = "live" /\ rowKey'[a] = k) \/ ObjectKey(f.art) = k
  <2>1. bucket[k] # None
    BY <1>6 DEF Without, Keys
  <2>2. QED
    BY <1>2, <2>1, ObjectsBefore
<1>7. ASSUME NEW a \in Art, HoldsPublic(a)' PROVE HoldsPublic(a)
  BY <1>2, <1>7 DEF HoldsPublic
<1>8. /\ old.pc \in Approving /\ req'[p].pc \in Approving /\ req'[p].pc \in Relabelling
      /\ req'[p].sub = old.sub /\ req'[p].file = f
  BY <1>1, <1>2 DEF Approving, Relabelling
<1>9. ASSUME NEW k \in PublicKeys, bucket'[k] # None
      PROVE  \/ \E a \in Art : row'[a] = "live" /\ rowKey'[a] = k
             \/ req'[p].pc \in Relabelling /\ ObjectKey(req'[p].file.art) = k
  BY <1>6, <1>8, <1>9
<1>10. QED
  BY <1>2, <1>5, <1>7, <1>8, <1>9, ApprovingStep

LEMMA PublicRelabel ==
    ASSUME TypeInv, PublicFine, NEW p \in Procs, OwnFiles(req[p]), PublishRelabel(p),
           \A q \in Procs \ {p} : req[q].pc = "idle"
    PROVE  PublicFine'
<1> DEFINE old == req[p]
           f == req[p].file
           key == ObjectKey(f.art)
           r == [old EXCEPT !.pc = "publish", !.file = None]
<1>1. r.sub = old.sub /\ r.todo = old.todo /\ r.pc = "publish"
  BY DEF TypeInv, TypeOK, Request
<1> HIDE DEF r
<1>2. /\ Others(p) /\ req'[p] = r /\ old.pc = "relabel"
      /\ UNCHANGED <<status, bucket>>
  BY GoOthers DEF PublishRelabel, At, r
<1>3. /\ f \in File /\ f.art \in Art /\ SubOf[f.art] = old.sub
      /\ f.key \in StagedKeys /\ row[f.art] = "live" /\ rowKey[f.art] = f.key
      /\ f \notin old.todo
      /\ old.todo \subseteq File
      /\ \A g \in old.todo : Current(g)
  BY <1>2 DEF TypeInv, TypeOK, Request, RequestFine, FilePCs, File, PublicFine, WorkFine,
              Relabelling, Approving, Current, OwnFiles
<1>4. key \in PublicKeys /\ key # f.key
  BY <1>3, ObjectKeyType, StagedNotPublic
<1>5. row'[f.art] = "live" /\ rowKey'[f.art] = key
  BY <1>3 DEF PublishRelabel, TypeInv, TypeOK
<1>6. ASSUME NEW a \in Art, a # f.art
      PROVE  /\ rowKey'[a] = rowKey[a]
             /\ row'[a] = "live" => row[a] = "live"
             /\ rowKey[a] # key => row'[a] = row[a]
  BY <1>3, <1>6 DEF PublishRelabel, TypeInv, TypeOK
<1>7. WorkFine(p)'
  <2>1. ASSUME NEW g \in old.todo, g.key \in StagedKeys
        PROVE  row'[g.art] = "live" /\ rowKey'[g.art] = g.key
    <3>1. row[g.art] = "live" /\ rowKey[g.art] = g.key /\ g.art \in Art
      BY <1>3, <2>1 DEF Current, File
    <3>2. g.art # f.art
      BY <1>3, <2>1, <3>1, CurrentOnce DEF Current
    <3>3. g.key # key
      BY <1>4, <2>1, StagedNotPublic
    <3>4. QED
      BY <1>6, <3>1, <3>2, <3>3
  <2>2. QED
    BY <1>1, <1>2, <2>1 DEF WorkFine, Relabelling, Current
<1>8. ASSUME NEW k \in PublicKeys, bucket'[k] # None
      PROVE  \E a \in Art : row'[a] = "live" /\ rowKey'[a] = k
  <2>1. CASE k = key
    BY <1>3, <1>5, <2>1
  <2>2. CASE k # key
    <3>1. PICK a \in Art : row[a] = "live" /\ rowKey[a] = k
      BY <1>2, <1>8, <2>2, ObjectsBefore
    <3>2. a # f.art
      BY <1>3, <3>1, StagedNotPublic
    <3>3. QED
      BY <1>6, <2>2, <3>1, <3>2
  <2>3. QED
    BY <2>1, <2>2
<1>9. ASSUME NEW a \in Art, HoldsPublic(a)' PROVE HoldsPublic(a) \/ SubOf[a] = old.sub
  BY <1>3, <1>6, <1>9 DEF HoldsPublic
<1>10. QED
  BY <1>1, <1>2, <1>7, <1>8, <1>9, ApprovingStep DEF Approving

\* The last step of an approval: what it published belongs to an approved
\* submission now.
LEMMA PublicApproved ==
    ASSUME TypeInv, PublicFine, NEW p \in Procs, ApproveSetStatus(p), Fresh(p),
           \A q \in Procs \ {p} : req[q].pc = "idle"
    PROVE  PublicRows' /\ PublicObjects'
<1> DEFINE s == req[p].sub
<1>1. /\ req[p].pc = "publish" /\ s \in Subs
      /\ UNCHANGED <<row, rowKey, bucket>>
  BY DEF ApproveSetStatus, At, TypeInv, RequestFine
<1>2. status' = [status EXCEPT ![s] = "approved"]
  BY <1>1 DEF ApproveSetStatus, SetSubmissionStatus, Exists, Fresh, Publishing
<1>3. ASSUME NEW a \in Art, HoldsPublic(a)' PROVE status'[SubOf[a]] = "approved"
  <2>1. HoldsPublic(a) /\ SubOf[a] \in Subs
    BY <1>1, <1>3, PackReviewAssumption DEF HoldsPublic
  <2>2. status[SubOf[a]] = "approved" \/ SubOf[a] = s
    BY <2>1 DEF PublicFine, PublicRows, Approves, Approving
  <2>3. QED
    BY <1>1, <1>2, <2>1, <2>2 DEF TypeInv, TypeOK
<1>4. ASSUME NEW k \in PublicKeys, bucket'[k] # None
      PROVE  \E a \in Art : row'[a] = "live" /\ rowKey'[a] = k
  BY <1>1, <1>4, ObjectsBefore DEF Relabelling
<1>5. QED
  BY <1>3, <1>4 DEF PublicRows, PublicObjects

\* Nothing was cut short after a step: the step was no failure either.
LEMMA NoFailure ==
    ASSUME TypeInv, [Next]_vars, failures' = 0
    PROVE  UNCHANGED failures
<1>1. failures \in Nat
  BY PackReviewAssumption DEF TypeInv, TypeOK
<1>2. CASE Browser \/ (\E s \in Subs : SubmitForReview(s)) \/ UNCHANGED vars
  BY <1>2 DEF Browser, PresignedUpload, BrowserUpload, SubmitForReview, vars
<1>3. ASSUME NEW p \in Procs, Start(p) PROVE UNCHANGED failures
  BY <1>3 DEF Start, GetUploadURL, RemoveSubmissionFile, CreateSubmission,
              AddSubmissionFiles, Approve, Reject, Trash, DeleteSubmission
<1>4. ASSUME NEW p \in Procs, Step(p) PROVE UNCHANGED failures \/ failures' = failures + 1
  <2>1. CASE PublishMissing(p)
    BY <2>1 DEF PublishMissing, MistakenForMissing
  <2>2. CASE ~PublishMissing(p)
    BY <1>4, <2>2
       DEF Step, UploadURLRegister, InsertSubmission, RegisterFile, RegisterDone,
           RemoveObject, RemoveRow, ApproveList, PublishNothing, PublishFile, PublishUnstage,
           PublishRelabel, ApproveSetStatus, AwardCheck, AwardXP, RejectList,
           PreserveRejectedFile, RejectRelabel, RejectSetStatus, TrashKeep, TrashSweep,
           TrashDropRows, TrashSubmission, DeleteList, DeleteObjects, DeleteRow
  <2>3. QED
    BY <2>1, <2>2
<1>5. ASSUME NEW p \in Procs, Abort(p) PROVE failures' = failures + 1
  BY <1>5 DEF Abort
<1>6. QED
  BY <1>1, <1>2, <1>3, <1>4, <1>5 DEF Next

LEMMA PublicRequestStep ==
    ASSUME TypeInv, OwnKeys, OwnKeys', InsertInv, SerialInv, ListingInv, PublicFine,
           NEW p \in Procs, Step(p), UNCHANGED failures
    PROVE  PublicFine'
<1>1. /\ Others(p) /\ Moves(p) /\ req[p].pc # "idle"
      /\ OwnFiles(req[p]) /\ NotApproved(p) /\ Fresh(p)
  BY StepMoves, StepBusy DEF ListingInv, SerialInv
<1>2. \A q \in Procs \ {p} : req[q].pc = "idle"
  BY <1>1 DEF SerialInv, Alone
<1>3. CASE \/ ApproveList(p) \/ PublishNothing(p) \/ PublishMissing(p) \/ PublishFile(p)
           \/ PublishUnstage(p) \/ PublishRelabel(p)
  BY <1>1, <1>2, <1>3, PublicList, PublicPassOver, PublicPublish, PublicUnstage, PublicRelabel
<1>4. CASE ~(\/ ApproveList(p) \/ PublishNothing(p) \/ PublishMissing(p) \/ PublishFile(p)
             \/ PublishUnstage(p) \/ PublishRelabel(p))
  <2>1. PublicRows' /\ PublicObjects' /\ req'[p].pc \notin Approving
    <3>1. CASE ApproveSetStatus(p)
      <4>1. req'[p] \in {Idle, [req[p] EXCEPT !.pc = "award"]}
        BY <3>1, GoOthers DEF ApproveSetStatus, Done, Go
      <4>2. req'[p].pc \notin Approving
        BY <4>1 DEF Idle, Approving, TypeInv, TypeOK, Request
      <4>3. QED
        BY <1>1, <1>2, <3>1, <4>2, PublicApproved
    <3>2. CASE ~ApproveSetStatus(p)
      <4>1. req[p].pc \notin Approving \cup {"list_approve"}
        BY <1>4, <3>2
           DEF Approving, Step, At, UploadURLRegister, InsertSubmission, RegisterFile,
               RegisterDone, RemoveObject, RemoveRow, AwardCheck, AwardXP, RejectList,
               PreserveRejectedFile, RejectRelabel, RejectSetStatus, TrashKeep, TrashSweep,
               TrashDropRows, TrashSubmission, DeleteList, DeleteObjects, DeleteRow
      <4>2. req'[p].pc \notin Approving
        BY <1>1, <4>1 DEF Moves, Flow, Idle, Approving
      <4>3. \A q \in Procs : req[q].pc \notin Approving
        BY <1>2, <4>1 DEF Approving
      <4>4. PublicRows' /\ PublicObjects'
        BY <1>1, <4>3, PublicOther, PublicDelete
      <4>5. QED
        BY <4>2, <4>4
    <3>3. QED
      BY <3>1, <3>2
  <2>2. \A q \in Procs : WorkFine(q)'
    <3>1. WorkFine(p)'
      BY <2>1, WorkOther
    <3>2. ASSUME NEW q \in Procs \ {p} PROVE req'[q].pc = "idle"
      BY <1>1, <1>2 DEF Others
    <3>3. QED
      BY <3>1, <3>2 DEF WorkFine, Approving, Relabelling
  <2>3. QED
    BY <2>1, <2>2 DEF PublicFine
<1>5. QED
  BY <1>3, <1>4

LEMMA PublicStart ==
    ASSUME Serial, TypeInv, PublicFine, NEW p \in Procs, Start(p)
    PROVE  PublicFine'
<1>1. Others(p) /\ Started(p)
  BY StartMoves
<1>2. Quiet /\ UNCHANGED <<status, row, rowKey, bucket>>
  BY DEF Start, GetUploadURL, RemoveSubmissionFile, CreateSubmission, AddSubmissionFiles,
         Approve, Reject, Trash, DeleteSubmission, Enter, db
<1>3. PublicRows' /\ PublicObjects'
  <2>1. \A q \in Procs : req[q].pc \notin Approving
    BY <1>2 DEF Quiet, Approving
  <2>2. QED
    BY <1>2, <2>1, CalmStep DEF RowKept
<1>4. req'[p].pc = "presign" => req'[p].file.key \in StagedKeys
  <2>1. SUFFICES ASSUME req'[p].pc = "presign" PROVE req'[p].file.key \in StagedKeys
    OBVIOUS
  <2>2. PICK a \in Art : GetUploadURL(p, a)
    BY <2>1, OnlyPresigns
  <2>3. req'[p] = [Idle EXCEPT !.pc = "presign", !.sub = SubOf[a],
                               !.file = [art |-> a, key |-> reviewObjectKey(a)]]
    BY <2>2, GoOthers DEF GetUploadURL
  <2>4. QED
    BY <2>3, ReviewKeyType DEF Idle
<1>5. req'[p].pc \in {"insert", "register"} => \A f \in req'[p].todo : f.key \in StagedKeys
  <2>1. SUFFICES ASSUME req'[p].pc \in {"insert", "register"}, NEW f \in req'[p].todo
                 PROVE  f.key \in StagedKeys
    OBVIOUS
  <2>2. PICK s \in Subs : CreateSubmission(p, s) \/ AddSubmissionFiles(p, s)
    <3>1. ASSUME NEW a \in Art, GetUploadURL(p, a) \/ RemoveSubmissionFile(p, a) PROVE FALSE
      BY <2>1, <3>1 DEF GetUploadURL, RemoveSubmissionFile, Go, Idle, TypeInv, TypeOK
    <3>2. ASSUME NEW s \in Subs,
                 Approve(p, s) \/ Reject(p, s) \/ Trash(p, s) \/ DeleteSubmission(p, s)
          PROVE  FALSE
      BY <2>1, <3>2 DEF Approve, Reject, Trash, DeleteSubmission, Begin, Go, Idle, TypeInv, TypeOK
    <3>3. QED
      BY <3>1, <3>2 DEF Start
  <2>3. PICK pc \in {"insert", "register"}, as \in SUBSET Uploaded(s) :
           Go(p, [Idle EXCEPT !.pc = pc, !.sub = s, !.todo = Inputs(as)])
    BY <2>2 DEF CreateSubmission, AddSubmissionFiles
  <2> DEFINE r == [Idle EXCEPT !.pc = pc, !.sub = s, !.todo = Inputs(as)]
  <2>4. req'[p].todo = Inputs(as)
    <3>1. r.todo = Inputs(as)
      BY DEF Idle
    <3> HIDE DEF r
    <3>2. req'[p] = r
      BY <2>3, GoOthers DEF r
    <3> QED
      BY <3>1, <3>2
  <2>5. PICK a \in as : f = [art |-> a, key |-> reviewObjectKey(a)]
    BY <2>1, <2>4 DEF Inputs
  <2>6. QED
    BY <2>5, ReviewKeyType DEF Uploaded
<1>6. WorkFine(p)'
  BY <1>1, <1>4, <1>5 DEF Started, WorkFine, Approving, Relabelling
<1>7. \A q \in Procs \ {p} : WorkFine(q)'
  BY <1>1, <1>2 DEF Others, Quiet, WorkFine, Approving, Relabelling
<1>8. QED
  BY <1>3, <1>6, <1>7 DEF PublicFine

LEMMA PublicBrowser ==
    ASSUME TypeInv, PublicFine, Browser
    PROVE  PublicFine'
<1>1. PICK b \in Art : bucket' = [bucket EXCEPT ![reviewObjectKey(b)] = b]
  BY DEF Browser, PresignedUpload, BrowserUpload
<1>2. UNCHANGED <<status, row, rowKey, req>>
  BY DEF Browser, PresignedUpload, BrowserUpload, db
<1>3. \A k \in PublicKeys : bucket'[k] = bucket[k]
  BY <1>1, ReviewKeyType, StagedNotPublic DEF TypeInv, TypeOK, Keys
<1>4. PublicRows' /\ PublicObjects'
  BY <1>2, <1>3 DEF PublicFine, PublicRows, PublicObjects, HoldsPublic, Approves, ObjectKey
<1>5. ASSUME NEW p \in Procs PROVE WorkFine(p)'
  <2>1. WorkFine(p)
    BY DEF PublicFine
  <2>2. req[p].pc \in Relabelling => ObjectKey(req[p].file.art) \in PublicKeys
    BY ObjectKeyType DEF TypeInv, RequestFine, FilePCs, File, Relabelling
  <2>3. QED
    BY <1>2, <1>3, <2>1, <2>2 DEF WorkFine, Current, HoldsPublic, ListFiles, Rows, ObjectKey
<1>6. QED
  BY <1>4, <1>5 DEF PublicFine

LEMMA PublicInvStep ==
    ASSUME Serial, TypeInv, OwnKeys, OwnKeys', InsertInv, SerialInv, ListingInv, PublicInv,
           [Next]_vars
    PROVE  PublicInv'
<1>1. SUFFICES ASSUME failures' = 0 PROVE PublicFine'
  BY DEF PublicInv
<1>2. UNCHANGED failures /\ PublicFine
  BY <1>1, NoFailure DEF PublicInv
<1>3. CASE UNCHANGED vars
  BY <1>2, <1>3
     DEF vars, db, PublicFine, PublicRows, PublicObjects, WorkFine, HoldsPublic, Approves,
         Current, ListFiles, Rows, ObjectKey
<1>4. CASE Browser
  BY <1>2, <1>4, PublicBrowser
<1>5. ASSUME NEW s \in Subs, SubmitForReview(s) PROVE PublicFine'
  <2>1. /\ Quiet /\ UNCHANGED <<row, rowKey, bucket, req>>
        /\ \A t \in Subs : status[t] = "approved" => status'[t] = "approved"
    BY <1>5 DEF SubmitForReview, Editable, TypeInv, TypeOK
  <2>2. PublicRows' /\ PublicObjects'
    <3>1. \A q \in Procs : req[q].pc \notin Approving
      BY <2>1 DEF Quiet, Approving
    <3>2. QED
      BY <1>2, <2>1, <3>1, CalmStep DEF RowKept
  <2>3. \A q \in Procs : WorkFine(q)'
    BY <2>1 DEF Quiet, WorkFine, Approving, Relabelling
  <2>4. QED
    BY <2>2, <2>3 DEF PublicFine
<1>6. ASSUME NEW p \in Procs, Start(p) \/ Step(p) PROVE PublicFine'
  BY <1>2, <1>6, PublicStart, PublicRequestStep
<1>7. ASSUME NEW p \in Procs, Abort(p) PROVE FALSE
  BY <1>2, <1>7, PackReviewAssumption DEF Abort, TypeInv, TypeOK
<1>8. QED
  BY <1>3, <1>4, <1>5, <1>6, <1>7 DEF Next

LEMMA PublicInvHolds ==
    ASSUME Serial
    PROVE  Spec => []PublicInv
<1>1. Init => PublicInv
  BY ReviewKeyType, StagedNotPublic
     DEF Init, Idle, PublicInv, PublicFine, PublicRows, PublicObjects, WorkFine, HoldsPublic,
         Approving, Relabelling, Keys
<1>2. /\ TypeInv /\ OwnKeys /\ OwnKeys' /\ InsertInv /\ SerialInv /\ ListingInv
      /\ PublicInv /\ [Next]_vars
      => PublicInv'
  BY PublicInvStep
<1>3. QED
  BY <1>1, <1>2, TypeInvHolds, OwnKeysHold, InsertInvHolds, SerialInvHolds, ListingInvHolds,
     PTL DEF Spec

-----------------------------------------------------------------------------
(***************************************************************************)
(* What unpublishes a slot.                                                *)
(***************************************************************************)

\* Both formats of the slot an upload is for.
LEMMA SlotKeys ==
    ASSUME NEW a \in Art
    PROVE  /\ {ObjectKey(a), SiblingKey(ObjectKey(a))} \subseteq PublicKeys
           /\ \A k \in PublicKeys :
                 k.pack = ObjectKey(a).pack /\ k.slot = ObjectKey(a).slot
                 <=> k \in {ObjectKey(a), SiblingKey(ObjectKey(a))}
BY ObjectKeyType, SiblingPair

\* A publication that removes a format of a slot has just written the other.
LEMMA UnstageReachable ==
    ASSUME TypeInv, PublicFine, NEW p \in Procs, PublishUnstage(p), NEW a \in Art, Reachable(a)
    PROVE  Reachable(a)'
<1> DEFINE f == req[p].file
           new == ObjectKey(f.art)
<1>1. /\ f.art \in Art /\ f.key \in StagedKeys
      /\ bucket[new] # None
  BY DEF PublishUnstage, At, TypeInv, RequestFine, FilePCs, File, PublicFine, WorkFine,
         Relabelling
<1> PICK gone \in {{f.key}, {f.key, SiblingKey(new)}} : bucket' = Without(gone)
  BY DEF PublishUnstage
<1>2. /\ new \in PublicKeys /\ SiblingKey(new) \in PublicKeys /\ new # SiblingKey(new)
      /\ SiblingKey(new).pack = new.pack /\ SiblingKey(new).slot = new.slot
  BY <1>1, ObjectKeyType, SiblingPair
<1>3. PICK k \in {ObjectKey(a), SiblingKey(ObjectKey(a))} : bucket[k] # None
  BY DEF Reachable
<1>4. k \in PublicKeys /\ PublicKeys \subseteq Keys /\ f.key \notin PublicKeys
  BY <1>1, SlotKeys, StagedNotPublic DEF Keys
<1>5. CASE k # SiblingKey(new)
  <2>1. bucket'[k] # None
    BY <1>3, <1>4, <1>5 DEF Without
  <2>2. QED
    BY <2>1 DEF Reachable, ObjectKey, SiblingKey
<1>6. CASE k = SiblingKey(new)
  <2>1. new \in {ObjectKey(a), SiblingKey(ObjectKey(a))}
    BY <1>2, <1>4, <1>6, SlotKeys
  <2>2. bucket'[new] # None
    BY <1>1, <1>2, <1>4 DEF Without
  <2>3. QED
    BY <2>1, <2>2 DEF Reachable, ObjectKey, SiblingKey
<1>7. QED
  BY <1>5, <1>6

\* A sweep keeps every canonical object: each is in a row of an approved
\* submission, and a sweep is never about one of those.
LEMMA SweepKeepsPublic ==
    ASSUME TypeInv, OwnKeys, SerialInv, ListingInv, KeepInv, PublicFine,
           NEW p \in Procs, TrashSweep(p), NEW k \in PublicKeys, bucket[k] # None
    PROVE  bucket'[k] # None
<1>1. req[p].pc = "sweep" /\ \A q \in Procs : req[q].pc \notin Approving
  BY DEF TrashSweep, At, SerialInv, Alone, Approving
<1>2. PICK b \in Art : row[b] = "live" /\ rowKey[b] = k
  BY <1>1 DEF PublicFine, PublicObjects, Relabelling, Approving
<1>3. status[SubOf[b]] = "approved"
  BY <1>1, <1>2 DEF PublicFine, PublicRows, HoldsPublic, Approves
<1>4. SubOf[b] # req[p].sub
  BY <1>1, <1>3 DEF ListingInv, NotApproved, Editing
<1>5. k \notin PackPrefix(PackOf[req[p].sub]) \ req[p].keep
  <2>1. OwnKey([art |-> b, key |-> k])
    BY <1>2 DEF OwnKeys, OwnRows
  <2>2. CASE PackOf[SubOf[b]] = PackOf[req[p].sub]
    <3>1. k \in ListLivePackObjectKeys(req[p].sub)
      BY <1>2, <1>3, <1>4, <2>2 DEF ListLivePackObjectKeys, SamePack, LiveStatuses
    <3>2. QED
      BY <1>1, <3>1 DEF KeepInv, Keeping
  <2>3. CASE PackOf[SubOf[b]] # PackOf[req[p].sub]
    BY <2>1, <2>3, PrefixOwn
  <2>4. QED
    BY <2>2, <2>3
<1>6. QED
  BY <1>5 DEF TrashSweep, Without, Keys

LEMMA UnpublishStep ==
    ASSUME TypeInv, OwnKeys, SerialInv, ListingInv, KeepInv, PublicInv, [Next]_vars,
           failures' = 0, NEW a \in Art, Reachable(a),
           \A p \in Procs : ~At(p, "delete_objects")
    PROVE  Reachable(a)'
<1>1. PublicFine
  BY NoFailure DEF PublicInv
<1>2. PICK k \in {ObjectKey(a), SiblingKey(ObjectKey(a))} : bucket[k] # None
  BY DEF Reachable
<1>3. k \in PublicKeys /\ k \in Keys
  BY SlotKeys DEF Keys
<1>4. SUFFICES ASSUME \A p \in Procs : ~PublishUnstage(p) PROVE bucket'[k] # None
  BY <1>1, <1>2, UnstageReachable DEF Reachable, ObjectKey, SiblingKey
<1>5. CASE Browser
  <2>1. PICK b \in Art : bucket' = [bucket EXCEPT ![reviewObjectKey(b)] = b]
    BY <1>5 DEF Browser, PresignedUpload, BrowserUpload
  <2>2. k # reviewObjectKey(b)
    BY <1>3, ReviewKeyType, StagedNotPublic
  <2>3. QED
    BY <1>2, <1>3, <2>1, <2>2 DEF TypeInv, TypeOK
<1>6. CASE (\E s \in Subs : SubmitForReview(s)) \/ UNCHANGED vars
  BY <1>2, <1>6 DEF SubmitForReview, vars
<1>7. ASSUME NEW p \in Procs, Start(p) \/ Abort(p) PROVE bucket'[k] # None
  BY <1>2, <1>7 DEF Start, GetUploadURL, RemoveSubmissionFile, CreateSubmission,
                    AddSubmissionFiles, Approve, Reject, Trash, DeleteSubmission, Abort
<1>8. ASSUME NEW p \in Procs, Step(p) PROVE bucket'[k] # None
  <2>1. CASE TrashSweep(p)
    BY <1>1, <1>2, <1>3, <2>1, SweepKeepsPublic
  <2>2. CASE RemoveObject(p) \/ PreserveRejectedFile(p)
    <3>1. ~PublishFile(p)
      BY <2>2 DEF RemoveObject, PreserveRejectedFile, PublishFile, At
    <3>2. QED
      BY <1>2, <1>3, <1>8, <2>2, <3>1, CalmBucket
  <2>3. CASE PublishFile(p)
    BY <1>2, <1>3, <2>3 DEF PublishFile, TypeInv, TypeOK
  <2>4. CASE ~(TrashSweep(p) \/ RemoveObject(p) \/ PreserveRejectedFile(p) \/ PublishFile(p))
    BY <1>2, <1>4, <1>8, <2>4
       DEF Step, UploadURLRegister, InsertSubmission, RegisterFile, RegisterDone, RemoveRow,
           ApproveList, PublishNothing, PublishMissing, PublishRelabel, ApproveSetStatus,
           AwardCheck, AwardXP, RejectList, RejectRelabel, RejectSetStatus, TrashKeep,
           TrashDropRows, TrashSubmission, DeleteList, DeleteObjects, DeleteRow, db
  <2>5. QED
    BY <2>1, <2>2, <2>3, <2>4
<1>9. QED
  BY <1>5, <1>6, <1>7, <1>8 DEF Next

\* One request at a time, none of them cut short, a slot keeps an object in one
\* of its two formats from the approval that publishes it until an admin
\* deletes a submission that lists it: neither a second approval, nor a
\* rejection, nor a trash of another submission of the pack leaves it empty.
THEOREM SerialOnlyDeleteUnpublishes == Serial => (Spec => OnlyDeleteUnpublishes)
<1> SUFFICES ASSUME Serial PROVE Spec => OnlyDeleteUnpublishes
  OBVIOUS
<1>1. /\ TypeInv /\ OwnKeys /\ SerialInv /\ ListingInv /\ KeepInv /\ PublicInv /\ [Next]_vars
      => [failures' = 0 => \A a \in Art : Listed(a) /\ Reachable(a) =>
            Reachable(a)' \/ \E p \in Procs : At(p, "delete_objects")]_vars
  BY UnpublishStep
<1>2. QED
  BY <1>1, TypeInvHolds, OwnKeysHold, SerialInvHolds, ListingInvHolds, KeepInvHolds,
     PublicInvHolds, PTL DEF Spec, OnlyDeleteUnpublishes
=============================================================================
