------------------------ MODULE MetadataReview_proofs ------------------------
(***************************************************************************)
(* Proofs about MetadataReview for every value of its constants.           *)
(***************************************************************************)
EXTENDS MetadataReview, TLAPS

(***************************************************************************)
(* Type correctness needs to know what a request holds at each program     *)
(* point, and that the row of an upload always has a key.                  *)
(***************************************************************************)
UploadEntry == {e \in Entry : e.file \in Uploads /\ e.key \in Keys}

FilePCs == {"presign", "relabel", "relabel_rejected"}
TodoPCs == {"publish", "relabel", "preserve", "relabel_rejected"}
CheckedPCs == FilePCs \cup TodoPCs \cup {"move"}

RequestFine(r) ==
    /\ r.pc # "idle" => r.sub \in Subs
    /\ r.pc \in FilePCs => r.file \in UploadEntry
    /\ r.pc \in TodoPCs => r.todo \subseteq UploadEntry
    /\ r.pc = "move" => r.file \in Entry

RowsHaveKeys == \A f \in Uploads : row[f] = "live" => rowKey[f] \in Keys

TypeInv == TypeOK /\ RowsHaveKeys /\ \A p \in Procs : RequestFine(req[p])

-----------------------------------------------------------------------------
(***************************************************************************)
(* Keys, entries and rows.                                                 *)
(***************************************************************************)

LEMMA IdleType == Idle \in Request /\ RequestFine(Idle)
BY DEF Idle, Request, RequestFine, PCs, FilePCs, TodoPCs

LEMMA UploadsAre == \A f \in Files : f \in Uploads <=> Op[f] = "upload"
BY DEF Uploads

LEMMA KeyTypes ==
    /\ \A f \in Uploads : stagingMediaKey(f) \in Keys
    /\ \A f \in Uploads, n \in 1..MaxGen : immutableMediaKey(f, n) \in Keys
    /\ \A k \in Keys : historyKey(k) \in Keys /\ rejectedObjectKey(k) \in Keys
<1>1. MaxGen \in Nat
  BY MetadataReviewAssumption
<1>2. \A f \in Uploads : stagingMediaKey(f) \in Keys
  BY <1>1 DEF Keys, stagingMediaKey
<1>3. \A f \in Uploads, n \in 1..MaxGen : immutableMediaKey(f, n) \in Keys
  BY <1>1 DEF Keys, immutableMediaKey
<1>4. ASSUME NEW k \in Keys PROVE historyKey(k) \in Keys /\ rejectedObjectKey(k) \in Keys
  BY DEF Keys, historyKey, rejectedObjectKey
<1>5. QED
  BY <1>2, <1>3, <1>4

LEMMA ListFilesType ==
    ASSUME TypeInv, NEW s
    PROVE  ListFiles(s) \subseteq Entry /\ UploadsOf(ListFiles(s)) \subseteq UploadEntry
<1>1. ASSUME NEW f \in Rows(s)
      PROVE  AsEntry(f) \in Entry /\ (f \in Uploads => AsEntry(f) \in UploadEntry)
  BY DEF TypeInv, TypeOK, RowsHaveKeys, Rows, AsEntry, Entry, UploadEntry
<1>2. QED
  BY <1>1 DEF ListFiles, UploadsOf, AsEntry

LEMMA MediaType ==
    ASSUME TypeInv, NEW m \in media
    PROVE  m \in Media /\ m.game \in Games /\ m.kind \in Kinds /\ m.region \in AnyRegion
           /\ m.key \in Keys
BY DEF TypeInv, TypeOK, Media

\* One request moves on: the others are as they were.
LEMMA GoType ==
    ASSUME TypeInv, NEW p \in Procs, NEW r \in Request, RequestFine(r), Go(p, r)
    PROVE  req' \in [Procs -> Request] /\ \A q \in Procs : RequestFine(req[q])'
<1>1. req' \in [Procs -> Request]
  BY DEF TypeInv, TypeOK, Go
<1>2. ASSUME NEW q \in Procs PROVE RequestFine(req[q])'
  <2>1. req'[q] = IF q = p THEN r ELSE req[q]
    BY DEF TypeInv, TypeOK, Go
  <2>2. QED
    BY <2>1 DEF TypeInv, RequestFine
<1>3. QED
  BY <1>1, <1>2

LEMMA DoneType ==
    ASSUME TypeInv, NEW p \in Procs, Done(p)
    PROVE  req' \in [Procs -> Request] /\ \A q \in Procs : RequestFine(req[q])'
BY GoType, IdleType DEF Done, Go

LEMMA NextType ==
    ASSUME TypeInv, NEW p \in Procs, req[p].pc # "idle", NEW pc \in PCs \ CheckedPCs, Next1(p, pc)
    PROVE  req' \in [Procs -> Request] /\ \A q \in Procs : RequestFine(req[q])'
<1>1. [req[p] EXCEPT !.pc = pc] \in Request
  BY DEF TypeInv, TypeOK, Request
<1>2. RequestFine([req[p] EXCEPT !.pc = pc])
  BY DEF TypeInv, TypeOK, Request, RequestFine, CheckedPCs, FilePCs, TodoPCs
<1>3. QED
  BY <1>1, <1>2, GoType DEF Next1

\* A step that moves requests and leaves the rest alone.
LEMMA ReadType ==
    ASSUME TypeInv, req' \in [Procs -> Request], \A q \in Procs : RequestFine(req[q])',
           UNCHANGED <<db, bucket, url, ledger>>, failures' \in 0..MaxFailures,
           uncopied' \subseteq Uploads
    PROVE  TypeInv'
BY DEF TypeInv, TypeOK, RowsHaveKeys, db, subsTable, games, files

LEMMA TypeInit == Init => TypeInv
<1> SUFFICES ASSUME Init PROVE TypeInv
  OBVIOUS
<1>1. 0 \in 0..MaxFailures
  BY MetadataReviewAssumption
<1>2. TypeOK
  BY <1>1, IdleType, MetadataReviewAssumption DEF Init, TypeOK, Statuses, AnyRegion
<1>3. RowsHaveKeys
  BY DEF Init, RowsHaveKeys, Uploads
<1>4. QED
  BY <1>2, <1>3, IdleType DEF Init, TypeInv

-----------------------------------------------------------------------------
(***************************************************************************)
(* Uploads, creation and cancellation keep the types.                      *)
(***************************************************************************)

LEMMA BrowserTyped == TypeInv /\ Browser => TypeInv'
<1> SUFFICES ASSUME TypeInv, NEW f \in Uploads, MetadataUploadURLPre(f) \/ BrowserUpload(f)
             PROVE  TypeInv'
  BY DEF Browser
<1>1. /\ url' \in [Uploads -> {"none", "issued", "used"}]
      /\ bucket' \subseteq Keys
      /\ UNCHANGED <<db, ledger, req, faults>>
  BY KeyTypes DEF TypeInv, TypeOK, MetadataUploadURLPre, BrowserUpload
<1>2. QED
  BY <1>1 DEF TypeInv, TypeOK, RowsHaveKeys, db, subsTable, games, files, faults, RequestFine

\* What AddMetadataSubmissionFile leaves behind.
LEMMA AddFileTyped ==
    ASSUME TypeInv, NEW f \in Files, NEW k \in Keys \cup {None}, NEW r \in AnyRegion,
           f \in Uploads => k \in Keys, AddFile(f, k, r)
    PROVE  /\ row' \in [Files -> {"unused", "live", "gone"}]
           /\ rowKey' \in [Files -> Keys \cup {None}]
           /\ rowRegion' \in [Files -> AnyRegion]
           /\ RowsHaveKeys'
<1>1. /\ row' \in [Files -> {"unused", "live", "gone"}]
      /\ rowKey' \in [Files -> Keys \cup {None}]
      /\ rowRegion' \in [Files -> AnyRegion]
  BY DEF TypeInv, TypeOK, AddFile
<1>2. ASSUME NEW g \in Uploads, row'[g] = "live" PROVE rowKey'[g] \in Keys
  BY <1>2 DEF TypeInv, TypeOK, AddFile, RowsHaveKeys, Uploads
<1>3. QED
  BY <1>1, <1>2 DEF RowsHaveKeys

\* A step that moves requests and rows.
LEMMA RowsType ==
    ASSUME TypeInv, req' \in [Procs -> Request], \A q \in Procs : RequestFine(req[q])',
           row' \in [Files -> {"unused", "live", "gone"}],
           rowKey' \in [Files -> Keys \cup {None}],
           rowRegion' \in [Files -> AnyRegion],
           RowsHaveKeys',
           url' \in [Uploads -> {"none", "issued", "used"}],
           UNCHANGED <<subsTable, games, media, bucket, ledger, faults>>
    PROVE  TypeInv'
BY DEF TypeInv, TypeOK, subsTable, games, faults

LEMMA MetadataUploadURLTyped ==
    ASSUME TypeInv, NEW p \in Procs, NEW f \in Uploads, MetadataUploadURL(p, f)
    PROVE  TypeInv'
<1>1. PICK r \in RegionsOf[f] :
         Go(p, [Idle EXCEPT !.pc = "presign", !.sub = SubOf[f],
                   !.file = [file |-> f, key |-> stagingMediaKey(f), region |-> r]])
  BY DEF MetadataUploadURL
<1> DEFINE e == [file |-> f, key |-> stagingMediaKey(f), region |-> r]
           new == [Idle EXCEPT !.pc = "presign", !.sub = SubOf[f], !.file = e]
<1>2. e \in UploadEntry
  BY KeyTypes, MetadataReviewAssumption DEF UploadEntry, Entry, Uploads
<1>3. SubOf[f] \in Subs
  BY MetadataReviewAssumption DEF Uploads
<1> HIDE DEF e
<1>4. new \in Request /\ RequestFine(new)
  BY <1>2, <1>3 DEF Idle, Request, PCs, RequestFine, FilePCs, TodoPCs, UploadEntry
<1>5. Go(p, new)
  BY <1>1 DEF e
<1> HIDE DEF new
<1>6. QED
  BY <1>4, <1>5, GoType, ReadType DEF MetadataUploadURL, TypeInv, TypeOK, faults

LEMMA UploadURLRegisterTyped ==
    ASSUME TypeInv, NEW p \in Procs, UploadURLRegister(p)
    PROVE  TypeInv'
<1> DEFINE e == req[p].file
<1>1. e \in UploadEntry
  BY DEF TypeInv, RequestFine, FilePCs, UploadURLRegister, At
<1>2. e.file \in Uploads /\ e.file \in Files /\ e.key \in Keys /\ e.region \in AnyRegion
  BY <1>1 DEF UploadEntry, Entry
<1>3. /\ row' \in [Files -> {"unused", "live", "gone"}]
      /\ rowKey' \in [Files -> Keys \cup {None}]
      /\ rowRegion' \in [Files -> AnyRegion]
      /\ RowsHaveKeys'
      /\ url' \in [Uploads -> {"none", "issued", "used"}]
  <2>1. CASE Exists(req[p].sub) /\ url[e.file] = "none" /\ row[e.file] = "unused"
    BY <1>2, <2>1, AddFileTyped DEF UploadURLRegister, TypeInv, TypeOK
  <2>2. CASE ~(Exists(req[p].sub) /\ url[e.file] = "none" /\ row[e.file] = "unused")
    BY <2>2 DEF UploadURLRegister, TypeInv, TypeOK, files, RowsHaveKeys
  <2>3. QED
    BY <2>1, <2>2
<1>4. QED
  BY <1>3, DoneType, RowsType DEF UploadURLRegister

LEMMA CreateMetadataSubmissionTyped ==
    ASSUME TypeInv, NEW p \in Procs, NEW s \in Subs, CreateMetadataSubmission(p, s)
    PROVE  TypeInv'
<1> DEFINE Listed(f, r) == [file |-> f, region |-> r,
                            key |-> IF f \in Uploads THEN stagingMediaKey(f) ELSE None]
<1>0. PICK fs \in SUBSET {f \in Files : SubOf[f] = s} :
         \E region \in [fs -> AnyRegion] :
         Go(p, [Idle EXCEPT !.pc = "insert", !.sub = s,
                            !.todo = {Listed(f, region[f]) : f \in fs}])
  BY DEF CreateMetadataSubmission
<1>1. PICK region \in [fs -> AnyRegion] :
         Go(p, [Idle EXCEPT !.pc = "insert", !.sub = s,
                            !.todo = {Listed(f, region[f]) : f \in fs}])
  BY <1>0
<1> DEFINE es == {Listed(f, region[f]) : f \in fs}
           new == [Idle EXCEPT !.pc = "insert", !.sub = s, !.todo = es]
<1>2. ASSUME NEW f \in fs PROVE Listed(f, region[f]) \in Entry
  BY KeyTypes DEF Entry
<1>3. es \in SUBSET Entry
  BY <1>2
<1> HIDE DEF es
<1>4. new \in Request /\ RequestFine(new)
  BY <1>3 DEF Idle, Request, PCs, RequestFine, FilePCs, TodoPCs
<1>5. Go(p, new)
  BY <1>1 DEF es
<1> HIDE DEF new
<1>6. QED
  BY <1>4, <1>5, GoType, ReadType DEF CreateMetadataSubmission, TypeInv, TypeOK, faults

LEMMA InsertSubmissionTyped ==
    ASSUME TypeInv, NEW p \in Procs, InsertSubmission(p)
    PROVE  TypeInv'
<1>1. req[p].sub \in Subs /\ Target[req[p].sub] \in Games
  BY MetadataReviewAssumption DEF InsertSubmission, At, TypeInv, RequestFine
<1>2. /\ status' \in [Subs -> Statuses]
      /\ gameOf' \in [Subs -> Games \cup {None}]
      /\ hasSystem' \in [Subs -> BOOLEAN]
  BY <1>1 DEF InsertSubmission, TypeInv, TypeOK, Statuses
<1>3. req' \in [Procs -> Request] /\ \A q \in Procs : RequestFine(req[q])'
  BY NextType DEF InsertSubmission, At, PCs, CheckedPCs, FilePCs, TodoPCs
<1>4. QED
  BY <1>2, <1>3 DEF InsertSubmission, TypeInv, TypeOK, games, files, faults, RowsHaveKeys

\* A request with less to do is as fine.
LEMMA LessToDo ==
    ASSUME TypeInv, NEW p \in Procs, NEW es \in SUBSET req[p].todo
    PROVE  [req[p] EXCEPT !.todo = es] \in Request /\ RequestFine([req[p] EXCEPT !.todo = es])
<1>1. [req[p] EXCEPT !.todo = es] \in Request
  BY DEF TypeInv, TypeOK, Request
<1>2. RequestFine([req[p] EXCEPT !.todo = es])
  BY DEF TypeInv, TypeOK, Request, RequestFine
<1>3. QED
  BY <1>1, <1>2

LEMMA EntryParts ==
    ASSUME TypeInv, NEW p \in Procs, NEW e \in req[p].todo
    PROVE  e \in Entry /\ e.file \in Files /\ e.key \in Keys \cup {None} /\ e.region \in AnyRegion
BY DEF TypeInv, TypeOK, Request, Entry

LEMMA RegisterFileTyped ==
    ASSUME TypeInv, NEW p \in Procs, RegisterFile(p)
    PROVE  TypeInv'
<1>1. PICK e \in req[p].todo :
         /\ \/ e.file \in Uploads /\ ensureUploaded(e.key) /\ AddFile(e.file, e.key, e.region)
            \/ /\ Op[e.file] = "move"
               /\ \E m \in MediaExists(req[p].sub, e.file) : AddFile(e.file, m.key, e.region)
            \/ Op[e.file] = "delete" /\ AddFile(e.file, None, e.region)
         /\ Go(p, [req[p] EXCEPT !.todo = @ \ {e}])
  BY DEF RegisterFile
<1>2. PICK k \in Keys \cup {None} : AddFile(e.file, k, e.region) /\ (e.file \in Uploads => k \in Keys)
  <2>1. CASE e.file \in Uploads /\ ensureUploaded(e.key) /\ AddFile(e.file, e.key, e.region)
    BY <2>1 DEF ensureUploaded, TypeInv, TypeOK
  <2>2. CASE Op[e.file] = "move" /\ \E m \in MediaExists(req[p].sub, e.file) : AddFile(e.file, m.key, e.region)
    BY <2>2, MediaType DEF MediaExists, ListMediaByGame, Uploads
  <2>3. CASE Op[e.file] = "delete" /\ AddFile(e.file, None, e.region)
    BY <2>3 DEF Uploads
  <2>4. QED
    BY <1>1, <2>1, <2>2, <2>3
<1>3. /\ row' \in [Files -> {"unused", "live", "gone"}]
      /\ rowKey' \in [Files -> Keys \cup {None}]
      /\ rowRegion' \in [Files -> AnyRegion]
      /\ RowsHaveKeys'
  BY <1>2, EntryParts, AddFileTyped
<1>4. req' \in [Procs -> Request] /\ \A q \in Procs : RequestFine(req[q])'
  BY <1>1, LessToDo, GoType
<1>5. QED
  BY <1>3, <1>4, RowsType DEF RegisterFile, TypeInv, TypeOK

LEMMA CancelRowTyped ==
    ASSUME TypeInv, NEW p \in Procs, CancelRow(p)
    PROVE  TypeInv'
<1>1. status' \in [Subs -> Statuses] /\ row' \in [Files -> {"unused", "live", "gone"}]
  BY DEF CancelRow, TypeInv, TypeOK, Statuses
<1>2. RowsHaveKeys'
  BY DEF CancelRow, TypeInv, TypeOK, RowsHaveKeys, Uploads
<1>3. QED
  BY <1>1, <1>2, DoneType DEF CancelRow, TypeInv, TypeOK, games, faults

\* A request that starts with what it read.
LEMMA StartType ==
    ASSUME TypeInv, NEW p \in Procs, NEW r \in Request, r.sub \in Subs,
           r.pc \in {"validate", "dup_objects", "cancel_objects", "preserve"},
           r.todo \subseteq UploadEntry,
           Go(p, r), UNCHANGED <<db, bucket, url, ledger, faults>>
    PROVE  TypeInv'
<1>1. RequestFine(r)
  BY DEF RequestFine, FilePCs, TodoPCs
<1>2. QED
  BY <1>1, GoType, ReadType DEF TypeInv, TypeOK, faults

LEMMA OwnedAre ==
    ASSUME TypeInv, NEW s
    PROVE  {e \in ListFiles(s) : ownedSubmissionUpload(e)} \in SUBSET UploadEntry
BY ListFilesType DEF ownedSubmissionUpload, UploadsOf

LEMMA StartTyped ==
    ASSUME TypeInv, NEW p \in Procs, Start(p)
    PROVE  TypeInv'
<1>1. ASSUME NEW f \in Uploads, MetadataUploadURL(p, f) PROVE TypeInv'
  BY <1>1, MetadataUploadURLTyped
<1>2. ASSUME NEW s \in Subs, CreateMetadataSubmission(p, s) PROVE TypeInv'
  BY <1>2, CreateMetadataSubmissionTyped
<1>3. ASSUME NEW s \in Subs, CancelMetadataSubmission(p, s) PROVE TypeInv'
  <2> DEFINE r == [Idle EXCEPT !.pc = "cancel_objects", !.sub = s,
                               !.todo = {e \in ListFiles(s) : ownedSubmissionUpload(e)}]
  <2>2. r \in Request /\ r.sub \in Subs /\ r.todo \subseteq UploadEntry
        /\ r.pc \in {"validate", "dup_objects", "cancel_objects", "preserve"}
    BY OwnedAre DEF Idle, Request, PCs, UploadEntry
  <2>3. Go(p, r) /\ UNCHANGED <<db, bucket, url, ledger, faults>>
    BY <1>3 DEF CancelMetadataSubmission
  <2> HIDE DEF r
  <2>4. QED
    BY <2>2, <2>3, StartType
<1>4. ASSUME NEW s \in Subs, ApproveMetadataSubmission(p, s) PROVE TypeInv'
  <2> DEFINE r == [Idle EXCEPT !.pc = IF s \in Duplicate THEN "dup_objects" ELSE "validate",
                               !.sub = s, !.list = ListFiles(s)]
  <2>2. r \in Request /\ r.sub \in Subs /\ r.todo \subseteq UploadEntry
        /\ r.pc \in {"validate", "dup_objects", "cancel_objects", "preserve"}
    BY ListFilesType DEF Idle, Request, PCs, UploadEntry
  <2>3. Go(p, r) /\ UNCHANGED <<db, bucket, url, ledger, faults>>
    BY <1>4 DEF ApproveMetadataSubmission
  <2> HIDE DEF r
  <2>4. QED
    BY <2>2, <2>3, StartType
<1>5. ASSUME NEW s \in Subs, RejectMetadataSubmission(p, s) PROVE TypeInv'
  <2> DEFINE r == [Idle EXCEPT !.pc = "preserve", !.sub = s,
                               !.todo = {e \in ListFiles(s) : ownedSubmissionUpload(e)}]
  <2>2. r \in Request /\ r.sub \in Subs /\ r.todo \subseteq UploadEntry
        /\ r.pc \in {"validate", "dup_objects", "cancel_objects", "preserve"}
    BY OwnedAre DEF Idle, Request, PCs, UploadEntry
  <2>3. Go(p, r) /\ UNCHANGED <<db, bucket, url, ledger, faults>>
    BY <1>5 DEF RejectMetadataSubmission
  <2> HIDE DEF r
  <2>4. QED
    BY <2>2, <2>3, StartType
<1>6. QED
  BY <1>1, <1>2, <1>3, <1>4, <1>5 DEF Start

-----------------------------------------------------------------------------
(***************************************************************************)
(* Steps that change tables of scalars, the objects or the media.          *)
(***************************************************************************)

\* A step that leaves the rows of files alone.
LEMMA DataType ==
    ASSUME TypeInv, req' \in [Procs -> Request], \A q \in Procs : RequestFine(req[q])',
           status' \in [Subs -> Statuses],
           gameOf' \in [Subs -> Games \cup {None}],
           hasSystem' \in [Subs -> BOOLEAN],
           game' \in [Games -> {"absent", "live", "deleted"}],
           primary' \in [Games -> AnyRegion],
           media' \subseteq Media,
           bucket' \subseteq Keys,
           ledger' \in [Subs -> Nat],
           failures' \in 0..MaxFailures,
           uncopied' \subseteq Uploads,
           UNCHANGED <<files, url>>
    PROVE  TypeInv'
BY DEF TypeInv, TypeOK, RowsHaveKeys, files

LEMMA SubType ==
    ASSUME TypeInv, NEW p \in Procs, req[p].pc # "idle"
    PROVE  /\ req[p].sub \in Subs
           /\ gameOf[req[p].sub] \in Games \cup {None}
           /\ Target[req[p].sub] \in Games
BY MetadataReviewAssumption DEF TypeInv, TypeOK, RequestFine

LEMMA FaultsType ==
    ASSUME TypeInv, UNCHANGED faults
    PROVE  failures' \in 0..MaxFailures /\ uncopied' \subseteq Uploads
BY DEF TypeInv, TypeOK, faults

LEMMA StatusTyped ==
    ASSUME TypeInv, NEW s \in Subs, NEW st \in Statuses, SetMetadataStatusForAdmin(s, st)
    PROVE  status' \in [Subs -> Statuses]
BY DEF SetMetadataStatusForAdmin, TypeInv, TypeOK

\* The steps of the submitter and the reads of a review.
LEMMA ReadsTyped ==
    ASSUME TypeInv, NEW p \in Procs,
           \/ RegisterEnd(p) \/ ValidateApprovedMedia(p) \/ CaptureDone(p) \/ AwardMetadataPoints(p)
    PROVE  TypeInv'
<1>1. /\ \/ Done(p)
         \/ \E pc \in PCs \ CheckedPCs : req[p].pc # "idle" /\ Next1(p, pc)
      /\ UNCHANGED <<db, bucket, url, ledger, faults>>
  BY DEF RegisterEnd, ValidateApprovedMedia, CaptureDone, AwardMetadataPoints, At, PCs, CheckedPCs,
         FilePCs, TodoPCs
<1>2. QED
  BY <1>1, DoneType, NextType, ReadType, FaultsType

LEMMA TablesTyped ==
    ASSUME TypeInv, NEW p \in Procs,
           \/ CreateGameFromPayload(p) \/ SetMetadataSubmissionGame(p) \/ ApplyText(p)
           \/ ApproveSetStatus(p) \/ AwardXP(p)
           \/ DuplicateObjects(p) \/ DuplicateDetach(p) \/ DuplicateDelete(p) \/ RejectSetStatus(p)
    PROVE  TypeInv'
<1>0. req[p].pc # "idle"
  BY DEF CreateGameFromPayload, SetMetadataSubmissionGame, ApplyText, ApproveSetStatus, AwardXP,
         DuplicateObjects, DuplicateDetach, DuplicateDelete, RejectSetStatus, At
<1>1. req' \in [Procs -> Request] /\ \A q \in Procs : RequestFine(req[q])'
  <2>1. Done(p) \/ \E pc \in PCs \ CheckedPCs : Next1(p, pc)
    BY DEF CreateGameFromPayload, SetMetadataSubmissionGame, ApplyText, ApproveSetStatus, AwardXP,
         DuplicateObjects, DuplicateDetach, DuplicateDelete, RejectSetStatus, At, PCs, CheckedPCs,
         FilePCs, TodoPCs
  <2>2. QED
    BY <1>0, <2>1, DoneType, NextType
<1>2. CASE CreateGameFromPayload(p) \/ SetMetadataSubmissionGame(p)
  <2>1. /\ gameOf' \in [Subs -> Games \cup {None}]
        /\ hasSystem' \in [Subs -> BOOLEAN]
        /\ game' \in [Games -> {"absent", "live", "deleted"}]
        /\ primary' \in [Games -> AnyRegion]
    BY <1>0, <1>2, SubType
       DEF CreateGameFromPayload, SetMetadataSubmissionGame, TypeInv, TypeOK, games, subsTable
  <2>2. QED
    BY <1>1, <1>2, <2>1, DataType, FaultsType
       DEF CreateGameFromPayload, SetMetadataSubmissionGame, TypeInv, TypeOK, games, subsTable
<1>3. CASE ApplyText(p)
  <2>1. primary' \in [Games -> AnyRegion]
    BY <1>0, <1>3, SubType DEF ApplyText, TypeInv, TypeOK
  <2>2. QED
    BY <1>1, <1>3, <2>1, DataType, FaultsType DEF ApplyText, TypeInv, TypeOK, subsTable
<1>4. CASE ApproveSetStatus(p) \/ RejectSetStatus(p)
  <2>1. status' \in [Subs -> Statuses]
    BY <1>0, <1>4, SubType, StatusTyped DEF ApproveSetStatus, RejectSetStatus, Statuses
  <2>2. QED
    BY <1>1, <1>4, <2>1, DataType, FaultsType
       DEF ApproveSetStatus, RejectSetStatus, TypeInv, TypeOK, games
<1>5. CASE AwardXP(p)
  <2>1. ledger' \in [Subs -> Nat]
    BY <1>0, <1>5, SubType DEF AwardXP, TypeInv, TypeOK
  <2>2. QED
    BY <1>1, <1>5, <2>1, DataType, FaultsType DEF AwardXP, TypeInv, TypeOK, db, subsTable, games
<1>6. CASE DuplicateObjects(p)
  BY <1>1, <1>6, DataType, FaultsType DEF DuplicateObjects, TypeInv, TypeOK, db, subsTable, games
<1>7. CASE DuplicateDetach(p)
  <2>1. gameOf' \in [Subs -> Games \cup {None}]
    BY <1>7 DEF DuplicateDetach, TypeInv, TypeOK
  <2>2. QED
    BY <1>1, <1>7, <2>1, DataType, FaultsType DEF DuplicateDetach, TypeInv, TypeOK, games
<1>8. CASE DuplicateDelete(p)
  <2>1. /\ gameOf' \in [Subs -> Games \cup {None}]
        /\ game' \in [Games -> {"absent", "live", "deleted"}]
        /\ media' \subseteq Media
    BY <1>0, <1>8, SubType DEF DuplicateDelete, TypeInv, TypeOK
  <2>2. QED
    BY <1>1, <1>8, <2>1, DataType, FaultsType DEF DuplicateDelete, TypeInv, TypeOK
<1>9. QED
  BY <1>2, <1>3, <1>4, <1>5, <1>6, <1>7, <1>8

-----------------------------------------------------------------------------
(***************************************************************************)
(* Steps that change what a request has read.                              *)
(***************************************************************************)

\* A step that moves objects or media and one request.
LEMMA WorkType ==
    ASSUME TypeInv, NEW p \in Procs, NEW r \in Request, RequestFine(r), Go(p, r),
           media' \subseteq Media, bucket' \subseteq Keys,
           UNCHANGED <<subsTable, games, files, url, ledger, faults>>
    PROVE  TypeInv'
BY GoType DEF TypeInv, TypeOK, RowsHaveKeys, subsTable, games, files, faults

LEMMA RequestParts ==
    ASSUME TypeInv, NEW p \in Procs
    PROVE  /\ req[p] \in Request /\ RequestFine(req[p])
           /\ req[p].todo \subseteq Entry /\ req[p].old \subseteq Media
           /\ req[p].file \in Entry \cup {None} /\ req[p].list \subseteq Entry
BY DEF TypeInv, TypeOK, Request

LEMMA MediaAre ==
    ASSUME TypeInv
    PROVE  /\ media \subseteq Media /\ bucket \subseteq Keys
           /\ \A s, es : Replaced(s, es) \subseteq Media
BY DEF TypeInv, TypeOK, Replaced, ListMediaByGame

LEMMA ResolveMediaRegionsTyped ==
    ASSUME TypeInv, NEW p \in Procs, ResolveMediaRegions(p)
    PROVE  TypeInv'
<1> DEFINE s == req[p].sub
           After(e) == [e EXCEPT !.region = RegionAfter(s, e.file)]
           r == [req[p] EXCEPT !.pc = IF s \in NewGame THEN "sweep" ELSE "capture_list",
                               !.list = {After(e) : e \in ListFiles(s)}]
<1>1. \A f \in Files : RegionAfter(s, f) \in AnyRegion
  BY SubType DEF RegionAfter, ResolveMediaRegions, At, TypeInv, TypeOK
<1>2. ASSUME NEW e \in ListFiles(s) PROVE After(e) \in Entry
  BY <1>1, ListFilesType DEF Entry
<1>3. {After(e) : e \in ListFiles(s)} \in SUBSET Entry
  BY <1>2
<1> HIDE DEF After
<1>4. r \in Request /\ RequestFine(r)
  BY <1>3, RequestParts DEF Request, PCs, RequestFine, FilePCs, TodoPCs, ResolveMediaRegions, At
<1>5. Go(p, r)
  BY DEF ResolveMediaRegions, After
<1> HIDE DEF r
<1>6. rowRegion' \in [Files -> AnyRegion] /\ RowsHaveKeys'
  BY <1>1 DEF ResolveMediaRegions, TypeInv, RowsHaveKeys
<1>7. QED
  BY <1>4, <1>5, <1>6, GoType, RowsType DEF ResolveMediaRegions, TypeInv, TypeOK

LEMMA CaptureTyped ==
    ASSUME TypeInv, NEW p \in Procs, CaptureList(p) \/ CaptureOldMedia(p)
    PROVE  TypeInv'
<1>1. CASE CaptureList(p)
  <2> DEFINE r == [req[p] EXCEPT !.pc = "capture", !.old = Replaced(req[p].sub, req[p].list)]
  <2>1. r \in Request /\ RequestFine(r)
    BY <1>1, MediaAre, RequestParts DEF Request, PCs, RequestFine, FilePCs, TodoPCs, CaptureList, At
  <2>2. Go(p, r) /\ UNCHANGED <<db, bucket, url, ledger, faults>>
    BY <1>1 DEF CaptureList
  <2> HIDE DEF r
  <2>3. QED
    BY <2>1, <2>2, GoType, ReadType, FaultsType
<1>2. CASE CaptureOldMedia(p)
  <2>1. PICK m \in req[p].old :
           /\ bucket' = IF m.key \in bucket
                        THEN (bucket \ {m.key}) \cup {historyKey(m.key)} ELSE bucket
           /\ Go(p, [req[p] EXCEPT !.old = @ \ {m}])
    BY <1>2 DEF CaptureOldMedia
  <2> DEFINE r == [req[p] EXCEPT !.old = @ \ {m}]
  <2>2. r \in Request /\ RequestFine(r)
    BY RequestParts DEF Request, RequestFine
  <2>3. bucket' \subseteq Keys
    BY <2>1, KeyTypes, MediaAre
  <2>4. Go(p, r)
    BY <2>1
  <2> HIDE DEF r
  <2>5. QED
    BY <1>2, <2>2, <2>3, <2>4, WorkType, MediaAre DEF CaptureOldMedia, db
<1>3. QED
  BY <1>1, <1>2

LEMMA CaptureCopyFailsTyped ==
    ASSUME TypeInv, NEW p \in Procs, CaptureCopyFails(p)
    PROVE  TypeInv'
<1>1. PICK m \in req[p].old :
         /\ failures < MaxFailures /\ failures' = failures + 1
         /\ uncopied' = uncopied \cup {m.key.file}
         /\ Go(p, [req[p] EXCEPT !.old = @ \ {m}])
         /\ UNCHANGED <<db, bucket, url, ledger>>
  BY DEF CaptureCopyFails
<1> DEFINE r == [req[p] EXCEPT !.old = @ \ {m}]
<1>2. r \in Request /\ RequestFine(r)
  BY RequestParts DEF Request, RequestFine
<1>3. uncopied' \subseteq Uploads
  BY <1>1, RequestParts DEF Media, Keys, TypeInv, TypeOK
<1>4. failures' \in 0..MaxFailures
  BY <1>1, MetadataReviewAssumption DEF TypeInv, TypeOK
<1>5. Go(p, r)
  BY <1>1
<1> HIDE DEF r
<1>6. QED
  BY <1>1, <1>2, <1>3, <1>4, <1>5, GoType, ReadType

LEMMA DeleteReplacedMediaTyped ==
    ASSUME TypeInv, NEW p \in Procs, DeleteReplacedMedia(p)
    PROVE  TypeInv'
<1> DEFINE s == req[p].sub
           es == ListFiles(s)
           r == [req[p] EXCEPT !.pc = "publish", !.todo = UploadsOf(es)]
<1>1. CASE Done(p) /\ UNCHANGED bucket
  BY <1>1, DoneType, ReadType, FaultsType DEF DeleteReplacedMedia
<1>2. CASE bucket' = bucket \ ObjectKeys(Replaced(s, es)) /\ Go(p, r)
  <2>1. UploadsOf(es) \subseteq UploadEntry
    BY ListFilesType
  <2>2. r \in Request /\ RequestFine(r)
    BY <2>1, RequestParts
       DEF Request, PCs, RequestFine, FilePCs, TodoPCs, DeleteReplacedMedia, At, UploadEntry
  <2>3. Go(p, r) /\ bucket' \subseteq Keys
    BY <1>2, MediaAre
  <2> HIDE DEF r
  <2>4. QED
    BY <2>2, <2>3, WorkType, MediaAre DEF DeleteReplacedMedia, db
<1>3. QED
  BY <1>1, <1>2 DEF DeleteReplacedMedia

LEMMA PublishUploadTyped ==
    ASSUME TypeInv, NEW p \in Procs, PublishUpload(p)
    PROVE  TypeInv'
<1>1. PICK e \in req[p].todo :
         IF e.key \notin bucket
         THEN Done(p) /\ UNCHANGED bucket
         ELSE \E n \in Fresh(e.file) :
                LET dest == immutableMediaKey(e.file, n) IN
                /\ bucket' \in {bucket \cup {dest}, (bucket \ {e.key}) \cup {dest}}
                /\ Go(p, [req[p] EXCEPT !.pc = "relabel", !.file = [e EXCEPT !.key = dest],
                                        !.todo = @ \ {e}])
  BY DEF PublishUpload
<1>2. CASE e.key \notin bucket
  BY <1>1, <1>2, DoneType, ReadType, FaultsType DEF PublishUpload
<1>3. CASE e.key \in bucket
  <2>1. PICK n \in Fresh(e.file) :
          /\ bucket' \in {bucket \cup {immutableMediaKey(e.file, n)},
                           (bucket \ {e.key}) \cup {immutableMediaKey(e.file, n)}}
          /\ Go(p, [req[p] EXCEPT !.pc = "relabel",
                                  !.file = [e EXCEPT !.key = immutableMediaKey(e.file, n)],
                                  !.todo = @ \ {e}])
    BY <1>1, <1>3
  <2> DEFINE dest == immutableMediaKey(e.file, n)
             r == [req[p] EXCEPT !.pc = "relabel", !.file = [e EXCEPT !.key = dest],
                                 !.todo = @ \ {e}]
  <2>2. req[p].pc = "publish" /\ req[p].todo \subseteq UploadEntry
    BY RequestParts DEF PublishUpload, At, RequestFine, TodoPCs
  <2>3. dest \in Keys
    BY <2>2, KeyTypes DEF Fresh, UploadEntry
  <2>4. Go(p, r) /\ bucket' \subseteq Keys
    BY <2>1, <2>3, MediaAre
  <2> HIDE DEF dest
  <2>5. [e EXCEPT !.key = dest] \in UploadEntry
    BY <2>2, <2>3 DEF UploadEntry, Entry
  <2>6. r \in Request /\ RequestFine(r)
    BY <2>2, <2>5, RequestParts DEF Request, PCs, RequestFine, FilePCs, TodoPCs, UploadEntry
  <2> HIDE DEF r
  <2>7. QED
    BY <2>4, <2>6, WorkType, MediaAre DEF PublishUpload, db
<1>4. QED
  BY <1>2, <1>3

\* A row gets the key an object was moved to.
LEMMA RelabelTyped ==
    ASSUME TypeInv, NEW p \in Procs, PublishRelabel(p) \/ RejectRelabel(p)
    PROVE  TypeInv'
<1> DEFINE e == req[p].file
           r == [req[p] EXCEPT !.pc = IF At(p, "relabel") THEN "publish" ELSE "preserve",
                               !.file = None]
<1>1. /\ req[p].pc \in {"relabel", "relabel_rejected"}
      /\ e.file \in Uploads /\ e.key \in Keys /\ req[p].todo \subseteq UploadEntry
  BY RequestParts DEF PublishRelabel, RejectRelabel, At, RequestFine, FilePCs, TodoPCs, UploadEntry
<1>2. r \in Request /\ RequestFine(r)
  BY <1>1, RequestParts DEF Request, PCs, RequestFine, FilePCs, TodoPCs, UploadEntry
<1>3. Go(p, r)
  BY DEF PublishRelabel, RejectRelabel, At
<1>4. /\ rowKey' \in [Files -> Keys \cup {None}]
      /\ RowsHaveKeys'
  BY <1>1 DEF PublishRelabel, RejectRelabel, TypeInv, TypeOK, RowsHaveKeys, Uploads
<1> HIDE DEF r
<1>5. QED
  BY <1>2, <1>3, <1>4, GoType, RowsType DEF PublishRelabel, RejectRelabel, TypeInv, TypeOK

LEMMA ApplyStartTyped ==
    ASSUME TypeInv, NEW p \in Procs, ApplyStart(p)
    PROVE  TypeInv'
<1> DEFINE s == req[p].sub
           r == [req[p] EXCEPT !.pc = IF gameOf[s] = None THEN "text" ELSE "apply",
                      !.list = {}, !.todo = ListFiles(s) \ UploadsOf(ListFiles(s))]
<1>1. CASE Done(p)
  BY <1>1, DoneType, ReadType, FaultsType DEF ApplyStart
<1>2. CASE Go(p, r)
  <2>1. r \in Request /\ RequestFine(r)
    BY ListFilesType, RequestParts DEF Request, PCs, RequestFine, FilePCs, TodoPCs, ApplyStart, At
  <2> HIDE DEF r
  <2>2. QED
    BY <1>2, <2>1, GoType, ReadType, FaultsType DEF ApplyStart
<1>3. QED
  BY <1>1, <1>2 DEF ApplyStart

LEMMA ApplyEntryTyped ==
    ASSUME TypeInv, NEW p \in Procs, ApplyDelete(p) \/ ApplyClear(p)
    PROVE  TypeInv'
<1>1. PICK e \in req[p].todo :
         \/ Go(p, [req[p] EXCEPT !.todo = @ \ {e}])
         \/ Go(p, [req[p] EXCEPT !.pc = "move", !.file = e, !.todo = @ \ {e}])
  BY DEF ApplyDelete, ApplyClear
<1>2. media' \subseteq Media
  BY MediaAre DEF ApplyDelete, ApplyClear
<1>3. CASE Go(p, [req[p] EXCEPT !.todo = @ \ {e}])
  BY <1>2, <1>3, LessToDo, WorkType, MediaAre DEF ApplyDelete, ApplyClear
<1>4. CASE Go(p, [req[p] EXCEPT !.pc = "move", !.file = e, !.todo = @ \ {e}])
  <2> DEFINE r == [req[p] EXCEPT !.pc = "move", !.file = e, !.todo = @ \ {e}]
  <2>1. r \in Request /\ RequestFine(r)
    BY RequestParts DEF Request, PCs, RequestFine, FilePCs, TodoPCs, ApplyDelete, ApplyClear, At
  <2>2. Go(p, r)
    BY <1>4
  <2> HIDE DEF r
  <2>3. QED
    BY <1>2, <2>1, <2>2, WorkType, MediaAre DEF ApplyDelete, ApplyClear
<1>5. QED
  BY <1>1, <1>3, <1>4

LEMMA ApplyMoveTyped ==
    ASSUME TypeInv, NEW p \in Procs, ApplyMove(p)
    PROVE  TypeInv'
<1> DEFINE e == req[p].file
           moved == {m \in ListMediaByGame(gameOf[req[p].sub]) : m.key = e.key}
           r == [req[p] EXCEPT !.pc = "apply", !.file = None]
<1>1. e.region \in AnyRegion
  BY RequestParts DEF ApplyMove, At, RequestFine, Entry
<1>2. ASSUME NEW m \in moved PROVE [m EXCEPT !.region = e.region] \in Media
  BY <1>1, MediaAre DEF ListMediaByGame, Media
<1>3. media' \subseteq Media
  BY <1>2, MediaAre DEF ApplyMove
<1>4. r \in Request /\ RequestFine(r)
  BY RequestParts DEF Request, PCs, RequestFine, FilePCs, TodoPCs, ApplyMove, At
<1>5. Go(p, r)
  BY DEF ApplyMove
<1> HIDE DEF r
<1>6. QED
  BY <1>3, <1>4, <1>5, WorkType, MediaAre DEF ApplyMove

LEMMA ApplyEndTyped ==
    ASSUME TypeInv, NEW p \in Procs, ApplyReplace(p) \/ ApplyInsert(p)
    PROVE  TypeInv'
<1>1. req' \in [Procs -> Request] /\ \A q \in Procs : RequestFine(req[q])'
  <2>1. req[p].pc # "idle" /\ (Done(p) \/ \E pc \in PCs \ CheckedPCs : Next1(p, pc))
    BY DEF ApplyReplace, ApplyInsert, At, PCs, CheckedPCs, FilePCs, TodoPCs
  <2>2. QED
    BY <2>1, DoneType, NextType
<1>2. media' \subseteq Media
  <2>1. CASE ApplyReplace(p)
    BY <2>1, MediaAre DEF ApplyReplace
  <2>2. CASE ApplyInsert(p)
    <3> DEFINE s == req[p].sub
    <3>1. CASE gameOf[s] = None
      BY <2>2, <3>1, MediaAre DEF ApplyInsert
    <3>2. CASE gameOf[s] # None
      <4>1. ASSUME NEW f \in UploadRows(s)
            PROVE  [game |-> gameOf[s], kind |-> KindOf[f], region |-> rowRegion[f],
                    key |-> rowKey[f]] \in Media
        BY <2>2, <3>2, SubType, MetadataReviewAssumption
           DEF UploadRows, Rows, Media, TypeInv, TypeOK, RowsHaveKeys, ApplyInsert, At
      <4>2. QED
        BY <2>2, <3>2, <4>1, MediaAre DEF ApplyInsert
    <3>3. QED
      BY <3>1, <3>2
  <2>3. QED
    BY <2>1, <2>2
<1>3. QED
  BY <1>1, <1>2, DataType, FaultsType
     DEF ApplyReplace, ApplyInsert, TypeInv, TypeOK, subsTable, games

LEMMA CancelObjectsTyped ==
    ASSUME TypeInv, NEW p \in Procs, CancelObjects(p)
    PROVE  TypeInv'
<1> DEFINE r == [req[p] EXCEPT !.pc = "cancel_row", !.todo = {}]
<1>1. r \in Request /\ RequestFine(r)
  BY RequestParts DEF Request, PCs, RequestFine, FilePCs, TodoPCs, CancelObjects, At
<1>2. Go(p, r) /\ bucket' \subseteq Keys
  BY MediaAre DEF CancelObjects
<1> HIDE DEF r
<1>3. QED
  BY <1>1, <1>2, WorkType, MediaAre DEF CancelObjects, db

LEMMA PreserveRejectedFileTyped ==
    ASSUME TypeInv, NEW p \in Procs, PreserveRejectedFile(p)
    PROVE  TypeInv'
<1>1. PICK e \in req[p].todo :
         LET moved == rejectedObjectKey(e.key) IN
         IF e.key \notin bucket
         THEN Done(p) /\ UNCHANGED bucket
         ELSE /\ bucket' = (bucket \ {e.key}) \cup {moved}
              /\ Go(p, [req[p] EXCEPT !.pc = "relabel_rejected", !.todo = @ \ {e},
                                      !.file = [e EXCEPT !.key = moved]])
  BY DEF PreserveRejectedFile
<1>2. CASE e.key \notin bucket
  BY <1>1, <1>2, DoneType, ReadType, FaultsType DEF PreserveRejectedFile
<1>3. CASE e.key \in bucket
  <2> DEFINE f == [e EXCEPT !.key = rejectedObjectKey(e.key)]
             r == [req[p] EXCEPT !.pc = "relabel_rejected", !.todo = @ \ {e}, !.file = f]
  <2>1. req[p].pc = "preserve" /\ req[p].todo \subseteq UploadEntry
    BY RequestParts DEF PreserveRejectedFile, At, RequestFine, TodoPCs
  <2>2. rejectedObjectKey(e.key) \in Keys
    BY <2>1, KeyTypes DEF UploadEntry
  <2>3. Go(p, r) /\ bucket' \subseteq Keys
    BY <1>1, <1>3, <2>2, MediaAre
  <2>4. f \in UploadEntry
    BY <2>1, <2>2 DEF UploadEntry, Entry
  <2> HIDE DEF f
  <2>5. r \in Request /\ RequestFine(r)
    BY <2>1, <2>4, RequestParts DEF Request, PCs, RequestFine, FilePCs, TodoPCs, UploadEntry
  <2> HIDE DEF r
  <2>6. QED
    BY <2>3, <2>5, WorkType, MediaAre DEF PreserveRejectedFile, db
<1>4. QED
  BY <1>2, <1>3

LEMMA AbortTyped ==
    ASSUME TypeInv, NEW p \in Procs, Abort(p)
    PROVE  TypeInv'
<1>1. failures' \in 0..MaxFailures
  BY MetadataReviewAssumption DEF Abort, TypeInv, TypeOK
<1>2. QED
  BY <1>1, DoneType, ReadType DEF Abort, TypeInv, TypeOK

-----------------------------------------------------------------------------
LEMMA StepTyped ==
    ASSUME TypeInv, NEW p \in Procs, Step(p)
    PROVE  TypeInv'
BY UploadURLRegisterTyped, InsertSubmissionTyped, RegisterFileTyped, ReadsTyped,
   CancelObjectsTyped, CancelRowTyped, TablesTyped, ResolveMediaRegionsTyped, CaptureTyped,
   CaptureCopyFailsTyped, DeleteReplacedMediaTyped, PublishUploadTyped, RelabelTyped,
   ApplyStartTyped, ApplyEntryTyped, ApplyMoveTyped, ApplyEndTyped, PreserveRejectedFileTyped
   DEF Step

LEMMA TypeStep == TypeInv /\ [Next]_vars => TypeInv'
<1> SUFFICES ASSUME TypeInv, [Next]_vars PROVE TypeInv'
  OBVIOUS
<1>1. CASE Browser
  BY <1>1, BrowserTyped
<1>2. ASSUME NEW p \in Procs, Start(p) \/ Step(p) \/ Abort(p) PROVE TypeInv'
  BY <1>2, StartTyped, StepTyped, AbortTyped
<1>3. CASE UNCHANGED vars
  BY <1>3 DEF vars, db, subsTable, games, files, faults, TypeInv, TypeOK, RowsHaveKeys, RequestFine
<1>4. QED
  BY <1>1, <1>2, <1>3 DEF Next

LEMMA TypeInvHolds == Spec => []TypeInv
BY TypeInit, TypeStep, PTL DEF Spec

\* However requests interleave or are cut short, the tables, the objects and what
\* running requests have read stay within their types: a publication never goes to
\* a key that is none, and no media row is inserted without a key.
THEOREM TypeCorrect == Spec => []TypeOK
<1>1. TypeInv => TypeOK
  BY DEF TypeInv
<1>2. QED
  BY <1>1, TypeInvHolds, PTL

-----------------------------------------------------------------------------
(***************************************************************************)
(* Requests that do not overlap (Serial = TRUE).  What a request tested    *)
(* when it began still holds when it acts on it: the submission is where   *)
(* the handler found it, a game that is created has no media yet, and the  *)
(* games submissions and media rows refer to exist.                        *)
(***************************************************************************)
Alone == \A p, q \in Procs : p = q \/ req[p].pc = "idle" \/ req[q].pc = "idle"

Publishing == {"capture_list", "capture", "sweep", "publish", "relabel", "apply", "move",
               "insert_media", "text"}
Approving == {"validate", "create_game", "attach_game", "resolve"} \cup Publishing
Dropping == {"dup_objects", "dup_detach", "dup_delete"}
Reviewing == Approving \cup Dropping \cup {"approve", "preserve", "relabel_rejected"}

NoMedia(g) == \A m \in media : m.game # g

CurrentAt(pc, s) ==
    /\ pc = "insert" => /\ status[s] = "absent"
                        /\ game[Target[s]] = IF s \in NewGame THEN "absent" ELSE "live"
                        /\ \A t \in Subs : ~Lifecycle!InReview(s, t)
    /\ pc \in Reviewing \cup {"presign", "register"} => status[s] = "pending"
    /\ pc \in {"cancel_objects", "cancel_row"} => status[s] \in {"pending", "rejected"}
    /\ pc \in {"award", "credit"} => status[s] = "approved"
    /\ pc \in Approving => s \notin Duplicate
    /\ pc \in Dropping => s \in Duplicate
    /\ pc \in {"create_game", "attach_game"} => s \in NewGame
    /\ pc = "attach_game" => hasSystem[s] /\ game[Target[s]] = "live" /\ NoMedia(Target[s])
    /\ pc \in {"resolve", "sweep"} /\ s \in NewGame =>
          gameOf[s] = Target[s] /\ NoMedia(Target[s])
    /\ pc \in {"capture_list", "capture"} => s \notin NewGame
    /\ pc \in {"apply", "move"} => gameOf[s] # None
Current(p) == CurrentAt(req[p].pc, req[p].sub)

GamesKnown ==
    /\ \A s \in Subs :
          /\ hasSystem[s] => s \in NewGame /\ gameOf[s] = None
          /\ s \in NewGame /\ status[s] = "pending" /\ ~hasSystem[s] => game[Target[s]] # "absent"
          /\ gameOf[s] # None => game[gameOf[s]] = "live"
    /\ \A m \in media : game[m.game] = "live"

SerialInv == Alone /\ GamesKnown /\ \A p \in Procs : Current(p)

Others(p) == \A q \in Procs \ {p} : req'[q] = req[q]

LEMMA GoOthers ==
    ASSUME TypeInv, NEW p \in Procs, NEW r, Go(p, r)
    PROVE  Others(p) /\ req'[p] = r
BY DEF TypeInv, TypeOK, Go, Others

LEMMA DoneOthers ==
    ASSUME TypeInv, NEW p \in Procs, Done(p)
    PROVE  Others(p) /\ req'[p] = Idle
BY DEF TypeInv, TypeOK, Done, Others

LEMMA NextOthers ==
    ASSUME TypeInv, NEW p \in Procs, NEW pc, Next1(p, pc)
    PROVE  Others(p) /\ req'[p] = [req[p] EXCEPT !.pc = pc]
BY GoOthers DEF Next1

LEMMA StartOthers ==
    ASSUME TypeInv, NEW p \in Procs, Start(p)
    PROVE  Others(p) /\ Enter(p) /\ UNCHANGED <<db, bucket, ledger, faults>>
BY GoOthers DEF Start, MetadataUploadURL, CreateMetadataSubmission, CancelMetadataSubmission,
     ApproveMetadataSubmission, RejectMetadataSubmission

LEMMA StepOthers ==
    ASSUME TypeInv, NEW p \in Procs, Step(p)
    PROVE  Others(p) /\ req[p].pc # "idle"
<1> USE GoOthers, DoneOthers, NextOthers
<1>1. CASE UploadURLRegister(p) \/ InsertSubmission(p) \/ RegisterFile(p) \/ RegisterEnd(p)
           \/ CancelObjects(p) \/ CancelRow(p)
  BY <1>1 DEF UploadURLRegister, InsertSubmission, RegisterFile, RegisterEnd, CancelObjects,
       CancelRow, At
<1>2. CASE ValidateApprovedMedia(p) \/ CreateGameFromPayload(p) \/ SetMetadataSubmissionGame(p)
           \/ ResolveMediaRegions(p) \/ CaptureList(p) \/ CaptureOldMedia(p) \/ CaptureCopyFails(p)
           \/ CaptureDone(p) \/ DeleteReplacedMedia(p)
  BY <1>2 DEF ValidateApprovedMedia, CreateGameFromPayload, SetMetadataSubmissionGame,
       ResolveMediaRegions, CaptureList, CaptureOldMedia, CaptureCopyFails, CaptureDone,
       DeleteReplacedMedia, At
<1>3. CASE PublishUpload(p) \/ PublishRelabel(p) \/ ApplyStart(p) \/ ApplyDelete(p)
           \/ ApplyClear(p) \/ ApplyMove(p) \/ ApplyReplace(p) \/ ApplyInsert(p) \/ ApplyText(p)
  BY <1>3 DEF PublishUpload, PublishRelabel, ApplyStart, ApplyDelete, ApplyClear, ApplyMove,
       ApplyReplace, ApplyInsert, ApplyText, At
<1>4. CASE ApproveSetStatus(p) \/ AwardMetadataPoints(p) \/ AwardXP(p) \/ DuplicateObjects(p)
           \/ DuplicateDetach(p) \/ DuplicateDelete(p) \/ PreserveRejectedFile(p)
           \/ RejectRelabel(p) \/ RejectSetStatus(p)
  BY <1>4 DEF ApproveSetStatus, AwardMetadataPoints, AwardXP, DuplicateObjects,
       DuplicateDetach, DuplicateDelete, PreserveRejectedFile, RejectRelabel, RejectSetStatus, At
<1>5. QED
  BY <1>1, <1>2, <1>3, <1>4 DEF Step

\* While one request runs, no other one does.
LEMMA OnlyOne ==
    ASSUME TypeInv, Serial, Alone, NEW p \in Procs, Start(p) \/ Step(p) \/ Abort(p)
    PROVE  Others(p) /\ \A q \in Procs \ {p} : req[q].pc = "idle"
<1>1. CASE Start(p)
  BY <1>1, StartOthers DEF Enter, Quiet
<1>2. CASE Step(p)
  BY <1>2, StepOthers DEF Alone
<1>3. CASE Abort(p)
  BY <1>3, DoneOthers DEF Abort, Alone
<1>4. QED
  BY <1>1, <1>2, <1>3

LEMMA SerialKeeps ==
    ASSUME SerialInv, NEW p \in Procs, Others(p), \A q \in Procs \ {p} : req[q].pc = "idle",
           GamesKnown', Current(p)'
    PROVE  SerialInv'
<1>1. Alone'
  BY DEF Alone, Others
<1>2. ASSUME NEW q \in Procs \ {p} PROVE Current(q)'
  <2>1. req'[q].pc = "idle"
    BY DEF Others
  <2>2. QED
    BY <2>1 DEF Current, CurrentAt, Approving, Publishing, Dropping, Reviewing
<1>3. QED
  BY <1>1, <1>2 DEF SerialInv

\* A step that leaves the tables of games and submissions alone.
LEMMA GamesKept ==
    ASSUME SerialInv, UNCHANGED <<status, gameOf, hasSystem, game>>,
           \A m \in media' : m \in media \/ \E n \in media : m.game = n.game
    PROVE  GamesKnown'
BY DEF SerialInv, GamesKnown

LEMMA IdleCurrent ==
    ASSUME NEW p \in Procs, req'[p] = Idle
    PROVE  Current(p)'
BY DEF Idle, Current, CurrentAt, Approving, Publishing, Dropping, Reviewing

-----------------------------------------------------------------------------
(***************************************************************************)
(* What each step makes of its request, field by field.                    *)
(***************************************************************************)
Is(r, pc, s, list, todo, file, old) ==
    r.pc = pc /\ r.sub = s /\ r.list = list /\ r.todo = todo /\ r.file = file /\ r.old = old

Becomes(p, pc, list, todo, file, old) ==
    Others(p) /\ Is(req'[p], pc, req[p].sub, list, todo, file, old)

Begins(p, pc, s, list, todo, file) ==
    Others(p) /\ Is(req'[p], pc, s, list, todo, file, {})

Ends(p) == Others(p) /\ req'[p] = Idle

LEMMA DoneDoes ==
    ASSUME TypeInv, NEW p \in Procs, Done(p)
    PROVE  Ends(p)
BY DoneOthers DEF Ends

LEMMA RequestIn ==
    ASSUME TypeInv, NEW p \in Procs
    PROVE  req[p] \in Request
BY DEF TypeInv, TypeOK

LEMMA NextDoes ==
    ASSUME TypeInv, NEW p \in Procs, NEW pc, Next1(p, pc)
    PROVE  Becomes(p, pc, req[p].list, req[p].todo, req[p].file, req[p].old)
<1>1. Others(p) /\ req'[p] = [req[p] EXCEPT !.pc = pc]
  BY NextOthers
<1>2. req[p] \in Request
  BY RequestIn
<1>3. QED
  BY <1>1, <1>2 DEF Becomes, Is, Request

NewEntries(fs, region) ==
    {[file |-> f, region |-> region[f],
      key |-> IF f \in Uploads THEN stagingMediaKey(f) ELSE None] : f \in fs}
Owned(s) == {e \in ListFiles(s) : ownedSubmissionUpload(e)}

\* The five requests.
LEMMA StartDoes ==
    ASSUME TypeInv, NEW p \in Procs, Start(p)
    PROVE  \/ \E f \in Uploads : \E r \in RegionsOf[f] :
                /\ status[SubOf[f]] = "pending" /\ row[f] = "unused"
                /\ Begins(p, "presign", SubOf[f], {}, {},
                          [file |-> f, key |-> stagingMediaKey(f), region |-> r])
           \/ \E s \in Subs : \E fs \in SUBSET {f \in Files : SubOf[f] = s} :
                \E region \in [fs -> AnyRegion] :
                  /\ status[s] = "absent" /\ NotPendingYet(s, fs)
                  /\ game[Target[s]] = IF s \in NewGame THEN "absent" ELSE "live"
                  /\ Begins(p, "insert", s, {}, NewEntries(fs, region), None)
           \/ \E s \in Subs :
                \/ /\ status[s] \in {"pending", "rejected"}
                   /\ Begins(p, "cancel_objects", s, {}, Owned(s), None)
                \/ /\ status[s] = "pending"
                   /\ Begins(p, IF s \in Duplicate THEN "dup_objects" ELSE "validate", s,
                             ListFiles(s), {}, None)
                \/ status[s] = "pending" /\ Begins(p, "preserve", s, {}, Owned(s), None)
<1>1. ASSUME NEW f \in Uploads, MetadataUploadURL(p, f)
      PROVE  \E r \in RegionsOf[f] :
                /\ status[SubOf[f]] = "pending" /\ row[f] = "unused"
                /\ Begins(p, "presign", SubOf[f], {}, {},
                          [file |-> f, key |-> stagingMediaKey(f), region |-> r])
  <2>1. /\ status[SubOf[f]] = "pending" /\ row[f] = "unused" /\ Others(p)
        /\ \E r \in RegionsOf[f] :
              req'[p] = [Idle EXCEPT !.pc = "presign", !.sub = SubOf[f],
                           !.file = [file |-> f, key |-> stagingMediaKey(f), region |-> r]]
    BY <1>1, GoOthers DEF MetadataUploadURL
  <2>2. PICK r \in RegionsOf[f] :
              req'[p] = [Idle EXCEPT !.pc = "presign", !.sub = SubOf[f],
                           !.file = [file |-> f, key |-> stagingMediaKey(f), region |-> r]]
    BY <2>1
  <2>3. Begins(p, "presign", SubOf[f], {}, {},
               [file |-> f, key |-> stagingMediaKey(f), region |-> r])
    BY <2>1, <2>2 DEF Begins, Is, Idle
  <2>4. QED
    BY <2>1, <2>3
<1>2. ASSUME NEW s \in Subs, CreateMetadataSubmission(p, s)
      PROVE  \E fs \in SUBSET {f \in Files : SubOf[f] = s} : \E region \in [fs -> AnyRegion] :
                  /\ status[s] = "absent" /\ NotPendingYet(s, fs)
                  /\ game[Target[s]] = IF s \in NewGame THEN "absent" ELSE "live"
                  /\ Begins(p, "insert", s, {}, NewEntries(fs, region), None)
  <2>1. status[s] = "absent" /\ game[Target[s]] = IF s \in NewGame THEN "absent" ELSE "live"
    BY <1>2 DEF CreateMetadataSubmission
  <2>2. PICK fs \in SUBSET {f \in Files : SubOf[f] = s} :
           /\ NotPendingYet(s, fs)
           /\ \E region \in [fs -> AnyRegion] :
                 Go(p, [Idle EXCEPT !.pc = "insert", !.sub = s, !.todo = NewEntries(fs, region)])
    BY <1>2 DEF CreateMetadataSubmission, NewEntries
  <2>3. PICK region \in [fs -> AnyRegion] :
           Go(p, [Idle EXCEPT !.pc = "insert", !.sub = s, !.todo = NewEntries(fs, region)])
    BY <2>2
  <2>4. /\ Others(p)
        /\ req'[p] = [Idle EXCEPT !.pc = "insert", !.sub = s, !.todo = NewEntries(fs, region)]
    BY <2>3, GoOthers
  <2>5. Begins(p, "insert", s, {}, NewEntries(fs, region), None)
    BY <2>4 DEF Begins, Is, Idle
  <2>6. QED
    BY <2>1, <2>2, <2>5
<1>3. ASSUME NEW s \in Subs, CancelMetadataSubmission(p, s)
      PROVE  status[s] \in {"pending", "rejected"} /\ Begins(p, "cancel_objects", s, {}, Owned(s), None)
  <2>1. status[s] \in {"pending", "rejected"}
    BY <1>3 DEF CancelMetadataSubmission, Exists, TypeInv, TypeOK, Statuses
  <2>2. /\ Others(p)
        /\ req'[p] = [Idle EXCEPT !.pc = "cancel_objects", !.sub = s, !.todo = Owned(s)]
    BY <1>3, GoOthers DEF CancelMetadataSubmission, Owned
  <2>3. QED
    BY <2>1, <2>2 DEF Begins, Is, Idle
<1>4. ASSUME NEW s \in Subs, ApproveMetadataSubmission(p, s)
      PROVE  /\ status[s] = "pending"
             /\ Begins(p, IF s \in Duplicate THEN "dup_objects" ELSE "validate", s,
                       ListFiles(s), {}, None)
  <2>1. /\ status[s] = "pending" /\ Others(p)
        /\ req'[p] = [Idle EXCEPT !.pc = IF s \in Duplicate THEN "dup_objects" ELSE "validate",
                                  !.sub = s, !.list = ListFiles(s)]
    BY <1>4, GoOthers DEF ApproveMetadataSubmission
  <2>2. QED
    BY <2>1 DEF Begins, Is, Idle
<1>5. ASSUME NEW s \in Subs, RejectMetadataSubmission(p, s)
      PROVE  status[s] = "pending" /\ Begins(p, "preserve", s, {}, Owned(s), None)
  <2>1. /\ status[s] = "pending" /\ Others(p)
        /\ req'[p] = [Idle EXCEPT !.pc = "preserve", !.sub = s, !.todo = Owned(s)]
    BY <1>5, GoOthers DEF RejectMetadataSubmission, Owned
  <2>2. QED
    BY <2>1 DEF Begins, Is, Idle
<1>6. QED
  BY <1>1, <1>2, <1>3, <1>4, <1>5 DEF Start

LEMMA RegisterFileDoes ==
    ASSUME TypeInv, NEW p \in Procs, RegisterFile(p)
    PROVE  \E e \in req[p].todo :
             /\ \/ /\ e.file \in Uploads /\ e.key \in bucket /\ row[e.file] = "unused"
                   /\ AddFile(e.file, e.key, e.region)
                \/ /\ Op[e.file] = "move"
                   /\ \E m \in MediaExists(req[p].sub, e.file) : AddFile(e.file, m.key, e.region)
                \/ Op[e.file] = "delete" /\ AddFile(e.file, None, e.region)
             /\ Becomes(p, "register", req[p].list, req[p].todo \ {e}, req[p].file, req[p].old)
<1>1. PICK e \in req[p].todo :
             /\ \/ /\ e.file \in Uploads /\ e.key \in bucket /\ row[e.file] = "unused"
                   /\ AddFile(e.file, e.key, e.region)
                \/ /\ Op[e.file] = "move"
                   /\ \E m \in MediaExists(req[p].sub, e.file) : AddFile(e.file, m.key, e.region)
                \/ Op[e.file] = "delete" /\ AddFile(e.file, None, e.region)
             /\ Go(p, [req[p] EXCEPT !.todo = @ \ {e}])
  BY DEF RegisterFile, ensureUploaded
<1>2. req[p].pc = "register" /\ req[p] \in Request
  BY RequestIn DEF RegisterFile, At
<1>3. Others(p) /\ req'[p] = [req[p] EXCEPT !.todo = @ \ {e}]
  BY <1>1, GoOthers
<1>4. Becomes(p, "register", req[p].list, req[p].todo \ {e}, req[p].file, req[p].old)
  BY <1>2, <1>3 DEF Becomes, Is, Request
<1>5. QED
  BY <1>1, <1>4

LEMMA CancelObjectsDoes ==
    ASSUME TypeInv, NEW p \in Procs, CancelObjects(p)
    PROVE  Becomes(p, "cancel_row", req[p].list, {}, req[p].file, req[p].old)
<1>1. Others(p) /\ req'[p] = [req[p] EXCEPT !.pc = "cancel_row", !.todo = {}]
  BY GoOthers DEF CancelObjects
<1>2. req[p] \in Request
  BY RequestIn
<1>3. QED
  BY <1>1, <1>2 DEF Becomes, Is, Request

LEMMA ValidateDoes ==
    ASSUME TypeInv, NEW p \in Procs, ValidateApprovedMedia(p)
    PROVE  \/ Ends(p)
           \/ Becomes(p, IF req[p].sub \in NewGame THEN "create_game" ELSE "resolve",
                      req[p].list, req[p].todo, req[p].file, req[p].old)
BY DoneDoes, NextDoes DEF ValidateApprovedMedia

LEMMA ResolveDoes ==
    ASSUME TypeInv, NEW p \in Procs, ResolveMediaRegions(p)
    PROVE  Becomes(p, IF req[p].sub \in NewGame THEN "sweep" ELSE "capture_list",
                   {[e EXCEPT !.region = RegionAfter(req[p].sub, e.file)] :
                       e \in ListFiles(req[p].sub)},
                   req[p].todo, req[p].file, req[p].old)
<1> DEFINE l == {[e EXCEPT !.region = RegionAfter(req[p].sub, e.file)] :
                       e \in ListFiles(req[p].sub)}
           pc == IF req[p].sub \in NewGame THEN "sweep" ELSE "capture_list"
<1>1. Others(p) /\ req'[p] = [req[p] EXCEPT !.pc = pc, !.list = l]
  BY GoOthers DEF ResolveMediaRegions
<1>2. req[p] \in Request
  BY RequestIn
<1> HIDE DEF l, pc
<1>3. Becomes(p, pc, l, req[p].todo, req[p].file, req[p].old)
  BY <1>1, <1>2 DEF Becomes, Is, Request
<1>4. QED
  BY <1>3 DEF l, pc

LEMMA CaptureListDoes ==
    ASSUME TypeInv, NEW p \in Procs, CaptureList(p)
    PROVE  Becomes(p, "capture", req[p].list, req[p].todo, req[p].file,
                   Replaced(req[p].sub, req[p].list))
<1>1. Others(p) /\ req'[p] = [req[p] EXCEPT !.pc = "capture",
                                !.old = Replaced(req[p].sub, req[p].list)]
  BY GoOthers DEF CaptureList
<1>2. req[p] \in Request
  BY RequestIn
<1>3. QED
  BY <1>1, <1>2 DEF Becomes, Is, Request

LEMMA CaptureOldMediaDoes ==
    ASSUME TypeInv, NEW p \in Procs, CaptureOldMedia(p)
    PROVE  \E m \in req[p].old :
             /\ bucket' = IF m.key \in bucket
                          THEN (bucket \ {m.key}) \cup {historyKey(m.key)} ELSE bucket
             /\ Becomes(p, "capture", req[p].list, req[p].todo, req[p].file, req[p].old \ {m})
<1>1. PICK m \in req[p].old :
             /\ bucket' = IF m.key \in bucket
                          THEN (bucket \ {m.key}) \cup {historyKey(m.key)} ELSE bucket
             /\ Go(p, [req[p] EXCEPT !.old = @ \ {m}])
  BY DEF CaptureOldMedia
<1>2. req[p].pc = "capture" /\ req[p] \in Request
  BY RequestIn DEF CaptureOldMedia, At
<1>3. Others(p) /\ req'[p] = [req[p] EXCEPT !.old = @ \ {m}]
  BY <1>1, GoOthers
<1>4. Becomes(p, "capture", req[p].list, req[p].todo, req[p].file, req[p].old \ {m})
  BY <1>2, <1>3 DEF Becomes, Is, Request
<1>5. QED
  BY <1>1, <1>4

LEMMA CaptureCopyFailsDoes ==
    ASSUME TypeInv, NEW p \in Procs, CaptureCopyFails(p)
    PROVE  \E m \in req[p].old :
             /\ uncopied' = uncopied \cup {m.key.file}
             /\ Becomes(p, "capture", req[p].list, req[p].todo, req[p].file, req[p].old \ {m})
<1>1. PICK m \in req[p].old :
             /\ uncopied' = uncopied \cup {m.key.file}
             /\ Go(p, [req[p] EXCEPT !.old = @ \ {m}])
  BY DEF CaptureCopyFails
<1>2. req[p].pc = "capture" /\ req[p] \in Request
  BY RequestIn DEF CaptureCopyFails, At
<1>3. Others(p) /\ req'[p] = [req[p] EXCEPT !.old = @ \ {m}]
  BY <1>1, GoOthers
<1>4. Becomes(p, "capture", req[p].list, req[p].todo, req[p].file, req[p].old \ {m})
  BY <1>2, <1>3 DEF Becomes, Is, Request
<1>5. QED
  BY <1>1, <1>4

LEMMA DeleteReplacedMediaDoes ==
    ASSUME TypeInv, NEW p \in Procs, DeleteReplacedMedia(p)
    PROVE  LET s == req[p].sub  es == ListFiles(s) IN
           \/ Ends(p) /\ bucket' = bucket
           \/ /\ bucket' = bucket \ ObjectKeys(Replaced(s, es))
              /\ Becomes(p, "publish", req[p].list, UploadsOf(es), req[p].file, req[p].old)
<1> DEFINE s == req[p].sub
           es == ListFiles(s)
<1>1. \/ Done(p) /\ bucket' = bucket
      \/ /\ bucket' = bucket \ ObjectKeys(Replaced(s, es))
         /\ Go(p, [req[p] EXCEPT !.pc = "publish", !.todo = UploadsOf(es)])
  BY DEF DeleteReplacedMedia
<1>2. req[p] \in Request
  BY RequestIn
<1>3. CASE Done(p) /\ bucket' = bucket
  BY <1>3, DoneDoes
<1>4. CASE /\ bucket' = bucket \ ObjectKeys(Replaced(s, es))
           /\ Go(p, [req[p] EXCEPT !.pc = "publish", !.todo = UploadsOf(es)])
  <2>1. Others(p) /\ req'[p] = [req[p] EXCEPT !.pc = "publish", !.todo = UploadsOf(es)]
    BY <1>4, GoOthers
  <2>2. Becomes(p, "publish", req[p].list, UploadsOf(es), req[p].file, req[p].old)
    BY <1>2, <2>1 DEF Becomes, Is, Request
  <2>3. QED
    BY <1>4, <2>2
<1>5. QED
  BY <1>1, <1>3, <1>4

LEMMA PublishUploadDoes ==
    ASSUME TypeInv, NEW p \in Procs, PublishUpload(p)
    PROVE  \E e \in req[p].todo :
             \/ e.key \notin bucket /\ bucket' = bucket /\ Ends(p)
             \/ /\ e.key \in bucket
                /\ \E n \in Fresh(e.file) : LET dest == immutableMediaKey(e.file, n) IN
                      /\ \/ bucket' = bucket \cup {dest}
                         \/ bucket' = (bucket \ {e.key}) \cup {dest}
                      /\ Becomes(p, "relabel", req[p].list, req[p].todo \ {e},
                                 [e EXCEPT !.key = dest], req[p].old)
<1>1. PICK e \in req[p].todo :
         IF e.key \notin bucket
         THEN Done(p) /\ bucket' = bucket
         ELSE \E n \in Fresh(e.file) :
                LET dest == immutableMediaKey(e.file, n) IN
                /\ bucket' \in {bucket \cup {dest}, (bucket \ {e.key}) \cup {dest}}
                /\ Go(p, [req[p] EXCEPT !.pc = "relabel", !.file = [e EXCEPT !.key = dest],
                                        !.todo = @ \ {e}])
  BY DEF PublishUpload
<1>2. CASE e.key \notin bucket
  BY <1>1, <1>2, DoneDoes
<1>3. CASE e.key \in bucket
  <2>1. PICK n \in Fresh(e.file) :
          LET dest == immutableMediaKey(e.file, n) IN
                /\ bucket' \in {bucket \cup {dest}, (bucket \ {e.key}) \cup {dest}}
                /\ Go(p, [req[p] EXCEPT !.pc = "relabel", !.file = [e EXCEPT !.key = dest],
                                        !.todo = @ \ {e}])
    BY <1>1, <1>3
  <2> DEFINE f == [e EXCEPT !.key = immutableMediaKey(e.file, n)]
  <2>2. /\ Others(p)
        /\ req'[p] = [req[p] EXCEPT !.pc = "relabel", !.file = f, !.todo = req[p].todo \ {e}]
    BY <2>1, GoOthers
  <2>3. req[p] \in Request
    BY RequestIn
  <2> HIDE DEF f
  <2>4. Becomes(p, "relabel", req[p].list, req[p].todo \ {e}, f, req[p].old)
    BY <2>2, <2>3 DEF Becomes, Is, Request
  <2>5. QED
    BY <1>3, <2>1, <2>4 DEF f
<1>4. QED
  BY <1>2, <1>3

LEMMA PublishRelabelDoes ==
    ASSUME TypeInv, NEW p \in Procs, PublishRelabel(p)
    PROVE  Becomes(p, "publish", req[p].list, req[p].todo, None, req[p].old)
<1>1. Others(p) /\ req'[p] = [req[p] EXCEPT !.pc = "publish", !.file = None]
  BY GoOthers DEF PublishRelabel
<1>2. req[p] \in Request
  BY RequestIn
<1>3. QED
  BY <1>1, <1>2 DEF Becomes, Is, Request

LEMMA ApplyStartDoes ==
    ASSUME TypeInv, NEW p \in Procs, ApplyStart(p)
    PROVE  LET s == req[p].sub IN
           \/ Ends(p)
           \/ Becomes(p, IF gameOf[s] = None THEN "text" ELSE "apply", {},
                      ListFiles(s) \ UploadsOf(ListFiles(s)), req[p].file, req[p].old)
<1> DEFINE s == req[p].sub
           todo == ListFiles(s) \ UploadsOf(ListFiles(s))
           pc == IF gameOf[s] = None THEN "text" ELSE "apply"
<1>1. CASE Done(p)
  BY <1>1, DoneDoes
<1>2. CASE Go(p, [req[p] EXCEPT !.pc = pc, !.list = {}, !.todo = todo])
  <2>1. Others(p) /\ req'[p] = [req[p] EXCEPT !.pc = pc, !.list = {}, !.todo = todo]
    BY <1>2, GoOthers
  <2>2. req[p] \in Request
    BY RequestIn
  <2> HIDE DEF todo, pc
  <2>3. Becomes(p, pc, {}, todo, req[p].file, req[p].old)
    BY <2>1, <2>2 DEF Becomes, Is, Request
  <2>4. QED
    BY <2>3 DEF todo, pc
<1>3. QED
  BY <1>1, <1>2 DEF ApplyStart

LEMMA ApplyDeleteDoes ==
    ASSUME TypeInv, NEW p \in Procs, ApplyDelete(p)
    PROVE  \E e \in req[p].todo :
             /\ Op[e.file] = "delete"
             /\ media' = media \ Replaced(req[p].sub, {e})
             /\ Becomes(p, "apply", req[p].list, req[p].todo \ {e}, req[p].file, req[p].old)
<1>1. PICK e \in req[p].todo :
             /\ Op[e.file] = "delete"
             /\ media' = media \ Replaced(req[p].sub, {e})
             /\ Go(p, [req[p] EXCEPT !.todo = @ \ {e}])
  BY DEF ApplyDelete
<1>2. req[p].pc = "apply" /\ req[p] \in Request
  BY RequestIn DEF ApplyDelete, At
<1>3. Others(p) /\ req'[p] = [req[p] EXCEPT !.todo = @ \ {e}]
  BY <1>1, GoOthers
<1>4. Becomes(p, "apply", req[p].list, req[p].todo \ {e}, req[p].file, req[p].old)
  BY <1>2, <1>3 DEF Becomes, Is, Request
<1>5. QED
  BY <1>1, <1>4

LEMMA ApplyClearDoes ==
    ASSUME TypeInv, NEW p \in Procs, ApplyClear(p)
    PROVE  \E e \in req[p].todo :
             /\ Op[e.file] = "move"
             /\ media' = {m \in media : m \notin Replaced(req[p].sub, {e}) \/ m.key = e.key}
             /\ Becomes(p, "move", req[p].list, req[p].todo \ {e}, e, req[p].old)
<1>1. PICK e \in req[p].todo :
             /\ Op[e.file] = "move"
             /\ media' = {m \in media : m \notin Replaced(req[p].sub, {e}) \/ m.key = e.key}
             /\ Go(p, [req[p] EXCEPT !.pc = "move", !.file = e, !.todo = @ \ {e}])
  BY DEF ApplyClear
<1>2. req[p].pc = "apply" /\ req[p] \in Request
  BY RequestIn DEF ApplyClear, At
<1>3. Others(p) /\ req'[p] = [req[p] EXCEPT !.pc = "move", !.file = e, !.todo = @ \ {e}]
  BY <1>1, GoOthers
<1>4. Becomes(p, "move", req[p].list, req[p].todo \ {e}, e, req[p].old)
  BY <1>2, <1>3 DEF Becomes, Is, Request
<1>5. QED
  BY <1>1, <1>4

LEMMA ApplyMoveDoes ==
    ASSUME TypeInv, NEW p \in Procs, ApplyMove(p)
    PROVE  Becomes(p, "apply", req[p].list, req[p].todo, None, req[p].old)
<1>1. Others(p) /\ req'[p] = [req[p] EXCEPT !.pc = "apply", !.file = None]
  BY GoOthers DEF ApplyMove
<1>2. req[p] \in Request
  BY RequestIn
<1>3. QED
  BY <1>1, <1>2 DEF Becomes, Is, Request

LEMMA PreserveRejectedFileDoes ==
    ASSUME TypeInv, NEW p \in Procs, PreserveRejectedFile(p)
    PROVE  \E e \in req[p].todo :
             LET moved == rejectedObjectKey(e.key) IN
             \/ bucket' = bucket /\ Ends(p)
             \/ /\ bucket' = (bucket \ {e.key}) \cup {moved}
                /\ Becomes(p, "relabel_rejected", req[p].list, req[p].todo \ {e},
                           [e EXCEPT !.key = moved], req[p].old)
<1>1. PICK e \in req[p].todo :
         LET moved == rejectedObjectKey(e.key) IN
         IF e.key \notin bucket
         THEN Done(p) /\ bucket' = bucket
         ELSE /\ bucket' = (bucket \ {e.key}) \cup {moved}
              /\ Go(p, [req[p] EXCEPT !.pc = "relabel_rejected", !.todo = @ \ {e},
                                      !.file = [e EXCEPT !.key = moved]])
  BY DEF PreserveRejectedFile
<1> DEFINE f == [e EXCEPT !.key = rejectedObjectKey(e.key)]
           todo == req[p].todo \ {e}
<1>2. CASE bucket' = bucket /\ Done(p)
  BY <1>2, DoneDoes
<1>3. CASE /\ bucket' = (bucket \ {e.key}) \cup {rejectedObjectKey(e.key)}
           /\ Go(p, [req[p] EXCEPT !.pc = "relabel_rejected", !.todo = todo, !.file = f])
  <2>1. /\ Others(p)
        /\ req'[p] = [req[p] EXCEPT !.pc = "relabel_rejected", !.todo = todo, !.file = f]
    BY <1>3, GoOthers
  <2>2. req[p] \in Request
    BY RequestIn
  <2> HIDE DEF f, todo
  <2>3. Becomes(p, "relabel_rejected", req[p].list, todo, f, req[p].old)
    BY <2>1, <2>2 DEF Becomes, Is, Request
  <2>4. QED
    BY <1>3, <2>3 DEF f, todo
<1>4. QED
  BY <1>1, <1>2, <1>3

LEMMA RejectRelabelDoes ==
    ASSUME TypeInv, NEW p \in Procs, RejectRelabel(p)
    PROVE  Becomes(p, "preserve", req[p].list, req[p].todo, None, req[p].old)
<1>1. Others(p) /\ req'[p] = [req[p] EXCEPT !.pc = "preserve", !.file = None]
  BY GoOthers DEF RejectRelabel
<1>2. req[p] \in Request
  BY RequestIn
<1>3. QED
  BY <1>1, <1>2 DEF Becomes, Is, Request
-----------------------------------------------------------------------------
\* A review that begins finds its submission in review.
LEMMA CreateCurrent ==
    ASSUME TypeInv, SerialInv, NEW s \in Subs, NEW fs \in SUBSET Files, NotPendingYet(s, fs),
           s \in NewGame => game[Target[s]] = "absent", NEW t \in Subs
    PROVE  ~Lifecycle!InReview(s, t)
<1> SUFFICES ASSUME Lifecycle!InReview(s, t) PROVE FALSE
  OBVIOUS
<1>1. status[t] = "pending" /\ UserOf[s] = UserOf[t] /\ t \in PendingOf(s)
  BY DEF Lifecycle!InReview, PendingOf
<1>2. CASE s \in NewGame /\ t \in NewGame /\ Target[s] = Target[t]
  <2>1. ~hasSystem[t]
    BY <1>1, <1>2 DEF NotPendingYet
  <2>2. QED
    BY <1>1, <1>2, <2>1 DEF SerialInv, GamesKnown
<1>3. CASE s \notin NewGame /\ t \notin NewGame /\ gameOf[t] = Target[s]
           /\ Fields[s] \cap Fields[t] # {}
  <2> DEFINE ts == {u \in PendingOf(s) \ NewGame : gameOf[u] = Target[s]}
             Own(u) == Fields[u] \cup {KindOf[f] : f \in Rows(u)}
  <2>1. PICK x \in Fields[s] : x \in Own(t)
    BY <1>3
  <2>2. t \in ts
    BY <1>1, <1>3
  <2>3. pendingSubmissionKeys(s) = UNION {Own(u) : u \in ts}
    BY DEF pendingSubmissionKeys
  <2> HIDE DEF ts, Own
  <2>4. x \in pendingSubmissionKeys(s)
    BY <2>1, <2>2, <2>3
  <2>5. QED
    BY <1>3, <2>1, <2>4 DEF NotPendingYet
<1>4. QED
  BY <1>2, <1>3 DEF Lifecycle!InReview

LEMMA StartCurrent ==
    ASSUME TypeInv, SerialInv, NEW p \in Procs, Start(p)
    PROVE  Current(p)'
<1> USE DEF Begins, Is, Current, CurrentAt, Approving, Publishing, Dropping, Reviewing
<1>1. UNCHANGED <<status, gameOf, hasSystem, game, media>>
  BY StartOthers DEF db, subsTable, games
<1>2. ASSUME NEW s \in Subs, NEW fs \in SUBSET {f \in Files : SubOf[f] = s},
             status[s] = "absent", NotPendingYet(s, fs),
             game[Target[s]] = IF s \in NewGame THEN "absent" ELSE "live",
             req'[p].pc = "insert", req'[p].sub = s
      PROVE  Current(p)'
  <2>1. ASSUME NEW t \in Subs PROVE (~Lifecycle!InReview(s, t))'
    <3>1. ~Lifecycle!InReview(s, t)
      BY <1>2, CreateCurrent
    <3>2. QED
      BY <1>1, <3>1 DEF Lifecycle!InReview
  <2>2. QED
    BY <1>1, <1>2, <2>1
<1>3. ASSUME NEW s \in Subs, status[s] \in {"pending", "rejected"},
             req'[p].pc = "cancel_objects", req'[p].sub = s
      PROVE  Current(p)'
  BY <1>1, <1>3
<1>4. ASSUME NEW s \in Subs, status[s] = "pending",
             req'[p].pc \in {"presign", "preserve", IF s \in Duplicate THEN "dup_objects" ELSE "validate"},
             req'[p].sub = s
      PROVE  Current(p)'
  BY <1>1, <1>4
<1>5. \A f \in Uploads : SubOf[f] \in Subs
  BY MetadataReviewAssumption DEF Uploads
<1> HIDE DEF Current
<1>6. QED
  BY <1>2, <1>3, <1>4, <1>5, StartDoes

\* Steps that touch rows, objects and reads only.
Quietly(p) ==
    \/ UploadURLRegister(p) \/ RegisterFile(p) \/ RegisterEnd(p) \/ CancelObjects(p)
    \/ ValidateApprovedMedia(p) \/ ResolveMediaRegions(p)
    \/ CaptureList(p) \/ CaptureOldMedia(p) \/ CaptureCopyFails(p) \/ CaptureDone(p)
    \/ DeleteReplacedMedia(p) \/ PublishUpload(p) \/ PublishRelabel(p)
    \/ ApplyStart(p) \/ ApplyText(p) \/ AwardMetadataPoints(p) \/ AwardXP(p)
    \/ DuplicateObjects(p) \/ PreserveRejectedFile(p) \/ RejectRelabel(p)

LEMMA QuietFrame ==
    ASSUME NEW p, Quietly(p)
    PROVE  UNCHANGED <<status, gameOf, hasSystem, game, media>>
BY DEF Quietly, RegisterEnd, CancelObjects, ValidateApprovedMedia, ResolveMediaRegions, 
     CaptureList, CaptureOldMedia, CaptureCopyFails, CaptureDone, DeleteReplacedMedia, 
     PublishUpload, PublishRelabel, ApplyStart, ApplyText, AwardMetadataPoints, 
     AwardXP, DuplicateObjects, PreserveRejectedFile, RejectRelabel, 
     UploadURLRegister, RegisterFile, db, subsTable, games

\* Where a quiet step takes its request.
QuietMoves ==
    {<<"register", "register">>, <<"cancel_objects", "cancel_row">>,
     <<"capture_list", "capture">>, <<"capture", "capture">>, <<"capture", "sweep">>,
     <<"sweep", "publish">>, <<"publish", "relabel">>, <<"relabel", "publish">>,
     <<"publish", "text">>, <<"text", "approve">>, <<"award", "credit">>,
     <<"dup_objects", "dup_detach">>, <<"preserve", "relabel_rejected">>,
     <<"relabel_rejected", "preserve">>}

LEMMA QuietDoes ==
    ASSUME TypeInv, NEW p \in Procs, Quietly(p)
    PROVE  \/ req'[p] = Idle
           \/ /\ req'[p].sub = req[p].sub
              /\ \/ <<req[p].pc, req'[p].pc>> \in QuietMoves
                 \/ /\ req[p].pc = "publish" /\ req'[p].pc = "apply"
                    /\ gameOf[req[p].sub] # None
                 \/ /\ req[p].pc = "validate"
                    /\ req'[p].pc = IF req[p].sub \in NewGame THEN "create_game" ELSE "resolve"
                 \/ /\ req[p].pc = "resolve"
                    /\ req'[p].pc = IF req[p].sub \in NewGame THEN "sweep" ELSE "capture_list"
<1> USE DEF At, QuietMoves, Becomes, Is, Ends
<1>1. CASE RegisterEnd(p)
  BY <1>1, DoneDoes, NextDoes DEF RegisterEnd
<1>2. CASE CancelObjects(p)
  BY <1>2, CancelObjectsDoes DEF CancelObjects
<1>3. CASE ValidateApprovedMedia(p)
  BY <1>3, ValidateDoes DEF ValidateApprovedMedia
<1>4. CASE ResolveMediaRegions(p)
  BY <1>4, ResolveDoes DEF ResolveMediaRegions
<1>5. CASE CaptureList(p)
  BY <1>5, CaptureListDoes DEF CaptureList
<1>6. CASE CaptureOldMedia(p)
  BY <1>6, CaptureOldMediaDoes DEF CaptureOldMedia
<1>7. CASE CaptureCopyFails(p)
  BY <1>7, CaptureCopyFailsDoes DEF CaptureCopyFails
<1>8. CASE CaptureDone(p)
  BY <1>8, DoneDoes, NextDoes DEF CaptureDone
<1>9. CASE DeleteReplacedMedia(p)
  BY <1>9, DeleteReplacedMediaDoes DEF DeleteReplacedMedia
<1>10. CASE PublishUpload(p)
  BY <1>10, PublishUploadDoes DEF PublishUpload
<1>11. CASE PublishRelabel(p)
  BY <1>11, PublishRelabelDoes DEF PublishRelabel
<1>12. CASE ApplyStart(p)
  BY <1>12, ApplyStartDoes DEF ApplyStart
<1>13. CASE ApplyText(p)
  BY <1>13, DoneDoes, NextDoes DEF ApplyText
<1>14. CASE AwardMetadataPoints(p)
  BY <1>14, DoneDoes, NextDoes DEF AwardMetadataPoints
<1>15. CASE AwardXP(p)
  BY <1>15, DoneDoes, NextDoes DEF AwardXP
<1>16. CASE DuplicateObjects(p)
  BY <1>16, DoneDoes, NextDoes DEF DuplicateObjects
<1>17. CASE PreserveRejectedFile(p)
  BY <1>17, PreserveRejectedFileDoes DEF PreserveRejectedFile
<1>18. CASE RejectRelabel(p)
  BY <1>18, RejectRelabelDoes DEF RejectRelabel
<1>19. CASE UploadURLRegister(p)
  BY <1>19, DoneDoes, NextDoes DEF UploadURLRegister
<1>20. CASE RegisterFile(p)
  BY <1>20, RegisterFileDoes DEF RegisterFile
<1>21. QED
  BY <1>1, <1>2, <1>3, <1>4, <1>5, <1>6, <1>7, <1>8, <1>9, <1>10, <1>11, <1>12,
     <1>13, <1>14, <1>15, <1>16, <1>17, <1>18, <1>19, <1>20 DEF Quietly

LEMMA QuietCurrent ==
    ASSUME TypeInv, SerialInv, NEW p \in Procs, Quietly(p)
    PROVE  Current(p)' /\ GamesKnown'
<1>1. UNCHANGED <<status, gameOf, hasSystem, game, media>>
  BY QuietFrame
<1>2. CurrentAt(req[p].pc, req[p].sub)
  BY DEF SerialInv, Current
<1>3. CASE req'[p] = Idle
  BY <1>1, <1>3, IdleCurrent, GamesKept
<1>4. ASSUME req'[p].sub = req[p].sub, req'[p].pc # "insert",
             \/ <<req[p].pc, req'[p].pc>> \in QuietMoves
             \/ req[p].pc = "publish" /\ req'[p].pc = "apply" /\ gameOf[req[p].sub] # None
             \/ /\ req[p].pc = "validate"
                /\ req'[p].pc = IF req[p].sub \in NewGame THEN "create_game" ELSE "resolve"
             \/ /\ req[p].pc = "resolve"
                /\ req'[p].pc = IF req[p].sub \in NewGame THEN "sweep" ELSE "capture_list"
      PROVE  Current(p)'
  <2>1. PICK pc, s : pc = req'[p].pc /\ s = req[p].sub
    OBVIOUS
  <2>2. CurrentAt(pc, s) /\ pc # "insert"
    BY <1>2, <1>4, <2>1 DEF QuietMoves, CurrentAt, Approving, Publishing, Dropping, Reviewing
  <2>3. CurrentAt(pc, s)'
    BY <1>1, <2>2 DEF CurrentAt, NoMedia
  <2>4. QED
    BY <1>4, <2>1, <2>3 DEF Current
<1>5. GamesKnown'
  BY <1>1, GamesKept
<1>6. QED
  BY <1>3, <1>4, <1>5, QuietDoes DEF QuietMoves
\* Steps that change media rows and no other table.
LEMMA ApplyCurrent ==
    ASSUME TypeInv, SerialInv, NEW p \in Procs,
           ApplyDelete(p) \/ ApplyClear(p) \/ ApplyMove(p) \/ ApplyReplace(p) \/ ApplyInsert(p)
    PROVE  Current(p)' /\ GamesKnown'
<1>1. UNCHANGED <<status, gameOf, hasSystem, game>>
  BY DEF ApplyDelete, ApplyClear, ApplyMove, ApplyReplace, ApplyInsert, subsTable, games
<1>2. CurrentAt(req[p].pc, req[p].sub)
  BY DEF SerialInv, Current
<1>3. \/ req'[p] = Idle
      \/ /\ req'[p].sub = req[p].sub
         /\ <<req[p].pc, req'[p].pc>> \in
               {<<"apply", "apply">>, <<"apply", "move">>, <<"move", "apply">>,
                <<"apply", "insert_media">>, <<"insert_media", "text">>}
  <2> USE DEF At, Becomes, Is, Ends
  <2>1. CASE ApplyDelete(p)
    BY <2>1, ApplyDeleteDoes DEF ApplyDelete
  <2>2. CASE ApplyClear(p)
    BY <2>2, ApplyClearDoes DEF ApplyClear
  <2>3. CASE ApplyMove(p)
    BY <2>3, ApplyMoveDoes DEF ApplyMove
  <2>4. CASE ApplyReplace(p)
    BY <2>4, NextDoes DEF ApplyReplace
  <2>5. CASE ApplyInsert(p)
    BY <2>5, NextDoes, DoneDoes DEF ApplyInsert
  <2>6. QED
    BY <2>1, <2>2, <2>3, <2>4, <2>5
<1>4. Current(p)'
  <2>1. CASE req'[p] = Idle
    BY <2>1, IdleCurrent
  <2>2. CASE req'[p].sub = req[p].sub /\ req'[p] # Idle
    <3>1. PICK pc, s : pc = req'[p].pc /\ s = req[p].sub
      OBVIOUS
    <3>2. CurrentAt(pc, s) /\ pc \in {"apply", "move", "insert_media", "text"}
      BY <1>2, <1>3, <2>2, <3>1 DEF CurrentAt, Approving, Publishing, Dropping, Reviewing
    <3>3. CurrentAt(pc, s)'
      BY <1>1, <3>2 DEF CurrentAt, Approving, Publishing, Dropping, Reviewing
    <3>4. QED
      BY <2>2, <3>1, <3>3 DEF Current
  <2>3. QED
    BY <1>3, <2>1, <2>2
<1>5. ASSUME NEW m \in media' PROVE game[m.game] = "live"
  <2>1. CASE ApplyDelete(p) \/ ApplyClear(p) \/ ApplyReplace(p)
    BY <2>1 DEF ApplyDelete, ApplyClear, ApplyReplace, SerialInv, GamesKnown
  <2>2. CASE ApplyMove(p)
    <3>1. \/ m \in media
          \/ \E n \in media : m = [n EXCEPT !.region = req[p].file.region]
      BY <2>2 DEF ApplyMove, ListMediaByGame
    <3>2. \E n \in media : m.game = n.game
      BY <3>1, MediaAre DEF Media
    <3>3. QED
      BY <3>2 DEF SerialInv, GamesKnown
  <2>3. CASE ApplyInsert(p)
    <3>1. m \in media \/ (m.game = gameOf[req[p].sub] /\ gameOf[req[p].sub] # None)
      BY <2>3 DEF ApplyInsert
    <3>2. req[p].sub \in Subs
      BY <2>3, SubType DEF ApplyInsert, At
    <3>3. QED
      BY <3>1, <3>2 DEF SerialInv, GamesKnown
  <2>4. QED
    BY <2>1, <2>2, <2>3
<1>6. GamesKnown'
  BY <1>1, <1>5 DEF SerialInv, GamesKnown
<1>7. QED
  BY <1>4, <1>6

\* A creation gives the submission its status and its game.
LEMMA InsertCurrent ==
    ASSUME TypeInv, SerialInv, NEW p \in Procs, InsertSubmission(p)
    PROVE  Current(p)' /\ GamesKnown'
<1> DEFINE s == req[p].sub
<1>1. /\ req[p].pc = "insert" /\ s \in Subs
      /\ status' = [status EXCEPT ![s] = "pending"]
      /\ gameOf' = [gameOf EXCEPT ![s] = IF s \in NewGame THEN None ELSE Target[s]]
      /\ hasSystem' = [hasSystem EXCEPT ![s] = s \in NewGame]
      /\ UNCHANGED <<game, media>>
  BY SubType DEF InsertSubmission, At, games
<1>2. status[s] = "absent" /\ game[Target[s]] = IF s \in NewGame THEN "absent" ELSE "live"
  BY <1>1 DEF SerialInv, Current, CurrentAt
<1>3. req'[p].pc = "register" /\ req'[p].sub = s
  BY NextDoes DEF InsertSubmission, Becomes, Is
<1>4. status' \in [Subs -> Statuses] /\ status'[s] = "pending"
  BY <1>1 DEF TypeInv, TypeOK, Statuses
<1>5. Current(p)'
  BY <1>3, <1>4 DEF Current, CurrentAt, Approving, Publishing, Dropping, Reviewing
<1>6. ASSUME NEW t \in Subs
      PROVE  /\ hasSystem'[t] => t \in NewGame /\ gameOf'[t] = None
             /\ t \in NewGame /\ status'[t] = "pending" /\ ~hasSystem'[t] => game[Target[t]] # "absent"
             /\ gameOf'[t] # None => game[gameOf'[t]] = "live"
  <2>1. CASE t = s
    BY <1>1, <1>2, <2>1 DEF TypeInv, TypeOK
  <2>2. CASE t # s
    BY <1>1, <2>2 DEF TypeInv, TypeOK, SerialInv, GamesKnown
  <2>3. QED
    BY <2>1, <2>2
<1>7. GamesKnown'
  BY <1>1, <1>6 DEF SerialInv, GamesKnown
<1>8. QED
  BY <1>5, <1>7

\* A status changes and nothing of the games does.
LEMMA StatusCurrent ==
    ASSUME TypeInv, SerialInv, NEW p \in Procs,
           CancelRow(p) \/ ApproveSetStatus(p) \/ RejectSetStatus(p)
    PROVE  Current(p)' /\ GamesKnown'
<1> DEFINE s == req[p].sub
<1>1. UNCHANGED <<gameOf, hasSystem, game, media>> /\ s \in Subs
  BY SubType DEF CancelRow, ApproveSetStatus, RejectSetStatus, games, At
<1>2. \A t \in Subs : status'[t] = "pending" => status[t] = "pending"
  BY <1>1 DEF CancelRow, ApproveSetStatus, RejectSetStatus, SetMetadataStatusForAdmin,
       TypeInv, TypeOK
<1>3. GamesKnown'
  BY <1>1, <1>2 DEF SerialInv, GamesKnown
<1>4. Current(p)'
  <2>1. CASE req'[p] = Idle
    BY <2>1, IdleCurrent
  <2>2. CASE req'[p] # Idle
    <3>1. /\ ApproveSetStatus(p) /\ Next1(p, "award") /\ Exists(s)
          /\ SetMetadataStatusForAdmin(s, "approved")
      BY <2>2, DoneDoes DEF CancelRow, ApproveSetStatus, RejectSetStatus, Ends
    <3>2. req'[p].pc = "award" /\ req'[p].sub = s
      BY <3>1, NextDoes DEF Becomes, Is
    <3>3. status'[s] = "approved"
      BY <1>1, <3>1 DEF SetMetadataStatusForAdmin, TypeInv, TypeOK
    <3>4. QED
      BY <3>2, <3>3 DEF Current, CurrentAt, Approving, Publishing, Dropping, Reviewing
  <2>3. QED
    BY <2>1, <2>2
<1>5. QED
  BY <1>3, <1>4

\* A new game comes to life and its submission is attached to it.
LEMMA GameCurrent ==
    ASSUME TypeInv, SerialInv, NEW p \in Procs,
           CreateGameFromPayload(p) \/ SetMetadataSubmissionGame(p)
    PROVE  Current(p)' /\ GamesKnown'
<1> DEFINE s == req[p].sub
<1>1. s \in Subs /\ UNCHANGED <<status, media>> /\ Target[s] \in Games
  BY SubType, MetadataReviewAssumption
     DEF CreateGameFromPayload, SetMetadataSubmissionGame, At, subsTable
<1>2. CurrentAt(req[p].pc, s)
  BY DEF SerialInv, Current
<1>3. CASE CreateGameFromPayload(p)
  <2>1. req[p].pc = "create_game" /\ UNCHANGED <<gameOf, hasSystem>>
    BY <1>3 DEF CreateGameFromPayload, At, subsTable
  <2>2. CASE hasSystem[s] /\ game[Target[s]] = "absent"
    <3>1. game' = [game EXCEPT ![Target[s]] = "live"] /\ Next1(p, "attach_game")
      BY <1>3, <2>2 DEF CreateGameFromPayload
    <3>2. req'[p].pc = "attach_game" /\ req'[p].sub = s
      BY <3>1, NextDoes DEF Becomes, Is
    <3>3. game'[Target[s]] = "live" /\ \A g \in Games : game[g] = "live" => game'[g] = "live"
      BY <1>1, <3>1 DEF TypeInv, TypeOK
    <3>4. \A g \in Games : game[g] # "absent" => game'[g] # "absent"
      BY <1>1, <3>1 DEF TypeInv, TypeOK
    <3>5. NoMedia(Target[s])
      BY <2>2 DEF SerialInv, GamesKnown, NoMedia
    <3>6. Current(p)'
      BY <1>1, <1>2, <2>1, <2>2, <3>2, <3>3, <3>5
         DEF Current, NoMedia, CurrentAt, Approving, Publishing, Dropping, Reviewing
    <3>7. \A t \in Subs : gameOf[t] # None => gameOf[t] \in Games
      BY DEF TypeInv, TypeOK
    <3>8. GamesKnown'
      BY <1>1, <2>1, <3>3, <3>4, <3>7, MediaAre, MetadataReviewAssumption
         DEF SerialInv, GamesKnown, Media
    <3>9. QED
      BY <3>6, <3>8
  <2>3. CASE ~(hasSystem[s] /\ game[Target[s]] = "absent")
    <3>1. req'[p] = Idle /\ UNCHANGED game
      BY <1>3, <2>3, DoneDoes DEF CreateGameFromPayload, Ends, games
    <3>2. QED
      BY <1>1, <2>1, <3>1, IdleCurrent, GamesKept
  <2>4. QED
    BY <2>2, <2>3
<1>4. CASE SetMetadataSubmissionGame(p)
  <2>1. /\ req[p].pc = "attach_game" /\ Next1(p, "resolve") /\ UNCHANGED game
        /\ gameOf' = [gameOf EXCEPT ![s] = Target[s]]
        /\ hasSystem' = [hasSystem EXCEPT ![s] = FALSE]
    BY <1>4 DEF SetMetadataSubmissionGame, At, games
  <2>2. req'[p].pc = "resolve" /\ req'[p].sub = s
    BY <2>1, NextDoes DEF Becomes, Is
  <2>3. game[Target[s]] = "live" /\ NoMedia(Target[s])
    BY <1>2, <2>1 DEF CurrentAt
  <2>4. gameOf'[s] = Target[s] /\ hasSystem'[s] = FALSE
    BY <1>1, <2>1 DEF TypeInv, TypeOK
  <2>5. Current(p)'
    BY <1>1, <1>2, <2>1, <2>2, <2>3, <2>4 DEF Current, NoMedia, CurrentAt, Approving, Publishing, Dropping, Reviewing
  <2>6. ASSUME NEW t \in Subs
        PROVE  /\ hasSystem'[t] => t \in NewGame /\ gameOf'[t] = None
               /\ t \in NewGame /\ status'[t] = "pending" /\ ~hasSystem'[t] => game'[Target[t]] # "absent"
               /\ gameOf'[t] # None => game'[gameOf'[t]] = "live"
    <3>1. CASE t = s
      BY <1>1, <2>1, <2>3, <2>4, <3>1
    <3>2. CASE t # s
      BY <1>1, <2>1, <3>2 DEF TypeInv, TypeOK, SerialInv, GamesKnown
    <3>3. QED
      BY <3>1, <3>2
  <2>7. GamesKnown'
    BY <1>1, <2>1, <2>6 DEF SerialInv, GamesKnown
  <2>8. QED
    BY <2>5, <2>7
<1>5. QED
  BY <1>3, <1>4

\* A duplicate game lets go of its submissions and goes with its media rows.
LEMMA DropCurrent ==
    ASSUME TypeInv, SerialInv, NEW p \in Procs, DuplicateDetach(p) \/ DuplicateDelete(p)
    PROVE  Current(p)' /\ GamesKnown'
<1> DEFINE s == req[p].sub
<1>1. s \in Subs /\ UNCHANGED <<status, hasSystem>> /\ Target[s] \in Games
  BY SubType, MetadataReviewAssumption DEF DuplicateDetach, DuplicateDelete, At
<1>2. CurrentAt(req[p].pc, s) /\ req[p].pc \in Dropping
  BY DEF SerialInv, Current, DuplicateDetach, DuplicateDelete, At, Dropping
<1>3. /\ req'[p].sub = s
      /\ req'[p].pc = IF DuplicateDelete(p) THEN "approve" ELSE "dup_delete"
  BY NextDoes DEF DuplicateDetach, DuplicateDelete, Becomes, Is, At
<1>4. Current(p)'
  BY <1>1, <1>2, <1>3 DEF Current, CurrentAt, Approving, Publishing, Dropping, Reviewing
<1>5. PICK g : /\ gameOf' = [t \in Subs |-> IF gameOf[t] = g THEN None ELSE gameOf[t]]
               /\ \/ UNCHANGED <<game, media>>
                  \/ /\ g \in Games /\ game' = [game EXCEPT ![g] = "deleted"]
                     /\ media' = media \ ListMediaByGame(g)
  BY <1>1 DEF DuplicateDetach, DuplicateDelete, games
<1>6. \A h \in Games : h # g => game'[h] = game[h]
  BY <1>5 DEF TypeInv, TypeOK
<1>7. \A h \in Games : game[h] # "absent" => game'[h] # "absent"
  BY <1>5 DEF TypeInv, TypeOK
<1>8. ASSUME NEW t \in Subs
      PROVE  /\ hasSystem'[t] => t \in NewGame /\ gameOf'[t] = None
             /\ t \in NewGame /\ status'[t] = "pending" /\ ~hasSystem'[t] => game'[Target[t]] # "absent"
             /\ gameOf'[t] # None => game'[gameOf'[t]] = "live"
  <2>1. Target[t] \in Games /\ gameOf[t] \in Games \cup {None}
    BY MetadataReviewAssumption DEF TypeInv, TypeOK
  <2>2. gameOf'[t] = IF gameOf[t] = g THEN None ELSE gameOf[t]
    BY <1>5
  <2>3. QED
    BY <1>1, <1>6, <1>7, <2>1, <2>2 DEF SerialInv, GamesKnown
<1>9. ASSUME NEW m \in media' PROVE game'[m.game] = "live"
  <2>1. m \in media /\ m.game \in Games
    BY <1>5, MediaAre DEF Media
  <2>2. m.game # g \/ UNCHANGED game
    BY <1>5, <2>1 DEF ListMediaByGame
  <2>3. QED
    BY <1>6, <2>1, <2>2 DEF SerialInv, GamesKnown
<1>10. GamesKnown'
  BY <1>8, <1>9 DEF GamesKnown
<1>11. QED
  BY <1>4, <1>10

LEMMA SerialStep == Serial /\ TypeInv /\ SerialInv /\ [Next]_vars => SerialInv'
<1> SUFFICES ASSUME Serial, TypeInv, SerialInv, [Next]_vars PROVE SerialInv'
  OBVIOUS
<1>1. ASSUME NEW p \in Procs, Start(p) \/ Step(p) \/ Abort(p) PROVE SerialInv'
  <2>1. Others(p) /\ \A q \in Procs \ {p} : req[q].pc = "idle"
    BY <1>1, OnlyOne DEF SerialInv
  <2>2. Current(p)' /\ GamesKnown'
    <3>1. CASE Start(p)
      <4>1. UNCHANGED <<status, gameOf, hasSystem, game, media>>
        BY <3>1, StartOthers DEF db, subsTable, games
      <4>2. QED
        BY <3>1, <4>1, StartCurrent, GamesKept
    <3>2. CASE Step(p)
      BY <3>2, QuietCurrent, ApplyCurrent, InsertCurrent, StatusCurrent, GameCurrent, DropCurrent
         DEF Step, Quietly
    <3>3. CASE Abort(p)
      BY <3>3, DoneOthers, IdleCurrent, GamesKept DEF Abort, db, subsTable, games
    <3>4. QED
      BY <1>1, <3>1, <3>2, <3>3
  <2>3. QED
    BY <2>1, <2>2, SerialKeeps
<1>2. CASE Browser \/ UNCHANGED vars
  <2>1. UNCHANGED <<status, gameOf, hasSystem, game, media, req>>
    BY <1>2 DEF Browser, MetadataUploadURLPre, BrowserUpload, vars, db, subsTable, games
  <2>2. ASSUME NEW q \in Procs PROVE Current(q)'
    <3>1. PICK pc, s : pc = req[q].pc /\ s = req[q].sub
      OBVIOUS
    <3>2. CurrentAt(pc, s)
      BY <3>1 DEF SerialInv, Current
    <3>3. CurrentAt(pc, s)'
      BY <2>1, <3>2 DEF CurrentAt, NoMedia, Lifecycle!InReview
    <3>4. QED
      BY <2>1, <3>1, <3>3 DEF Current
  <2>3. QED
    BY <2>1, <2>2, GamesKept DEF SerialInv, Alone
<1>3. QED
  BY <1>1, <1>2 DEF Next

LEMMA SerialInit == Init => SerialInv
<1> SUFFICES ASSUME Init PROVE SerialInv
  OBVIOUS
<1>1. \A p \in Procs : req[p] = Idle
  BY DEF Init
<1>2. Alone /\ \A p \in Procs : Current(p)
  BY <1>1 DEF Alone, Idle, Current, CurrentAt, Approving, Publishing, Dropping, Reviewing
<1>3. GamesKnown
  BY DEF Init, GamesKnown
<1>4. QED
  BY <1>2, <1>3 DEF SerialInv
LEMMA SerialInvHolds ==
    ASSUME Serial
    PROVE  Spec => []SerialInv
<1>1. TypeInv /\ SerialInv /\ [Next]_vars => SerialInv'
  BY SerialStep
<1>2. QED
  BY <1>1, SerialInit, TypeInvHolds, PTL DEF Spec

-----------------------------------------------------------------------------
(***************************************************************************)
(* Every step moves one contribution along its lifecycle, or none.         *)
(***************************************************************************)
LEMMA NoLifecycle ==
    ASSUME UNCHANGED <<status, gameOf>>
    PROVE  [Lifecycle!Next]_(Lifecycle!vars)
BY DEF Lifecycle!vars

LEMMA LifecycleStep ==
    ASSUME Serial, TypeInv, SerialInv, NEW p \in Procs, Step(p)
    PROVE  [Lifecycle!Next]_(Lifecycle!vars)
<1> DEFINE s == req[p].sub
<1>1. s \in Subs /\ CurrentAt(req[p].pc, s)
  BY StepOthers, SubType DEF SerialInv, Current
<1>2. CASE InsertSubmission(p)
  <2>1. Lifecycle!Create(s)
    BY <1>1, <1>2 DEF InsertSubmission, At, CurrentAt, Lifecycle!Create, Lifecycle!Move
  <2>2. QED
    BY <1>1, <2>1 DEF Lifecycle!Next
<1>3. CASE CancelRow(p)
  <2>1. Lifecycle!Cancel(s)
    BY <1>1, <1>3 DEF CancelRow, At, CurrentAt, Lifecycle!Cancel, Lifecycle!Move
  <2>2. QED
    BY <1>1, <2>1 DEF Lifecycle!Next
<1>4. CASE SetMetadataSubmissionGame(p)
  <2>1. Lifecycle!Attach(s)
    BY <1>1, <1>4 DEF SetMetadataSubmissionGame, At, Lifecycle!Attach, SerialInv, GamesKnown,
       CurrentAt, Approving, Publishing, Dropping, Reviewing
  <2>2. QED
    BY <1>1, <2>1 DEF Lifecycle!Next
<1>5. CASE ApproveSetStatus(p) \/ RejectSetStatus(p)
  <2>1. PICK to \in {"approved", "rejected"} : SetMetadataStatusForAdmin(s, to)
    BY <1>5 DEF ApproveSetStatus, RejectSetStatus
  <2>2. status[s] = "pending" /\ UNCHANGED gameOf
    BY <1>1, <1>5 DEF ApproveSetStatus, RejectSetStatus, At, CurrentAt, Approving, Publishing, Dropping, Reviewing
  <2>3. Lifecycle!Decide(s, to)
    BY <2>1, <2>2 DEF SetMetadataStatusForAdmin, Exists, Lifecycle!Decide, Lifecycle!Move
  <2>4. QED
    BY <1>1, <2>3 DEF Lifecycle!Next
<1>6. CASE DuplicateDetach(p)
  <2>1. CASE gameOf[s] = None
    <3>1. gameOf' = gameOf
      BY <1>6, <2>1 DEF DuplicateDetach, TypeInv, TypeOK
    <3>2. QED
      BY <1>6, <3>1, NoLifecycle DEF DuplicateDetach
  <2>2. CASE gameOf[s] # None
    <3>1. gameOf[s] \in Games
      BY <1>1, <2>2 DEF TypeInv, TypeOK
    <3>2. Lifecycle!Detach(gameOf[s])
      BY <1>6 DEF DuplicateDetach, Lifecycle!Detach
    <3>3. QED
      BY <3>1, <3>2 DEF Lifecycle!Next
  <2>3. QED
    BY <2>1, <2>2
<1>7. CASE DuplicateDelete(p)
  <2>1. Target[s] \in Games
    BY <1>1, MetadataReviewAssumption
  <2>2. Lifecycle!Detach(Target[s])
    BY <1>7 DEF DuplicateDelete, Lifecycle!Detach
  <2>3. QED
    BY <2>1, <2>2 DEF Lifecycle!Next
<1>8. CASE Quietly(p)
  BY <1>8, QuietFrame, NoLifecycle
<1>9. CASE \/ CreateGameFromPayload(p) \/ ApplyDelete(p) \/ ApplyClear(p) \/ ApplyMove(p)
           \/ ApplyReplace(p) \/ ApplyInsert(p)
  BY <1>9, NoLifecycle
     DEF CreateGameFromPayload, ApplyDelete, ApplyClear, ApplyMove, ApplyReplace, ApplyInsert,
         subsTable
<1>10. QED
  BY <1>2, <1>3, <1>4, <1>5, <1>6, <1>7, <1>8, <1>9 DEF Step, Quietly

LEMMA LifecycleNext ==
    ASSUME Serial, TypeInv, SerialInv, [Next]_vars
    PROVE  [Lifecycle!Next]_(Lifecycle!vars)
<1>1. CASE Browser \/ UNCHANGED vars
  BY <1>1, NoLifecycle
     DEF Browser, MetadataUploadURLPre, BrowserUpload, vars, db, subsTable
<1>2. ASSUME NEW p \in Procs, Start(p) \/ Abort(p)
      PROVE  [Lifecycle!Next]_(Lifecycle!vars)
  BY <1>2, StartOthers, NoLifecycle DEF Abort, db, subsTable
<1>3. QED
  BY <1>1, <1>2, LifecycleStep DEF Next

\* Handlers that run one after the other, cut short and tried again as may be,
\* take every contribution through the lifecycle its owner and the reviewers
\* rely on: one decision, an approval is final, and a user's texts in review for
\* one game never overlap.
THEOREM LifecycleImplemented == Serial => (Spec => ImplementsLifecycle)
<1>1. SUFFICES ASSUME Serial PROVE Spec => ImplementsLifecycle
  OBVIOUS
<1>2. Init => Lifecycle!Init
  BY DEF Init, Lifecycle!Init
<1>3. TypeInv /\ SerialInv /\ [Next]_vars => [Lifecycle!Next]_(Lifecycle!vars)
  BY <1>1, LifecycleNext
<1>4. Spec => []TypeInv /\ []SerialInv
  BY <1>1, TypeInvHolds, SerialInvHolds
<1>5. QED
  BY <1>2, <1>3, <1>4, PTL DEF Spec, ImplementsLifecycle, Lifecycle!Spec
-----------------------------------------------------------------------------
(***************************************************************************)
(* The keys of an upload, in its row or in the hands of a request, are     *)
(* always its own: staging keys while it waits, a canonical one once it is *)
(* published, a rejected one after a rejection, also with requests that    *)
(* overlap.                                                                *)
(***************************************************************************)
OwnedKey(k, f) == k.file = f /\ k.gen = 0 /\ k.area = ""

OwnRow(f) ==
    row[f] = "live" =>
       /\ rowKey[f].file = f
       /\ rowKey[f].area = "" \/ (rowKey[f].area = "rejected" /\ rowKey[f].gen = 0)

OwnRequest(r) ==
    /\ r.pc \in {"insert", "register"} =>
          \A e \in r.todo : e.file \in Uploads => OwnedKey(e.key, e.file)
    /\ r.pc = "presign" => OwnedKey(r.file.key, r.file.file)
    /\ r.pc \in {"preserve", "relabel_rejected", "cancel_objects"} =>
          \A e \in r.todo : OwnedKey(e.key, e.file)
    /\ r.pc \in {"publish", "relabel"} => \A e \in r.todo : e.key.file = e.file
    /\ r.pc = "relabel" => Canonical(r.file.key) /\ r.file.key.file = r.file.file
    /\ r.pc = "relabel_rejected" =>
          r.file.key.file = r.file.file /\ r.file.key.gen = 0 /\ r.file.key.area = "rejected"

OwnKeys == (\A f \in Uploads : OwnRow(f)) /\ \A p \in Procs : OwnRequest(req[p])

LEMMA OwnKept ==
    ASSUME OwnKeys, NEW p \in Procs, Others(p), OwnRequest(req'[p]), \A f \in Uploads : OwnRow(f)'
    PROVE  OwnKeys'
<1>1. ASSUME NEW q \in Procs PROVE OwnRequest(req'[q])
  BY DEF OwnKeys, Others
<1>2. QED
  BY <1>1 DEF OwnKeys, OwnRequest

LEMMA FreePc ==
    ASSUME NEW r, r.pc \notin {"insert", "register", "presign", "preserve", "relabel_rejected",
                               "cancel_objects", "publish", "relabel"}
    PROVE  OwnRequest(r)
BY DEF OwnRequest

LEMMA ImmutableParts ==
    ASSUME NEW f \in Uploads, NEW n \in 1..MaxGen
    PROVE  Canonical(immutableMediaKey(f, n)) /\ immutableMediaKey(f, n).file = f
BY MetadataReviewAssumption DEF Canonical, immutableMediaKey

LEMMA RejectedParts ==
    ASSUME NEW k \in Keys
    PROVE  /\ rejectedObjectKey(k).file = k.file /\ rejectedObjectKey(k).gen = k.gen
           /\ rejectedObjectKey(k).area = "rejected"
BY DEF Keys, rejectedObjectKey

LEMMA ListedOwn ==
    ASSUME OwnKeys, NEW s
    PROVE  /\ \A e \in Owned(s) : OwnedKey(e.key, e.file)
           /\ \A e \in UploadsOf(ListFiles(s)) : e.key.file = e.file
<1>1. ASSUME NEW f \in Rows(s), f \in Uploads
      PROVE  AsEntry(f).key.file = AsEntry(f).file
  BY <1>1 DEF OwnKeys, OwnRow, Rows, AsEntry
<1>2. \A e \in ListFiles(s) : e.file \in Uploads => e.key.file = e.file
  <2>1. ASSUME NEW f \in Rows(s), AsEntry(f).file \in Uploads
        PROVE  AsEntry(f).key.file = AsEntry(f).file
    BY <1>1, <2>1 DEF AsEntry
  <2>2. QED
    BY <2>1 DEF ListFiles
<1>3. QED
  BY <1>2 DEF Owned, ownedSubmissionUpload, OwnedKey, UploadsOf

LEMMA StartOwn ==
    ASSUME TypeInv, OwnKeys, NEW p \in Procs, Start(p)
    PROVE  OwnKeys'
<1> USE DEF Begins, Is
<1>1. Others(p) /\ UNCHANGED <<row, rowKey>>
  BY StartOthers DEF db, files
<1>2. \A f \in Uploads : OwnRow(f)'
  BY <1>1 DEF OwnKeys, OwnRow
<1>3. ASSUME NEW f \in Uploads, NEW r,
             Begins(p, "presign", SubOf[f], {}, {},
                    [file |-> f, key |-> stagingMediaKey(f), region |-> r])
      PROVE  OwnRequest(req'[p])
  <2> DEFINE k == stagingMediaKey(f)
             e == [file |-> f, key |-> k, region |-> r]
  <2>1. OwnedKey(k, f)
    BY DEF OwnedKey, stagingMediaKey
  <2>2. e.key = k /\ e.file = f
    OBVIOUS
  <2> HIDE DEF k, e
  <2>3. req'[p].pc = "presign" /\ req'[p].file = e
    BY <1>3 DEF k, e
  <2>4. QED
    BY <2>1, <2>2, <2>3 DEF OwnRequest
<1>4. ASSUME NEW s, NEW fs, NEW region, Begins(p, "insert", s, {}, NewEntries(fs, region), None)
      PROVE  OwnRequest(req'[p])
  <2>1. ASSUME NEW e \in NewEntries(fs, region), e.file \in Uploads PROVE OwnedKey(e.key, e.file)
    <3>1. PICK f \in fs : e = [file |-> f, region |-> region[f],
                               key |-> IF f \in Uploads THEN stagingMediaKey(f) ELSE None]
      BY <2>1 DEF NewEntries
    <3>2. e.file = f /\ e.key = stagingMediaKey(f)
      BY <2>1, <3>1
    <3>3. OwnedKey(stagingMediaKey(f), f)
      BY DEF OwnedKey, stagingMediaKey
    <3>4. QED
      BY <3>2, <3>3
  <2>2. QED
    BY <1>4, <2>1 DEF OwnRequest
<1>5. ASSUME NEW s \in Subs, Begins(p, "cancel_objects", s, {}, Owned(s), None)
                             \/ Begins(p, "preserve", s, {}, Owned(s), None)
      PROVE  OwnRequest(req'[p])
  BY <1>5, ListedOwn DEF OwnRequest
<1>6. ASSUME NEW s, Begins(p, IF s \in Duplicate THEN "dup_objects" ELSE "validate", s,
                           ListFiles(s), {}, None)
      PROVE  OwnRequest(req'[p])
  BY <1>6, FreePc
<1> HIDE DEF Begins
<1>7. OwnRequest(req'[p])
  BY <1>3, <1>4, <1>5, <1>6, StartDoes
<1>8. QED
  BY <1>1, <1>2, <1>7, OwnKept

\* A row registered for an upload carries a key of that upload; a row a new one
\* replaces is gone.
LEMMA AddFileOwn ==
    ASSUME TypeInv, OwnKeys, NEW f \in Files, NEW key, NEW region, AddFile(f, key, region),
           f \in Uploads => OwnedKey(key, f)
    PROVE  \A g \in Uploads : OwnRow(g)'
<1> SUFFICES ASSUME NEW g \in Uploads PROVE OwnRow(g)'
  OBVIOUS
<1>1. g \in Files
  BY DEF Uploads
<1>2. CASE g = f
  BY <1>1, <1>2 DEF AddFile, OwnRow, OwnedKey, TypeInv, TypeOK
<1>3. CASE g # f
  BY <1>1, <1>3 DEF AddFile, OwnKeys, OwnRow, TypeInv, TypeOK
<1>4. QED
  BY <1>2, <1>3

LEMMA RegisterOwn ==
    ASSUME TypeInv, OwnKeys, NEW p \in Procs, UploadURLRegister(p) \/ RegisterFile(p)
    PROVE  OwnKeys'
<1>1. CASE UploadURLRegister(p)
  <2>1. req'[p] = Idle /\ Others(p)
    BY <1>1, DoneOthers DEF UploadURLRegister
  <2>2. req[p].file.file \in Uploads /\ OwnedKey(req[p].file.key, req[p].file.file)
    BY <1>1, RequestParts DEF UploadURLRegister, At, OwnKeys, OwnRequest, RequestFine, FilePCs,
       UploadEntry
  <2>3. \A f \in Uploads : OwnRow(f)'
    <3>1. CASE UNCHANGED files
      BY <3>1 DEF files, OwnKeys, OwnRow
    <3>2. CASE AddFile(req[p].file.file, req[p].file.key, req[p].file.region)
      BY <2>2, <3>2, AddFileOwn DEF Uploads
    <3>3. QED
      BY <1>1, <3>1, <3>2 DEF UploadURLRegister
  <2>4. QED
    BY <2>1, <2>3, OwnKept, FreePc DEF Idle
<1>2. CASE RegisterFile(p)
  <2>1. PICK e \in req[p].todo :
           /\ \E key : AddFile(e.file, key, e.region) /\ (e.file \in Uploads => key = e.key)
           /\ Becomes(p, "register", req[p].list, req[p].todo \ {e}, req[p].file, req[p].old)
    BY <1>2, RegisterFileDoes DEF Uploads
  <2>2. /\ req[p].pc = "register" /\ e.file \in Files
        /\ \A x \in req[p].todo : x.file \in Uploads => OwnedKey(x.key, x.file)
    BY <1>2, RequestParts DEF RegisterFile, At, Entry, OwnKeys, OwnRequest
  <2>3. \A f \in Uploads : OwnRow(f)'
    <3>1. PICK key : AddFile(e.file, key, e.region) /\ (e.file \in Uploads => key = e.key)
      BY <2>1
    <3>2. e.file \in Uploads => OwnedKey(key, e.file)
      BY <2>2, <3>1
    <3>3. QED
      BY <2>2, <3>1, <3>2, AddFileOwn
  <2>4. OwnRequest(req'[p])
    BY <2>1, <2>2 DEF Becomes, Is, OwnRequest
  <2>5. QED
    BY <2>1, <2>3, <2>4, OwnKept DEF Becomes
<1>3. QED
  BY <1>1, <1>2

LEMMA RelabelOwn ==
    ASSUME TypeInv, OwnKeys, NEW p \in Procs, PublishRelabel(p) \/ RejectRelabel(p)
    PROVE  OwnKeys'
<1> DEFINE e == req[p].file
<1>1. /\ e.file \in Uploads /\ e.key.file = e.file
      /\ e.key.area = "" \/ (e.key.area = "rejected" /\ e.key.gen = 0)
  BY RequestParts DEF PublishRelabel, RejectRelabel, At, OwnKeys, OwnRequest, RequestFine,
     FilePCs, UploadEntry, Canonical
<1>2. \A f \in Uploads : OwnRow(f)'
  <2>1. /\ rowKey' = [rowKey EXCEPT ![e.file] = IF row[e.file] = "live" THEN e.key ELSE @]
        /\ UNCHANGED row /\ rowKey \in [Files -> Keys \cup {None}]
    BY DEF PublishRelabel, RejectRelabel, TypeInv, TypeOK
  <2>2. ASSUME NEW g \in Uploads PROVE OwnRow(g)'
    <3>1. g \in Files /\ OwnRow(g)
      BY DEF Uploads, OwnKeys
    <3>2. rowKey'[g] = IF g = e.file /\ row[g] = "live" THEN e.key ELSE rowKey[g]
      BY <2>1, <3>1
    <3>3. QED
      BY <1>1, <2>1, <3>1, <3>2 DEF OwnRow
  <2>3. QED
    BY <2>2
<1>3. Others(p) /\ OwnRequest(req'[p])
  <2>1. CASE PublishRelabel(p)
    BY <2>1, PublishRelabelDoes DEF Becomes, Is, PublishRelabel, At, OwnKeys, OwnRequest
  <2>2. CASE RejectRelabel(p)
    BY <2>2, RejectRelabelDoes DEF Becomes, Is, RejectRelabel, At, OwnKeys, OwnRequest
  <2>3. QED
    BY <2>1, <2>2
<1>4. QED
  BY <1>2, <1>3, OwnKept

LEMMA MoveObjectOwn ==
    ASSUME TypeInv, OwnKeys, NEW p \in Procs,
           DeleteReplacedMedia(p) \/ PublishUpload(p) \/ PreserveRejectedFile(p)
    PROVE  OwnRequest(req'[p])
<1>0. OwnRequest(req[p]) /\ OwnRequest(Idle)
  BY FreePc DEF OwnKeys, Idle
<1>1. CASE DeleteReplacedMedia(p)
  BY <1>0, <1>1, DeleteReplacedMediaDoes, ListedOwn DEF Becomes, Is, Ends, OwnRequest
<1>2. CASE PublishUpload(p)
  <2>1. req[p].pc = "publish" /\ req[p].todo \subseteq UploadEntry
    BY <1>2, RequestParts DEF PublishUpload, At, RequestFine, TodoPCs
  <2>2. CASE Ends(p)
    BY <1>0, <2>2 DEF Ends
  <2>3. CASE ~Ends(p)
    <3>1. PICK e \in req[p].todo : \E n \in Fresh(e.file) :
             Becomes(p, "relabel", req[p].list, req[p].todo \ {e},
                     [e EXCEPT !.key = immutableMediaKey(e.file, n)], req[p].old)
      BY <1>2, <2>3, PublishUploadDoes
    <3>2. PICK n \in 1..MaxGen :
             Becomes(p, "relabel", req[p].list, req[p].todo \ {e},
                     [e EXCEPT !.key = immutableMediaKey(e.file, n)], req[p].old)
      BY <3>1 DEF Fresh
    <3>3. e \in Entry /\ e.file \in Uploads
      BY <2>1 DEF UploadEntry
    <3> DEFINE k == immutableMediaKey(e.file, n)
    <3>4. Canonical(k) /\ k.file = e.file
      BY <3>3, ImmutableParts
    <3> HIDE DEF k
    <3>5. [e EXCEPT !.key = k].key = k /\ [e EXCEPT !.key = k].file = e.file
      BY <3>3 DEF Entry
    <3>6. QED
      BY <1>0, <2>1, <3>2, <3>4, <3>5 DEF Becomes, Is, OwnRequest, k
  <2>4. QED
    BY <2>2, <2>3
<1>3. CASE PreserveRejectedFile(p)
  <2>1. req[p].pc = "preserve" /\ req[p].todo \subseteq UploadEntry
    BY <1>3, RequestParts DEF PreserveRejectedFile, At, RequestFine, TodoPCs
  <2>2. CASE Ends(p)
    BY <1>0, <2>2 DEF Ends
  <2>3. CASE ~Ends(p)
    <3>1. PICK e \in req[p].todo :
             Becomes(p, "relabel_rejected", req[p].list, req[p].todo \ {e},
                     [e EXCEPT !.key = rejectedObjectKey(e.key)], req[p].old)
      BY <1>3, <2>3, PreserveRejectedFileDoes
    <3>2. e \in Entry /\ e.key \in Keys /\ OwnedKey(e.key, e.file)
      BY <1>0, <2>1 DEF UploadEntry, OwnRequest
    <3> DEFINE k == rejectedObjectKey(e.key)
    <3>3. k.file = e.file /\ k.gen = 0 /\ k.area = "rejected"
      BY <3>2, RejectedParts DEF OwnedKey
    <3> HIDE DEF k
    <3>4. [e EXCEPT !.key = k].key = k /\ [e EXCEPT !.key = k].file = e.file
      BY <3>2 DEF Entry
    <3>5. QED
      BY <1>0, <2>1, <3>1, <3>3, <3>4 DEF Becomes, Is, OwnRequest, k
  <2>4. QED
    BY <2>2, <2>3
<1>4. QED
  BY <1>1, <1>2, <1>3

LEMMA StepOwn ==
    ASSUME TypeInv, OwnKeys, NEW p \in Procs, Step(p)
    PROVE  OwnKeys'
<1>0. Others(p) /\ OwnRequest(req[p]) /\ OwnRequest(Idle)
  BY StepOthers, FreePc DEF OwnKeys, Idle
<1>1. CASE UploadURLRegister(p) \/ RegisterFile(p) \/ PublishRelabel(p) \/ RejectRelabel(p)
  BY <1>1, RegisterOwn, RelabelOwn
<1>2. ASSUME UNCHANGED rowKey, \A f \in Uploads : row'[f] = "live" => row[f] = "live",
             OwnRequest(req'[p])
      PROVE  OwnKeys'
  BY <1>0, <1>2, OwnKept DEF OwnKeys, OwnRow
<1>3. CASE InsertSubmission(p) \/ RegisterEnd(p) \/ CancelObjects(p) \/ CancelRow(p)
  <2>1. UNCHANGED rowKey /\ \A f \in Uploads : row'[f] = "live" => row[f] = "live"
    BY <1>3 DEF InsertSubmission, RegisterEnd, CancelObjects, CancelRow, db, files, Uploads
  <2>2. OwnRequest(req'[p])
    <3>1. CASE InsertSubmission(p)
      BY <1>0, <3>1, NextDoes DEF InsertSubmission, At, Becomes, Is, OwnRequest
    <3>2. CASE RegisterEnd(p) \/ CancelRow(p)
      BY <1>0, <3>2, DoneOthers DEF RegisterEnd, CancelRow
    <3>3. CASE CancelObjects(p)
      BY <3>3, CancelObjectsDoes, FreePc DEF Becomes, Is
    <3>4. QED
      BY <1>3, <3>1, <3>2, <3>3
  <2>3. QED
    BY <1>2, <2>1, <2>2
<1>4. CASE DeleteReplacedMedia(p) \/ PublishUpload(p) \/ PreserveRejectedFile(p)
  <2>1. UNCHANGED <<row, rowKey>>
    BY <1>4 DEF DeleteReplacedMedia, PublishUpload, PreserveRejectedFile, db, files
  <2>2. QED
    BY <1>2, <1>4, <2>1, MoveObjectOwn
<1>5. CASE \/ ValidateApprovedMedia(p) \/ CreateGameFromPayload(p) \/ SetMetadataSubmissionGame(p)
           \/ ResolveMediaRegions(p) \/ CaptureList(p) \/ CaptureOldMedia(p) \/ CaptureCopyFails(p)
           \/ CaptureDone(p)
  <2>1. UNCHANGED <<row, rowKey>>
    BY <1>5 DEF ValidateApprovedMedia, CreateGameFromPayload, SetMetadataSubmissionGame,
       ResolveMediaRegions, CaptureList, CaptureOldMedia, CaptureCopyFails, CaptureDone, db, files
  <2>2. \/ req'[p] = Idle
        \/ req'[p].pc \in {"create_game", "attach_game", "resolve", "sweep", "capture_list", "capture"}
    <3> USE DEF Becomes, Is, Ends
    <3>1. CASE ValidateApprovedMedia(p) \/ ResolveMediaRegions(p)
      BY <3>1, ValidateDoes, ResolveDoes
    <3>2. CASE CreateGameFromPayload(p) \/ SetMetadataSubmissionGame(p) \/ CaptureDone(p)
      BY <3>2, DoneDoes, NextDoes DEF CreateGameFromPayload, SetMetadataSubmissionGame, CaptureDone
    <3>3. CASE CaptureList(p) \/ CaptureOldMedia(p) \/ CaptureCopyFails(p)
      BY <3>3, CaptureListDoes, CaptureOldMediaDoes, CaptureCopyFailsDoes
    <3>4. QED
      BY <1>5, <3>1, <3>2, <3>3
  <2>3. QED
    BY <1>0, <1>2, <2>1, <2>2, FreePc
<1>6. CASE \/ ApplyStart(p) \/ ApplyDelete(p) \/ ApplyClear(p) \/ ApplyMove(p) \/ ApplyReplace(p)
           \/ ApplyInsert(p) \/ ApplyText(p)
  <2>1. UNCHANGED <<row, rowKey>>
    BY <1>6 DEF ApplyStart, ApplyDelete, ApplyClear, ApplyMove, ApplyReplace, ApplyInsert,
       ApplyText, db, files
  <2>2. req'[p] = Idle \/ req'[p].pc \in {"apply", "move", "insert_media", "text", "approve"}
    <3> USE DEF Becomes, Is, Ends
    <3>1. CASE ApplyStart(p) \/ ApplyDelete(p) \/ ApplyClear(p) \/ ApplyMove(p)
      BY <3>1, ApplyStartDoes, ApplyDeleteDoes, ApplyClearDoes, ApplyMoveDoes
    <3>2. CASE ApplyReplace(p) \/ ApplyInsert(p) \/ ApplyText(p)
      BY <3>2, DoneDoes, NextDoes DEF ApplyReplace, ApplyInsert, ApplyText
    <3>3. QED
      BY <1>6, <3>1, <3>2
  <2>3. QED
    BY <1>0, <1>2, <2>1, <2>2, FreePc
<1>7. CASE \/ ApproveSetStatus(p) \/ AwardMetadataPoints(p) \/ AwardXP(p) \/ DuplicateObjects(p)
           \/ DuplicateDetach(p) \/ DuplicateDelete(p) \/ RejectSetStatus(p)
  <2>1. UNCHANGED <<row, rowKey>>
    BY <1>7 DEF ApproveSetStatus, AwardMetadataPoints, AwardXP, DuplicateObjects, DuplicateDetach,
       DuplicateDelete, RejectSetStatus, db, files
  <2>2. req'[p] = Idle \/ req'[p].pc \in {"award", "credit", "dup_detach", "dup_delete", "approve"}
    BY <1>7, DoneDoes, NextDoes DEF Becomes, Is, Ends, ApproveSetStatus, AwardMetadataPoints,
       AwardXP, DuplicateObjects, DuplicateDetach, DuplicateDelete, RejectSetStatus
  <2>3. QED
    BY <1>0, <1>2, <2>1, <2>2, FreePc
<1>8. QED
  BY <1>1, <1>3, <1>4, <1>5, <1>6, <1>7 DEF Step

LEMMA OwnStep == TypeInv /\ OwnKeys /\ [Next]_vars => OwnKeys'
<1> SUFFICES ASSUME TypeInv, OwnKeys, [Next]_vars PROVE OwnKeys'
  OBVIOUS
<1>1. CASE Browser \/ UNCHANGED vars
  BY <1>1 DEF Browser, MetadataUploadURLPre, BrowserUpload, vars, db, files, OwnKeys, OwnRow,
     OwnRequest
<1>2. ASSUME NEW p \in Procs, Abort(p) PROVE OwnKeys'
  <2>1. Others(p) /\ OwnRequest(req'[p]) /\ UNCHANGED <<row, rowKey>>
    BY <1>2, DoneOthers, FreePc DEF Abort, db, files, Idle
  <2>2. QED
    BY <2>1, OwnKept DEF OwnKeys, OwnRow
<1>3. QED
  BY <1>1, <1>2, StartOwn, StepOwn DEF Next

LEMMA OwnKeysHold == Spec => []OwnKeys
<1>1. Init => OwnKeys
  BY FreePc DEF Init, OwnKeys, OwnRow, Uploads, Idle
<1>2. QED
  BY <1>1, OwnStep, TypeInvHolds, PTL DEF Spec
-----------------------------------------------------------------------------
(***************************************************************************)
(* The progress of a publication: what an approval still has to do covers *)
(* every upload that is not published yet, so that the rows the catalogue  *)
(* is given afterwards all carry canonical keys with an object.            *)
(***************************************************************************)
Published(f) == Canonical(rowKey[f]) /\ rowKey[f] \in bucket
Waiting(p, f) == AsEntry(f) \in req[p].todo \/ Published(f)

WorkPCs == {"publish", "relabel", "apply", "move", "insert_media", "text", "approve"}

Work(p) ==
    LET s == req[p].sub  pc == req[p].pc  e == req[p].file IN
    /\ pc \in {"publish", "relabel"} =>
          req[p].todo \subseteq {AsEntry(f) : f \in UploadRows(s)}
    /\ pc = "publish" => \A f \in UploadRows(s) : Waiting(p, f)
    /\ pc = "relabel" =>
          /\ e.file \in UploadRows(s) /\ e.key \in bucket
          /\ \A f \in UploadRows(s) \ {e.file} : Waiting(p, f)
          /\ \A x \in req[p].todo : x.file # e.file
    /\ pc \in {"apply", "move", "insert_media", "text", "approve"} /\ s \notin Duplicate =>
          \A f \in UploadRows(s) : Published(f)

MediaKeys == \A m \in media : Canonical(m.key) /\ m.kind = KindOf[m.key.file]
WorkInv == MediaKeys /\ \A p \in Procs : Work(p)

LEMMA NoWork ==
    ASSUME NEW p, req'[p].pc \notin WorkPCs
    PROVE  Work(p)'
BY DEF WorkPCs, Work

LEMMA WorkKept ==
    ASSUME NEW p \in Procs, Others(p), \A q \in Procs \ {p} : req[q].pc = "idle",
           MediaKeys', Work(p)'
    PROVE  WorkInv'
<1>1. ASSUME NEW q \in Procs \ {p} PROVE Work(q)'
  BY NoWork DEF Others, WorkPCs
<1>2. QED
  BY <1>1 DEF WorkInv

LEMMA Listed ==
    ASSUME NEW s
    PROVE  /\ UploadsOf(ListFiles(s)) = {AsEntry(f) : f \in UploadRows(s)}
           /\ \A f : AsEntry(f).file = f /\ AsEntry(f).key = rowKey[f]
BY DEF UploadsOf, ListFiles, UploadRows, AsEntry

LEMMA RowParts ==
    ASSUME TypeInv, OwnKeys, NEW s, NEW f \in UploadRows(s)
    PROVE  /\ f \in Uploads /\ f \in Files /\ SubOf[f] = s /\ row[f] = "live"
           /\ rowKey[f] \in Keys /\ rowKey[f].file = f
BY DEF UploadRows, Rows, TypeInv, RowsHaveKeys, OwnKeys, OwnRow

\* What is published stays published while only other objects go.
LEMMA PublishWork ==
    ASSUME TypeInv, OwnKeys, WorkInv, NEW p \in Procs, PublishUpload(p)
    PROVE  Work(p)'
<1>0. PICK s : s = req[p].sub
  OBVIOUS
<1>1. /\ req[p].pc = "publish" /\ UNCHANGED <<row, rowKey, rowRegion>>
      /\ req[p].todo \subseteq {AsEntry(f) : f \in UploadRows(s)}
      /\ \A f \in UploadRows(s) : Waiting(p, f)
      /\ req[p].todo \subseteq UploadEntry
  BY <1>0, RequestParts DEF PublishUpload, At, db, files, WorkInv, Work, RequestFine, TodoPCs
<1>2. CASE Ends(p)
  BY <1>2, NoWork DEF Ends, Idle, WorkPCs
<1>3. CASE ~Ends(p)
  <2>1. PICK e \in req[p].todo : \E n \in Fresh(e.file) :
           /\ \/ bucket' = bucket \cup {immutableMediaKey(e.file, n)}
              \/ bucket' = (bucket \ {e.key}) \cup {immutableMediaKey(e.file, n)}
           /\ Becomes(p, "relabel", req[p].list, req[p].todo \ {e},
                      [e EXCEPT !.key = immutableMediaKey(e.file, n)], req[p].old)
    BY <1>3, PublishUploadDoes
  <2>2. PICK k :
           /\ bucket' = bucket \cup {k} \/ bucket' = (bucket \ {e.key}) \cup {k}
           /\ Becomes(p, "relabel", req[p].list, req[p].todo \ {e}, [e EXCEPT !.key = k], req[p].old)
    BY <2>1
  <2>3. PICK f0 \in UploadRows(s) : e = AsEntry(f0)
    BY <1>1, <2>1
  <2>4. e \in Entry /\ e.file = f0 /\ e.key = rowKey[f0] /\ e.key.file = f0
    BY <1>1, <2>3, Listed, RowParts DEF UploadEntry
  <2>5. [e EXCEPT !.key = k].key = k /\ [e EXCEPT !.key = k].file = f0
    BY <2>4 DEF Entry
  <2>6. UNCHANGED UploadRows(s) /\ \A f : UNCHANGED AsEntry(f)
    BY <1>1 DEF UploadRows, Rows, AsEntry
  <2>7. /\ req'[p].pc = "relabel" /\ req'[p].sub = s /\ req'[p].todo = req[p].todo \ {e}
        /\ req'[p].file.file = f0 /\ req'[p].file.key \in bucket'
    BY <1>0, <2>2, <2>5 DEF Becomes, Is
  <2>8. ASSUME NEW f \in UploadRows(s) \ {f0} PROVE AsEntry(f) \in req'[p].todo \/ Published(f)'
    <3>1. AsEntry(f) # e
      BY <2>4, Listed
    <3>2. rowKey[f] # e.key
      BY <2>4, RowParts
    <3>3. QED
      BY <1>1, <2>2, <2>7, <3>1, <3>2 DEF Waiting, Published
  <2>9. ASSUME NEW x \in req[p].todo \ {e} PROVE x.file # f0
    <3>1. PICK f \in UploadRows(s) : x = AsEntry(f)
      BY <1>1
    <3>2. QED
      BY <2>3, <3>1, Listed
  <2>10. req'[p].todo \subseteq {AsEntry(f) : f \in UploadRows(s)}'
    BY <1>1, <2>6, <2>7
  <2>11. QED
    BY <1>0, <2>3, <2>6, <2>7, <2>8, <2>9, <2>10 DEF Work, Waiting
<1>4. QED
  BY <1>2, <1>3

LEMMA RelabelWork ==
    ASSUME TypeInv, OwnKeys, WorkInv, NEW p \in Procs, PublishRelabel(p)
    PROVE  Work(p)'
<1>0. PICK s : s = req[p].sub
  OBVIOUS
<1> DEFINE e == req[p].file
<1>1. /\ req[p].pc = "relabel" /\ UNCHANGED <<row, rowRegion, bucket>>
      /\ req[p].todo \subseteq {AsEntry(f) : f \in UploadRows(s)}
      /\ e.file \in UploadRows(s) /\ e.key \in bucket
      /\ \A f \in UploadRows(s) \ {e.file} : Waiting(p, f)
      /\ \A x \in req[p].todo : x.file # e.file
      /\ Canonical(e.key)
  BY <1>0 DEF PublishRelabel, At, WorkInv, Work, OwnKeys, OwnRequest
<1>2. rowKey' = [rowKey EXCEPT ![e.file] = IF row[e.file] = "live" THEN e.key ELSE @]
  BY DEF PublishRelabel
<1>3. rowKey'[e.file] = e.key /\ \A f \in Files \ {e.file} : rowKey'[f] = rowKey[f]
  BY <1>1, <1>2, RowParts DEF TypeInv, TypeOK
<1>4. req'[p].pc = "publish" /\ req'[p].sub = s /\ req'[p].todo = req[p].todo
  BY <1>0, PublishRelabelDoes DEF Becomes, Is
<1>5. UNCHANGED UploadRows(s)
  BY <1>1 DEF UploadRows, Rows
<1>6. \A f \in UploadRows(s) \ {e.file} : UNCHANGED AsEntry(f) /\ UNCHANGED rowKey[f]
  BY <1>1, <1>3, RowParts DEF AsEntry
<1>7. ASSUME NEW f \in UploadRows(s) PROVE AsEntry(f)' \in req'[p].todo \/ Published(f)'
  <2>1. CASE f = e.file
    BY <1>1, <1>3, <2>1 DEF Published
  <2>2. CASE f # e.file
    BY <1>1, <1>4, <1>6, <2>2 DEF Waiting, Published
  <2>3. QED
    BY <2>1, <2>2
<1>8. ASSUME NEW x \in req[p].todo PROVE x \in {AsEntry(f) : f \in UploadRows(s)}'
  <2>1. PICK f \in UploadRows(s) : x = AsEntry(f)
    BY <1>1
  <2>2. f # e.file
    BY <1>1, <2>1, Listed
  <2>3. QED
    BY <1>5, <1>6, <2>1, <2>2
<1>9. req'[p].todo \subseteq {AsEntry(f) : f \in UploadRows(s)}'
  BY <1>4, <1>8
<1>10. QED
  BY <1>4, <1>5, <1>7, <1>9 DEF Work, Waiting

LEMMA SweepWork ==
    ASSUME TypeInv, NEW p \in Procs, DeleteReplacedMedia(p)
    PROVE  Work(p)'
<1>0. PICK s : s = req[p].sub
  OBVIOUS
<1>1. CASE Ends(p)
  BY <1>1, NoWork DEF Ends, Idle, WorkPCs
<1>2. CASE ~Ends(p)
  <2>1. /\ req'[p].pc = "publish" /\ req'[p].sub = s
        /\ req'[p].todo = {AsEntry(f) : f \in UploadRows(s)}
    BY <1>0, <1>2, DeleteReplacedMediaDoes, Listed DEF Becomes, Is
  <2>2. UNCHANGED UploadRows(s) /\ \A f : UNCHANGED AsEntry(f)
    BY DEF DeleteReplacedMedia, db, files, UploadRows, Rows, AsEntry
  <2>3. {AsEntry(f) : f \in UploadRows(s)}' = {AsEntry(f) : f \in UploadRows(s)}
    BY <2>2
  <2>4. QED
    BY <2>1, <2>2, <2>3 DEF Work, Waiting
<1>3. QED
  BY <1>1, <1>2

\* Once every upload is published its rows and objects stay as they are.
LEMMA ApplyWork ==
    ASSUME TypeInv, SerialInv, OwnKeys, WorkInv, NEW p \in Procs,
           \/ ApplyStart(p) \/ ApplyDelete(p) \/ ApplyClear(p) \/ ApplyMove(p)
           \/ ApplyReplace(p) \/ ApplyInsert(p) \/ ApplyText(p)
    PROVE  Work(p)'
<1>0. PICK s : s = req[p].sub
  OBVIOUS
<1>1. CurrentAt(req[p].pc, s)
  BY <1>0 DEF SerialInv, Current
<1>2. /\ UNCHANGED <<row, rowKey, rowRegion, bucket>>
      /\ \/ req[p].pc = "publish" /\ req[p].todo = {}
         \/ req[p].pc \in {"apply", "move", "insert_media", "text"}
  BY DEF ApplyStart, ApplyDelete, ApplyClear, ApplyMove, ApplyReplace, ApplyInsert, ApplyText,
     At, db, files
<1>3. s \notin Duplicate
  BY <1>1, <1>2 DEF CurrentAt, Approving, Publishing
<1>4. \A f \in UploadRows(s) : Published(f)
  BY <1>0, <1>2, <1>3 DEF WorkInv, Work, Waiting
<1>5. /\ req'[p] = Idle \/ req'[p].sub = s
      /\ req'[p].pc \notin {"publish", "relabel"}
  <2> USE DEF Becomes, Is, Ends, Idle
  <2>1. CASE ApplyStart(p)
    BY <1>0, <2>1, ApplyStartDoes
  <2>2. CASE ApplyDelete(p) \/ ApplyClear(p)
    BY <1>0, <2>2, ApplyDeleteDoes, ApplyClearDoes
  <2>3. CASE ApplyMove(p)
    BY <1>0, <2>3, ApplyMoveDoes
  <2>4. CASE ApplyReplace(p) \/ ApplyInsert(p) \/ ApplyText(p)
    BY <1>0, <2>4, DoneDoes, NextDoes DEF ApplyReplace, ApplyInsert, ApplyText
  <2>5. QED
    BY <2>1, <2>2, <2>3, <2>4
<1>6. UNCHANGED UploadRows(s) /\ \A f : UNCHANGED Published(f)
  BY <1>2 DEF UploadRows, Rows, Published
<1>7. CASE req'[p] = Idle
  BY <1>7, NoWork DEF Idle, WorkPCs
<1>8. CASE req'[p].sub = s
  BY <1>4, <1>5, <1>6, <1>8 DEF Work
<1>9. QED
  BY <1>5, <1>7, <1>8

LEMMA StepWork ==
    ASSUME TypeInv, SerialInv, OwnKeys, WorkInv, NEW p \in Procs, Step(p)
    PROVE  Work(p)'
<1> USE DEF Becomes, Is, Ends, Idle, WorkPCs
<1>1. CASE UploadURLRegister(p) \/ InsertSubmission(p) \/ RegisterFile(p) \/ RegisterEnd(p)
           \/ CancelObjects(p) \/ CancelRow(p)
  BY <1>1, NoWork, DoneDoes, NextDoes, RegisterFileDoes, CancelObjectsDoes
     DEF UploadURLRegister, InsertSubmission, RegisterEnd, CancelRow
<1>2. CASE ValidateApprovedMedia(p) \/ ResolveMediaRegions(p) \/ CaptureList(p)
           \/ CaptureOldMedia(p) \/ CaptureCopyFails(p)
  BY <1>2, NoWork, ValidateDoes, ResolveDoes, CaptureListDoes, CaptureOldMediaDoes,
     CaptureCopyFailsDoes
<1>3. CASE CreateGameFromPayload(p) \/ SetMetadataSubmissionGame(p) \/ CaptureDone(p)
           \/ ApproveSetStatus(p) \/ AwardMetadataPoints(p) \/ AwardXP(p)
  BY <1>3, NoWork, DoneDoes, NextDoes
     DEF CreateGameFromPayload, SetMetadataSubmissionGame, CaptureDone, ApproveSetStatus,
         AwardMetadataPoints, AwardXP
<1>4. CASE DuplicateObjects(p) \/ DuplicateDetach(p) \/ PreserveRejectedFile(p)
           \/ RejectRelabel(p) \/ RejectSetStatus(p)
  <2>1. CASE PreserveRejectedFile(p)
    <3>1. req'[p] = Idle \/ req'[p].pc = "relabel_rejected"
      <4> HIDE DEF Idle
      <4>1. QED
        BY <2>1, PreserveRejectedFileDoes
    <3>2. QED
      BY <3>1, NoWork
  <2>2. CASE RejectRelabel(p)
    BY <2>2, NoWork, RejectRelabelDoes
  <2>3. CASE DuplicateObjects(p) \/ DuplicateDetach(p) \/ RejectSetStatus(p)
    BY <2>3, NoWork, DoneDoes, NextDoes DEF DuplicateObjects, DuplicateDetach, RejectSetStatus
  <2>4. QED
    BY <1>4, <2>1, <2>2, <2>3
<1>5. CASE DuplicateDelete(p)
  <2>1. req'[p].pc = "approve" /\ req'[p].sub = req[p].sub
    BY <1>5, NextDoes DEF DuplicateDelete
  <2>2. req[p].sub \in Duplicate
    BY <1>5 DEF DuplicateDelete, At, SerialInv, Current, CurrentAt, Dropping
  <2>3. QED
    BY <2>1, <2>2 DEF Work
<1>6. QED
  BY <1>1, <1>2, <1>3, <1>4, <1>5, SweepWork, PublishWork, RelabelWork, ApplyWork DEF Step

LEMMA StepMediaKeys ==
    ASSUME TypeInv, SerialInv, OwnKeys, WorkInv, NEW p \in Procs, Step(p)
    PROVE  MediaKeys'
<1> DEFINE s == req[p].sub
<1>1. CASE media' \subseteq media
  BY <1>1 DEF WorkInv, MediaKeys
<1>2. CASE ApplyMove(p)
  <2>1. ASSUME NEW m \in media' PROVE \E n \in media : m.key = n.key /\ m.kind = n.kind
    <3>1. \/ m \in media
          \/ \E n \in media : m = [n EXCEPT !.region = req[p].file.region]
      BY <1>2 DEF ApplyMove, ListMediaByGame
    <3>2. QED
      BY <3>1, MediaAre DEF Media
  <2>2. QED
    BY <2>1 DEF WorkInv, MediaKeys
<1>3. CASE ApplyInsert(p)
  <2>1. req[p].pc = "insert_media" /\ s \notin Duplicate
    BY <1>3 DEF ApplyInsert, At, SerialInv, Current, CurrentAt, Approving, Publishing
  <2>2. ASSUME NEW m \in media' \ media PROVE Canonical(m.key) /\ m.kind = KindOf[m.key.file]
    <3>1. PICK f \in UploadRows(s) : m = [game |-> gameOf[s], kind |-> KindOf[f],
                                          region |-> rowRegion[f], key |-> rowKey[f]]
      BY <1>3, <2>2 DEF ApplyInsert
    <3>2. Published(f) /\ rowKey[f].file = f
      BY <2>1, RowParts DEF WorkInv, Work
    <3>3. QED
      BY <3>1, <3>2 DEF Published
  <2>3. QED
    BY <2>2 DEF WorkInv, MediaKeys
<1>4. media' \subseteq media \/ ApplyMove(p) \/ ApplyInsert(p)
  <2>1. CASE ApplyDelete(p) \/ ApplyClear(p) \/ ApplyReplace(p) \/ DuplicateDelete(p)
    BY <2>1 DEF ApplyDelete, ApplyClear, ApplyReplace, DuplicateDelete
  <2>2. CASE Quietly(p)
    BY <2>2, QuietFrame
  <2>3. CASE \/ InsertSubmission(p) \/ CancelRow(p) \/ CreateGameFromPayload(p)
             \/ SetMetadataSubmissionGame(p) \/ ApproveSetStatus(p) \/ DuplicateDetach(p)
             \/ RejectSetStatus(p)
    BY <2>3 DEF InsertSubmission, CancelRow, CreateGameFromPayload, SetMetadataSubmissionGame,
       ApproveSetStatus, DuplicateDetach, RejectSetStatus
  <2>4. QED
    BY <2>1, <2>2, <2>3 DEF Step, Quietly
<1>5. QED
  BY <1>1, <1>2, <1>3, <1>4

LEMMA WorkStep ==
    ASSUME Serial, TypeInv, SerialInv, OwnKeys, WorkInv, [Next]_vars
    PROVE  WorkInv'
<1>1. ASSUME NEW p \in Procs, Start(p) \/ Step(p) \/ Abort(p) PROVE WorkInv'
  <2>1. Others(p) /\ \A q \in Procs \ {p} : req[q].pc = "idle"
    BY <1>1, OnlyOne DEF SerialInv
  <2>2. CASE Start(p)
    <3>1. UNCHANGED media
      BY <2>2, StartOthers DEF db
    <3>2. req'[p].pc \notin WorkPCs
      BY <2>2, StartDoes DEF Begins, Is, WorkPCs
    <3>3. QED
      BY <2>1, <3>1, <3>2, NoWork, WorkKept DEF WorkInv, MediaKeys
  <2>3. CASE Abort(p)
    BY <2>1, <2>3, DoneDoes, NoWork, WorkKept DEF Abort, db, WorkInv, MediaKeys, Ends, Idle, WorkPCs
  <2>4. CASE Step(p)
    BY <2>1, <2>4, StepWork, StepMediaKeys, WorkKept
  <2>5. QED
    BY <1>1, <2>2, <2>3, <2>4
<1>2. CASE Browser \/ UNCHANGED vars
  <2>1. UNCHANGED <<row, rowKey, rowRegion, media, req>> /\ bucket \subseteq bucket'
    BY <1>2 DEF Browser, MetadataUploadURLPre, BrowserUpload, vars, db, files
  <2>2. \A f : Published(f) => Published(f)'
    BY <2>1 DEF Published
  <2>3. \A s : UNCHANGED UploadRows(s)
    BY <2>1 DEF UploadRows, Rows
  <2>4. \A f : UNCHANGED AsEntry(f)
    BY <2>1 DEF AsEntry
  <2>5. ASSUME NEW p \in Procs PROVE Work(p)'
    <3>1. \A f : Waiting(p, f) => Waiting(p, f)'
      BY <2>1, <2>2, <2>4 DEF Waiting
    <3>2. {AsEntry(f) : f \in UploadRows(req[p].sub)}' = {AsEntry(f) : f \in UploadRows(req[p].sub)}
      BY <2>1, <2>3, <2>4
    <3>3. Work(p) /\ UNCHANGED req[p]
      BY <2>1 DEF WorkInv
    <3>4. QED
      BY <2>1, <2>2, <2>3, <3>1, <3>2, <3>3 DEF Work
  <2>6. QED
    BY <2>1, <2>5 DEF WorkInv, MediaKeys
<1>3. QED
  BY <1>1, <1>2 DEF Next

LEMMA WorkInvHolds ==
    ASSUME Serial
    PROVE  Spec => []WorkInv
<1>1. Init => WorkInv
  BY DEF Init, Idle, WorkInv, MediaKeys, Work
<1>2. TypeInv /\ SerialInv /\ OwnKeys /\ WorkInv /\ [Next]_vars => WorkInv'
  BY WorkStep
<1>3. QED
  BY <1>1, <1>2, TypeInvHolds, SerialInvHolds, OwnKeysHold, PTL DEF Spec
-----------------------------------------------------------------------------
(***************************************************************************)
(* A request that is no approval moves or deletes staging objects only,   *)
(* and a media row never names one.                                        *)
(***************************************************************************)
LEMMA UnpublishStep ==
    ASSUME Serial, TypeInv, SerialInv, OwnKeys, WorkInv, [Next]_vars, NEW p \in Procs,
           req[p].pc \in {"preserve", "cancel_objects", "presign", "register"},
           NEW m \in media, m.key \in bucket
    PROVE  m.key \in bucket'
<1>1. m.key.gen # 0
  <2>1. m.key.gen \in 0..MaxGen /\ MaxGen \in Nat
    BY MediaType, MetadataReviewAssumption DEF Keys
  <2>2. m.key.gen > 0
    BY DEF WorkInv, MediaKeys, Canonical
  <2>3. QED
    BY <2>1, <2>2
<1>2. CASE bucket \subseteq bucket'
  BY <1>2
<1>3. CASE PreserveRejectedFile(p) \/ CancelObjects(p)
  <2>1. \A e \in req[p].todo : e.key.gen = 0
    BY <1>3 DEF PreserveRejectedFile, CancelObjects, At, OwnKeys, OwnRequest, OwnedKey
  <2>2. \A k \in bucket \ bucket' : \E e \in req[p].todo : k = e.key
    BY <1>3 DEF PreserveRejectedFile, CancelObjects
  <2>3. QED
    BY <1>1, <2>1, <2>2
<1>4. bucket \subseteq bucket' \/ PreserveRejectedFile(p) \/ CancelObjects(p)
  <2>1. CASE Browser \/ UNCHANGED vars
    BY <2>1 DEF Browser, MetadataUploadURLPre, BrowserUpload, vars
  <2>2. ASSUME NEW q \in Procs, Start(q) \/ Abort(q) PROVE UNCHANGED bucket
    BY <2>2, StartOthers DEF Abort
  <2>3. ASSUME NEW q \in Procs, Step(q)
        PROVE  UNCHANGED bucket \/ PreserveRejectedFile(p) \/ CancelObjects(p)
    <3>1. q = p
      BY <2>3, OnlyOne DEF SerialInv
    <3>2. \/ UploadURLRegister(p) \/ RegisterFile(p) \/ RegisterEnd(p) \/ RejectSetStatus(p)
          \/ PreserveRejectedFile(p) \/ CancelObjects(p)
      BY <2>3, <3>1
         DEF Step, InsertSubmission, CancelRow, ValidateApprovedMedia, CreateGameFromPayload,
             SetMetadataSubmissionGame, ResolveMediaRegions, CaptureList, CaptureOldMedia,
             CaptureCopyFails, CaptureDone, DeleteReplacedMedia, PublishUpload, PublishRelabel,
             ApplyStart, ApplyDelete, ApplyClear, ApplyMove, ApplyReplace, ApplyInsert, ApplyText,
             ApproveSetStatus, AwardMetadataPoints, AwardXP, DuplicateObjects, DuplicateDetach,
             DuplicateDelete, RejectRelabel, At
    <3>3. QED
      BY <3>2 DEF UploadURLRegister, RegisterFile, RegisterEnd, RejectSetStatus
  <2>4. QED
    BY <2>1, <2>2, <2>3 DEF Next
<1>5. QED
  BY <1>2, <1>3, <1>4

\* Whatever a rejection, a cancellation or an upload does, an object a media row
\* of the catalogue names stays in the bucket.
THEOREM OnlyApprovalsUnpublish == Serial => (Spec => OnlyApprovalUnpublishes)
<1>1. SUFFICES ASSUME Serial PROVE Spec => OnlyApprovalUnpublishes
  OBVIOUS
<1>2. TypeInv /\ SerialInv /\ OwnKeys /\ WorkInv /\ [Next]_vars =>
        \A p \in Procs :
          req[p].pc \in {"preserve", "cancel_objects", "presign", "register"} =>
             \A m \in media : m.key \in bucket => m.key \in bucket'
  BY <1>1, UnpublishStep
<1>3. Spec => []TypeInv /\ []SerialInv /\ []OwnKeys /\ []WorkInv
  BY <1>1, TypeInvHolds, SerialInvHolds, OwnKeysHold, WorkInvHolds
<1>4. QED
  BY <1>2, <1>3, PTL DEF Spec, OnlyApprovalUnpublishes

-----------------------------------------------------------------------------
(***************************************************************************)
(* Between the insertion of the media rows and the change of the status a  *)
(* submission's art is listed without being approved, but its approval is  *)
(* then running.  At that point every upload is listed with its object.    *)
(***************************************************************************)
ApprovedMedia ==
    failures = 0 =>
       \A m \in media :
          \/ status[SubOf[m.key.file]] = "approved"
          \/ \E p \in Procs : req[p].pc \in {"text", "approve"} /\ req[p].sub = SubOf[m.key.file]

ShownInv ==
    \A p \in Procs : LET s == req[p].sub IN
       req[p].pc \in {"text", "approve"} /\ s \notin Duplicate /\ gameOf[s] # None =>
          \A f \in UploadRows(s) : Shown(s, f)

LEMMA StartPublic ==
    ASSUME TypeInv, ApprovedMedia, NEW p \in Procs, Start(p)
    PROVE  ApprovedMedia'
<1>1. Others(p) /\ req[p].pc = "idle" /\ UNCHANGED <<status, media, failures>>
  BY StartOthers DEF db, subsTable, faults, Enter
<1>2. QED
  BY <1>1 DEF ApprovedMedia, Others

\* Where a step keeps the status and adds no media rows.
LEMMA PublicKept ==
    ASSUME Serial, TypeInv, SerialInv, ApprovedMedia, NEW p \in Procs, Step(p),
           \A s \in Subs : status[s] = "approved" => status'[s] = "approved",
           \A m \in media' : \E n \in media : m.key = n.key,
           req[p].pc \in {"text", "approve"} =>
              status'[req[p].sub] = "approved"
              \/ (req'[p].pc \in {"text", "approve"} /\ req'[p].sub = req[p].sub)
    PROVE  ApprovedMedia'
<1> SUFFICES ASSUME failures' = 0, NEW m \in media'
             PROVE  \/ status'[SubOf[m.key.file]] = "approved"
                    \/ \E q \in Procs : req'[q].pc \in {"text", "approve"}
                                        /\ req'[q].sub = SubOf[m.key.file]
  BY DEF ApprovedMedia
<1>1. failures = 0
  <2>1. CASE CaptureCopyFails(p)
    BY <2>1, MetadataReviewAssumption DEF CaptureCopyFails, TypeInv, TypeOK
  <2>2. CASE ~CaptureCopyFails(p)
    BY <2>2 DEF Step, UploadURLRegister, InsertSubmission, RegisterFile, RegisterEnd,
       CancelObjects, CancelRow, ValidateApprovedMedia, CreateGameFromPayload,
       SetMetadataSubmissionGame, ResolveMediaRegions, CaptureList, CaptureOldMedia,
       CaptureDone, DeleteReplacedMedia, PublishUpload, PublishRelabel, ApplyStart,
       ApplyDelete, ApplyClear, ApplyMove, ApplyReplace, ApplyInsert, ApplyText,
       ApproveSetStatus, AwardMetadataPoints, AwardXP, DuplicateObjects, DuplicateDetach,
       DuplicateDelete, PreserveRejectedFile, RejectRelabel, RejectSetStatus, faults
  <2>3. QED
    BY <2>1, <2>2
<1>2. PICK n \in media : m.key = n.key
  OBVIOUS
<1>3. n.key.file \in Files /\ SubOf[n.key.file] \in Subs
  BY MediaAre, MetadataReviewAssumption DEF Media, Keys, Uploads
<1>4. CASE status[SubOf[n.key.file]] = "approved"
  BY <1>2, <1>3, <1>4
<1>5. ASSUME NEW q \in Procs, req[q].pc \in {"text", "approve"}, req[q].sub = SubOf[n.key.file]
      PROVE  \/ status'[SubOf[m.key.file]] = "approved"
             \/ \E x \in Procs : req'[x].pc \in {"text", "approve"}
                                 /\ req'[x].sub = SubOf[m.key.file]
  <2>1. q = p
    BY <1>5, OnlyOne DEF SerialInv
  <2>2. QED
    BY <1>2, <1>5, <2>1
<1>6. QED
  BY <1>1, <1>2, <1>4, <1>5 DEF ApprovedMedia

LEMMA StatusStays ==
    ASSUME TypeInv, SerialInv, NEW p \in Procs, Step(p)
    PROVE  /\ \A s \in Subs : status[s] = "approved" => status'[s] = "approved"
           /\ req[p].pc \in {"text", "approve"} =>
                 status'[req[p].sub] = "approved"
                 \/ (req'[p].pc \in {"text", "approve"} /\ req'[p].sub = req[p].sub)
<1> DEFINE s == req[p].sub
<1>1. CurrentAt(req[p].pc, s) /\ s \in Subs
  BY StepOthers, SubType DEF SerialInv, Current
<1>2. CASE InsertSubmission(p) \/ CancelRow(p) \/ ApproveSetStatus(p) \/ RejectSetStatus(p)
  <2>1. /\ status[s] # "approved"
        /\ ApproveSetStatus(p) => status[s] = "pending"
    BY <1>1, <1>2 DEF InsertSubmission, CancelRow, ApproveSetStatus, RejectSetStatus, At, CurrentAt,
       Reviewing
  <2>2. PICK st : status' = [status EXCEPT ![s] = st] /\ (ApproveSetStatus(p) => st = "approved")
    BY <1>2, <2>1 DEF InsertSubmission, CancelRow, ApproveSetStatus, RejectSetStatus,
       SetMetadataStatusForAdmin, Exists, At
  <2>3. \A t \in Subs : status[t] = "approved" => status'[t] = "approved"
    BY <2>1, <2>2 DEF TypeInv, TypeOK
  <2>4. CASE ApproveSetStatus(p)
    BY <1>1, <2>2, <2>3, <2>4 DEF TypeInv, TypeOK
  <2>5. CASE ~ApproveSetStatus(p)
    BY <1>2, <2>3, <2>5 DEF InsertSubmission, CancelRow, RejectSetStatus, At
  <2>6. QED
    BY <2>4, <2>5
<1>3. CASE ApplyText(p)
  BY <1>3, NextDoes DEF ApplyText, subsTable, Becomes, Is
<1>4. CASE ~(InsertSubmission(p) \/ CancelRow(p) \/ ApproveSetStatus(p) \/ RejectSetStatus(p)
             \/ ApplyText(p))
  BY <1>4 DEF Step, UploadURLRegister, RegisterFile, RegisterEnd, At,
       CancelObjects, ValidateApprovedMedia, CreateGameFromPayload,
       SetMetadataSubmissionGame, ResolveMediaRegions, CaptureList, CaptureOldMedia,
       CaptureCopyFails, CaptureDone, DeleteReplacedMedia, PublishUpload, PublishRelabel,
       ApplyStart, ApplyDelete, ApplyClear, ApplyMove, ApplyReplace, ApplyInsert,
       AwardMetadataPoints, AwardXP, DuplicateObjects, DuplicateDetach,
       DuplicateDelete, PreserveRejectedFile, RejectRelabel, subsTable, db
<1>5. QED
  BY <1>2, <1>3, <1>4

LEMMA MediaStep ==
    ASSUME TypeInv, NEW p \in Procs, Step(p), ~ApplyInsert(p)
    PROVE  \A m \in media' : \E n \in media : m.key = n.key
<1>1. CASE ApplyMove(p)
  <2>1. ASSUME NEW m \in media'
        PROVE  \/ m \in media
               \/ \E n \in media : m = [n EXCEPT !.region = req[p].file.region]
    BY <1>1 DEF ApplyMove, ListMediaByGame
  <2>2. QED
    BY <2>1, MediaAre DEF Media
<1>2. CASE ~ApplyMove(p)
  <2>1. media' \subseteq media
    BY <1>2 DEF Step, UploadURLRegister, InsertSubmission, RegisterFile, RegisterEnd,
       CancelObjects, CancelRow, ValidateApprovedMedia, CreateGameFromPayload,
       SetMetadataSubmissionGame, ResolveMediaRegions, CaptureList, CaptureOldMedia,
       CaptureCopyFails, CaptureDone, DeleteReplacedMedia, PublishUpload, PublishRelabel,
       ApplyStart, ApplyDelete, ApplyClear, ApplyReplace, ApplyText,
       ApproveSetStatus, AwardMetadataPoints, AwardXP, DuplicateObjects, DuplicateDetach,
       DuplicateDelete, PreserveRejectedFile, RejectRelabel, RejectSetStatus, db
  <2>2. QED
    BY <2>1
<1>3. QED
  BY <1>1, <1>2

LEMMA InsertPublic ==
    ASSUME Serial, TypeInv, SerialInv, OwnKeys, WorkInv, ApprovedMedia, NEW p \in Procs,
           ApplyInsert(p)
    PROVE  ApprovedMedia'
<1> DEFINE s == req[p].sub
<1>1. req[p].pc = "insert_media" /\ UNCHANGED <<status, failures>> /\ Step(p)
  BY DEF ApplyInsert, At, subsTable, faults, Step
<1>2. \A q \in Procs : req[q].pc \notin {"text", "approve"}
  BY <1>1, OnlyOne DEF SerialInv
<1>3. CASE gameOf[s] = None
  BY <1>1, <1>2, <1>3 DEF ApplyInsert, ApprovedMedia
<1>4. CASE gameOf[s] # None
  <2>1. req'[p].pc = "text" /\ req'[p].sub = s
    BY <1>4, NextDoes DEF ApplyInsert, Becomes, Is
  <2>2. ASSUME NEW m \in media' \ media PROVE SubOf[m.key.file] = s
    <3>1. PICK f \in UploadRows(s) : m.key = rowKey[f]
      BY <1>4, <2>2 DEF ApplyInsert
    <3>2. QED
      BY <3>1, RowParts
  <2>3. QED
    BY <1>1, <1>2, <2>1, <2>2 DEF ApprovedMedia
<1>5. QED
  BY <1>3, <1>4

LEMMA PublicStep ==
    ASSUME Serial, TypeInv, SerialInv, OwnKeys, WorkInv, ApprovedMedia, [Next]_vars
    PROVE  ApprovedMedia'
<1>1. CASE Browser \/ UNCHANGED vars
  BY <1>1 DEF Browser, MetadataUploadURLPre, BrowserUpload, vars, db, subsTable, faults,
     ApprovedMedia
<1>2. ASSUME NEW p \in Procs, Abort(p) PROVE ApprovedMedia'
  BY <1>2, MetadataReviewAssumption DEF Abort, ApprovedMedia, TypeInv, TypeOK
<1>3. ASSUME NEW p \in Procs, Step(p) PROVE ApprovedMedia'
  BY <1>3, StatusStays, MediaStep, PublicKept, InsertPublic
<1>4. QED
  BY <1>1, <1>2, <1>3, StartPublic DEF Next

LEMMA ApprovedMediaHolds ==
    ASSUME Serial
    PROVE  Spec => []ApprovedMedia
<1>1. Init => ApprovedMedia
  BY DEF Init, ApprovedMedia
<1>2. TypeInv /\ SerialInv /\ OwnKeys /\ WorkInv /\ ApprovedMedia /\ [Next]_vars => ApprovedMedia'
  BY PublicStep
<1>3. QED
  BY <1>1, <1>2, TypeInvHolds, SerialInvHolds, OwnKeysHold, WorkInvHolds, PTL DEF Spec

\* A media row of the catalogue never names a staging or a rejected object,
\* although rows are written by the statements of an approval that may end at
\* any of them; and as long as none ended early, its submission is approved.
THEOREM UnapprovedNeverPublic == Serial => (Spec => []OnlyApprovedPublic)
<1>1. SUFFICES ASSUME Serial PROVE Spec => []OnlyApprovedPublic
  OBVIOUS
<1>2. WorkInv /\ ApprovedMedia => OnlyApprovedPublic
  BY DEF WorkInv, MediaKeys, ApprovedMedia, OnlyApprovedPublic, Quiet
<1>3. QED
  BY <1>1, <1>2, WorkInvHolds, ApprovedMediaHolds, PTL
LEMMA ShownFrame ==
    ASSUME NEW s, NEW f, UNCHANGED <<gameOf, rowRegion, rowKey, media>>, bucket \subseteq bucket',
           Shown(s, f)
    PROVE  Shown(s, f)'
BY DEF Shown

LEMMA ShownKept ==
    ASSUME ShownInv, NEW p \in Procs, Others(p), \A q \in Procs \ {p} : req[q].pc = "idle",
           \A s : req'[p].pc \in {"text", "approve"} /\ req'[p].sub = s /\ s \notin Duplicate
                  /\ gameOf'[s] # None => \A f \in UploadRows(s)' : Shown(s, f)'
    PROVE  ShownInv'
<1>1. ASSUME NEW q \in Procs, NEW s, s = req'[q].sub, req'[q].pc \in {"text", "approve"},
             s \notin Duplicate, gameOf'[s] # None
      PROVE  \A f \in UploadRows(s)' : Shown(s, f)'
  <2>1. q = p
    BY <1>1 DEF Others
  <2>2. QED
    BY <1>1, <2>1
<1>2. ASSUME NEW q \in Procs, req'[q].pc \in {"text", "approve"},
             req'[q].sub \notin Duplicate, gameOf'[req'[q].sub] # None
      PROVE  \A f \in UploadRows(req[q].sub)' : Shown(req[q].sub, f)'
  <2>1. PICK s : s = req'[q].sub
    OBVIOUS
  <2>2. \A f \in UploadRows(s)' : Shown(s, f)'
    BY <1>1, <1>2, <2>1
  <2>3. QED
    BY <2>1, <2>2 DEF UploadRows, Rows, Shown
<1>3. QED
  BY <1>2 DEF ShownInv

LEMMA ShownStep ==
    ASSUME Serial, TypeInv, SerialInv, OwnKeys, WorkInv, ShownInv, [Next]_vars
    PROVE  ShownInv'
<1>1. CASE Browser \/ UNCHANGED vars
  <2>1. UNCHANGED <<gameOf, row, rowRegion, rowKey, media, req>> /\ bucket \subseteq bucket'
    BY <1>1 DEF Browser, MetadataUploadURLPre, BrowserUpload, vars, db, subsTable, files
  <2>2. \A s : UNCHANGED UploadRows(s)
    BY <2>1 DEF UploadRows, Rows
  <2>3. \A s, f : Shown(s, f) => Shown(s, f)'
    BY <2>1, ShownFrame
  <2>4. QED
    BY <2>1, <2>2, <2>3 DEF ShownInv
<1>2. ASSUME NEW p \in Procs, Start(p) \/ Step(p) \/ Abort(p) PROVE ShownInv'
  <2>0. Others(p) /\ \A q \in Procs \ {p} : req[q].pc = "idle"
    BY <1>2, OnlyOne DEF SerialInv
  <2>1. CASE req'[p].pc \notin {"text", "approve"}
    BY <2>0, <2>1, ShownKept
  <2>2. CASE ApplyText(p)
    <3>1. /\ req[p].pc = "text" /\ req'[p].sub = req[p].sub
          /\ UNCHANGED <<gameOf, row, rowRegion, rowKey, media, bucket>>
      BY <2>2, NextDoes DEF ApplyText, At, Becomes, Is, subsTable, files
    <3>2. ASSUME NEW s, req'[p].sub = s, s \notin Duplicate, gameOf'[s] # None, NEW f \in UploadRows(s)'
          PROVE  Shown(s, f)'
      <4>1. f \in UploadRows(s)
        BY <3>1, <3>2 DEF UploadRows, Rows
      <4>2. Shown(s, f)
        BY <3>1, <3>2, <4>1 DEF ShownInv
      <4>3. QED
        BY <3>1, <4>2, ShownFrame
    <3>3. QED
      BY <2>0, <3>2, ShownKept
  <2>3. CASE ApplyInsert(p)
    <3>1. /\ req[p].pc = "insert_media" /\ UNCHANGED <<gameOf, row, rowRegion, rowKey, bucket>>
      BY <2>3 DEF ApplyInsert, At, subsTable, files
    <3>2. req'[p].sub = req[p].sub \/ req'[p] = Idle
      BY <2>3, NextDoes, DoneDoes DEF ApplyInsert, Becomes, Is, Ends
    <3>3. ASSUME NEW s, req'[p].pc \in {"text", "approve"}, req'[p].sub = s, s \notin Duplicate,
                 gameOf'[s] # None, NEW f \in UploadRows(s)'
          PROVE  Shown(s, f)'
      <4>1. s = req[p].sub /\ f \in UploadRows(s) /\ gameOf[s] # None
        BY <3>1, <3>2, <3>3 DEF UploadRows, Rows, Idle
      <4>2. [game |-> gameOf[s], kind |-> KindOf[f], region |-> rowRegion[f], key |-> rowKey[f]]
               \in media'
        BY <2>3, <4>1 DEF ApplyInsert
      <4>3. rowKey[f] \in bucket
        BY <3>1, <3>3, <4>1 DEF WorkInv, Work, Published
      <4>4. QED
        BY <3>1, <4>2, <4>3 DEF Shown
    <3>4. QED
      BY <2>0, <3>3, ShownKept
  <2>4. CASE DuplicateDelete(p)
    <3>1. req'[p].sub = req[p].sub /\ req[p].sub \in Duplicate
      BY <2>4, NextDoes DEF DuplicateDelete, Becomes, Is, At, SerialInv, Current, CurrentAt, Dropping
    <3>2. QED
      BY <2>0, <3>1, ShownKept
  <2>5. CASE ApplyStart(p)
    <3>1. /\ Ends(p) \/ (req'[p].sub = req[p].sub
                         /\ req'[p].pc = IF gameOf[req[p].sub] = None THEN "text" ELSE "apply")
          /\ UNCHANGED gameOf
      BY <2>5, ApplyStartDoes DEF ApplyStart, Becomes, Is, db, subsTable
    <3>2. QED
      BY <2>0, <3>1, ShownKept DEF Ends, Idle
  <2>6. req'[p].pc \notin {"text", "approve"} \/ ApplyText(p) \/ ApplyInsert(p)
        \/ DuplicateDelete(p) \/ ApplyStart(p)
    <3> USE DEF Becomes, Is, Ends
    <3>0. Idle.pc = "idle"
      BY DEF Idle
    <3>1. CASE Start(p)
      BY <3>1, StartDoes DEF Begins
    <3>2. CASE Abort(p)
      BY <3>0, <3>2, DoneDoes DEF Abort
    <3>3. CASE UploadURLRegister(p) \/ InsertSubmission(p) \/ RegisterFile(p) \/ RegisterEnd(p)
               \/ CancelObjects(p) \/ CancelRow(p)
      BY <3>0, <3>3, DoneDoes, NextDoes, RegisterFileDoes, CancelObjectsDoes
         DEF UploadURLRegister, InsertSubmission, RegisterEnd, CancelRow
    <3>4. CASE ValidateApprovedMedia(p) \/ ResolveMediaRegions(p) \/ CaptureList(p)
               \/ CaptureOldMedia(p) \/ CaptureCopyFails(p) \/ DeleteReplacedMedia(p)
      BY <3>0, <3>4, ValidateDoes, ResolveDoes, CaptureListDoes, CaptureOldMediaDoes,
         CaptureCopyFailsDoes, DeleteReplacedMediaDoes
    <3>5. CASE CreateGameFromPayload(p) \/ SetMetadataSubmissionGame(p) \/ CaptureDone(p)
               \/ ApproveSetStatus(p) \/ AwardMetadataPoints(p) \/ AwardXP(p) \/ ApplyReplace(p)
      BY <3>0, <3>5, DoneDoes, NextDoes
         DEF CreateGameFromPayload, SetMetadataSubmissionGame, CaptureDone, ApproveSetStatus,
             AwardMetadataPoints, AwardXP, ApplyReplace
    <3>6. CASE DuplicateObjects(p) \/ DuplicateDetach(p) \/ RejectSetStatus(p)
      BY <3>0, <3>6, DoneDoes, NextDoes DEF DuplicateObjects, DuplicateDetach, RejectSetStatus
    <3>7. CASE PublishUpload(p)
      BY <3>0, <3>7, PublishUploadDoes
    <3>8. CASE PreserveRejectedFile(p)
      BY <3>0, <3>8, PreserveRejectedFileDoes
    <3>9. CASE PublishRelabel(p) \/ RejectRelabel(p)
      BY <3>0, <3>9, PublishRelabelDoes, RejectRelabelDoes
    <3>10. CASE ApplyDelete(p) \/ ApplyClear(p) \/ ApplyMove(p)
      BY <3>0, <3>10, ApplyDeleteDoes, ApplyClearDoes, ApplyMoveDoes
    <3>11. QED
      BY <1>2, <3>1, <3>2, <3>3, <3>4, <3>5, <3>6, <3>7, <3>8, <3>9, <3>10 DEF Step
  <2>7. QED
    BY <2>1, <2>2, <2>3, <2>4, <2>5, <2>6
<1>3. QED
  BY <1>1, <1>2 DEF Next

LEMMA ShownInvHolds ==
    ASSUME Serial
    PROVE  Spec => []ShownInv
<1>1. Init => ShownInv
  BY DEF Init, Idle, ShownInv
<1>2. TypeInv /\ SerialInv /\ OwnKeys /\ WorkInv /\ ShownInv /\ [Next]_vars => ShownInv'
  BY ShownStep
<1>3. QED
  BY <1>1, <1>2, TypeInvHolds, SerialInvHolds, OwnKeysHold, WorkInvHolds, PTL DEF Spec

\* Only the last statement of an approval makes a submission approved.
LEMMA ApprovalStep ==
    ASSUME TypeInv, SerialInv, [Next]_vars, NEW s \in Subs,
           status[s] # "approved", status'[s] = "approved"
    PROVE  \E p \in Procs : req[p].pc = "approve" /\ req[p].sub = s
<1>1. ~(Browser \/ UNCHANGED vars)
  BY DEF Browser, MetadataUploadURLPre, BrowserUpload, vars, db, subsTable
<1>2. \A p \in Procs : ~(Start(p) \/ Abort(p))
  BY StartOthers DEF Abort, db, subsTable
<1>3. PICK p \in Procs : Step(p)
  BY <1>1, <1>2 DEF Next
<1>4. InsertSubmission(p) \/ CancelRow(p) \/ ApproveSetStatus(p) \/ RejectSetStatus(p)
  BY <1>3 DEF Step, UploadURLRegister, RegisterFile, RegisterEnd, CancelObjects,
     ValidateApprovedMedia, CreateGameFromPayload, SetMetadataSubmissionGame,
     ResolveMediaRegions, CaptureList, CaptureOldMedia, CaptureCopyFails, CaptureDone,
     DeleteReplacedMedia, PublishUpload, PublishRelabel, ApplyStart, ApplyDelete, ApplyClear,
     ApplyMove, ApplyReplace, ApplyInsert, ApplyText, AwardMetadataPoints, AwardXP,
     DuplicateObjects, DuplicateDetach, DuplicateDelete, PreserveRejectedFile, RejectRelabel,
     subsTable, db
<1>5. PICK st : status' = [status EXCEPT ![req[p].sub] = st]
                /\ (st = "approved" => ApproveSetStatus(p) \/ st = status[req[p].sub])
  BY <1>4 DEF InsertSubmission, CancelRow, ApproveSetStatus, RejectSetStatus,
     SetMetadataStatusForAdmin
<1>6. req[p].sub = s /\ ApproveSetStatus(p)
  BY <1>5 DEF TypeInv, TypeOK
<1>7. QED
  BY <1>6 DEF ApproveSetStatus, At

\* When a submission turns approved the catalogue lists each of its uploads, in
\* its slot, under the key the row names, and that key has an object: nothing an
\* approval did before was lost on the way.
THEOREM ApprovalShowsUploads == Serial => (Spec => ApprovedIsLive)
<1>1. SUFFICES ASSUME Serial PROVE Spec => ApprovedIsLive
  OBVIOUS
<1>2. TypeInv /\ SerialInv /\ ShownInv /\ [Next]_vars =>
        \A s \in Subs \ Duplicate :
          status[s] # "approved" /\ status'[s] = "approved" /\ gameOf[s] # None =>
             \A f \in UploadRows(s) : Shown(s, f)
  <2> SUFFICES ASSUME TypeInv, SerialInv, ShownInv, [Next]_vars, NEW s \in Subs \ Duplicate,
                      status[s] # "approved", status'[s] = "approved", gameOf[s] # None
               PROVE  \A f \in UploadRows(s) : Shown(s, f)
    OBVIOUS
  <2>1. PICK p \in Procs : req[p].pc = "approve" /\ req[p].sub = s
    BY ApprovalStep
  <2>2. QED
    BY <2>1 DEF ShownInv
<1>3. Spec => []TypeInv /\ []SerialInv /\ []ShownInv
  BY <1>1, TypeInvHolds, SerialInvHolds, ShownInvHolds
<1>4. QED
  BY <1>2, <1>3, PTL DEF Spec, ApprovedIsLive
-----------------------------------------------------------------------------
(***************************************************************************)
(* The objects of the slots an approval replaces: each is still to be       *)
(* captured, or it has a copy under history/, or its copy failed, before   *)
(* the sweep deletes what the slots name.                                  *)
(***************************************************************************)
Saved(k) == k \notin bucket \/ historyKey(k) \in bucket \/ k.file \in uncopied

Captured(p) ==
    LET s == req[p].sub  pc == req[p].pc IN
    /\ pc \in {"capture_list", "capture"} => req[p].list = ListFiles(s)
    /\ pc = "capture" => \A m \in Replaced(s, ListFiles(s)) : m \in req[p].old \/ Saved(m.key)
    /\ pc = "capture" => req[p].old \subseteq media
    /\ pc = "sweep" => \A m \in Replaced(s, ListFiles(s)) : Saved(m.key)

CaptureInv == \A p \in Procs : Captured(p)

LEMMA NotCaptured ==
    ASSUME NEW p, req'[p].pc \notin {"capture_list", "capture", "sweep"}
    PROVE  Captured(p)'
BY DEF Captured

LEMMA CaptureKept ==
    ASSUME NEW p \in Procs, Others(p), \A q \in Procs \ {p} : req[q].pc = "idle", Captured(p)'
    PROVE  CaptureInv'
<1>1. ASSUME NEW q \in Procs \ {p} PROVE Captured(q)'
  BY NotCaptured DEF Others
<1>2. QED
  BY <1>1 DEF CaptureInv

LEMMA HistoryParts ==
    ASSUME NEW k \in Keys
    PROVE  /\ historyKey(k).file = k.file /\ historyKey(k).gen = k.gen
           /\ historyKey(k).area = "history"
BY DEF Keys, historyKey

LEMMA MediaKeyParts ==
    ASSUME TypeInv, WorkInv, NEW m \in media
    PROVE  m.key \in Keys /\ m.key.gen \in Nat /\ m.key.gen > 0 /\ m.key.area = ""
<1>1. m.key \in Keys /\ m.key.gen \in Nat
  <2>1. m.key \in Keys
    BY MediaType
  <2>2. MaxGen \in Nat
    BY MetadataReviewAssumption
  <2>3. m.key.gen \in 0..MaxGen
    BY <2>1 DEF Keys
  <2>4. QED
    BY <2>1, <2>2, <2>3
<1>2. m.key.gen > 0 /\ m.key.area = ""
  BY DEF WorkInv, MediaKeys, Canonical
<1>3. QED
  BY <1>1, <1>2

\* Rows and media as they were: so are the slots that are replaced.
LEMMA ReplacedFrame ==
    ASSUME UNCHANGED <<row, rowKey, rowRegion, media, gameOf>>, NEW s
    PROVE  /\ UNCHANGED ListFiles(s)
           /\ UNCHANGED Replaced(s, ListFiles(s))
<1>1. UNCHANGED Rows(s) /\ \A f : UNCHANGED AsEntry(f)
  BY DEF Rows, AsEntry
<1>2. ListFiles(s)' = ListFiles(s)
  BY <1>1 DEF ListFiles
<1>3. QED
  BY <1>2 DEF Replaced, ListMediaByGame

LEMMA ResolveCaptured ==
    ASSUME TypeInv, SerialInv, NEW p \in Procs, ResolveMediaRegions(p)
    PROVE  Captured(p)'
<1>0. PICK s : s = req[p].sub
  OBVIOUS
<1>1. /\ req[p].pc = "resolve" /\ UNCHANGED <<row, rowKey, media, gameOf>>
      /\ rowRegion' = [f \in Files |-> RegionAfter(s, f)]
      /\ CurrentAt(req[p].pc, s)
  BY <1>0 DEF ResolveMediaRegions, At, subsTable, SerialInv, Current
<1>2. /\ req'[p].sub = s /\ req'[p].pc = IF s \in NewGame THEN "sweep" ELSE "capture_list"
      /\ req'[p].list = {[e EXCEPT !.region = RegionAfter(s, e.file)] : e \in ListFiles(s)}
  BY <1>0, ResolveDoes DEF Becomes, Is
<1>3. CASE s \in NewGame
  <2>1. gameOf[s] = Target[s] /\ NoMedia(Target[s])
    BY <1>1, <1>3 DEF CurrentAt
  <2>2. Replaced(s, ListFiles(s))' = {}
    BY <1>1, <2>1 DEF Replaced, ListMediaByGame, NoMedia
  <2>3. QED
    BY <1>2, <1>3, <2>2 DEF Captured
<1>4. CASE s \notin NewGame
  <2>1. Rows(s)' = Rows(s)
    BY <1>1 DEF Rows
  <2>2. ASSUME NEW f \in Rows(s)
        PROVE  AsEntry(f)' = [AsEntry(f) EXCEPT !.region = RegionAfter(s, AsEntry(f).file)]
    <3>1. rowRegion'[f] = RegionAfter(s, f)
      BY <1>1 DEF Rows
    <3>2. QED
      BY <1>1, <3>1 DEF AsEntry
  <2> DEFINE After(e) == [e EXCEPT !.region = RegionAfter(s, e.file)]
  <2>3. req'[p].list = {After(e) : e \in ListFiles(s)}
    BY <1>2
  <2>4. \A f \in Rows(s) : AsEntry(f)' = After(AsEntry(f))
    BY <2>2
  <2> HIDE DEF After
  <2>5. ListFiles(s)' = {After(e) : e \in ListFiles(s)}
    BY <2>1, <2>4 DEF ListFiles
  <2>6. QED
    BY <1>2, <1>4, <2>3, <2>5 DEF Captured
<1>5. QED
  BY <1>3, <1>4

LEMMA CaptureCaptured ==
    ASSUME TypeInv, WorkInv, CaptureInv, NEW p \in Procs,
           CaptureList(p) \/ CaptureOldMedia(p) \/ CaptureCopyFails(p) \/ CaptureDone(p)
    PROVE  Captured(p)'
<1>0. PICK s : s = req[p].sub
  OBVIOUS
<1>1. UNCHANGED <<row, rowKey, rowRegion, media, gameOf>>
  BY DEF CaptureList, CaptureOldMedia, CaptureCopyFails, CaptureDone, db, subsTable, files
<1>2. UNCHANGED ListFiles(s) /\ UNCHANGED Replaced(s, ListFiles(s))
  BY <1>1, ReplacedFrame
<1>3. Replaced(s, ListFiles(s)) \subseteq media
  BY DEF Replaced, ListMediaByGame
<1>4. CASE CaptureList(p)
  <2>1. req[p].list = ListFiles(s)
    BY <1>0, <1>4 DEF CaptureInv, Captured, CaptureList, At
  <2>2. /\ req'[p].sub = s /\ req'[p].pc = "capture" /\ req'[p].list = ListFiles(s)
        /\ req'[p].old = Replaced(s, ListFiles(s))
    BY <1>0, <1>4, <2>1, CaptureListDoes DEF Becomes, Is
  <2>3. QED
    BY <1>1, <1>2, <1>3, <2>2 DEF Captured
<1>5. CASE CaptureDone(p)
  <2>1. \A m \in Replaced(s, ListFiles(s)) : Saved(m.key)
    BY <1>0, <1>5 DEF CaptureInv, Captured, CaptureDone, At
  <2>2. req'[p].sub = s /\ req'[p].pc = "sweep" /\ UNCHANGED <<bucket, uncopied>>
    BY <1>0, <1>5, NextDoes DEF CaptureDone, Becomes, Is, faults
  <2>3. \A k : Saved(k) => Saved(k)'
    BY <2>2 DEF Saved
  <2>4. QED
    BY <1>2, <2>1, <2>2, <2>3 DEF Captured
<1>6. CASE CaptureOldMedia(p) \/ CaptureCopyFails(p)
  <2>1. /\ req[p].list = ListFiles(s) /\ req[p].old \subseteq media
        /\ \A m \in Replaced(s, ListFiles(s)) : m \in req[p].old \/ Saved(m.key)
    BY <1>0, <1>6 DEF CaptureInv, Captured, CaptureOldMedia, CaptureCopyFails, At
  <2>2. PICK m \in req[p].old :
           /\ Becomes(p, "capture", req[p].list, req[p].todo, req[p].file, req[p].old \ {m})
           /\ \/ /\ bucket' = IF m.key \in bucket
                              THEN (bucket \ {m.key}) \cup {historyKey(m.key)} ELSE bucket
                 /\ UNCHANGED uncopied
              \/ uncopied' = uncopied \cup {m.key.file} /\ UNCHANGED bucket
    BY <1>6, CaptureOldMediaDoes, CaptureCopyFailsDoes
       DEF CaptureOldMedia, CaptureCopyFails, faults
  <2>3. m.key \in Keys /\ m.key.area = "" /\ historyKey(m.key).area = "history"
    BY <2>1, MediaKeyParts, HistoryParts
  <2>4. Saved(m.key)'
    BY <2>2, <2>3 DEF Saved
  <2>5. ASSUME NEW n \in media, Saved(n.key) PROVE Saved(n.key)'
    <3>1. n.key.area = "" /\ historyKey(n.key).area = "history"
      BY MediaKeyParts, HistoryParts
    <3>2. n.key # historyKey(m.key) /\ historyKey(n.key) # m.key
      BY <2>3, <3>1
    <3>3. QED
      BY <2>2, <2>5, <3>2 DEF Saved
  <2>6. /\ req'[p].sub = s /\ req'[p].pc = "capture" /\ req'[p].list = ListFiles(s)
        /\ req'[p].old = req[p].old \ {m}
    BY <1>0, <2>1, <2>2 DEF Becomes, Is
  <2>7. \A n \in Replaced(s, ListFiles(s)) : n \in req'[p].old \/ Saved(n.key)'
    BY <1>3, <2>1, <2>4, <2>5, <2>6
  <2>8. QED
    BY <1>1, <1>2, <2>1, <2>6, <2>7 DEF Captured
<1>7. QED
  BY <1>4, <1>5, <1>6

LEMMA CaptureStep ==
    ASSUME Serial, TypeInv, SerialInv, WorkInv, CaptureInv, [Next]_vars
    PROVE  CaptureInv'
<1>1. CASE Browser \/ UNCHANGED vars
  <2>1. /\ UNCHANGED <<row, rowKey, rowRegion, media, gameOf, req, uncopied>>
        /\ bucket' = bucket \/ \E f \in Uploads : bucket' = bucket \cup {stagingMediaKey(f)}
    BY <1>1 DEF Browser, MetadataUploadURLPre, BrowserUpload, vars, db, subsTable, files, faults
  <2>2. ASSUME NEW m \in media, Saved(m.key) PROVE Saved(m.key)'
    <3>1. \A f \in Uploads : m.key # stagingMediaKey(f)
      <4>1. m.key.gen # 0
        <5>1. m.key.gen \in Nat /\ m.key.gen > 0
          BY MediaKeyParts
        <5>2. QED
          BY <5>1
      <4>2. \A f \in Uploads : stagingMediaKey(f).gen = 0
        BY DEF stagingMediaKey
      <4>3. QED
        BY <4>1, <4>2
    <3>2. QED
      BY <2>1, <2>2, <3>1 DEF Saved
  <2>3. ASSUME NEW p \in Procs PROVE Captured(p)'
    <3>0. PICK s : s = req[p].sub
      OBVIOUS
    <3>1. UNCHANGED ListFiles(s) /\ UNCHANGED Replaced(s, ListFiles(s))
      BY <2>1, ReplacedFrame
    <3>2. Replaced(s, ListFiles(s)) \subseteq media
      BY DEF Replaced, ListMediaByGame
    <3>3. QED
      BY <2>1, <2>2, <3>0, <3>1, <3>2 DEF CaptureInv, Captured
  <2>4. QED
    BY <2>3 DEF CaptureInv
<1>2. ASSUME NEW p \in Procs, Start(p) \/ Step(p) \/ Abort(p) PROVE CaptureInv'
  <2>0. Others(p) /\ \A q \in Procs \ {p} : req[q].pc = "idle"
    BY <1>2, OnlyOne DEF SerialInv
  <2>1. CASE ResolveMediaRegions(p) \/ CaptureList(p) \/ CaptureOldMedia(p)
             \/ CaptureCopyFails(p) \/ CaptureDone(p)
    BY <2>0, <2>1, CaptureKept, ResolveCaptured, CaptureCaptured
  <2>2. CASE req'[p].pc \in {"capture_list", "capture", "sweep"}
    <3> USE DEF Becomes, Is, Ends
    <3>0. Idle.pc = "idle"
      BY DEF Idle
    <3>1. CASE Start(p) \/ Abort(p)
      <4>1. CASE Start(p)
        BY <2>2, <4>1, StartDoes DEF Begins
      <4>2. CASE Abort(p)
        BY <2>2, <3>0, <4>2, DoneDoes DEF Abort
      <4>3. QED
        BY <3>1, <4>1, <4>2
    <3>2. CASE UploadURLRegister(p) \/ InsertSubmission(p) \/ RegisterFile(p) \/ RegisterEnd(p)
               \/ CancelObjects(p) \/ CancelRow(p)
      BY <2>2, <3>0, <3>2, DoneDoes, NextDoes, RegisterFileDoes, CancelObjectsDoes
         DEF UploadURLRegister, InsertSubmission, RegisterEnd, CancelRow
    <3>3. CASE ValidateApprovedMedia(p) \/ DeleteReplacedMedia(p)
      BY <2>2, <3>0, <3>3, ValidateDoes, DeleteReplacedMediaDoes
    <3>4. CASE CreateGameFromPayload(p) \/ SetMetadataSubmissionGame(p) \/ ApproveSetStatus(p)
               \/ AwardMetadataPoints(p) \/ AwardXP(p)
      BY <2>2, <3>0, <3>4, DoneDoes, NextDoes
         DEF CreateGameFromPayload, SetMetadataSubmissionGame, ApproveSetStatus,
             AwardMetadataPoints, AwardXP
    <3>5. CASE ApplyReplace(p) \/ ApplyInsert(p) \/ ApplyText(p)
      BY <2>2, <3>0, <3>5, DoneDoes, NextDoes DEF ApplyReplace, ApplyInsert, ApplyText
    <3>6. CASE DuplicateObjects(p) \/ DuplicateDetach(p) \/ DuplicateDelete(p) \/ RejectSetStatus(p)
      BY <2>2, <3>0, <3>6, DoneDoes, NextDoes
         DEF DuplicateObjects, DuplicateDetach, DuplicateDelete, RejectSetStatus
    <3>7. CASE PublishUpload(p)
      BY <2>2, <3>0, <3>7, PublishUploadDoes
    <3>8. CASE PreserveRejectedFile(p)
      BY <2>2, <3>0, <3>8, PreserveRejectedFileDoes
    <3>9. CASE PublishRelabel(p) \/ RejectRelabel(p)
      BY <2>2, <3>0, <3>9, PublishRelabelDoes, RejectRelabelDoes
    <3>10. CASE ApplyStart(p)
      BY <2>2, <3>0, <3>10, ApplyStartDoes
    <3>11. CASE ApplyDelete(p) \/ ApplyClear(p) \/ ApplyMove(p)
      BY <2>2, <3>0, <3>11, ApplyDeleteDoes, ApplyClearDoes, ApplyMoveDoes
    <3>12. QED
      BY <1>2, <2>1, <3>1, <3>2, <3>3, <3>4, <3>5, <3>6, <3>7, <3>8, <3>9, <3>10, <3>11 DEF Step
  <2>3. CASE req'[p].pc \notin {"capture_list", "capture", "sweep"}
    BY <2>0, <2>3, CaptureKept, NotCaptured
  <2>4. QED
    BY <2>2, <2>3
<1>3. QED
  BY <1>1, <1>2 DEF Next

LEMMA CaptureInvHolds ==
    ASSUME Serial
    PROVE  Spec => []CaptureInv
<1>1. Init => CaptureInv
  BY DEF Init, Idle, CaptureInv, Captured
<1>2. TypeInv /\ SerialInv /\ WorkInv /\ CaptureInv /\ [Next]_vars => CaptureInv'
  BY CaptureStep
<1>3. QED
  BY <1>1, <1>2, TypeInvHolds, SerialInvHolds, WorkInvHolds, PTL DEF Spec

\* What each action that takes objects away leaves of published art.
LEMMA ArtStep ==
    ASSUME Serial, TypeInv, SerialInv, OwnKeys, WorkInv, CaptureInv, NEW p \in Procs, Step(p),
           NEW f \in Uploads \ uncopied, NEW k \in bucket, k.file = f, k.gen > 0,
           req[p].pc # "dup_objects"
    PROVE  Preserved(f)'
<1>1. CASE k \in bucket'
  BY <1>1 DEF Preserved
<1>2. CASE PreserveRejectedFile(p) \/ CancelObjects(p)
  <2>1. \A e \in req[p].todo : e.key.gen = 0
    BY <1>2 DEF PreserveRejectedFile, CancelObjects, At, OwnKeys, OwnRequest, OwnedKey
  <2>2. \A j \in bucket \ bucket' : \E e \in req[p].todo : j = e.key
    BY <1>2 DEF PreserveRejectedFile, CancelObjects
  <2>3. k \in bucket'
    BY <2>1, <2>2
  <2>4. QED
    BY <1>1, <2>3
<1>3. CASE CaptureOldMedia(p)
  <2>1. PICK m \in req[p].old :
           bucket' = IF m.key \in bucket
                     THEN (bucket \ {m.key}) \cup {historyKey(m.key)} ELSE bucket
    BY <1>3 DEF CaptureOldMedia
  <2>2. k \in bucket' \/ (k = m.key /\ historyKey(k) \in bucket')
    BY <2>1
  <2>3. k \in Keys
    BY DEF TypeInv, TypeOK
  <2>4. QED
    BY <1>1, <2>2, <2>3, HistoryParts DEF Preserved
<1>4. CASE DeleteReplacedMedia(p)
  <2> DEFINE ms == Replaced(req[p].sub, ListFiles(req[p].sub))
  <2>1. UNCHANGED bucket \/ bucket' = bucket \ ObjectKeys(ms)
    BY <1>4 DEF DeleteReplacedMedia
  <2>2. \A m \in ms : m \in media /\ Saved(m.key)
    BY <1>4 DEF DeleteReplacedMedia, At, CaptureInv, Captured, Replaced, ListMediaByGame
  <2> HIDE DEF ms
  <2>3. ASSUME NEW m \in ms, k = m.key PROVE Preserved(f)'
    <3>1. historyKey(k) \in bucket /\ k \in Keys
      BY <2>2, <2>3 DEF Saved, TypeInv, TypeOK
    <3>2. historyKey(k) \notin ObjectKeys(ms)
      BY <2>2, <3>1, MediaKeyParts, HistoryParts DEF ObjectKeys
    <3>3. QED
      BY <2>1, <3>1, <3>2, HistoryParts DEF Preserved
  <2>4. QED
    BY <1>1, <2>1, <2>3 DEF ObjectKeys
<1>5. CASE PublishUpload(p)
  <2>1. PICK e \in req[p].todo :
           bucket' = bucket \/ \E n \in Fresh(e.file) :
              \/ bucket' = bucket \cup {immutableMediaKey(e.file, n)}
              \/ bucket' = (bucket \ {e.key}) \cup {immutableMediaKey(e.file, n)}
    BY <1>5, PublishUploadDoes
  <2>2. e.key.file = e.file /\ e.file \in Uploads
    BY <1>5, RequestParts DEF PublishUpload, At, OwnKeys, OwnRequest, RequestFine, TodoPCs, UploadEntry
  <2>3. CASE k \notin bucket'
    <3>1. k = e.key
      BY <2>1, <2>3
    <3>2. PICK n \in Fresh(f) : immutableMediaKey(f, n) \in bucket'
      BY <2>1, <2>2, <2>3, <3>1
    <3>3. immutableMediaKey(f, n).file = f /\ immutableMediaKey(f, n).gen > 0
      BY ImmutableParts DEF Fresh, Canonical
    <3>4. QED
      BY <3>2, <3>3 DEF Preserved
  <2>4. QED
    BY <1>1, <2>3
<1>6. CASE UNCHANGED bucket
  BY <1>1, <1>6
<1>7. UNCHANGED bucket \/ PreserveRejectedFile(p) \/ CancelObjects(p) \/ CaptureOldMedia(p)
      \/ DeleteReplacedMedia(p) \/ PublishUpload(p)
  BY DEF Step, UploadURLRegister, InsertSubmission, RegisterFile, RegisterEnd, CancelRow,
     ValidateApprovedMedia, CreateGameFromPayload, SetMetadataSubmissionGame,
     ResolveMediaRegions, CaptureList, CaptureCopyFails, CaptureDone, PublishRelabel,
     ApplyStart, ApplyDelete, ApplyClear, ApplyMove, ApplyReplace, ApplyInsert, ApplyText,
     ApproveSetStatus, AwardMetadataPoints, AwardXP, DuplicateObjects, DuplicateDetach,
     DuplicateDelete, RejectRelabel, RejectSetStatus, At
<1>8. QED
  BY <1>2, <1>3, <1>4, <1>5, <1>6, <1>7

\* Published art survives every step of every request, also of one that ends
\* early: it has an object under a canonical key or in history/, unless the copy
\* to history/ failed or its game is deleted as a duplicate.
THEOREM PublishedArtKept == Serial => (Spec => ReplacedArtKept)
<1>1. SUFFICES ASSUME Serial PROVE Spec => ReplacedArtKept
  OBVIOUS
<1>2. TypeInv /\ SerialInv /\ OwnKeys /\ WorkInv /\ CaptureInv /\ [Next]_vars =>
        \A f \in Uploads \ uncopied : Preserved(f) =>
          Preserved(f)' \/ \E p \in Procs : At(p, "dup_objects")
  <2> SUFFICES ASSUME TypeInv, SerialInv, OwnKeys, WorkInv, CaptureInv, [Next]_vars,
                      NEW f \in Uploads \ uncopied, Preserved(f),
                      \A p \in Procs : ~At(p, "dup_objects")
               PROVE  Preserved(f)'
    OBVIOUS
  <2>1. PICK k \in bucket : k.file = f /\ k.gen > 0
    BY DEF Preserved
  <2>2. ASSUME bucket \subseteq bucket' PROVE Preserved(f)'
    BY <2>1, <2>2 DEF Preserved
  <2>3. CASE Browser \/ UNCHANGED vars
    BY <2>2, <2>3 DEF Browser, MetadataUploadURLPre, BrowserUpload, vars
  <2>4. ASSUME NEW p \in Procs, Start(p) \/ Abort(p) PROVE Preserved(f)'
    BY <2>2, <2>4, StartOthers DEF Abort
  <2>5. ASSUME NEW p \in Procs, Step(p) PROVE Preserved(f)'
    BY <1>1, <2>1, <2>5, ArtStep DEF At
  <2>6. QED
    BY <2>3, <2>4, <2>5 DEF Next
<1>3. Spec => []TypeInv /\ []SerialInv /\ []OwnKeys /\ []WorkInv /\ []CaptureInv
  BY <1>1, TypeInvHolds, SerialInvHolds, OwnKeysHold, WorkInvHolds, CaptureInvHolds
<1>4. QED
  BY <1>2, <1>3, PTL DEF Spec, ReplacedArtKept
-----------------------------------------------------------------------------
(***************************************************************************)
(* One cover and one logo per region.  No handler refuses a submission with  *)
(* two uploads for one region: the form does not offer it, and the theorem *)
(* assumes it of the rows, after region-less ones have got the primary     *)
(* region.  A move empties its slot first, an upload replaces its slot.    *)
(***************************************************************************)
NoRegionTwice ==
    \A f, g \in Uploads :
       /\ row[f] = "live" /\ row[g] = "live" /\ SubOf[f] = SubOf[g]
       /\ KindOf[f] = KindOf[g] /\ KindOf[f] \in Regional /\ rowRegion[f] = rowRegion[g]
       => f = g

MoveRow(f) ==
    Op[f] = "move" /\ row[f] = "live" =>
       rowKey[f] \in Keys /\ KindOf[rowKey[f].file] = KindOf[f]

Slots(p) ==
    LET s == req[p].sub  pc == req[p].pc  e == req[p].file IN
    /\ pc \in {"apply", "move"} => req[p].todo \subseteq {AsEntry(f) : f \in Rows(s)}
    /\ pc = "move" =>
          /\ \E f \in Rows(s) : e = AsEntry(f) /\ Op[f] = "move"
          /\ \A m \in media : m.game = gameOf[s] /\ Names(e, m) => m.key = e.key
    /\ pc = "insert_media" =>
          \A f \in UploadRows(s), m \in media :
             m.game = gameOf[s] /\ Names(AsEntry(f), m) => m.key = rowKey[f]

SlotsInv == (\A f \in Files : MoveRow(f)) /\ OnePerRegion /\ \A p \in Procs : Slots(p)

LEMMA NoSlots ==
    ASSUME NEW p, req'[p].pc \notin {"apply", "move", "insert_media"}
    PROVE  Slots(p)'
BY DEF Slots

LEMMA SlotsKept ==
    ASSUME NEW p \in Procs, Others(p), \A q \in Procs \ {p} : req[q].pc = "idle",
           (\A f \in Files : MoveRow(f))', OnePerRegion', Slots(p)'
    PROVE  SlotsInv'
<1>1. ASSUME NEW q \in Procs \ {p} PROVE Slots(q)'
  BY NoSlots DEF Others
<1>2. QED
  BY <1>1 DEF SlotsInv

LEMMA RowsFrame ==
    ASSUME UNCHANGED <<row, rowKey, rowRegion>>, NEW s
    PROVE  /\ UNCHANGED Rows(s) /\ UNCHANGED UploadRows(s) /\ \A f : UNCHANGED AsEntry(f)
           /\ {AsEntry(f) : f \in Rows(s)}' = {AsEntry(f) : f \in Rows(s)}
<1>1. UNCHANGED Rows(s) /\ UNCHANGED UploadRows(s) /\ \A f : UNCHANGED AsEntry(f)
  BY DEF Rows, UploadRows, AsEntry
<1>2. QED
  BY <1>1

\* A media row a step leaves in its slot.
LEMMA FewerMedia ==
    ASSUME OnePerRegion, media' \subseteq media
    PROVE  OnePerRegion'
BY DEF OnePerRegion

LEMMA ClearSlots ==
    ASSUME TypeInv, SlotsInv, NEW p \in Procs, ApplyStart(p) \/ ApplyDelete(p) \/ ApplyClear(p)
    PROVE  Slots(p)' /\ OnePerRegion'
<1>0. PICK s : s = req[p].sub
  OBVIOUS
<1>1. UNCHANGED <<row, rowKey, rowRegion, gameOf>> /\ media' \subseteq media
  BY DEF ApplyStart, ApplyDelete, ApplyClear, db, subsTable, files
<1>2. OnePerRegion'
  BY <1>1, FewerMedia DEF SlotsInv
<1>3. CASE ApplyStart(p)
  <2>1. CASE Ends(p)
    <3>1. req'[p].pc = "idle"
      BY <2>1 DEF Ends, Idle
    <3>2. QED
      BY <1>2, <3>1, NoSlots
  <2>2. CASE ~Ends(p)
    <3>1. /\ req'[p].sub = s /\ req'[p].pc \in {"text", "apply"}
          /\ req'[p].todo = ListFiles(s) \ UploadsOf(ListFiles(s))
      BY <1>0, <1>3, <2>2, ApplyStartDoes DEF Becomes, Is
    <3>2. req'[p].todo \subseteq {AsEntry(f) : f \in Rows(s)}'
      BY <1>1, <3>1, RowsFrame DEF ListFiles
    <3>3. CASE req'[p].pc = "apply"
      BY <1>2, <3>1, <3>2, <3>3 DEF Slots
    <3>4. CASE req'[p].pc = "text"
      BY <1>2, <3>4, NoSlots
    <3>5. QED
      BY <1>2, <3>1, <3>3, <3>4
  <2>3. QED
    BY <2>1, <2>2
<1>4. CASE ApplyDelete(p)
  <2>1. /\ req'[p].sub = s /\ req'[p].pc = "apply" /\ req'[p].todo \subseteq req[p].todo
    BY <1>0, <1>4, ApplyDeleteDoes DEF Becomes, Is
  <2>2. req[p].todo \subseteq {AsEntry(f) : f \in Rows(s)}'
    BY <1>0, <1>1, <1>4, RowsFrame DEF ApplyDelete, At, SlotsInv, Slots
  <2>3. QED
    BY <1>2, <2>1, <2>2 DEF Slots
<1>5. CASE ApplyClear(p)
  <2>1. PICK e \in req[p].todo :
           /\ Op[e.file] = "move"
           /\ media' = {m \in media : m \notin Replaced(s, {e}) \/ m.key = e.key}
           /\ Becomes(p, "move", req[p].list, req[p].todo \ {e}, e, req[p].old)
    BY <1>0, <1>5, ApplyClearDoes
  <2>2. /\ req'[p].sub = s /\ req'[p].pc = "move" /\ req'[p].todo \subseteq req[p].todo
        /\ req'[p].file = e
    BY <1>0, <2>1 DEF Becomes, Is
  <2>3. req[p].todo \subseteq {AsEntry(f) : f \in Rows(s)}
    BY <1>0, <1>5 DEF ApplyClear, At, SlotsInv, Slots
  <2>4. PICK f \in Rows(s) : e = AsEntry(f)
    BY <2>1, <2>3
  <2>5. Op[f] = "move"
    BY <2>1, <2>4, Listed
  <2>6. \A m \in media' : m.game = gameOf[s] /\ Names(e, m) => m.key = e.key
    BY <2>1 DEF Replaced, ListMediaByGame
  <2>7. /\ UNCHANGED gameOf[s] /\ UNCHANGED Rows(s) /\ UNCHANGED AsEntry(f)
        /\ req'[p].todo \subseteq {AsEntry(x) : x \in Rows(s)}'
    BY <1>1, <2>2, <2>3, RowsFrame
  <2>8. QED
    BY <1>2, <2>2, <2>4, <2>5, <2>6, <2>7 DEF Slots, Names
<1>6. QED
  BY <1>2, <1>3, <1>4, <1>5

LEMMA MoveSlots ==
    ASSUME TypeInv, WorkInv, SlotsInv, NEW p \in Procs, ApplyMove(p)
    PROVE  Slots(p)' /\ OnePerRegion'
<1>0. PICK s : s = req[p].sub
  OBVIOUS
<1> DEFINE e == req[p].file
           moved == {m \in ListMediaByGame(gameOf[s]) : m.key = e.key}
           At1(m) == [m EXCEPT !.region = e.region]
<1>1. /\ UNCHANGED <<row, rowKey, rowRegion, gameOf>>
      /\ media' = (media \ moved) \cup {At1(m) : m \in moved}
      /\ req[p].pc = "move"
  BY <1>0 DEF ApplyMove, At, subsTable, files
<1>2. PICK f \in Rows(s) : e = AsEntry(f) /\ Op[f] = "move"
  BY <1>0, <1>1 DEF SlotsInv, Slots
<1>3. e.file = f /\ e.key \in Keys /\ KindOf[e.key.file] = KindOf[f]
  BY <1>2, Listed DEF SlotsInv, MoveRow, Rows
<1>4. ASSUME NEW m \in moved
      PROVE  /\ m \in media /\ m.game = gameOf[s] /\ m.key = e.key /\ m.kind = KindOf[f]
             /\ At1(m).game = m.game /\ At1(m).kind = m.kind /\ At1(m).key = m.key
             /\ At1(m).region = e.region
             /\ At1(m) = [game |-> gameOf[s], kind |-> KindOf[f], region |-> e.region, key |-> e.key]
  <2>1. m \in media /\ m.game = gameOf[s] /\ m.key = e.key /\ m.kind = KindOf[f]
    BY <1>3 DEF ListMediaByGame, WorkInv, MediaKeys
  <2>2. m \in Media
    BY <2>1, MediaAre
  <2>3. QED
    BY <2>1, <2>2 DEF Media
<1>5. \A m \in media : m.game = gameOf[s] /\ Names(e, m) => m \in moved
  BY <1>0, <1>1 DEF SlotsInv, Slots, ListMediaByGame
<1> HIDE DEF At1, moved
<1>6. ASSUME NEW m \in media', NEW n \in media',
             m.kind \in Regional, m.kind = n.kind, m.game = n.game, m.region = n.region
      PROVE  m = n
  <2>1. CASE m \in media \ moved /\ n \in media \ moved
    BY <1>6, <2>1 DEF SlotsInv, OnePerRegion
  <2>2. ASSUME NEW x \in moved, NEW y \in media \ moved, y.kind = At1(x).kind,
               y.game = At1(x).game, y.region = At1(x).region
        PROVE  FALSE
    <3>1. y.game = gameOf[s] /\ Names(e, y)
      BY <1>3, <1>4, <2>2 DEF Names
    <3>2. QED
      BY <1>5, <2>2, <3>1
  <2>3. \A x, y \in moved : At1(x) = At1(y)
    BY <1>4
  <2>4. QED
    BY <1>1, <1>6, <2>1, <2>2, <2>3
<1>7. OnePerRegion'
  BY <1>6 DEF OnePerRegion
<1>8. /\ req'[p].sub = s /\ req'[p].pc = "apply" /\ req'[p].todo = req[p].todo
  BY <1>0, ApplyMoveDoes DEF Becomes, Is
<1>9. req'[p].todo \subseteq {AsEntry(x) : x \in Rows(s)}'
  BY <1>0, <1>1, <1>8, RowsFrame DEF SlotsInv, Slots
<1>10. QED
  BY <1>7, <1>8, <1>9 DEF Slots

LEMMA ReplaceSlots ==
    ASSUME TypeInv, SlotsInv, NEW p \in Procs, ApplyReplace(p)
    PROVE  Slots(p)' /\ OnePerRegion'
<1>0. PICK s : s = req[p].sub
  OBVIOUS
<1>1. /\ UNCHANGED <<row, rowKey, rowRegion, gameOf>>
      /\ media' = {m \in media : \A e \in UploadsOf(ListFiles(s)) :
                      m.game = gameOf[s] /\ Names(e, m) => m.key = e.key}
  BY <1>0 DEF ApplyReplace, subsTable, files
<1>2. req'[p].sub = s /\ req'[p].pc = "insert_media"
  BY <1>0, NextDoes DEF ApplyReplace, Becomes, Is
<1>3. ASSUME NEW f \in UploadRows(s), NEW m \in media', m.game = gameOf[s], Names(AsEntry(f), m)
      PROVE  m.key = rowKey[f]
  <2>1. AsEntry(f) \in UploadsOf(ListFiles(s)) /\ AsEntry(f).key = rowKey[f]
    BY Listed
  <2>2. QED
    BY <1>1, <1>3, <2>1
<1>4. UNCHANGED UploadRows(s) /\ UNCHANGED gameOf[s] /\ \A f : UNCHANGED AsEntry(f)
  BY <1>1, RowsFrame
<1>5. ASSUME NEW f \in UploadRows(s)', NEW m \in media', m.game = gameOf'[s], Names(AsEntry(f), m)'
      PROVE  m.key = rowKey'[f]
  BY <1>1, <1>3, <1>4, <1>5 DEF Names
<1>6. Slots(p)'
  BY <1>2, <1>5 DEF Slots, Names
<1>7. OnePerRegion'
  BY <1>1, FewerMedia DEF SlotsInv
<1>8. QED
  BY <1>6, <1>7

LEMMA InsertSlots ==
    ASSUME TypeInv, NoRegionTwice, SlotsInv, NEW p \in Procs, ApplyInsert(p)
    PROVE  Slots(p)' /\ OnePerRegion'
<1>0. PICK s : s = req[p].sub
  OBVIOUS
<1> DEFINE New(f) == [game |-> gameOf[s], kind |-> KindOf[f], region |-> rowRegion[f],
                      key |-> rowKey[f]]
<1>1. req'[p].pc \notin {"apply", "move", "insert_media"}
  BY NextDoes, DoneDoes DEF ApplyInsert, Becomes, Is, Ends, Idle
<1>2. CASE gameOf[s] = None
  BY <1>0, <1>1, <1>2, NoSlots, FewerMedia DEF ApplyInsert, SlotsInv
<1>3. CASE gameOf[s] # None
  <2>1. req[p].pc = "insert_media" /\ media' = media \cup {New(f) : f \in UploadRows(s)}
    BY <1>0, <1>3 DEF ApplyInsert, At
  <2>2. ASSUME NEW f \in UploadRows(s), NEW m \in media, m.kind = KindOf[f], m.game = gameOf[s],
               m.region = rowRegion[f]
        PROVE  m = New(f)
    <3>1. Names(AsEntry(f), m)
      BY <2>2 DEF Names, AsEntry
    <3>2. m.key = rowKey[f]
      BY <1>0, <2>1, <2>2, <3>1 DEF SlotsInv, Slots
    <3>3. m \in Media
      BY MediaAre
    <3>4. QED
      BY <2>2, <3>2, <3>3 DEF Media
  <2>3. ASSUME NEW f \in UploadRows(s), NEW g \in UploadRows(s), KindOf[f] \in Regional,
               KindOf[f] = KindOf[g], rowRegion[f] = rowRegion[g]
        PROVE  f = g
    BY <2>3 DEF NoRegionTwice, UploadRows, Rows
  <2>4. ASSUME NEW m \in media', NEW n \in media',
               m.kind \in Regional, m.kind = n.kind, m.game = n.game, m.region = n.region
        PROVE  m = n
    <3>1. CASE m \in media /\ n \in media
      BY <2>4, <3>1 DEF SlotsInv, OnePerRegion
    <3>2. ASSUME NEW x \in media, NEW f \in UploadRows(s), x.kind = New(f).kind,
                 x.game = New(f).game, x.region = New(f).region
          PROVE  x = New(f)
      BY <2>2, <3>2
    <3>3. ASSUME NEW f \in UploadRows(s), NEW g \in UploadRows(s), New(f).kind \in Regional,
                 New(f).kind = New(g).kind, New(f).region = New(g).region
          PROVE  New(f) = New(g)
      BY <2>3, <3>3
    <3> HIDE DEF New
    <3>4. QED
      BY <2>1, <2>4, <3>1, <3>2, <3>3
  <2>5. QED
    BY <1>1, <2>4, NoSlots DEF OnePerRegion
<1>4. QED
  BY <1>2, <1>3

\* A move carries the key of a media row of its kind.
LEMMA MoveRowStep ==
    ASSUME TypeInv, WorkInv, SlotsInv, NEW p \in Procs, Step(p), NEW f \in Files
    PROVE  MoveRow(f)'
<1> SUFFICES ASSUME Op[f] = "move", row'[f] = "live"
             PROVE  rowKey'[f] \in Keys /\ KindOf[rowKey'[f].file] = KindOf[f]
  BY DEF MoveRow
<1>1. ASSUME rowKey'[f] = rowKey[f], row[f] = "live"
      PROVE  rowKey'[f] \in Keys /\ KindOf[rowKey'[f].file] = KindOf[f]
  BY <1>1 DEF SlotsInv, MoveRow
<1>2. CASE RegisterFile(p)
  <2>1. PICK e \in req[p].todo :
           \/ e.file \in Uploads /\ AddFile(e.file, e.key, e.region)
           \/ /\ Op[e.file] = "move"
              /\ \E m \in MediaExists(req[p].sub, e.file) : AddFile(e.file, m.key, e.region)
           \/ Op[e.file] = "delete" /\ AddFile(e.file, None, e.region)
    BY <1>2, RegisterFileDoes
  <2>2. CASE f = e.file
    <3>1. PICK m \in MediaExists(req[p].sub, f) : AddFile(f, m.key, e.region)
      BY <2>1, <2>2 DEF Uploads
    <3>2. m \in media /\ m.kind = KindOf[f] /\ m.key \in Keys /\ m.kind = KindOf[m.key.file]
      BY <3>1, MediaType DEF MediaExists, ListMediaByGame, WorkInv, MediaKeys
    <3>3. rowKey'[f] = m.key
      BY <3>1 DEF AddFile, TypeInv, TypeOK
    <3>4. QED
      BY <3>2, <3>3
  <2>3. CASE f # e.file
    <3>1. rowKey'[f] = rowKey[f] /\ row[f] = "live"
      BY <2>1, <2>3 DEF AddFile, TypeInv, TypeOK
    <3>2. QED
      BY <1>1, <3>1
  <2>4. QED
    BY <2>2, <2>3
<1>3. CASE UploadURLRegister(p)
  <2>1. req[p].file.file \in Uploads
    BY <1>3, RequestParts DEF UploadURLRegister, At, RequestFine, FilePCs, UploadEntry
  <2>2. UNCHANGED files \/ AddFile(req[p].file.file, req[p].file.key, req[p].file.region)
    BY <1>3 DEF UploadURLRegister
  <2>3. rowKey'[f] = rowKey[f] /\ row[f] = "live"
    BY <2>1, <2>2 DEF AddFile, files, Uploads, TypeInv, TypeOK
  <2>4. QED
    BY <1>1, <2>3
<1>4. CASE PublishRelabel(p) \/ RejectRelabel(p)
  <2>1. req[p].file.file \in Uploads
    BY <1>4, RequestParts DEF PublishRelabel, RejectRelabel, At, RequestFine, FilePCs, UploadEntry
  <2>2. rowKey'[f] = rowKey[f] /\ row[f] = "live"
    BY <1>4, <2>1 DEF PublishRelabel, RejectRelabel, Uploads, TypeInv, TypeOK
  <2>3. QED
    BY <1>1, <2>2
<1>5. CASE CancelRow(p)
  BY <1>1, <1>5 DEF CancelRow
<1>6. CASE ~(RegisterFile(p) \/ UploadURLRegister(p) \/ PublishRelabel(p) \/ RejectRelabel(p)
             \/ CancelRow(p))
  <2>1. UNCHANGED <<row, rowKey>>
    BY <1>6 DEF Step, InsertSubmission, RegisterEnd, CancelObjects,
       ValidateApprovedMedia, CreateGameFromPayload, SetMetadataSubmissionGame,
       ResolveMediaRegions, CaptureList, CaptureOldMedia, CaptureCopyFails, CaptureDone,
       DeleteReplacedMedia, PublishUpload, ApplyStart, ApplyDelete, ApplyClear, ApplyMove,
       ApplyReplace, ApplyInsert, ApplyText, ApproveSetStatus, AwardMetadataPoints, AwardXP,
       DuplicateObjects, DuplicateDetach, DuplicateDelete, PreserveRejectedFile,
       RejectSetStatus, db, files
  <2>2. QED
    BY <1>1, <2>1
<1>7. QED
  BY <1>2, <1>3, <1>4, <1>5, <1>6

LEMMA SlotsStep ==
    ASSUME Serial, TypeInv, SerialInv, WorkInv, NoRegionTwice, SlotsInv, [Next]_vars
    PROVE  SlotsInv'
<1>1. CASE Browser \/ UNCHANGED vars
  <2>1. UNCHANGED <<row, rowKey, rowRegion, media, gameOf, req>>
    BY <1>1 DEF Browser, MetadataUploadURLPre, BrowserUpload, vars, db, subsTable, files
  <2>2. ASSUME NEW p \in Procs PROVE Slots(p)'
    <3>0. PICK s : s = req[p].sub
      OBVIOUS
    <3>1. /\ UNCHANGED Rows(s) /\ UNCHANGED UploadRows(s) /\ \A f : UNCHANGED AsEntry(f)
          /\ {AsEntry(f) : f \in Rows(s)}' = {AsEntry(f) : f \in Rows(s)}
      BY <2>1, RowsFrame
    <3>2. QED
      BY <2>1, <3>0, <3>1 DEF SlotsInv, Slots, Names
  <2>3. QED
    BY <2>1, <2>2 DEF SlotsInv, MoveRow, OnePerRegion
<1>2. ASSUME NEW p \in Procs, Start(p) \/ Step(p) \/ Abort(p) PROVE SlotsInv'
  <2>1. Others(p) /\ \A q \in Procs \ {p} : req[q].pc = "idle"
    BY <1>2, OnlyOne DEF SerialInv
  <2>2. (\A f \in Files : MoveRow(f))'
    <3>1. CASE Step(p)
      BY <3>1, MoveRowStep
    <3>2. CASE Start(p) \/ Abort(p)
      BY <3>2, StartOthers DEF Abort, db, files, SlotsInv, MoveRow
    <3>3. QED
      BY <1>2, <3>1, <3>2
  <2>3. CASE ApplyStart(p) \/ ApplyDelete(p) \/ ApplyClear(p) \/ ApplyMove(p)
             \/ ApplyReplace(p) \/ ApplyInsert(p)
    BY <2>1, <2>2, <2>3, ClearSlots, MoveSlots, ReplaceSlots, InsertSlots, SlotsKept
  <2>4. CASE ~(ApplyStart(p) \/ ApplyDelete(p) \/ ApplyClear(p) \/ ApplyMove(p)
               \/ ApplyReplace(p) \/ ApplyInsert(p))
    <3> USE DEF Becomes, Is, Ends
    <3>0. Idle.pc = "idle"
      BY DEF Idle
    <3>1. req'[p].pc \notin {"apply", "move", "insert_media"} /\ media' \subseteq media
      <4>1. CASE Start(p)
        BY <4>1, StartDoes, StartOthers DEF Begins, db
      <4>2. CASE Abort(p)
        BY <3>0, <4>2, DoneDoes DEF Abort, db
      <4>3. CASE UploadURLRegister(p) \/ RegisterEnd(p) \/ CancelRow(p)
        BY <3>0, <4>3, DoneDoes DEF UploadURLRegister, RegisterEnd, CancelRow, db
      <4>31. CASE InsertSubmission(p)
        BY <3>0, <4>31, DoneDoes, NextDoes DEF InsertSubmission
      <4>32. CASE RegisterFile(p)
        BY <3>0, <4>32, RegisterFileDoes DEF RegisterFile
      <4>33. CASE CancelObjects(p)
        BY <3>0, <4>33, CancelObjectsDoes DEF CancelObjects, db
      <4>4. CASE ValidateApprovedMedia(p) \/ ResolveMediaRegions(p) \/ DeleteReplacedMedia(p)
        BY <3>0, <4>4, ValidateDoes, ResolveDoes, DeleteReplacedMediaDoes
           DEF ValidateApprovedMedia, ResolveMediaRegions, DeleteReplacedMedia, db
      <4>5. CASE CaptureList(p) \/ CaptureOldMedia(p)
        BY <3>0, <4>5, CaptureListDoes, CaptureOldMediaDoes DEF CaptureList, CaptureOldMedia, db
      <4>51. CASE CaptureCopyFails(p)
        BY <3>0, <4>51, CaptureCopyFailsDoes DEF CaptureCopyFails, db
      <4>52. CASE CaptureDone(p)
        BY <3>0, <4>52, NextDoes DEF CaptureDone, db
      <4>6. CASE CreateGameFromPayload(p) \/ SetMetadataSubmissionGame(p) \/ ApplyText(p)
                 \/ ApproveSetStatus(p) \/ AwardMetadataPoints(p) \/ AwardXP(p)
        BY <3>0, <4>6, DoneDoes, NextDoes
           DEF CreateGameFromPayload, SetMetadataSubmissionGame, ApplyText, ApproveSetStatus,
               AwardMetadataPoints, AwardXP, db
      <4>7. CASE DuplicateObjects(p) \/ DuplicateDetach(p) \/ DuplicateDelete(p) \/ RejectSetStatus(p)
        BY <3>0, <4>7, DoneDoes, NextDoes
           DEF DuplicateObjects, DuplicateDetach, DuplicateDelete, RejectSetStatus, db
      <4>8. CASE PublishUpload(p)
        BY <3>0, <4>8, PublishUploadDoes DEF PublishUpload, db
      <4>9. CASE PreserveRejectedFile(p)
        BY <3>0, <4>9, PreserveRejectedFileDoes DEF PreserveRejectedFile, db
      <4>10. CASE PublishRelabel(p) \/ RejectRelabel(p)
        BY <3>0, <4>10, PublishRelabelDoes, RejectRelabelDoes DEF PublishRelabel, RejectRelabel
      <4>11. QED
        BY <1>2, <2>4, <4>1, <4>2, <4>3, <4>31, <4>32, <4>33, <4>4, <4>5, <4>51, <4>52,
           <4>6, <4>7, <4>8, <4>9, <4>10 DEF Step
    <3>2. QED
      BY <2>1, <2>2, <3>1, NoSlots, FewerMedia, SlotsKept DEF SlotsInv
  <2>5. QED
    BY <2>3, <2>4
<1>3. QED
  BY <1>1, <1>2 DEF Next

\* Where no submission names a region twice for covers or logos, the catalogue
\* never lists two covers or two logos of a game for one region: also not between
\* the statements of an approval, nor after one that ended early.
THEOREM OneArtPerRegion == Serial => (Spec /\ []NoRegionTwice => []OnePerRegion)
<1>1. SUFFICES ASSUME Serial PROVE Spec /\ []NoRegionTwice => []OnePerRegion
  OBVIOUS
<1>2. Init => SlotsInv
  BY DEF Init, Idle, SlotsInv, MoveRow, OnePerRegion, Slots
<1>3. TypeInv /\ SerialInv /\ WorkInv /\ NoRegionTwice /\ SlotsInv /\ [Next]_vars => SlotsInv'
  BY <1>1, SlotsStep
<1>4. SlotsInv => OnePerRegion
  BY DEF SlotsInv
<1>5. Spec => []TypeInv /\ []SerialInv /\ []WorkInv
  BY <1>1, TypeInvHolds, SerialInvHolds, WorkInvHolds
<1>6. QED
  BY <1>2, <1>3, <1>4, <1>5, PTL DEF Spec
=============================================================================
