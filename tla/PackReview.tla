----------------------------- MODULE PackReview -----------------------------
(***************************************************************************)
(* System art packs: the life of a submission, from the uploader's browser *)
(* to the published pack.  PostgreSQL holds the submission and its file    *)
(* rows, R2 holds the objects, and no transaction spans the two.           *)
(*                                                                         *)
(* Every HTTP request is a process that takes one step per SQL statement   *)
(* or R2 call that matters, with what it read kept in req[p]; requests     *)
(* interleave, and one may be cut short between two of its steps (a client *)
(* that disconnects cancels the context of the R2 calls, a statement       *)
(* fails, the server stops).  With Serial = TRUE requests do not overlap:  *)
(* the same handlers, run one after the other.                             *)
(*                                                                         *)
(* Abstractions.  A submission id is used for one submission, an element   *)
(* of Art for one upload: its review key, its file row and its bytes.      *)
(* System ids are Slots; themes and previews, which have no sibling        *)
(* extension, behave like a slot of one format.  Uploads of a submission   *)
(* with one slot and extension carry one file name.  Normalising an image  *)
(* does not change which upload it came from.                              *)
(*                                                                         *)
(* A definition placed before another one and named after it plus a fault  *)
(* (CreateSubmissionNoCheck, PublishRelabelForgotten, ...) is that         *)
(* definition with a bug a careless change could bring in.  Nothing uses   *)
(* it; it is there to show that the properties notice.                     *)
(***************************************************************************)
EXTENDS Naturals, FiniteSets

CONSTANTS
    Subs,           \* submission ids
    Packs,          \* pack ids
    Slots,          \* (kind, system id) pairs a pack publishes art for
    Art,            \* uploads
    Procs,          \* request handlers running at the same time
    PackOf,         \* submission -> the pack id its name or target gives it
    Contribution,   \* the submissions that extend an approved pack
    SubOf,          \* upload -> the submission it is made for
    SlotOf,         \* upload -> the slot its file name gives it
    ExtOf,          \* upload -> the extension it is published with
    Unlucky,        \* uploads whose random key contains "404"
    Serial,         \* TRUE: a request starts only when no other one runs
    MaxRejections,  \* bound: times an object is moved under rejected/
    MaxFailures,    \* bound: requests cut short, or failing R2 reads
    None            \* no object, no file, no submission

Exts == {".webp", ".gif"}

(***************************************************************************)
(* R2 object keys.  A review key "packs/{pack}/review/{uuid}/{file}" is    *)
(* named by its upload; each rejection prefixes it with "rejected/".       *)
(***************************************************************************)
StagedKeys == [art : Art, rejected : 0..MaxRejections]
PublicKeys == [pack : Packs, slot : Slots, ext : Exts]
Keys == StagedKeys \cup PublicKeys

reviewObjectKey(a) == [art |-> a, rejected |-> 0]

rejectedObjectKey(k) == [k EXCEPT !.rejected = @ + 1]

isReviewObjectKey(k) == k \in StagedKeys

\* The canonical key of an upload.
ObjectKey(a) == [pack |-> PackOf[SubOf[a]], slot |-> SlotOf[a], ext |-> ExtOf[a]]

\* The canonical key of the same slot with the other extension.
SiblingKey(k) == [k EXCEPT !.ext = CHOOSE e \in Exts : e # k.ext]

\* What a listing of "packs/{pk}/" can return: rejected/ objects lie outside.
PackPrefix(pk) ==
    {k \in PublicKeys : k.pack = pk} \cup
    {k \in StagedKeys : k.rejected = 0 /\ PackOf[SubOf[k.art]] = pk}

File == [art : Art, key : Keys]

PCs == {"idle", "insert", "register", "presign", "unlink", "droprow",
        "list_approve", "publish", "unstage", "relabel", "award", "credit",
        "list_reject", "preserve", "relabel_rejected",
        "keep", "sweep", "droprows", "trash_status",
        "delete_list", "delete_objects", "delete_row"}

\* What a running request holds: the files it listed and has not processed,
\* the one at hand, the keys a sweep keeps, the version an approval assigns.
Request == [pc : PCs, sub : Subs \cup {None}, todo : SUBSET File,
            file : File \cup {None}, keep : SUBSET Keys, version : Nat]

Idle == [pc |-> "idle", sub |-> None, todo |-> {}, file |-> None,
         keep |-> {}, version |-> 0]

Statuses == {"absent", "created", "pending", "approved", "rejected",
             "trashed", "deleted"}

ASSUME PackReviewAssumption ==
    /\ PackOf \in [Subs -> Packs]
    /\ Contribution \subseteq Subs
    /\ SubOf \in [Art -> Subs]
    /\ SlotOf \in [Art -> Slots]
    /\ ExtOf \in [Art -> Exts]
    /\ Unlucky \subseteq Art
    /\ Serial \in BOOLEAN
    /\ IsFiniteSet(Subs)
    /\ MaxRejections \in Nat
    /\ MaxFailures \in Nat
    /\ None \notin Subs \cup Art \cup File

VARIABLES
    status,    \* submissions.status ("absent": not inserted, "deleted": gone)
    version,   \* submissions.admin_version: 0 is '', n + 1 is "1.n"
    row,       \* submission_files: is the upload's row unused, live or dropped
    rowKey,    \* submission_files.object_key of a live row
    bucket,    \* R2: the upload whose bytes an object holds, or None
    url,       \* presigned PUT: none, signed, issued to the browser, or used
    ledger,    \* xp_ledger entries of a submission
    req,       \* the running requests
    failures   \* requests cut short so far

db == <<status, version, row, rowKey>>
vars == <<status, version, row, rowKey, bucket, url, ledger, req, failures>>

TypeOK ==
    /\ status \in [Subs -> Statuses]
    /\ version \in [Subs -> Nat]
    /\ row \in [Art -> {"unused", "live", "dropped"}]
    /\ rowKey \in [Art -> Keys]
    /\ bucket \in [Keys -> Art \cup {None}]
    /\ url \in [Art -> {"none", "signed", "issued", "used"}]
    /\ ledger \in [Subs -> Nat]
    /\ req \in [Procs -> Request]
    /\ failures \in 0..MaxFailures

Init ==
    /\ status = [s \in Subs |-> "absent"]
    /\ version = [s \in Subs |-> 0]
    /\ row = [a \in Art |-> "unused"]
    /\ rowKey = [a \in Art |-> reviewObjectKey(a)]
    /\ bucket = [k \in Keys |-> None]
    /\ url = [a \in Art |-> "none"]
    /\ ledger = [s \in Subs |-> 0]
    /\ req = [p \in Procs |-> Idle]
    /\ failures = 0

-----------------------------------------------------------------------------
\* The rows of a submission, and the list ListFiles returns of them.
Rows(s) == {a \in Art : SubOf[a] = s /\ row[a] = "live"}
ListFiles(s) == {[art |-> a, key |-> rowKey[a]] : a \in Rows(s)}

Exists(s) == status[s] \notin {"absent", "deleted"}
SamePack(s, t) == PackOf[s] = PackOf[t]

Quiet == \A p \in Procs : req[p].pc = "idle"
Enter(p) == req[p].pc = "idle" /\ (Serial => Quiet)
At(p, pc) == req[p].pc = pc
Go(p, r) == req' = [req EXCEPT ![p] = r]
Done(p) == req' = [req EXCEPT ![p] = Idle]

Begin(p, s, pc) == Go(p, [Idle EXCEPT !.pc = pc, !.sub = s])

\* Objects gone after DeleteObject(s); deleting a missing key succeeds.
Without(ks) == [k \in Keys |-> IF k \in ks THEN None ELSE bucket[k]]

-----------------------------------------------------------------------------
(***************************************************************************)
(* Uploads.                                                                *)
(***************************************************************************)

\* SubmissionUploadURLPre hands out a review key before any submission
\* exists; nothing is stored until the browser's PUT arrives.
PresignedUpload(a) ==
    /\ url[a] = "none"
    /\ url' = [url EXCEPT ![a] = "used"]
    /\ bucket' = [bucket EXCEPT ![reviewObjectKey(a)] = a]
    /\ UNCHANGED <<db, ledger, req, failures>>

\* The PUT of an upload GetUploadURL registered; it may come late or never.
BrowserUpload(a) ==
    /\ url[a] = "issued"
    /\ url' = [url EXCEPT ![a] = "used"]
    /\ bucket' = [bucket EXCEPT ![reviewObjectKey(a)] = a]
    /\ UNCHANGED <<db, ledger, req, failures>>

UploadURLEditable == {"pending", "created"}

GetUploadURL(p, a) ==
    LET s == SubOf[a] IN
    /\ Enter(p)
    /\ status[s] \in UploadURLEditable
    /\ url[a] = "none"
    /\ url' = [url EXCEPT ![a] = "signed"]
    /\ Go(p, [Idle EXCEPT !.pc = "presign", !.sub = s,
                          !.file = [art |-> a, key |-> reviewObjectKey(a)]])
    /\ UNCHANGED <<db, bucket, ledger, failures>>

\* AddFileReason: one row per (file name, system, kind); a re-registered file
\* replaces the older row.
AddFileReason(f) ==
    LET older == {b \in Rows(SubOf[f.art]) : b # f.art /\ ObjectKey(b) = ObjectKey(f.art)} IN
    /\ row' = [a \in Art |-> IF a = f.art THEN "live"
                             ELSE IF a \in older THEN "dropped" ELSE row[a]]
    /\ rowKey' = [rowKey EXCEPT ![f.art] = f.key]

UploadURLRegister(p) ==
    LET f == req[p].file IN
    /\ At(p, "presign")
    /\ IF Exists(req[p].sub)
       THEN /\ AddFileReason(f)
            /\ url' = [url EXCEPT ![f.art] = "issued"]
       ELSE UNCHANGED <<row, rowKey, url>>    \* foreign key violation
    /\ Done(p)
    /\ UNCHANGED <<status, version, bucket, ledger, failures>>

-----------------------------------------------------------------------------
(***************************************************************************)
(* CreateSubmission: check the pack id, insert the row, then validate and  *)
(* register the files one by one.                                          *)
(***************************************************************************)

PackIDInUse(pk) ==
    \E t \in Subs : PackOf[t] = pk /\ Exists(t) /\ status[t] # "trashed"

ApprovedPack(pk) == \E t \in Subs : PackOf[t] = pk /\ status[t] = "approved"

\* The uploads a client may name in a request: those it made itself.
Uploaded(s) == {a \in Art : SubOf[a] = s /\ row[a] = "unused" /\ url[a] = "used"}
Inputs(as) == {[art |-> a, key |-> reviewObjectKey(a)] : a \in as}

CreateSubmissionNoCheck(p, s) ==
    /\ Enter(p)
    /\ status[s] = "absent"
    /\ \A q \in Procs : req[q].sub # s
    /\ s \in Contribution => ApprovedPack(PackOf[s])
    /\ \E as \in SUBSET Uploaded(s) :
          Go(p, [Idle EXCEPT !.pc = "insert", !.sub = s, !.todo = Inputs(as)])
    /\ UNCHANGED <<db, bucket, url, ledger, failures>>

CreateSubmission(p, s) ==
    /\ Enter(p)
    /\ status[s] = "absent"
    /\ \A q \in Procs : req[q].sub # s
    /\ IF s \in Contribution THEN ApprovedPack(PackOf[s])
                             ELSE ~PackIDInUse(PackOf[s])
    /\ \E as \in SUBSET Uploaded(s) :
          Go(p, [Idle EXCEPT !.pc = "insert", !.sub = s, !.todo = Inputs(as)])
    /\ UNCHANGED <<db, bucket, url, ledger, failures>>

InsertSubmissionBlank(p) ==
    /\ At(p, "insert")
    /\ status' = [status EXCEPT ![req[p].sub] = ""]
    /\ Go(p, [req[p] EXCEPT !.pc = "register"])
    /\ UNCHANGED <<version, row, rowKey, bucket, url, ledger, failures>>

InsertSubmission(p) ==
    /\ At(p, "insert")
    /\ status' = [status EXCEPT ![req[p].sub] = "pending"]
    /\ Go(p, [req[p] EXCEPT !.pc = "register"])
    /\ UNCHANGED <<version, row, rowKey, bucket, url, ledger, failures>>

\* The object is in R2 (and small enough, which a browser's PUT does not change).
ensureUploaded(k) == bucket[k] # None

\* One turn of the loop of CreateSubmission and AddSubmissionFiles: the object
\* must exist, then its row is written.
RegisterFile(p) ==
    \E f \in req[p].todo :
       /\ At(p, "register")
       /\ IF ensureUploaded(f.key) /\ Exists(req[p].sub)
          THEN /\ AddFileReason(f)
               /\ Go(p, [req[p] EXCEPT !.todo = @ \ {f}])
          ELSE /\ UNCHANGED <<row, rowKey>>    \* an error ends the request
               /\ Done(p)
       /\ UNCHANGED <<status, version, bucket, url, ledger, failures>>

RegisterDone(p) ==
    /\ At(p, "register") /\ req[p].todo = {}
    /\ Done(p)
    /\ UNCHANGED <<db, bucket, url, ledger, failures>>

-----------------------------------------------------------------------------
(***************************************************************************)
(* The submitter's edits.                                                  *)
(***************************************************************************)

Editable == {"created", "rejected"}

AddSubmissionFilesAnyStatus(p, s) ==
    /\ Enter(p)
    /\ Exists(s)
    /\ \E as \in (SUBSET Uploaded(s)) \ {{}} :
          Go(p, [Idle EXCEPT !.pc = "register", !.sub = s, !.todo = Inputs(as)])
    /\ UNCHANGED <<db, bucket, url, ledger, failures>>

AddSubmissionFiles(p, s) ==
    /\ Enter(p)
    /\ status[s] \in Editable
    /\ \E as \in (SUBSET Uploaded(s)) \ {{}} :
          Go(p, [Idle EXCEPT !.pc = "register", !.sub = s, !.todo = Inputs(as)])
    /\ UNCHANGED <<db, bucket, url, ledger, failures>>

RemoveSubmissionFile(p, a) ==
    /\ Enter(p)
    /\ status[SubOf[a]] \in Editable
    /\ row[a] = "live"
    /\ Go(p, [Idle EXCEPT !.pc = "unlink", !.sub = SubOf[a],
                          !.file = [art |-> a, key |-> rowKey[a]]])
    /\ UNCHANGED <<db, bucket, url, ledger, failures>>

\* A staged object is deleted, a canonical one is left alone.  An error of the
\* delete is only logged, so the object may also stay.
RemoveObject(p) ==
    /\ At(p, "unlink")
    /\ \/ bucket' = IF isReviewObjectKey(req[p].file.key)
                    THEN Without({req[p].file.key}) ELSE bucket
       \/ bucket' = bucket
    /\ Go(p, [req[p] EXCEPT !.pc = "droprow"])
    /\ UNCHANGED <<db, url, ledger, failures>>

RemoveRow(p) ==
    /\ At(p, "droprow")
    /\ row' = [row EXCEPT ![req[p].file.art] = "dropped"]
    /\ Done(p)
    /\ UNCHANGED <<status, version, rowKey, bucket, url, ledger, failures>>

SubmitForReviewAnyStatus(s) ==
    /\ Serial => Quiet
    /\ Exists(s)
    /\ status' = [status EXCEPT ![s] = "pending"]
    /\ UNCHANGED <<version, row, rowKey, bucket, url, ledger, req, failures>>

\* SubmitSubmission is one conditional UPDATE; SubmitForReview looks at the
\* files only afterwards, so its "submission has no files" changes nothing.
SubmitForReview(s) ==
    /\ Serial => Quiet
    /\ status[s] \in Editable
    /\ status' = [status EXCEPT ![s] = "pending"]
    /\ UNCHANGED <<version, row, rowKey, bucket, url, ledger, req, failures>>

-----------------------------------------------------------------------------
(***************************************************************************)
(* Approve: version, publish every listed file, set the status, award XP.  *)
(***************************************************************************)

CountApprovedByPack(s) ==
    Cardinality({t \in Subs \ {s} : SamePack(s, t) /\ status[t] = "approved"})

Approve(p, s) ==
    /\ Enter(p)
    /\ status[s] = "pending"
    /\ Go(p, [Idle EXCEPT !.pc = "list_approve", !.sub = s,
                          !.version = CountApprovedByPack(s) + 1])
    /\ UNCHANGED <<db, bucket, url, ledger, failures>>

ApproveList(p) ==
    /\ At(p, "list_approve")
    /\ Go(p, [req[p] EXCEPT !.pc = "publish", !.todo = ListFiles(req[p].sub)])
    /\ UNCHANGED <<db, bucket, url, ledger, failures>>

\* publishSubmissionFile of a file that is canonical already.
PublishNothing(p) ==
    \E f \in req[p].todo :
       /\ At(p, "publish")
       /\ f.key = ObjectKey(f.art)
       /\ Go(p, [req[p] EXCEPT !.todo = @ \ {f}])
       /\ UNCHANGED <<db, bucket, url, ledger, failures>>

PublishMissingFails(p) ==
    \E f \in req[p].todo :
       /\ At(p, "publish")
       /\ f.key # ObjectKey(f.art)
       /\ bucket[f.key] = None
       /\ Done(p)
       /\ UNCHANGED <<db, bucket, url, ledger, failures>>

\* isMissingSource takes any failure for a missing source whose text contains
\* "404", and the text quotes the key.
MistakenForMissing(f) ==
    f.art \in Unlucky /\ failures < MaxFailures /\ failures' = failures + 1

\* The source is missing, or seems to be: the row is dropped.
PublishMissing(p) ==
    \E f \in req[p].todo :
       /\ At(p, "publish")
       /\ f.key # ObjectKey(f.art)
       /\ \/ bucket[f.key] = None /\ UNCHANGED failures
          \/ MistakenForMissing(f)
       /\ row' = [row EXCEPT ![f.art] = "dropped"]
       /\ Go(p, [req[p] EXCEPT !.todo = @ \ {f}])
       /\ UNCHANGED <<status, version, rowKey, bucket, url, ledger>>

PublishFileAsWebP(p) ==
    \E f \in req[p].todo :
       /\ At(p, "publish")
       /\ f.key # ObjectKey(f.art)
       /\ bucket[f.key] # None
       /\ bucket' = [bucket EXCEPT ![[ObjectKey(f.art) EXCEPT !.ext = ".webp"]] = bucket[f.key]]
       /\ Go(p, [req[p] EXCEPT !.pc = "unstage", !.file = f, !.todo = @ \ {f}])
       /\ UNCHANGED <<db, url, ledger, failures>>

PublishFile(p) ==
    \E f \in req[p].todo :
       /\ At(p, "publish")
       /\ f.key # ObjectKey(f.art)
       /\ bucket[f.key] # None
       /\ bucket' = [bucket EXCEPT ![ObjectKey(f.art)] = bucket[f.key]]
       /\ Go(p, [req[p] EXCEPT !.pc = "unstage", !.file = f, !.todo = @ \ {f}])
       /\ UNCHANGED <<db, url, ledger, failures>>

\* The staging object and the canonical object of the other extension go; an
\* error of the second delete is only logged, so that one may also stay.
PublishUnstage(p) ==
    LET f == req[p].file IN
    /\ At(p, "unstage")
    /\ \E gone \in {{f.key}, {f.key, SiblingKey(ObjectKey(f.art))}} : bucket' = Without(gone)
    /\ Go(p, [req[p] EXCEPT !.pc = "relabel"])
    /\ UNCHANGED <<db, url, ledger, failures>>

\* Rows of the submission that hold the canonical key already are dropped, then
\* the row gets the key; updating a row that is gone does nothing.
PublishRelabelForgotten(p) ==
    /\ At(p, "relabel")
    /\ Go(p, [req[p] EXCEPT !.pc = "publish", !.file = None])
    /\ UNCHANGED <<db, bucket, url, ledger, failures>>

PublishRelabel(p) ==
    LET f == req[p].file
        key == ObjectKey(f.art)
        twins == {b \in Rows(SubOf[f.art]) : b # f.art /\ rowKey[b] = key}
    IN
    /\ At(p, "relabel")
    /\ row' = [a \in Art |-> IF a \in twins THEN "dropped" ELSE row[a]]
    /\ rowKey' = [rowKey EXCEPT ![f.art] = IF row[f.art] = "live" THEN key ELSE @]
    /\ Go(p, [req[p] EXCEPT !.pc = "publish", !.file = None])
    /\ UNCHANGED <<status, version, bucket, url, ledger, failures>>

\* SetSubmissionStatus has no condition on the current status; for a row that
\* is gone the read after it fails and ends the request.
SetSubmissionStatus(s, st) ==
    status' = [status EXCEPT ![s] = IF Exists(s) THEN st ELSE @]

ApproveSetStatusNoVersion(p) ==
    LET s == req[p].sub IN
    /\ At(p, "publish") /\ req[p].todo = {}
    /\ SetSubmissionStatus(s, "approved")
    /\ IF Exists(s) THEN Go(p, [req[p] EXCEPT !.pc = "award"]) ELSE Done(p)
    /\ UNCHANGED <<version, row, rowKey, bucket, url, ledger, failures>>

ApproveSetStatus(p) ==
    LET s == req[p].sub IN
    /\ At(p, "publish") /\ req[p].todo = {}
    /\ SetSubmissionStatus(s, "approved")
    /\ version' = [version EXCEPT ![s] = IF Exists(s) THEN req[p].version ELSE @]
    /\ IF Exists(s) THEN Go(p, [req[p] EXCEPT !.pc = "award"]) ELSE Done(p)
    /\ UNCHANGED <<row, rowKey, bucket, url, ledger, failures>>

\* awardXP: nothing for a submission without files or with a ledger entry.
HasXPLedgerEntry(s) == ledger[s] > 0

AwardCheck(p) ==
    LET s == req[p].sub IN
    /\ At(p, "award")
    /\ IF Rows(s) = {} \/ HasXPLedgerEntry(s)
       THEN Done(p) ELSE Go(p, [req[p] EXCEPT !.pc = "credit"])
    /\ UNCHANGED <<db, bucket, url, ledger, failures>>

AwardXP(p) ==
    /\ At(p, "credit")
    /\ ledger' = [ledger EXCEPT ![req[p].sub] = @ + 1]
    /\ Done(p)
    /\ UNCHANGED <<db, bucket, url, failures>>

-----------------------------------------------------------------------------
(***************************************************************************)
(* Reject: move every staged file under rejected/, then set the status.    *)
(***************************************************************************)

Reject(p, s) ==
    /\ Enter(p)
    /\ status[s] = "pending"
    /\ \A a \in Rows(s) : rowKey[a] \in StagedKeys => rowKey[a].rejected < MaxRejections
    /\ Begin(p, s, "list_reject")
    /\ UNCHANGED <<db, bucket, url, ledger, failures>>

\* Rows of canonical objects are passed over.
RejectList(p) ==
    /\ At(p, "list_reject")
    /\ Go(p, [req[p] EXCEPT !.pc = "preserve",
                 !.todo = {f \in ListFiles(req[p].sub) : isReviewObjectKey(f.key)}])
    /\ UNCHANGED <<db, bucket, url, ledger, failures>>

\* preserveRejectedFile: copy, then delete; a missing source is an error that
\* ends the request.
PreserveRejectedFile(p) ==
    \E f \in req[p].todo :
       /\ At(p, "preserve")
       /\ f.key.rejected < MaxRejections
       /\ IF bucket[f.key] = None
          THEN Done(p) /\ UNCHANGED bucket
          ELSE /\ bucket' = [bucket EXCEPT ![rejectedObjectKey(f.key)] = bucket[f.key],
                                           ![f.key] = None]
               /\ Go(p, [req[p] EXCEPT !.pc = "relabel_rejected", !.file = f, !.todo = @ \ {f}])
       /\ UNCHANGED <<db, url, ledger, failures>>

RejectRelabelForgotten(p) ==
    /\ At(p, "relabel_rejected")
    /\ Go(p, [req[p] EXCEPT !.pc = "preserve", !.file = None])
    /\ UNCHANGED <<db, bucket, url, ledger, failures>>

RejectRelabel(p) ==
    LET f == req[p].file IN
    /\ At(p, "relabel_rejected")
    /\ rowKey' = [rowKey EXCEPT ![f.art] =
                     IF row[f.art] = "live" THEN rejectedObjectKey(f.key) ELSE @]
    /\ Go(p, [req[p] EXCEPT !.pc = "preserve", !.file = None])
    /\ UNCHANGED <<status, version, row, bucket, url, ledger, failures>>

RejectSetStatus(p) ==
    /\ At(p, "preserve") /\ req[p].todo = {}
    /\ SetSubmissionStatus(req[p].sub, "rejected")
    /\ Done(p)
    /\ UNCHANGED <<version, row, rowKey, bucket, url, ledger, failures>>

-----------------------------------------------------------------------------
(***************************************************************************)
(* Trash: sweep the pack's unreferenced objects, drop the rows, set the    *)
(* status.  Only the last step asks for a draft or a rejected submission.  *)
(***************************************************************************)

Trash(p, s) ==
    /\ Enter(p)
    /\ Exists(s) /\ status[s] # "approved"
    /\ Begin(p, s, "keep")
    /\ UNCHANGED <<db, bucket, url, ledger, failures>>

LiveStatuses == {"created", "pending", "approved"}

ListPendingPackObjectKeys(s) ==
    {rowKey[a] : a \in {b \in Art : /\ row[b] = "live" /\ SubOf[b] # s
                                    /\ SamePack(SubOf[b], s)
                                    /\ status[SubOf[b]] \in {"created", "pending"}}}

ListLivePackObjectKeys(s) ==
    {rowKey[a] : a \in {b \in Art : /\ row[b] = "live" /\ SubOf[b] # s
                                    /\ SamePack(SubOf[b], s)
                                    /\ status[SubOf[b]] \in LiveStatuses}}

TrashKeep(p) ==
    /\ At(p, "keep")
    /\ Go(p, [req[p] EXCEPT !.pc = "sweep", !.keep = ListLivePackObjectKeys(req[p].sub)])
    /\ UNCHANGED <<db, bucket, url, ledger, failures>>

TrashSweep(p) ==
    /\ At(p, "sweep")
    /\ bucket' = Without(PackPrefix(PackOf[req[p].sub]) \ req[p].keep)
    /\ Go(p, [req[p] EXCEPT !.pc = "droprows", !.keep = {}])
    /\ UNCHANGED <<db, url, ledger, failures>>

TrashDropRows(p) ==
    /\ At(p, "droprows")
    /\ row' = [a \in Art |-> IF a \in Rows(req[p].sub) THEN "dropped" ELSE row[a]]
    /\ Go(p, [req[p] EXCEPT !.pc = "trash_status"])
    /\ UNCHANGED <<status, version, rowKey, bucket, url, ledger, failures>>

TrashUnconditional(p) ==
    /\ At(p, "trash_status")
    /\ SetSubmissionStatus(req[p].sub, "trashed")
    /\ Done(p)
    /\ UNCHANGED <<version, row, rowKey, bucket, url, ledger, failures>>

TrashSubmission(p) ==
    LET s == req[p].sub IN
    /\ At(p, "trash_status")
    /\ status' = [status EXCEPT ![s] = IF @ \in Editable THEN "trashed" ELSE @]
    /\ Done(p)
    /\ UNCHANGED <<version, row, rowKey, bucket, url, ledger, failures>>

-----------------------------------------------------------------------------
(***************************************************************************)
(* DeleteSubmission (full admins): every object of its rows, then the row. *)
(***************************************************************************)

DeleteSubmission(p, s) ==
    /\ Enter(p)
    /\ Exists(s)
    /\ Begin(p, s, "delete_list")
    /\ UNCHANGED <<db, bucket, url, ledger, failures>>

DeleteList(p) ==
    /\ At(p, "delete_list")
    /\ Go(p, [req[p] EXCEPT !.pc = "delete_objects", !.todo = ListFiles(req[p].sub)])
    /\ UNCHANGED <<db, bucket, url, ledger, failures>>

DeleteObjects(p) ==
    /\ At(p, "delete_objects")
    /\ bucket' = Without({f.key : f \in req[p].todo})
    /\ Go(p, [req[p] EXCEPT !.pc = "delete_row", !.todo = {}])
    /\ UNCHANGED <<db, url, ledger, failures>>

DeleteRow(p) ==
    LET s == req[p].sub IN
    /\ At(p, "delete_row")
    /\ status' = [status EXCEPT ![s] = "deleted"]
    /\ row' = [a \in Art |-> IF a \in Rows(s) THEN "dropped" ELSE row[a]]
    /\ Done(p)
    /\ UNCHANGED <<version, rowKey, bucket, url, ledger, failures>>

-----------------------------------------------------------------------------
\* A request is cut short between two of its steps.
Abort(p) ==
    /\ req[p].pc # "idle"
    /\ failures < MaxFailures
    /\ failures' = failures + 1
    /\ Done(p)
    /\ UNCHANGED <<db, bucket, url, ledger>>

Browser == \E a \in Art : PresignedUpload(a) \/ BrowserUpload(a)

Start(p) ==
    \/ \E a \in Art : GetUploadURL(p, a) \/ RemoveSubmissionFile(p, a)
    \/ \E s \in Subs :
          \/ CreateSubmission(p, s) \/ AddSubmissionFiles(p, s)
          \/ Approve(p, s) \/ Reject(p, s) \/ Trash(p, s) \/ DeleteSubmission(p, s)

Step(p) ==
    \/ UploadURLRegister(p) \/ InsertSubmission(p) \/ RegisterFile(p) \/ RegisterDone(p)
    \/ RemoveObject(p) \/ RemoveRow(p)
    \/ ApproveList(p) \/ PublishNothing(p) \/ PublishMissing(p) \/ PublishFile(p)
    \/ PublishUnstage(p) \/ PublishRelabel(p) \/ ApproveSetStatus(p)
    \/ AwardCheck(p) \/ AwardXP(p)
    \/ RejectList(p) \/ PreserveRejectedFile(p) \/ RejectRelabel(p) \/ RejectSetStatus(p)
    \/ TrashKeep(p) \/ TrashSweep(p) \/ TrashDropRows(p) \/ TrashSubmission(p)
    \/ DeleteList(p) \/ DeleteObjects(p) \/ DeleteRow(p)

Next ==
    \/ Browser
    \/ \E s \in Subs : SubmitForReview(s)
    \/ \E p \in Procs : Start(p) \/ Step(p) \/ Abort(p)

Spec == Init /\ [][Next]_vars

\* A handler that started runs on: goroutines are scheduled, and each SQL
\* statement and R2 call returns.  Nobody has to start a request.
FairSpec == Spec /\ \A p \in Procs : WF_vars(Step(p))

-----------------------------------------------------------------------------
(***************************************************************************)
(* Safety of the handlers run one after the other (Serial = TRUE).         *)
(***************************************************************************)

\* Seen through its status alone, a submission follows one lifecycle: a status
\* is set only in the state its handler found when it started, and a pack id is
\* taken once.  Whether a creation leaves a draft is open (SubmissionLifecycle).
Lifecycle == INSTANCE SubmissionLifecycle
ImplementsLifecycle == Lifecycle!Spec

\* A pack id belongs to one brand-new submission at a time (PackIDInUse): two
\* of them would publish over each other's canonical objects.
PackOwnedOnce ==
    \A s, t \in Subs \ Contribution :
       s # t /\ SamePack(s, t) =>
          status[s] \in {"absent", "trashed", "deleted"} \/
          status[t] \in {"absent", "trashed", "deleted"}

\* What an approved submission lists is canonical: no staging key is public.
ApprovedListsPublicKeys ==
    \A a \in Art : row[a] = "live" /\ status[SubOf[a]] = "approved" => rowKey[a] = ObjectKey(a)

\* Approved submissions are read-only: while one stays approved, no request
\* adds, drops or moves one of its files.
ApprovedReadOnly ==
    [][\A a \in Art : status[SubOf[a]] = "approved" /\ status'[SubOf[a]] = "approved" =>
          row'[a] = row[a] /\ rowKey'[a] = rowKey[a]]_vars

\* Cancelling a submission never takes an object that another created, pending
\* or approved submission of the pack refers to.
SweepSparesLive ==
    [][\A p \in Procs, a \in Art :
          /\ At(p, "sweep") /\ req'[p].pc = "droprows"
          /\ row[a] = "live" /\ SubOf[a] # req[p].sub
          /\ status[SubOf[a]] \in {"created", "pending", "approved"}
          => bucket'[rowKey[a]] = bucket[rowKey[a]]]_vars

\* A submission becomes rejected only when no file it still lists as staged is
\* where the review had it: its row names a rejected/ key, and R2 holds none of
\* its staged objects under another one, however often it was cut short before.
RejectedLeavesStaging ==
    [][\A s \in Subs : status[s] # "rejected" /\ status'[s] = "rejected" =>
          \A a \in Rows(s) : rowKey[a] \in StagedKeys =>
             /\ rowKey[a].rejected > 0
             /\ \A k \in StagedKeys : k.art = a /\ bucket[k] # None => k = rowKey[a]]_vars

\* As long as no request is cut short, a slot an approved submission lists
\* keeps an object, in one of its two formats, until an admin deletes one.
Listed(a) == row[a] = "live" /\ status[SubOf[a]] = "approved"
Reachable(a) == \E k \in {ObjectKey(a), SiblingKey(ObjectKey(a))} : bucket[k] # None
OnlyDeleteUnpublishes ==
    [][failures' = 0 => \A a \in Art : Listed(a) /\ Reachable(a) =>
          Reachable(a)' \/ \E p \in Procs : At(p, "delete_objects")]_vars

\* An approval that started and is not cut short ends in an approved
\* submission, even when some of its uploads never arrived.
ApprovalDecides ==
    \A s \in Subs :
       (\E p \in Procs : At(p, "list_approve") /\ req[p].sub = s) ~>
          (status[s] = "approved" \/ failures > 0)

-----------------------------------------------------------------------------
(***************************************************************************)
(* Safety of overlapping requests.                                         *)
(***************************************************************************)

\* XP goes to submissions a reviewer approved, which left them a version.
CreditedWasApproved == \A s \in Subs : ledger[s] > 0 => version[s] > 0

\* A published submission never goes straight back to the queue or the trash;
\* at most another reviewer's decision overwrites it, or an admin deletes it.
ApprovedNeverRequeued ==
    [][\A s \in Subs : status[s] = "approved" =>
          status'[s] \in {"approved", "rejected", "deleted"}]_status

\* A canonical object holds art made for that pack, slot and format, and a
\* staging object the bytes of its own upload.
BytesBelong ==
    \A k \in Keys : bucket[k] # None =>
       IF k \in PublicKeys THEN ObjectKey(bucket[k]) = k ELSE bucket[k] = k.art

-----------------------------------------------------------------------------
(***************************************************************************)
(* What the documentation says and the code does not do.                   *)
(***************************************************************************)

\* "It cannot be trashed while pending review": a request to trash a pending
\* submission takes neither its rows nor its objects.
TrashLeavesPending ==
    [][\A p \in Procs : LET s == req[p].sub IN
          req[p].pc \in {"sweep", "droprows"} /\ req'[p] # req[p] /\ status[s] = "pending" =>
             \A a \in Rows(s) : row'[a] = "live" /\ bucket'[rowKey[a]] = bucket[rowKey[a]]]_vars
=============================================================================
