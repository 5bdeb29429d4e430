--------------------------- MODULE MetadataReview ---------------------------
(***************************************************************************)
(* Game metadata: the life of a contribution, from the upload to the media *)
(* rows of the catalogue.  PostgreSQL holds the submission, its file rows  *)
(* and the media rows; R2 holds the objects; every statement commits by    *)
(* itself, also the ones one approval is made of.                          *)
(*                                                                         *)
(* A request is a process that takes one step per statement or R2 call     *)
(* that matters, with what it read kept in req[p].  It may be cut short    *)
(* between two steps (a statement or an R2 call fails, the server stops).  *)
(* With Serial = TRUE requests do not overlap.                             *)
(*                                                                         *)
(* Abstractions.  A submission id is used once and so is an element of     *)
(* Files, one entry of a submission's list.  Bytes are named by the upload *)
(* they come from: normalising or re-encoding them does not change that.   *)
(* A media row inserted twice with one key counts once.  Contributions to  *)
(* a game system (no regions, no moves) and the text a payload carries are *)
(* left out: the text is GameText, seen here through the regions it adds.  *)
(* Video slots are VideoSlots.  Reviewers are not the submitter.           *)
(***************************************************************************)
EXTENDS Naturals, FiniteSets

CONSTANTS
    Subs,          \* submission ids
    Files,         \* entries of submissions
    Games,         \* game ids
    Regions,       \* catalogue regions
    Kinds,         \* media kinds
    Procs,         \* request handlers running at the same time
    Existing,      \* games of the catalogue at the start
    Target,        \* submission -> the game it is about, or creates
    NewGame,       \* submissions of kind "new_game"
    Duplicate,     \* submissions whose payload says delete_game
    UserOf,        \* submission -> its user
    Fields,        \* submission -> the payload fields it changes
    SubOf,         \* entry -> submission
    Op,            \* entry -> "upload", "move" or "delete"
    KindOf,        \* entry -> media kind
    RegionsOf,     \* entry -> the regions it may be submitted for
    Serial,        \* TRUE: a request starts only when no other one runs
    MaxGen,        \* bound: canonical keys an upload is given
    MaxFailures,   \* bound: requests cut short, and copies to history/ that fail
    None           \* no key, no game, no region

Regional == Kinds \cap {"cover", "logo"}
AnyRegion == Regions \cup {None}
Uploads == {f \in Files : Op[f] = "upload"}

(***************************************************************************)
(* R2 keys.  Generation 0 is the staging key of an upload; every approval  *)
(* that publishes it draws a fresh immutable key.                          *)
(***************************************************************************)
Keys == [file : Uploads, gen : 0..MaxGen, area : {"", "history", "rejected"}]

stagingMediaKey(f) == [file |-> f, gen |-> 0, area |-> ""]
immutableMediaKey(f, n) == [file |-> f, gen |-> n, area |-> ""]
historyKey(k) == [k EXCEPT !.area = "history"]
rejectedObjectKey(k) == [k EXCEPT !.area = "rejected"]
Canonical(k) == k.gen > 0 /\ k.area = ""

Entry == [file : Files, key : Keys \cup {None}, region : AnyRegion]
Media == [game : Games, kind : Kinds, region : AnyRegion, key : Keys]

PCs == {"idle", "insert", "register", "presign",
        "validate", "create_game", "attach_game", "resolve", "capture_list",
        "capture", "sweep", "publish", "relabel", "apply", "move", "replace",
        "insert_media", "text", "approve", "award", "credit",
        "dup_objects", "dup_detach", "dup_delete",
        "preserve", "relabel_rejected", "cancel_objects", "cancel_row"}

Request == [pc : PCs, sub : Subs \cup {None}, list : SUBSET Entry,
            todo : SUBSET Entry, file : Entry \cup {None}, old : SUBSET Media]

Idle == [pc |-> "idle", sub |-> None, list |-> {}, todo |-> {}, file |-> None,
         old |-> {}]

Statuses == {"absent", "pending", "approved", "rejected", "deleted"}

ASSUME MetadataReviewAssumption ==
    /\ Existing \subseteq Games
    /\ Target \in [Subs -> Games]
    /\ NewGame \subseteq Subs /\ Duplicate \subseteq Subs \ NewGame
    /\ SubOf \in [Files -> Subs]
    /\ Op \in [Files -> {"upload", "move", "delete"}]
    /\ KindOf \in [Files -> Kinds]
    /\ RegionsOf \in [Files -> SUBSET AnyRegion]
    /\ Serial \in BOOLEAN
    /\ MaxGen \in Nat /\ MaxFailures \in Nat
    /\ None \notin Subs /\ None \notin Games /\ None \notin Regions
    /\ None \notin Keys /\ None \notin Entry

VARIABLES
    status,     \* metadata_submissions.status
    gameOf,     \* metadata_submissions.game_id
    hasSystem,  \* metadata_submissions.system_id is set
    game,       \* games: is the row absent, live or deleted
    primary,    \* games: the primary region its text rows give
    row,        \* metadata_submission_files: unused, live or gone
    rowKey,     \* metadata_submission_files.object_key (None: empty)
    rowRegion,  \* metadata_submission_files.region (None: empty)
    media,      \* media rows of games
    bucket,     \* R2: the keys that hold an object
    url,        \* presigned PUT: none, issued or used
    ledger,     \* xp_ledger entries of a submission
    req,        \* the running requests
    failures,   \* requests cut short and copies failed so far
    uncopied    \* history: uploads whose copy to history/ failed

subsTable == <<status, gameOf, hasSystem>>
games == <<game, primary>>
files == <<row, rowKey, rowRegion>>
db == <<subsTable, games, files, media>>
faults == <<failures, uncopied>>
vars == <<db, bucket, url, ledger, req, faults>>

TypeOK ==
    /\ status \in [Subs -> Statuses]
    /\ gameOf \in [Subs -> Games \cup {None}]
    /\ hasSystem \in [Subs -> BOOLEAN]
    /\ game \in [Games -> {"absent", "live", "deleted"}]
    /\ primary \in [Games -> AnyRegion]
    /\ row \in [Files -> {"unused", "live", "gone"}]
    /\ rowKey \in [Files -> Keys \cup {None}]
    /\ rowRegion \in [Files -> AnyRegion]
    /\ media \subseteq Media
    /\ bucket \subseteq Keys
    /\ url \in [Uploads -> {"none", "issued", "used"}]
    /\ ledger \in [Subs -> Nat]
    /\ req \in [Procs -> Request]
    /\ failures \in 0..MaxFailures
    /\ uncopied \subseteq Uploads

Init ==
    /\ status = [s \in Subs |-> "absent"]
    /\ gameOf = [s \in Subs |-> None]
    /\ hasSystem = [s \in Subs |-> FALSE]
    /\ game = [g \in Games |-> IF g \in Existing THEN "live" ELSE "absent"]
    /\ primary \in [Games -> AnyRegion]
    /\ \A g \in Games \ Existing : primary[g] = None
    /\ row = [f \in Files |-> "unused"]
    /\ rowKey = [f \in Files |-> None]
    /\ rowRegion = [f \in Files |-> None]
    /\ media = {}
    /\ bucket = {}
    /\ url = [f \in Uploads |-> "none"]
    /\ ledger = [s \in Subs |-> 0]
    /\ req = [p \in Procs |-> Idle]
    /\ failures = 0
    /\ uncopied = {}

-----------------------------------------------------------------------------
Exists(s) == status[s] \notin {"absent", "deleted"}
Rows(s) == {f \in Files : SubOf[f] = s /\ row[f] = "live"}
UploadRows(s) == Rows(s) \cap Uploads
AsEntry(f) == [file |-> f, key |-> rowKey[f], region |-> rowRegion[f]]
ListFiles(s) == {AsEntry(f) : f \in Rows(s)}
UploadsOf(es) == {e \in es : e.file \in Uploads}
ListMediaByGame(g) == {m \in media : m.game = g}

\* The rows of a (kind, region) that an entry names.
Names(e, m) == m.kind = KindOf[e.file] /\ m.region = e.region
Replaced(s, es) == {m \in ListMediaByGame(gameOf[s]) : \E e \in es : Names(e, m)}
ObjectKeys(ms) == {m.key : m \in ms}

Quiet == \A p \in Procs : req[p].pc = "idle"
Enter(p) == req[p].pc = "idle" /\ (Serial => Quiet)
At(p, pc) == req[p].pc = pc
Go(p, r) == req' = [req EXCEPT ![p] = r]
Done(p) == req' = [req EXCEPT ![p] = Idle]
Next1(p, pc) == Go(p, [req[p] EXCEPT !.pc = pc])

-----------------------------------------------------------------------------
(***************************************************************************)
(* Uploads.                                                                *)
(***************************************************************************)

\* MetadataUploadURLPre hands out a staging key before any submission exists;
\* nothing is stored until the browser's PUT arrives.
MetadataUploadURLPre(f) ==
    /\ url[f] = "none"
    /\ url' = [url EXCEPT ![f] = "used"]
    /\ bucket' = bucket \cup {stagingMediaKey(f)}
    /\ UNCHANGED <<db, ledger, req, faults>>

\* The PUT of an upload MetadataUploadURL registered; it may never come.
BrowserUpload(f) ==
    /\ url[f] = "issued"
    /\ url' = [url EXCEPT ![f] = "used"]
    /\ bucket' = bucket \cup {stagingMediaKey(f)}
    /\ UNCHANGED <<db, ledger, req, faults>>

\* AddMetadataSubmissionFile replaces the submission's rows with that key; two
\* delete entries both carry the empty one.
AddFile(f, key, region) ==
    /\ row' = [g \in Files |->
                  IF g = f THEN "live"
                  ELSE IF g \in Rows(SubOf[f]) /\ rowKey[g] = key THEN "gone" ELSE row[g]]
    /\ rowKey' = [rowKey EXCEPT ![f] = key]
    /\ rowRegion' = [rowRegion EXCEPT ![f] = region]

\* MetadataUploadURL on a pending submission: one check, then the row.
MetadataUploadURL(p, f) ==
    /\ Enter(p)
    /\ status[SubOf[f]] = "pending"
    /\ row[f] = "unused" /\ url[f] = "none"
    /\ \E r \in RegionsOf[f] :
          Go(p, [Idle EXCEPT !.pc = "presign", !.sub = SubOf[f],
                    !.file = [file |-> f, key |-> stagingMediaKey(f), region |-> r]])
    /\ UNCHANGED <<db, bucket, url, ledger, faults>>

UploadURLRegister(p) ==
    LET e == req[p].file IN
    /\ At(p, "presign")
    /\ IF Exists(req[p].sub) /\ url[e.file] = "none" /\ row[e.file] = "unused"
       THEN /\ AddFile(e.file, e.key, e.region)
            /\ url' = [url EXCEPT ![e.file] = "issued"]
       ELSE UNCHANGED <<files, url>>
    /\ Done(p)
    /\ UNCHANGED <<subsTable, games, media, bucket, ledger, faults>>

-----------------------------------------------------------------------------
(***************************************************************************)
(* CreateMetadataSubmission: validate, insert the row as pending, then     *)
(* validate and register the entries one by one.                           *)
(***************************************************************************)

PendingOf(s) ==
    {t \in Subs : UserOf[t] = UserOf[s] /\ status[t] = "pending"}

\* payloadFieldKeys and file kinds of the user's pending edits of the game.
pendingSubmissionKeys(s) ==
    LET ts == {t \in PendingOf(s) \ NewGame : gameOf[t] = Target[s]} IN
    UNION {Fields[t] \cup {KindOf[f] : f \in Rows(t)} : t \in ts}

NotPendingYetFilesOnly(s, fs) ==
    IF s \in NewGame
    THEN ~\E t \in PendingOf(s) \cap NewGame : hasSystem[t] /\ Target[t] = Target[s]
    ELSE {KindOf[f] : f \in fs} \cap pendingSubmissionKeys(s) = {}

\* An edit is refused while one of its fields or kinds is pending, a new game
\* while one of the same user with its name is.
NotPendingYet(s, fs) ==
    IF s \in NewGame
    THEN ~\E t \in PendingOf(s) \cap NewGame : hasSystem[t] /\ Target[t] = Target[s]
    ELSE (Fields[s] \cup {KindOf[f] : f \in fs}) \cap pendingSubmissionKeys(s) = {}

CreateMetadataSubmission(p, s) ==
    /\ Enter(p)
    /\ status[s] = "absent"
    /\ \A q \in Procs : req[q].sub # s
    /\ game[Target[s]] = IF s \in NewGame THEN "absent" ELSE "live"
    /\ \E fs \in SUBSET {f \in Files : SubOf[f] = s} :
          /\ NotPendingYet(s, fs)
          /\ \E region \in [fs -> AnyRegion] :
                /\ \A f \in fs : region[f] \in RegionsOf[f]
                /\ Go(p, [Idle EXCEPT !.pc = "insert", !.sub = s,
                     !.todo = {[file |-> f, region |-> region[f],
                                key |-> IF f \in Uploads THEN stagingMediaKey(f) ELSE None]
                               : f \in fs}])
    /\ UNCHANGED <<db, bucket, url, ledger, faults>>

InsertSubmissionDraft(p) ==
    /\ At(p, "insert")
    /\ status' = [status EXCEPT ![req[p].sub] = "created"]
    /\ Next1(p, "register")
    /\ UNCHANGED <<gameOf, hasSystem, games, files, media, bucket, url, ledger, faults>>

\* The submission is pending from its insertion on.
InsertSubmission(p) ==
    LET s == req[p].sub IN
    /\ At(p, "insert")
    /\ status' = [status EXCEPT ![s] = "pending"]
    /\ gameOf' = [gameOf EXCEPT ![s] = IF s \in NewGame THEN None ELSE Target[s]]
    /\ hasSystem' = [hasSystem EXCEPT ![s] = s \in NewGame]
    /\ Next1(p, "register")
    /\ UNCHANGED <<games, files, media, bucket, url, ledger, faults>>

ensureUploaded(k) == k \in bucket

\* A move names the key of a media row of the game and kind.
MediaExists(s, f) == {m \in ListMediaByGame(gameOf[s]) : m.kind = KindOf[f]}

\* One turn of the loop over the entries.
RegisterFile(p) ==
    \E e \in req[p].todo :
       LET s == req[p].sub  f == e.file IN
       /\ At(p, "register")
       /\ Exists(s)
       /\ \/ f \in Uploads /\ ensureUploaded(e.key) /\ row[f] = "unused"
             /\ AddFile(f, e.key, e.region)
          \/ Op[f] = "move" /\ \E m \in MediaExists(s, f) : AddFile(f, m.key, e.region)
          \/ Op[f] = "delete" /\ gameOf[s] # None /\ AddFile(f, None, e.region)
       /\ Go(p, [req[p] EXCEPT !.todo = @ \ {e}])
       /\ UNCHANGED <<subsTable, games, media, bucket, url, ledger, faults>>

\* An entry that is not valid (a kind, an extension, a missing object) ends the
\* request; so does the end of the list.
RegisterEnd(p) ==
    /\ At(p, "register")
    /\ Done(p)
    /\ UNCHANGED <<db, bucket, url, ledger, faults>>

-----------------------------------------------------------------------------
(***************************************************************************)
(* CancelMetadataSubmission: the objects the submission owns, then the row *)
(* and, by cascade, its file rows.                                         *)
(***************************************************************************)

ownedAnyUpload(e) == e.file \in Uploads

\* Staging and submission keys only: what an approval moved is not owned.
ownedSubmissionUpload(e) == e.file \in Uploads /\ e.key.gen = 0 /\ e.key.area = ""

CancelMetadataSubmission(p, s) ==
    /\ Enter(p)
    /\ Exists(s) /\ status[s] # "approved"
    /\ Go(p, [Idle EXCEPT !.pc = "cancel_objects", !.sub = s,
                          !.todo = {e \in ListFiles(s) : ownedSubmissionUpload(e)}])
    /\ UNCHANGED <<db, bucket, url, ledger, faults>>

CancelObjects(p) ==
    /\ At(p, "cancel_objects")
    /\ bucket' = bucket \ {e.key : e \in req[p].todo}
    /\ Go(p, [req[p] EXCEPT !.pc = "cancel_row", !.todo = {}])
    /\ UNCHANGED <<db, url, ledger, faults>>

CancelRow(p) ==
    LET s == req[p].sub IN
    /\ At(p, "cancel_row")
    /\ status' = [status EXCEPT ![s] = "deleted"]
    /\ row' = [f \in Files |-> IF f \in Rows(s) THEN "gone" ELSE row[f]]
    /\ Done(p)
    /\ UNCHANGED <<gameOf, hasSystem, games, rowKey, rowRegion, media, bucket, url,
                   ledger, faults>>

-----------------------------------------------------------------------------
(***************************************************************************)
(* ApproveMetadataSubmission, the start: check, create a new game, give    *)
(* region-less covers and logos the primary region.                        *)
(***************************************************************************)

ApproveMetadataSubmission(p, s) ==
    /\ Enter(p)
    /\ status[s] = "pending"
    /\ Go(p, [Idle EXCEPT !.pc = IF s \in Duplicate THEN "dup_objects" ELSE "validate",
                          !.sub = s, !.list = ListFiles(s)])
    /\ UNCHANGED <<db, bucket, url, ledger, faults>>

\* validateApprovedMedia downloads and probes every upload;
\* ensureGameNameAvailable may find a proposed name taken.
ValidateApprovedMedia(p) ==
    LET s == req[p].sub
        fail == Done(p)
        go == Next1(p, IF s \in NewGame THEN "create_game" ELSE "resolve")
    IN
    /\ At(p, "validate")
    /\ \/ (\A e \in UploadsOf(req[p].list) : e.key \in bucket) /\ go
       \/ (\E e \in UploadsOf(req[p].list) : e.key \notin bucket) /\ fail
       \/ gameOf[s] # None /\ "name" \in Fields[s] /\ fail
    /\ UNCHANGED <<db, bucket, url, ledger, faults>>

\* The unique (system_id, name) makes a second game of the name an error.
CreateGameFromPayload(p) ==
    LET g == Target[req[p].sub] IN
    /\ At(p, "create_game")
    /\ IF hasSystem[req[p].sub] /\ game[g] = "absent"
       THEN /\ game' = [game EXCEPT ![g] = "live"]
            /\ \E r \in AnyRegion : primary' = [primary EXCEPT ![g] = r]
            /\ Next1(p, "attach_game")
       ELSE Done(p) /\ UNCHANGED games
    /\ UNCHANGED <<subsTable, files, media, bucket, url, ledger, faults>>

SetMetadataSubmissionGame(p) ==
    LET s == req[p].sub IN
    /\ At(p, "attach_game")
    /\ gameOf' = [gameOf EXCEPT ![s] = Target[s]]
    /\ hasSystem' = [hasSystem EXCEPT ![s] = FALSE]
    /\ Next1(p, "resolve")
    /\ UNCHANGED <<status, games, files, media, bucket, url, ledger, faults>>

\* resolveSubmissionMediaRegions, then the files are listed again.
RegionAfter(s, f) ==
    IF f \in UploadRows(s) /\ KindOf[f] \in Regional /\ rowRegion[f] = None /\ gameOf[s] # None
    THEN primary[gameOf[s]] ELSE rowRegion[f]

ResolveMediaRegions(p) ==
    LET s == req[p].sub IN
    /\ At(p, "resolve")
    /\ rowRegion' = [f \in Files |-> RegionAfter(s, f)]
    /\ Go(p, [req[p] EXCEPT !.pc = IF s \in NewGame THEN "sweep" ELSE "capture_list",
                 !.list = {[e EXCEPT !.region = RegionAfter(s, e.file)] : e \in ListFiles(s)}])
    /\ UNCHANGED <<subsTable, games, row, rowKey, media, bucket, url, ledger, faults>>

-----------------------------------------------------------------------------
(***************************************************************************)
(* captureOldState moves the objects that are about to be replaced to      *)
(* history/, moveSubmissionMediaToCanonical publishes the uploads.         *)
(***************************************************************************)

CaptureNothing(p) ==
    /\ At(p, "capture_list")
    /\ Next1(p, "sweep")
    /\ UNCHANGED <<db, bucket, url, ledger, faults>>

CaptureList(p) ==
    /\ At(p, "capture_list")
    /\ Go(p, [req[p] EXCEPT !.pc = "capture", !.old = Replaced(req[p].sub, req[p].list)])
    /\ UNCHANGED <<db, bucket, url, ledger, faults>>

\* Copy, then delete; a row whose object is gone is passed over.
CaptureOldMedia(p) ==
    \E m \in req[p].old :
       /\ At(p, "capture")
       /\ bucket' = IF m.key \in bucket
                    THEN (bucket \ {m.key}) \cup {historyKey(m.key)} ELSE bucket
       /\ Go(p, [req[p] EXCEPT !.old = @ \ {m}])
       /\ UNCHANGED <<db, url, ledger, faults>>

\* R2 errs: a warning, and the approval goes on.
CaptureCopyFails(p) ==
    \E m \in req[p].old :
       /\ At(p, "capture")
       /\ m.key \in bucket
       /\ failures < MaxFailures
       /\ failures' = failures + 1
       /\ uncopied' = uncopied \cup {m.key.file}
       /\ Go(p, [req[p] EXCEPT !.old = @ \ {m}])
       /\ UNCHANGED <<db, bucket, url, ledger>>

CaptureDone(p) ==
    /\ At(p, "capture") /\ req[p].old = {}
    /\ Next1(p, "sweep")
    /\ UNCHANGED <<db, bucket, url, ledger, faults>>

\* deleteReplacedMediaObjects lists files and media again and deletes what the
\* rows of the replaced slots name; without files there is nothing to do.
DeleteReplacedMedia(p) ==
    LET s == req[p].sub  es == ListFiles(s) IN
    /\ At(p, "sweep")
    /\ IF es # {} /\ gameOf[s] # None /\ game[gameOf[s]] # "live"
       THEN Done(p) /\ UNCHANGED bucket
       ELSE /\ bucket' = bucket \ ObjectKeys(Replaced(s, es))
            /\ Go(p, [req[p] EXCEPT !.pc = "publish", !.todo = UploadsOf(es)])
    /\ UNCHANGED <<db, url, ledger, faults>>

\* A key nobody uses yet: the next generation of the upload.
UsedGens(f) ==
    {k.gen : k \in {j \in bucket \cup ObjectKeys(media) \cup {rowKey[f]} : j.file = f}}
Fresh(f) == {n \in 1..MaxGen : n - 1 \in UsedGens(f) /\ \A m \in UsedGens(f) : m < n}

\* The loop of the pack review, which passes over what never arrived.
PublishUploadSkipsMissing(p) ==
    \E e \in req[p].todo :
       /\ At(p, "publish")
       /\ IF e.key \notin bucket
          THEN Go(p, [req[p] EXCEPT !.todo = @ \ {e}]) /\ UNCHANGED bucket
          ELSE \E n \in Fresh(e.file) :
                  LET dest == immutableMediaKey(e.file, n) IN
                  /\ bucket' = (bucket \ {e.key}) \cup {dest}
                  /\ Go(p, [req[p] EXCEPT !.pc = "relabel", !.file = [e EXCEPT !.key = dest],
                                          !.todo = @ \ {e}])
       /\ UNCHANGED <<db, url, ledger, faults>>

\* Download, normalise, upload under a fresh key, delete the source (an error of
\* the delete is only logged).  A source that is gone ends the request.
PublishUpload(p) ==
    \E e \in req[p].todo :
       /\ At(p, "publish")
       /\ IF e.key \notin bucket
          THEN Done(p) /\ UNCHANGED bucket
          ELSE \E n \in Fresh(e.file) :
                  LET dest == immutableMediaKey(e.file, n) IN
                  /\ bucket' \in {bucket \cup {dest}, (bucket \ {e.key}) \cup {dest}}
                  /\ Go(p, [req[p] EXCEPT !.pc = "relabel", !.file = [e EXCEPT !.key = dest],
                                          !.todo = @ \ {e}])
       /\ UNCHANGED <<db, url, ledger, faults>>

PublishRelabelForgotten(p) ==
    /\ At(p, "relabel")
    /\ Go(p, [req[p] EXCEPT !.pc = "publish", !.file = None])
    /\ UNCHANGED <<db, bucket, url, ledger, faults>>

PublishRelabel(p) ==
    LET e == req[p].file IN
    /\ At(p, "relabel")
    /\ rowKey' = [rowKey EXCEPT ![e.file] = IF row[e.file] = "live" THEN e.key ELSE @]
    /\ Go(p, [req[p] EXCEPT !.pc = "publish", !.file = None])
    /\ UNCHANGED <<subsTable, games, row, rowRegion, media, bucket, url, ledger, faults>>

-----------------------------------------------------------------------------
(***************************************************************************)
(* ApplyMetadataSubmission on a game: deletions and moves entry by entry,  *)
(* then the uploads replace their slots, then the text.                    *)
(***************************************************************************)

ApplyStart(p) ==
    LET s == req[p].sub IN
    /\ At(p, "publish") /\ req[p].todo = {}
    /\ IF ~Exists(s) THEN Done(p)
       ELSE Go(p, [req[p] EXCEPT !.pc = IF gameOf[s] = None THEN "text" ELSE "apply",
                      !.list = {}, !.todo = ListFiles(s) \ UploadsOf(ListFiles(s))])
    /\ UNCHANGED <<db, bucket, url, ledger, faults>>

ApplyDelete(p) ==
    \E e \in req[p].todo :
       /\ At(p, "apply") /\ Op[e.file] = "delete"
       /\ media' = media \ Replaced(req[p].sub, {e})
       /\ Go(p, [req[p] EXCEPT !.todo = @ \ {e}])
       /\ UNCHANGED <<subsTable, games, files, bucket, url, ledger, faults>>

\* A move clears the target region of other media ...
ApplyClear(p) ==
    \E e \in req[p].todo :
       /\ At(p, "apply") /\ Op[e.file] = "move"
       /\ media' = {m \in media : m \notin Replaced(req[p].sub, {e}) \/ m.key = e.key}
       /\ Go(p, [req[p] EXCEPT !.pc = "move", !.file = e, !.todo = @ \ {e}])
       /\ UNCHANGED <<subsTable, games, files, bucket, url, ledger, faults>>

\* ... and then gives the media that has the key the new region.
ApplyMove(p) ==
    LET e == req[p].file
        moved == {m \in ListMediaByGame(gameOf[req[p].sub]) : m.key = e.key}
    IN
    /\ At(p, "move")
    /\ media' = (media \ moved) \cup {[m EXCEPT !.region = e.region] : m \in moved}
    /\ Go(p, [req[p] EXCEPT !.pc = "apply", !.file = None])
    /\ UNCHANGED <<subsTable, games, files, bucket, url, ledger, faults>>

ApplyReplaceNothing(p) ==
    /\ At(p, "apply") /\ req[p].todo = {}
    /\ Next1(p, "insert_media")
    /\ UNCHANGED <<db, bucket, url, ledger, faults>>

ApplyReplace(p) ==
    LET s == req[p].sub
        es == UploadsOf(ListFiles(s))
    IN
    /\ At(p, "apply") /\ req[p].todo = {}
    /\ media' = {m \in media : \A e \in es :
                    m.game = gameOf[s] /\ Names(e, m) => m.key = e.key}
    /\ Next1(p, "insert_media")
    /\ UNCHANGED <<subsTable, games, files, bucket, url, ledger, faults>>

\* Every upload row the submission has now gets a media row; a game that was
\* deleted meanwhile makes it a foreign key violation.
ApplyInsert(p) ==
    LET s == req[p].sub IN
    /\ At(p, "insert_media")
    /\ IF gameOf[s] # None
       THEN /\ media' = media \cup
                  {[game |-> gameOf[s], kind |-> KindOf[f], region |-> rowRegion[f],
                    key |-> rowKey[f]] : f \in UploadRows(s)}
            /\ Next1(p, "text")
       ELSE Done(p) /\ UNCHANGED media
    /\ UNCHANGED <<subsTable, games, files, bucket, url, ledger, faults>>

\* Names and releases of regions may change which region is the primary one.
ApplyText(p) ==
    LET g == gameOf[req[p].sub] IN
    /\ At(p, "text")
    /\ IF g # None /\ {"name", "release_year"} \cap Fields[req[p].sub] # {}
       THEN \E r \in AnyRegion : primary' = [primary EXCEPT ![g] = r]
       ELSE UNCHANGED primary
    /\ Next1(p, "approve")
    /\ UNCHANGED <<subsTable, game, files, media, bucket, url, ledger, faults>>

-----------------------------------------------------------------------------
(***************************************************************************)
(* The end of an approval: status, then XP.                                *)
(***************************************************************************)

\* One UPDATE without a condition on the status; a row that is gone is an error.
SetMetadataStatusForAdmin(s, st) ==
    status' = [status EXCEPT ![s] = IF Exists(s) THEN st ELSE @]

ApproveSetStatus(p) ==
    LET s == req[p].sub IN
    /\ At(p, "approve")
    /\ SetMetadataStatusForAdmin(s, "approved")
    /\ IF Exists(s) /\ s \notin Duplicate THEN Next1(p, "award") ELSE Done(p)
    /\ UNCHANGED <<gameOf, hasSystem, games, files, media, bucket, url, ledger, faults>>

\* Deletions earn nothing, and a submission earns once.
metadataBasePoints(s) ==
    s \in NewGame \/ Fields[s] # {} \/ \E f \in Rows(s) : Op[f] # "delete"

AwardMetadataPoints(p) ==
    LET s == req[p].sub IN
    /\ At(p, "award")
    /\ IF metadataBasePoints(s) /\ ledger[s] = 0 THEN Next1(p, "credit") ELSE Done(p)
    /\ UNCHANGED <<db, bucket, url, ledger, faults>>

AwardXP(p) ==
    /\ At(p, "credit")
    /\ ledger' = [ledger EXCEPT ![req[p].sub] = @ + 1]
    /\ Done(p)
    /\ UNCHANGED <<db, bucket, url, faults>>

-----------------------------------------------------------------------------
(***************************************************************************)
(* deleteDuplicateGame: the game's objects, then its submissions are       *)
(* detached, then the game goes and its media rows with it.                *)
(***************************************************************************)

DuplicateObjects(p) ==
    LET g == gameOf[req[p].sub] IN
    /\ At(p, "dup_objects")
    /\ bucket' = bucket \ ObjectKeys(ListMediaByGame(g))
    /\ IF g = None THEN Done(p) ELSE Next1(p, "dup_detach")
    /\ UNCHANGED <<db, url, ledger, faults>>

DuplicateDetach(p) ==
    LET g == gameOf[req[p].sub] IN
    /\ At(p, "dup_detach")
    /\ gameOf' = [t \in Subs |-> IF gameOf[t] = g THEN None ELSE gameOf[t]]
    /\ Next1(p, "dup_delete")
    /\ UNCHANGED <<status, hasSystem, games, files, media, bucket, url, ledger, faults>>

DuplicateDelete(p) ==
    LET g == Target[req[p].sub] IN
    /\ At(p, "dup_delete")
    /\ game' = [game EXCEPT ![g] = "deleted"]
    /\ gameOf' = [t \in Subs |-> IF gameOf[t] = g THEN None ELSE gameOf[t]]
    /\ media' = media \ ListMediaByGame(g)
    /\ Next1(p, "approve")
    /\ UNCHANGED <<status, hasSystem, primary, files, bucket, url, ledger, faults>>

-----------------------------------------------------------------------------
(***************************************************************************)
(* RejectMetadataSubmission: every owned upload moves under rejected/,     *)
(* then the status changes.                                                *)
(***************************************************************************)

RejectMetadataSubmission(p, s) ==
    /\ Enter(p)
    /\ status[s] = "pending"
    /\ Go(p, [Idle EXCEPT !.pc = "preserve", !.sub = s,
                          !.todo = {e \in ListFiles(s) : ownedSubmissionUpload(e)}])
    /\ UNCHANGED <<db, bucket, url, ledger, faults>>

PreserveRejectedFile(p) ==
    \E e \in req[p].todo :
       LET moved == rejectedObjectKey(e.key) IN
       /\ At(p, "preserve")
       /\ IF e.key \notin bucket
          THEN Done(p) /\ UNCHANGED bucket
          ELSE /\ bucket' = (bucket \ {e.key}) \cup {moved}
               /\ Go(p, [req[p] EXCEPT !.pc = "relabel_rejected", !.todo = @ \ {e},
                                       !.file = [e EXCEPT !.key = moved]])
       /\ UNCHANGED <<db, url, ledger, faults>>

RejectRelabel(p) ==
    LET e == req[p].file IN
    /\ At(p, "relabel_rejected")
    /\ rowKey' = [rowKey EXCEPT ![e.file] = IF row[e.file] = "live" THEN e.key ELSE @]
    /\ Go(p, [req[p] EXCEPT !.pc = "preserve", !.file = None])
    /\ UNCHANGED <<subsTable, games, row, rowRegion, media, bucket, url, ledger, faults>>

RejectSetStatus(p) ==
    /\ At(p, "preserve") /\ req[p].todo = {}
    /\ SetMetadataStatusForAdmin(req[p].sub, "rejected")
    /\ Done(p)
    /\ UNCHANGED <<gameOf, hasSystem, games, files, media, bucket, url, ledger, faults>>

-----------------------------------------------------------------------------
\* A request is cut short between two of its steps.
Abort(p) ==
    /\ req[p].pc # "idle"
    /\ failures < MaxFailures
    /\ failures' = failures + 1
    /\ UNCHANGED uncopied
    /\ Done(p)
    /\ UNCHANGED <<db, bucket, url, ledger>>

Browser == \E f \in Uploads : MetadataUploadURLPre(f) \/ BrowserUpload(f)

Start(p) ==
    \/ \E f \in Uploads : MetadataUploadURL(p, f)
    \/ \E s \in Subs :
          \/ CreateMetadataSubmission(p, s) \/ CancelMetadataSubmission(p, s)
          \/ ApproveMetadataSubmission(p, s) \/ RejectMetadataSubmission(p, s)

Step(p) ==
    \/ UploadURLRegister(p) \/ InsertSubmission(p) \/ RegisterFile(p) \/ RegisterEnd(p)
    \/ CancelObjects(p) \/ CancelRow(p)
    \/ ValidateApprovedMedia(p) \/ CreateGameFromPayload(p) \/ SetMetadataSubmissionGame(p)
    \/ ResolveMediaRegions(p) \/ CaptureList(p) \/ CaptureOldMedia(p) \/ CaptureCopyFails(p) \/ CaptureDone(p)
    \/ DeleteReplacedMedia(p) \/ PublishUpload(p) \/ PublishRelabel(p)
    \/ ApplyStart(p) \/ ApplyDelete(p) \/ ApplyClear(p) \/ ApplyMove(p)
    \/ ApplyReplace(p) \/ ApplyInsert(p) \/ ApplyText(p)
    \/ ApproveSetStatus(p) \/ AwardMetadataPoints(p) \/ AwardXP(p)
    \/ DuplicateObjects(p) \/ DuplicateDetach(p) \/ DuplicateDelete(p)
    \/ PreserveRejectedFile(p) \/ RejectRelabel(p) \/ RejectSetStatus(p)

Next == Browser \/ \E p \in Procs : Start(p) \/ Step(p) \/ Abort(p)

Spec == Init /\ [][Next]_vars

-----------------------------------------------------------------------------
(***************************************************************************)
(* Safety of the handlers run one after the other (Serial = TRUE), any of  *)
(* which may be cut short and tried again.                                 *)
(***************************************************************************)

\* Seen through its status and its game a contribution follows the review's
\* lifecycle, and a user's text in review for a game never overlaps.
Lifecycle == INSTANCE ContributionLifecycle
ImplementsLifecycle == Lifecycle!Spec

\* "Unapproved uploads are never public": the catalogue lists canonical keys
\* only, and while no request was cut short, art of approved submissions only.
OnlyApprovedPublic ==
    \A m \in media :
       /\ Canonical(m.key)
       /\ Quiet /\ failures = 0 => status[SubOf[m.key.file]] = "approved"

\* Published art is never lost: whatever has an object under a canonical key or
\* in history/ still has one after every step, except art that could not be
\* copied to history/ and the media of a duplicate game that is deleted
\* (captureOldState, deleteReplacedMediaObjects).
Preserved(f) == \E k \in bucket : k.file = f /\ k.gen > 0
ReplacedArtKept ==
    [][\A f \in Uploads \ uncopied : Preserved(f) =>
          Preserved(f)' \/ \E p \in Procs : At(p, "dup_objects")]_vars

\* A submission becomes approved only when the catalogue shows each of its
\* uploads, in its kind and region, by a key that has an object.
Shown(s, f) ==
    /\ [game |-> gameOf[s], kind |-> KindOf[f], region |-> rowRegion[f], key |-> rowKey[f]]
          \in media
    /\ rowKey[f] \in bucket
ApprovedIsLive ==
    [][\A s \in Subs \ Duplicate :
          status[s] # "approved" /\ status'[s] = "approved" /\ gameOf[s] # None =>
             \A f \in UploadRows(s) : Shown(s, f)]_vars

\* "There is one cover and one logo per region", as long as no submission
\* names a region twice.
OnePerRegion ==
    \A m, n \in media :
       m.kind \in Regional /\ m.kind = n.kind /\ m.game = n.game /\ m.region = n.region => m = n

\* "Rejecting must never touch published objects", and neither does cancelling:
\* an object a media row names goes only in an approval.
OnlyApprovalUnpublishes ==
    [][\A p \in Procs :
          req[p].pc \in {"preserve", "cancel_objects", "presign", "register"} =>
             \A m \in media : m.key \in bucket => m.key \in bucket']_vars
=============================================================================
