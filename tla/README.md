# NeoAssets service: a TLA+ development

NeoAssets is a Go service (chi, PostgreSQL, Cloudflare R2) behind a site where people
contribute *system art packs* and game metadata, and from which front-ends scrape both.
Contributors earn XP, XP gives scraping threads, donations raise both. What is hard about
it is that one request touches PostgreSQL and R2 in many separate calls, that almost no
transaction spans them, and that any number of requests run at once.

This directory holds the specifications of its stateful parts, the instances TLC checks,
and machine-checked proofs. Paths below are relative to the repository's `src/`.

## 1. Inventory

| part | code | state | operations | what makes it correct |
|---|---|---|---|---|
| Pack submissions | `internal/services/service.go`, `internal/repository/repository.go` | `submissions`, `submission_files`, R2 `packs/…`, `rejected/…` | presign, create, register, edit, submit, approve, reject, trash, delete | the status follows the lifecycle; what is published is there and belongs to its slot; a pack id has one owner; art is only lost by an explicit delete |
| XP | `rewards_service.go`, `rewards_repository.go`, `internal/progression` | `users.xp`, `xp_ledger` | award, read | credit follows an approval |
| Metadata review | `metadata_service.go`, `metadata_repository.go` | `metadata_submissions`, their files, `games`, `game_regions`, `media`, `roms` | create, upload, cancel, approve, reject, report a duplicate | an approved contribution is in the catalogue with its media; replaced media are kept; a region has one cover; an approval does what its payload says; a game shows the name of its first region |
| Video slots | `metadata_service.go`, `pkg/video` | two semaphores | probe, convert | few ffmpeg processes; slots always come back; an approval gets its turn |
| Accounts | `user_service.go`, `user_repository.go`, `pkg/auth`, `handlers/authz.go` | `users` | register, login, verify, resend, forget, reset, change, rename | a verified address was proved; an unverified account can be verified; a password change ends older sessions |
| Donations | `donation_service.go`, `donation_repository.go` | `donation_events`, `donor_claims`, `users.donor_*` | Ko-fi and Patreon webhooks, import, claim, verification, expiry job | the status is what the payments say; payments find their owner; what an admin set stays |
| Scraping API | `scrape_service.go`, `pkg/auth/scrape.go`, `developer_repository.go` | `scrape_usage`, `debug_usage`, limiter map | authenticate, consume | never more than the daily quota is served; the rate is bounded per subject |
| IP limiter | `internal/handlers/security.go` | bucket map | allow, sweep | an active client is never forgotten and given a fresh burst |
| Avatars, storage figure, developer apps, follows, dashboard, translation, email, systems, config | the remaining files | | single statements, reads or external calls | – |

Interactions. Handlers call services, services call one `Repository` (a statement per call,
autocommitted, except for `AwardXP`, which opens a transaction) and one R2 client. The
browser talks to R2 directly through presigned PUTs, so an object may appear long after the
row that names it, or never. Approvals of both kinds call `awardXP`, whose sums feed the
quota of the scraping API, as the donor status does. Verifying an address also links the
donations made with it. Background goroutines expire subscriptions, refresh the storage
figure and translate. Where a handler passes its request's context on, R2 calls fail once the client
disconnects or five minutes are over (`middleware.Timeout`); statements, which take no
context, still run, and so does all of the metadata review, which makes contexts of its own.

Hard behaviours: requests that interleave between two statements, or write back a row read
earlier; a request that dies between PostgreSQL and R2; a retry over a half-done approval;
uploads and webhooks that come late, twice or out of order; a reviewer and a submitter
acting at the same time; sweeps over a prefix that several submissions share; waiting for
a slot that others hold. `PROJECT.json` lists them as hazards, each at its line.

## 2. Modules

| module | what it is |
|---|---|
| `SubmissionLifecycle` | abstract: a pack submission as its status, and who owns its pack |
| `PackReview`, `MCPackReview` | rows, objects, uploads and requests of the pack review |
| `PackReview_proofs` | types; safety under any interleaving; refinement and the rest of safety without overlap |
| `ContributionLifecycle` | abstract: a metadata contribution as its status and its game |
| `MetadataReview`, `MCMetadataReview`, `MetadataReview_proofs` | contributions to games: submissions, file rows, media rows, objects, history |
| `GameText`, `MCGameText`, `GameText_proofs` | what an approval does to a game's text, regions and ROM dumps, statement by statement |
| `VideoSlots`, `VideoSlots_proofs` | the two pools of ffmpeg slots |
| `Accounts`, `MCAccounts`, `Accounts_proofs` | accounts, links in the mail, sessions |
| `Donations`, `MCDonations`, `Donations_proofs` | payments and the donor status they give |
| `TokenBuckets` | abstract: a bucket per subject, never forgotten |
| `Limiters`, `MCLimiters`, `Limiters_proofs` | the swept map of buckets that both limiters of the program keep |
| `ScrapeQuota`, `MCScrapeQuota`, `ScrapeQuota_proofs` | the scraping API: authentication, debug mode, rate and daily limits |

Throughout, a request is a process with a record (`req[p]`, `call[p]`) of where it is and of
the local variables that survive a call; it takes one step per SQL statement or R2 call that
matters. `Abort` (or its namesake) ends it between two steps and stands for an error of the
next call, a cancelled context, a panic and a restart alike, since handlers undo nothing.

### `PackReview` and the code

`status`, `version` are columns of `submissions` (`version` 0 is the empty `admin_version`,
*n*+1 is `1.n`); `row`, `rowKey` are `submission_files`; `bucket` is R2; `url` says how far
the presigned upload of an object has come; `ledger` counts the `xp_ledger` entries.

A request begins with the action named after its service method (`CreateSubmission`,
`AddSubmissionFiles`, `RemoveSubmissionFile`, `GetUploadURL`, `Approve`, `Reject`, `Trash`,
`DeleteSubmission`), which makes the first reads and tests them, and goes on:

* create: `InsertSubmission`, `RegisterFile` for each file, `RegisterDone` (`SubmissionLifecycle` leaves open whether a creation
  ends in a draft, as the repository's README has it, or in the queue, as the code does);
* upload URL: `UploadURLRegister`, and some time later, or never, `BrowserUpload`;
* approve: `ApproveList`; for each file `PublishNothing` (canonical already), `PublishMissing`,
  or `PublishFile` – `PublishUnstage` (the other format may stay, when its deletion fails) – `PublishRelabel`; `ApproveSetStatus`, `AwardCheck`, `AwardXP`;
* reject: `RejectList`, for each staged file `PreserveRejectedFile` – `RejectRelabel`, then `RejectSetStatus`;
* trash: `TrashKeep`, `TrashSweep`, `TrashDropRows`, `TrashSubmission`;
* delete: `DeleteList`, `DeleteObjects`, `DeleteRow`.

A submission is an id with a fixed pack id (`PackOf`) and a flag (`Contribution`). An upload
(`Art`) stands for its random review key, its row and its bytes; `SlotOf` and `ExtOf` give the
canonical key it gets. A canonical key is a record of pack, slot and extension, so two uploads
may compete for one key and `SiblingKey` is its other format. `Serial = TRUE` lets a request
begin only when none runs: it separates what handlers promise each on its own from what
survives their interleaving.

### `MetadataReview` and the code

`status`, `gameOf`, `hasSystem` are columns of `metadata_submissions`; `game` says whether the
`games` row is there and `primary` which region its text makes primary; `row`, `rowKey`,
`rowRegion` are `metadata_submission_files`, `media` the media rows, `bucket` R2. A key is an
upload, a generation (0 staged, then one per publication, since `immutableMediaKey` draws a fresh
one each time) and an area (none, `history/`, `rejected/`).

An approval is the longest chain: `ValidateApprovedMedia`, `CreateGameFromPayload` and
`SetMetadataSubmissionGame` for a new game, `ResolveMediaRegions`, `CaptureList` –
`CaptureOldMedia` or `CaptureCopyFails` – `CaptureDone`, `DeleteReplacedMedia`,
`PublishUpload` – `PublishRelabel` for each upload, `ApplyStart`, then `ApplyDelete`, `ApplyClear`,
`ApplyMove`, `ApplyReplace`, `ApplyInsert`, `ApplyText`, and `ApproveSetStatus`, `AwardMetadataPoints`,
`AwardXP`; a report of a duplicate goes through `DuplicateObjects`, `DuplicateDetach`,
`DuplicateDelete` instead. Rejection and cancellation are as in the packs.

### `GameText` and the code

`text[g]` is a `games` row with its `game_regions`, `roms` the dumps, `payload[s]` the JSON of a
contribution. `ApproveMetadataSubmission` turns the payload into its `Plan`, the statements
`CreateGameFromPayload` and `ApplyMetadataSubmission` issue, in their order (`CreateOps`, `EntryOps`, `DeleteOps`, `NameOps`, `RomOps`, …), and `Statement` executes them one by
one; `ListGameRegions` and `SaveGamePrimary` are the two halves of `refreshGamePrimary`. An approval
that stops is started again from the first statement over what it left.

### `VideoSlots` and the code

`probeSlots` and `reviewSlots` are the lengths of the two buffered channels. A contributor waits for a probe slot
under `videoProbeTimeout` (`ProbeDeadline`); a reviewer waits without one, once per video to
validate and once more per video to convert. Failures are `ReviewVideoFails`.

### `Accounts` and the code

`row` is `users`. Each request of `user_service.go` is a read (the action named after it) that
computes the row to save, and `UpdateUser` (or `CreateUser`), which writes *all* of it; mails go out
before (`UpdateProfile`) or after (`SendVerificationEmail`) the write as in the code. `session` is one
token some login returned, `tokenRevoked` the check of `authz.go`. `changes`, `proved` and `clean` are history.

### `Donations` and the code

An event is the id of a Ko-fi transaction or a Patreon member with the address it was made with.
Webhooks and imports look the owner up (`HandleKofi`, `HandlePatreon`, `ImportDonations`,
`ImportNext`) and then upsert (`UpsertDonationEvent`). `VerifyEmail` and `ClaimVerify` link what an
address made before (`LinkDonationEventsByEmail`). All end in `RecomputeDonorStatus`, three statements:
`ReadDonorStatus`, `ReadDonationEvents`, `WriteDonorStatus`. `ExpireStaleSubscriptions` is a sweep of the job.

Users `Register`; after that every request about an account (`ForgotPassword` for those that keep address and verification,
`UpdateProfile`, `VerifyEmail`) is the read of its row (`ReadUser`) and, a step later, `UpdateUser`, which writes all of it:
the donor status it read takes back one computed meanwhile, while `donor_source` stays. `cut` and `clean` are history: whether a
worker was cut short, and whether none was and no two overlapped.

### `Limiters` and `ScrapeQuota`

`present` are the keys of the map; `limit`, `tokens`, `last` the fields of an entry. `Reuse` and
`Build` are the two outcomes of `limiterFor`, each with the sweep before it (`Swept`); `Allow` and
`Refuse` the answers. `asked[p]` is the bucket a request holds between the two; if the entry is
replaced meanwhile the request is charged to a bucket nobody has any more. `IPLimiter.allow` makes
both steps under its lock, with one limit: a subset of these behaviours. `TB` maps an
entry that is gone to a full bucket, which is right exactly if only full ones go.

In `ScrapeQuota`, `usage` and `debugUsage` are the tables of those names, `threads` what
`ThreadsForUser` computes, `version` the `token_version`. `call[p]` goes through
`AuthenticateScrape`, `ResolveUser`, `Debug`, `allowSubject`, and `ConsumeQuota`, `ConsumeForced` or
`FreeEndpoint`. Threads and credentials change and midnight passes at any point. `ChangeCredentials` raises a version;
`UpdateUser` is the write of a row some request read before such a change (`Accounts`), which brings an earlier version back, and
`reverted` remembers whose. `Issued` are the versions a user may have tokens of: up to the present one, or any for a user in `reverted`.

### Simplifications

* *Packs.* `ensureUploaded` and the row it guards, copy and delete of `PreserveRejectedFile`, the
  insert and delete of `AddFileReason`, the two deletions of `PublishUnstage` (the second may fail), the two statements of
  `PublishRelabel` (drop the older row, update this one), and the listing and deletion of a sweep are one step each. `AddFileReason` replaces
  the row of the same file name, system and kind; here that of the same slot and format, which name the file.
  Text edits, the log, sizes and mime types are left out, and failures that only depend on them are `Abort`s. Who may
  call is left out. Clients register the keys they were given, a presigned URL is used once.
* *Metadata.* A row inserted twice with one key counts once. A submission id is used once. A contribution
  proposes a game that is not there (`CreateMetadataSubmission`); the code asks whether a live game has the name, so a name may be proposed
  again after its game was detached. Contributions to a game system, translations and the review's lists are left out. `GameText` has one system, one
  single-column field for all of them, and no release months. Games that were there before (`Catalogue`) follow their
  regions (`CatalogueAssumption`): `migrations/062_game_regions.up.sql` gave each its one region with the game's own
  name and release. The importer is not in the repository.
* *Accounts.* The check of a session and the read after it are one step; a user's identifier is new at
  registration; links do not expire and mails arrive. Of the columns a stale row also takes back, the
  donor status is in `Donations`; role and XP are left out.
* *Donations.* A lookup that fails counts as no account, as the code treats it. Amounts, tiers, signatures,
  the expiry of a claim's code and the backfill at boot are left out. An event reported again keeps its address, kind and time, which the
  upsert may change. `LinkPendingForEmail` has no caller.
* *Limits.* `x/time/rate` refills continuously; here a tick gives `Rate` tokens, and in `ScrapeQuota` a
  minute fills the bucket. A request let through by a bucket that has left the map (`AnswerOrphan`) counts as let through before the limit
  changed: that such a bucket costs nobody anything is how the model counts, not what it shows. An API key is a row of its own, which a password change leaves alone: a call
  with one is a call with a current token. The day is read once.

## 3. Runs

| run | instance | shows |
|---|---|---|
| `failures` | serial; two brand-new submissions and a contribution of one name; two uploads (a WebP, a GIF); one failure; fair | `TypeOK`, `ImplementsLifecycle`, `PackOwnedOnce`, `ApprovedListsPublicKeys`, `ApprovedReadOnly`, `SweepSparesLive`, `RejectedLeavesStaging`, `OnlyDeleteUnpublishes`, `ApprovalDecides` |
| `concurrent` | two requests at a time; one submission with two uploads | `CreditedWasApproved`, `BytesBelong`, `ApprovedNeverRequeued` |
| `metadata` | serial; a new game with a cover, an edit that uploads, moves and deletes covers, a report that deletes the game; two regions; one failure | `TypeOK`, `ImplementsLifecycle`, `OnlyApprovedPublic`, `OnePerRegion`, `ReplacedArtKept`, `ApprovedIsLive`, `OnlyApprovalUnpublishes` |
| `game_text` | two contributions of nine shapes to an imported or a new game; two regions, three names, two dumps | `TypeOK`, `CanonicalFollowsRegions`, `AppliedAsWritten` |
| `video_slots` | two contributors for one slot, three reviewers with up to two videos for two; fair | `TypeOK`, `SlotsHeld`, `ReviewsEnd` |
| `accounts` | two users, two addresses, two overlapping requests, three links | `TypeOK`, `VerifiedWasProved`, `UnverifiedHasLink`, `SerialPasswordChangeRevokes` |
| `donations` | a tip and a membership of one address, two users, one request (of the platforms or about an account) and the job, two days; fair | `TypeOK`, `OutdatedIsListed`, `VerifiedGetTheirs`, `StaleDowngraded` |
| `limiters` | two subjects, two overlapping requests, two limits, five ticks, a map swept from two entries on | `TypeOK`, `GrantsBounded`, `ImplementsTokenBuckets` |
| `scrape_day` | the owner of two apps; two overlapping calls as a guest, as the user, in debug mode; one lookup per thread and day; versions that go up and back; two days | `TypeOK`, `QuotaHonoured`, `DebugCapped`, `StaleRefused` |

Bounds. Packs share nothing, and with one slot (one game, one kind, one imported text) every two
uploads compete, which is the interesting case. One failure is enough to leave any request half
done and have every other request meet what it left; `game_text` allows any number. Two requests let every pair of statements
interleave. Every limit is small enough to be reached: two calls are one more than a guest's daily
limit; buckets hold one or two tokens; three reviewers want two slots. Two users and two addresses let
each want what the other has. In `donations` the cfg names who registers, moves to and claims which address, what an import
says and whose status an admin sets (`Uses`, `Claims`, `Imported`, `AdminSets`), and one request beside the job lets every
request overlap every sweep. In `scrape_day`, threads, credentials and minutes change as long as a call may still look at its user (`Open`);
afterwards only midnight comes. Ids are used once and run out, hence
`CHECK_DEADLOCK FALSE`; `video_slots` and `donations` check for deadlock too. Users, addresses,
handlers and the apps of one owner are interchangeable where a cfg says so; no run with a
liveness property uses symmetry.

Fairness. `PackReview`: weak fairness of `Step(p)`, since every goroutine is scheduled and every
call returns; nobody has to begin a request and no upload has to arrive. `VideoSlots`: weak fairness of a reviewer's
work (ffmpeg converts at most 45 seconds of video and ends, well or not) and strong fairness of `AcquireReviewSlot`, because a Go channel
serves its waiting senders first in, first out; nothing of contributors. `Donations`: weak fairness of the sweep, since the ticker
fires for ever, and of `Step(p)` of every worker, since every statement returns; nobody has to begin a request. Requests may be cut short; the job is not, as it
only skips a user it fails on, whom the next sweep takes up again.

### Where documentation and code disagree

| run | property | what happens |
|---|---|---|
| `trash_pending` | `TrashLeavesPending` | the objects and rows of a pending submission go before the request is refused |
| `revoked_session` | `PasswordChangeRevokes` | a request that read the account before a password change writes the old token version back |
| `admin_status` | `AdminStatusKept` | the status an admin sets records no source, and the next payment overwrites it |

Two more have no run, because the properties are stated so that they hold of the code and of the text alike, and say
nothing on which is right:

* A creation leaves a draft (`created`) that is submitted later (`README.md:27,45,48,129`); `CreateSubmission` inserts a pending
  submission, and no code ever sets `created`. `SubmissionLifecycle` allows both, so `ImplementsLifecycle` does not confirm the documented
  start of the lifecycle.
* A rejection deletes the files from R2 (`README.md:32,56,132` and the comment of `Reject`, `service.go:1212-1213`); `Reject` moves them to
  `rejected/` and keeps their rows (`service.go:1233-1234`). `RejectedLeavesStaging` says that nothing is left
  where the review had it, which either would satisfy.

### Other behaviour worth knowing

Met while modelling. The properties these touch are stated without them (for requests that do not overlap, or are not cut short):

* Packs: overlapping approvals both find the ledger empty and credit twice (`rewards_service.go:56`);
  what an interrupted approval published stays when the submission is then rejected
  (`service.go:1234`); its retry may drop the row of art it has published (`service.go:1109`); two
  overlapping creations of one name both pass (`service.go:245`); a replacement in the other format
  deletes an object an older row lists (`service.go:1183`).
* Metadata: a retry past the inserted media cannot be approved if its ROM is a duplicate by then; a new game whose approval stops after
  the insert cannot be completed under the same name; a copy to `history/` that fails loses the replaced art
  (`uncopied`); overlapping approvals may leave two covers for a region; a contribution rejected after a cut-short approval
  leaves its text live; a name without a region is undone by the next regional edit.
* Accounts: the comment that unverified accounts lose access (`user_service.go:417`) does not hold for reviewers and admins, whose
  checks do not ask for it.
* Donations: webhooks give a payment to whoever registered its address, verified or not; a verification cut
  short between link and recompute, or two recomputes that overlap, leave an outdated status until the next payment. So does a request about an
  account that overlaps a payment: `UpdateUser` writes the `donor_status` it read back (`user_repository.go:126`), and a user who has
  paid stays `none`, which the job does not look for, or one whose subscription has ended is monthly again. A monthly supporter whose subscription is reported ended by a webhook that
  fails before the recompute stays one: the job looks for active subscriptions only (`donation_repository.go:142`).
* Scraping: one bucket per app stands in front of the buckets of its users (`scrape_service.go:132`).

## 4. Proofs

Each theorem is proved for every value of the constants, from the assumption its module states. None of them bounds
the number of submissions, users, requests or failures.

`PackReview` (`PackReviewAssumption`: the sets of the constants, finitely many submissions).

* `TypeCorrect`. `TypeOK` is not inductive, since what a request will write comes out of its work list; `TypeInv`
  adds what it holds at each step.
* `BytesAlwaysBelong`. `OwnKeys`: every staged key in a row or a work list is a key of that upload, every
  canonical one its `ObjectKey`.
* `CreditNeedsApproval`. A request is at the award only if its submission has a version; `StepMoves` shows once which steps
  lead to which.
* `NeverRequeued`. A request about to insert has a submission nobody knows yet.
* `SerialImplementsLifecycle`, `SerialOwnsPackOnce` (`Serial => …`). `SerialInv`: at most one request runs, and
  what it tested when it began still holds when it sets the status.
* `SerialApprovedReadOnly`, `SerialListsPublicKeys`. A step writes only rows of its own submission (`StepWrites`), which
  is not approved while it does (`NotApproved`) or goes. `ListingInv`: while an approval
  runs, each live row of the submission is canonical, on the work list, or at hand; an empty list leaves canonical ones.
* `SerialSweepSparesLive`. `KeepInv`: the keys a sweep keeps are those it would list now.
* `SerialRejectedLeavesStaging`. `PreserveInv`: a staged row is still to do, or copied to the key its row names. `OneObject`:
  an upload has one staged object at most, and none before its PUT, so a copy that took the old one away leaves none behind.
* `SerialOnlyDeleteUnpublishes`. `PublicInv`: until a request is cut short, a canonical row belongs to an approved
  submission or the one being approved, and a canonical object has such a row or is about to get one. So a
  sweep, which is never about an approved submission, keeps them all, and a publication removes a
  format only after it wrote the other. One failure breaks this: half an approval leaves canonical objects to a pending submission.

`MetadataReview` (`MetadataReviewAssumption`: the sets of the constants). All but the types are for requests that
do not overlap (`Serial => …`), cut short anywhere: overlapping approvals do break them (section 3).

* `TypeCorrect`. `TypeInv` adds what a request holds at each step, and that a listed media row has a key (`RowsHaveKeys`).
* `LifecycleImplemented`. `SerialInv`: at most one request runs, what it tested about its contribution when it
  began still holds (`Current`), and games in use exist.
* `OnlyApprovalsUnpublish`, `UnapprovedNeverPublic`. `OwnKeys`: the keys of an upload's row and of a request's work list are that
  upload's. `WorkInv`: what is on the list of a rejection, a cancellation or a presigning is staged, while `media` names
  canonical keys only. The second adds `ApprovedMedia`: as long as no request was cut short, a media row belongs to an approved
  contribution or to the approval at work.
* `ApprovalShowsUploads`. `ShownInv`: what an approval has published and inserted so far is listed and there, in
  every step until the status is set.
* `PublishedArtKept`. `CaptureInv`: before an approval deletes or replaces a media row, its object is copied or listed in `uncopied`.
* `OneArtPerRegion`. `SlotsInv`: a cover is inserted for a region only after the old one was deleted, moved away or
  taken on the list to delete. It needs that no contribution brings two covers for one region (`[]NoRegionTwice`): the code takes that for
  granted ("there is one cover and one logo per region", `metadata_service.go:1342`) and no handler tests it.

`GameText` (`GameTextAssumption`: the sets of the constants, and that an edit names a game and a new game its name;
`CatalogueAssumption`). Approvals stop anywhere and, for the types, overlap.

* `TypeCorrect`. What an approval does is a list computed from a payload, so the proof is first about lists: `PlanFits` says
  what the plan of any payload looks like (`Fits`: an insert comes first and an attach after it, every change to regions has a
  refresh behind it, direct values come after the attach and the approval last), `FitsTail` and `FitsSave` that it stays so while statements are
  done. `FlattenSeq` is recursive; that it joins lists of statements to one is proved from a least counterexample.
* `GameFollowsRegions`. `CanonInv`: a game that does not follow its regions is *explained* (`Witness`) by a contribution
  that was begun: one that sets values directly; or one about the game that is not approved and will refresh it, now or when it is
  tried again; or a new game that was inserted, not attached, and still has its name, which keeps a second attempt from inserting another. The last
  case is why an unattached contribution counts in the property. `Ordered` is needed too: a new game is
  refreshed only after its last change.
* `ApprovalAppliesPayload`. `FinishInv`: what is left of an approval (`Owed`) always leads from the text as it is to the text
  asked for; at the last statement nothing is left and they are equal. `Leaves` says what a list makes of one value: the last
  item about it decides, without any it stays. So it joins (`LeavesConcat`) and loses its head (`LeavesTail`), and
  a plan and a payload that agree entry by entry (`Same`, `SameEntries`) leave the same. The rows a new game
  gets before it is attached are all written again when its payload is applied (`CreateWrites`). What earlier attempts left behind does not
  enter: the approval that ends executed its whole plan. A statement of a plan may be about regions, a column or the name; `Executes` says what each
  does to all three. The attempt to prove it corrected the property, not the code, for payloads no
  earlier run had: one that lists regions and deletes a value of a region it names, which the code does as well
  (`Changes`), and an entry whose value moves from its own region, which the code ignores (`Touches`). The run now has both.

`Limiters` (`LimitersAssumption`: a bucket fills up before its entry may go, `Rate * IdleLimit >= Burst`,
which one minute against 10 and 15 satisfies and without which the last two are false).

* `LimitersTyped`, `LimitersBoundGrants`, `LimitersImplementTokenBuckets`. `TokensInv`: an entry holds at
  least what came back since it was last asked for, so a stale one is full; `HoldersInv`: what a request
  holds was asked for in this tick; `GrantsInv`: grants are at most what the bucket lacks plus what time gave back.

`ScrapeQuota` (`ScrapeAssumption`: the sets of the constants).

* `ScrapeTyped`, `QuotaIsHonoured`, `DebugIsCapped`: counters are raised and read back in one statement, so each is at
  least what was granted under it.
* `StaleIsRefused`: a token that is stale on arrival is stale at the check, because a version only falls for users in `reverted`.
  The exception is in the property: a stale row that is written meanwhile does let such a token in, as `revoked_session` shows.

`Accounts` (`AccountsAssumption`, `NoRow`: the sets of the constants, finitely many requests).

* `TypeCorrect`; the bound on password changes needs that those on their way are counted (`Room`).
* `AddressesAreProved`. `MailInv`: each token is made for one address of one user and is only ever mailed there,
  whichever stale row carries it; so opening a link proves the address of the row that stores its token.
* `UnverifiedCanVerify`. `LinkInv`: the token an unverified row stores was mailed or some request is
  about to mail it, and so for the copies of rows that requests hold.
* `SerialChangesRevoke`. `SerialInv`: while requests do not overlap, what a request is about to write has the version of the row, plus one if
  it changes the password.

`VideoSlots` (`VideoSlotsAssumption`: finitely many requests, disjoint kinds, positive capacities).

* `TypeCorrect` and `NoSlotLeaks`. `SlotsHeld` is inductive but for the videos left (`VideosLeft`); it also gives that
  a slot that is returned was taken, so the counters stay between nothing and the capacity.

`Donations` (`DonationsAssumption`: the sets of the constants).

* `TypeCorrect`.
* `OutdatedListed`. `SettledInv`: while nothing overlaps, a user whose payments changed is on the list of
  the worker that changed them until the status is written, and a status that was written is *due*: it
  is what the payments entitle to, or monthly on subscriptions that have lapsed since. A day that passes keeps it due (`NextDayKeeps`).
  `WritesBack`: a request about an account holds the status it read, which is still the current one as long as nothing overlaps.
* `VerifiedGet`. `VerifiedInv`: the donations of a verified address have owners or are being linked, and a worker about to
  insert one has found its owner.

Only model-checked: liveness (`ApprovalDecides`, `ReviewsEnd`, `StaleDowngraded`), which needs fairness and `ENABLED`. Every
other property of a passing run has a theorem.

## 5. What is left

1. `MetadataReview` with two requests at a time: which of its properties survive.
2. Contributions to game systems, and levels, ranks and threads as functions of XP.

## 6. Not modelled

Avatars (one object per user), developer apps (single statements; the cap on apps is racy and nothing
depends on it), follows and profiles (idempotent inserts), dashboards and searches (reads), the storage
figure (a cache behind a mutex), the system table and configuration (constants): none keeps state that more than
one statement changes. Translation and email are calls to the outside whose failures are logged; ffmpeg
and the image encoders are external programs. `PROJECT.json` lists every part with its status.
