# Verification of the OpenFotos platform

TLA+ models of the platform in this repository, the TLC instances that check
them and machine-checked proofs about them. File references are to
`apps/server/src/openfotos_server/events/` (`E/`), to
`apps/desktop/src/openfotos_desktop/` (`D/`) and to `packages/`.

## 1. The system

A photographer creates an *event* (a wedding). One to ten *workstations* scan
folders, reserve a *contribution* each, and upload originals, previews,
thumbnails and face analyses. The Django server keeps rows in PostgreSQL and
hands out presigned URLs; the bytes go straight to an S3 bucket, behind the
server's back. When every included photo is processed the photographer
*publishes*: a manifest is written, unfinished contributions are left out and
visitors may browse, search by face and download, until the photographer
unpublishes (which opens a new *intake generation*) or the event expires.

### Components, their state, operations and what makes them correct

| Component | State | Operations | Correct means |
|---|---|---|---|
| Event lifecycle (`E/event_lifecycle.py`, `services.py`, `admin.py`) | event row: state, intake gate, generation, current manifest, two readiness marks, dates | contribute, close/reopen intake, finalise, refresh readiness, publish, unpublish, manual transitions, admin form | a published event is closed and serves the committed manifest of its own generation; marks do not outlive their generation |
| Ingestion (`E/ingestion_services.py`) | counters of the event, contributions, object rows with leases, manifests; the bucket | reserve, lease, verify, exclude, cancel, revoke, publish a snapshot, finalise | counters equal the rows; a contribution completes exactly when its originals are terminal; verified means stored; an excluded original never returns; manifests never change |
| Derivatives (`E/derivative_services.py`) | derivative object rows, failure code and count per asset, preview policy | confirm policy, register, lease, verify, report failure, refresh | a published gallery has both derivatives of all it shows |
| Face analysis (`E/face_services.py`) | one analysis per asset, with attempts | submit, report failure, reset, refresh | a published gallery is searchable; one document per asset; five attempts |
| Gallery and sub-events (`E/gallery_services.py`, `sub_event_services.py`) | hidden assets, archived sub-events, the sub-event of a contribution | hide, restore, archive, reassign | what is visible is what was published |
| Portal, PIN, visitor search (`E/portfolio_services.py`, `sharing_services.py`, `share_views.py`, `face_search_services.py`, `rate_limits.py`) | capability row with PIN hash and version, share version of the event, cookies, failure buckets, search result sets | publish, unpublish, rotate, enable and disable the PIN, unlock, search, expire, reset | whoever gets in has shown the PIN of now; what was revoked stays revoked; guesses are limited |
| Retention and preview policy (`E/retention_services.py`, `derivative_services.py`) | dates, quarantine, media-purged and erased marks of the event; policy row and watermark; the bucket | purge, erase, confirm a policy | nothing due is left, nothing that is not due is lost, a run that stopped can be repeated |
| API sessions (`E/desktop_auth.py`, `api.py`, `account_services.py`, `D/api_client.py`, `credentials.py`) | desktop sessions with token digests, idempotency records; the client's tokens and credential store | sign in and out, refresh, recover, claim, complete, release, replay | a command runs for one request at a time and not again once answered; an honest client is not locked out |
| Workstation pipeline (`D/batch_sync.py`, `ingestion/checkpoint.py`, `network.py`, `ui.py`) | SQLite checkpoints with attempts, three runners with worker pools, abort/pause/work events | reserve, upload, render, analyse, synchronise, pause, resume | what it reports as done is delivered; a run ends; attempts are bounded; a restart continues |
| Scanner (`D/ingestion/scanner.py`, `checkpoint.py`, `ui.py`) | selections, items with size, times and checksum, scan issues, batch state, scan and upload threads | add and remove sources, scan, reconcile, approve, reserve, verify again | what is uploaded is what was approved and what the server reserved |
| Vision, storage keys, contracts, UI, deployment | none of their own | pure functions, presentation, configuration | - |

Interactions: the workstation calls the JSON API (`E/api.py`), every mutation
under an idempotency key; the studio pages (`E/views.py`) call the same services
for the photographer; the administrator's site saves event rows directly;
visitors read through `share_views`. Commands lock the event row
(`select_for_update`) and, with a few exceptions that are the interesting ones,
do everything in one transaction.

### What is hard

* The bucket is not in the transaction: HEAD before the lock, DELETE inside a
  transaction that may roll back, uploads that arrive whenever a URL is live.
* Two commands write to the bucket between or before commits (finalisation,
  publication); two others check without the lock and write with it
  (registration and verification of derivatives).
* Readiness is recomputed in transactions that follow the change they react to.
* Counters are maintained by hand in five commands.
* The admin form saves a whole row it read without a lock.
* A visitor's request works to its end with the row it read first, while the PIN
  is rotated, the portal closed or the event purged.
* Worker threads and the window share tokens that each refresh replaces; answers
  get lost and the old token is honoured for a minute only.
* An idempotency claim lapses while the retry, a late first request and a stopped
  process all carry its key.
* Files change between the steps of a scan, and the window may submit, verify again
  or close meanwhile.
* The workstation's three runners and pools share one checkpoint file that each
  overwrites with an older description of the server; answers get lost; replayed
  answers are stale.

`PROJECT.json` lists each hazard at its line with the properties that cover it.

## 2. Modules

| Module | Models |
|---|---|
| `EventLifecycle` | the event row and every command that changes it; what the commands decide from photos is left open |
| `Ingestion` | extends it with contributions, object rows, bucket, leases, verify requests, derivatives, faces, sub-events, gallery and publication |
| `PhotoArchive` | what all this promises, with no rows or requests: accept within the allowance, keep or drop for good, open a gallery over kept photos |
| `MCIngestion` | instances and reduced next-state relations for TLC |
| `Workstation` | one contribution on the desktop workstation that uploads it: three runners with their pools, the checkpoint file, and the server as its requests see it |
| `Scan` | a contribution before its upload: sources, files, scan thread, window and upload thread up to the reservation |
| `ApiSessions` | a workstation's sign-ins, its tokens on both sides, and its idempotent requests |
| `Portal` | the capability of one event, its PIN, the visitors' cookies and requests, failure buckets and search results |
| `Retention` | purge and erasure of an event against uploads, publications and the preview policy |
| `MCScan`, `MCApiSessions`, `MCPortal` | instances of these for TLC |
| `LifecycleProofs`, `IngestionProofs`, `GalleryProofs`, `WorkstationProofs`, `ApiProofs`, `ScanProofs`, `PortalProofs`, `RetentionProofs` | theorems (section 5) |

`Ingestion` extends `EventLifecycle` and implements `PhotoArchive`. The other five
stand beside it, each with as much of its neighbours' state as its properties
need: `Scan` ends where `Workstation` begins (a reserved contribution);
`Workstation` has the recorded answers of `ApiSessions` as `registered`,
`derReported` and `faceReported`; `Portal` and `Retention` have the columns of the
event row they read and what changes them.

### How the models correspond to the code

*Granularity.* A command that locks the event row is one action. A command that
does something outside its transaction is split where the code is: verification
of an original is `BeginVerify` (unlocked checks and the HEAD, kept in
`request`) and `CommitVerify` (the row read again under its lock); verification
of a derivative the same, except that its commit does **not** read the row
again; registration of derivatives reads the event unlocked (`BeginRegister`) and
commits under the locks of the asset; finalisation is `PrepareManifest`, then
`CommitManifest` or `AbandonFinalize`; a refresh of readiness that follows a
commit is owed in `refreshes` and may be lost (`RefreshIsLost`).

*Event row.* `EventLifecycle.state`, `intake`, `generation`, `current`,
`manifest`, `derivReady`, `faceReady`, `expiry` and `everPublished` are columns of
`Event` and the state of its `IngestionManifest` rows. `form` is the row an admin
change form has loaded. Every action of `Ingestion` that changes the row has an
action of `EventLifecycle` as a conjunct, so the first module's properties
transfer (`ImplementsLifecycle`).

*Objects.* `object[<<asset, variant>>]` is `AssetObject.state`; `lease` says
that its `lease_expires_at` lies ahead and `url` that a presigned PUT still
works (a mismatch clears the first and cannot recall the second); `store` is the
bucket: nothing, the signed bytes, or other bytes. Signed PUTs carry
`If-None-Match: *`, so an upload happens only over nothing.

*Ledger.* One asset weighs one unit: the byte and the count columns move in the
same statements by the same rows.

*Faces.* `"pending"` also stands for a failed analysis with attempts left and
`"worn"` for a failed or conflicting one without. A report may or may not be the
last (`face' \in ...`): attempts below five are not counted here; they are
counted in `Workstation`.

*Manifest object.* `stray` is an object under the manifest's key that no
committed row points to: `"fresh"` while a retry would build the same bytes,
`"stale"` once the event row has been saved (`updated_at` is quoted in it).

*Bounds, by name.* `MaxGeneration` caps the generations a reopening can reach,
in its guard; `AssetLimit` and `DeviceLimit` are limits of the code; `Requests`
is how many verify or register calls are under way at once. `BadPuts`,
`CleanupFails`, `AdminForms`, `AdminMoves` and `InternalControls` switch kinds of
step on: `InternalControls` the commands no page or API calls at this commit
(close, reopen, finalise, the service-only move to Published).

*Left out here*: the admin form writes the counters of the ledger back with the rest
of an old row. `EventLifecycle` has the form and no counters, `Ingestion` the counters
and (in every instance) no form, so that loss is not explored. The form itself is
switched off where `OnlyPublicationPublishes` is assumed.

*No fairness* is assumed in these three modules: the server does nothing on its own,
so nothing must eventually happen there, and all their properties are safety.

### The workstation

`Workstation` follows `D/batch_sync.py`, `D/ingestion/checkpoint.py` and the
replay of recorded answers in `E/api.py`.

*State.* `orig`, `der`, `face` with their attempts and `batch` are the rows of the
checkpoint file. `sBatch`, `sOrig`, `sDer`, `sFace`, `hidden` and the server's
attempts are what the requests of a workstation can see of `Ingestion`; they are
one contribution, so a publication appears only as the step that leaves it out
(`LeaveOut`). `registered`, `derReported` and `faceReported` are the answers
recorded under the session's idempotency keys: the keys of a photo's registration
and of its failure reports are derived from the photo and the attempt
(`operation_key`), and are kept for thirty days, longer than a run. `at` is where
each of the three runner threads is; `sending`, `dtask` and `ftask` are the work of
the pools, one piece per photo; `abort`, `paused` and `work` are the events of
`_run_pipeline`.

*Granularity.* A request is one step with the mark its answer leaves in the
checkpoint. `Outage` is the other outcome: the request is not executed, or it is
and its answer is lost. `_sync_batch` is two steps: `Ask` fetches the description
(`View`), `Apply` writes it over the checkpoints, whatever the workers have
recorded in between. Its writes, row by row in the code, are one step. The
start of a piece of work (`mark_..._started`) is a step of its own, so that a
crash leaves work marked as under way. A wave ends when all its pieces have
(`EndTransfers`, `EndWave`); the wait for more work, `work_available.wait` with a
timeout of a second followed by `clear`, is `Wake`, with either outcome at any
time.

*Abstractions.* An error is told apart by whether it ends the run (`fatal`). The
engine gives the same document for the same photo, so that conflicting analyses
do not arise. A server that stops between a command and the completion of its
claim is in `ApiSessions`. The moves of a complete contribution (publication,
archived sub-events, revoked workstations) and the restoring of hidden photos are
not modelled here. An exclusion of an original waits for its lease, as in
`Ingestion`, and is possible whenever it is pending.

*Bounds.* `MaxTries` is the code's five. `MaxOutages` bounds outages, pauses,
crashes, new sign-ins and dashboard resets together; failures of single pieces
(`Faults`) and what the photographer does are bounded by nothing else.

*Fairness.* `FairSpec` gives weak fairness to the end of a run, to each runner and
to the work on each photo: they are threads, which the operating system
schedules, and every wait in them has a timeout. Nothing says which outcome a piece
of work has. The operator, the photographer and outages are never forced to act,
except that `PersistentSpec` adds an operator who starts again whatever
stopped, which only properties about resumption need.

### The scanner

`Scan` follows `InventoryScanner.scan`, the checkpoint's commands up to
`mark_batch_reserved`, and what the window allows meanwhile. A file is the clock of
its last write (its size and times, never the same twice) and its content; a
drive that is unplugged and plugged in again brings files back as they were.
`items` are the rows of `inventory_items` with the status, the snapshot and the
checksum; a scan touches a file in four steps (listed, looked at, read, looked at
again and stored), and everything else can happen in between. The scan thread's
own bookkeeping is `scan`; the upload thread's is `upload`, up to the
reservation; `server` is the manifest the server has accepted.

Abstractions: an exception ends the thread and leaves what it wrote. A file's
content is a photo or not; the reasons for rejecting one are not told apart.
`reserve_contribution` is what the upload thread sees of it. `start_scan` takes the
store's lock twice and is two steps (`ReadBatch`, `StartScan`): a submission or a
reservation may fall between. The other checks and the writes they guard are one step
each, `approve_batch` (the window allows no submission while a scan runs) and
`mark_batch_reserved` (a verification that starts between its check and its write is
not explored) included. `upload.again` is a ghost: since the upload thread read the
manifest, a contribution no longer approved has been verified again. `MaxChanges` bounds what happens to files, `MaxMishaps` stops, closed
windows and lost answers. *Fairness* (`PatientSpec`): weak for the two threads,
for opening the program again, showing the page and verifying a paused
contribution again, strong for submitting, which an upload thread under way
disables again and again: it is a photographer who wants the photos uploaded.

### Sessions and idempotent requests

`ApiSessions` has both sides. On the server: one `session` row per sign-in (both
digests are replaced together, so that a number names the pair; `age` is where the
pair stands between its grace of a minute and its expiry after fifteen), one
`record` per session and key, and `handlers`, the requests being handled, each in
the steps of `_execute_mutation`: received, claimed, command run, completed. On the
workstation: `current` is `_session`, `keyring` the credential store, `work` what
each worker thread waits for (with the refresh lock, `LockFree`), `window` the
thread that signs in and out without the lock. `strays` are refresh requests nobody
waits for.

Abstractions: the command's own transactions are one step. A claim's identity is
the smallest free number. A worker sends one body (`BodyOf`), so two workers may
confirm one policy with different bodies under one key. Behaviours have the
`mishaps` of one of the sets in `Trials`: the state space with all of them at once
is out of reach. Assumed: a command ends within its claim's fifteen minutes
(`SlowCommands = FALSE`), an answer does not take as long as an access token
lasts, no request is thirty days old. Two sign-ins of one installation are taken
one after the other. `MaxSessions`, `MaxTokens` and `MaxRestarts` are bounds.

### The portal

`Portal` has one event. `portal` is the `PortalCapability` row, `eventVersion` the
event's share version, which the cookie's signature covers with the
capability's; versions are fresh UUIDs, so `lastVersion` counts up. A visitor's
unlocking is `BeginUnlock` (the row is read: `copy`), `TryPin` (limit and PIN against
the copy), then `Grant` or `RegisterFailure`; a search is `BeginSearch` and
`EndSearch`. `form` is a row an admin form has loaded; `pepper` is the setting an
operator may replace. `MaxVersion`, `MaxEventVersion`, `MaxWindow` are bounds,
`PinLimit` the code's limit. `PortalSpec` has the product's commands;
`OperatedSpec` adds the administrator's form and the operator's pepper.

### Retention

`Retention` has one event whose photos are their own contributions. Purge and
erasure are `BeginPurge` or `BeginErase` (the keys are listed), one `DeleteKey`
per object in the order of the keys' names, and `Finish` (the rows), any of which
may be the last (`Stop`); an erasure begins with `Quarantine`, a transaction of its
own. Against them run reservation, upload by a live URL, verification, exclusion and
cancellation with their deletions, registration of previews (which reads the event
first), publication, unpublication, and the confirmation of a preview policy in its
three steps. A verification is `BeginVerify` (the HEAD, without a lock) and
`CommitVerify`: with its verdict in `checking` it may commit after the object was
deleted and uploaded again. The row of an original is read again by the commit, that
of a preview is not. `checking` keeps only verdicts that can still change something,
and two verifications that saw the same are one element that may be used again. `bad`
are objects with other bytes than declared. `since` is a ghost.

An erasure looks at recorded leases, as the code does, and at nothing else: URLs of
previews, which record none, URLs whose lease a mismatch cleared, registrations and
confirmations may all be under way when it lists the keys.

`BadKinds` says which objects may arrive bad. `MaxGeneration`, `MaxConfirming`,
`MaxChecking` and `MaxStops` are bounds. *Fairness*: URLs expire (they are signed for a
time), a command at work goes on, and the operator runs an erasure again until it is
done, as the runbook asks (193-195). Requests and confirmations need not end.

## 3. Runs

| Run | What it asks | Instance | States |
|---|---|---|---|
| `Lifecycle` | is the event row consistent under every command, with forms and internal controls | 2 generations | |
| `Transfer` | ledger, contributions, bucket, manifests, the published gallery and the archive promise under competing contributions | 4 photos in 3 contributions, allowance 3, 1 request, 2 generations | 99,621 |
| `Gallery` | does a published gallery show its manifest, under the whole `Next`: previews, registrations and verifications under way, unsigned bytes, half-done cleanups | 1 photo with a preview, 2 requests, 1 sub-event, 2 generations | 1,639,448 |
| `Delivered` | are committed manifests immutable and current, with finalisation and the administrator's moves | 2 delivered photos, 2 sub-events, 2 generations | |
| `Pipeline` | is what a run calls verified and done so on the server, are attempts for originals capped, does every run end | 1 photo with derivatives, 2 tries, 1 outage, every intervention | |
| `Resume` | does an operator who resumes get a finished upload | 1 photo with its analysis, 3 tries, 2 outages, every intervention | |
| `Scan` | is what is accepted true, what is approved clean and frozen, what is reserved local, and is there a reservation in the end | 2 photos, a folder and a file in it, files missing at first, 1 change, 1 mishap | 1,726,855 |
| `ApiSessions` | do commands run alone and once, are answers their own, does an honest client keep its session, does a sign-out end it | 2 workers, 1 key, 2 bodies, 2 sign-ins, 3 tokens, 1 restart, 5 sets of mishaps | 1,156,589 |
| `Portal` | is the PIN of now needed to get in, are guesses capped, does what is revoked stay revoked | 1 visitor, 2 requests, 2 PINs, limit 1, versions 2 and 3, 2 windows | 2,192,000 |
| `Retention` | is nothing lost before it is due, do rows outlive their objects, what can an erasure leave, does it end, with stale verdicts and runs that stop | 1 photo, 2 watermarks, 2 generations, 1 confirmation, 2 verifications, 1 stop, bad originals | 377,833 |
| `ClaimInterrupted` (violation) | does a resumption finish after a crash between two derivatives | 1 photo with derivatives, 1 outage | |
| `StaleCounts` (violation) | are attempts for derivatives capped | 1 photo with both stages, 2 tries, no outage | 111,000 until it is found |

Why these are enough to meet the hazards: two contributions make one finish
while another does not (publication leaves one out); a contribution of two
photos makes completion depend on which terminal step is last; an allowance one
short makes reservations compete; two generations make every mark, manifest and
form older than the event. On the workstation one photo already has the three
runners write the same rows from descriptions of different age; the safety
properties speak of one stage at a time, which is why these two runs have one of
them. Both stages together is the instance of `StaleCounts`. The other safety
properties of `Workstation` were checked there as well, as far as 13 million
states with every fault, and with two photos and two tries. The other half of
`PublishedServesItsManifest`, two photos with previews of which a publication
leaves one out, was checked under `TransferSpec` with unsigned bytes and half-done
cleanups (756,097 states). Two requests are what it takes for one to commit a HEAD
older than what the other verified; sub-events between which a contribution moves are
in `Delivered`.
Two selections that lead to the same file make its item depend on which is
scanned; one change is what it takes to fall between any two steps of a scan, and
the proofs of `ScanProofs` have no bound. The safety properties of `Scan` were
checked with two mishaps as well (2,693,769 states). Two workers are the two sides of every
race for lock and claim; three tokens are a current, a previous and a forgotten
one. Two requests of a visitor are the two guesses that pass one check; two
versions are before and after a rotation. Two verifications of one original are a
stale verdict and a fresh one; the second watermark makes a second policy, confirmed
after the purge has deleted the first. The same with bad previews
instead of bad originals was checked too (774,037 states).

Every property has a mutant in `PROJECT.json`: a plausible slip in the code
(a skipped re-read, a dropped lease check, a release counted twice), listed under
"Wrong forms" in the module, under which TLC finds the property violated. The
type invariants `PortalTypeOK`, `RetentionTypeOK` and `ScanTypeOK` hold in the
instances and no run lists them: they say nothing of the code. The first two are
proved, as what other invariants are stated over.

`CHECK_DEADLOCK FALSE` is set because the instances really stop: when the
generations are used up and all photos are terminal, when the event is erased, or
when the bounds are reached, no command applies.

### Statements the code does not keep

Two runs show one each, quoted in `PROJECT.json`.

`ClaimInterrupted`: after a crash (or a failed PUT) between the preview and the
thumbnail of a photo no resumption finishes the upload. Each registration of the
photo's derivatives is answered with the first answer, the workstation asks leases
for both, is given one, and counts a failed attempt until none is left.

`StaleCounts`: derivatives are attempted more often than the cap of ADR 0015
(38-40) allows. A synchronisation writes the attempts of a description it fetched
earlier over the checkpoint's, derivatives' and analyses' included
(`sync_derivative`, `sync_face_analysis`). When another runner's work has reported a failure in
between, the count goes back, the photo is claimed again, and the server, which
looks at no cap when a derivative fails, counts beyond it as well. The originals
are safe because a synchronisation does not write their attempts, and the
server's count of analyses because the server looks at it. This was found by
trying to prove `AttemptsAreCapped` as it was once stated, of derivatives as well:
no invariant said what a description in hand may still say of them.

The others are stated in the modules, and TLC refutes them when they are named in a
configuration that differs from the run's as given here.

| Statement | From | Refuted in | Because |
|---|---|---|---|
| `GenerationIsMonotone` | `OpenFotos_Product_and_Technical_Plan.md` 239 | `Lifecycle`, internal controls off | an admin form saved over an unpublication takes the generation back |
| `LedgerIsExact` | ADR 0005 31-32 | `Transfer` with previews, `BadPuts`, allowance 4, `b2` delivered, `SteadySpec` | cancelling a left-out contribution with a failed derivative releases one reservation too many |
| `GalleryIsManifest` | - | `Gallery` | two requests hold a HEAD of the same bad bytes; one commits and deletes them, the replacement is verified and published, the other commits and fails a derivative of the published gallery |
| `SuccessIsFinal` | - | the same as for `LedgerIsExact`, with two requests | of two verifications of a derivative, the one with the older HEAD deletes what the other verified |
| `RunEnds` | ADR 0011 39-41 | `Resume` with 2 tries, 1 outage, dashboard resets, `FairSpec` | after a reset failures of an analysis are reported under keys used before and not counted, while each synchronisation takes the local count back: a run whose engine keeps failing never ends (`RunEndsUnlessReplayed`: nothing else keeps it from ending) |
| `RefusedCanUnpublish` | - | `Lifecycle` | a published event moved to Review by an administrator is told to unpublish first, which only a published event can do |
| `PublicationHasFutureExpiry` | - | `Lifecycle` | a second publication keeps the date of the first |
| `FinalizesFromUploading` | - | `Lifecycle` | the second transaction of a finalisation does not check the state |
| `FollowsTransitionTable` | - | `Lifecycle` | a publication moves an event to Published from any open state |
| `ReleasedIsEmpty` | - | `Transfer` | a publication releases the allowance of unfinished originals whose bytes are in the bucket or still can get there |
| `RetryCanPublish` | - | `Gallery` | the manifest document quotes `updated_at`, so a publication rolled back after its object was written can be refused for the rest of the generation |
| `ExcludedObjectsStayExcluded` | - | `Transfer` with previews, allowance 4, `b2` delivered, `SteadySpec` | a late verification of a derivative overwrites its exclusion |
| `CookiesMatchPin` | ADR 0016 33-34 | `Portal` with `LegacyPin` | a capability of before migration 0017 has no shown PIN; enabling the PIN makes one without a new version, so who was unlocking with the former PIN gets in with it |
| `GuessesAreCapped` | - | `Portal` with `LateClocks` | a failure counted in a window that has just ended deletes the bucket of the new one |
| `RevokedStaysRevoked`, `PublishedIsReachable` | - | `Portal` with `OperatedSpec` | an admin form writes back an old share version; a later expiry date does not reach the capability |
| `ResultsAreCurrent` | ADR 0014 | `Portal` | a search under way stores its results after a rotation or an unpublication deleted them |
| `ErasedIsEmpty` | runbook 193-195, ADR 0013 84 | `Retention` | the command waits for recorded leases alone: a preview's URL has none, a mismatch clears a lease while its URL lives, and a confirmation that began before the quarantine writes its watermark and its row after the erasure |
| `VerifiedHasItsObject` | - | `Retention` | of two HEADs that saw bad bytes one commits, good bytes are uploaded and a third HEAD finds them; the second deletes them and the third commits |
| `SignedOutForgets` | `docs/SESSION_PLAN.md` 409-410 | `ApiSessions` | a refresh answered after a sign-out saves its tokens |
| `RunsAlone` | ADR 0007 48-51 | `ApiSessions` with `SlowCommands` | a claim lapses while its command still runs |
| `ChangesAreReviewed` | ADR 0003 71 | `Scan` | the changes a stopped scan has stored do not count in the next, which approves them |
| `SourcesAreVerified` | - | `Scan` | a source added while a scan runs is not on its list, and is approved with the rest unverified |
| `ReservedIsLocalAlways` | - | `Scan` | beside an upload attempt a first verification changes an item and takes the approval back, and a second one finds nothing new and gives it again: the attempt reserves what was there before |
| `FrozenStaysAlways` | - | `Scan` | a submission between `start_scan`'s look and its write: the scan treats the contribution as if nothing were approved, and a missing file is dropped |

Seen while modelling, and stated by no property: a manifest object whose
publication was rolled back survives purge and erasure, as does a watermark whose
confirmation was abandoned; a purge of an event with an open intake leaves what is
uploaded later, and its mark keeps the next purge away; setting a later expiry in
the admin site leaves the purge date as it was; a refresh that arrives later than
the grace ends the session; tokens accepted late overwrite those of a newer
sign-in; a new sign-in is a new session, so the same key runs again; removing a
selection drops items another selection still leads to; a lost reservation
answer, a changed file and a second approval end in `idempotency_conflict` for
good; a paused contribution is not taken up by itself when the program opens.

## 4. Assumptions about the environment

PostgreSQL serialises transactions that lock the same rows, and a command that
raises leaves no trace in the database. The bucket applies a conditional PUT
atomically; with `BadPuts` it may hold other bytes than were signed. Clocks are
abstracted to "the lease has run out" and "the expiry is past"; a lease and the
signature of its URL run out together. A command ends before its idempotency
claim lapses and a request arrives within thirty days (`ApiSessions`); the browser
keeps cookies as long as they are valid; a file that is written gets a size or
times it never had (`Scan`: Windows' creation time is not enough by itself); UUIDs
never repeat.

## 5. Proofs

All theorems hold for every value of the constants that satisfies the named
ASSUMEs of the modules. Further assumptions are antecedents of the theorem.

| Theorem | Says | Assumes |
|---|---|---|
| `LifecycleTypes`, `PublishedHasSnapshotAlways`, `ReadinessIsCurrentAlways` | the event row is consistent | nothing: forms and internal controls included |
| `CommittedIsCurrentAlways`, `OnlyFormsTakeGenerationsBack` | a committed generation is current; generations do not decrease | no admin form |
| `ImplementsLifecycle` | `Ingestion` implements `EventLifecycle` | nothing |
| `TypesAlways` | all variables typed, both counters within the allowance | nothing |
| `BatchFollowsItsOriginalsAlways`, `ManifestPhotosAreKeptAlways`, `ExcludedIsFinalAlways`, `VerifiedIsGivenUpAlways`, `ManifestsAreImmutableAlways` | contributions and manifests | nothing |
| `LedgerIsExactAlways` | counters equal the rows | `NoBadDerivatives`: without it TLC refutes it (section 3) |
| `LedgerNeverExceedsAlways` | the event has no more reserved than its originals take up, and counts exactly the verified ones | nothing: it is what remains of the former when derivatives arrive bad |
| `VerifiedIsStoredAlways`, `ExcludedIsGoneAlways` | rows and bucket agree | a store that takes only signed bytes; for the first also cleanups that do not fail half way |
| `PublishedServesItsManifestAlways` | what is visible of a published event is its manifest less what is hidden, analysed, and shown but for derivatives a HEAD of bad bytes fails afterwards (none where the store takes only signed bytes) | `OnlyPublicationPublishes` |
| `ImplementsArchiveAlways` | `Ingestion` implements `PhotoArchive` | `OnlyPublicationPublishes` and `NoBadDerivatives` (the archive's allowance is the ledger) |
| `WorkstationTypes`, `LocalFollowsServerAlways` | the checkpoint is typed, and calls nothing verified that the server has not got | nothing |
| `AttemptsAreCappedAlways` | no original is sent, and no analysis counted, more often than the cap | nothing |
| `DoneIsDeliveredAlways` | a run that ends as done has delivered everything that is owed | nothing |
| `ApiTypes`, `CommandsRunAlone`, `AnswersAreFinal`, `AnswersAreItsOwn` | a mutation runs for one request at a time, never again once answered, and is answered for the body that was sent | commands end before their claims lapse (`~SlowCommands`): without it `CommandsRunAlone` is refuted |
| `ReuseIsLoss`, `SignOutEndsTheSession` | a session is ended for a reused token only when one of its tokens was lost; otherwise a sign-out the server has answered ends it, whatever a worker refreshed meanwhile | the same |
| `AcceptedPhotosAreTrue`, `ApprovedContributionsAreClean` | what is accepted has the recorded bytes; nothing in an approved contribution blocks | nothing |
| `ApprovalFreezes` | items of an approved or reserved contribution do not change; the list of a frozen one is changed by no scan that found it frozen | nothing; a scan that read the contribution before the submission and wrote after it is excluded in the property |
| `ReservationsAreLocal` | when the checkpoint becomes reserved, the server has reserved what it is going to upload, also beside a verification of the sources | nothing; a second verification beside the same attempt, after a first took the approval back, is excluded in the property (`upload.again`) |
| `PortalTypes`, `CookiesMatchThePin` | the portal's rows are typed; a valid cookie was given for the PIN of now, beside the administrator's form and a replaced pepper | for the second no capability from before migration 0017 (`~LegacyPin`): with one it is refuted |
| `ShownPinAlwaysOpens` | the PIN the dashboard shows opens the portal | `~LegacyPin`, the product's commands |
| `RevokedForGood` | what a rotation or an unpublication revokes is never valid again | the product's commands: with an admin form it is refuted |
| `GuessesStayCapped` | a client has fewer PINs checked than the limit and its requests at once together | the product's commands and `~LateClocks`: without it TLC refutes it |
| `RetentionTypes` | all variables typed | nothing |
| `NothingIsLostEarly` | until a purge is due or an erasure asked for, manifests and the cover are in the bucket, the watermark is the one that was confirmed, and no step takes the object of a verified original or takes back its verification; of a preview only the verdict of a HEAD of bad bytes does | nothing |
| `RowsGoLast` | rows are deleted after the objects they name, but for those written or first named since the command listed them | nothing |
| `ErasureIsFinal` | an erasure ends with no row that names an object and, unless a purge came before, only photos written since it listed them; in quarantine no URL, registration or confirmation begins, and whatever appears in an erased event comes through one that had begun before | nothing: that nothing appears (`ErasedIsEmpty`) is refuted |

The arguments:

* **Event row** (`LifecycleInv`). `PublishedHasSnapshot` is not inductive: a form
  may write back a row loaded long ago. The invariant therefore says the same of
  the loaded copy, relative to manifests that only ever grow, and that copy's
  facts are what a save needs.
* **Contributions** (`ContributionInv`). `BatchFollowsItsOriginals` and the
  manifests need each other: a snapshot lists only photos of *complete*
  contributions, a complete contribution has only terminal originals, a
  publication gives up only originals of reserved contributions, hence never a
  listed one. `RowsInv` ties absent rows to contributions not reserved yet.
* **Ledger** (`LedgerStep`). Each command adds or subtracts the cardinality of a
  set, so no step changes how far the counters are from what the rows add up to
  (`NoNewDrift`), except a cancellation, which gives back at least what it takes from
  `Charged`. It gives back exactly that while a contribution that can be cancelled
  holds no chargeable derivative, which is where `NoBadDerivatives` is needed.
* **Bucket** (`StoredInv`, `GoneInv`). A request that holds the HEAD "good" of a
  pending original must still find the bytes at its commit: deletes happen only
  at excluded or cancelled originals, whose rows the commit reads again, or at a
  mismatch, which an honest store never has.
* **Gallery** (`PublishedInv`, `GalleryInvariant`). At a publication every included photo is
  processed; afterwards nothing that changes `Visible`, the derivatives or the
  analyses is enabled while the event is published, except the commits of calls
  begun before. These verify (again) what is verified or, with a HEAD of bad bytes, fail
  it: hence `Delivers`, which is "verified" where the store takes only signed bytes.
* **Refinement** (`GalleryProofs`). Step simulation action by action, with the
  invariants above supplying the guards of the abstract steps.

* **Workstation** (`TypeInv`, `ServerInv`, `FollowInv`). The server never takes back
  what has arrived or was dropped (`ServerAdvances`, a property of every step).
  Hence what is true of the checkpoint when it is written stays true; but a
  checkpoint is also written from descriptions fetched earlier and from recorded
  answers, so the invariant says of each description in hand (`DescriptionsFollow`)
  and each record (`RecordsFollow`) what it says of the checkpoint: that what it
  calls verified or excluded still is. `EndedIsSeenTo` carries the third runner's
  conclusion to the end of the run: while nobody has raised or paused, a runner
  that has ended saw its part complete, and what it saw cannot be undone.

* **Idempotency** (`RecordInv`). A handler at work holds the record under its key,
  and that record has not lapsed: so nobody else finds it free, and a claim that
  is free is held by nobody, which is also why a new number exists
  (`ClaimIsNew`). An answered mutation's record is done, and if it has lapsed the
  session has expired, which nothing undoes (`Lasting`): so no request of the
  session gets as far as claiming it again.
* **Scan** (`TruthInv`, `CleanInv`, `FreezeInv`, `LocalInv`). Every recorded time is
  at most the clock, so a later write is told apart; what a scan has read is the
  content as long as the file has the time it was listed with. A scan takes the
  approval back before it touches an item, so approved items are touched by
  nothing. A scan that found the contribution frozen looks only into files of its list
  (`FreezeInv`). What an upload thread has read is what is approved: a scan beside it that
  changes an item ends in a review, one that changes none leaves the manifest
  (`LocalInv`, as long as no second scan begins after the review, `~upload.again`).
* **Tokens** (`TokenInv` of `ApiProofs`). While the lock is held by a refresh, nobody
  else refreshes (`OneRefreshes`) and every answer a worker waits for is the only one
  of its kind (`OneWaits`); a token anybody has was issued (`TokensAreBorn`). For each
  session that is current on the workstation, its tokens are the server's current
  ones, or on their way to the workstation, or an answer was lost (`Traced`): the
  server can take a presented token for reused only in the last case. `~SlowCommands`
  is needed only for the types of claims, which are proved with it.
* **Attempts** (`AttemptsStep`). A lease is asked for only below the cap, and the
  synchronisation does not write the attempts of originals; the server looks at the
  cap before it counts a failed analysis. Of derivatives neither is true, and the
  statement is refuted (`StaleCounts`).
* **Portal** (`PinInv`, `ShownInv`, `IssuedInv`, `GuessInv`). Every version anybody
  holds has been issued, so a fresh one is nobody's: a cookie under the version of now
  was made under it, from a copy whose PIN was the capability's, whose PIN has not
  changed under one version since. For the guesses the count of failures and the
  requests denied but not counted yet bound the guesses from both sides: the last
  guess passed the check below the limit, when its own request was not among them.
  The type proof failed at first: a published event without an expiry got through
  `PublishPortal`, which the constraint `published_event_has_expiry` of the schema
  does not let through; it is a conjunct of the action now.
* **Retention** (`KeptInv`; `CommandsInv`). A command at work is one that was due
  (`CommandsAreDue`), so nothing is deleted early; a policy names only a watermark
  that is in the bucket (`ConfirmedMark`). A verification that still counts is of an
  original not verified yet, or of a preview (`ChecksCount`): so no stale verdict
  removes a verified original. In the other direction every object and URL of a photo
  has its row until a purge (`KeysHaveRows`), and what a row names and the bucket has is still on a
  command's list or was written since it listed (`Pending`). In quarantine nothing
  opens (`QuarantineCloses`, from `NothingOpens`), and in an erased event no row of a
  photo is left that a late verdict could be written over (`NoPhotos`).

Only model-checked: the gallery and bucket properties in the instances with a
faulty store where the theorems assume an honest one; all
liveness (`RunEndsUnlessReplayed`, `ResumedIsDelivered`, `ReservedInTheEnd`,
`QuarantineEnds`); and every refuted statement. Every other property of the runs
has its theorem. Liveness, `ENABLED`, induction over
data and recursive operators are outside what the proof system does here.

## 6. What is not modelled

Image decoding, rendering, detection and embedding (pure); key syntax, slugs,
labels and other text; HTML and Qt presentation; audit rows (append-only, read
by nothing); downloads of model files; the rendering of derivatives; health checks,
configuration and deployment; the retention report, the event lists and other
reads. Of modelled components: `relocate_selection`, which no page calls; the
second stage of a photo in one instance with the first; two sign-ins of one
installation that overlap under read-committed isolation; an administrator who
deactivates an account and activates it again. `PROJECT.json` lists every component
with its status.

## 7. Plan

Done: all modules above, their runs and proofs. What would add most next:

1. `Delivery` - what `Workstation` promises, with no runners or records: photos
   arrive or are dropped, and done means all have; shown to be implemented.
2. A bound on the attempts of derivatives that does hold: how far descriptions in
   hand can take the count back, for each synchronisation under way.
3. `Scan` and `Workstation` composed over one checkpoint, so that a contribution is
   followed from its folder to its publication.
4. The admin form in `Ingestion`: how far the counters it writes back take the ledger
   from the rows.
5. `approve_batch` and `mark_batch_reserved` in two steps each in `Scan`.
