----------------------------- MODULE Retention -----------------------------
(***************************************************************************)
(* The end of an event's media: the operator's purge and erasure commands   *)
(* delete objects one by one and then the rows that name them, while the    *)
(* workstations reserve, upload and register and the studio publishes, and  *)
(* while the preview policy is confirmed with its mark.                     *)
(*                                                                         *)
(* A command reads, deletes and commits in steps of its own, may stop at    *)
(* any of them and is run again; two of them may run at once.               *)
(***************************************************************************)
EXTENDS Naturals, FiniteSets

CONSTANTS
    Assets,             \* photos, each its own contribution
    Marks,              \* watermark images a photographer may confirm
    NoMark,             \* no image
    BadKinds,           \* the kinds of objects that may arrive with other bytes than declared
    Jobs,               \* runs of the two commands that may overlap
    MaxGeneration,      \* bound on the publications of the event
    MaxConfirming,      \* bound on the confirmations of a policy under way at once
    MaxChecking,        \* bound on the verifications under way that saw different things
    MaxStops            \* bound on the commands that stop before their end

ASSUME RetentionConstants ==
    /\ NoMark \notin Marks
    /\ {"none", "off"} \cap Marks = {}
    /\ BadKinds \subseteq {"original", "preview"}
    /\ MaxGeneration \in Nat \ {0}
    /\ MaxConfirming \in Nat \ {0}
    /\ MaxChecking \in Nat \ {0}
    /\ MaxStops \in Nat

VARIABLES
    event,          \* the Event row: state, intake, generation and the dates
    assets,         \* the Asset rows: a purge redacts them and keeps them
    upload,         \* the state of the AssetObject rows, "none" where there is none
    manifests,      \* the generations with an IngestionManifest row
    policy,         \* the PreviewPolicy row: "none", "off" or the mark it names
    cover,          \* the event row names its cover
    lease,          \* the assets with a live lease in lease_expires_at
    urls,           \* the keys with an upload URL that has not expired
    store,          \* the keys of the objects in the bucket
    bad,            \* those of them with other bytes than their manifest declares
    mark,           \* the image under the mark's key
    checking,       \* verifications under way that can still change something: the
                    \* object, and whether its HEAD was bad
    registering,    \* registrations of previews that have read the event
    confirming,     \* confirmations of a policy that have checked it: their marks
    job,            \* the commands under way
    stops           \* the commands that have stopped

media == <<assets, upload, manifests, policy, cover>>
bucket == <<store, bad, mark>>
requests == <<checking, registering, confirming>>
vars == <<event, media, lease, urls, bucket, requests, job, stops>>

Original(a) == <<"original", a>>
Preview(a) == <<"preview", a>>
Manifest(g) == <<"manifest", g>>
MarkKey == <<"mark">>
CoverKey == <<"cover">>

UploadKeys == {Original(a) : a \in Assets} \cup {Preview(a) : a \in Assets}
Keys == UploadKeys \cup {Manifest(g) : g \in 1..MaxGeneration} \cup {MarkKey, CoverKey}

\* The commands delete in the order of the keys' names: "branding", "manifests",
\* "original", "portfolio", "preview", and by number or identity within each.
Rank == [mark |-> 1, manifest |-> 2, original |-> 3, cover |-> 4, preview |-> 5]

Foremost(keys) == {k \in keys : \A l \in keys : Rank[k[1]] <= Rank[l[1]]}

NoJob == [mode |-> "none"]

\* "since" is a ghost: the keys written, or first named, since the command listed them.
JobStates ==
    [mode : {"purge", "erase"}, left : SUBSET Keys, since : SUBSET Keys]

\* Every variable has its type, and the mark is one of the stored objects.
RetentionTypeOK ==
    /\ event \in [state : {"uploading", "published", "cancelled"}, open : BOOLEAN,
                  generation : 1..MaxGeneration, dated : BOOLEAN, due : BOOLEAN,
                  quarantined : BOOLEAN, purged : BOOLEAN, erased : BOOLEAN]
    /\ assets \subseteq Assets
    /\ upload \in [UploadKeys -> {"none", "reserved", "verified", "excluded"}]
    /\ manifests \subseteq 1..MaxGeneration
    /\ policy \in Marks \cup {"none", "off"}
    /\ cover \in BOOLEAN
    /\ lease \subseteq assets
    /\ urls \subseteq UploadKeys
    /\ store \subseteq Keys
    /\ bad \subseteq store \cap UploadKeys
    /\ mark \in Marks \cup {NoMark}
    /\ mark # NoMark <=> MarkKey \in store
    /\ checking \subseteq [key : UploadKeys, bad : BOOLEAN]
    /\ registering \subseteq Assets
    /\ confirming \subseteq [step : {"put", "create"}, mark : Marks \cup {"off"}]
    /\ job \in [Jobs -> JobStates \cup {NoJob}]
    /\ stops \in 0..MaxStops

-----------------------------------------------------------------------------
(* What the rows name.                                                     *)

\* _event_object_keys, with the cover or without it.
Named(withCover) ==
    {k \in UploadKeys : upload[k] # "none"}
        \cup {Manifest(g) : g \in manifests}
        \cup (IF policy \in Marks THEN {MarkKey} ELSE {})
        \cup (IF withCover /\ cover THEN {CoverKey} ELSE {})

\* Every command that lists has another object to find.
Noted(k) ==
    [j \in Jobs |-> IF job[j] = NoJob THEN NoJob ELSE [job[j] EXCEPT !.since = @ \cup ({k} \ job[j].left)]]

Included == {a \in assets : upload[Original(a)] = "verified"}

AcceptsDerivatives == event.state = "uploading"

-----------------------------------------------------------------------------
(* Wrong forms of definitions below, each a plausible slip in the code it   *)
(* stands for; no specification uses them.                                  *)

\* Forgets the previews.
ListedOriginals(mode) ==
    [mode |-> mode, left |-> Named(mode = "erase") \ {Preview(a) : a \in Assets}, since |-> {}]

\* Cancels the event and leaves its intake as it is.
CancelledOnly == [event EXCEPT !.state = "cancelled", !.quarantined = TRUE]

\* Does not read the row of an original again under its lock.
StillCountUnread(checks, rows) == {c \in checks : rows[c.key] # "none"}

\* Takes every asset for leased, whether or not the lease has expired.
EveryLease == assets

-----------------------------------------------------------------------------
(* Workstations and studio.                                                *)

RetentionInit ==
    /\ event = [state |-> "uploading", open |-> TRUE, generation |-> 1, dated |-> FALSE,
                due |-> FALSE, quarantined |-> FALSE, purged |-> FALSE, erased |-> FALSE]
    /\ assets = {}
    /\ upload = [k \in UploadKeys |-> "none"]
    /\ manifests = {}
    /\ policy = "none"
    /\ cover = TRUE
    /\ lease = {}
    /\ urls = {}
    /\ store = {CoverKey}
    /\ bad = {}
    /\ mark = NoMark
    /\ checking = {}
    /\ registering = {}
    /\ confirming = {}
    /\ job = [j \in Jobs |-> NoJob]
    /\ stops = 0

\* A first contribution also turns the preview marks off, if nothing was confirmed.
Reserve(a) ==
    /\ event.state = "uploading" /\ event.open
    /\ a \notin assets
    /\ assets' = assets \cup {a}
    /\ upload' = [upload EXCEPT ![Original(a)] = "reserved"]
    /\ policy' = IF policy = "none" THEN "off" ELSE policy
    /\ UNCHANGED <<event, manifests, cover, lease, urls, bucket, requests, job, stops>>

IssueLease(a) ==
    /\ event.open /\ event.state # "published"
    /\ upload[Original(a)] = "reserved"
    /\ lease' = lease \cup {a}
    /\ urls' = urls \cup {Original(a)}
    /\ UNCHANGED <<event, media, bucket, requests, job, stops>>

\* A preview's URL leaves no lease in its row.
IssuePreviewLease(a) ==
    /\ AcceptsDerivatives
    /\ upload[Preview(a)] = "reserved"
    /\ urls' = urls \cup {Preview(a)}
    /\ UNCHANGED <<event, media, lease, bucket, requests, job, stops>>

UrlExpires(k) ==
    /\ k \in urls
    /\ urls' = urls \ {k}
    /\ lease' = {a \in lease : Original(a) # k}
    /\ UNCHANGED <<event, media, bucket, requests, job, stops>>

\* The PUT is conditional: it creates and does not replace.
Upload(k, isBad) ==
    /\ k \in urls \ store
    /\ isBad => k[1] \in BadKinds
    /\ store' = store \cup {k}
    /\ bad' = IF isBad THEN bad \cup {k} ELSE bad
    /\ job' = Noted(k)
    /\ UNCHANGED <<event, media, lease, urls, mark, requests, stops>>

Remove(k) == store' = store \ {k} /\ bad' = bad \ {k}

\* verify_uploaded_object and verify_derivative ask the store for the object of a row that
\* is not verified, without a lock.
BeginVerify(k) ==
    /\ upload[k] = "reserved"
    /\ k \in store
    /\ checking' = checking \cup {[key |-> k, bad |-> k \in bad]}
    /\ Cardinality(checking') <= MaxChecking
    /\ UNCHANGED <<event, media, lease, urls, bucket, registering, confirming, job, stops>>

\* Which of them still count for these rows.  The row of an original is read again under
\* its lock: a verified one stays as it is, and an excluded one is RemoveExcluded's.  The
\* row of a preview is locked and not read, and the verdict written over what it now says.
StillCount(checks, rows) ==
    {c \in checks : IF c.key[1] = "original" THEN rows[c.key] = "reserved"
                                            ELSE rows[c.key] # "none"}

\* Other verifications that saw the same may still be under way.  After a mismatch the row
\* has failed, which every command takes like a reserved one, and its lease is forgotten,
\* not its URL.
CommitVerify(c) ==
    /\ upload' = [upload EXCEPT ![c.key] = IF c.bad THEN "reserved" ELSE "verified"]
    /\ IF c.bad THEN Remove(c.key) ELSE UNCHANGED <<store, bad>>
    /\ lease' = IF c.bad THEN {a \in lease : Original(a) # c.key} ELSE lease
    /\ \E others \in {checking, checking \ {c}} : checking' = StillCount(others, upload')
    /\ UNCHANGED <<event, assets, manifests, policy, cover, urls, mark, registering,
                   confirming, job, stops>>

\* The photographer gives up an upload no lease is recorded for.
ExcludeAsset(a) ==
    /\ upload[Original(a)] = "reserved"
    /\ a \notin lease
    /\ upload' = [upload EXCEPT ![Original(a)] = "excluded"]
    /\ Remove(Original(a))
    /\ checking' = StillCount(checking, upload')
    /\ UNCHANGED <<event, assets, manifests, policy, cover, lease, urls, mark, registering,
                   confirming, job, stops>>

\* A contribution without a verified original is cancelled once no lease is live, also one
\* that a publication has left out.
CancelBatch(a) ==
    /\ upload[Original(a)] \in {"reserved", "excluded"}
    /\ a \notin lease
    /\ upload' = [upload EXCEPT ![Original(a)] = "excluded"]
    /\ Remove(Original(a))
    /\ checking' = StillCount(checking, upload')
    /\ UNCHANGED <<event, assets, manifests, policy, cover, lease, urls, mark, registering,
                   confirming, job, stops>>

\* Verifying an excluded original removes its object.
RemoveExcluded(a) ==
    /\ upload[Original(a)] = "excluded"
    /\ Original(a) \in store
    /\ Remove(Original(a))
    /\ UNCHANGED <<event, media, lease, urls, mark, requests, job, stops>>

\* register_asset_derivatives reads the event without its lock, and creates the row
\* under that of the original's.
BeginRegister(a) ==
    /\ AcceptsDerivatives
    /\ policy # "none"
    /\ upload[Original(a)] = "verified"
    /\ a \notin registering
    /\ upload[Preview(a)] = "none"
    /\ registering' = registering \cup {a}
    /\ UNCHANGED <<event, media, lease, urls, bucket, checking, confirming, job, stops>>

EndRegister(a) ==
    /\ a \in registering
    /\ registering' = registering \ {a}
    /\ upload' = IF upload[Original(a)] = "verified" /\ upload[Preview(a)] = "none"
                 THEN [upload EXCEPT ![Preview(a)] = "reserved"] ELSE upload
    /\ UNCHANGED <<event, assets, manifests, policy, cover, lease, urls, bucket, checking,
                   confirming, job, stops>>

\* confirm_preview_policy checks in one transaction, stores the mark, and creates the
\* row in another.
BeginConfirm(value) ==
    /\ Cardinality(confirming) < MaxConfirming
    /\ policy = "none"
    /\ event.state = "uploading"
    /\ \A a \in Assets : upload[Preview(a)] = "none"
    /\ confirming' = confirming \cup
           {[step |-> IF value = "off" THEN "create" ELSE "put", mark |-> value]}
    /\ UNCHANGED <<event, media, lease, urls, bucket, checking, registering, job, stops>>

\* The mark's key holds one image for good: another image is refused.
SameImage(c) == mark \in {NoMark, c.mark}

PutMark(c) ==
    /\ c.step = "put"
    /\ mark' = IF mark = NoMark THEN c.mark ELSE mark
    /\ store' = store \cup {MarkKey}
    /\ job' = IF mark = NoMark THEN Noted(MarkKey) ELSE job
    /\ confirming' = (confirming \ {c}) \cup
           (IF SameImage(c) THEN {[c EXCEPT !.step = "create"]} ELSE {})
    /\ UNCHANGED <<event, media, lease, urls, bad, checking, registering, stops>>

EndConfirm(c) ==
    /\ c.step = "create"
    /\ policy' = IF policy = "none" THEN c.mark ELSE policy
    /\ job' = IF policy = "none" /\ c.mark \in Marks THEN Noted(MarkKey) ELSE job
    /\ confirming' = confirming \ {c}
    /\ UNCHANGED <<event, assets, upload, manifests, cover, lease, urls, bucket,
                   checking, registering, stops>>

\* The request's process stops.
AbandonConfirm(c) ==
    /\ confirming' = confirming \ {c}
    /\ UNCHANGED <<event, media, lease, urls, bucket, checking, registering, job, stops>>

PublicationReady ==
    /\ event.state = "uploading"
    /\ event.generation \notin manifests
    /\ Included # {}
    /\ \A a \in Included : upload[Preview(a)] = "verified"
    /\ policy # "none"

StoreManifest ==
    /\ store' = store \cup {Manifest(event.generation)}
    /\ job' = Noted(Manifest(event.generation))

\* Contributions that are not complete are excluded, and their leases forgotten; the
\* first publication sets the date of the purge.
Publish ==
    /\ PublicationReady
    /\ StoreManifest
    /\ manifests' = manifests \cup {event.generation}
    /\ event' = [event EXCEPT !.state = "published", !.open = FALSE, !.dated = TRUE]
    /\ upload' = [k \in UploadKeys |-> IF upload[k] = "reserved" THEN "excluded" ELSE upload[k]]
    /\ lease' = lease \cap Included
    /\ checking' = StillCount(checking, upload')
    /\ UNCHANGED <<assets, policy, cover, urls, bad, mark, registering, confirming, stops>>

\* The transaction rolls back after the manifest was stored.
PublishFails ==
    /\ PublicationReady
    /\ StoreManifest
    /\ UNCHANGED <<event, media, lease, urls, bad, mark, requests, stops>>

Unpublish ==
    /\ event.state = "published"
    /\ event.generation < MaxGeneration
    /\ event' = [event EXCEPT !.state = "uploading", !.open = TRUE, !.generation = @ + 1]
    /\ UNCHANGED <<media, lease, urls, bucket, requests, job, stops>>

DatePasses ==
    /\ event.dated /\ ~event.due
    /\ event' = [event EXCEPT !.due = TRUE]
    /\ UNCHANGED <<media, lease, urls, bucket, requests, job, stops>>

StudioNext ==
    \/ \E a \in Assets : \/ Reserve(a) \/ IssueLease(a) \/ IssuePreviewLease(a)
                         \/ ExcludeAsset(a) \/ CancelBatch(a) \/ RemoveExcluded(a)
                         \/ BeginRegister(a) \/ EndRegister(a)
    \/ \E k \in UploadKeys : UrlExpires(k) \/ BeginVerify(k)
    \/ \E k \in UploadKeys, isBad \in BOOLEAN : Upload(k, isBad)
    \/ \E c \in checking : CommitVerify(c)
    \/ \E value \in Marks \cup {"off"} : BeginConfirm(value)
    \/ \E c \in confirming : PutMark(c) \/ EndConfirm(c) \/ AbandonConfirm(c)
    \/ Publish \/ PublishFails \/ Unpublish
    \/ DatePasses

-----------------------------------------------------------------------------
(* The operator's commands.                                                *)

Quarantined == [event EXCEPT !.state = "cancelled", !.open = FALSE, !.quarantined = TRUE]

\* The first transaction of the first erasure; the runs after it find the event so.
Quarantine ==
    /\ ~event.quarantined
    /\ event' = Quarantined
    /\ UNCHANGED <<media, lease, urls, bucket, requests, job, stops>>

ActiveLeases == lease

ListsCover(mode) == mode = "erase"

Listed(mode) == [mode |-> mode, left |-> Named(ListsCover(mode)), since |-> {}]

\* A purge does not look at the leases.
BeginPurge(j) ==
    /\ job[j] = NoJob
    /\ event.due /\ ~event.purged
    /\ job' = [job EXCEPT ![j] = Listed("purge")]
    /\ UNCHANGED <<event, media, lease, urls, bucket, requests, stops>>

\* An erasure refuses while a recorded lease is live.
BeginErase(j) ==
    /\ job[j] = NoJob
    /\ event.quarantined /\ ~event.erased
    /\ ActiveLeases = {}
    /\ job' = [job EXCEPT ![j] = Listed("erase")]
    /\ UNCHANGED <<event, media, lease, urls, bucket, requests, stops>>

\* The object is deleted and seen to be gone.
DeleteKey(j, k) ==
    /\ job[j] # NoJob
    /\ k \in Foremost(job[j].left)
    /\ Remove(k)
    /\ mark' = IF k = MarkKey THEN NoMark ELSE mark
    /\ job' = [job EXCEPT ![j].left = @ \ {k}, ![j].since = @ \ {k}]
    /\ UNCHANGED <<event, media, lease, urls, requests, stops>>

\* _purge_database_records.  The rows of the assets stay.
DeleteRows(erased) ==
    /\ upload' = [k \in UploadKeys |-> "none"]
    /\ manifests' = {}
    /\ policy' = "none"
    /\ lease' = {}
    /\ cover' = (cover /\ ~erased)
    /\ event' = [event EXCEPT !.purged = TRUE, !.erased = @ \/ erased,
                              !.dated = @ /\ ~erased, !.due = @ /\ ~erased]
    /\ checking' = {}
    /\ UNCHANGED assets

\* Another command may have finished first.
Finish(j) ==
    /\ job[j] # NoJob
    /\ job[j].left = {}
    /\ IF IF job[j].mode = "erase" THEN event.erased ELSE event.purged
       THEN UNCHANGED <<event, media, lease, checking>>
       ELSE DeleteRows(job[j].mode = "erase")
    /\ job' = [job EXCEPT ![j] = NoJob]
    /\ UNCHANGED <<urls, bucket, registering, confirming, stops>>

\* The command fails on the store, finds an object that is there again, or crashes.
Stop(j) ==
    /\ job[j] # NoJob
    /\ stops < MaxStops
    /\ stops' = stops + 1
    /\ job' = [job EXCEPT ![j] = NoJob]
    /\ UNCHANGED <<event, media, lease, urls, bucket, requests>>

JobStep(j) == (\E k \in Keys : DeleteKey(j, k)) \/ Finish(j)

OperatorNext ==
    \/ Quarantine
    \/ \E j \in Jobs : BeginPurge(j) \/ BeginErase(j) \/ JobStep(j) \/ Stop(j)

RetentionNext == StudioNext \/ OperatorNext

\* URLs expire, and the operator, who may stop a bounded number of times,
\* runs an erasure again until it is done.
RetentionFairness ==
    /\ WF_vars(\E k \in UploadKeys : UrlExpires(k))
    /\ \A j \in Jobs : WF_vars(JobStep(j)) /\ WF_vars(BeginErase(j))

RetentionSpec == RetentionInit /\ [][RetentionNext]_vars /\ RetentionFairness

-----------------------------------------------------------------------------
(* Safety.                                                                 *)

\* Until a purge is due or an erasure is asked for, every object that a manifest or the
\* preview policy names is in the bucket, and the mark is the image that was confirmed:
\* neither a confirmation that stopped half way, nor two at once, nor a command run too
\* early takes one away.  The cover outlives the purge.  A verified original that is in the
\* bucket stays there and stays verified, whatever verifications with older HEADs commit,
\* exclusions and cancellations; a verified preview, too, but for the verdict of a HEAD that
\* found other bytes, which is written with the delete.  (A row verified by an old HEAD may
\* have no object from the beginning, after another one has removed it.)
KeptUntilDue ==
    /\ [](~event.quarantined =>
            /\ CoverKey \in store
            /\ ~event.due =>
                /\ \A g \in manifests : Manifest(g) \in store
                /\ policy \in Marks => mark = policy)
    /\ [][~event'.quarantined /\ ~event'.due =>
            \A k \in UploadKeys \cap store : upload[k] = "verified" =>
                \/ upload'[k] = "verified" /\ k \in store'
                \/ /\ k \in {Preview(a) : a \in Assets}
                   /\ [key |-> k, bad |-> TRUE] \in checking
                   /\ upload'[k] = "reserved"]_vars

\* The row that names an object is deleted only after the object, by whichever
\* of the commands and however often they stopped before, except for an object that was
\* written, or a mark that was first named, after the command had listed them: a purge
\* that stops can be run again.
RowsOutliveObjects ==
    [][\A k \in Named(TRUE) \cap store' :
          k \notin Named(TRUE)' => \E j \in Jobs : job[j] # NoJob /\ k \in job[j].since]_vars

\* What an erasure leaves behind came behind its back.  At its end no row names an object
\* and, unless a purge went before (which leaves what was uploaded after it), every photo
\* and cover still there was written after the command had listed them.  The quarantine
\* opens no way in: no URL, no registration and no confirmation begins.  So what appears
\* in an erased event comes over an upload URL given out before the quarantine, or is the
\* mark of a confirmation begun before it, and a row that names it again likewise.
OnlyLatecomersStay ==
    [][/\ event.quarantined =>
            /\ urls' \subseteq urls /\ registering' \subseteq registering
            /\ \A c \in confirming' :
                  \E d \in confirming : c = d \/ c = [d EXCEPT !.step = "create"]
       /\ event'.erased /\ ~event.erased =>
            /\ Named(TRUE)' = {}
            /\ \/ event.purged
               \/ \E j \in Jobs :
                     /\ job[j] # NoJob
                     /\ store' \cap (UploadKeys \cup {CoverKey}) \subseteq job[j].since
       /\ event.erased =>
            /\ \A k \in store' \ store :
                  k \in urls \/ (k = MarkKey /\ \E c \in confirming : c.step = "put")
            /\ \A k \in Named(TRUE)' \ Named(TRUE) :
                  k = MarkKey /\ \E c \in confirming : c.step = "create"]_vars

-----------------------------------------------------------------------------
(* Liveness.                                                               *)

\* An erasure ends: no workstation can renew its leases for ever.
QuarantineEnds == event.quarantined ~> event.erased

-----------------------------------------------------------------------------
(* Statements the code does not keep.                                      *)

\* Before anything is due, what is verified is in the bucket: an old HEAD may remove it
\* between the HEAD and the commit of the verification that finds it.
VerifiedHasItsObject ==
    ~event.quarantined /\ ~event.due =>
        \A k \in UploadKeys : upload[k] = "verified" => k \in store

\* An erased event has no objects and no rows that name one.
ErasedIsEmpty ==
    event.erased => store \cap (UploadKeys \cup {CoverKey, MarkKey}) = {} /\ Named(TRUE) = {}

=============================================================================
