----------------------------- MODULE Ingestion -----------------------------
(***************************************************************************)
(* One event taking in photographs: workstations reserve contributions,    *)
(* upload originals and derivatives straight to the object store under     *)
(* presigned URLs, and have the server verify them, while the photographer *)
(* cancels, excludes, archives, publishes and unpublishes.                 *)
(*                                                                         *)
(* The database is what a locked transaction sees and is changed by one    *)
(* action per transaction.  The object store is outside it: a PUT lands    *)
(* whenever its URL is live, a HEAD is taken before the transaction that   *)
(* acts on it (a Request keeps it), and a delete is not undone when the    *)
(* transaction around it rolls back.                                       *)
(*                                                                         *)
(* EventLifecycle holds the event row; every action that changes it is a   *)
(* conjunct of an action here.  One asset weighs one unit in the ledger:   *)
(* the code moves the byte and the count columns in the same statements.   *)
(***************************************************************************)
EXTENDS EventLifecycle

CONSTANTS
    Assets, Batches, SubEvents, Installations,
    Derivatives,        \* the derivative variants (preview and thumbnail)
    BatchOf,            \* the contribution each asset is declared in
    InstallationOf,     \* the workstation each contribution comes from
    AssetLimit,         \* EVENT_ORIGINAL_ASSET_LIMIT and storage_limit_bytes
    DeviceLimit,        \* Event.max_contribution_devices
    Requests,           \* verify requests the server handles at a time
    BadPuts,            \* TRUE: the store may accept bytes other than the signed ones
    CleanupFails,       \* TRUE: a cleanup may delete and then roll its rows back
    AdminMoves          \* TRUE adds the administrator's state changes

\* The sub-event of a contribution not reserved yet.
NoSection == "none"

ASSUME IngestionConstants ==
    /\ IsFiniteSet(Assets)
    /\ IsFiniteSet(Derivatives)
    /\ "original" \notin Derivatives
    /\ NoSection \notin SubEvents
    /\ BatchOf \in [Assets -> Batches]
    /\ InstallationOf \in [Batches -> Installations]
    /\ AssetLimit \in Nat
    /\ DeviceLimit \in Nat
    /\ BadPuts \in BOOLEAN
    /\ CleanupFails \in BOOLEAN
    /\ AdminMoves \in BOOLEAN

Variants == {"original"} \cup Derivatives
Objects == Assets \X Variants
Original(a) == <<a, "original">>
AssetsOf(b) == {a \in Assets : BatchOf[a] = b}
ObjectsOf(b) == AssetsOf(b) \X Variants
Idle == [head |-> "none"]

VARIABLES
    reserved,       \* Event.reserved_original_count
    verified,       \* Event.verified_original_count
    batch,          \* ContributionBatch.state; "none" before it is reserved
    section,        \* ContributionBatch.sub_event
    station,        \* EventInstallation.status; "new" before registration
    archived,       \* the sub-events with is_archived
    object,         \* AssetObject.state; "absent" before the row exists
    lease,          \* AssetObject.lease_expires_at is in the future
    url,            \* a presigned PUT for the object can still be used
    store,          \* what the bucket holds under the object's key
    face,           \* FaceAnalysis.state; "pending" also while there is no row
                    \* and after a failure with attempts left, "worn" when a
                    \* failed or conflicting analysis has used its five
    derivFailed,    \* assets with a derivative_failure_code
    derivWorn,      \* assets with five reported derivative failures
    hidden,         \* assets with gallery_excluded_at
    snapshot,       \* the originals each generation's manifest lists as verified
    stray,          \* a manifest object in the bucket without a manifest row
    request,        \* verify calls between their HEAD and their transaction
    refreshes       \* readiness refreshes still due after a committed change

ledgerVars  == <<reserved, verified>>
batchVars   == <<batch, section, station, archived>>
objectVars  == <<object, lease, url, store>>
galleryVars == <<face, derivFailed, derivWorn, hidden, snapshot>>
callVars    == <<request, refreshes>>

vars == <<lifecycleVars, ledgerVars, batchVars, objectVars, galleryVars, stray, callVars>>

-----------------------------------------------------------------------------
(* Wrong forms of definitions below, each a plausible slip in the code it   *)
(* stands for.  No specification uses them: a run is repeated with one of    *)
(* them in place of the right form to show that its property can fail.       *)

\* Checks the allowance before adding the contribution.
FitsAllowanceBefore(b) == reserved <= AssetLimit

\* Leases whatever is not verified, an excluded original too.
LeasableUnlessVerified(a) == object[<<a, "original">>] # "verified"

\* Excludes and cancels without waiting for the lease.
LeaseIgnored(o) == TRUE

\* Commits a verification without reading the row again.
AssumedPending(o) == TRUE

\* Finalises while originals are pending.
TerminalAssumed == TRUE

\* Forgets that a published event takes no processing.
OpenUnlessClosed == state \notin {"archived", "cancelled"}

\* Gives back what an exclusion has given back already.
ReleasableTwice(b) == {o \in ObjectsOf(b) : object[o] # "absent"}

\* Cancels over verified originals.
MayCancelVerified(b) ==
    /\ batch[b] \notin {"none", "cancelled"}
    /\ \A o \in ObjectsOf(b) : ~lease[o]

\* Completes a contribution only when all of it is verified.
CompleteIfVerified(b) ==
    batch' = IF batch[b] = "reserved"
                /\ \A a \in AssetsOf(b) : object'[<<a, "original">>] = "verified"
             THEN [batch EXCEPT ![b] = "complete"]
             ELSE batch

\* Leaves out only the contributions that have nothing verified yet.
UnfinishedUntouched ==
    {b \in Batches : batch[b] = "reserved"
                     /\ \A a \in AssetsOf(b) : object[<<a, "original">>] # "verified"}

\* Snapshots verified photos of unfinished contributions.
CompletedInAnyBatch ==
    {a \in Assets : /\ object[<<a, "original">>] = "verified"
                    /\ section[BatchOf[a]] \notin archived}

\* Publishes before every included photo is analysed.
ReadyWithoutFaces ==
    \E a \in Assets : /\ object[<<a, "original">>] = "verified"
                      /\ \A v \in Derivatives : object[<<a, v>>] = "verified"

-----------------------------------------------------------------------------
(* What the queries of the services select.                                *)

Terminal == {"verified", "excluded"}

\* An original that counts against the event's allowance.
Charged == {a \in Assets : object[Original(a)] \in {"reserved", "failed", "verified"}}
Kept == {a \in Assets : object[Original(a)] = "verified"}

BatchIsTerminal(b) == \A a \in AssetsOf(b) : object[Original(a)] \in Terminal

Active(a) == section[BatchOf[a]] \notin archived

\* Assets in the gallery once their derivatives are verified.
Visible == {a \in Kept : Active(a) /\ a \notin hidden}

DerivativesVerified(a) == \A v \in Derivatives : object[<<a, v>>] = "verified"

\* available_gallery_assets: what a visitor of a published event is shown.
Gallery == {a \in Visible : DerivativesVerified(a)}

\* Completed work in active sub-events: what a publication snapshots, and the
\* part of it that must be processed first.
Completed == {a \in Kept : batch[BatchOf[a]] = "complete" /\ Active(a)}
Included == Completed \ hidden

Unfinished == {b \in Batches : batch[b] = "reserved"}
UnfinishedAssets == {a \in Assets : BatchOf[a] \in Unfinished}

\* _owned_batch and asset_for_processing_session: the session's own active
\* workstation reserved the contribution and its sub-event is not archived.
Owned(a) ==
    /\ batch[BatchOf[a]] # "none"
    /\ station[InstallationOf[BatchOf[a]]] = "active"
    /\ Active(a)

Analysed == {a \in Assets : face[a] = "done"}

\* exclude_from_gallery: processing the photo has failed, and for the last time.
ProcessingExhausted(a) ==
    \/ /\ a \in derivWorn
       /\ a \in derivFailed \/ \E v \in Derivatives : object[<<a, v>>] = "failed"
    \/ face[a] = "worn"

ProcessingOpen == state \notin {"published", "archived", "cancelled"}

GalleryEditable == state \in {"uploading", "processing", "review"}

FitsAllowance(b) == reserved + Cardinality(AssetsOf(b)) <= AssetLimit

\* An upload URL is still needed for the original.
Leasable(a) == object[Original(a)] \in {"reserved", "failed"}

LeaseOver(o) == ~lease[o]

\* The row, read again under its lock, still waits for a verification.
StillPending(o) == object[o] \notin Terminal

OriginalsTerminal == Charged = Kept

\* The originals a publication gives up with the unfinished contributions.
LeftOut == {o \in UnfinishedAssets \X {"original"} : object[o] \notin {"absent", "excluded"}}

ActiveSubEventExists == \E s \in SubEvents : s \notin archived

\* A CHECK of the event table, and the counters are unsigned columns.
LedgerCheck == 0 <= verified' /\ verified' <= reserved'

\* Saving the event row moves updated_at, which the manifest document quotes:
\* a stray manifest object no longer equals the document a retry would build.
EventSaved == stray' = IF stray = "fresh" THEN "stale" ELSE stray

-----------------------------------------------------------------------------
IngestionInit ==
    /\ reserved = 0
    /\ verified = 0
    /\ batch = [b \in Batches |-> "none"]
    /\ section = [b \in Batches |-> NoSection]
    /\ station = [i \in Installations |-> "new"]
    /\ archived = {}
    /\ object = [o \in Objects |-> "absent"]
    /\ lease = [o \in Objects |-> FALSE]
    /\ url = [o \in Objects |-> FALSE]
    /\ store = [o \in Objects |-> "none"]
    /\ face = [a \in Assets |-> "pending"]
    /\ derivFailed = {}
    /\ derivWorn = {}
    /\ hidden = {}
    /\ snapshot = [g \in Generations |-> {}]
    /\ stray = "none"
    /\ request = [r \in Requests |-> Idle]
    /\ refreshes = {}

Init == LifecycleInit /\ IngestionInit

-----------------------------------------------------------------------------
(* Reservation and leases.                                                 *)

\* register_event_installation, called at the start of every reservation.
RegisterInstallation(i) ==
    /\ \/ station[i] = "active"
       \/ /\ station[i] = "new"
          /\ Cardinality({j \in Installations : station[j] = "active"}) < DeviceLimit
    /\ station' = [station EXCEPT ![i] = "active"]

Reserve(b, s) ==
    /\ batch[b] = "none"
    /\ AssetsOf(b) # {}
    /\ s \notin archived
    /\ FitsAllowance(b)
    /\ Contribute
    /\ RegisterInstallation(InstallationOf[b])
    /\ batch' = [batch EXCEPT ![b] = "reserved"]
    /\ section' = [section EXCEPT ![b] = s]
    /\ object' = [o \in Objects |-> IF o \in AssetsOf(b) \X {"original"}
                                     THEN "reserved" ELSE object[o]]
    /\ reserved' = reserved + Cardinality(AssetsOf(b))
    /\ EventSaved
    /\ UNCHANGED <<verified, archived, lease, url, store, galleryVars, callVars>>

IssueLease(a) ==
    /\ intake = "open"
    /\ state # "published"
    /\ Owned(a)
    /\ batch[BatchOf[a]] = "reserved"
    /\ Leasable(a)
    /\ object' = [object EXCEPT ![Original(a)] = "reserved"]
    /\ lease' = [lease EXCEPT ![Original(a)] = TRUE]
    /\ url' = [url EXCEPT ![Original(a)] = TRUE]
    /\ UNCHANGED <<lifecycleVars, ledgerVars, batchVars, store, galleryVars, stray, callVars>>

\* A derivative lease leaves no trace in the database.
IssueDerivativeLease(a, v) ==
    /\ ProcessingOpen
    /\ Owned(a)
    /\ object[<<a, v>>] \in {"reserved", "failed"}
    /\ url' = [url EXCEPT ![<<a, v>>] = TRUE]
    /\ UNCHANGED <<lifecycleVars, ledgerVars, batchVars, object, lease, store,
                   galleryVars, stray, callVars>>

\* The lease time passes, in the database and in the signature alike.
LeaseExpires(o) ==
    /\ url[o]
    /\ lease' = [lease EXCEPT ![o] = FALSE]
    /\ url' = [url EXCEPT ![o] = FALSE]
    /\ UNCHANGED <<lifecycleVars, ledgerVars, batchVars, object, store, galleryVars,
                   stray, callVars>>

\* A PUT signed with If-None-Match: * creates the object or fails.
Upload(o) ==
    /\ url[o]
    /\ store[o] = "none"
    /\ \E content \in {"good"} \cup (IF BadPuts THEN {"bad"} ELSE {}) :
          store' = [store EXCEPT ![o] = content]
    /\ UNCHANGED <<lifecycleVars, ledgerVars, batchVars, object, lease, url,
                   galleryVars, stray, callVars>>

-----------------------------------------------------------------------------
(* Verification of originals.                                              *)

\* The last original to become terminal completes a reserved contribution.
CompleteIfTerminal(b) ==
    batch' = IF batch[b] = "reserved"
                /\ \A a \in AssetsOf(b) : object'[Original(a)] \in Terminal
             THEN [batch EXCEPT ![b] = "complete"]
             ELSE batch

\* The unlocked part of verify_uploaded_object: the row is neither verified
\* nor excluded and the HEAD finds an object.
BeginVerify(r, a) ==
    /\ request[r] = Idle
    /\ batch[BatchOf[a]] # "none"
    /\ Active(a)
    /\ object[Original(a)] \notin Terminal
    /\ store[Original(a)] # "none"
    /\ request' = [request EXCEPT ![r] = [object |-> Original(a), head |-> store[Original(a)]]]
    /\ UNCHANGED <<lifecycleVars, ledgerVars, batchVars, objectVars, galleryVars,
                   stray, refreshes>>

\* Verifying an excluded original deletes what was uploaded for it.
VerifyExcluded(a) ==
    /\ Active(a)
    /\ object[Original(a)] = "excluded"
    /\ store[Original(a)] # "none"
    /\ store' = [store EXCEPT ![Original(a)] = "none"]
    /\ UNCHANGED <<lifecycleVars, ledgerVars, batchVars, object, lease, url,
                   galleryVars, stray, callVars>>

\* The locked part, given the HEAD the request holds.  The row is read again.
CommitVerify(r) ==
    LET o == request[r].object
        b == BatchOf[o[1]]
    IN /\ request[r] # Idle
       /\ o[2] = "original"
       /\ request[r].head # "register"
       /\ request' = [request EXCEPT ![r] = Idle]
       /\ \/ /\ object[o] = "verified"
             /\ UNCHANGED <<ledgerVars, batch, object, lease, store, stray>>
          \/ /\ object[o] = "excluded"
             /\ store' = [store EXCEPT ![o] = "none"]
             /\ UNCHANGED <<ledgerVars, batch, object, lease, stray>>
          \/ /\ StillPending(o)
             /\ request[r].head = "bad"
             /\ store' = [store EXCEPT ![o] = "none"]
             /\ object' = [object EXCEPT ![o] = "failed"]
             /\ lease' = [lease EXCEPT ![o] = FALSE]
             /\ UNCHANGED <<ledgerVars, batch, stray>>
          \/ /\ StillPending(o)
             /\ request[r].head = "good"
             /\ object' = [object EXCEPT ![o] = "verified"]
             /\ verified' = verified + 1
             /\ UNCHANGED reserved
             /\ LedgerCheck
             /\ CompleteIfTerminal(b)
             /\ EventSaved
             /\ UNCHANGED <<lease, store>>
       /\ UNCHANGED <<lifecycleVars, section, station, archived, url, galleryVars, refreshes>>

\* A crash, or a store that cannot be reached, ends the call without a commit.
AbortVerify(r) ==
    /\ request[r] # Idle
    /\ request' = [request EXCEPT ![r] = Idle]
    /\ UNCHANGED <<lifecycleVars, ledgerVars, batchVars, objectVars, galleryVars,
                   stray, refreshes>>

-----------------------------------------------------------------------------
(* The photographer resolves what will not be uploaded.                    *)

ExcludeAsset(a) ==
    LET b == BatchOf[a]
        o == Original(a)
    IN /\ object[o] \in {"reserved", "failed"}
       /\ LeaseOver(o)
       /\ store' = [store EXCEPT ![o] = "none"]
       /\ object' = [object EXCEPT ![o] = "excluded"]
       /\ reserved' = reserved - 1
       /\ UNCHANGED verified
       /\ LedgerCheck
       /\ CompleteIfTerminal(b)
       /\ EventSaved
       /\ UNCHANGED <<lifecycleVars, section, station, archived, lease, url,
                      galleryVars, callVars>>

MayCancel(b) ==
    /\ batch[b] \notin {"none", "cancelled"}
    /\ \A o \in ObjectsOf(b) : object[o] # "verified" /\ LeaseOver(o)

\* What cancelling gives back counts every object of the contribution that is
\* not excluded, whatever its variant.
Releasable(b) == {o \in ObjectsOf(b) : object[o] \notin {"absent", "excluded"}}

CancelBatch(b) ==
    /\ MayCancel(b)
    /\ store' = [o \in Objects |-> IF o \in ObjectsOf(b) THEN "none" ELSE store[o]]
    /\ object' = [o \in Objects |-> IF o \in Releasable(b) THEN "excluded" ELSE object[o]]
    /\ batch' = [batch EXCEPT ![b] = "cancelled"]
    /\ reserved' = reserved - Cardinality(Releasable(b))
    /\ UNCHANGED verified
    /\ LedgerCheck
    /\ EventSaved
    /\ UNCHANGED <<lifecycleVars, section, station, archived, lease, url,
                   galleryVars, callVars>>

\* Excluding and cancelling delete from the store inside their transactions;
\* when a later step fails the rows are rolled back and the object is gone.
CleanupRollsBack(o) ==
    /\ CleanupFails
    /\ \/ o[2] = "original" /\ object[o] \in {"reserved", "failed"} /\ LeaseOver(o)
       \/ MayCancel(BatchOf[o[1]]) /\ object[o] # "absent"
    /\ store[o] # "none"
    /\ store' = [store EXCEPT ![o] = "none"]
    /\ UNCHANGED <<lifecycleVars, ledgerVars, batchVars, object, lease, url,
                   galleryVars, stray, callVars>>

RevokeInstallation(i) ==
    /\ station[i] = "active"
    /\ station' = [station EXCEPT ![i] = "revoked"]
    /\ UNCHANGED <<lifecycleVars, ledgerVars, batch, section, archived, objectVars,
                   galleryVars, stray, callVars>>

-----------------------------------------------------------------------------
(* Derivatives, face analysis and readiness.                               *)

\* register_asset_derivatives reads the event without its lock ...
BeginRegister(r, a) ==
    /\ Derivatives # {}
    /\ request[r] = Idle
    /\ ProcessingOpen
    /\ batch[BatchOf[a]] # "none"
    /\ request' = [request EXCEPT ![r] = [object |-> Original(a), head |-> "register"]]
    /\ UNCHANGED <<lifecycleVars, ledgerVars, batchVars, objectVars, galleryVars,
                   stray, refreshes>>

\* ... and reserves the derivative rows under the locks of the asset and of
\* its original, so that it can commit after a publication it did not see.
CommitRegister(r) ==
    LET a == request[r].object[1]
    IN /\ request[r] # Idle
       /\ request[r].head = "register"
       /\ Owned(a)
       /\ object[Original(a)] = "verified"
       /\ request' = [request EXCEPT ![r] = Idle]
       /\ object' = [o \in Objects |-> IF o[1] = a /\ object[o] = "absent"
                                        THEN "reserved" ELSE object[o]]
       /\ derivFailed' = derivFailed \ {a}
       /\ UNCHANGED <<lifecycleVars, ledgerVars, batchVars, lease, url, store, face,
                      derivWorn, hidden, snapshot, stray, refreshes>>

\* The unlocked part of verify_derivative, which looks for nothing but a
\* derivative row that is not verified.
BeginVerifyDerivative(r, a, v) ==
    /\ request[r] = Idle
    /\ Owned(a)
    /\ object[<<a, v>>] \notin {"absent", "verified"}
    /\ store[<<a, v>>] # "none"
    /\ request' = [request EXCEPT ![r] = [object |-> <<a, v>>, head |-> store[<<a, v>>]]]
    /\ UNCHANGED <<lifecycleVars, ledgerVars, batchVars, objectVars, galleryVars,
                   stray, refreshes>>

\* The locked part writes what the HEAD said over whatever the row now says.
CommitVerifyDerivative(r) ==
    LET o == request[r].object
    IN /\ request[r] # Idle
       /\ o[2] # "original"
       /\ request' = [request EXCEPT ![r] = Idle]
       /\ \/ /\ request[r].head = "bad"
             /\ store' = [store EXCEPT ![o] = "none"]
             /\ object' = [object EXCEPT ![o] = "failed"]
             /\ UNCHANGED refreshes
          \/ /\ request[r].head = "good"
             /\ object' = [object EXCEPT ![o] = "verified"]
             /\ refreshes' = refreshes \cup {"derivatives"}
             /\ UNCHANGED store
       /\ UNCHANGED <<lifecycleVars, ledgerVars, batchVars, lease, url, galleryVars, stray>>

\* A terminal analysis of the current model is stored, or the document already
\* stored is acknowledged, and the readiness of the index is refreshed.
SubmitAnalysis(a) ==
    /\ ProcessingOpen
    /\ Owned(a)
    /\ object[Original(a)] = "verified"
    /\ face[a] \in {"pending", "done"}
    /\ face' = [face EXCEPT ![a] = "done"]
    /\ IF face[a] = "done" THEN UNCHANGED <<lifecycleVars, stray>>
                           ELSE RefreshFaces(FALSE) /\ EventSaved
    /\ refreshes' = refreshes \cup {"faces"}
    /\ UNCHANGED <<ledgerVars, batchVars, objectVars, derivFailed, derivWorn, hidden,
                   snapshot, request>>

\* A document other than the stored one: the analysis is in conflict, perhaps
\* with its attempts used up.
SubmitConflicting(a) ==
    /\ ProcessingOpen
    /\ Owned(a)
    /\ face[a] = "done"
    /\ face' \in {[face EXCEPT ![a] = outcome] : outcome \in {"conflict", "worn"}}
    /\ RefreshFaces(FALSE)
    /\ EventSaved
    /\ UNCHANGED <<ledgerVars, batchVars, objectVars, derivFailed, derivWorn, hidden,
                   snapshot, callVars>>

\* report_face_analysis_failure: the fifth failure is the last one taken.
ReportFaceFailure(a) ==
    /\ ProcessingOpen
    /\ Owned(a)
    /\ object[Original(a)] = "verified"
    /\ face[a] = "pending"
    /\ face' \in {face, [face EXCEPT ![a] = "worn"]}
    /\ RefreshFaces(FALSE)
    /\ EventSaved
    /\ UNCHANGED <<ledgerVars, batchVars, objectVars, derivFailed, derivWorn, hidden,
                   snapshot, callVars>>

\* reset_face_analysis, whatever the analysis says; by the photographer.
ResetAnalysis(a) ==
    /\ ProcessingOpen
    /\ batch[BatchOf[a]] # "none"
    /\ face' = [face EXCEPT ![a] = "pending"]
    /\ RefreshFaces(FALSE)
    /\ EventSaved
    /\ UNCHANGED <<ledgerVars, batchVars, objectVars, derivFailed, derivWorn, hidden,
                   snapshot, callVars>>

\* The fifth report_derivative_failure of an asset or a later one; the count
\* stays, the code is cleared when the derivatives are registered again.
ReportDerivativeFailure(a) ==
    /\ Owned(a)
    /\ derivFailed' = derivFailed \cup {a}
    /\ derivWorn' = derivWorn \cup {a}
    /\ UNCHANGED <<lifecycleVars, ledgerVars, batchVars, objectVars, face, hidden,
                   snapshot, stray, callVars>>

DerivativesReady == Visible # {} /\ \A a \in Visible : DerivativesVerified(a)

FacesReady == Visible # {} /\ Visible \subseteq Analysed

\* The refresh of the derivative mark, in a transaction of its own.  With no
\* visible photo at all the state stays as it is.
RefreshDerivativeReadiness ==
    /\ "derivatives" \in refreshes
    /\ refreshes' = refreshes \ {"derivatives"}
    /\ IF CurrentIsCommitted
       THEN /\ RefreshDerivatives(DerivativesReady)
            /\ state' = IF Visible = {} THEN state
                        ELSE StateForReadiness(state, DerivativesReady)
       ELSE UNCHANGED lifecycleVars
    /\ UNCHANGED <<ledgerVars, batchVars, objectVars, galleryVars, stray, request>>

RefreshFaceReadiness ==
    /\ "faces" \in refreshes
    /\ refreshes' = refreshes \ {"faces"}
    /\ RefreshFaces(CurrentIsCommitted /\ FacesReady)
    /\ UNCHANGED <<ledgerVars, batchVars, objectVars, galleryVars, stray, request>>

\* The process stops after a commit and before the refresh it owes.
RefreshIsLost ==
    /\ \E due \in refreshes : refreshes' = refreshes \ {due}
    /\ UNCHANGED <<lifecycleVars, ledgerVars, batchVars, objectVars, galleryVars,
                   stray, request>>

-----------------------------------------------------------------------------
(* Sub-events and gallery exclusions.                                      *)

SetSubEventArchived(s) ==
    /\ archived' = IF s \in archived THEN archived \ {s} ELSE archived \cup {s}
    /\ ForgetReadiness
    /\ state' = state
    /\ EventSaved
    /\ refreshes' = {"derivatives", "faces"}
    /\ UNCHANGED <<ledgerVars, batch, section, station, objectVars, galleryVars, request>>

\* Moving a contribution leaves the readiness marks alone, and does not save
\* the event row; the sub-event's name is part of the manifest document.
Reassign(b, s) ==
    /\ ProcessingOpen
    /\ batch[b] # "none"
    /\ s \in SubEvents \ archived
    /\ section[b] # s
    /\ section' = [section EXCEPT ![b] = s]
    /\ EventSaved
    /\ UNCHANGED <<lifecycleVars, ledgerVars, batch, station, archived, objectVars,
                   galleryVars, callVars>>

HideAsset(a) ==
    /\ GalleryEditable
    /\ batch[BatchOf[a]] # "none"
    /\ a \notin hidden
    /\ ProcessingExhausted(a)
    /\ hidden' = hidden \cup {a}
    /\ ForgetReadiness
    /\ state' = state
    /\ EventSaved
    /\ refreshes' = {"derivatives", "faces"}
    /\ UNCHANGED <<ledgerVars, batchVars, objectVars, face, derivFailed, derivWorn,
                   snapshot, request>>

RestoreAsset(a) ==
    /\ GalleryEditable
    /\ a \in hidden
    /\ hidden' = hidden \ {a}
    /\ ForgetReadiness
    /\ state' = StateForReadiness(state, FALSE)
    /\ EventSaved
    /\ refreshes' = {"derivatives", "faces"}
    /\ UNCHANGED <<ledgerVars, batchVars, objectVars, face, derivFailed, derivWorn,
                   snapshot, request>>

-----------------------------------------------------------------------------
(* Publication, generations and finalisation.                              *)

\* publication_status: every included photo is processed.
PublicationReady ==
    /\ Included # {}
    /\ \A a \in Included : DerivativesVerified(a)
    /\ Included \subseteq Analysed
    /\ ActiveSubEventExists

\* commit_publication_snapshot: the contributions still reserved are left out,
\* their rows excluded and their allowance given back, and the manifest object
\* is written before the transaction commits.  Nothing is deleted from the
\* store, and the URLs already issued stay usable.
PublishSnapshot ==
    /\ Publish
    /\ PublicationReady
    /\ stray # "stale"
    /\ reserved' = reserved - Cardinality(LeftOut)
    /\ verified' = verified - Cardinality({o \in LeftOut : object[o] = "verified"})
    /\ LedgerCheck
    /\ object' = [o \in Objects |-> IF o[1] \in UnfinishedAssets /\ object[o] # "absent"
                                     THEN "excluded" ELSE object[o]]
    /\ lease' = [o \in Objects |-> lease[o] /\ o[1] \notin UnfinishedAssets]
    /\ batch' = [b \in Batches |-> IF b \in Unfinished THEN "not_included" ELSE batch[b]]
    /\ face' = [a \in Assets |-> IF a \in UnfinishedAssets THEN "pending" ELSE face[a]]
    /\ snapshot' = [snapshot EXCEPT ![generation] = Completed]
    /\ stray' = "none"
    /\ UNCHANGED <<section, station, archived, url, store, derivFailed, derivWorn, hidden,
                   callVars>>

\* The PUT of the manifest took effect and the transaction did not commit: the
\* process stopped, or the store's answer was lost.  A first publication has
\* saved its slug and dates in the same transaction, so its document carries
\* an updated_at that is rolled back too.
PublishRollsBack ==
    /\ CanPublish(state)
    /\ manifest[generation] = "none"
    /\ PublicationReady
    /\ stray = "none"
    /\ stray' = IF everPublished THEN "fresh" ELSE "stale"
    /\ UNCHANGED <<lifecycleVars, ledgerVars, batchVars, objectVars, galleryVars, callVars>>

UnpublishEvent ==
    /\ Unpublish
    /\ stray' = "none"
    /\ UNCHANGED <<ledgerVars, batchVars, objectVars, galleryVars, callVars>>

ReopenEvent ==
    /\ ReopenIntake
    /\ stray' = "none"
    /\ UNCHANGED <<ledgerVars, batchVars, objectVars, galleryVars, callVars>>

CloseEventIntake ==
    /\ CloseIntake
    /\ EventSaved
    /\ UNCHANGED <<ledgerVars, batchVars, objectVars, galleryVars, callVars>>

\* finalize_ingestion's first transaction: every original is terminal and one
\* is verified; the manifest row, made once, lists all of the event.
PrepareEventManifest ==
    /\ PrepareManifest
    /\ OriginalsTerminal
    /\ Kept # {}
    /\ snapshot' = IF manifest[generation] = "none"
                   THEN [snapshot EXCEPT ![generation] = Kept] ELSE snapshot
    /\ UNCHANGED <<ledgerVars, batchVars, objectVars, face, derivFailed, derivWorn,
                   hidden, stray, callVars>>

\* A stray object under the manifest's key refuses the PUT unless its bytes are
\* the same.
CommitEventManifest(g) ==
    /\ CommitManifest(g)
    /\ \/ stray = "none"
       \/ stray = "fresh" /\ snapshot[g] = Completed
    /\ stray' = "none"
    /\ refreshes' = {"derivatives", "faces"}
    /\ UNCHANGED <<ledgerVars, batchVars, objectVars, galleryVars, request>>

\* Finalising what is final already only asks for the refreshes again.
FinalizeAgain ==
    /\ InternalControls
    /\ state = "processing"
    /\ intake = "closed"
    /\ current = generation
    /\ refreshes' = {"derivatives", "faces"}
    /\ UNCHANGED <<lifecycleVars, ledgerVars, batchVars, objectVars, galleryVars,
                   stray, request>>

AbandonEventFinalize(g) ==
    /\ AbandonFinalize(g)
    /\ UNCHANGED <<ledgerVars, batchVars, objectVars, galleryVars, stray, callVars>>

MoveEvent(target) ==
    /\ AdminMoves
    /\ ManualTransition(target)
    /\ target = "published" => ActiveSubEventExists
    /\ EventSaved
    /\ UNCHANGED <<ledgerVars, batchVars, objectVars, galleryVars, callVars>>

-----------------------------------------------------------------------------
ContributionNext ==
    \/ \E b \in Batches, s \in SubEvents : Reserve(b, s)
    \/ \E a \in Assets : IssueLease(a) \/ ExcludeAsset(a) \/ VerifyExcluded(a)
    \/ \E a \in Assets, v \in Derivatives : IssueDerivativeLease(a, v)
    \/ \E o \in Objects : LeaseExpires(o) \/ Upload(o) \/ CleanupRollsBack(o)
    \/ \E b \in Batches : CancelBatch(b)
    \/ \E i \in Installations : RevokeInstallation(i)

RequestNext ==
    \E r \in Requests :
        \/ \E a \in Assets : BeginVerify(r, a) \/ BeginRegister(r, a)
        \/ \E a \in Assets, v \in Derivatives : BeginVerifyDerivative(r, a, v)
        \/ CommitVerify(r)
        \/ CommitRegister(r)
        \/ CommitVerifyDerivative(r)
        \/ AbortVerify(r)

ProcessingNext ==
    \/ \E a \in Assets : \/ SubmitAnalysis(a)
                         \/ SubmitConflicting(a)
                         \/ ReportFaceFailure(a)
                         \/ ResetAnalysis(a)
                         \/ ReportDerivativeFailure(a)
                         \/ HideAsset(a)
                         \/ RestoreAsset(a)
    \/ RefreshDerivativeReadiness
    \/ RefreshFaceReadiness
    \/ RefreshIsLost

StructureNext ==
    \/ \E s \in SubEvents : SetSubEventArchived(s)
    \/ \E b \in Batches, s \in SubEvents : Reassign(b, s)

PublicationNext ==
    \/ PublishSnapshot
    \/ PublishRollsBack
    \/ UnpublishEvent
    \/ ReopenEvent
    \/ CloseEventIntake
    \/ PrepareEventManifest
    \/ FinalizeAgain
    \/ \E g \in Generations : CommitEventManifest(g) \/ AbandonEventFinalize(g)
    \/ \E target \in EventStates : MoveEvent(target)

Next ==
    \/ ContributionNext
    \/ RequestNext
    \/ ProcessingNext
    \/ StructureNext
    \/ PublicationNext

Spec == Init /\ [][Next]_vars

-----------------------------------------------------------------------------
(* Type correctness.                                                       *)

VerifyRequests == [object : Objects, head : {"good", "bad", "register"}]

ContributionTypeOK ==
    /\ batch \in [Batches -> {"none", "reserved", "complete", "not_included", "cancelled"}]
    /\ section \in [Batches -> SubEvents \cup {NoSection}]
    /\ station \in [Installations -> {"new", "active", "revoked"}]
    /\ archived \subseteq SubEvents

ObjectTypeOK ==
    /\ object \in [Objects -> {"absent", "reserved", "failed", "verified", "excluded"}]
    /\ lease \in [Objects -> BOOLEAN]
    /\ url \in [Objects -> BOOLEAN]
    /\ store \in [Objects -> {"none", "good", "bad"}]

GalleryTypeOK ==
    /\ face \in [Assets -> {"pending", "done", "conflict", "worn"}]
    /\ derivFailed \subseteq Assets
    /\ derivWorn \subseteq Assets
    /\ hidden \subseteq Assets
    /\ snapshot \in [Generations -> SUBSET Assets]
    /\ stray \in {"none", "fresh", "stale"}

CallTypeOK ==
    /\ request \in [Requests -> VerifyRequests \cup {Idle}]
    /\ refreshes \subseteq {"derivatives", "faces"}

TypeOK ==
    /\ LifecycleTypeOK
    /\ reserved \in 0..AssetLimit
    /\ verified \in 0..AssetLimit
    /\ ContributionTypeOK
    /\ ObjectTypeOK
    /\ GalleryTypeOK
    /\ CallTypeOK

-----------------------------------------------------------------------------
(* Safety.                                                                 *)

\* The counters of the event row are what the object rows add up to.  Every
\* command moves the two by hand, in different orders and from different
\* queries; nothing in the database compares them.
LedgerIsExact ==
    /\ reserved = Cardinality(Charged)
    /\ verified = Cardinality(Kept)

\* A contribution is reserved exactly as long as one of its originals can
\* still be verified or excluded: none is stuck with nothing left to do, and
\* none is complete, cancelled or left out with an original pending.
BatchFollowsItsOriginals ==
    \A b \in Batches :
        /\ batch[b] = "reserved" => ~BatchIsTerminal(b)
        /\ batch[b] = "complete" => BatchIsTerminal(b)
        /\ batch[b] \in {"not_included", "cancelled"} =>
               \A a \in AssetsOf(b) : object[Original(a)] = "excluded"

\* Whatever is verified of a photo the event keeps is in the bucket with the
\* signed bytes, although HEAD, transaction and delete are not atomic.  This
\* needs a bucket that refuses unsigned bytes and cleanups that do not fail
\* half way.
VerifiedIsStored ==
    \A a \in Kept, v \in Variants : object[<<a, v>>] = "verified" => store[<<a, v>>] = "good"

\* An original excluded one by one, in a contribution no publication left out,
\* can neither be in the bucket nor get there: its lease has run out.
ExcludedIsGone ==
    \A a \in Assets :
        object[Original(a)] = "excluded" /\ batch[BatchOf[a]] \in {"reserved", "complete"}
            => store[Original(a)] = "none" /\ ~url[Original(a)]

\* The photos of a published event are exactly those of the committed manifest that are
\* not excluded from it, all of them searchable, and the gallery shows them all, whatever
\* verify, register and refresh calls were under way.  With one exception, where the
\* bucket accepts bytes other than the signed ones: a HEAD that found such bytes may
\* commit after the replacement was verified and published, and fails that derivative.
PublishedServesItsManifest ==
    state = "published" =>
        /\ Visible = snapshot[generation] \ hidden
        /\ Visible \subseteq Analysed
        /\ \A a \in Visible \ Gallery :
              BadPuts /\ \E v \in Derivatives : object[<<a, v>>] = "failed"

\* Whatever the manifest of any generation lists is still kept: no later
\* publication, cancellation or reopening gives up a photo already listed.
ManifestPhotosAreKept == \A g \in Generations : snapshot[g] \subseteq Kept

-----------------------------------------------------------------------------
(* Action properties.                                                      *)

\* An excluded original never comes back, whatever a late verification saw.
ExcludedIsFinal ==
    [][\A a \in Assets : object[Original(a)] = "excluded" => object'[Original(a)] = "excluded"]_vars

\* A verified original is given up only by a publication that leaves its whole
\* contribution out.
VerifiedIsGivenUpOnlyByPublication ==
    [][\A a \in Assets :
          object[Original(a)] = "verified" /\ object'[Original(a)] # "verified" =>
              /\ state # "published" /\ state' = "published"
              /\ batch[BatchOf[a]] = "reserved" /\ batch'[BatchOf[a]] = "not_included"]_vars

\* A generation's manifest, once committed, is never rewritten: not by a
\* finalisation that was under way, a retry, or a later publication.
ManifestsAreImmutable ==
    [][\A g \in Generations : manifest[g] = "committed" =>
          manifest'[g] = "committed" /\ snapshot'[g] = snapshot[g]]_vars

-----------------------------------------------------------------------------
(* Refinement: the service keeps what PhotoArchive promises.               *)

PhotoStatus(a) ==
    CASE object[Original(a)] = "absent"   -> "unknown"
      [] object[Original(a)] = "verified" -> "kept"
      [] object[Original(a)] = "excluded" -> "dropped"
      [] OTHER                            -> "pending"

Archive == INSTANCE PhotoArchive WITH
    Photos    <- Assets,
    Allowance <- AssetLimit,
    status    <- [a \in Assets |-> PhotoStatus(a)],
    open      <- state = "published",
    shown     <- IF state = "published" THEN snapshot[generation] \ hidden ELSE {}

\* Every step of the service is a step of the archive or changes nothing in it.
ImplementsArchive == Archive!ArchiveSpec

-----------------------------------------------------------------------------
(* Claims of the documentation that the code does not keep.                *)

\* ADR 0005: capacity is never released while an unverified object may exist.
ReleasedIsEmpty ==
    \A a \in Assets : object[Original(a)] = "excluded" =>
        store[Original(a)] = "none" /\ ~url[Original(a)]

\* ADR 0014: work outside the publication snapshot is excluded.
ExcludedObjectsStayExcluded ==
    [][\A o \in Objects : object[o] = "excluded" => object'[o] = "excluded"]_vars

\* ADR 0004: immutable manifests are "reconciled by content hash if a prior
\* response was lost".
RetryCanPublish ==
    ~ /\ CanPublish(state)
      /\ manifest[generation] = "none"
      /\ PublicationReady
      /\ stray = "stale"

\* ADR 0004: successful objects are immutable.
SuccessIsFinal ==
    [][\A o \in Objects : object[o] = "verified" => object'[o] # "failed"]_vars

\* A published gallery shows every photo of its manifest: an old HEAD may fail a
\* derivative it shows.
GalleryIsManifest ==
    state = "published" => Gallery = snapshot[generation] \ hidden

=============================================================================
