-------------------------------- MODULE Scan --------------------------------
(***************************************************************************)
(* One contribution on a workstation before it is uploaded: sources are    *)
(* selected, verified by a scan thread, reviewed and approved in the       *)
(* window, and reserved on the server by an upload thread.  Files change,  *)
(* vanish and come back under the scan; the process may stop at any point; *)
(* the window stays usable while either thread runs.                       *)
(*                                                                         *)
(* What follows a reservation is Workstation.  Every write of the          *)
(* checkpoint file is a step; a check and the write it guards are one      *)
(* step, except in start_scan, where others act between the two.           *)
(***************************************************************************)
EXTENDS Naturals, FiniteSets

CONSTANTS
    Files, Photos,  \* files, and the contents a photo may have
    Selections,     \* what can be selected: folders and single files
    Folders,        \* the folders among them
    Under,          \* the files a selection leads to
    MaxChanges,     \* bound on what happens to the files
    MaxMishaps      \* bound on stopped processes, lost answers and closed windows

ASSUME ScanConstants ==
    /\ Files # {} /\ Photos # {} /\ "other" \notin Photos
    /\ Folders \subseteq Selections
    /\ Under \in [Selections -> SUBSET Files]
    /\ \A s \in Selections \ Folders : \E f \in Files : Under[s] = {f}
    /\ MaxChanges \in Nat /\ MaxMishaps \in Nat

VARIABLES
    disk,       \* per file, the clock at its last write and what was written
    present,    \* the files that can be read at the moment
    clock,      \* counts what happens to the files
    batch,      \* batches.state
    frozen,     \* batches.frozen_at is set
    sels,       \* selections
    items,      \* inventory_items
    issues,     \* selections with a blocking scan issue of the last scan
    tracked,    \* files whose item has an upload checkpoint
    open,       \* the window is open
    scan,       \* the scan thread
    upload,     \* the upload thread, up to the reservation; "again" is a ghost: since it read
                \* the manifest a contribution no longer approved has been verified again
    server,     \* the manifest the server has reserved, empty before
    reviewed,   \* what the photographer approved last
    mishaps     \* counts against MaxMishaps

fileVars == <<disk, present, clock>>
storeVars == <<batch, frozen, sels, items, issues, tracked>>
vars == <<fileVars, storeVars, open, scan, upload, server, reviewed, mishaps>>

Contents == Photos \cup {"other"}

NoItem == [status |-> "none", sel |-> "none", at |-> 0, is |-> "none"]
NoScan == [at |-> "idle", frozen |-> FALSE, todo |-> {}, sel |-> "none", names |-> {},
           seen |-> {}, changed |-> FALSE, file |-> "none", stamp |-> 0, found |-> "none",
           known |-> FALSE]
NoUpload == [at |-> "idle", manifest |-> {}, again |-> FALSE]
NoManifest == {}

HasItem(f) == items[f].status # "none"
Accepted == {f \in Files : items[f].status = "accepted"}
Manifest == {<<f, items[f].is>> : f \in Accepted}

\* Items that block an approval, and summary().can_approve.
Blocking == {f \in Files : items[f].status = "blocking"}
CanApprove == Accepted # {} /\ Blocking = {} /\ issues = {}

-----------------------------------------------------------------------------
(* Wrong forms of definitions below, each a plausible slip in the code it   *)
(* stands for.                                                             *)

\* Compares the file with itself after the validation.
StillSame(f) == f \in present

\* Reviews a frozen contribution again only when an item has changed.
ReviewOfChanges == ~scan.frozen \/ scan.changed

\* Deletes what a frozen scan did not meet, too.
UnseenDropped(f) == NoItem

\* Answers a second reservation with the first.
AnyManifest(m) == TRUE

\* Does not offer to verify a paused contribution again.
RescannableUnlessPaused == {"draft", "scanning", "needs_review", "approved"}

-----------------------------------------------------------------------------
\* Some of the files may be on a drive that is not plugged in yet.
ScanInit ==
    /\ \E c \in [Files -> Contents] : disk = [f \in Files |-> [at |-> 0, is |-> c[f]]]
    /\ present \in SUBSET Files
    /\ clock = 0
    /\ batch = "draft" /\ frozen = FALSE
    /\ sels = {} /\ issues = {} /\ tracked = {}
    /\ items = [f \in Files |-> NoItem]
    /\ open = TRUE
    /\ scan = NoScan /\ upload = NoUpload
    /\ server = NoManifest
    /\ reviewed = {}
    /\ mishaps = 0

-----------------------------------------------------------------------------
(* The files.  A write gives a file a size or times it never had before; a  *)
(* drive that is plugged in again brings its files back as they were.       *)

FilesChange ==
    /\ clock < MaxChanges
    /\ clock' = clock + 1
    /\ UNCHANGED <<storeVars, open, scan, upload, server, reviewed, mishaps>>

Write(f) ==
    /\ FilesChange
    /\ \E c \in Contents : disk' = [disk EXCEPT ![f] = [at |-> clock + 1, is |-> c]]
    /\ present' = present \cup {f}

Vanish(f) ==
    /\ FilesChange
    /\ f \in present
    /\ present' = present \ {f}
    /\ UNCHANGED disk

Return(f) ==
    /\ FilesChange
    /\ f \notin present
    /\ present' = present \cup {f}
    /\ UNCHANGED disk

-----------------------------------------------------------------------------
(* The window.                                                             *)

WindowFrame == UNCHANGED <<fileVars, open, server, mishaps>>

\* add_folder, add_files.
AddSelection(s) ==
    /\ open
    /\ batch # "deleted" /\ ~frozen
    /\ s \notin sels
    /\ sels' = sels \cup {s}
    /\ UNCHANGED <<batch, frozen, items, issues, tracked, scan, upload, reviewed>>
    /\ WindowFrame

\* The selection takes its items and issues with it, whatever else leads to them.
RemoveSelection(s) ==
    /\ open
    /\ ~frozen
    /\ s \in sels
    /\ sels' = sels \ {s}
    /\ items' = [f \in Files |-> IF items[f].sel = s THEN NoItem ELSE items[f]]
    /\ issues' = issues \ {s}
    /\ tracked' = {f \in tracked : items[f].sel # s}
    /\ UNCHANGED <<batch, frozen, scan, upload, reviewed>>
    /\ WindowFrame

\* _start_scan: one thread at a time, and nothing to do without a source.
StartThread ==
    /\ open
    /\ scan.at = "idle"
    /\ sels # {}
    /\ scan' = [NoScan EXCEPT !.at = "begin"]
    /\ upload' = [upload EXCEPT !.again =
                      @ \/ (upload.at \in {"post", "mark"} /\ batch # "approved")]
    /\ UNCHANGED <<storeVars, reviewed>>
    /\ WindowFrame

\* The page of a contribution that was never verified to the end.
ShowPage == batch \in {"draft", "scanning"} /\ StartThread

Rescannable == {"draft", "scanning", "paused", "needs_review", "approved"}

\* "Verify sources again".
Rescan ==
    /\ batch \in Rescannable
    /\ tracked = {}
    /\ StartThread

StartUpload == upload' = [NoUpload EXCEPT !.at = "read"]

\* Submit approves what was reviewed; the upload thread starts.
Approve ==
    /\ batch = "needs_review" /\ CanApprove
    /\ batch' = "approved"
    /\ frozen' = TRUE
    /\ reviewed' = Manifest

Submit ==
    /\ open
    /\ upload.at = "idle"
    /\ \/ Approve
       \/ batch = "approved" /\ UNCHANGED <<batch, frozen, reviewed>>
    /\ StartUpload
    /\ UNCHANGED <<sels, items, issues, tracked, scan>>
    /\ WindowFrame

\* "Remove local checkpoint".
DeleteLocal ==
    /\ open
    /\ batch # "deleted"
    /\ batch' = "deleted"
    /\ frozen' = FALSE
    /\ sels' = {} /\ issues' = {} /\ tracked' = {}
    /\ items' = [f \in Files |-> NoItem]
    /\ UNCHANGED <<scan, upload, reviewed>>
    /\ WindowFrame

-----------------------------------------------------------------------------
(* The process.                                                            *)

Mishap == mishaps < MaxMishaps /\ mishaps' = mishaps + 1

\* Closing pauses the scan at its next file and waits for the upload thread.
Close ==
    /\ open
    /\ Mishap
    /\ upload.at = "idle"
    /\ \/ scan.at = "idle" /\ UNCHANGED batch
       \/ /\ scan.at = "walk" /\ scan.names # {}
          /\ batch' = IF batch = "deleted" THEN batch ELSE "paused"
    /\ open' = FALSE
    /\ scan' = NoScan
    /\ UNCHANGED <<fileVars, frozen, sels, items, issues, tracked, upload, server, reviewed>>

Crash ==
    /\ open
    /\ Mishap
    /\ open' = FALSE
    /\ scan' = NoScan /\ upload' = NoUpload
    /\ UNCHANGED <<fileVars, storeVars, server, reviewed>>

Reopen ==
    /\ ~open
    /\ open' = TRUE
    /\ UNCHANGED <<fileVars, storeVars, scan, upload, server, reviewed, mishaps>>

-----------------------------------------------------------------------------
(* The scan thread.  Selections and names are taken in any order.          *)

ScanFrame == UNCHANGED <<fileVars, frozen, sels, tracked, open, upload, server, reviewed,
                         mishaps>>

\* An exception ends the thread and leaves the contribution as it is.
ScanFails == scan' = NoScan /\ UNCHANGED <<batch, items, issues>>

ReadBatch ==
    /\ scan.at = "begin"
    /\ \/ batch \in {"reserved", "deleted"} /\ ScanFails
       \/ /\ batch \notin {"reserved", "deleted"}
          /\ scan' = [scan EXCEPT !.at = "start", !.frozen = frozen]
          /\ UNCHANGED <<batch, items, issues>>
    /\ ScanFrame

StartScan ==
    /\ scan.at = "start"
    /\ batch' = IF batch = "deleted" THEN batch ELSE "scanning"
    /\ issues' = {}
    /\ scan' = [scan EXCEPT !.at = "walk", !.todo = sels]
    /\ UNCHANGED items
    /\ ScanFrame

\* An issue is recorded against its selection, which may be gone by now.
Issue(s, after) ==
    IF s \in sels THEN issues' = issues \cup {s} /\ scan' = after /\ UNCHANGED <<batch, items>>
    ELSE ScanFails

\* A source that leads nowhere is missing; a folder may also be empty.
OpenSelection(s) ==
    LET walked == [scan EXCEPT !.todo = @ \ {s}]
        listed == Under[s] \cap present
    IN /\ scan.at = "walk" /\ scan.names = {}
       /\ s \in scan.todo
       /\ \/ listed = {} /\ Issue(s, walked)
          \/ /\ listed # {} \/ s \in Folders
             /\ scan' = [walked EXCEPT !.names = listed, !.sel = s]
             /\ UNCHANGED <<batch, items, issues>>
       /\ ScanFrame

Unchanged(f) == items[f].status \in {"accepted", "rejected"} /\ items[f].at = disk[f].at

\* A name is listed and looked at: gone, met before, new to a frozen
\* contribution, unchanged, or to be validated.
NextFile(f) ==
    LET passed == [scan EXCEPT !.names = @ \ {f}]
        met == [passed EXCEPT !.seen = @ \cup {f}]
        left == scan.frozen /\ ~HasItem(f)
    IN /\ scan.at = "walk"
       /\ f \in scan.names
       /\ \/ f \notin present /\ Issue(scan.sel, passed)
          \/ /\ f \in present
             /\ left /\ f \notin scan.seen /\ scan.sel \notin sels
             /\ ScanFails
          \/ /\ f \in present
             /\ left => f \in scan.seen \/ scan.sel \in sels
             /\ scan' = IF f \in scan.seen THEN passed
                        ELSE IF left \/ Unchanged(f) THEN met
                        ELSE [met EXCEPT !.at = "check", !.file = f, !.stamp = disk[f].at,
                                         !.known = HasItem(f)]
             /\ UNCHANGED <<batch, items, issues>>
       /\ ScanFrame

\* validate() reads the file.
Check ==
    /\ scan.at = "check"
    /\ scan' = [scan EXCEPT !.at = "store",
                            !.found = IF scan.file \in present THEN disk[scan.file].is
                                      ELSE "other"]
    /\ UNCHANGED <<batch, items, issues>>
    /\ ScanFrame

\* The file is what it was when it was listed.
Same(f) == f \in present /\ disk[f].at = scan.stamp

Status(f) ==
    IF ~Same(f) THEN "blocking" ELSE IF scan.found \in Photos THEN "accepted" ELSE "rejected"

\* The file is looked at again and its item is written.
Store ==
    LET f == scan.file
        verdict == Status(f)
    IN /\ scan.at = "store"
       /\ \/ scan.sel \notin sels /\ ScanFails
          \/ /\ scan.sel \in sels
             /\ items' = [items EXCEPT ![f] =
                    [status |-> verdict, sel |-> scan.sel,
                     at |-> IF f \in present THEN disk[f].at ELSE scan.stamp,
                     is |-> IF verdict = "accepted" THEN scan.found ELSE "none"]]
             /\ scan' = [scan EXCEPT !.at = "walk", !.changed = @ \/ scan.known,
                                     !.file = "none", !.stamp = 0, !.found = "none",
                                     !.known = FALSE]
             /\ UNCHANGED <<batch, issues>>
       /\ ScanFrame

\* What the scan did not meet: forgotten before the approval, blocking after it.
Unseen == {f \in Files : HasItem(f) /\ f \notin scan.seen}

Missing(f) ==
    IF items[f].status = "rejected" THEN items[f]
    ELSE [items[f] EXCEPT !.status = "blocking", !.is = "none"]

Reconcile ==
    /\ scan.at = "walk"
    /\ scan.todo = {} /\ scan.names = {}
    /\ items' = [f \in Files |-> IF f \notin Unseen THEN items[f]
                                 ELSE IF scan.frozen THEN Missing(f) ELSE NoItem]
    /\ tracked' = {f \in tracked : scan.frozen \/ f \notin Unseen}
    /\ scan' = [scan EXCEPT !.at = "finish",
                    !.changed = @ \/ \E f \in Unseen : items[f].status # "rejected"]
    /\ UNCHANGED <<fileVars, batch, frozen, sels, issues, open, upload, server, reviewed,
                   mishaps>>

RequiresReview == ~scan.frozen \/ scan.changed \/ Blocking # {} \/ issues # {}

Finish ==
    /\ scan.at = "finish"
    /\ batch' = IF batch = "deleted" THEN batch
                ELSE IF RequiresReview THEN "needs_review" ELSE "approved"
    /\ scan' = NoScan
    /\ UNCHANGED <<items, issues>>
    /\ ScanFrame

-----------------------------------------------------------------------------
(* The upload thread.                                                      *)

UploadFrame == UNCHANGED <<fileVars, frozen, sels, items, issues, open, scan, reviewed>>
UploadEnds == upload' = NoUpload

\* What is not approved, or has no accepted original, is refused here.
ReadManifest ==
    /\ upload.at = "read"
    /\ \/ (batch # "approved" \/ Accepted = {}) /\ UploadEnds
       \/ /\ batch = "approved" /\ Accepted # {}
          /\ upload' = [upload EXCEPT !.at = "post", !.manifest = Manifest]
    /\ UNCHANGED <<batch, tracked, server, mishaps>>
    /\ UploadFrame

\* reserve_contribution repeats its answer to the same manifest alone.
Agrees(m) == server \in {NoManifest, m}

Post ==
    /\ upload.at = "post"
    /\ \/ /\ Agrees(upload.manifest)
          /\ server' = IF server = NoManifest THEN upload.manifest ELSE server
          /\ upload' = [upload EXCEPT !.at = "mark"]
       \/ ~Agrees(upload.manifest) /\ UploadEnds /\ UNCHANGED server
    /\ UNCHANGED <<batch, tracked, mishaps>>
    /\ UploadFrame

\* The request is refused or lost on its way, or its answer is.
PostIsLost ==
    /\ upload.at = "post"
    /\ Mishap
    /\ server' \in {server} \cup (IF server = NoManifest THEN {upload.manifest} ELSE {})
    /\ UploadEnds
    /\ UNCHANGED <<batch, tracked>>
    /\ UploadFrame

Markable == {"approved", "reserved"}

\* mark_batch_reserved, for the items accepted by now.
Mark ==
    /\ upload.at = "mark"
    /\ IF batch \in Markable THEN batch' = "reserved" /\ tracked' = tracked \cup Accepted
       ELSE UNCHANGED <<batch, tracked>>
    /\ UploadEnds
    /\ UNCHANGED <<server, mishaps>>
    /\ UploadFrame

-----------------------------------------------------------------------------
FileNext == \E f \in Files : Write(f) \/ Vanish(f) \/ Return(f)

EditNext == \E s \in Selections : AddSelection(s) \/ RemoveSelection(s)

WindowNext == EditNext \/ ShowPage \/ Rescan \/ Submit \/ DeleteLocal \/ Close \/ Crash \/ Reopen

ScanNext ==
    \/ ReadBatch \/ StartScan \/ Check \/ Store \/ Reconcile \/ Finish
    \/ \E s \in Selections : OpenSelection(s)
    \/ \E f \in Files : NextFile(f)

UploadNext == ReadManifest \/ Post \/ PostIsLost \/ Mark

ScanSpecNext == FileNext \/ WindowNext \/ ScanNext \/ UploadNext

ScanSpec == ScanInit /\ [][ScanSpecNext]_vars

\* The threads are scheduled; the photographer opens the program again, has a
\* paused contribution verified and keeps submitting what can be submitted.
PatientSpec ==
    /\ ScanSpec
    /\ WF_vars(ScanNext) /\ WF_vars(UploadNext)
    /\ WF_vars(Reopen) /\ WF_vars(ShowPage)
    /\ WF_vars(Rescan /\ batch = "paused")
    /\ SF_vars(Submit)

-----------------------------------------------------------------------------
ItemStatuses == {"none", "accepted", "rejected", "blocking"}

\* Every variable has its type; an item and an issue belong to a selection.
ScanTypeOK ==
    /\ present \subseteq Files /\ clock \in 0..MaxChanges
    /\ batch \in {"draft", "scanning", "paused", "needs_review", "approved", "reserved", "deleted"}
    /\ frozen \in BOOLEAN /\ open \in BOOLEAN
    /\ sels \subseteq Selections /\ issues \subseteq sels /\ tracked \subseteq Files
    /\ \A f \in Files : /\ items[f].status \in ItemStatuses
                        /\ HasItem(f) => items[f].sel \in sels
    /\ scan.at \in {"idle", "begin", "start", "walk", "check", "store", "finish"}
    /\ upload.at \in {"idle", "read", "post", "mark"}
    /\ mishaps \in 0..MaxMishaps

\* An accepted photo whose file looks the way it was recorded has the bytes whose
\* checksum was recorded, although files are written, vanish and return while
\* they are listed, decoded and hashed, and scans stop half way and reuse what
\* they find (InventoryScanner.scan, _unchanged).
AcceptedIsTrue ==
    \A f \in Accepted \cap present : disk[f].at = items[f].at => disk[f].is = items[f].is

\* A contribution that is approved or reserved is frozen and nothing in it blocks
\* an approval, however verification, approval and edits of the sources met.
ApprovedIsClean ==
    batch \in {"approved", "reserved"} => frozen /\ Blocking = {} /\ issues = {}

\* When a contribution becomes reserved in the checkpoint, the server has reserved,
\* file by file and checksum by checksum, what the checkpoint is going to upload,
\* although answers are lost and sources are verified again between two attempts and
\* beside one (upload, mark_batch_reserved): what such a verification changes takes the
\* approval back.  One more verification beside the same attempt, started after that,
\* finds nothing new and gives it again, and is excluded.
ReservedIsLocal ==
    [][batch # "reserved" /\ batch' = "reserved" /\ ~upload.again
          => server = Manifest]_vars

\* The same without the exclusion.
ReservedIsLocalAlways ==
    [][batch # "reserved" /\ batch' = "reserved" => server = Manifest]_vars

\* An approval freezes which files belong to the contribution: none is added or dropped by
\* a later scan of sources that have changed, but for a scan that had read the contribution
\* before the approval and has put it back to "scanning" after it.  While it is approved or
\* reserved nothing of an item changes at all.
FrozenStays ==
    [][frozen /\ batch' # "deleted" =>
          /\ batch \in {"approved", "reserved"} => items' = items
          /\ \/ \A f \in Files : HasItem(f)' <=> HasItem(f)
             \/ batch = "scanning" /\ ~scan.frozen]_vars

\* The same of every scan.
FrozenStaysAlways ==
    [][frozen /\ batch' # "deleted" => \A f \in Files : HasItem(f)' <=> HasItem(f)]_vars

\* What is approved is what the photographer reviewed.
ChangesAreReviewed == batch \in {"approved", "reserved"} => Manifest = reviewed

\* Every source of an approved contribution has been verified.
SourcesAreVerified ==
    batch = "needs_review" /\ CanApprove =>
        \A s \in sels : \A f \in Under[s] : f \notin present \/ HasItem(f)

\* Whoever has sources verified and submits what can be submitted ends with a
\* reservation, unless the verification has found an obstacle, the server has
\* reserved another manifest before, or the sources are edited or verified again
\* for ever.
Obstacle ==
    \/ sels = {} \/ Accepted = {} \/ Blocking # {} \/ issues # {}
    \/ ~Agrees(Manifest)

ReservedInTheEnd ==
    \/ <>(batch \in {"reserved", "deleted"})
    \/ <>[]Obstacle
    \/ []<><<EditNext \/ Rescan>>_vars

=============================================================================
