----------------------------- MODULE ScanProofs -----------------------------
(***************************************************************************)
(* Proofs about Scan for any files, contents, selections and mishaps.      *)
(*                                                                         *)
(* What keeps AcceptedIsTrue is that every write gives a file times it      *)
(* never had; and the others, that nothing but a scan touches the items of  *)
(* an approved contribution, that a scan takes the approval back first, and *)
(* that it gives it back only to a contribution it found frozen and as it   *)
(* was.                                                                    *)
(***************************************************************************)
EXTENDS Scan, TLAPS

Item == [status : ItemStatuses, sel : Selections \cup {"none"}, at : Nat,
         is : Contents \cup {"none"}]

ScanState ==
    [at : {"idle", "begin", "start", "walk", "check", "store", "finish"}, frozen : BOOLEAN,
     todo : SUBSET Selections, sel : Selections \cup {"none"}, names : SUBSET Files,
     seen : SUBSET Files, changed : BOOLEAN, file : Files \cup {"none"}, stamp : Nat,
     found : Contents \cup {"none"}, known : BOOLEAN]

UploadState ==
    [at : {"idle", "read", "post", "mark"}, manifest : SUBSET (Files \X (Contents \cup {"none"})),
     again : BOOLEAN]

Batches == {"draft", "scanning", "paused", "needs_review", "approved", "reserved", "deleted"}

\* The types the proofs need.
Shapes ==
    /\ disk \in [Files -> [at : Nat, is : Contents]]
    /\ clock \in Nat
    /\ batch \in Batches
    /\ frozen \in BOOLEAN
    /\ sels \subseteq Selections
    /\ items \in [Files -> Item]
    /\ scan \in ScanState
    /\ scan.at \in {"check", "store"} => scan.file \in Files
    /\ upload \in UploadState

LEMMA ManifestShape ==
    ASSUME Shapes
    PROVE  Manifest \in SUBSET (Files \X (Contents \cup {"none"}))
BY DEF Shapes, Manifest, Accepted, Item

LEMMA FileShapes ==
    ASSUME Shapes, FileNext
    PROVE  Shapes'
<1> USE DEF Shapes, FilesChange, storeVars
<1>1. PICK f \in Files : Write(f) \/ Vanish(f) \/ Return(f)
  BY DEF FileNext
<1>2. CASE Write(f)
  BY <1>2 DEF Write
<1>3. CASE Vanish(f) \/ Return(f)
  BY <1>3 DEF Vanish, Return
<1> QED
  BY <1>1, <1>2, <1>3

LEMMA WindowShapes ==
    ASSUME Shapes, WindowNext
    PROVE  Shapes'
<1> USE DEF WindowFrame, fileVars, storeVars
<1>0. NoItem \in Item /\ NoScan \in ScanState /\ NoUpload \in UploadState
  BY DEF NoItem, Item, ItemStatuses, NoScan, ScanState, NoUpload, UploadState
<1>1. CASE EditNext
  <2>1. PICK s \in Selections : AddSelection(s) \/ RemoveSelection(s)
    BY <1>1 DEF EditNext
  <2>2. CASE AddSelection(s)
    BY <2>2 DEF AddSelection, Shapes
  <2>3. CASE RemoveSelection(s)
    <3>1. items' \in [Files -> Item]
      BY <1>0, <2>3 DEF RemoveSelection, Shapes
    <3> QED
      BY <2>3, <3>1 DEF RemoveSelection, Shapes
  <2> QED
    BY <2>1, <2>2, <2>3
<1>2. CASE StartThread
  <2>1. scan' \in ScanState /\ scan'.at = "begin"
    BY <1>2 DEF StartThread, NoScan, ScanState
  <2>2. upload' \in UploadState
    BY <1>2 DEF StartThread, UploadState, Shapes
  <2> QED
    BY <1>2, <2>1, <2>2 DEF StartThread, Shapes
<1>3. CASE Submit
  <2>1. upload' \in UploadState
    BY <1>3 DEF Submit, StartUpload, NoUpload, UploadState
  <2>2. batch' \in Batches /\ frozen' \in BOOLEAN
    BY <1>3 DEF Submit, Approve, Shapes, Batches
  <2> QED
    BY <1>3, <2>1, <2>2 DEF Submit, Shapes
<1>4. CASE DeleteLocal
  <2>1. items' \in [Files -> Item]
    BY <1>0, <1>4 DEF DeleteLocal
  <2> QED
    BY <1>4, <2>1 DEF DeleteLocal, Shapes, Batches
<1>5. CASE Close
  BY <1>0, <1>5 DEF Close, Shapes, NoScan, Batches
<1>6. CASE Crash
  BY <1>0, <1>6 DEF Crash, Shapes, NoScan
<1>7. CASE Reopen
  BY <1>7 DEF Reopen, Shapes
<1> QED
  BY <1>1, <1>2, <1>3, <1>4, <1>5, <1>6, <1>7 DEF WindowNext, ShowPage, Rescan

LEMMA UploadShapes ==
    ASSUME Shapes, UploadNext
    PROVE  Shapes'
<1> USE DEF UploadFrame, UploadEnds, fileVars
<1>0. NoUpload \in UploadState
  BY DEF NoUpload, UploadState
<1>1. UNCHANGED <<disk, clock, frozen, sels, items, scan>>
  BY DEF UploadNext, ReadManifest, Post, PostIsLost, Mark
<1>2. batch' \in Batches
  BY DEF UploadNext, ReadManifest, Post, PostIsLost, Mark, Shapes, Batches
<1>3. upload' \in UploadState
  <2>1. CASE ReadManifest
    BY <1>0, <2>1, ManifestShape DEF ReadManifest, Shapes, UploadState
  <2>2. CASE Post
    BY <1>0, <2>2 DEF Post, Shapes, UploadState
  <2>3. CASE PostIsLost \/ Mark
    BY <1>0, <2>3 DEF PostIsLost, Mark
  <2> QED
    BY <2>1, <2>2, <2>3 DEF UploadNext
<1> QED
  BY <1>1, <1>2, <1>3 DEF Shapes

\* What a step of the scan thread does to its own state, to the items and to
\* the contribution.
LEMMA IssueFacts ==
    ASSUME NEW s, NEW after, Issue(s, after)
    PROVE  /\ scan' \in {after, NoScan}
           /\ UNCHANGED <<batch, items>>
BY DEF Issue, ScanFails

LEMMA WalkFacts ==
    ASSUME Shapes,
           (\E s \in Selections : OpenSelection(s)) \/ (\E f \in Files : NextFile(f))
    PROVE  /\ scan.at = "walk"
           /\ UNCHANGED <<disk, clock, batch, items, frozen, sels, tracked, upload, server>>
           /\ scan' \in ScanState
           /\ \/ scan' = NoScan
              \/ /\ scan'.frozen = scan.frozen /\ scan'.changed = scan.changed
                 /\ \/ scan'.at = "walk" /\ scan'.stamp = scan.stamp
                    \/ /\ scan'.at = "check"
                       /\ scan'.file \in Files
                       /\ scan'.stamp = disk[scan'.file].at
                       /\ scan.frozen => HasItem(scan'.file) /\ scan'.known
<1> USE DEF ScanFrame, fileVars
<1>0. NoScan \in ScanState
  BY DEF NoScan, ScanState
<1>1. ASSUME NEW s \in Selections, OpenSelection(s)
      PROVE  /\ scan.at = "walk"
             /\ UNCHANGED <<disk, clock, batch, items, frozen, sels, tracked, upload, server>>
             /\ scan' \in ScanState
             /\ scan' = NoScan \/ (/\ scan'.frozen = scan.frozen /\ scan'.changed = scan.changed
                                   /\ scan'.at = "walk" /\ scan'.stamp = scan.stamp)
  <2> DEFINE walked == [scan EXCEPT !.todo = @ \ {s}]
  <2>1. /\ walked \in ScanState
        /\ walked.at = scan.at /\ walked.frozen = scan.frozen /\ walked.changed = scan.changed /\ walked.stamp = scan.stamp
    BY DEF Shapes, ScanState
  <2>2. \/ Issue(s, walked)
        \/ /\ scan' = [walked EXCEPT !.names = Under[s] \cap present, !.sel = s]
           /\ UNCHANGED <<batch, items, issues>>
    BY <1>1 DEF OpenSelection
  <2>3. scan.at = "walk"
        /\ UNCHANGED <<disk, clock, frozen, sels, tracked, upload, server>>
    BY <1>1 DEF OpenSelection
  <2> HIDE DEF walked
  <2>4. CASE Issue(s, walked)
    BY <1>0, <2>1, <2>3, <2>4, IssueFacts
  <2>5. CASE /\ scan' = [walked EXCEPT !.names = Under[s] \cap present, !.sel = s]
             /\ UNCHANGED <<batch, items, issues>>
    <3>1. Under[s] \cap present \in SUBSET Files
      BY ScanConstants
    <3>2. /\ scan' \in ScanState
          /\ scan'.at = walked.at /\ scan'.frozen = walked.frozen /\ scan'.changed = walked.changed /\ scan'.stamp = walked.stamp
      BY <2>1, <2>5, <3>1 DEF ScanState
    <3> QED
      BY <2>1, <2>3, <2>5, <3>2
  <2> QED
    BY <2>2, <2>4, <2>5
<1>2. ASSUME NEW f \in Files, NextFile(f)
      PROVE  /\ scan.at = "walk"
             /\ UNCHANGED <<disk, clock, batch, items, frozen, sels, tracked, upload, server>>
             /\ scan' \in ScanState
             /\ \/ scan' = NoScan
                \/ /\ scan'.frozen = scan.frozen /\ scan'.changed = scan.changed
                   /\ \/ scan'.at = "walk" /\ scan'.stamp = scan.stamp
                      \/ /\ scan'.at = "check"
                         /\ scan'.file = f
                         /\ scan'.stamp = disk[f].at
                         /\ scan.frozen => HasItem(f) /\ scan'.known
  <2> DEFINE passed == [scan EXCEPT !.names = @ \ {f}]
             met == [passed EXCEPT !.seen = @ \cup {f}]
             look == [met EXCEPT !.at = "check", !.file = f, !.stamp = disk[f].at,
                                 !.known = HasItem(f)]
  <2>1. scan.at = "walk"
        /\ UNCHANGED <<disk, clock, frozen, sels, tracked, upload, server>>
    BY <1>2 DEF NextFile
  <2>2. /\ passed \in ScanState
        /\ passed.at = scan.at /\ passed.frozen = scan.frozen /\ passed.changed = scan.changed /\ passed.stamp = scan.stamp
    BY DEF Shapes, ScanState
  <2>3. \/ Issue(scan.sel, passed)
        \/ ScanFails
        \/ /\ scan' \in {passed, met} /\ UNCHANGED <<batch, items, issues>>
        \/ /\ scan' = look /\ ~(scan.frozen /\ ~HasItem(f)) /\ UNCHANGED <<batch, items, issues>>
    BY <1>2 DEF NextFile
  <2> HIDE DEF passed
  <2>4. /\ met \in ScanState
        /\ met.at = scan.at /\ met.frozen = scan.frozen /\ met.changed = scan.changed /\ met.stamp = scan.stamp
    BY <2>2 DEF ScanState
  <2> HIDE DEF met
  <2>5. /\ look \in ScanState
        /\ look.at = "check" /\ look.frozen = scan.frozen /\ look.changed = scan.changed
        /\ look.known = HasItem(f)
        /\ look.file = f /\ look.stamp = disk[f].at
    <3>1. disk[f].at \in Nat /\ HasItem(f) \in BOOLEAN
      BY DEF Shapes, HasItem
    <3> QED
      BY <2>4, <3>1 DEF ScanState
  <2> HIDE DEF look
  <2>6. CASE Issue(scan.sel, passed)
    BY <1>0, <2>1, <2>2, <2>6, IssueFacts
  <2>7. CASE ScanFails
    BY <1>0, <2>1, <2>7 DEF ScanFails
  <2>8. CASE scan' \in {passed, met} /\ UNCHANGED <<batch, items, issues>>
    BY <2>1, <2>2, <2>4, <2>8
  <2>9. CASE scan' = look /\ ~(scan.frozen /\ ~HasItem(f)) /\ UNCHANGED <<batch, items, issues>>
    BY <2>1, <2>5, <2>9
  <2> QED
    BY <2>3, <2>6, <2>7, <2>8, <2>9
<1> QED
  BY <1>1, <1>2

LEMMA CheckFacts ==
    ASSUME Shapes, Check
    PROVE  /\ scan.at = "check"
           /\ scan' \in ScanState
           /\ scan'.at = "store" /\ scan'.file = scan.file /\ scan'.stamp = scan.stamp
           /\ scan'.frozen = scan.frozen /\ scan'.changed = scan.changed
           /\ scan'.known = scan.known
           /\ scan'.found \in Photos => scan'.found = disk[scan.file].is
           /\ UNCHANGED <<disk, clock, batch, items, frozen, sels, issues, tracked, upload, server>>
<1> DEFINE found == IF scan.file \in present THEN disk[scan.file].is ELSE "other"
<1>1. scan' = [scan EXCEPT !.at = "store", !.found = found]
  BY DEF Check
<1>2. /\ found \in Contents
      /\ found \in Photos => found = disk[scan.file].is
  <2>1. scan.file \in Files
    BY DEF Shapes, Check
  <2> QED
    BY <2>1, ScanConstants DEF Shapes, Contents
<1> HIDE DEF found
<1> QED
  BY <1>1, <1>2 DEF Shapes, ScanState, Check, ScanFrame, fileVars

LEMMA StoreFacts ==
    ASSUME Shapes, Store
    PROVE  /\ scan.at = "store"
           /\ scan.file \in Files
           /\ scan' \in ScanState
           /\ scan' = NoScan \/ (/\ scan'.at = "walk" /\ scan'.stamp = 0
                                 /\ scan'.frozen = scan.frozen)
           /\ items' \in [Files -> Item]
           /\ \A f \in Files : f # scan.file => items'[f] = items[f]
           /\ \/ items' = items
              \/ /\ items'[scan.file].status \in {"accepted", "rejected", "blocking"}
                 /\ items'[scan.file].at \in {disk[scan.file].at, scan.stamp}
                 /\ items'[scan.file].status = "accepted" =>
                       /\ disk[scan.file].at = scan.stamp
                       /\ scan.found \in Photos
                       /\ items'[scan.file].is = scan.found
           /\ UNCHANGED <<disk, clock, batch, frozen, sels, issues, tracked, upload, server>>
<1> DEFINE f == scan.file
           item == [status |-> Status(f), sel |-> scan.sel,
                    at |-> IF f \in present THEN disk[f].at ELSE scan.stamp,
                    is |-> IF Status(f) = "accepted" THEN scan.found ELSE "none"]
<1>1. /\ scan.at = "store" /\ scan.file \in Files
      /\ UNCHANGED <<disk, clock, batch, frozen, sels, issues, tracked, upload, server>>
  BY DEF Store, Shapes, ScanFrame, ScanFails, fileVars
<1>2. CASE ScanFails
  BY <1>1, <1>2 DEF ScanFails, NoScan, ScanState, Shapes
<1>3. CASE /\ items' = [items EXCEPT ![f] = item]
           /\ scan' = [scan EXCEPT !.at = "walk", !.changed = @ \/ scan.known,
                                   !.file = "none", !.stamp = 0, !.found = "none",
                                   !.known = FALSE]
  <2>1. item \in Item
    BY <1>1 DEF Shapes, ScanState, Item, ItemStatuses, Status
  <2>2. /\ item.status \in {"accepted", "rejected", "blocking"}
        /\ item.at \in {disk[f].at, scan.stamp}
        /\ item.status = "accepted" =>
              disk[f].at = scan.stamp /\ scan.found \in Photos /\ item.is = scan.found
    BY DEF Status, Same
  <2>3. /\ scan' \in ScanState
        /\ scan'.at = "walk" /\ scan'.stamp = 0 /\ scan'.frozen = scan.frozen
    BY <1>3 DEF Shapes, ScanState
  <2> HIDE DEF item
  <2> QED
    BY <1>1, <1>3, <2>1, <2>2, <2>3 DEF Shapes
<1> QED
  BY <1>2, <1>3 DEF Store

LEMMA ReconcileFacts ==
    ASSUME Shapes, Reconcile
    PROVE  /\ scan.at = "walk"
           /\ scan' \in ScanState
           /\ scan'.at = "finish" /\ scan'.stamp = scan.stamp /\ scan'.frozen = scan.frozen
           /\ items' \in [Files -> Item]
           /\ \A f \in Files :
                 \/ items'[f] = items[f]
                 \/ /\ items'[f].status \in {"none", "blocking"}
                    /\ items'[f].at \in {0, items[f].at}
                    /\ HasItem(f)
                    /\ scan.frozen => items'[f].status = "blocking"
           /\ tracked' \subseteq tracked
           /\ UNCHANGED <<disk, clock, batch, frozen, sels, issues, upload, server>>
<1>1. /\ scan' \in ScanState
      /\ scan'.at = "finish" /\ scan'.stamp = scan.stamp /\ scan'.frozen = scan.frozen
  BY DEF Reconcile, Shapes, ScanState
<1>2. \A f \in Files : /\ items[f] \in Item
                       /\ Missing(f) \in Item
                       /\ Missing(f) = items[f]
                          \/ (Missing(f).status = "blocking" /\ Missing(f).at = items[f].at)
  <2>1. \A r \in Item :
          LET missing == [r EXCEPT !.status = "blocking", !.is = "none"] IN
            missing \in Item /\ missing.status = "blocking" /\ missing.at = r.at
    BY DEF Item, ItemStatuses
  <2> QED
    BY <2>1 DEF Missing, Shapes
<1>3. NoItem \in Item /\ NoItem.status = "none" /\ NoItem.at = 0
  BY DEF NoItem, Item, ItemStatuses
<1>4. items' = [f \in Files |-> IF f \notin Unseen THEN items[f]
                                ELSE IF scan.frozen THEN Missing(f) ELSE NoItem]
  BY DEF Reconcile
<1>5. \A f \in Unseen : HasItem(f)
  BY DEF Unseen
<1> QED
  BY <1>1, <1>2, <1>3, <1>4, <1>5 DEF Reconcile, fileVars

\* The steps that open and close a scan.
LEMMA EndFacts ==
    ASSUME Shapes, ReadBatch \/ StartScan \/ Finish
    PROVE  /\ scan' \in ScanState
           /\ scan' = NoScan \/ scan'.stamp = scan.stamp
           /\ scan'.at \in {"idle", "start", "walk"}
           /\ batch' \in Batches
           /\ UNCHANGED <<disk, clock, items, frozen, sels, tracked, upload, server>>
<1> USE DEF ScanFrame, fileVars
<1>1. CASE ReadBatch
  <2>1. CASE ScanFails
    BY <1>1, <2>1 DEF ReadBatch, ScanFails, Shapes, ScanState, NoScan
  <2>2. CASE scan' = [scan EXCEPT !.at = "start", !.frozen = frozen] /\ UNCHANGED <<batch, items>>
    <3>1. scan' \in ScanState /\ scan'.stamp = scan.stamp /\ scan'.at = "start"
      BY <2>2 DEF Shapes, ScanState
    <3> QED
      BY <1>1, <2>2, <3>1 DEF ReadBatch, Shapes
  <2> QED
    BY <1>1, <2>1, <2>2 DEF ReadBatch
<1>2. CASE StartScan
  BY <1>2 DEF StartScan, Shapes, ScanState, Batches
<1>3. CASE Finish
  BY <1>3 DEF Finish, Shapes, ScanState, NoScan, Batches
<1> QED
  BY <1>1, <1>2, <1>3

LEMMA ScanShapes ==
    ASSUME Shapes, ScanNext
    PROVE  Shapes'
<1>1. CASE ReadBatch \/ StartScan \/ Finish
  BY <1>1, EndFacts DEF Shapes
<1>2. CASE Check
  BY <1>2, CheckFacts DEF Shapes
<1>3. CASE Store
  BY <1>3, StoreFacts DEF Shapes, NoScan
<1>4. CASE Reconcile
  BY <1>4, ReconcileFacts DEF Shapes
<1>5. CASE (\E s \in Selections : OpenSelection(s)) \/ (\E f \in Files : NextFile(f))
  BY <1>5, WalkFacts DEF Shapes, NoScan
<1> QED
  BY <1>1, <1>2, <1>3, <1>4, <1>5 DEF ScanNext

LEMMA StepShapes ==
    ASSUME Shapes, ScanSpecNext
    PROVE  Shapes'
BY FileShapes, WindowShapes, UploadShapes, ScanShapes DEF ScanSpecNext

LEMMA InitShapes == ScanInit => Shapes
<1>1. NoItem \in Item /\ NoScan \in ScanState /\ NoUpload \in UploadState
  BY DEF NoItem, Item, ItemStatuses, NoScan, ScanState, NoUpload, UploadState
<1> QED
  <2> SUFFICES ASSUME ScanInit PROVE Shapes
    OBVIOUS
  <2>1. disk \in [Files -> [at : Nat, is : Contents]]
    BY DEF ScanInit
  <2>2. items \in [Files -> Item] /\ scan \in ScanState /\ upload \in UploadState
    BY <1>1 DEF ScanInit
  <2>3. scan.at = "idle"
    BY DEF ScanInit, NoScan
  <2> QED
    BY <2>1, <2>2, <2>3 DEF ScanInit, Shapes, Batches

\* What window and upload leave alone.
LEMMA WindowFacts ==
    ASSUME Shapes, WindowNext
    PROVE  /\ UNCHANGED <<disk, clock, server>>
           /\ scan' = scan \/ scan' = NoScan \/ (scan' = [NoScan EXCEPT !.at = "begin"] /\ scan.at = "idle")
           /\ \A f \in Files : items'[f] = items[f] \/ items'[f] = NoItem
           /\ items' # items => ~frozen \/ batch' = "deleted"
<1> USE DEF WindowFrame, fileVars, storeVars
<1>1. CASE EditNext
  <2>1. PICK s \in Selections : AddSelection(s) \/ RemoveSelection(s)
    BY <1>1 DEF EditNext
  <2> QED
    BY <2>1 DEF AddSelection, RemoveSelection, Shapes
<1>2. CASE StartThread
  BY <1>2 DEF StartThread
<1>3. CASE Submit
  BY <1>3 DEF Submit
<1>4. CASE DeleteLocal
  BY <1>4 DEF DeleteLocal
<1>5. CASE Close \/ Crash \/ Reopen
  BY <1>5 DEF Close, Crash, Reopen
<1> QED
  BY <1>1, <1>2, <1>3, <1>4, <1>5 DEF WindowNext, ShowPage, Rescan

LEMMA UploadFacts ==
    ASSUME UploadNext
    PROVE  UNCHANGED <<disk, clock, items, scan, frozen, issues>>
BY DEF UploadNext, ReadManifest, Post, PostIsLost, Mark, UploadFrame, fileVars

LEMMA FileFacts ==
    ASSUME FileNext
    PROVE  UNCHANGED <<storeVars, scan, upload, server>>
BY DEF FileNext, Write, Vanish, Return, FilesChange

-----------------------------------------------------------------------------
(* What is accepted has the bytes that were recorded.                      *)

TruthInv ==
    /\ \A f \in Files : disk[f].at <= clock /\ items[f].at <= clock
    /\ scan.stamp <= clock
    /\ \A f \in Accepted : disk[f].at = items[f].at => disk[f].is = items[f].is
    /\ scan.at = "store" /\ scan.found \in Photos /\ disk[scan.file].at = scan.stamp
          => scan.found = disk[scan.file].is

LEMMA TruthStep ==
    ASSUME Shapes, TruthInv, ScanSpecNext
    PROVE  TruthInv'
<1> USE DEF TruthInv, Accepted
<1>1. CASE FileNext
  <2>1. PICK f \in Files : Write(f) \/ Vanish(f) \/ Return(f)
    BY <1>1 DEF FileNext
  <2>2. UNCHANGED <<items, scan>> /\ clock' = clock + 1
    BY <2>1 DEF Write, Vanish, Return, FilesChange, storeVars
  <2>3. \A g \in Files : disk'[g] = disk[g] \/ disk'[g].at = clock + 1
    BY <2>1 DEF Write, Vanish, Return, Shapes
  <2>4. /\ clock \in Nat /\ scan.stamp \in Nat
        /\ \A g \in Files : disk[g].at \in Nat /\ items[g].at \in Nat
    BY DEF Shapes, ScanState, Item
  <2>5. scan.at = "store" => scan.file \in Files
    BY DEF Shapes
  <2> QED
    BY <2>2, <2>3, <2>4, <2>5
<1>2. CASE WindowNext
  <2>1. scan' = scan \/ (scan'.stamp = 0 /\ scan'.at \in {"idle", "begin"})
    BY <1>2, WindowFacts DEF NoScan
  <2>2. clock \in Nat /\ NoItem.at = 0 /\ NoItem.status = "none"
    BY DEF Shapes, NoItem
  <2> QED
    BY <1>2, <2>1, <2>2, WindowFacts
<1>3. CASE UploadNext
  BY <1>3, UploadFacts
<1>4. CASE ReadBatch \/ StartScan \/ Finish
  <2>1. scan'.stamp = scan.stamp \/ scan'.stamp = 0
    BY <1>4, EndFacts DEF NoScan
  <2> QED
    BY <1>4, <2>1, EndFacts DEF Shapes
<1>5. CASE Check
  BY <1>5, CheckFacts
<1>6. CASE Store
  <2>1. scan'.stamp = 0 /\ scan'.at # "store"
    BY <1>6, StoreFacts DEF NoScan
  <2> QED
    BY <1>6, <2>1, StoreFacts DEF Shapes
<1>7. CASE Reconcile
  <2>1. \A f \in Files : items'[f].at <= clock
    BY <1>7, ReconcileFacts DEF Shapes, Item
  <2>2. \A f \in Files : items'[f].status = "accepted" => items'[f] = items[f]
    BY <1>7, ReconcileFacts
  <2> QED
    BY <1>7, <2>1, <2>2, ReconcileFacts
<1>8. CASE (\E s \in Selections : OpenSelection(s)) \/ (\E f \in Files : NextFile(f))
  <2>1. scan'.at # "store" /\ scan'.stamp <= clock
    BY <1>8, WalkFacts DEF NoScan, Shapes
  <2> QED
    BY <1>8, <2>1, WalkFacts
<1> QED
  BY <1>1, <1>2, <1>3, <1>4, <1>5, <1>6, <1>7, <1>8 DEF ScanSpecNext, ScanNext

\* An accepted photo whose file looks the way it was recorded has the bytes
\* whose checksum was recorded.
THEOREM AcceptedPhotosAreTrue == ScanSpec => []AcceptedIsTrue
<1>1. ScanInit => TruthInv
  BY DEF ScanInit, TruthInv, NoItem, NoScan, Accepted
<1>2. Shapes /\ TruthInv /\ [ScanSpecNext]_vars => (Shapes /\ TruthInv)'
  <2>1. ASSUME Shapes, TruthInv, UNCHANGED vars PROVE (Shapes /\ TruthInv)'
    BY <2>1 DEF vars, fileVars, storeVars, Shapes, TruthInv, Accepted
  <2> QED
    BY <2>1, StepShapes, TruthStep
<1>3. TruthInv => AcceptedIsTrue
  BY DEF TruthInv, AcceptedIsTrue
<1> QED
  BY <1>1, <1>2, <1>3, InitShapes, PTL DEF ScanSpec

-----------------------------------------------------------------------------
(* Nothing in an approved contribution blocks an approval.                 *)

Busy == {"walk", "check", "store", "finish"}

CleanInv ==
    /\ scan.at \in Busy => batch \in {"scanning", "deleted"}
    /\ scan.frozen => frozen \/ batch = "deleted"
    /\ ApprovedIsClean

LEMMA CleanStep ==
    ASSUME Shapes, CleanInv, ScanSpecNext
    PROVE  CleanInv'
<1> USE DEF CleanInv, ApprovedIsClean, Blocking, Busy
<1>1. CASE FileNext
  BY <1>1, FileFacts DEF storeVars
<1>2. CASE WindowNext
  <2>0. NoScan.at = "idle" /\ ~NoScan.frozen
    BY DEF NoScan
  <2> USE DEF WindowFrame
  <2>1. CASE EditNext
    BY <2>1 DEF EditNext, AddSelection, RemoveSelection
  <2>2. CASE StartThread
    <3>1. scan'.at = "begin" /\ ~scan'.frozen
      BY <2>2 DEF StartThread, NoScan
    <3> QED
      BY <2>2, <3>1 DEF StartThread, storeVars
  <2>3. CASE Submit
    BY <2>3 DEF Submit, Approve, CanApprove
  <2>4. CASE DeleteLocal
    BY <2>4 DEF DeleteLocal
  <2>5. CASE Close \/ Crash \/ Reopen
    BY <2>0, <2>5 DEF Close, Crash, Reopen, storeVars
  <2> QED
    BY <1>2, <2>1, <2>2, <2>3, <2>4, <2>5 DEF WindowNext, ShowPage, Rescan
<1>3. CASE UploadNext
  <2>1. batch' = batch \/ (batch' = "reserved" /\ batch \in {"approved", "reserved"})
    BY <1>3 DEF UploadNext, ReadManifest, Post, PostIsLost, Mark, Markable
  <2> QED
    BY <1>3, <2>1, UploadFacts
<1>4. CASE ReadBatch
  <2>1. scan' = NoScan \/ (scan'.at = "start" /\ scan'.frozen = frozen)
    BY <1>4 DEF ReadBatch, ScanFails, Shapes, ScanState
  <2>2. scan'.at \notin Busy /\ (scan'.frozen => frozen)
    BY <2>1 DEF NoScan
  <2> QED
    BY <1>4, <2>2 DEF ReadBatch, ScanFails, ScanFrame
<1>5. CASE StartScan
  <2>1. scan'.frozen = scan.frozen
    BY <1>5 DEF StartScan, Shapes, ScanState
  <2> QED
    BY <1>5, <2>1 DEF StartScan, ScanFrame
<1>6. CASE Finish
  <2>1. scan'.at = "idle" /\ ~scan'.frozen
    BY <1>6 DEF Finish, NoScan
  <2> QED
    BY <1>6, <2>1 DEF Finish, RequiresReview, ScanFrame
<1>7. CASE Check
  BY <1>7, CheckFacts
<1>8. CASE Store
  BY <1>8, StoreFacts DEF NoScan
<1>9. CASE Reconcile
  BY <1>9, ReconcileFacts
<1>10. CASE (\E s \in Selections : OpenSelection(s)) \/ (\E f \in Files : NextFile(f))
  BY <1>10, WalkFacts DEF NoScan
<1> QED
  BY <1>1, <1>2, <1>3, <1>4, <1>5, <1>6, <1>7, <1>8, <1>9, <1>10 DEF ScanSpecNext, ScanNext

LEMMA CleanInvariant == ScanSpec => [](Shapes /\ CleanInv)
<1>1. ScanInit => CleanInv
  BY DEF ScanInit, CleanInv, NoScan, ApprovedIsClean, Busy
<1>2. Shapes /\ CleanInv /\ [ScanSpecNext]_vars => (Shapes /\ CleanInv)'
  <2>1. ASSUME Shapes, CleanInv, UNCHANGED vars PROVE (Shapes /\ CleanInv)'
    BY <2>1 DEF vars, fileVars, storeVars, Shapes, CleanInv, ApprovedIsClean, Blocking
  <2> QED
    BY <2>1, StepShapes, CleanStep
<1> QED
  BY <1>1, <1>2, InitShapes, PTL DEF ScanSpec

\* An approved or reserved contribution is frozen and nothing in it blocks an
\* approval.
THEOREM ApprovedContributionsAreClean == ScanSpec => []ApprovedIsClean
<1>1. CleanInv => ApprovedIsClean
  BY DEF CleanInv
<1> QED
  BY <1>1, CleanInvariant, PTL

-----------------------------------------------------------------------------
(* An approval freezes the list of files.                                  *)

\* A scan that found the contribution frozen looks only into files of its list.
FreezeInv ==
    scan.at \in {"check", "store"} /\ scan.frozen =>
        scan.known /\ (batch = "deleted" \/ HasItem(scan.file))

LEMMA FreezeStep ==
    ASSUME Shapes, CleanInv, FreezeInv, ScanSpecNext
    PROVE  FreezeInv'
<1> USE DEF FreezeInv, HasItem
<1>0. NoScan.at = "idle"
  BY DEF NoScan
<1>1. CASE FileNext
  BY <1>1, FileFacts DEF storeVars
<1>2. CASE WindowNext
  <2> USE DEF WindowFrame
  <2>1. CASE EditNext
    <3>1. PICK s \in Selections : AddSelection(s) \/ RemoveSelection(s)
      BY <2>1 DEF EditNext
    <3> QED
      BY <3>1 DEF AddSelection, RemoveSelection, CleanInv
  <2>2. CASE StartThread
    <3>1. scan'.at = "begin"
      BY <2>2 DEF StartThread, NoScan
    <3> QED
      BY <3>1
  <2>3. CASE Submit
    BY <2>3 DEF Submit, Approve
  <2>4. CASE DeleteLocal
    BY <2>4 DEF DeleteLocal
  <2>5. CASE Close \/ Crash \/ Reopen
    BY <1>0, <2>5 DEF Close, Crash, Reopen, storeVars
  <2> QED
    BY <1>2, <2>1, <2>2, <2>3, <2>4, <2>5 DEF WindowNext, ShowPage, Rescan
<1>3. CASE UploadNext
  <2>1. batch = "deleted" => batch' = "deleted"
    BY <1>3 DEF UploadNext, ReadManifest, Post, PostIsLost, Mark, Markable
  <2> QED
    BY <1>3, <2>1, UploadFacts
<1>4. CASE ReadBatch \/ StartScan \/ Finish
  BY <1>0, <1>4, EndFacts
<1>7. CASE Check
  BY <1>7, CheckFacts
<1>8. CASE Store
  BY <1>0, <1>8, StoreFacts
<1>9. CASE Reconcile
  BY <1>9, ReconcileFacts
<1>10. CASE (\E s \in Selections : OpenSelection(s)) \/ (\E f \in Files : NextFile(f))
  BY <1>0, <1>10, WalkFacts
<1> QED
  BY <1>1, <1>2, <1>3, <1>4, <1>7, <1>8, <1>9, <1>10 DEF ScanSpecNext, ScanNext

\* A step of a frozen contribution neither adds nor drops a file, unless it is one of a
\* scan that had read it before; and it touches no item of an approved contribution.
LEMMA FrozenStep ==
    ASSUME Shapes, CleanInv, FreezeInv, ScanSpecNext, frozen, batch' # "deleted"
    PROVE  /\ batch \in {"approved", "reserved"} => items' = items
           /\ \/ \A f \in Files : HasItem(f)' <=> HasItem(f)
              \/ batch = "scanning" /\ ~scan.frozen
<1> USE DEF HasItem
<1>1. CASE FileNext
  BY <1>1, FileFacts DEF storeVars
<1>2. CASE WindowNext
  BY <1>2, WindowFacts
<1>3. CASE UploadNext
  BY <1>3, UploadFacts
<1>4. CASE ReadBatch \/ StartScan \/ Finish
  BY <1>4, EndFacts
<1>5. CASE Check
  BY <1>5, CheckFacts
<1>6. CASE Store
  <2>1. batch = "scanning" /\ batch' = batch
    BY <1>6, StoreFacts DEF CleanInv, Busy
  <2>2. scan.frozen => HasItem(scan.file)
    BY <1>6, <2>1, StoreFacts DEF FreezeInv
  <2> QED
    BY <1>6, <2>1, <2>2, StoreFacts
<1>7. CASE Reconcile
  <2>1. batch = "scanning" /\ batch' = batch
    BY <1>7, ReconcileFacts DEF CleanInv, Busy
  <2> QED
    BY <1>7, <2>1, ReconcileFacts
<1>8. CASE (\E s \in Selections : OpenSelection(s)) \/ (\E g \in Files : NextFile(g))
  BY <1>8, WalkFacts
<1> QED
  BY <1>1, <1>2, <1>3, <1>4, <1>5, <1>6, <1>7, <1>8 DEF ScanSpecNext, ScanNext

LEMMA FreezeInvariant == ScanSpec => []FreezeInv
<1>1. ScanInit => FreezeInv
  BY DEF ScanInit, FreezeInv, NoScan
<1>2. Shapes /\ CleanInv /\ FreezeInv /\ [ScanSpecNext]_vars => FreezeInv'
  <2>1. ASSUME FreezeInv, UNCHANGED vars PROVE FreezeInv'
    BY <2>1 DEF vars, fileVars, storeVars, FreezeInv, HasItem
  <2> QED
    BY <2>1, FreezeStep
<1> QED
  BY <1>1, <1>2, CleanInvariant, PTL DEF ScanSpec

\* An approval freezes which files belong to the contribution, also for the scans that
\* are under way, but for one that read the contribution before.
THEOREM ApprovalFreezes == ScanSpec => FrozenStays
<1>1. Shapes /\ CleanInv /\ FreezeInv /\ [ScanSpecNext]_vars
        => [frozen /\ batch' # "deleted" =>
               /\ batch \in {"approved", "reserved"} => items' = items
               /\ \/ \A f \in Files : HasItem(f)' <=> HasItem(f)
                  \/ batch = "scanning" /\ ~scan.frozen]_vars
  BY FrozenStep
<1> QED
  BY <1>1, CleanInvariant, FreezeInvariant, PTL DEF ScanSpec, FrozenStays

-----------------------------------------------------------------------------
(* A reservation reserves what the checkpoint holds.                       *)

\* The upload thread has read a manifest that was approved, and no contribution that is
\* no longer approved has been verified again since.
Reserving == upload.at \in {"post", "mark"} /\ ~upload.again /\ batch # "deleted"

\* What the thread has read is what is approved, also while a scan that found it frozen
\* has changed nothing; any other scan ends in a review.
LocalInv ==
    /\ scan.at \in {"begin", "start"} => ~scan.changed
    /\ upload.at = "mark" => server = upload.manifest
    /\ Reserving =>
        /\ frozen
        /\ batch \in {"approved", "reserved"} => upload.manifest = Manifest
        /\ scan.at \in {"begin", "start"} => batch \in {"approved", "reserved"}
        /\ scan.at \in Busy /\ scan.frozen /\ ~scan.changed => upload.manifest = Manifest

LEMMA ManifestKept ==
    ASSUME items' = items
    PROVE  Manifest' = Manifest /\ Accepted' = Accepted
BY DEF Manifest, Accepted

\* A step that changes no item, and no state of the contribution but to "deleted".
LEMMA SameLocal ==
    ASSUME LocalInv, UNCHANGED <<items, frozen, scan, upload, server>>,
           batch' \in {batch, "deleted"}
    PROVE  LocalInv'
BY ManifestKept DEF LocalInv, Reserving

LEMMA WindowLocal ==
    ASSUME Shapes, CleanInv, LocalInv, WindowNext
    PROVE  LocalInv'
<1> USE DEF WindowFrame
<1>0. NoScan.at = "idle" /\ NoUpload.at = "idle"
  BY DEF NoScan, NoUpload
<1>1. CASE EditNext
  <2>1. PICK s \in Selections : AddSelection(s) \/ RemoveSelection(s)
    BY <1>1 DEF EditNext
  <2>2. CASE AddSelection(s)
    BY <2>2, SameLocal DEF AddSelection
  <2>3. CASE RemoveSelection(s)
    <3>1. ~frozen /\ UNCHANGED <<batch, frozen, scan, upload, server>>
      BY <2>3 DEF RemoveSelection
    <3> QED
      BY <3>1 DEF LocalInv, Reserving
  <2> QED
    BY <2>1, <2>2, <2>3
<1>2. CASE StartThread
  <2>1. scan'.at = "begin" /\ ~scan'.changed
    BY <1>2 DEF StartThread, NoScan
  <2>2. /\ upload'.again = (upload.again \/ (/\ upload.at \in {"post", "mark"}
                                             /\ batch # "approved"))
        /\ upload'.at = upload.at /\ upload'.manifest = upload.manifest
    BY <1>2 DEF StartThread, Shapes, UploadState
  <2>3. UNCHANGED <<batch, frozen, items, server>>
    BY <1>2 DEF StartThread, storeVars
  <2> QED
    BY <2>1, <2>2, <2>3, ManifestKept DEF LocalInv, Reserving, Busy
<1>3. CASE Submit
  <2>1. upload'.at = "read" /\ scan' = scan
    BY <1>3 DEF Submit, StartUpload, NoUpload
  <2> QED
    BY <2>1 DEF LocalInv, Reserving
<1>4. CASE DeleteLocal
  BY <1>4 DEF DeleteLocal, LocalInv, Reserving
<1>5. CASE Close
  <2>1. upload'.at = "idle" /\ scan'.at = "idle"
    BY <1>0, <1>5 DEF Close
  <2> QED
    BY <2>1 DEF LocalInv, Reserving
<1>6. CASE Crash
  BY <1>0, <1>6 DEF Crash, LocalInv, Reserving
<1>7. CASE Reopen
  BY <1>7, SameLocal DEF Reopen, storeVars
<1> QED
  BY <1>1, <1>2, <1>3, <1>4, <1>5, <1>6, <1>7 DEF WindowNext, ShowPage, Rescan

LEMMA UploadLocal ==
    ASSUME Shapes, CleanInv, LocalInv, UploadNext
    PROVE  LocalInv'
<1> USE DEF UploadEnds
<1>0. NoUpload.at = "idle"
  BY DEF NoUpload
<1>1. UNCHANGED <<items, scan, frozen>> /\ Manifest' = Manifest
  BY UploadFacts, ManifestKept
<1>2. CASE ReadManifest
  <2>1. UNCHANGED <<batch, server>>
    BY <1>2 DEF ReadManifest
  <2>2. \/ upload' = NoUpload
        \/ upload'.at = "post" /\ upload'.manifest = Manifest /\ batch = "approved"
    BY <1>2 DEF ReadManifest, Shapes, UploadState
  <2> QED
    BY <1>0, <1>1, <2>1, <2>2 DEF LocalInv, Reserving, CleanInv, ApprovedIsClean
<1>3. CASE Post
  <2>1. UNCHANGED batch
    BY <1>3 DEF Post
  <2>2. \/ upload' = NoUpload
        \/ /\ upload'.at = "mark" /\ upload'.manifest = upload.manifest
           /\ upload'.again = upload.again /\ upload.at = "post"
           /\ server' = upload.manifest
    BY <1>3 DEF Post, Agrees, Shapes, UploadState
  <2> QED
    BY <1>0, <1>1, <2>1, <2>2 DEF LocalInv, Reserving
<1>4. CASE PostIsLost \/ Mark
  <2>1. upload'.at = "idle"
    BY <1>0, <1>4 DEF PostIsLost, Mark
  <2> QED
    BY <1>1, <2>1 DEF LocalInv, Reserving
<1> QED
  BY <1>2, <1>3, <1>4 DEF UploadNext

LEMMA ScanLocal ==
    ASSUME Shapes, CleanInv, LocalInv, FreezeInv, ScanNext
    PROVE  LocalInv'
<1> USE DEF LocalInv, Reserving, Busy
<1>0. NoScan.at = "idle"
  BY DEF NoScan
<1>1. UNCHANGED <<upload, server, frozen>>
  BY EndFacts, CheckFacts, StoreFacts, ReconcileFacts, WalkFacts DEF ScanNext
<1>2. CASE ReadBatch
  <2>1. UNCHANGED <<batch, items>>
    BY <1>2 DEF ReadBatch, ScanFails
  <2>2. scan' = NoScan \/ (scan'.at = "start" /\ scan'.changed = scan.changed)
    BY <1>2 DEF ReadBatch, ScanFails, Shapes, ScanState
  <2>3. scan.at = "begin"
    BY <1>2 DEF ReadBatch
  <2> QED
    BY <1>0, <1>1, <2>1, <2>2, <2>3, ManifestKept
<1>3. CASE StartScan
  <2>1. scan.at = "start" /\ items' = items /\ batch' \in {"scanning", "deleted"}
        /\ (batch = "deleted" => batch' = "deleted")
    BY <1>3 DEF StartScan
  <2>2. scan'.at = "walk" /\ scan'.frozen = scan.frozen /\ scan'.changed = scan.changed
    BY <1>3 DEF StartScan, Shapes, ScanState
  <2> QED
    BY <1>1, <2>1, <2>2, ManifestKept
<1>4. CASE Finish
  <2>1. scan.at = "finish" /\ items' = items /\ scan' = NoScan
    BY <1>4 DEF Finish
  <2>2. /\ batch = "deleted" => batch' = "deleted"
        /\ batch' = "approved" => scan.frozen /\ ~scan.changed
        /\ batch' # "reserved"
    BY <1>4 DEF Finish, RequiresReview, CleanInv
  <2> QED
    BY <1>0, <1>1, <2>1, <2>2, ManifestKept
<1>5. CASE Check
  BY <1>1, <1>5, CheckFacts, ManifestKept
<1>6. CASE Store
  <2>1. batch \in {"scanning", "deleted"} /\ batch' = batch
    BY <1>6, StoreFacts DEF CleanInv
  <2>2. scan' = NoScan \/ (scan'.at = "walk" /\ scan'.frozen = scan.frozen)
    BY <1>6, StoreFacts
  <2>3. \/ scan' = NoScan /\ items' = items
        \/ scan.known => scan'.changed
    BY <1>6 DEF Store, ScanFails, Shapes, ScanState
  <2>4. scan.frozen => scan.known
    BY <1>6 DEF FreezeInv, Store
  <2>5. CASE scan' = NoScan /\ items' = items
    BY <1>0, <1>1, <2>1, <2>5, ManifestKept
  <2>6. CASE scan' # NoScan
    BY <1>1, <2>1, <2>2, <2>3, <2>4, <2>6
  <2> QED
    BY <2>3, <2>5, <2>6, <2>1, <1>0, <1>1, <1>6, StoreFacts
<1>7. CASE Reconcile
  <2>1. batch \in {"scanning", "deleted"} /\ batch' = batch /\ scan.at = "walk"
    BY <1>7, ReconcileFacts DEF CleanInv
  <2>2. /\ scan'.at = "finish" /\ scan'.frozen = scan.frozen
        /\ scan'.changed <=> (scan.changed \/ \E f \in Unseen : items[f].status # "rejected")
    BY <1>7, ReconcileFacts DEF Reconcile, Shapes, ScanState
  <2>3. ASSUME scan.frozen, ~scan'.changed
        PROVE  items' = items
    <3>1. \A f \in Unseen : Missing(f) = items[f]
      BY <2>2, <2>3 DEF Missing
    <3>2. \A f \in Files : items'[f] = items[f]
      BY <1>7, <2>3, <3>1 DEF Reconcile
    <3> QED
      BY <1>7, <3>2 DEF Reconcile, Shapes
  <2> QED
    BY <1>1, <2>1, <2>2, <2>3, ManifestKept
<1>8. CASE (\E s \in Selections : OpenSelection(s)) \/ (\E f \in Files : NextFile(f))
  <2>1. /\ scan.at = "walk" /\ UNCHANGED <<batch, items>>
        /\ scan' = NoScan \/ (scan'.frozen = scan.frozen /\ scan'.at \in {"walk", "check"})
    BY <1>8, WalkFacts
  <2>2. scan' = NoScan \/ scan'.changed = scan.changed
    BY <1>8, WalkFacts
  <2> QED
    BY <1>0, <1>1, <2>1, <2>2, ManifestKept
<1> QED
  BY <1>2, <1>3, <1>4, <1>5, <1>6, <1>7, <1>8 DEF ScanNext

LEMMA ReservedStep ==
    ASSUME Shapes, CleanInv, LocalInv, ScanSpecNext, batch # "reserved",
           batch' = "reserved", ~upload.again
    PROVE  server = Manifest
<1>1. Mark
  <2>1. ~FileNext
    BY FileFacts DEF storeVars
  <2>2. ~WindowNext
    BY DEF WindowNext, EditNext, AddSelection, RemoveSelection, ShowPage, Rescan, StartThread,
           Submit, Approve, DeleteLocal, Close, Crash, Reopen, storeVars
  <2>3. ~ScanNext
    <3>1. ~(ReadBatch \/ StartScan \/ Finish)
      BY DEF ReadBatch, ScanFails, StartScan, Finish
    <3> QED
      BY <3>1, CheckFacts, StoreFacts, ReconcileFacts, WalkFacts DEF ScanNext
  <2> QED
    BY <2>1, <2>2, <2>3 DEF ScanSpecNext, UploadNext, ReadManifest, Post, PostIsLost
<1> QED
  BY <1>1 DEF Mark, LocalInv, Reserving, Markable

\* When a contribution becomes reserved in the checkpoint, the server has reserved what
\* the checkpoint is going to upload, also when its sources were verified beside the upload.
THEOREM ReservationsAreLocal == ScanSpec => ReservedIsLocal
<1>1. ScanInit => LocalInv
  BY DEF ScanInit, LocalInv, Reserving, NoScan, NoUpload
<1>2. Shapes /\ CleanInv /\ FreezeInv /\ LocalInv /\ [ScanSpecNext]_vars => LocalInv'
  <2>1. ASSUME LocalInv, UNCHANGED vars PROVE LocalInv'
    BY <2>1, SameLocal DEF vars, storeVars
  <2>2. ASSUME LocalInv, FileNext PROVE LocalInv'
    BY <2>2, FileFacts, SameLocal DEF storeVars
  <2> QED
    BY <2>1, <2>2, WindowLocal, UploadLocal, ScanLocal DEF ScanSpecNext
<1>3. Shapes /\ CleanInv /\ LocalInv /\ [ScanSpecNext]_vars
        => [batch # "reserved" /\ batch' = "reserved" /\ ~upload.again => server = Manifest]_vars
  BY ReservedStep
<1> QED
  BY <1>1, <1>2, <1>3, CleanInvariant, FreezeInvariant, PTL DEF ScanSpec, ReservedIsLocal

=============================================================================
