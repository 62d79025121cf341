--------------------------- MODULE RetentionProofs ---------------------------
(***************************************************************************)
(* Proofs about Retention for any photos, watermarks, commands, stops,     *)
(* verifications and confirmations at once, and for uploads with any bytes. *)
(***************************************************************************)
EXTENDS Retention, TLAPS

USE RetentionConstants

-----------------------------------------------------------------------------
(* Keys.                                                                   *)

LEMMA UploadKeysAre ==
    /\ \A a \in Assets : Original(a) \in UploadKeys /\ Preview(a) \in UploadKeys
    /\ \A k \in UploadKeys : \E a \in Assets : k = Original(a) \/ k = Preview(a)
    /\ MarkKey \notin UploadKeys /\ CoverKey \notin UploadKeys
    /\ \A g : Manifest(g) \notin UploadKeys
BY DEF UploadKeys, Original, Preview, MarkKey, CoverKey, Manifest

LEMMA KeysDiffer ==
    /\ \A a, b : Original(a) # Preview(b)
    /\ \A a, b : Original(a) = Original(b) => a = b
    /\ \A a, b : Preview(a) = Preview(b) => a = b
    /\ \A g, h : Manifest(g) = Manifest(h) => g = h
    /\ \A g : Manifest(g) # MarkKey /\ Manifest(g) # CoverKey
    /\ MarkKey # CoverKey
BY DEF Original, Preview, MarkKey, CoverKey, Manifest

LEMMA KeysAre ==
    /\ UploadKeys \subseteq Keys
    /\ MarkKey \in Keys /\ CoverKey \in Keys
    /\ \A g \in 1..MaxGeneration : Manifest(g) \in Keys
BY DEF Keys

\* The keys the rows name are keys of the bucket.
LEMMA NamedKeys ==
    ASSUME manifests \subseteq 1..MaxGeneration, NEW withCover
    PROVE  Named(withCover) \subseteq Keys
BY KeysAre DEF Named

-----------------------------------------------------------------------------
(* Types.                                                                  *)

\* Only photos that were reserved have rows, and only a mark is put in the bucket.
RowsKnown ==
    /\ \A a \in Assets :
          upload[Original(a)] # "none" \/ upload[Preview(a)] # "none" => a \in assets
    /\ \A c \in confirming : c.step = "put" => c.mark \in Marks

\* A verification that still counts is of an unverified original or of a preview.
ChecksCount ==
    \A c \in checking :
        /\ upload[c.key] # "none"
        /\ \A a \in Assets : c.key = Original(a) => upload[c.key] = "reserved"

TypeInv == RetentionTypeOK /\ RowsKnown /\ ChecksCount

\* What an Event row is.
EventRows ==
    [state : {"uploading", "published", "cancelled"}, open : BOOLEAN,
     generation : 1..MaxGeneration, dated : BOOLEAN, due : BOOLEAN,
     quarantined : BOOLEAN, purged : BOOLEAN, erased : BOOLEAN]

LEMMA TypesAtFirst == RetentionInit => TypeInv
<1> SUFFICES ASSUME RetentionInit PROVE TypeInv
  OBVIOUS
<1>1. \A a \in Assets : upload[Original(a)] = "none" /\ upload[Preview(a)] = "none"
  BY UploadKeysAre DEF RetentionInit
<1>2. RowsKnown
  BY <1>1 DEF RetentionInit, RowsKnown
<1>3. RetentionTypeOK
  BY KeysAre, KeysDiffer DEF RetentionInit, RetentionTypeOK
<1>4. ChecksCount
  BY DEF RetentionInit, ChecksCount
<1> QED
  BY <1>2, <1>3, <1>4 DEF TypeInv

\* Every command keeps its type when an object is written.
LEMMA NotedTypes ==
    ASSUME job \in [Jobs -> JobStates \cup {NoJob}], NEW k \in Keys
    PROVE  Noted(k) \in [Jobs -> JobStates \cup {NoJob}]
<1> SUFFICES ASSUME NEW j \in Jobs, job[j] # NoJob
             PROVE  [job[j] EXCEPT !.since = @ \cup ({k} \ job[j].left)] \in JobStates
  BY DEF Noted
<1>1. job[j] \in JobStates
  OBVIOUS
<1> QED
  BY <1>1 DEF JobStates

\* What still counts was under way and is of an unverified original or of a preview.
LEMMA StillCounting ==
    ASSUME NEW checks, NEW rows
    PROVE  /\ StillCount(checks, rows) \subseteq checks
           /\ \A c \in StillCount(checks, rows) :
                 /\ rows[c.key] # "none"
                 /\ \A a \in Assets : c.key = Original(a) => rows[c.key] = "reserved"
BY DEF StillCount, Original

LEMMA ChecksStillCount ==
    ASSUME NEW checks, checking' = StillCount(checks, upload')
    PROVE  ChecksCount' /\ checking' \subseteq checks
BY StillCounting DEF ChecksCount

LEMMA UploadTypes ==
    ASSUME TypeInv, NEW a \in Assets,
           \/ Reserve(a) \/ IssueLease(a) \/ IssuePreviewLease(a) \/ CancelBatch(a)
           \/ ExcludeAsset(a) \/ RemoveExcluded(a) \/ BeginRegister(a) \/ EndRegister(a)
    PROVE  TypeInv'
<1> USE DEF TypeInv, RetentionTypeOK, RowsKnown, ChecksCount, media, bucket, requests
<1> USE UploadKeysAre, KeysDiffer, KeysAre
<1>1. CASE Reserve(a)
  BY <1>1 DEF Reserve
<1>2. CASE IssueLease(a)
  BY <1>2 DEF IssueLease
<1>3. CASE IssuePreviewLease(a)
  BY <1>3 DEF IssuePreviewLease
<1>4. CASE CancelBatch(a) \/ ExcludeAsset(a)
  <2>1. /\ upload' = [upload EXCEPT ![Original(a)] = "excluded"]
        /\ Remove(Original(a))
        /\ checking' = StillCount(checking, upload')
        /\ upload[Original(a)] \in {"reserved", "excluded"}
    BY <1>4 DEF CancelBatch, ExcludeAsset
  <2>2. ChecksCount' /\ checking' \subseteq checking
    BY ONLY <2>1, ChecksStillCount
  <2>3. /\ store' = store \ {Original(a)} /\ bad' = bad \ {Original(a)}
        /\ UNCHANGED <<event, assets, manifests, policy, cover, lease, urls, mark,
                       registering, confirming, job, stops>>
    BY <1>4 DEF CancelBatch, ExcludeAsset, Remove
  <2>4. /\ upload' \in [UploadKeys -> {"none", "reserved", "verified", "excluded"}]
        /\ \A k \in UploadKeys : upload'[k] = "none" <=> upload[k] = "none"
    BY <2>1
  <2>5. RowsKnown'
    BY <2>3, <2>4
  <2> QED
    BY <2>2, <2>3, <2>4, <2>5
<1>6. CASE RemoveExcluded(a)
  BY <1>6 DEF RemoveExcluded, Remove
<1>7. CASE BeginRegister(a)
  BY <1>7 DEF BeginRegister
<1>8. CASE EndRegister(a)
  BY <1>8 DEF EndRegister
<1> QED
  BY <1>1, <1>2, <1>3, <1>4, <1>6, <1>7, <1>8

LEMMA ObjectTypes ==
    ASSUME TypeInv, NEW k \in UploadKeys,
           UrlExpires(k) \/ BeginVerify(k) \/ \E isBad \in BOOLEAN : Upload(k, isBad)
    PROVE  TypeInv'
<1> USE DEF TypeInv, RetentionTypeOK, RowsKnown, ChecksCount, media, bucket, requests
<1> USE UploadKeysAre, KeysDiffer, KeysAre
<1>1. CASE UrlExpires(k)
  BY <1>1 DEF UrlExpires
<1>2. ASSUME NEW isBad \in BOOLEAN, Upload(k, isBad)
      PROVE  TypeInv'
  <2>1. job' \in [Jobs -> JobStates \cup {NoJob}]
    BY <1>2, NotedTypes DEF Upload
  <2> QED
    BY <1>2, <2>1 DEF Upload
<1>3. CASE BeginVerify(k)
  <2>1. checking' = checking \cup {[key |-> k, bad |-> k \in bad]}
    BY <1>3 DEF BeginVerify
  <2>2. \E isBad \in BOOLEAN : [key |-> k, bad |-> k \in bad] = [key |-> k, bad |-> isBad]
    <3>1. CASE k \in bad
      <4>1. (k \in bad) = TRUE
        BY <3>1, Zenon
      <4> QED
        BY ONLY <4>1, Zenon
    <3>2. CASE k \notin bad
      <4>1. (k \in bad) = FALSE
        BY ONLY <3>2
      <4> QED
        BY ONLY <4>1, Zenon
    <3> QED
      BY <3>1, <3>2
  <2>3. PICK isBad \in BOOLEAN : checking' = checking \cup {[key |-> k, bad |-> isBad]}
    BY <2>1, <2>2
  <2>4. checking' \subseteq [key : UploadKeys, bad : BOOLEAN]
    BY <2>3
  <2>5. ChecksCount'
    BY <1>3, <2>3 DEF BeginVerify
  <2> QED
    BY <1>3, <2>4, <2>5 DEF BeginVerify
<1> QED
  BY <1>1, <1>2, <1>3

LEMMA VerdictTypes ==
    ASSUME TypeInv, NEW c \in checking, CommitVerify(c)
    PROVE  TypeInv'
<1> USE DEF TypeInv, RetentionTypeOK, RowsKnown, media, bucket, requests
<1> USE UploadKeysAre, KeysDiffer, KeysAre
<1>1. c.key \in UploadKeys /\ c.bad \in BOOLEAN /\ upload[c.key] # "none"
  BY DEF ChecksCount
<1>2. checking' \subseteq checking /\ ChecksCount'
  <2>1. PICK others \in {checking, checking \ {c}} : checking' = StillCount(others, upload')
    BY DEF CommitVerify
  <2> QED
    BY <2>1, ChecksStillCount
<1>3. /\ store' \subseteq store /\ bad' \subseteq store' \cap UploadKeys
      /\ MarkKey \in store => MarkKey \in store'
  BY <1>1 DEF CommitVerify, Remove
<1>4. /\ upload' \in [UploadKeys -> {"none", "reserved", "verified", "excluded"}]
      /\ \A k \in UploadKeys : upload'[k] = "none" <=> upload[k] = "none"
      /\ lease' \subseteq lease
  BY <1>1 DEF CommitVerify
<1>5. RowsKnown'
  BY <1>4 DEF CommitVerify
<1>6. UNCHANGED <<event, assets, manifests, policy, cover, urls, mark, registering,
                  confirming, job, stops>>
  BY DEF CommitVerify
<1> QED
  BY <1>2, <1>3, <1>4, <1>5, <1>6

LEMMA ConfirmTypes ==
    ASSUME TypeInv,
           \/ \E value \in Marks \cup {"off"} : BeginConfirm(value)
           \/ \E c \in confirming : PutMark(c) \/ EndConfirm(c) \/ AbandonConfirm(c)
    PROVE  TypeInv'
<1> USE DEF TypeInv, RetentionTypeOK, RowsKnown, ChecksCount, media, bucket, requests
<1>1. ASSUME NEW value \in Marks \cup {"off"}, BeginConfirm(value)
      PROVE  TypeInv'
  BY <1>1 DEF BeginConfirm
<1>2. ASSUME NEW c \in confirming, PutMark(c)
      PROVE  TypeInv'
  <2>1. c.mark \in Marks /\ c.step = "put"
    BY <1>2 DEF PutMark
  <2>2. [c EXCEPT !.step = "create"] \in [step : {"put", "create"}, mark : Marks \cup {"off"}]
        /\ [c EXCEPT !.step = "create"].step = "create"
    OBVIOUS
  <2>3. confirming' \subseteq confirming \cup {[c EXCEPT !.step = "create"]}
    BY <1>2 DEF PutMark
  <2>4. job' \in [Jobs -> JobStates \cup {NoJob}]
    BY <1>2, NotedTypes, KeysAre DEF PutMark
  <2>5. mark' \in Marks /\ MarkKey \in store' /\ store' \subseteq Keys
    BY <1>2, <2>1, KeysAre DEF PutMark
  <2> QED
    BY <1>2, <2>2, <2>3, <2>4, <2>5 DEF PutMark
<1>3. ASSUME NEW c \in confirming, EndConfirm(c)
      PROVE  TypeInv'
  <2>1. job' \in [Jobs -> JobStates \cup {NoJob}]
    BY <1>3, NotedTypes, KeysAre DEF EndConfirm
  <2> QED
    BY <1>3, <2>1 DEF EndConfirm
<1>4. ASSUME NEW c \in confirming, AbandonConfirm(c)
      PROVE  TypeInv'
  BY <1>4 DEF AbandonConfirm
<1> QED
  BY <1>1, <1>2, <1>3, <1>4

LEMMA PublicationTypes ==
    ASSUME TypeInv, Publish \/ PublishFails \/ Unpublish \/ DatePasses \/ Quarantine
    PROVE  TypeInv'
<1> USE DEF TypeInv, RetentionTypeOK, RowsKnown, ChecksCount, media, bucket, requests
<1> USE UploadKeysAre, KeysDiffer, KeysAre
<1>1. event.generation \in 1..MaxGeneration
  OBVIOUS
<1>2. CASE Publish
  <2>1. event' \in EventRows
    BY <1>1, <1>2 DEF Publish, EventRows
  <2>2. /\ job' \in [Jobs -> JobStates \cup {NoJob}]
        /\ store' \subseteq Keys
        /\ mark' # NoMark <=> MarkKey \in store'
        /\ manifests' \subseteq 1..MaxGeneration
    BY <1>1, <1>2, NotedTypes DEF Publish, StoreManifest
  <2>3. upload' \in [UploadKeys -> {"none", "reserved", "verified", "excluded"}]
    BY <1>2 DEF Publish
  <2>6. ChecksCount' /\ checking' \subseteq checking
    BY <1>2, StillCounting DEF Publish, ChecksCount
  <2>4. \A k \in UploadKeys : upload[k] = "none" <=> upload'[k] = "none"
    BY <1>2 DEF Publish
  <2>5. RowsKnown'
    BY <1>2, <2>4 DEF Publish
  <2> QED
    BY <1>2, <2>1, <2>2, <2>3, <2>5, <2>6 DEF Publish, EventRows
<1>3. CASE PublishFails
  BY <1>1, <1>3, NotedTypes DEF PublishFails, StoreManifest
<1>4. CASE Unpublish
  <2>1. event' \in EventRows
    <3>1. event \in EventRows /\ event.generation + 1 \in 1..MaxGeneration
      BY <1>1, <1>4 DEF Unpublish, EventRows
    <3>2. event' = [event EXCEPT !.state = "uploading", !.open = TRUE,
                                 !.generation = event.generation + 1]
      BY <1>4 DEF Unpublish
    <3> QED
      BY <3>1, <3>2 DEF EventRows
  <2> QED
    BY <1>4, <2>1 DEF Unpublish, EventRows
<1>5. CASE DatePasses
  BY <1>5 DEF DatePasses
<1>6. CASE Quarantine
  BY <1>6 DEF Quarantine, Quarantined
<1> QED
  BY <1>2, <1>3, <1>4, <1>5, <1>6

LEMMA CommandTypes ==
    ASSUME TypeInv, NEW j \in Jobs, BeginPurge(j) \/ BeginErase(j) \/ JobStep(j) \/ Stop(j)
    PROVE  TypeInv'
<1> USE DEF TypeInv, RetentionTypeOK, RowsKnown, ChecksCount, media, bucket, requests
<1>1. \A mode \in {"purge", "erase"} : Listed(mode) \in JobStates
  BY NamedKeys DEF Listed, JobStates
<1>2. CASE BeginPurge(j)
  BY <1>1, <1>2 DEF BeginPurge
<1>3. CASE BeginErase(j)
  BY <1>1, <1>3 DEF BeginErase
<1>4. ASSUME NEW k \in Keys, DeleteKey(j, k)
      PROVE  TypeInv'
  <2>1. job[j] \in JobStates
    BY <1>4 DEF DeleteKey
  <2>2. [job[j] EXCEPT !.left = @ \ {k}, !.since = @ \ {k}] \in JobStates
    BY <2>1 DEF JobStates
  <2>3. job' = [job EXCEPT ![j] = [job[j] EXCEPT !.left = @ \ {k}, !.since = @ \ {k}]]
    BY <1>4, <2>1 DEF DeleteKey, JobStates
  <2>4. job' \in [Jobs -> JobStates \cup {NoJob}]
    BY <2>2, <2>3
  <2>5. store' = store \ {k} /\ bad' = bad \ {k}
    BY <1>4 DEF DeleteKey, Remove
  <2>6. mark' = IF k = MarkKey THEN NoMark ELSE mark
    BY <1>4 DEF DeleteKey
  <2>7. /\ store' \subseteq Keys /\ bad' \subseteq store' \cap UploadKeys
        /\ mark' \in Marks \cup {NoMark} /\ (mark' # NoMark <=> MarkKey \in store')
    BY <2>5, <2>6
  <2>8. UNCHANGED <<event, media, lease, urls, requests, stops>>
    BY <1>4 DEF DeleteKey
  <2> QED
    BY <2>4, <2>7, <2>8
<1>5. CASE Finish(j)
  <2>1. CASE UNCHANGED <<event, media, lease, checking>>
    BY <1>5, <2>1 DEF Finish
  <2>2. ASSUME NEW erased \in BOOLEAN, DeleteRows(erased)
        PROVE  TypeInv'
    <3>1. event' \in EventRows
      <4>1. event \in EventRows
        BY DEF EventRows
      <4>2. event' = [event EXCEPT !.purged = TRUE, !.erased = event.erased \/ erased,
                                   !.dated = event.dated /\ ~erased,
                                   !.due = event.due /\ ~erased]
        BY <2>2 DEF DeleteRows
      <4> QED
        BY <4>1, <4>2 DEF EventRows
    <3> QED
      BY <1>5, <2>2, <3>1, UploadKeysAre DEF Finish, DeleteRows, EventRows
  <2> QED
    BY <1>5, <2>1, <2>2 DEF Finish
<1>6. CASE Stop(j)
  BY <1>6 DEF Stop
<1> QED
  BY <1>2, <1>3, <1>4, <1>5, <1>6 DEF JobStep

LEMMA TypesStep == TypeInv /\ [RetentionNext]_vars => TypeInv'
<1> SUFFICES ASSUME TypeInv, [RetentionNext]_vars PROVE TypeInv'
  OBVIOUS
<1>1. CASE UNCHANGED vars
  BY <1>1 DEF vars, media, bucket, requests, TypeInv, RetentionTypeOK, RowsKnown,
     ChecksCount
<1>2. CASE StudioNext
  BY <1>2, UploadTypes, ObjectTypes, VerdictTypes, ConfirmTypes, PublicationTypes
     DEF StudioNext
<1>3. CASE OperatorNext
  BY <1>3, PublicationTypes, CommandTypes DEF OperatorNext
<1> QED
  BY <1>1, <1>2, <1>3 DEF RetentionNext

LEMMA TypeInvariant == RetentionSpec => []TypeInv
BY TypesAtFirst, TypesStep, PTL DEF RetentionSpec

\* Every variable of the model keeps its type.
THEOREM RetentionTypes == RetentionSpec => []RetentionTypeOK
BY TypeInvariant, PTL DEF TypeInv

-----------------------------------------------------------------------------
(* What one step does.                                                     *)

\* The commands change nothing but the event, the rows, the bucket and themselves, and
\* a command that is under way stays the command it is: it forgets a key only when the
\* key has left the bucket, and learns of each that is written.
GoesOn(j) ==
    /\ job[j] # NoJob
    /\ job'[j].mode = job[j].mode
    /\ job'[j].left \subseteq job[j].left
    /\ (job[j].left \cup job[j].since) \cap store' \subseteq job'[j].left \cup job'[j].since
    /\ store' \ store \subseteq job'[j].left \cup job'[j].since

LEMMA KeptGoesOn ==
    ASSUME NEW j \in Jobs, job[j] # NoJob, job'[j] = job[j], store' \subseteq store
    PROVE  GoesOn(j)
BY DEF GoesOn

LEMMA NotedGoesOn ==
    ASSUME TypeInv, NEW j \in Jobs, job[j] # NoJob, NEW k \in Keys,
           job' = Noted(k), store' \subseteq store \cup {k}
    PROVE  GoesOn(j)
<1>1. job[j] \in JobStates
  BY DEF TypeInv, RetentionTypeOK
<1>2. job'[j] = [job[j] EXCEPT !.since = job[j].since \cup ({k} \ job[j].left)]
  BY <1>1 DEF Noted
<1>3. /\ job'[j].mode = job[j].mode
      /\ job'[j].left = job[j].left
      /\ job'[j].since = job[j].since \cup ({k} \ job[j].left)
  BY <1>1, <1>2 DEF JobStates
<1> QED
  BY <1>3 DEF GoesOn

LEMMA CommandsGoOn ==
    ASSUME TypeInv, [RetentionNext]_vars, NEW j \in Jobs, job'[j] # NoJob
    PROVE  BeginPurge(j) \/ BeginErase(j) \/ GoesOn(j)
<1>1. CASE job' = job /\ store' \subseteq store
  BY <1>1, KeptGoesOn
<1>2. ASSUME NEW k \in Keys, job' = Noted(k), store' \subseteq store \cup {k}
      PROVE  GoesOn(j)
  BY <1>2, NotedGoesOn DEF Noted
<1>3. CASE StudioNext
  <2>1. ASSUME NEW a \in Assets,
               \/ Reserve(a) \/ IssueLease(a) \/ IssuePreviewLease(a)
               \/ CancelBatch(a) \/ ExcludeAsset(a) \/ RemoveExcluded(a)
               \/ BeginRegister(a) \/ EndRegister(a)
        PROVE  job' = job /\ store' \subseteq store
    BY <2>1 DEF Reserve, IssueLease, IssuePreviewLease, CancelBatch, ExcludeAsset,
                RemoveExcluded, Remove, BeginRegister, EndRegister, bucket
  <2>2. ASSUME \/ \E k \in UploadKeys : UrlExpires(k) \/ BeginVerify(k)
               \/ \E c \in checking : CommitVerify(c)
        PROVE  job' = job /\ store' \subseteq store
    BY <2>2 DEF UrlExpires, BeginVerify, CommitVerify, Remove, bucket
  <2>3. ASSUME NEW k \in UploadKeys, NEW isBad \in BOOLEAN, Upload(k, isBad)
        PROVE  GoesOn(j)
    BY <2>3, <1>2, KeysAre DEF Upload
  <2>4. ASSUME NEW value \in Marks \cup {"off"}, BeginConfirm(value)
        PROVE  job' = job /\ store' \subseteq store
    BY <2>4 DEF BeginConfirm, bucket
  <2>5. ASSUME NEW c \in confirming, PutMark(c)
        PROVE  GoesOn(j)
    <3>1. CASE mark = NoMark
      BY <2>5, <3>1, <1>2, KeysAre, KeysDiffer, UploadKeysAre DEF PutMark
    <3>2. CASE mark # NoMark
      BY <2>5, <3>2, KeptGoesOn DEF PutMark, TypeInv, RetentionTypeOK
    <3> QED
      BY <3>1, <3>2
  <2>6. ASSUME NEW c \in confirming, EndConfirm(c) \/ AbandonConfirm(c)
        PROVE  GoesOn(j)
    <3>1. store' = store /\ (job' = job \/ job' = Noted(MarkKey))
      BY <2>6 DEF EndConfirm, AbandonConfirm, bucket
    <3> QED
      BY <1>2, <3>1, KeptGoesOn, KeysAre
  <2>7. CASE Publish \/ PublishFails
    BY <2>7, <1>2, KeysAre, KeysDiffer, UploadKeysAre
       DEF Publish, PublishFails, StoreManifest, TypeInv, RetentionTypeOK
  <2>8. CASE Unpublish \/ DatePasses
    BY <2>8, <1>1 DEF Unpublish, DatePasses, bucket
  <2> QED
    BY <1>1, <1>3, <2>1, <2>2, <2>3, <2>4, <2>5, <2>6, <2>7, <2>8 DEF StudioNext
<1>4. CASE Quarantine
  BY <1>1, <1>4 DEF Quarantine, bucket
<1>5. ASSUME NEW i \in Jobs, BeginPurge(i) \/ BeginErase(i) \/ Finish(i) \/ Stop(i)
      PROVE  BeginPurge(j) \/ BeginErase(j) \/ GoesOn(j)
  <2>1. CASE i = j
    BY <1>5, <2>1 DEF Finish, Stop, TypeInv, RetentionTypeOK
  <2>2. CASE i # j
    <3>1. job'[j] = job[j] /\ store' = store
      BY <1>5, <2>2 DEF BeginPurge, BeginErase, Finish, Stop, bucket, TypeInv,
         RetentionTypeOK
    <3> QED
      BY <3>1, KeptGoesOn
  <2> QED
    BY <2>1, <2>2
<1>6. ASSUME NEW i \in Jobs, NEW k \in Keys, DeleteKey(i, k)
      PROVE  GoesOn(j)
  <2>1. CASE i = j
    <3>1. job[j] \in JobStates
      BY <1>6, <2>1 DEF DeleteKey, TypeInv, RetentionTypeOK
    <3>2. job'[j] = [job[j] EXCEPT !.left = @ \ {k}, !.since = @ \ {k}]
      BY <1>6, <2>1, <3>1 DEF DeleteKey, TypeInv, RetentionTypeOK, JobStates
    <3>3. /\ job'[j].mode = job[j].mode
          /\ job'[j].left = job[j].left \ {k}
          /\ job'[j].since = job[j].since \ {k}
      BY <3>1, <3>2 DEF JobStates
    <3> QED
      BY <1>6, <2>1, <3>1, <3>3 DEF GoesOn, DeleteKey, Remove
  <2>2. CASE i # j
    <3>1. job'[j] = job[j] /\ store' \subseteq store
      BY <1>6, <2>2 DEF DeleteKey, Remove, TypeInv, RetentionTypeOK
    <3> QED
      BY <3>1, KeptGoesOn
  <2> QED
    BY <2>1, <2>2
<1>7. CASE UNCHANGED vars
  BY <1>1, <1>7 DEF vars, bucket
<1> QED
  BY <1>3, <1>4, <1>5, <1>6, <1>7 DEF RetentionNext, OperatorNext, JobStep

\* A verified object stays what it is, but for the verdict of an older HEAD on a preview.
StaysVerified(k) ==
    \/ upload'[k] = "verified" /\ k \in store'
    \/ /\ k \in {Preview(a) : a \in Assets}
       /\ [key |-> k, bad |-> TRUE] \in checking
       /\ upload'[k] = "reserved"

\* Without a command under way only objects of photos leave the bucket, and of the
\* verified ones only what a verdict removes; the mark keeps its image.
LEMMA ObjectsLeave ==
    ASSUME TypeInv, [RetentionNext]_vars, \A j \in Jobs : job[j] = NoJob
    PROVE  /\ store \ store' \subseteq UploadKeys
           /\ mark # NoMark => mark' = mark
           /\ \A k \in UploadKeys \cap store : upload[k] = "verified" => StaysVerified(k)
<1> USE UploadKeysAre, KeysDiffer DEF TypeInv, RetentionTypeOK, media, bucket
<1>1. ASSUME store \subseteq store', upload' = upload, mark # NoMark => mark' = mark
      PROVE  /\ store \ store' \subseteq UploadKeys
             /\ mark # NoMark => mark' = mark
             /\ \A k \in UploadKeys \cap store : upload[k] = "verified" => StaysVerified(k)
  BY <1>1 DEF StaysVerified
<1>2. CASE UNCHANGED vars
  BY <1>1, <1>2 DEF vars
<1>3. CASE StudioNext
  <2>1. ASSUME NEW a \in Assets, Reserve(a) \/ EndRegister(a)
        PROVE  /\ store \subseteq store' /\ mark' = mark
               /\ \A k \in UploadKeys \cap store :
                     upload[k] = "verified" => upload'[k] = "verified"
    <3>1. upload[Original(a)] = "none" \/ ~Reserve(a)
      BY DEF Reserve, RowsKnown
    <3> QED
      BY <2>1, <3>1 DEF Reserve, EndRegister
  <2>2. ASSUME NEW a \in Assets, CancelBatch(a) \/ ExcludeAsset(a) \/ RemoveExcluded(a)
        PROVE  /\ store \ store' \subseteq {Original(a)} /\ mark' = mark
               /\ upload[Original(a)] # "verified"
               /\ \A k \in UploadKeys \ {Original(a)} : upload'[k] = upload[k]
    BY <2>2 DEF CancelBatch, ExcludeAsset, RemoveExcluded, Remove
  <2>3. ASSUME NEW c \in checking, CommitVerify(c)
        PROVE  /\ store \ store' \subseteq UploadKeys /\ mark' = mark
               /\ \A k \in UploadKeys \cap store : upload[k] = "verified" => StaysVerified(k)
    <3>1. c.key \in UploadKeys /\ c.bad \in BOOLEAN
      OBVIOUS
    <3>2. CASE c.bad
      <4>1. c = [key |-> c.key, bad |-> TRUE]
        BY <3>2
      <4>2. upload[c.key] = "verified" => c.key \in {Preview(a) : a \in Assets}
        BY <3>1 DEF ChecksCount
      <4>3. /\ store' = store \ {c.key} /\ mark' = mark
            /\ upload' = [upload EXCEPT ![c.key] = "reserved"]
        BY <2>3, <3>2 DEF CommitVerify, Remove
      <4>4. ASSUME NEW k \in UploadKeys \cap store, upload[k] = "verified"
            PROVE  StaysVerified(k)
        <5>1. CASE k = c.key
          <6>1. [key |-> k, bad |-> TRUE] \in checking
            BY <4>1, <5>1
          <6> QED
            BY <4>2, <4>3, <4>4, <5>1, <6>1 DEF StaysVerified
        <5>2. CASE k # c.key
          BY <4>3, <4>4, <5>2 DEF StaysVerified
        <5> QED
          BY <5>1, <5>2
      <4> QED
        BY <3>1, <4>3, <4>4
    <3>3. CASE ~c.bad
      BY <2>3, <3>1, <3>3 DEF CommitVerify, StaysVerified
    <3> QED
      BY <3>1, <3>2, <3>3
  <2>4. CASE Publish
    BY <2>4 DEF Publish, StoreManifest, StaysVerified
  <2>5. ASSUME NEW k \in UploadKeys, NEW isBad \in BOOLEAN, Upload(k, isBad)
        PROVE  store \subseteq store' /\ upload' = upload /\ mark' = mark
    BY <2>5 DEF Upload
  <2>6. ASSUME NEW c \in confirming, PutMark(c)
        PROVE  store \subseteq store' /\ upload' = upload /\ (mark # NoMark => mark' = mark)
    BY <2>6 DEF PutMark
  <2>7. CASE PublishFails
    BY <1>1, <2>7 DEF PublishFails, StoreManifest
  <2>8. ASSUME NEW c \in confirming, EndConfirm(c)
        PROVE  store' = store /\ upload' = upload /\ mark' = mark
    BY <2>8 DEF EndConfirm
  <2>9. \/ store' = store /\ upload' = upload /\ mark' = mark
        \/ Publish \/ PublishFails
        \/ \E a \in Assets : \/ Reserve(a) \/ EndRegister(a) \/ CancelBatch(a)
                             \/ ExcludeAsset(a) \/ RemoveExcluded(a)
        \/ \E k \in UploadKeys, isBad \in BOOLEAN : Upload(k, isBad)
        \/ \E c \in checking : CommitVerify(c)
        \/ \E c \in confirming : PutMark(c) \/ EndConfirm(c)
    BY <1>3 DEF StudioNext, IssueLease, IssuePreviewLease, BeginRegister, UrlExpires,
       BeginVerify, BeginConfirm, AbandonConfirm, Unpublish, DatePasses
  <2>10. ASSUME NEW a \in Assets, Reserve(a) \/ EndRegister(a)
         PROVE  \A k \in UploadKeys \cap store : upload[k] = "verified" => StaysVerified(k)
    BY <2>1, <2>10 DEF StaysVerified
  <2>11. ASSUME NEW a \in Assets, CancelBatch(a) \/ ExcludeAsset(a) \/ RemoveExcluded(a)
         PROVE  \A k \in UploadKeys \cap store : upload[k] = "verified" => StaysVerified(k)
    BY <2>2, <2>11 DEF StaysVerified
  <2>12. CASE Publish \/ PublishFails
    BY <1>1, <2>4, <2>7, <2>12 DEF Publish, StoreManifest, StaysVerified
  <2>13. CASE \E a \in Assets : \/ Reserve(a) \/ EndRegister(a) \/ CancelBatch(a)
                               \/ ExcludeAsset(a) \/ RemoveExcluded(a)
    BY <2>1, <2>2, <2>10, <2>11, <2>13
  <2> QED
    BY <1>1, <2>3, <2>5, <2>6, <2>8, <2>9, <2>12, <2>13
<1>4. CASE OperatorNext
  <2>1. store' = store /\ upload' = upload /\ mark' = mark
    BY <1>4 DEF OperatorNext, Quarantine, BeginPurge, BeginErase, JobStep, DeleteKey,
       Finish, Stop
  <2> QED
    BY <1>1, <2>1
<1> QED
  BY <1>2, <1>3, <1>4 DEF RetentionNext

\* While no command is under way, what a row comes to name is in the bucket, or is the
\* mark of a confirmation that has put it there.
LEMMA RowsName ==
    ASSUME TypeInv, [RetentionNext]_vars, \A j \in Jobs : job[j] = NoJob
    PROVE  /\ \A g \in manifests' : g \in manifests \/ Manifest(g) \in store'
           /\ policy' \in Marks =>
                 \/ policy' = policy
                 \/ \E c \in confirming : c.step = "create" /\ c.mark = policy'
<1> USE DEF TypeInv, RetentionTypeOK, media
<1>1. CASE UNCHANGED vars
  BY <1>1 DEF vars
<1>2. CASE StudioNext
  <2>1. ASSUME NEW a \in Assets, Reserve(a)
        PROVE  manifests' = manifests /\ (policy' \in Marks => policy' = policy)
    BY <2>1 DEF Reserve
  <2>2. CASE Publish
    BY <2>2 DEF Publish, StoreManifest
  <2>3. ASSUME NEW c \in confirming, EndConfirm(c)
        PROVE  /\ manifests' = manifests
               /\ policy' # policy => c.step = "create" /\ c.mark = policy'
    BY <2>3 DEF EndConfirm
  <2>4. \/ UNCHANGED <<manifests, policy>>
        \/ \E a \in Assets : Reserve(a)
        \/ Publish
        \/ \E c \in confirming : EndConfirm(c)
    BY <1>2 DEF StudioNext, IssueLease, IssuePreviewLease, CancelBatch, ExcludeAsset,
       RemoveExcluded, BeginRegister, EndRegister, UrlExpires, Upload, BeginVerify,
       CommitVerify, BeginConfirm, PutMark, AbandonConfirm, PublishFails, Unpublish,
       DatePasses
  <2> QED
    BY <2>1, <2>2, <2>3, <2>4
<1>3. CASE OperatorNext
  BY <1>3 DEF OperatorNext, Quarantine, BeginPurge, BeginErase, JobStep, DeleteKey, Finish,
     Stop
<1> QED
  BY <1>1, <1>2, <1>3 DEF RetentionNext

-----------------------------------------------------------------------------
(* Nothing is lost before it is due.                                       *)

\* A purge runs when it is due and leaves the cover; an erasure runs in quarantine.
CommandsAreDue ==
    \A j \in Jobs : job[j] # NoJob =>
        \/ event.quarantined
        \/ job[j].mode = "purge" /\ event.due /\ CoverKey \notin job[j].left

LEMMA EventFlags ==
    ASSUME TypeInv, CommandsAreDue, [RetentionNext]_vars
    PROVE  /\ event.quarantined => event'.quarantined
           /\ event.due => event'.due \/ event'.quarantined
<1> USE DEF TypeInv, RetentionTypeOK, media
<1>1. ASSUME NEW j \in Jobs, Finish(j)
      PROVE  /\ event.quarantined => event'.quarantined
             /\ event.due => event'.due \/ event'.quarantined
  <2>1. CASE UNCHANGED event
    BY <2>1
  <2>2. CASE DeleteRows(job[j].mode = "erase")
    <3>1. job[j].mode = "erase" => event.quarantined
      BY <1>1 DEF Finish, CommandsAreDue
    <3>2. event' = [event EXCEPT !.purged = TRUE,
                                 !.erased = event.erased \/ (job[j].mode = "erase"),
                                 !.dated = event.dated /\ ~(job[j].mode = "erase"),
                                 !.due = event.due /\ ~(job[j].mode = "erase")]
      BY <2>2 DEF DeleteRows
    <3>3. /\ event'.quarantined = event.quarantined
          /\ job[j].mode # "erase" => event'.due = event.due
      BY <3>2
    <3> QED
      BY <3>1, <3>3
  <2> QED
    BY <1>1, <2>1, <2>2 DEF Finish
<1>2. CASE Quarantine
  BY <1>2 DEF Quarantine, Quarantined
<1>3. CASE Publish \/ Unpublish \/ DatePasses
  BY <1>3 DEF Publish, Unpublish, DatePasses
<1>4. \/ UNCHANGED event
      \/ Publish \/ Unpublish \/ DatePasses \/ Quarantine
      \/ \E j \in Jobs : Finish(j)
  BY DEF RetentionNext, vars, StudioNext, Reserve, IssueLease, IssuePreviewLease,
     CancelBatch, ExcludeAsset, RemoveExcluded, BeginRegister, EndRegister, UrlExpires,
     Upload, BeginVerify, CommitVerify, BeginConfirm, PutMark, EndConfirm, AbandonConfirm, PublishFails, OperatorNext,
     BeginPurge, BeginErase, JobStep, DeleteKey, Stop
<1> QED
  BY <1>1, <1>2, <1>3, <1>4

LEMMA CommandsStep == TypeInv /\ CommandsAreDue /\ [RetentionNext]_vars => CommandsAreDue'
<1> SUFFICES ASSUME TypeInv, CommandsAreDue, [RetentionNext]_vars,
                    NEW j \in Jobs, job'[j] # NoJob, ~event'.quarantined
             PROVE  job'[j].mode = "purge" /\ event'.due /\ CoverKey \notin job'[j].left
  BY DEF CommandsAreDue
<1>1. ~event.quarantined
  BY EventFlags
<1>2. CASE BeginPurge(j)
  <2>1. job'[j] = Listed("purge") /\ event' = event /\ event.due
    BY <1>2 DEF BeginPurge, TypeInv, RetentionTypeOK
  <2>2. Listed("purge").mode = "purge" /\ CoverKey \notin Listed("purge").left
    BY UploadKeysAre, KeysDiffer DEF Listed, ListsCover, Named
  <2> QED
    BY <2>1, <2>2
<1>3. CASE BeginErase(j)
  BY <1>1, <1>3 DEF BeginErase
<1>4. CASE GoesOn(j)
  BY <1>1, <1>4, EventFlags DEF GoesOn, CommandsAreDue
<1> QED
  BY <1>2, <1>3, <1>4, CommandsGoOn

\* The image under the mark's key is the one that a confirmation with its row still to
\* create has stored.
ConfirmedMark ==
    ~event.quarantined /\ ~event.due =>
        \A c \in confirming : c.step = "create" /\ c.mark \in Marks => mark = c.mark

\* What KeptUntilDue says of states ...
Kept ==
    ~event.quarantined =>
        /\ CoverKey \in store
        /\ ~event.due =>
            /\ \A g \in manifests : Manifest(g) \in store
            /\ policy \in Marks => mark = policy

\* ... and of steps.
KeptByStep ==
    ~event'.quarantined /\ ~event'.due =>
        \A k \in UploadKeys \cap store : upload[k] = "verified" => StaysVerified(k)

KeptInv == CommandsAreDue /\ ConfirmedMark /\ Kept

LEMMA KeptAtFirst == RetentionInit => KeptInv
BY DEF RetentionInit, KeptInv, CommandsAreDue, ConfirmedMark, Kept

LEMMA ConfirmedMarkStep ==
    ASSUME TypeInv, ConfirmedMark, [RetentionNext]_vars, \A j \in Jobs : job[j] = NoJob,
           ~event.quarantined, ~event.due,
           NEW c \in confirming', c.step = "create", c.mark \in Marks
    PROVE  mark' = c.mark
<1>1. CASE c \in confirming
  BY <1>1, ObjectsLeave DEF ConfirmedMark
<1>2. ASSUME NEW d \in confirming, PutMark(d), c \notin confirming
      PROVE  mark' = c.mark
  <2>1. c = [d EXCEPT !.step = "create"] /\ SameImage(d)
    BY <1>2 DEF PutMark
  <2>2. c.mark = d.mark
    BY <2>1 DEF TypeInv, RetentionTypeOK
  <2> QED
    BY <1>2, <2>1, <2>2 DEF PutMark, SameImage
<1>3. ASSUME NEW value \in Marks \cup {"off"}, BeginConfirm(value), c \notin confirming
      PROVE  FALSE
  <2>1. c = [step |-> IF value = "off" THEN "create" ELSE "put", mark |-> value]
    BY <1>3 DEF BeginConfirm
  <2> QED
    BY <2>1
<1>4. \/ confirming' \subseteq confirming
      \/ \E d \in confirming : PutMark(d)
      \/ \E value \in Marks \cup {"off"} : BeginConfirm(value)
  BY DEF RetentionNext, vars, requests, StudioNext, Reserve, IssueLease, IssuePreviewLease,
     CancelBatch, ExcludeAsset, RemoveExcluded, BeginRegister, EndRegister, UrlExpires,
     Upload, BeginVerify, CommitVerify, EndConfirm, AbandonConfirm, Publish, PublishFails, Unpublish, DatePasses,
     OperatorNext, Quarantine, BeginPurge, BeginErase, JobStep, DeleteKey, Finish, Stop
<1> QED
  BY <1>1, <1>2, <1>3, <1>4

LEMMA CoverStays ==
    ASSUME TypeInv, CommandsAreDue, [RetentionNext]_vars, CoverKey \in store,
           ~event.quarantined
    PROVE  CoverKey \in store'
<1>1. \A j \in Jobs : job[j] # NoJob => CoverKey \notin job[j].left
  BY DEF CommandsAreDue
<1>2. ASSUME NEW j \in Jobs, NEW k \in Keys, DeleteKey(j, k)
      PROVE  k # CoverKey
  BY <1>1, <1>2 DEF DeleteKey, Foremost
<1>3. ASSUME NEW c \in checking, CommitVerify(c)
      PROVE  CoverKey \in store'
  <2>1. c.key # CoverKey
    BY UploadKeysAre DEF TypeInv, RetentionTypeOK
  <2> QED
    BY <1>3, <2>1 DEF CommitVerify, Remove
<1> QED
  BY <1>2, <1>3, UploadKeysAre DEF RetentionNext, vars, StudioNext, Reserve, IssueLease,
     IssuePreviewLease, CancelBatch, ExcludeAsset, RemoveExcluded, Remove, bucket,
     BeginRegister, EndRegister, UrlExpires, Upload, BeginVerify, BeginConfirm, PutMark,
     EndConfirm, AbandonConfirm, Publish, PublishFails, StoreManifest, Unpublish, DatePasses, OperatorNext, Quarantine,
     BeginPurge, BeginErase, JobStep, DeleteKey, Finish, Stop

LEMMA KeptStep == TypeInv /\ KeptInv /\ [RetentionNext]_vars => KeptInv' /\ KeptByStep
<1> SUFFICES ASSUME TypeInv, KeptInv, [RetentionNext]_vars PROVE KeptInv' /\ KeptByStep
  OBVIOUS
<1> USE DEF KeptInv
<1>1. CommandsAreDue'
  BY CommandsStep
<1>2. ASSUME ~event'.quarantined
      PROVE  ~event.quarantined /\ CoverKey \in store'
  BY <1>2, EventFlags, CoverStays DEF Kept
<1>3. ASSUME ~event'.quarantined, ~event'.due
      PROVE  /\ ~event.due
             /\ \A j \in Jobs : job[j] = NoJob
  BY <1>2, <1>3, EventFlags DEF CommandsAreDue
<1>4. ConfirmedMark'
  BY <1>2, <1>3, ConfirmedMarkStep DEF ConfirmedMark
<1>5. ASSUME ~event'.quarantined, ~event'.due
      PROVE  /\ \A g \in manifests' : Manifest(g) \in store'
             /\ policy' \in Marks => mark' = policy'
  <2>1. ~event.quarantined /\ ~event.due /\ \A j \in Jobs : job[j] = NoJob
    BY <1>2, <1>3, <1>5
  <2>2. /\ \A g \in manifests : Manifest(g) \in store
        /\ policy \in Marks => mark = policy
    BY <2>1 DEF Kept
  <2>3. \A g \in manifests' : Manifest(g) \in store'
    BY <2>1, <2>2, RowsName, ObjectsLeave, UploadKeysAre
  <2>4. policy' \in Marks => mark' = policy'
    BY <2>1, <2>2, RowsName, ObjectsLeave DEF ConfirmedMark
  <2> QED
    BY <2>3, <2>4
<1>6. Kept'
  BY <1>2, <1>5 DEF Kept
<1>7. KeptByStep
  BY <1>3, ObjectsLeave DEF KeptByStep
<1> QED
  BY <1>1, <1>4, <1>6, <1>7

\* Until a purge is due or an erasure is asked for, no manifest, no cover and no confirmed
\* watermark is lost, and no verified object but by the verdict of a verification that the
\* row then tells, however verifications, confirmations and publications overlap and stop
\* half way.
THEOREM NothingIsLostEarly == RetentionSpec => KeptUntilDue
<1>1. KeptUntilDue <=> []Kept /\ [][KeptByStep]_vars
  BY DEF KeptUntilDue, Kept, KeptByStep, StaysVerified
<1>2. TypeInv /\ KeptInv /\ [RetentionNext]_vars => KeptInv' /\ [KeptByStep]_vars
  BY KeptStep
<1>3. KeptInv => Kept
  BY DEF KeptInv
<1> QED
  BY <1>1, <1>2, <1>3, KeptAtFirst, TypeInvariant, PTL DEF RetentionSpec

-----------------------------------------------------------------------------
(* Objects that no row names.                                              *)

\* An object or a URL of a photo is of one that was reserved, a preview of one whose row
\* exists unless the original's is gone too; before the purge every object and every URL
\* has its row.
KeysHaveRows ==
    /\ \A a \in Assets :
          /\ a \notin assets => {Original(a), Preview(a)} \cap (store \cup urls) = {}
          /\ upload[Original(a)] # "none" /\ upload[Preview(a)] = "none"
                => Preview(a) \notin store \cup urls
    /\ ~event.purged => \A k \in UploadKeys : k \in store \cup urls => upload[k] # "none"

LEMMA StudioKeysHaveRows ==
    ASSUME TypeInv, KeysHaveRows, NEW a \in Assets,
           \/ Reserve(a) \/ IssueLease(a) \/ IssuePreviewLease(a)
           \/ CancelBatch(a) \/ ExcludeAsset(a) \/ RemoveExcluded(a)
           \/ BeginRegister(a) \/ EndRegister(a)
    PROVE  KeysHaveRows'
<1> USE UploadKeysAre, KeysDiffer
<1> USE DEF TypeInv, RetentionTypeOK, RowsKnown, ChecksCount, KeysHaveRows, media, bucket, requests
<1>1. CASE Reserve(a)
  BY <1>1 DEF Reserve
<1>2. CASE IssueLease(a)
  BY <1>2 DEF IssueLease
<1>3. CASE IssuePreviewLease(a)
  BY <1>3 DEF IssuePreviewLease
<1>4. CASE CancelBatch(a)
  BY <1>4 DEF CancelBatch, Remove
<1>5. CASE ExcludeAsset(a)
  BY <1>5 DEF ExcludeAsset, Remove
<1>6. CASE RemoveExcluded(a)
  BY <1>6 DEF RemoveExcluded, Remove
<1>7. CASE BeginRegister(a)
  BY <1>7 DEF BeginRegister
<1>8. CASE EndRegister(a)
  BY <1>8 DEF EndRegister
<1> QED
  BY <1>1, <1>2, <1>3, <1>4, <1>5, <1>6, <1>7, <1>8

\* A step that writes no object of a photo, gives out no URL and keeps every row.
LEMMA SameKeysHaveRows ==
    ASSUME TypeInv, KeysHaveRows, assets' = assets, event'.purged = event.purged,
           \A k \in UploadKeys : /\ upload'[k] = "none" <=> upload[k] = "none"
                                 /\ k \in store' \cup urls' => k \in store \cup urls
    PROVE  KeysHaveRows'
BY UploadKeysAre DEF KeysHaveRows

LEMMA KeysHaveRowsStep == TypeInv /\ KeysHaveRows /\ [RetentionNext]_vars => KeysHaveRows'
<1> SUFFICES ASSUME TypeInv, KeysHaveRows, [RetentionNext]_vars PROVE KeysHaveRows'
  OBVIOUS
<1> USE UploadKeysAre, KeysDiffer DEF media, bucket, requests
<1>1. CASE UNCHANGED vars
  BY <1>1, SameKeysHaveRows DEF vars
<1>2. CASE StudioNext
  <2>1. ASSUME NEW k \in UploadKeys,
               UrlExpires(k) \/ BeginVerify(k) \/ \E isBad \in BOOLEAN : Upload(k, isBad)
        PROVE  KeysHaveRows'
    BY <2>1, SameKeysHaveRows DEF UrlExpires, Upload, BeginVerify
  <2>7. ASSUME NEW c \in checking, CommitVerify(c)
        PROVE  KeysHaveRows'
    <3>1. c.key \in UploadKeys /\ upload[c.key] # "none"
      BY DEF TypeInv, RetentionTypeOK, ChecksCount
    <3>2. \A k \in UploadKeys : upload'[k] = "none" <=> upload[k] = "none"
      BY <2>7, <3>1 DEF CommitVerify, TypeInv, RetentionTypeOK
    <3>3. store' \subseteq store /\ UNCHANGED <<assets, event, urls>>
      BY <2>7 DEF CommitVerify, Remove
    <3> QED
      BY <3>2, <3>3, SameKeysHaveRows
  <2>2. ASSUME NEW value \in Marks \cup {"off"}, BeginConfirm(value)
        PROVE  KeysHaveRows'
    BY <2>2, SameKeysHaveRows DEF BeginConfirm
  <2>3. ASSUME NEW c \in confirming, PutMark(c) \/ EndConfirm(c) \/ AbandonConfirm(c)
        PROVE  KeysHaveRows'
    BY <2>3, SameKeysHaveRows DEF PutMark, EndConfirm, AbandonConfirm
  <2>4. CASE Publish
    <3>1. event'.purged = event.purged
      BY <2>4 DEF Publish, TypeInv, RetentionTypeOK
    <3> QED
      BY <2>4, <3>1, SameKeysHaveRows DEF Publish, StoreManifest
  <2>5. CASE PublishFails
    BY <2>5, SameKeysHaveRows DEF PublishFails, StoreManifest
  <2>6. CASE Unpublish \/ DatePasses
    <3>1. event'.purged = event.purged
      BY <2>6 DEF Unpublish, DatePasses, TypeInv, RetentionTypeOK
    <3> QED
      BY <2>6, <3>1, SameKeysHaveRows DEF Unpublish, DatePasses
  <2> QED
    BY <1>2, <2>1, <2>2, <2>3, <2>4, <2>5, <2>6, <2>7, StudioKeysHaveRows DEF StudioNext
<1>3. CASE OperatorNext
  <2>1. CASE Quarantine
    <3>1. event'.purged = event.purged
      BY <2>1 DEF Quarantine, Quarantined, TypeInv, RetentionTypeOK
    <3> QED
      BY <2>1, <3>1, SameKeysHaveRows DEF Quarantine
  <2>2. ASSUME NEW j \in Jobs, BeginPurge(j) \/ BeginErase(j) \/ Stop(j)
        PROVE  KeysHaveRows'
    BY <2>2, SameKeysHaveRows DEF BeginPurge, BeginErase, Stop
  <2>3. ASSUME NEW j \in Jobs, NEW k \in Keys, DeleteKey(j, k)
        PROVE  KeysHaveRows'
    BY <2>3, SameKeysHaveRows DEF DeleteKey, Remove
  <2>4. ASSUME NEW j \in Jobs, Finish(j)
        PROVE  KeysHaveRows'
    <3>1. CASE UNCHANGED <<event, media, lease, checking>>
      BY <2>4, <3>1, SameKeysHaveRows DEF Finish
    <3>2. ASSUME NEW erased \in BOOLEAN, DeleteRows(erased)
          PROVE  KeysHaveRows'
      <4>1. event'.purged
        BY <3>2 DEF DeleteRows, TypeInv, RetentionTypeOK
      <4> QED
        BY <2>4, <3>2, <4>1 DEF Finish, DeleteRows, KeysHaveRows
    <3> QED
      BY <2>4, <3>1, <3>2 DEF Finish
  <2> QED
    BY <1>3, <2>1, <2>2, <2>3, <2>4 DEF OperatorNext, JobStep
<1> QED
  BY <1>1, <1>2, <1>3 DEF RetentionNext

-----------------------------------------------------------------------------
(* The order of an event's end.                                            *)

\* A purge needs the date and an erasure the quarantine, which closes the event; the
\* cover's name goes with the erasure and so do the rows of the photos.
Stages ==
    /\ event.due => event.dated
    /\ event.quarantined => event.state = "cancelled" /\ ~event.open
    /\ event.erased => event.purged /\ event.quarantined
    /\ ~event.erased => cover
    /\ \A j \in Jobs : job[j] # NoJob =>
          \/ job[j].mode = "purge" /\ (event.purged \/ event.dated)
          \/ job[j].mode = "erase" /\ event.quarantined

LEMMA StagesAtFirst == RetentionInit => Stages
BY DEF RetentionInit, Stages

\* The event and its cover change only so.
LEMMA StageRows ==
    ASSUME TypeInv, [RetentionNext]_vars
    PROVE  \/ Publish \/ Unpublish \/ DatePasses \/ Quarantine
           \/ \E j \in Jobs : Finish(j)
           \/ event' = event /\ cover' = cover
<1> USE DEF TypeInv, RetentionTypeOK, media
<1>1. CASE StudioNext
  BY <1>1 DEF StudioNext, Reserve, IssueLease, IssuePreviewLease, CancelBatch, ExcludeAsset,
     RemoveExcluded, BeginRegister, EndRegister, UrlExpires, Upload, BeginVerify,
     CommitVerify, BeginConfirm,
     PutMark, EndConfirm, AbandonConfirm, PublishFails
<1>2. CASE OperatorNext
  BY <1>2 DEF OperatorNext, BeginPurge, BeginErase, JobStep, DeleteKey, Stop
<1>3. CASE UNCHANGED vars
  BY <1>3 DEF vars
<1> QED
  BY <1>1, <1>2, <1>3 DEF RetentionNext

\* The parts of Stages that are about the rows alone.
RowStages(e, c) ==
    /\ e.due => e.dated
    /\ e.quarantined => e.state = "cancelled" /\ ~e.open
    /\ e.erased => e.purged /\ e.quarantined
    /\ ~e.erased => c

\* What never comes back.
Onward(e, f) ==
    /\ e.quarantined => f.quarantined
    /\ e.purged => f.purged
    /\ e.erased => f.erased
    /\ e.dated => f.dated \/ f.purged

LEMMA RowStagesStep ==
    ASSUME TypeInv, Stages, [RetentionNext]_vars
    PROVE  RowStages(event', cover') /\ Onward(event, event')
<1> USE DEF TypeInv, RetentionTypeOK, media, Stages, RowStages, Onward
<1>1. CASE Publish
  BY <1>1 DEF Publish, PublicationReady
<1>2. CASE Unpublish \/ DatePasses
  BY <1>2 DEF Unpublish, DatePasses
<1>3. CASE Quarantine
  BY <1>3 DEF Quarantine, Quarantined
<1>4. ASSUME NEW j \in Jobs, Finish(j)
      PROVE  RowStages(event', cover') /\ Onward(event, event')
  <2>1. CASE UNCHANGED <<event, media, lease, checking>>
    BY <2>1
  <2>2. ASSUME NEW erased \in BOOLEAN, erased => event.quarantined, DeleteRows(erased)
        PROVE  RowStages(event', cover') /\ Onward(event, event')
    <3>1. event' = [event EXCEPT !.purged = TRUE, !.erased = event.erased \/ erased,
                                 !.dated = event.dated /\ ~erased,
                                 !.due = event.due /\ ~erased]
          /\ cover' = (cover /\ ~erased)
      BY <2>2 DEF DeleteRows
    <3>2. /\ event'.purged
          /\ event'.erased = (event.erased \/ erased)
          /\ event'.dated = (event.dated /\ ~erased)
          /\ event'.due = (event.due /\ ~erased)
          /\ event'.quarantined = event.quarantined
          /\ event'.state = event.state
          /\ event'.open = event.open
      BY <3>1
    <3> QED
      BY <2>2, <3>1, <3>2
  <2>3. (job[j].mode = "erase") \in BOOLEAN
    OBVIOUS
  <2> QED
    BY <1>4, <2>1, <2>2, <2>3 DEF Finish
<1>5. CASE event' = event /\ cover' = cover
  BY <1>5
<1> QED
  BY <1>1, <1>2, <1>3, <1>4, <1>5, StageRows

LEMMA StagesStep == TypeInv /\ Stages /\ [RetentionNext]_vars => Stages'
<1> SUFFICES ASSUME TypeInv, Stages, [RetentionNext]_vars PROVE Stages'
  OBVIOUS
<1>1. RowStages(event', cover') /\ Onward(event, event')
  BY RowStagesStep
<1>2. ASSUME NEW j \in Jobs, job'[j] # NoJob
      PROVE  \/ job'[j].mode = "purge" /\ (event'.purged \/ event'.dated)
             \/ job'[j].mode = "erase" /\ event'.quarantined
  <2>1. CASE BeginPurge(j)
    BY <2>1 DEF BeginPurge, Listed, Stages, TypeInv, RetentionTypeOK
  <2>2. CASE BeginErase(j)
    BY <2>2 DEF BeginErase, Listed, TypeInv, RetentionTypeOK
  <2>3. CASE GoesOn(j)
    BY <1>1, <2>3 DEF GoesOn, Stages, Onward
  <2> QED
    BY <1>2, <2>1, <2>2, <2>3, CommandsGoOn
<1> QED
  BY <1>1, <1>2 DEF Stages, RowStages

-----------------------------------------------------------------------------
(* The quarantine closes every way in.                                     *)

Erasing(j) == job[j] # NoJob /\ job[j].mode = "erase"

\* An event becomes erased at the end of an erasure, with its rows and not its objects.
LEMMA EventErased ==
    ASSUME TypeInv, Stages, [RetentionNext]_vars, event'.erased, ~event.erased
    PROVE  \E j \in Jobs : /\ Finish(j) /\ Erasing(j)
                           /\ DeleteRows(TRUE)
<1>1. ASSUME Publish \/ Unpublish \/ DatePasses \/ Quarantine
      PROVE  FALSE
  BY <1>1 DEF Publish, Unpublish, DatePasses, Quarantine, Quarantined, TypeInv,
     RetentionTypeOK
<1>2. PICK j \in Jobs : Finish(j)
  BY <1>1, StageRows
<1>3. ASSUME DeleteRows(FALSE)
      PROVE  FALSE
  BY <1>3 DEF DeleteRows, TypeInv, RetentionTypeOK
<1>4. ~UNCHANGED event
  OBVIOUS
<1>5. CASE job[j].mode = "erase"
  BY <1>2, <1>4, <1>5 DEF Finish, Erasing
<1>6. CASE job[j].mode # "erase"
  BY <1>2, <1>3, <1>4, <1>6 DEF Finish
<1> QED
  BY <1>5, <1>6

\* In quarantine no URL, no registration and no confirmation begins.
NothingOpens ==
    /\ urls' \subseteq urls
    /\ registering' \subseteq registering
    /\ \A c \in confirming' : \E d \in confirming : c = d \/ c = [d EXCEPT !.step = "create"]

LEMMA QuarantineCloses ==
    ASSUME TypeInv, Stages, event.quarantined, [RetentionNext]_vars
    PROVE  NothingOpens
<1>1. event.state = "cancelled" /\ ~event.open
  BY DEF Stages
<1>2. CASE UNCHANGED vars
  BY <1>2 DEF vars, requests, NothingOpens
<1>3. CASE StudioNext
  <2>1. ASSUME NEW c \in confirming, PutMark(c) \/ EndConfirm(c) \/ AbandonConfirm(c)
        PROVE  NothingOpens
    BY <2>1 DEF PutMark, EndConfirm, AbandonConfirm, NothingOpens
  <2>2. ASSUME NEW a \in Assets,
               \/ EndRegister(a) \/ CancelBatch(a) \/ ExcludeAsset(a) \/ RemoveExcluded(a)
        PROVE  NothingOpens
    BY <2>2 DEF EndRegister, CancelBatch, ExcludeAsset, RemoveExcluded, requests, NothingOpens
  <2>3. ASSUME NEW k \in UploadKeys,
               UrlExpires(k) \/ BeginVerify(k) \/ \E isBad \in BOOLEAN : Upload(k, isBad)
        PROVE  NothingOpens
    BY <2>3 DEF UrlExpires, BeginVerify, Upload, requests, NothingOpens
  <2>4. ASSUME NEW c \in checking, CommitVerify(c)
        PROVE  NothingOpens
    BY <2>4 DEF CommitVerify, NothingOpens
  <2>5. ASSUME DatePasses
        PROVE  NothingOpens
    BY <2>5 DEF DatePasses, requests, NothingOpens
  <2> QED
    BY <1>1, <1>3, <2>1, <2>2, <2>3, <2>4, <2>5 DEF StudioNext, Reserve, IssueLease,
       IssuePreviewLease, BeginRegister, AcceptsDerivatives, BeginConfirm, Publish,
       PublishFails, PublicationReady, Unpublish
<1>4. CASE OperatorNext
  BY <1>4 DEF OperatorNext, Quarantine, BeginPurge, BeginErase, JobStep, DeleteKey, Finish,
     Stop, requests, NothingOpens
<1> QED
  BY <1>2, <1>3, <1>4 DEF RetentionNext

-----------------------------------------------------------------------------
(* Rows go last.                                                           *)

\* An object that a row names is one that the command has still to delete, or was written
\* after it had listed them; unless another command has ended before it.
Pending ==
    \A j \in Jobs :
        /\ job[j] # NoJob /\ job[j].mode = "purge" /\ ~event.purged
              => store \cap Named(FALSE) \subseteq job[j].left \cup job[j].since
        /\ Erasing(j) /\ ~event.erased
              => store \cap Named(TRUE) \subseteq job[j].left \cup job[j].since

LEMMA PendingAtFirst == RetentionInit => Pending /\ KeysHaveRows
BY UploadKeysAre DEF RetentionInit, Pending, Erasing, KeysHaveRows

\* An object that is there when a row begins to name it is the manifest of a publication,
\* or the mark of a confirmation, and every command hears of it.
LEMMA NotedIs ==
    ASSUME TypeInv, NEW k, job' = Noted(k), NEW j \in Jobs, job'[j] # NoJob
    PROVE  k \in job'[j].left \cup job'[j].since
<1>1. job[j] # NoJob /\ job'[j] = [job[j] EXCEPT !.since = @ \cup ({k} \ job[j].left)]
  BY DEF Noted
<1>2. job[j] \in JobStates
  BY <1>1 DEF TypeInv, RetentionTypeOK
<1> QED
  BY <1>1, <1>2 DEF JobStates

LEMMA NewNames ==
    ASSUME TypeInv, KeysHaveRows, [RetentionNext]_vars, NEW withCover \in BOOLEAN,
           NEW k \in store, k \in Named(withCover)', k \notin Named(withCover)
    PROVE  \A j \in Jobs : job'[j] # NoJob => k \in job'[j].left \cup job'[j].since
<1> USE UploadKeysAre, KeysDiffer
<1> USE DEF TypeInv, RetentionTypeOK, RowsKnown, ChecksCount, media
<1>1. ASSUME UNCHANGED <<manifests, policy, cover>>,
             \A l \in UploadKeys : upload'[l] # "none" => upload[l] # "none"
      PROVE  FALSE
  BY <1>1 DEF Named
<1>2. CASE UNCHANGED vars
  BY <1>1, <1>2 DEF vars
<1>3. CASE StudioNext
  <2>1. ASSUME NEW a \in Assets, Reserve(a)
        PROVE  FALSE
    <3>1. Original(a) \notin store
      BY <2>1 DEF Reserve, KeysHaveRows
    <3>2. \A l \in UploadKeys : upload'[l] # "none" => upload[l] # "none" \/ l = Original(a)
      BY <2>1 DEF Reserve
    <3>3. policy' \in Marks => policy' = policy
      BY <2>1 DEF Reserve
    <3> QED
      BY <2>1, <3>1, <3>2, <3>3 DEF Named, Reserve
  <2>2. ASSUME NEW a \in Assets, EndRegister(a)
        PROVE  FALSE
    <3>1. upload' = upload \/ Preview(a) \notin store
      BY <2>2 DEF EndRegister, KeysHaveRows
    <3>2. \A l \in UploadKeys : upload'[l] # "none" => upload[l] # "none" \/ l = Preview(a)
      BY <2>2 DEF EndRegister
    <3> QED
      BY <2>2, <3>1, <3>2 DEF Named, EndRegister
  <2>3. CASE Publish
    <3>1. k = Manifest(event.generation)
      <4>1. \A l \in UploadKeys : upload'[l] # "none" => upload[l] # "none"
        BY <2>3 DEF Publish
      <4> QED
        BY <2>3, <4>1 DEF Publish, Named
    <3>2. job' = Noted(Manifest(event.generation))
      BY <2>3 DEF Publish, StoreManifest
    <3> QED
      BY <3>1, <3>2, NotedIs
  <2>4. ASSUME NEW c \in confirming, EndConfirm(c)
        PROVE  k = MarkKey /\ job' = Noted(MarkKey)
    BY <2>4 DEF EndConfirm, Named
  <2>5. ASSUME NEW a \in Assets, ExcludeAsset(a) \/ CancelBatch(a)
        PROVE  FALSE
    BY <1>1, <2>5 DEF ExcludeAsset, CancelBatch
  <2>6. ASSUME NEW c \in checking, CommitVerify(c)
        PROVE  FALSE
    BY <1>1, <2>6 DEF CommitVerify, ChecksCount
  <2>7. \/ UNCHANGED media
        \/ Publish
        \/ \E a \in Assets : Reserve(a) \/ EndRegister(a) \/ ExcludeAsset(a) \/ CancelBatch(a)
        \/ \E c \in checking : CommitVerify(c)
        \/ \E c \in confirming : EndConfirm(c)
    BY <1>3 DEF StudioNext, IssueLease, IssuePreviewLease, RemoveExcluded, BeginRegister,
       UrlExpires, Upload, BeginVerify, BeginConfirm, PutMark, AbandonConfirm,
       PublishFails, Unpublish, DatePasses
  <2> QED
    BY <1>1, <2>1, <2>2, <2>3, <2>4, <2>5, <2>6, <2>7, NotedIs
<1>4. CASE OperatorNext
  <2>1. UNCHANGED media \/ \E erased \in BOOLEAN : DeleteRows(erased)
    BY <1>4 DEF OperatorNext, Quarantine, BeginPurge, BeginErase, JobStep, DeleteKey,
       Finish, Stop
  <2>2. ASSUME NEW erased \in BOOLEAN, DeleteRows(erased)
        PROVE  FALSE
    <3>1. cover' => cover
      BY <2>2 DEF DeleteRows
    <3>2. /\ \A l \in UploadKeys : upload'[l] = "none"
          /\ manifests' = {} /\ policy' \notin Marks
      BY <2>2 DEF DeleteRows
    <3> QED
      BY <3>1, <3>2 DEF Named
  <2> QED
    BY <1>1, <2>1, <2>2
<1> QED
  BY <1>2, <1>3, <1>4 DEF RetentionNext

LEMMA PendingStep ==
    /\ TypeInv /\ KeysHaveRows /\ Stages /\ Pending
    /\ [RetentionNext]_vars
    => Pending'
<1> SUFFICES ASSUME TypeInv, KeysHaveRows, Stages, Pending, [RetentionNext]_vars,
                    NEW j \in Jobs, job'[j] # NoJob
             PROVE  /\ job'[j].mode = "purge" /\ ~event'.purged
                          => store' \cap Named(FALSE)' \subseteq job'[j].left \cup job'[j].since
                    /\ job'[j].mode = "erase" /\ ~event'.erased
                          => store' \cap Named(TRUE)' \subseteq job'[j].left \cup job'[j].since
  BY DEF Pending, Erasing
<1>1. Onward(event, event')
  BY RowStagesStep
<1>2. CASE BeginPurge(j)
  <2>1. job'[j] = Listed("purge") /\ UNCHANGED <<upload, manifests, policy, cover>>
    BY <1>2 DEF BeginPurge, media, TypeInv, RetentionTypeOK
  <2>2. Listed("purge").mode = "purge" /\ Listed("purge").left = Named(FALSE)
    BY DEF Listed, ListsCover, Named
  <2>3. Named(FALSE)' = Named(FALSE)
    BY <2>1 DEF Named
  <2> QED
    BY <2>1, <2>2, <2>3
<1>3. CASE BeginErase(j)
  <2>1. job'[j] = Listed("erase") /\ UNCHANGED <<upload, manifests, policy, cover>>
    BY <1>3 DEF BeginErase, media, TypeInv, RetentionTypeOK
  <2>2. Listed("erase").mode = "erase" /\ Listed("erase").left = Named(TRUE)
    BY DEF Listed, ListsCover, Named
  <2>3. Named(TRUE)' = Named(TRUE)
    BY <2>1 DEF Named
  <2> QED
    BY <2>1, <2>2, <2>3
<1>4. CASE GoesOn(j)
  <2>1. ASSUME job'[j].mode = "purge", ~event'.purged, NEW k \in store', k \in Named(FALSE)'
        PROVE  k \in job'[j].left \cup job'[j].since
    <3>1. job[j] # NoJob /\ job[j].mode = "purge" /\ ~event.purged
      BY <1>1, <1>4, <2>1 DEF GoesOn, Onward
    <3>3. CASE k \in store /\ k \in Named(FALSE)
      BY <1>4, <2>1, <3>1, <3>3 DEF GoesOn, Pending
    <3>4. CASE k \in store /\ k \notin Named(FALSE)
      BY <2>1, <3>4, NewNames
    <3>5. CASE k \notin store
      BY <1>4, <2>1, <3>5 DEF GoesOn
    <3> QED
      BY <3>3, <3>4, <3>5
  <2>2. ASSUME job'[j].mode = "erase", ~event'.erased, NEW k \in store', k \in Named(TRUE)'
        PROVE  k \in job'[j].left \cup job'[j].since
    <3>1. Erasing(j) /\ ~event.erased
      BY <1>1, <1>4, <2>2 DEF GoesOn, Onward, Erasing
    <3>3. CASE k \in store /\ k \in Named(TRUE)
      BY <1>4, <2>2, <3>1, <3>3 DEF GoesOn, Pending
    <3>4. CASE k \in store /\ k \notin Named(TRUE)
      BY <2>2, <3>4, NewNames
    <3>5. CASE k \notin store
      BY <1>4, <2>2, <3>5 DEF GoesOn
    <3> QED
      BY <3>3, <3>4, <3>5
  <2> QED
    BY <2>1, <2>2
<1> QED
  BY <1>2, <1>3, <1>4, CommandsGoOn

LEMMA RowsDeleted ==
    ASSUME TypeInv, DeleteRows(TRUE)
    PROVE  Named(TRUE)' = {} /\ \A k \in UploadKeys : upload'[k] = "none"
<1>1. /\ \A k \in UploadKeys : upload'[k] = "none"
      /\ manifests' = {} /\ policy' \notin Marks /\ ~cover'
  BY DEF DeleteRows
<1> QED
  BY <1>1 DEF Named

\* An erased event has no row of a photo.
NoPhotos == event.erased => \A k \in UploadKeys : upload[k] = "none"

\* What an erased event still gets: objects over live URLs, the mark of a confirmation.
ErasedGets ==
    /\ \A k \in UploadKeys : upload'[k] = "none"
    /\ \A k \in store' \ store : k \in urls \/ (k = MarkKey /\ \E c \in confirming : c.step = "put")
    /\ \A k \in Named(TRUE)' \ Named(TRUE) :
          k = MarkKey /\ \E c \in confirming : c.step = "create"

LEMMA ErasedStays ==
    ASSUME TypeInv, Stages, NoPhotos, event.erased, [RetentionNext]_vars
    PROVE  ErasedGets
<1> USE UploadKeysAre, KeysDiffer DEF TypeInv, RetentionTypeOK, media, bucket
<1>1. /\ event.state = "cancelled" /\ ~event.open
      /\ \A k \in UploadKeys : upload[k] = "none"
  BY DEF Stages, NoPhotos
<1>2. ASSUME UNCHANGED <<upload, manifests, policy, cover>>, store' \subseteq store
      PROVE  ErasedGets
  BY <1>1, <1>2 DEF ErasedGets, Named
<1>3. CASE UNCHANGED vars
  BY <1>2, <1>3 DEF vars
<1>4. CASE StudioNext
  <2>1. ASSUME NEW k \in UploadKeys, NEW isBad \in BOOLEAN, Upload(k, isBad)
        PROVE  ErasedGets
    BY <1>1, <2>1 DEF Upload, ErasedGets, Named
  <2>2. ASSUME NEW c \in confirming, PutMark(c)
        PROVE  ErasedGets
    BY <1>1, <2>2 DEF PutMark, ErasedGets, Named
  <2>3. ASSUME NEW c \in confirming, EndConfirm(c)
        PROVE  ErasedGets
    BY <1>1, <2>3 DEF EndConfirm, ErasedGets, Named
  <2>4. ASSUME NEW a \in Assets, EndRegister(a)
        PROVE  ErasedGets
    BY <1>1, <1>2, <2>4 DEF EndRegister
  <2>5. ASSUME NEW k \in UploadKeys, UrlExpires(k) \/ BeginVerify(k)
        PROVE  ErasedGets
    BY <1>2, <2>5 DEF UrlExpires, BeginVerify
  <2>6. ASSUME NEW c \in confirming, AbandonConfirm(c)
        PROVE  ErasedGets
    BY <1>2, <2>6 DEF AbandonConfirm
  <2>7. CASE DatePasses
    BY <1>2, <2>7 DEF DatePasses
  <2>8. ASSUME NEW c \in checking, CommitVerify(c)
        PROVE  FALSE
    BY <1>1, <2>8 DEF ChecksCount
  <2> QED
    BY <1>1, <1>4, <2>1, <2>2, <2>3, <2>4, <2>5, <2>6, <2>7, <2>8 DEF StudioNext, Reserve,
       IssueLease, IssuePreviewLease, CancelBatch, ExcludeAsset, RemoveExcluded,
       BeginRegister, AcceptsDerivatives, BeginConfirm, Publish, PublishFails,
       PublicationReady, Unpublish
<1>5. CASE OperatorNext
  <2>1. store' \subseteq store
    BY <1>5 DEF OperatorNext, Quarantine, BeginPurge, BeginErase, JobStep, DeleteKey,
       Remove, Finish, Stop
  <2>2. UNCHANGED media \/ \E erased \in BOOLEAN : DeleteRows(erased)
    BY <1>5 DEF OperatorNext, Quarantine, BeginPurge, BeginErase, JobStep, DeleteKey,
       Finish, Stop
  <2>3. ASSUME NEW erased \in BOOLEAN, DeleteRows(erased)
        PROVE  ErasedGets
    <3>1. /\ \A k \in UploadKeys : upload'[k] = "none"
          /\ manifests' = {} /\ policy' \notin Marks /\ (cover' => cover)
      BY <2>3 DEF DeleteRows
    <3> QED
      BY <2>1, <3>1 DEF ErasedGets, Named
  <2> QED
    BY <1>2, <2>1, <2>2, <2>3
<1> QED
  BY <1>3, <1>4, <1>5 DEF RetentionNext

LEMMA NoPhotosStep == TypeInv /\ Stages /\ NoPhotos /\ [RetentionNext]_vars => NoPhotos'
<1> SUFFICES ASSUME TypeInv, Stages, NoPhotos, [RetentionNext]_vars, event'.erased
             PROVE  \A k \in UploadKeys : upload'[k] = "none"
  BY DEF NoPhotos
<1>1. CASE event.erased
  BY <1>1, ErasedStays DEF ErasedGets
<1>2. CASE ~event.erased
  BY <1>2, EventErased, RowsDeleted
<1> QED
  BY <1>1, <1>2

\* The whole invariant of the operator's commands.
CommandsInv == KeysHaveRows /\ Stages /\ Pending /\ NoPhotos

LEMMA CommandsInvariant == RetentionSpec => [](TypeInv /\ CommandsInv)
<1>1. RetentionInit => CommandsInv
  BY StagesAtFirst, PendingAtFirst DEF CommandsInv, NoPhotos, RetentionInit
<1>2. TypeInv /\ CommandsInv /\ [RetentionNext]_vars => CommandsInv'
  BY KeysHaveRowsStep, StagesStep, PendingStep, NoPhotosStep DEF CommandsInv
<1> QED
  BY <1>1, <1>2, TypeInvariant, PTL DEF RetentionSpec

\* Names go with the rows at the end of a command.
LEMMA NamesGo ==
    ASSUME TypeInv, [RetentionNext]_vars, NEW k \in Named(TRUE), k \notin Named(TRUE)'
    PROVE  \E j \in Jobs : /\ Finish(j)
                           /\ IF job[j].mode = "erase" THEN ~event.erased ELSE ~event.purged
                           /\ DeleteRows(job[j].mode = "erase")
<1> USE DEF TypeInv, RetentionTypeOK, media
<1>1. ASSUME cover' = cover, manifests \subseteq manifests',
             policy \in Marks => policy' = policy,
             \A l \in UploadKeys : upload[l] # "none" => upload'[l] # "none"
      PROVE  FALSE
  BY <1>1 DEF Named
<1>2. CASE UNCHANGED vars
  BY <1>1, <1>2 DEF vars
<1>3. CASE StudioNext
  <2>1. ASSUME NEW a \in Assets,
               Reserve(a) \/ EndRegister(a) \/ ExcludeAsset(a) \/ CancelBatch(a)
        PROVE  FALSE
    BY <1>1, <2>1 DEF Reserve, EndRegister, ExcludeAsset, CancelBatch
  <2>2. ASSUME NEW c \in checking, CommitVerify(c)
        PROVE  FALSE
    BY <1>1, <2>2 DEF CommitVerify
  <2>3. CASE Publish
    BY <1>1, <2>3 DEF Publish
  <2>4. ASSUME NEW c \in confirming, EndConfirm(c)
        PROVE  FALSE
    BY <1>1, <2>4 DEF EndConfirm
  <2>5. \/ UNCHANGED media
        \/ Publish
        \/ \E a \in Assets : Reserve(a) \/ EndRegister(a) \/ ExcludeAsset(a) \/ CancelBatch(a)
        \/ \E c \in checking : CommitVerify(c)
        \/ \E c \in confirming : EndConfirm(c)
    BY <1>3 DEF StudioNext, IssueLease, IssuePreviewLease, RemoveExcluded, BeginRegister,
       UrlExpires, Upload, BeginVerify, BeginConfirm, PutMark, AbandonConfirm,
       PublishFails, Unpublish, DatePasses
  <2> QED
    BY <1>1, <2>1, <2>2, <2>3, <2>4, <2>5
<1>4. CASE OperatorNext
  <2>1. ~UNCHANGED media
    BY <1>1
  <2> QED
    BY <1>4, <2>1 DEF OperatorNext, Quarantine, BeginPurge, BeginErase, JobStep, DeleteKey,
       Finish, Stop
<1> QED
  BY <1>2, <1>3, <1>4 DEF RetentionNext

\* A command deletes the rows that name an object after the object, however many commands
\* run at once and wherever they stop, but for what it could not have listed.
THEOREM RowsGoLast == RetentionSpec => RowsOutliveObjects
<1>1. TypeInv /\ CommandsInv /\ [RetentionNext]_vars
          => \A k \in Named(TRUE) \cap store' :
                k \notin Named(TRUE)' => \E j \in Jobs : job[j] # NoJob /\ k \in job[j].since
  <2> SUFFICES ASSUME TypeInv, CommandsInv, [RetentionNext]_vars,
                      NEW k \in Named(TRUE) \cap store', k \notin Named(TRUE)'
               PROVE  \E j \in Jobs : job[j] # NoJob /\ k \in job[j].since
    OBVIOUS
  <2>1. PICK j \in Jobs : /\ Finish(j)
                          /\ IF job[j].mode = "erase" THEN ~event.erased ELSE ~event.purged
                          /\ DeleteRows(job[j].mode = "erase")
    BY NamesGo
  <2>2. job[j] # NoJob /\ job[j].left = {} /\ k \in store
    BY <2>1 DEF Finish, bucket
  <2>3. job[j].mode \in {"purge", "erase"}
    BY <2>2 DEF TypeInv, RetentionTypeOK, JobStates
  <2>4. CASE job[j].mode = "erase"
    BY <2>1, <2>2, <2>4 DEF CommandsInv, Pending, Erasing
  <2>5. CASE job[j].mode = "purge"
    <3>1. cover => cover'
      BY <2>1, <2>5 DEF DeleteRows
    <3>2. k \in Named(FALSE)
      BY <3>1 DEF Named
    <3> QED
      BY <2>1, <2>2, <2>5, <3>2 DEF CommandsInv, Pending
  <2> QED
    BY <2>3, <2>4, <2>5
<1> QED
  BY <1>1, CommandsInvariant, PTL DEF RetentionSpec, RowsOutliveObjects

\* At the end of an erasure no row names an object, and of an event that was not purged
\* before no photo and no cover is left but what was written behind the command's back; in
\* quarantine nothing opens through which more could come.
THEOREM ErasureIsFinal == RetentionSpec => OnlyLatecomersStay
<1> DEFINE Erasure ==
        event'.erased /\ ~event.erased =>
            /\ Named(TRUE)' = {}
            /\ \/ event.purged
               \/ \E j \in Jobs :
                     /\ job[j] # NoJob
                     /\ store' \cap (UploadKeys \cup {CoverKey}) \subseteq job[j].since
<1>1. TypeInv /\ CommandsInv /\ [RetentionNext]_vars => Erasure
  <2> SUFFICES ASSUME TypeInv, CommandsInv, [RetentionNext]_vars, event'.erased, ~event.erased
               PROVE  /\ Named(TRUE)' = {}
                      /\ \/ event.purged
                         \/ \E j \in Jobs :
                               /\ job[j] # NoJob
                               /\ store' \cap (UploadKeys \cup {CoverKey}) \subseteq job[j].since
    OBVIOUS
  <2>1. PICK j \in Jobs : Finish(j) /\ Erasing(j) /\ DeleteRows(TRUE)
    BY EventErased DEF CommandsInv
  <2>2. ASSUME ~event.purged, NEW k \in store', k \in UploadKeys \cup {CoverKey}
        PROVE  k \in job[j].since
    <3>1. k \in store /\ job[j].left = {}
      BY <2>1, <2>2 DEF Finish, bucket
    <3>2. k \in Named(TRUE)
      BY <2>2, <3>1 DEF CommandsInv, KeysHaveRows, Stages, Named
    <3> QED
      BY <2>1, <3>1, <3>2 DEF CommandsInv, Pending
  <2> QED
    BY <2>1, <2>2, RowsDeleted DEF Erasing
<1>2. TypeInv /\ CommandsInv /\ [RetentionNext]_vars /\ event.quarantined => NothingOpens
  BY QuarantineCloses DEF CommandsInv
<1>3. TypeInv /\ CommandsInv /\ [RetentionNext]_vars /\ event.erased => ErasedGets
  BY ErasedStays DEF CommandsInv
<1>4. TypeInv /\ CommandsInv /\ [RetentionNext]_vars
          => /\ event.quarantined =>
                  /\ urls' \subseteq urls /\ registering' \subseteq registering
                  /\ \A c \in confirming' :
                        \E d \in confirming : c = d \/ c = [d EXCEPT !.step = "create"]
             /\ Erasure
             /\ event.erased =>
                  /\ \A k \in store' \ store :
                        k \in urls \/ (k = MarkKey /\ \E c \in confirming : c.step = "put")
                  /\ \A k \in Named(TRUE)' \ Named(TRUE) :
                        k = MarkKey /\ \E c \in confirming : c.step = "create"
  BY <1>1, <1>2, <1>3 DEF NothingOpens, ErasedGets
<1> QED
  BY <1>4, CommandsInvariant, PTL DEF RetentionSpec, OnlyLatecomersStay

=============================================================================
