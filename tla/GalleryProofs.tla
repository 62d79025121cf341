---------------------------- MODULE GalleryProofs ----------------------------
(***************************************************************************)
(* What is in the bucket, what a published gallery shows, and that the     *)
(* service implements PhotoArchive, for any constants.                     *)
(***************************************************************************)
EXTENDS IngestionProofs

-----------------------------------------------------------------------------
(* The bucket.  HEAD, transaction and delete are not atomic; what makes it  *)
(* safe is that a delete always leaves the photo's original excluded, and   *)
(* excluded for good.                                                       *)

\* Bytes other than the signed ones are refused, and what a cleanup deletes
\* its transaction excludes.
SoundStore == BadPuts = FALSE /\ CleanupFails = FALSE

\* A row that is verified, or about to be by a request that has seen the
\* object, belongs to an object in the bucket.
StoredInv ==
    \A o \in Objects : object[Original(o[1])] # "excluded" =>
        /\ object[o] = "verified" => store[o] = "good"
        /\ \A r \in Requests :
              request[r] # Idle /\ request[r].object = o /\ request[r].head = "good"
                  => store[o] = "good"

\* A delete leaves the original of its photo excluded.
LEMMA DeletedIsExcluded ==
    ASSUME DataTypeOK, RowsInv, HonestStore, SoundStore, [Next]_vars,
           NEW o \in Objects, store[o] = "good", object'[Original(o[1])] # "excluded"
    PROVE  store'[o] = "good"
<1> USE VariantFacts DEF DataTypeOK, ObjectTypeOK, objectVars
<1>1. CASE UNCHANGED store
  BY <1>1
<1>2. ASSUME NEW a \in Assets, VerifyExcluded(a) \/ ExcludeAsset(a)
      PROVE  store'[o] = "good"
  <2>1. object'[Original(a)] = "excluded" /\ store' = [store EXCEPT ![Original(a)] = "none"]
    BY <1>2 DEF VerifyExcluded, ExcludeAsset
  <2>2. o # Original(a)
    BY <2>1 DEF Original
  <2> QED
    BY <2>1, <2>2
<1>3. ASSUME NEW p \in Objects, Upload(p) \/ CleanupRollsBack(p)
      PROVE  store'[o] = "good"
  BY <1>3 DEF Upload, CleanupRollsBack, SoundStore
<1>4. ASSUME NEW b \in Batches, CancelBatch(b)
      PROVE  store'[o] = "good"
  <2>1. CASE o \in ObjectsOf(b)
    <3>1. BatchOf[o[1]] = b /\ o[1] \in Assets /\ Original(o[1]) \in ObjectsOf(b)
      BY <2>1 DEF ObjectsOf, AssetsOf, Original, Variants
    <3>2. object[Original(o[1])] # "absent"
      BY <1>4, <3>1 DEF CancelBatch, MayCancel, RowsInv
    <3> QED
      BY <1>4, <3>1, <3>2 DEF CancelBatch, Releasable
  <2>2. CASE o \notin ObjectsOf(b)
    BY <1>4, <2>2 DEF CancelBatch
  <2> QED
    BY <2>1, <2>2
<1>5. ASSUME NEW r \in Requests, CommitVerify(r) \/ CommitVerifyDerivative(r)
      PROVE  store'[o] = "good"
  <2>1. request[r].object \in Objects /\ request[r].head # "bad"
    BY <1>5, RequestFacts DEF CommitVerify, CommitVerifyDerivative, HonestStore, SoundStore
  <2>2. \/ UNCHANGED store
        \/ /\ request[r].object[2] = "original"
           /\ object[request[r].object] = "excluded"
           /\ UNCHANGED object
           /\ store' = [store EXCEPT ![request[r].object] = "none"]
    BY <1>5, <2>1 DEF CommitVerify, CommitVerifyDerivative
  <2> QED
    BY <2>1, <2>2
<1>6. \/ UNCHANGED store
      \/ \E a \in Assets : VerifyExcluded(a) \/ ExcludeAsset(a)
      \/ \E p \in Objects : Upload(p) \/ CleanupRollsBack(p)
      \/ \E b \in Batches : CancelBatch(b)
      \/ \E r \in Requests : CommitVerify(r) \/ CommitVerifyDerivative(r)
  BY DEF Next, vars, ContributionNext, Reserve, IssueLease, IssueDerivativeLease,
         LeaseExpires, RevokeInstallation, RequestNext, BeginVerify, BeginRegister,
         BeginVerifyDerivative, CommitRegister, AbortVerify, ProcessingNext,
         SubmitAnalysis, SubmitConflicting, ReportFaceFailure, ResetAnalysis, HideAsset,
         RestoreAsset, ReportDerivativeFailure, RefreshDerivativeReadiness,
         RefreshFaceReadiness, RefreshIsLost, StructureNext, SetSubEventArchived, Reassign,
         PublicationNext, PublishSnapshot, PublishRollsBack, UnpublishEvent, ReopenEvent,
         CloseEventIntake, PrepareEventManifest, FinalizeAgain, CommitEventManifest,
         AbandonEventFinalize, MoveEvent
<1> QED
  BY <1>1, <1>2, <1>3, <1>4, <1>5, <1>6

\* A row becomes verified only by a request that has found its object.
LEMMA NewlyVerified ==
    ASSUME DataTypeOK, HonestStore, SoundStore, [Next]_vars,
           NEW o \in Objects, object[o] # "verified", object'[o] = "verified"
    PROVE  \E r \in Requests : /\ request[r] # Idle
                               /\ request[r].object = o
                               /\ request[r].head = "good"
<1> USE VariantFacts DEF DataTypeOK, ObjectTypeOK, objectVars
<1>1. ASSUME NEW r \in Requests, CommitVerify(r)
      PROVE  request[r].object = o /\ request[r] # Idle /\ request[r].head = "good"
  <2>1. request[r].object \in Objects /\ request[r] # Idle
    BY <1>1, RequestFacts DEF CommitVerify
  <2>2. \/ UNCHANGED object
        \/ object' = [object EXCEPT ![request[r].object] = "failed"]
        \/ /\ object' = [object EXCEPT ![request[r].object] = "verified"]
           /\ request[r].head = "good"
    BY <1>1 DEF CommitVerify
  <2> QED
    BY <2>1, <2>2
<1>2. ASSUME NEW r \in Requests, CommitVerifyDerivative(r)
      PROVE  request[r].object = o /\ request[r] # Idle /\ request[r].head = "good"
  <2>1. request[r].object \in Objects /\ request[r] # Idle
    BY <1>2, RequestFacts DEF CommitVerifyDerivative
  <2>2. \/ object' = [object EXCEPT ![request[r].object] = "failed"]
        \/ /\ object' = [object EXCEPT ![request[r].object] = "verified"]
           /\ request[r].head = "good"
    BY <1>2 DEF CommitVerifyDerivative
  <2> QED
    BY <2>1, <2>2
<1>3. ASSUME NEW a \in Assets, IssueLease(a) \/ ExcludeAsset(a)
      PROVE  FALSE
  BY <1>3 DEF IssueLease, ExcludeAsset
<1>4. ASSUME NEW b \in Batches, NEW s \in SubEvents, Reserve(b, s)
      PROVE  FALSE
  BY <1>4 DEF Reserve
<1>5. ASSUME NEW b \in Batches, CancelBatch(b)
      PROVE  FALSE
  BY <1>5 DEF CancelBatch
<1>6. ASSUME NEW r \in Requests, CommitRegister(r)
      PROVE  FALSE
  BY <1>6 DEF CommitRegister
<1>7. CASE PublishSnapshot
  BY <1>7 DEF PublishSnapshot
<1>8. \/ UNCHANGED object
      \/ \E b \in Batches, s \in SubEvents : Reserve(b, s)
      \/ \E a \in Assets : IssueLease(a) \/ ExcludeAsset(a)
      \/ \E b \in Batches : CancelBatch(b)
      \/ \E r \in Requests : CommitVerify(r) \/ CommitRegister(r) \/ CommitVerifyDerivative(r)
      \/ PublishSnapshot
  BY ObjectChanges
<1> QED
  BY <1>1, <1>2, <1>3, <1>4, <1>5, <1>6, <1>7, <1>8

\* Verified and stored go together through every step of an honest store.
LEMMA StoredStep ==
    ASSUME DataTypeOK, RowsInv, HonestStore, SoundStore, StoredInv, [Next]_vars
    PROVE  StoredInv'
<1> SUFFICES ASSUME NEW o \in Objects, object'[Original(o[1])] # "excluded"
             PROVE  /\ object'[o] = "verified" => store'[o] = "good"
                    /\ \A r \in Requests :
                          request'[r] # Idle /\ request'[r].object = o
                            /\ request'[r].head = "good" => store'[o] = "good"
  BY DEF StoredInv
<1>1. object[Original(o[1])] # "excluded"
  BY ExcludedStays, VariantFacts
<1>2. ASSUME object'[o] = "verified" PROVE store'[o] = "good"
  <2>1. store[o] = "good"
    BY <1>1, <1>2, NewlyVerified DEF StoredInv
  <2> QED
    BY <2>1, DeletedIsExcluded
<1>3. ASSUME NEW r \in Requests, request'[r] # Idle, request'[r].object = o,
             request'[r].head = "good"
      PROVE  store'[o] = "good"
  <2>1. CASE request'[r] = request[r]
    BY <1>1, <1>3, <2>1, DeletedIsExcluded DEF StoredInv
  <2>2. CASE request'[r] # request[r]
    <3>1. \/ \E q \in Requests, a \in Assets : BeginVerify(q, a) \/ BeginRegister(q, a)
          \/ \E q \in Requests, a \in Assets, v \in Derivatives : BeginVerifyDerivative(q, a, v)
          \/ \E q \in Requests : request' = [request EXCEPT ![q] = Idle]
      BY <2>2, RequestChanges
    <3> USE DEF DataTypeOK, ObjectTypeOK, CallTypeOK, objectVars
    <3>2. ASSUME NEW q \in Requests, NEW a \in Assets, BeginVerify(q, a) \/ BeginRegister(q, a)
          PROVE  store'[o] = "good"
      BY <1>3, <2>2, <3>2 DEF BeginVerify, BeginRegister
    <3>3. ASSUME NEW q \in Requests, NEW a \in Assets, NEW v \in Derivatives,
                 BeginVerifyDerivative(q, a, v)
          PROVE  store'[o] = "good"
      BY <1>3, <2>2, <3>3 DEF BeginVerifyDerivative
    <3>4. ASSUME NEW q \in Requests, request' = [request EXCEPT ![q] = Idle]
          PROVE  FALSE
      BY <1>3, <2>2, <3>4
    <3> QED
      BY <3>1, <3>2, <3>3, <3>4
  <2> QED
    BY <2>1, <2>2
<1> QED
  BY <1>2, <1>3

\* Every verified object of a kept photo is in the bucket, although requests
\* decide from what they saw before their transaction.
THEOREM VerifiedIsStoredAlways ==
    ASSUME SoundStore
    PROVE  Spec => []VerifiedIsStored
<1>1. Init => HonestStore /\ StoredInv
  BY VariantFacts DEF Init, IngestionInit, HonestStore, StoredInv
<1>2. ContributionInv /\ HonestStore /\ StoredInv /\ [Next]_vars => (HonestStore /\ StoredInv)'
  BY HonestStep, StoredStep DEF ContributionInv
<1>3. StoredInv => VerifiedIsStored
  BY VariantFacts DEF StoredInv, VerifiedIsStored, Kept, Objects
<1> QED
  BY <1>1, <1>2, <1>3, ContributionInvariant, PTL DEF Spec

\* While its contribution is not given up an original's URL is usable only as
\* long as its lease, and an excluded one has neither object nor URL.
GoneInv ==
    \A a \in Assets : batch[BatchOf[a]] \notin {"not_included", "cancelled"} =>
        /\ url[Original(a)] => lease[Original(a)]
        /\ object[Original(a)] = "excluded" => store[Original(a)] = "none" /\ ~url[Original(a)]

\* No step puts back an original excluded one by one, nor gives it a URL.
LEMMA GoneStep ==
    ASSUME DataTypeOK, RowsInv, HonestStore, BadPuts = FALSE, GoneInv, [Next]_vars
    PROVE  GoneInv'
<1> SUFFICES ASSUME NEW a \in Assets, batch'[BatchOf[a]] \notin {"not_included", "cancelled"}
             PROVE  /\ url'[Original(a)] => lease'[Original(a)]
                    /\ object'[Original(a)] = "excluded" =>
                           store'[Original(a)] = "none" /\ ~url'[Original(a)]
  BY DEF GoneInv
<1> DEFINE o == Original(a)
<1> USE VariantFacts
    DEF GoneInv, DataTypeOK, ContributionTypeOK, ObjectTypeOK, objectVars, batchVars
<1>1. CASE UNCHANGED <<batch, object, lease, url, store>>
  BY <1>1
<1>2. ASSUME NEW b \in Batches, NEW s \in SubEvents, Reserve(b, s)
      PROVE  GoneInv'
  BY <1>2 DEF Reserve, AssetsOf, Original
<1>3. ASSUME NEW c \in Assets, IssueLease(c)
      PROVE  GoneInv'
  BY <1>3 DEF IssueLease, Leasable
<1>4. ASSUME NEW c \in Assets, ExcludeAsset(c)
      PROVE  GoneInv'
  <2>1. /\ ~lease[Original(c)] /\ object[Original(c)] \in {"reserved", "failed"}
        /\ object' = [object EXCEPT ![Original(c)] = "excluded"]
        /\ store' = [store EXCEPT ![Original(c)] = "none"]
        /\ UNCHANGED <<lease, url>>
    BY <1>4 DEF ExcludeAsset, LeaseOver
  <2>2. \A b \in Batches : batch'[b] \notin {"not_included", "cancelled"}
                              => batch[b] \notin {"not_included", "cancelled"}
    BY <1>4 DEF ExcludeAsset, CompleteIfTerminal
  <2> QED
    BY <2>1, <2>2
<1>5. ASSUME NEW c \in Assets, VerifyExcluded(c)
      PROVE  GoneInv'
  BY <1>5 DEF VerifyExcluded
<1>6. ASSUME NEW c \in Assets, NEW v \in Derivatives, IssueDerivativeLease(c, v)
      PROVE  GoneInv'
  BY <1>6 DEF IssueDerivativeLease, Original
<1>7. ASSUME NEW p \in Objects, LeaseExpires(p) \/ Upload(p) \/ CleanupRollsBack(p)
      PROVE  GoneInv'
  BY <1>7 DEF LeaseExpires, Upload, CleanupRollsBack
<1>8. ASSUME NEW b \in Batches, CancelBatch(b)
      PROVE  GoneInv'
  BY <1>8 DEF CancelBatch, Releasable, ObjectsOf, AssetsOf, Original
<1>9. ASSUME NEW r \in Requests, CommitVerify(r)
      PROVE  GoneInv'
  <2>1. request[r].object \in Objects /\ request[r].head # "bad"
    BY <1>9, RequestFacts DEF CommitVerify, HonestStore
  <2>2. /\ UNCHANGED object \/ object' = [object EXCEPT ![request[r].object] = "verified"]
        /\ UNCHANGED store \/ store' = [store EXCEPT ![request[r].object] = "none"]
        /\ UNCHANGED <<lease, url>>
    BY <1>9, <2>1 DEF CommitVerify
  <2>3. \A b \in Batches : batch'[b] \notin {"not_included", "cancelled"}
                              => batch[b] \notin {"not_included", "cancelled"}
    BY <1>9 DEF CommitVerify, CompleteIfTerminal
  <2> QED
    BY <2>1, <2>2, <2>3
<1>10. ASSUME NEW r \in Requests, CommitRegister(r)
       PROVE  GoneInv'
  BY <1>10 DEF CommitRegister
<1>11. ASSUME NEW r \in Requests, CommitVerifyDerivative(r)
       PROVE  GoneInv'
  <2>1. /\ request[r].object \in Objects /\ request[r].head # "bad"
        /\ request[r].object # Original(a)
    BY <1>11, RequestFacts DEF CommitVerifyDerivative, HonestStore, Original
  <2>2. object' = [object EXCEPT ![request[r].object] = "verified"]
        /\ UNCHANGED <<batch, lease, url, store>>
    BY <1>11, <2>1 DEF CommitVerifyDerivative
  <2> QED
    BY <2>1, <2>2
<1>12. CASE PublishSnapshot
  <2>1. BatchOf[a] \notin Unfinished /\ batch'[BatchOf[a]] = batch[BatchOf[a]]
    BY <1>12 DEF PublishSnapshot
  <2>2. /\ object'[o] = object[o] /\ lease'[o] = lease[o]
        /\ UNCHANGED <<url, store>>
    BY <1>12, <2>1 DEF PublishSnapshot, UnfinishedAssets, Original
  <2> QED
    BY <2>1, <2>2
<1>13. \/ UNCHANGED <<batch, object, lease, url, store>>
       \/ ContributionNext
       \/ \E r \in Requests : CommitVerify(r) \/ CommitRegister(r) \/ CommitVerifyDerivative(r)
       \/ PublishSnapshot
  BY DEF Next, vars, RequestNext, BeginVerify, BeginRegister, BeginVerifyDerivative, AbortVerify,
         ProcessingNext, SubmitAnalysis, SubmitConflicting, ReportFaceFailure, ResetAnalysis,
         HideAsset, RestoreAsset, ReportDerivativeFailure, RefreshDerivativeReadiness,
         RefreshFaceReadiness, RefreshIsLost, StructureNext, SetSubEventArchived, Reassign,
         PublicationNext, PublishRollsBack, UnpublishEvent, ReopenEvent, CloseEventIntake,
         PrepareEventManifest, FinalizeAgain, CommitEventManifest, AbandonEventFinalize,
         MoveEvent
<1>14. ASSUME NEW i \in Installations, RevokeInstallation(i)
       PROVE  UNCHANGED <<batch, object, lease, url, store>>
  BY <1>14 DEF RevokeInstallation
<1> QED
  BY <1>1, <1>2, <1>3, <1>4, <1>5, <1>6, <1>7, <1>8, <1>9, <1>10, <1>11, <1>12, <1>13,
     <1>14 DEF ContributionNext

\* Where unsigned bytes are refused, a photo excluded one by one is out of the
\* bucket for good.  With other bytes a mismatch ends the lease before its URL.
THEOREM ExcludedIsGoneAlways ==
    ASSUME BadPuts = FALSE
    PROVE  Spec => []ExcludedIsGone
<1>1. Init => HonestStore /\ GoneInv
  BY VariantFacts DEF Init, IngestionInit, HonestStore, GoneInv
<1>2. ContributionInv /\ HonestStore /\ GoneInv /\ [Next]_vars => (HonestStore /\ GoneInv)'
  BY HonestStep, GoneStep DEF ContributionInv
<1>3. GoneInv => ExcludedIsGone
  BY DEF GoneInv, ExcludedIsGone
<1> QED
  BY <1>1, <1>2, <1>3, ContributionInvariant, PTL DEF Spec

-----------------------------------------------------------------------------
(* The published gallery, where only publish_event_with_portal publishes:   *)
(* neither the change form nor the service-only transition does.            *)

OnlyPublicationPublishes == NoForms /\ InternalControls = FALSE

\* A derivative is verified, or the bucket takes any bytes and a HEAD has failed it.
Delivers(o) == object[o] = "verified" \/ (BadPuts /\ object[o] = "failed")

\* What holds of a published event between two commands: no contribution is
\* left whose photos could still be verified, and what is visible is processed.
PublishedInv ==
    state = "published" =>
        /\ Unfinished = {}
        /\ Visible = snapshot[generation] \ hidden
        /\ \A a \in Visible : a \in Analysed /\ \A v \in Derivatives : Delivers(<<a, v>>)

\* An event is published by a publication, and nothing that decides what is
\* visible changes while it is.
LEMMA PublishedSteps ==
    ASSUME LifecycleTypeOK, form = NoForm, OnlyPublicationPublishes, [Next]_vars,
           state' = "published"
    PROVE  \/ PublishSnapshot
           \/ /\ state = "published"
              /\ UNCHANGED <<section, archived, hidden, snapshot, face, generation>>
<1> USE DEF OnlyPublicationPublishes, batchVars, galleryVars, lifecycleVars
<1>1. CASE ContributionNext
  BY <1>1 DEF ContributionNext, Reserve, Contribute, IssueLease, ExcludeAsset, VerifyExcluded,
              IssueDerivativeLease, LeaseExpires, Upload, CleanupRollsBack, CancelBatch,
              RevokeInstallation
<1>2. CASE RequestNext
  <2>1. ASSUME NEW r \in Requests, CommitVerify(r) \/ CommitRegister(r)
        PROVE  UNCHANGED <<state, section, archived, hidden, snapshot, face, generation>>
    BY <2>1 DEF CommitVerify, CommitRegister
  <2>2. ASSUME NEW r \in Requests, CommitVerifyDerivative(r) \/ AbortVerify(r)
        PROVE  UNCHANGED <<state, section, archived, hidden, snapshot, face, generation>>
    BY <2>2 DEF CommitVerifyDerivative, AbortVerify
  <2> QED
    BY <1>2, <2>1, <2>2
       DEF RequestNext, BeginVerify, BeginRegister, BeginVerifyDerivative
<1>3. CASE ProcessingNext
  <2>1. ASSUME NEW a \in Assets, \/ SubmitAnalysis(a)
                                 \/ SubmitConflicting(a)
                                 \/ ReportFaceFailure(a)
                                 \/ ResetAnalysis(a)
        PROVE  FALSE
    BY <2>1 DEF SubmitAnalysis, SubmitConflicting, ReportFaceFailure, ResetAnalysis,
                ProcessingOpen, RefreshFaces
  <2>2. ASSUME NEW a \in Assets, HideAsset(a) \/ RestoreAsset(a)
        PROVE  FALSE
    BY <2>2 DEF HideAsset, RestoreAsset, GalleryEditable, StateForReadiness
  <2>3. CASE RefreshDerivativeReadiness
    BY <2>3 DEF RefreshDerivativeReadiness, RefreshDerivatives, StateForReadiness
  <2>4. CASE RefreshFaceReadiness \/ RefreshIsLost
    BY <2>4 DEF RefreshFaceReadiness, RefreshFaces, RefreshIsLost
  <2>5. ASSUME NEW a \in Assets, ReportDerivativeFailure(a)
        PROVE  /\ state = "published"
               /\ UNCHANGED <<section, archived, hidden, snapshot, face, generation>>
    BY <2>5 DEF ReportDerivativeFailure
  <2> QED
    BY <1>3, <2>1, <2>2, <2>3, <2>4, <2>5 DEF ProcessingNext
<1>4. CASE StructureNext
  BY <1>4 DEF StructureNext, SetSubEventArchived, ForgetReadiness, Reassign, ProcessingOpen
<1>5. CASE PublicationNext
  <2>1. CASE PublishRollsBack \/ FinalizeAgain
    BY <2>1 DEF PublishRollsBack, FinalizeAgain
  <2>2. CASE UnpublishEvent \/ ReopenEvent \/ CloseEventIntake \/ PrepareEventManifest
    BY <2>2 DEF UnpublishEvent, Unpublish, OpenNextGeneration, ReopenEvent, ReopenIntake,
                CloseEventIntake, CloseIntake, PrepareEventManifest, PrepareManifest
  <2>3. ASSUME NEW g \in Generations, CommitEventManifest(g) \/ AbandonEventFinalize(g)
        PROVE  /\ state = "published"
               /\ UNCHANGED <<section, archived, hidden, snapshot, face, generation>>
    BY <2>3 DEF CommitEventManifest, CommitManifest, AbandonEventFinalize, AbandonFinalize
  <2>4. ASSUME NEW target \in EventStates, MoveEvent(target)
        PROVE  FALSE
    BY <2>4 DEF MoveEvent, ManualTransition, AdminTargets
  <2> QED
    BY <1>5, <2>1, <2>2, <2>3, <2>4 DEF PublicationNext
<1>6. CASE UNCHANGED vars
  BY <1>6 DEF vars
<1> QED
  BY <1>1, <1>2, <1>3, <1>4, <1>5, <1>6 DEF Next

\* A verified derivative of a photo that stays kept is verified until a HEAD that found
\* other bytes fails it, and a failed one fails until it is verified.
LEMMA DerivativesStay ==
    ASSUME DataTypeOK, RowsInv, HonestStore, ~PublishSnapshot, [Next]_vars,
           NEW a \in Assets, a \in Kept, a \in Kept', NEW v \in Derivatives,
           Delivers(<<a, v>>)
    PROVE  Delivers(<<a, v>>)'
<1> USE VariantFacts DEF DataTypeOK, ObjectTypeOK, Original, Kept, Delivers
<1>1. ASSUME NEW b \in Batches, NEW s \in SubEvents, Reserve(b, s)
      PROVE  Delivers(<<a, v>>)'
  BY <1>1 DEF Reserve, AssetsOf
<1>2. ASSUME NEW c \in Assets, IssueLease(c) \/ ExcludeAsset(c)
      PROVE  Delivers(<<a, v>>)'
  BY <1>2 DEF IssueLease, ExcludeAsset
<1>3. ASSUME NEW b \in Batches, CancelBatch(b)
      PROVE  Delivers(<<a, v>>)'
  <2>1. <<a, v>> \notin Releasable(b)
    <3>1. <<a, v>> \notin ObjectsOf(b)
      <4>1. <<a, "original">> \notin ObjectsOf(b)
        BY <1>3 DEF CancelBatch, MayCancel
      <4> QED
        BY ONLY <4>1, VariantFacts, v \in Derivatives DEF ObjectsOf, Variants
    <3> QED
      BY <3>1 DEF Releasable
  <2> QED
    BY <1>3, <2>1 DEF CancelBatch
<1>4. ASSUME NEW r \in Requests, \/ CommitVerify(r)
                                 \/ CommitRegister(r)
                                 \/ CommitVerifyDerivative(r)
      PROVE  Delivers(<<a, v>>)'
  <2>1. request[r].object \in Objects /\ (request[r].head = "bad" => BadPuts)
    BY <1>4, RequestFacts
       DEF CommitVerify, CommitRegister, CommitVerifyDerivative, HonestStore
  <2>2. \/ UNCHANGED object
        \/ object' = [object EXCEPT ![request[r].object] = "verified"]
        \/ BadPuts /\ object' = [object EXCEPT ![request[r].object] = "failed"]
        \/ CommitRegister(r)
    BY <1>4, <2>1 DEF CommitVerify, CommitVerifyDerivative
  <2> QED
    BY <2>1, <2>2 DEF CommitRegister
<1> QED
  BY <1>1, <1>2, <1>3, <1>4, ObjectChanges

\* A publication leaves visible exactly what its snapshot lists.
LEMMA PublicationShows ==
    ASSUME DataTypeOK, LifecycleTypeOK, RowsInv, BatchFollowsItsOriginals, PublishSnapshot
    PROVE  PublishedInv'
<1> USE VariantFacts DEF DataTypeOK, ContributionTypeOK, ObjectTypeOK, GalleryTypeOK
<1>1. Kept' = Kept \ UnfinishedAssets
  BY DEF PublishSnapshot, Kept, Original
<1>2. Unfinished' = {}
  BY DEF PublishSnapshot, Unfinished
<1>3. \A a \in Kept \ UnfinishedAssets : batch[BatchOf[a]] = "complete"
  <2> SUFFICES ASSUME NEW a \in Kept \ UnfinishedAssets
               PROVE  batch[BatchOf[a]] = "complete"
    OBVIOUS
  <2>1. a \in Assets /\ object[Original(a)] = "verified" /\ batch[BatchOf[a]] # "reserved"
    BY DEF Kept, UnfinishedAssets, Unfinished
  <2>2. a \in AssetsOf(BatchOf[a]) /\ batch[BatchOf[a]] # "none"
    BY <2>1 DEF AssetsOf, RowsInv, Original
  <2> QED
    BY <2>1, <2>2 DEF BatchFollowsItsOriginals
<1>4. Completed = {a \in Kept \ UnfinishedAssets : Active(a)}
  BY <1>3 DEF Completed, UnfinishedAssets, Unfinished
<1>5. UNCHANGED <<section, archived, hidden, generation>>
  BY DEF PublishSnapshot, Publish
<1>6. Visible' = Completed \ hidden
  BY <1>1, <1>4, <1>5 DEF Visible, Active
<1>7. snapshot'[generation'] = Completed
  BY <1>5, GenerationFacts DEF PublishSnapshot, LifecycleTypeOK
<1>8. \A a \in Included : DerivativesVerified(a)' /\ a \in Analysed'
  <2> SUFFICES ASSUME NEW a \in Included
               PROVE  DerivativesVerified(a)' /\ a \in Analysed'
    OBVIOUS
  <2>1. a \in Assets /\ a \notin UnfinishedAssets
    BY <1>4 DEF Included, Kept
  <2>2. \A v \in Derivatives : object[<<a, v>>] = "verified"
    BY DEF PublishSnapshot, PublicationReady, DerivativesVerified
  <2>3. \A v \in Derivatives : object'[<<a, v>>] = "verified"
    BY <2>1, <2>2 DEF PublishSnapshot
  <2>4. face'[a] = face[a] /\ face[a] = "done"
    BY <2>1 DEF PublishSnapshot, PublicationReady, Analysed
  <2> QED
    BY <2>1, <2>3, <2>4 DEF DerivativesVerified, Analysed
<1> QED
  BY <1>2, <1>5, <1>6, <1>7, <1>8 DEF PublishedInv, Included, DerivativesVerified,
     Delivers

\* No step other than a publication changes what a published gallery shows.
LEMMA PublishedStep ==
    ASSUME ContributionInv, LifecycleTypeOK, form = NoForm, HonestStore,
           OnlyPublicationPublishes, PublishedInv, [Next]_vars
    PROVE  PublishedInv'
<1> USE VariantFacts DEF ContributionInv, DataTypeOK, ContributionTypeOK, ObjectTypeOK
<1> SUFFICES ASSUME state' = "published" PROVE PublishedInv'
  BY DEF PublishedInv
<1>1. CASE PublishSnapshot
  BY <1>1, PublicationShows
<1>2. CASE /\ state = "published"
           /\ UNCHANGED <<section, archived, hidden, snapshot, face, generation>>
           /\ ~PublishSnapshot
  <2>1. ~MovesPending
    BY <1>2, PendingIsReserved DEF MovesPending, Moves, PublishedInv, Unfinished
  <2>2. \A b \in Batches, s \in SubEvents : ~Reserve(b, s)
    BY <1>2 DEF Reserve, Contribute, AcceptsContributions
  <2>3. Kept' = Kept /\ Unfinished' = {}
    <3>1. CASE Quiet
      BY <1>2, <3>1 DEF Quiet, Kept, Unfinished, PublishedInv
    <3>2. ASSUME NEW b \in Batches, CancelBatch(b)
          PROVE  Kept' = Kept /\ Unfinished' = {}
      BY <1>2, <3>2 DEF CancelBatch, MayCancel, Releasable, Kept, Unfinished, PublishedInv
    <3>3. CASE PrepareEventManifest
      BY <1>2, <3>3 DEF PrepareEventManifest, PrepareManifest
    <3> QED
      BY <1>2, <2>1, <2>2, <3>1, <3>2, <3>3, OriginalsStep
  <2>4. Visible' = Visible
    BY <1>2, <2>3 DEF Visible, Active
  <2>5. ASSUME NEW a \in Visible
        PROVE  a \in Analysed' /\ \A v \in Derivatives : Delivers(<<a, v>>)'
    <3>1. a \in Assets /\ a \in Kept /\ a \in Kept'
      BY <2>3 DEF Visible, Kept
    <3>2. a \in Analysed /\ \A v \in Derivatives : Delivers(<<a, v>>)
      BY <1>2, <2>5 DEF PublishedInv
    <3>3. \A v \in Derivatives : Delivers(<<a, v>>)'
      BY <1>2, <3>1, <3>2, DerivativesStay
    <3> QED
      BY <1>2, <3>2, <3>3 DEF Analysed
  <2> QED
    BY <1>2, <2>3, <2>4, <2>5 DEF PublishedInv
<1> QED
  BY <1>1, <1>2, PublishedSteps

\* What the proofs about galleries need of the event row and the bucket.
GalleryInv == form = NoForm /\ HonestStore /\ PublishedInv

\* Visible, analysed and manifest photos of a published event coincide, and no
\* form can disturb them: the inductive invariant.
THEOREM GalleryInvariant ==
    ASSUME OnlyPublicationPublishes
    PROVE  Spec => []GalleryInv
<1>1. Init => GalleryInv
  BY VariantFacts
     DEF Init, LifecycleInit, IngestionInit, GalleryInv, HonestStore, PublishedInv
<1>2. ContributionInv /\ LifecycleTypeOK /\ GalleryInv /\ [Next]_vars => GalleryInv'
  BY HonestStep, PublishedStep, LifecycleStep, NoFormStep
     DEF GalleryInv, ContributionInv, OnlyPublicationPublishes
<1> QED
  BY <1>1, <1>2, ContributionInvariant, ImplementsLifecycle, LifecycleTypes, PTL DEF Spec

\* A published event's photos are those of its manifest, all of them searchable, and its
\* gallery shows them all, whatever verify, register and refresh calls were under way at
\* publication; but for a derivative that the HEAD of unsigned bytes fails afterwards.
THEOREM PublishedServesItsManifestAlways ==
    ASSUME OnlyPublicationPublishes
    PROVE  Spec => []PublishedServesItsManifest
<1>1. GalleryInv => PublishedServesItsManifest
  BY DEF GalleryInv, PublishedInv, PublishedServesItsManifest, Gallery, DerivativesVerified,
     Delivers
<1> QED
  BY <1>1, GalleryInvariant, PTL

-----------------------------------------------------------------------------
(***************************************************************************)
(* The ingestion service implements PhotoArchive where only a publication  *)
(* publishes and no derivative can arrive bad.  What a step does to the    *)
(* photos and what it does to the gallery are looked at apart: only a      *)
(* publication does something to both.                                     *)
(***************************************************************************)

\* The state of the archive, as Ingestion maps it.
Status == [a \in Assets |-> PhotoStatus(a)]
Open == state = "published"
Shown == IF state = "published" THEN snapshot[generation] \ hidden ELSE {}

\* Photos by status: with a row they are charged, and kept ones verified.
LEMMA StatusFacts ==
    ASSUME DataTypeOK
    PROVE  /\ Archive!With("kept") = Kept
           /\ Archive!With("pending") = Charged \ Kept
           /\ Archive!With("unknown") = {a \in Assets : object[Original(a)] = "absent"}
           /\ Archive!With("pending") \cup Archive!With("kept") = Charged
<1>1. \A a \in Assets : object[Original(a)] \in {"absent", "reserved", "failed", "verified", "excluded"}
  BY VariantFacts DEF DataTypeOK, ObjectTypeOK
<1>2. /\ Archive!With("kept") = Kept
      /\ Archive!With("unknown") = {a \in Assets : object[Original(a)] = "absent"}
  BY <1>1 DEF Archive!With, PhotoStatus, Kept
<1>3. Archive!With("pending") = Charged \ Kept
  BY <1>1 DEF Archive!With, PhotoStatus, Charged, Kept
<1>4. Kept \subseteq Charged
  BY DEF Kept, Charged
<1> QED
  BY <1>2, <1>3, <1>4

\* Where no original moves no photo changes its status.
LEMMA StatusStays ==
    ASSUME \A a \in Assets : object'[Original(a)] = object[Original(a)]
    PROVE  Status' = Status
BY DEF Status, PhotoStatus

\* The settling of one pending original.
LEMMA MovesInArchive ==
    ASSUME DataTypeOK, DataTypeOK', MovesPending, UNCHANGED <<Open, Shown>>
    PROVE  Archive!Keep \/ Archive!Drop \/ Status' = Status
<1>1. PICK a \in Assets, s \in {"reserved", "failed", "verified", "excluded"} :
         object[Original(a)] # "absent" /\ Moves(a, s)
  BY DEF MovesPending
<1>2. /\ object[Original(a)] \in {"reserved", "failed"}
      /\ object'[Original(a)] = s
      /\ \A c \in Assets \ {a} : object'[Original(c)] = object[Original(c)]
  BY <1>1, VariantFacts DEF Moves, Terminal, DataTypeOK, ObjectTypeOK
<1>3. a \in Archive!With("pending")
  BY <1>2, StatusFacts DEF Charged, Kept
<1>4. \A c \in Assets \ {a} : PhotoStatus(c)' = PhotoStatus(c)
  BY <1>2 DEF PhotoStatus
<1>5. CASE s = "verified"
  <2>1. Status' = [Status EXCEPT ![a] = "kept"]
    BY <1>2, <1>4, <1>5 DEF Status, PhotoStatus
  <2> QED
    BY <1>3, <2>1 DEF Archive!Keep, Status, Open, Shown
<1>6. CASE s = "excluded"
  <2>1. Status' = [p \in Assets |-> IF p \in {a} THEN "dropped" ELSE Status[p]]
    BY <1>2, <1>4, <1>6 DEF Status, PhotoStatus
  <2>2. {a} \in SUBSET Archive!With("pending") /\ {a} # {}
    BY <1>3
  <2> QED
    BY <2>1, <2>2 DEF Archive!Drop, Status, Open, Shown
<1>7. CASE s \in {"reserved", "failed"}
  BY <1>2, <1>4, <1>7 DEF Status, PhotoStatus
<1> QED
  BY <1>5, <1>6, <1>7

\* The instance counts as this module does.
LEMMA SameCount == \A S : Archive!Cardinality(S) = Cardinality(S)
BY DEF Archive!Cardinality, Cardinality

\* A reservation is accepted as a whole, within the allowance.
LEMMA ReserveInArchive ==
    ASSUME ContributionInv, LedgerIsExact, NEW b \in Batches, NEW s \in SubEvents, Reserve(b, s)
    PROVE  Archive!Accept
<1> USE VariantFacts DEF ContributionInv, DataTypeOK, ObjectTypeOK, ContributionTypeOK
<1>1. ~Open /\ UNCHANGED <<Open, Shown>>
  BY DEF Reserve, Contribute, AcceptsContributions, Open, Shown
<1>2. /\ AssetsOf(b) \in SUBSET Archive!With("unknown")
      /\ AssetsOf(b) # {}
  BY StatusFacts DEF Reserve, AssetsOf, RowsInv, Original
<1>3. Cardinality(Archive!With("pending") \cup Archive!With("kept"))
        + Cardinality(AssetsOf(b)) <= AssetLimit
  BY StatusFacts DEF Reserve, FitsAllowance, LedgerIsExact
<1>4. Status' = [p \in Assets |-> IF p \in AssetsOf(b) THEN "pending" ELSE Status[p]]
  <2>1. \A a \in Assets : object'[Original(a)] =
                             IF a \in AssetsOf(b) THEN "reserved" ELSE object[Original(a)]
    BY DEF Reserve, Original
  <2> QED
    BY <2>1 DEF Status, PhotoStatus
<1>5. \E S \in SUBSET Archive!With("unknown") :
         /\ S # {}
         /\ Cardinality(Archive!With("pending") \cup Archive!With("kept")) + Cardinality(S)
              <= AssetLimit
         /\ Status' = [p \in Assets |-> IF p \in S THEN "pending" ELSE Status[p]]
  BY <1>2, <1>3, <1>4
<1> QED
  BY <1>1, <1>5, SameCount DEF Archive!Accept, Status, Open, Shown

\* A cancellation drops what of its contribution is still pending.
LEMMA CancelInArchive ==
    ASSUME ContributionInv, NEW b \in Batches, CancelBatch(b), UNCHANGED <<Open, Shown>>
    PROVE  Archive!Drop \/ Status' = Status
<1> USE VariantFacts DEF ContributionInv, DataTypeOK, ObjectTypeOK
<1> DEFINE S == Charged \cap AssetsOf(b)
<1>1. S \cap Kept = {}
  BY DEF CancelBatch, MayCancel, ObjectsOf, AssetsOf, Variants, Kept, Original
<1>2. \A a \in Assets : object'[Original(a)] =
                           IF a \in S THEN "excluded" ELSE object[Original(a)]
  BY DEF CancelBatch, Releasable, ObjectsOf, AssetsOf, Variants, Charged, Original
<1>3. Status' = [p \in Assets |-> IF p \in S THEN "dropped" ELSE Status[p]]
  BY <1>2 DEF Status, PhotoStatus
<1>4. S \in SUBSET Archive!With("pending")
  BY <1>1, StatusFacts
<1>5. CASE S = {}
  BY <1>3, <1>5 DEF Status
<1>6. CASE S # {}
  BY <1>3, <1>4, <1>6 DEF Archive!Drop, Status, Open, Shown
<1> QED
  BY <1>5, <1>6

\* A publication opens the gallery on its choice and drops every unfinished photo.
LEMMA PublishInArchive ==
    ASSUME ContributionInv, LifecycleTypeOK, PublishSnapshot
    PROVE  Archive!OpenGallery
<1> USE VariantFacts DEF ContributionInv, DataTypeOK, ObjectTypeOK, GalleryTypeOK
<1> DEFINE left == Kept \cap UnfinishedAssets
<1>1. ~Open /\ Open'
  BY DEF PublishSnapshot, Publish, CanPublish, Open
<1>2. Charged \ Kept \subseteq UnfinishedAssets
  BY PendingIsReserved
     DEF Charged, Kept, Terminal, UnfinishedAssets, Unfinished
<1>3. \A a \in Assets : object'[Original(a)] =
         IF a \in (Charged \ Kept) \cup left THEN "excluded" ELSE object[Original(a)]
  <2>1. \A a \in Assets : object'[Original(a)] =
           IF a \in UnfinishedAssets /\ object[Original(a)] # "absent"
           THEN "excluded" ELSE object[Original(a)]
    BY DEF PublishSnapshot, Original
  <2> QED
    BY <1>2, <2>1 DEF Charged, Kept
<1>4. Status' = [p \in Assets |-> IF p \in Archive!With("pending") \cup left
                                   THEN "dropped" ELSE Status[p]]
  BY <1>3, StatusFacts DEF Status, PhotoStatus
<1>5. Shown' = Included
  BY GenerationFacts
     DEF PublishSnapshot, Publish, Shown, LifecycleTypeOK, Included
<1>6. Included \in SUBSET (Kept \ left) /\ Included # {}
  BY DEF PublishSnapshot, PublicationReady, Included, Completed, UnfinishedAssets, Unfinished
<1>7. left \in SUBSET Archive!With("kept") /\ Archive!With("kept") = Kept
  BY StatusFacts
<1> QED
  BY <1>1, <1>4, <1>5, <1>6, <1>7 DEF Archive!OpenGallery, Status, Open, Shown

\* The gallery opens by a publication, stays as it is or closes; and no photo
\* changes while it closes.
LEMMA GallerySteps ==
    ASSUME ContributionInv, LifecycleTypeOK, form = NoForm, OnlyPublicationPublishes,
           [Next]_vars
    PROVE  \/ PublishSnapshot
           \/ UNCHANGED <<Open, Shown>>
           \/ Open /\ ~Open' /\ UNCHANGED object
<1>1. CASE state' = "published"
  BY <1>1, PublishedSteps DEF Open, Shown
<1>2. CASE state # "published" /\ state' # "published"
  BY <1>2 DEF Open, Shown
<1>3. CASE state = "published" /\ state' # "published"
  <2>1. \/ UNCHANGED object
        \/ \E b \in Batches, s \in SubEvents : Reserve(b, s)
        \/ UNCHANGED lifecycleVars
        \/ PublishSnapshot
    BY ObjectChanges
       DEF IssueLease, ExcludeAsset, CancelBatch, CommitVerify, CommitRegister,
           CommitVerifyDerivative
  <2> QED
    BY <1>3, <2>1 DEF Reserve, Contribute, AcceptsContributions, lifecycleVars, Open
<1> QED
  BY <1>1, <1>2, <1>3

\* Every step of the service, the full next-state relation, is an archive step.
LEMMA ArchiveStep ==
    ASSUME ContributionInv, LifecycleTypeOK, LedgerIsExact, form = NoForm,
           OnlyPublicationPublishes, [Next]_vars
    PROVE  Archive!ArchiveNext \/ UNCHANGED <<Status, Open, Shown>>
<1>1. CASE PublishSnapshot
  BY <1>1, PublishInArchive DEF Archive!ArchiveNext
<1>2. CASE Open /\ ~Open' /\ UNCHANGED object
  <2>1. Status' = Status
    BY <1>2, StatusStays
  <2>2. Shown' = {}
    BY <1>2 DEF Open, Shown
  <2> QED
    BY <1>2, <2>1, <2>2
       DEF Archive!ArchiveNext, Archive!CloseGallery, Status, Open, Shown
<1>3. CASE UNCHANGED <<Open, Shown>> /\ ~PublishSnapshot
  <2>1. CASE Quiet
    BY <1>3, <2>1, StatusStays DEF Quiet
  <2>2. CASE MovesPending
    BY <1>3, <2>2, MovesInArchive, DataTypeStep DEF ContributionInv, Archive!ArchiveNext
  <2>3. ASSUME NEW b \in Batches, NEW s \in SubEvents, Reserve(b, s)
        PROVE  Archive!ArchiveNext
    BY <2>3, ReserveInArchive DEF Archive!ArchiveNext
  <2>4. ASSUME NEW b \in Batches, CancelBatch(b)
        PROVE  Archive!ArchiveNext \/ Status' = Status
    BY <1>3, <2>4, CancelInArchive DEF Archive!ArchiveNext
  <2>5. CASE PrepareEventManifest
    BY <1>3, <2>5, StatusStays DEF PrepareEventManifest, objectVars
  <2> QED
    BY <1>3, <2>1, <2>2, <2>3, <2>4, <2>5, OriginalsStep DEF ContributionInv
<1> QED
  BY <1>1, <1>2, <1>3, GallerySteps

\* Every behaviour of the service is one of the archive: photos are accepted
\* within the allowance, settled once, lost only to a publication that leaves
\* them out, and shown exactly as one publication chose.
THEOREM ImplementsArchiveAlways ==
    ASSUME OnlyPublicationPublishes, NoBadDerivatives
    PROVE  Spec => ImplementsArchive
<1>1. Init => Archive!ArchiveInit
  <2>1. Init => Status = [a \in Assets |-> "unknown"]
    BY VariantFacts DEF Init, IngestionInit, Status, PhotoStatus
  <2> QED
    BY <2>1 DEF Init, LifecycleInit, Archive!ArchiveInit, Status
<1>2. /\ ContributionInv /\ LifecycleTypeOK /\ LedgerIsExact /\ GalleryInv /\ [Next]_vars
      => [Archive!ArchiveNext]_(Archive!archiveVars)
  BY ArchiveStep DEF GalleryInv, Archive!archiveVars, Status, Open, Shown
<1> QED
  BY <1>1, <1>2, ContributionInvariant, GalleryInvariant, LedgerIsExactAlways,
     ImplementsLifecycle, LifecycleTypes, PTL
     DEF Spec, ImplementsArchive, Archive!ArchiveSpec

=============================================================================
