--------------------------- MODULE IngestionProofs ---------------------------
(***************************************************************************)
(* Proofs about Ingestion for any assets, contributions, sub-events,       *)
(* workstations, derivatives, requests and bounds.                         *)
(***************************************************************************)
EXTENDS Ingestion, LifecycleProofs, FiniteSetTheorems

-----------------------------------------------------------------------------
(* Ingestion implements EventLifecycle: what the commands decide from the   *)
(* photos are outcomes EventLifecycle leaves open.                          *)

\* Every step of the ingestion is a command of the event row or leaves it alone.
LEMMA LifecycleStep == [Next]_vars => [LifecycleNext]_lifecycleVars
<1> SUFFICES ASSUME [Next]_vars
             PROVE  LifecycleNext \/ UNCHANGED lifecycleVars
  OBVIOUS
<1>1. CASE ContributionNext
  <2>1. ASSUME NEW b \in Batches, NEW s \in SubEvents, Reserve(b, s)
        PROVE  LifecycleNext
    BY <2>1 DEF Reserve, LifecycleNext
  <2>2. ASSUME NEW a \in Assets, IssueLease(a) \/ ExcludeAsset(a) \/ VerifyExcluded(a)
        PROVE  UNCHANGED lifecycleVars
    BY <2>2 DEF IssueLease, ExcludeAsset, VerifyExcluded
  <2>3. ASSUME NEW a \in Assets, NEW v \in Derivatives, IssueDerivativeLease(a, v)
        PROVE  UNCHANGED lifecycleVars
    BY <2>3 DEF IssueDerivativeLease
  <2>4. ASSUME NEW o \in Objects, LeaseExpires(o) \/ Upload(o) \/ CleanupRollsBack(o)
        PROVE  UNCHANGED lifecycleVars
    BY <2>4 DEF LeaseExpires, Upload, CleanupRollsBack
  <2>5. ASSUME NEW b \in Batches, CancelBatch(b)
        PROVE  UNCHANGED lifecycleVars
    BY <2>5 DEF CancelBatch
  <2>6. ASSUME NEW i \in Installations, RevokeInstallation(i)
        PROVE  UNCHANGED lifecycleVars
    BY <2>6 DEF RevokeInstallation
  <2> QED
    BY <1>1, <2>1, <2>2, <2>3, <2>4, <2>5, <2>6 DEF ContributionNext
<1>2. CASE RequestNext
  <2>1. ASSUME NEW r \in Requests, NEW a \in Assets, BeginVerify(r, a) \/ BeginRegister(r, a)
        PROVE  UNCHANGED lifecycleVars
    BY <2>1 DEF BeginVerify, BeginRegister
  <2>2. ASSUME NEW r \in Requests, NEW a \in Assets, NEW v \in Derivatives,
               BeginVerifyDerivative(r, a, v)
        PROVE  UNCHANGED lifecycleVars
    BY <2>2 DEF BeginVerifyDerivative
  <2>3. ASSUME NEW r \in Requests, CommitVerify(r) \/ CommitRegister(r)
        PROVE  UNCHANGED lifecycleVars
    BY <2>3 DEF CommitVerify, CommitRegister
  <2>4. ASSUME NEW r \in Requests, CommitVerifyDerivative(r) \/ AbortVerify(r)
        PROVE  UNCHANGED lifecycleVars
    BY <2>4 DEF CommitVerifyDerivative, AbortVerify
  <2> QED
    BY <1>2, <2>1, <2>2, <2>3, <2>4 DEF RequestNext
<1>3. CASE ProcessingNext
  <2>1. ASSUME NEW a \in Assets,
               \/ SubmitAnalysis(a)
               \/ SubmitConflicting(a)
               \/ ReportFaceFailure(a)
               \/ ResetAnalysis(a)
        PROVE  LifecycleNext \/ UNCHANGED lifecycleVars
    BY <2>1 DEF SubmitAnalysis, SubmitConflicting, ReportFaceFailure, ResetAnalysis, LifecycleNext
  <2>2. ASSUME NEW a \in Assets, HideAsset(a) \/ RestoreAsset(a)
        PROVE  LifecycleNext
    BY <2>2 DEF HideAsset, RestoreAsset, LifecycleNext
  <2>3. ASSUME NEW a \in Assets, ReportDerivativeFailure(a)
        PROVE  UNCHANGED lifecycleVars
    BY <2>3 DEF ReportDerivativeFailure
  <2>4. CASE RefreshDerivativeReadiness
    <3>1. DerivativesReady \in BOOLEAN
      BY DEF DerivativesReady
    <3> QED
      BY <2>4, <3>1 DEF RefreshDerivativeReadiness, LifecycleNext
  <2>5. CASE RefreshFaceReadiness
    <3>1. (CurrentIsCommitted /\ FacesReady) \in BOOLEAN
      BY DEF FacesReady, CurrentIsCommitted
    <3> QED
      BY <2>5, <3>1 DEF RefreshFaceReadiness, LifecycleNext
  <2>6. CASE RefreshIsLost
    BY <2>6 DEF RefreshIsLost
  <2> QED
    BY <1>3, <2>1, <2>2, <2>3, <2>4, <2>5, <2>6 DEF ProcessingNext
<1>4. CASE StructureNext
  <2>1. ASSUME NEW s \in SubEvents, SetSubEventArchived(s)
        PROVE  LifecycleNext
    BY <2>1 DEF SetSubEventArchived, LifecycleNext
  <2>2. ASSUME NEW b \in Batches, NEW s \in SubEvents, Reassign(b, s)
        PROVE  UNCHANGED lifecycleVars
    BY <2>2 DEF Reassign
  <2> QED
    BY <1>4, <2>1, <2>2 DEF StructureNext
<1>5. CASE PublicationNext
  <2>1. CASE \/ PublishSnapshot
             \/ UnpublishEvent
             \/ ReopenEvent
             \/ CloseEventIntake
             \/ PrepareEventManifest
    BY <2>1 DEF PublishSnapshot, UnpublishEvent, ReopenEvent, CloseEventIntake,
                PrepareEventManifest, LifecycleNext
  <2>2. CASE PublishRollsBack \/ FinalizeAgain
    BY <2>2 DEF PublishRollsBack, FinalizeAgain
  <2>3. ASSUME NEW g \in Generations, CommitEventManifest(g) \/ AbandonEventFinalize(g)
        PROVE  LifecycleNext
    BY <2>3 DEF CommitEventManifest, AbandonEventFinalize, LifecycleNext
  <2>4. ASSUME NEW target \in EventStates, MoveEvent(target)
        PROVE  LifecycleNext
    BY <2>4 DEF MoveEvent, LifecycleNext
  <2> QED
    BY <1>5, <2>1, <2>2, <2>3, <2>4 DEF PublicationNext
<1>6. CASE UNCHANGED vars
  BY <1>6 DEF vars
<1> QED
  BY <1>1, <1>2, <1>3, <1>4, <1>5, <1>6 DEF Next

\* Whatever holds of the event row holds of it here.
THEOREM ImplementsLifecycle == Spec => LifecycleSpec
<1>1. Init => LifecycleInit
  BY DEF Init
<1> QED
  BY <1>1, LifecycleStep, PTL DEF Spec, LifecycleSpec

-----------------------------------------------------------------------------
(* Types.  The counters are left to the ledger below: that they stay within *)
(* the allowance follows from what they count.                              *)

DataTypeOK == ContributionTypeOK /\ ObjectTypeOK /\ GalleryTypeOK /\ CallTypeOK

\* Originals and derivatives are different objects.
LEMMA VariantFacts ==
    /\ \A a \in Assets : Original(a) \in Objects
    /\ \A a \in Assets, v \in Derivatives : <<a, v>> \in Objects /\ v # "original"
    /\ \A o \in Objects : /\ o[1] \in Assets
                          /\ o = <<o[1], o[2]>>
                          /\ o[2] = "original" => o = Original(o[1])
                          /\ o[2] # "original" => o[2] \in Derivatives
    /\ \A a1, a2 : Original(a1) = Original(a2) => a1 = a2
    /\ \A a \in Assets : BatchOf[a] \in Batches
BY IngestionConstants DEF Objects, Variants, Original

\* A request that is not idle names an object and what it found.
LEMMA RequestFacts ==
    ASSUME CallTypeOK, NEW r \in Requests, request[r] # Idle
    PROVE  /\ request[r].object \in Objects
           /\ request[r].object[1] \in Assets
           /\ request[r].head \in {"good", "bad", "register"}
BY VariantFacts DEF CallTypeOK, VerifyRequests

\* Initially nothing is reserved, uploaded or asked for.
LEMMA DataInit == Init => DataTypeOK
BY DEF Init, IngestionInit, DataTypeOK, ContributionTypeOK, ObjectTypeOK, GalleryTypeOK,
       CallTypeOK, Generations

\* The saves of the event row move a stray manifest object between its states.
LEMMA StrayTyped ==
    ASSUME GalleryTypeOK, EventSaved \/ stray' = stray \/ stray' = "none"
    PROVE  stray' \in {"none", "fresh", "stale"}
BY DEF GalleryTypeOK, EventSaved

\* Completing a contribution keeps the types.
LEMMA CompleteTyped ==
    ASSUME ContributionTypeOK, NEW b \in Batches, CompleteIfTerminal(b)
    PROVE  batch' \in [Batches -> {"none", "reserved", "complete", "not_included", "cancelled"}]
BY DEF ContributionTypeOK, CompleteIfTerminal

\* The steps of the contributions keep the types.
LEMMA ContributionTypes ==
    ASSUME DataTypeOK, ContributionNext
    PROVE  DataTypeOK'
<1> USE VariantFacts, StrayTyped
    DEF DataTypeOK, ContributionTypeOK, ObjectTypeOK, GalleryTypeOK, CallTypeOK,
        batchVars, objectVars, galleryVars, callVars
<1>1. ASSUME NEW b \in Batches, NEW s \in SubEvents, Reserve(b, s)
      PROVE  DataTypeOK'
  <2>1. InstallationOf[b] \in Installations
    BY IngestionConstants
  <2> QED
    BY <1>1, <2>1 DEF Reserve, RegisterInstallation, Contribute
<1>2. ASSUME NEW a \in Assets, IssueLease(a)
      PROVE  DataTypeOK'
  BY <1>2 DEF IssueLease
<1>3. ASSUME NEW a \in Assets, ExcludeAsset(a)
      PROVE  DataTypeOK'
  BY <1>3, CompleteTyped DEF ExcludeAsset
<1>4. ASSUME NEW a \in Assets, VerifyExcluded(a)
      PROVE  DataTypeOK'
  BY <1>4 DEF VerifyExcluded
<1>5. ASSUME NEW a \in Assets, NEW v \in Derivatives, IssueDerivativeLease(a, v)
      PROVE  DataTypeOK'
  BY <1>5 DEF IssueDerivativeLease
<1>6. ASSUME NEW o \in Objects, LeaseExpires(o)
      PROVE  DataTypeOK'
  BY <1>6 DEF LeaseExpires
<1>7. ASSUME NEW o \in Objects, Upload(o)
      PROVE  DataTypeOK'
  BY <1>7 DEF Upload
<1>8. ASSUME NEW o \in Objects, CleanupRollsBack(o)
      PROVE  DataTypeOK'
  BY <1>8 DEF CleanupRollsBack
<1>9. ASSUME NEW b \in Batches, CancelBatch(b)
      PROVE  DataTypeOK'
  BY <1>9 DEF CancelBatch
<1>10. ASSUME NEW i \in Installations, RevokeInstallation(i)
       PROVE  DataTypeOK'
  BY <1>10 DEF RevokeInstallation
<1> QED
  BY <1>1, <1>2, <1>3, <1>4, <1>5, <1>6, <1>7, <1>8, <1>9, <1>10 DEF ContributionNext

\* The steps of the verify and register requests keep the types.
LEMMA RequestTypes ==
    ASSUME DataTypeOK, RequestNext
    PROVE  DataTypeOK'
<1> USE VariantFacts, StrayTyped
    DEF DataTypeOK, ContributionTypeOK, ObjectTypeOK, GalleryTypeOK, CallTypeOK,
        batchVars, objectVars, galleryVars, callVars
<1>1. PICK r \in Requests : \/ \E a \in Assets : BeginVerify(r, a) \/ BeginRegister(r, a)
                            \/ \E a \in Assets, v \in Derivatives : BeginVerifyDerivative(r, a, v)
                            \/ CommitVerify(r)
                            \/ CommitRegister(r)
                            \/ CommitVerifyDerivative(r)
                            \/ AbortVerify(r)
  BY DEF RequestNext
<1>2. ASSUME NEW a \in Assets, BeginVerify(r, a) \/ BeginRegister(r, a)
      PROVE  DataTypeOK'
  BY <1>2 DEF BeginVerify, BeginRegister, VerifyRequests
<1>3. ASSUME NEW a \in Assets, NEW v \in Derivatives, BeginVerifyDerivative(r, a, v)
      PROVE  DataTypeOK'
  BY <1>3 DEF BeginVerifyDerivative, VerifyRequests
<1>4. CASE CommitVerify(r)
  <2> DEFINE o == request[r].object
  <2>1. o \in Objects /\ BatchOf[o[1]] \in Batches
    BY <1>4, RequestFacts DEF CommitVerify
  <2>2. request' \in [Requests -> VerifyRequests \cup {Idle}]
    BY <1>4 DEF CommitVerify
  <2>3. batch' \in [Batches -> {"none", "reserved", "complete", "not_included", "cancelled"}]
    BY <1>4, <2>1, CompleteTyped DEF CommitVerify
  <2>4. /\ object' \in [Objects -> {"absent", "reserved", "failed", "verified", "excluded"}]
        /\ lease' \in [Objects -> BOOLEAN]
        /\ store' \in [Objects -> {"none", "good", "bad"}]
    <3>1. /\ \/ object' = object
             \/ object' = [object EXCEPT ![o] = "failed"]
             \/ object' = [object EXCEPT ![o] = "verified"]
          /\ lease' = lease \/ lease' = [lease EXCEPT ![o] = FALSE]
          /\ store' = store \/ store' = [store EXCEPT ![o] = "none"]
      BY <1>4 DEF CommitVerify
    <3> QED
      BY <2>1, <3>1
  <2>5. stray' \in {"none", "fresh", "stale"}
    BY <1>4 DEF CommitVerify
  <2>6. UNCHANGED <<section, station, archived, url, face, derivFailed, derivWorn, hidden,
                    snapshot, refreshes>>
    BY <1>4 DEF CommitVerify
  <2> QED
    BY <2>2, <2>3, <2>4, <2>5, <2>6
<1>5. CASE CommitRegister(r)
  BY <1>5, RequestFacts DEF CommitRegister
<1>6. CASE CommitVerifyDerivative(r)
  <2>1. request[r].object \in Objects
    BY <1>6, RequestFacts DEF CommitVerifyDerivative
  <2>2. /\ object' \in [Objects -> {"absent", "reserved", "failed", "verified", "excluded"}]
        /\ store' \in [Objects -> {"none", "good", "bad"}]
    BY <1>6, <2>1 DEF CommitVerifyDerivative
  <2> QED
    BY <1>6, <2>2 DEF CommitVerifyDerivative
<1>7. CASE AbortVerify(r)
  BY <1>7 DEF AbortVerify
<1> QED
  BY <1>1, <1>2, <1>3, <1>4, <1>5, <1>6, <1>7

\* The steps of face analysis, derivatives and readiness keep the types.
LEMMA ProcessingTypes ==
    ASSUME DataTypeOK, ProcessingNext
    PROVE  DataTypeOK'
<1> USE StrayTyped
    DEF DataTypeOK, ContributionTypeOK, ObjectTypeOK, GalleryTypeOK, CallTypeOK,
        batchVars, objectVars, galleryVars, callVars
<1>1. ASSUME NEW a \in Assets, SubmitAnalysis(a)
      PROVE  DataTypeOK'
  BY <1>1 DEF SubmitAnalysis
<1>2. ASSUME NEW a \in Assets, SubmitConflicting(a)
      PROVE  DataTypeOK'
  BY <1>2 DEF SubmitConflicting
<1>3. ASSUME NEW a \in Assets, ReportFaceFailure(a)
      PROVE  DataTypeOK'
  <2>1. face' \in [Assets -> {"pending", "done", "conflict", "worn"}]
    BY <1>3 DEF ReportFaceFailure
  <2> QED
    BY <1>3, <2>1 DEF ReportFaceFailure
<1>7. ASSUME NEW a \in Assets, ResetAnalysis(a)
      PROVE  DataTypeOK'
  BY <1>7 DEF ResetAnalysis
<1>4. ASSUME NEW a \in Assets, ReportDerivativeFailure(a)
      PROVE  DataTypeOK'
  BY <1>4 DEF ReportDerivativeFailure
<1>5. ASSUME NEW a \in Assets, HideAsset(a) \/ RestoreAsset(a)
      PROVE  DataTypeOK'
  BY <1>5 DEF HideAsset, RestoreAsset
<1>6. CASE RefreshDerivativeReadiness \/ RefreshFaceReadiness \/ RefreshIsLost
  BY <1>6 DEF RefreshDerivativeReadiness, RefreshFaceReadiness, RefreshIsLost
<1> QED
  BY <1>1, <1>2, <1>3, <1>4, <1>5, <1>6, <1>7 DEF ProcessingNext

\* The steps of the sub-events keep the types.
LEMMA StructureTypes ==
    ASSUME DataTypeOK, StructureNext
    PROVE  DataTypeOK'
<1> USE StrayTyped
    DEF DataTypeOK, ContributionTypeOK, ObjectTypeOK, GalleryTypeOK, CallTypeOK,
        objectVars, galleryVars, callVars
<1>1. ASSUME NEW s \in SubEvents, SetSubEventArchived(s)
      PROVE  DataTypeOK'
  BY <1>1 DEF SetSubEventArchived
<1>2. ASSUME NEW b \in Batches, NEW s \in SubEvents, Reassign(b, s)
      PROVE  DataTypeOK'
  BY <1>2 DEF Reassign
<1> QED
  BY <1>1, <1>2 DEF StructureNext

\* A snapshot lists assets.
LEMMA SnapshotTyped == Completed \subseteq Assets /\ Kept \subseteq Assets
BY DEF Completed, Kept

\* The steps of publication and finalisation keep the types.
LEMMA PublicationTypes ==
    ASSUME DataTypeOK, PublicationNext
    PROVE  DataTypeOK'
<1> USE StrayTyped
    DEF DataTypeOK, ContributionTypeOK, ObjectTypeOK, GalleryTypeOK, CallTypeOK,
        batchVars, objectVars, galleryVars, callVars
<1>1. CASE PublishSnapshot
  <2>1. batch' \in [Batches -> {"none", "reserved", "complete", "not_included", "cancelled"}]
    BY <1>1 DEF PublishSnapshot
  <2>2. object' \in [Objects -> {"absent", "reserved", "failed", "verified", "excluded"}]
    BY <1>1 DEF PublishSnapshot
  <2>3. lease' \in [Objects -> BOOLEAN]
    BY <1>1 DEF PublishSnapshot
  <2>4. face' \in [Assets -> {"pending", "done", "conflict", "worn"}]
    BY <1>1 DEF PublishSnapshot
  <2>5. snapshot' \in [Generations -> SUBSET Assets]
    BY <1>1, SnapshotTyped DEF PublishSnapshot
  <2>6. UNCHANGED <<section, station, archived, url, store, derivFailed, derivWorn, hidden,
                    request, refreshes>>
        /\ stray' = "none"
    BY <1>1 DEF PublishSnapshot
  <2> QED
    BY <2>1, <2>2, <2>3, <2>4, <2>5, <2>6
<1>2. CASE PublishRollsBack
  BY <1>2 DEF PublishRollsBack
<1>3. CASE UnpublishEvent \/ ReopenEvent \/ CloseEventIntake
  BY <1>3 DEF UnpublishEvent, ReopenEvent, CloseEventIntake
<1>4. CASE PrepareEventManifest
  BY <1>4, SnapshotTyped DEF PrepareEventManifest
<1>5. CASE FinalizeAgain
  BY <1>5 DEF FinalizeAgain
<1>6. ASSUME NEW g \in Generations, CommitEventManifest(g) \/ AbandonEventFinalize(g)
      PROVE  DataTypeOK'
  BY <1>6 DEF CommitEventManifest, AbandonEventFinalize
<1>7. ASSUME NEW target \in EventStates, MoveEvent(target)
      PROVE  DataTypeOK'
  BY <1>7 DEF MoveEvent
<1> QED
  BY <1>1, <1>2, <1>3, <1>4, <1>5, <1>6, <1>7 DEF PublicationNext

\* Everything but the counters is typed, whatever the store and the cleanups do.
LEMMA DataTypeStep == DataTypeOK /\ [Next]_vars => DataTypeOK'
<1>1. DataTypeOK /\ UNCHANGED vars => DataTypeOK'
  BY DEF vars, batchVars, objectVars, galleryVars, callVars, DataTypeOK,
         ContributionTypeOK, ObjectTypeOK, GalleryTypeOK, CallTypeOK
<1> QED
  BY <1>1, ContributionTypes, RequestTypes, ProcessingTypes, StructureTypes,
     PublicationTypes DEF Next

-----------------------------------------------------------------------------
(* Which actions change the rows and the requests at all.                  *)

\* The commands that write object rows.
LEMMA ObjectChanges ==
    ASSUME [Next]_vars
    PROVE  \/ UNCHANGED object
           \/ \E b \in Batches, s \in SubEvents : Reserve(b, s)
           \/ \E a \in Assets : IssueLease(a) \/ ExcludeAsset(a)
           \/ \E b \in Batches : CancelBatch(b)
           \/ \E r \in Requests : CommitVerify(r) \/ CommitRegister(r) \/ CommitVerifyDerivative(r)
           \/ PublishSnapshot
BY DEF Next, vars, objectVars, ContributionNext, VerifyExcluded, IssueDerivativeLease,
       LeaseExpires, Upload, CleanupRollsBack, RevokeInstallation, RequestNext,
       BeginVerify, BeginRegister, BeginVerifyDerivative, AbortVerify, ProcessingNext,
       SubmitAnalysis, SubmitConflicting, ReportFaceFailure, ResetAnalysis, HideAsset,
       RestoreAsset, ReportDerivativeFailure, RefreshDerivativeReadiness,
       RefreshFaceReadiness, RefreshIsLost, StructureNext, SetSubEventArchived, Reassign,
       PublicationNext, PublishRollsBack, UnpublishEvent, ReopenEvent, CloseEventIntake,
       PrepareEventManifest, FinalizeAgain, CommitEventManifest, AbandonEventFinalize,
       MoveEvent

\* A request begins by looking and ends by its transaction.
LEMMA RequestChanges ==
    ASSUME [Next]_vars
    PROVE  \/ UNCHANGED request
           \/ \E r \in Requests, a \in Assets : BeginVerify(r, a) \/ BeginRegister(r, a)
           \/ \E r \in Requests, a \in Assets, v \in Derivatives : BeginVerifyDerivative(r, a, v)
           \/ \E r \in Requests : request' = [request EXCEPT ![r] = Idle]
BY DEF Next, vars, callVars, ContributionNext, Reserve, IssueLease, ExcludeAsset,
       VerifyExcluded, IssueDerivativeLease, LeaseExpires, Upload, CleanupRollsBack,
       CancelBatch, RevokeInstallation, RequestNext, CommitVerify, CommitRegister,
       CommitVerifyDerivative, AbortVerify, ProcessingNext, SubmitAnalysis,
       SubmitConflicting, ReportFaceFailure, ResetAnalysis, HideAsset, RestoreAsset,
       ReportDerivativeFailure, RefreshDerivativeReadiness, RefreshFaceReadiness,
       RefreshIsLost, StructureNext, SetSubEventArchived, Reassign, PublicationNext,
       PublishSnapshot, PublishRollsBack, UnpublishEvent, ReopenEvent, CloseEventIntake,
       PrepareEventManifest, FinalizeAgain, CommitEventManifest, AbandonEventFinalize,
       MoveEvent

-----------------------------------------------------------------------------
(* What a step does to the originals.  Six kinds of step are all the       *)
(* invariants below have to look at.                                       *)

Quiet ==
    /\ UNCHANGED <<reserved, verified, batch, snapshot>>
    /\ \A a \in Assets : object'[Original(a)] = object[Original(a)]

\* The original of a, still pending, goes to state s and no other original moves.
Moves(a, s) ==
    /\ object[Original(a)] \notin Terminal
    /\ object'[Original(a)] = s
    /\ \A c \in Assets \ {a} : object'[Original(c)] = object[Original(c)]
    /\ UNCHANGED snapshot
    /\ \/ /\ s \in {"reserved", "failed"}
          /\ UNCHANGED <<reserved, verified, batch>>
       \/ /\ s = "verified"
          /\ reserved' = reserved /\ verified' = verified + 1
          /\ CompleteIfTerminal(BatchOf[a])
       \/ /\ s = "excluded"
          /\ reserved' = reserved - 1 /\ verified' = verified
          /\ CompleteIfTerminal(BatchOf[a])

\* Rows exist exactly for reserved contributions, requests only about them.
RowsInv ==
    /\ \A o \in Objects : batch[BatchOf[o[1]]] = "none" => object[o] = "absent"
    /\ \A a \in Assets : batch[BatchOf[a]] # "none" => object[Original(a)] # "absent"
    /\ \A r \in Requests :
          request[r] # Idle => batch[BatchOf[request[r].object[1]]] # "none"

MovesPending == \E a \in Assets, s \in {"reserved", "failed", "verified", "excluded"} :
                    object[Original(a)] # "absent" /\ Moves(a, s)

\* A verification request ends in one of the moves of its original, or in none.
LEMMA CommitVerifyMoves ==
    ASSUME DataTypeOK, RowsInv, NEW r \in Requests, CommitVerify(r)
    PROVE  Quiet \/ MovesPending
<1> DEFINE o == request[r].object
           a == o[1]
<1>1. /\ o = Original(a) /\ a \in Assets
      /\ object[o] # "absent"
      /\ object \in [Objects -> {"absent", "reserved", "failed", "verified", "excluded"}]
  BY RequestFacts, VariantFacts DEF CommitVerify, DataTypeOK, ObjectTypeOK, RowsInv
<1>2. \A c \in Assets \ {a} : Original(c) # o
  BY <1>1, VariantFacts
<1>3. UNCHANGED snapshot
  BY DEF CommitVerify, galleryVars
<1>4. CASE object' = object /\ UNCHANGED <<reserved, verified, batch>>
  BY <1>3, <1>4 DEF Quiet
<1>5. CASE /\ StillPending(o)
           /\ object' = [object EXCEPT ![o] = "failed"]
           /\ UNCHANGED <<reserved, verified, batch>>
  <2>1. Moves(a, "failed")
    BY <1>1, <1>2, <1>3, <1>5, VariantFacts DEF Moves, StillPending
  <2> QED
    BY <2>1, <1>1 DEF MovesPending
<1>6. CASE /\ StillPending(o)
           /\ object' = [object EXCEPT ![o] = "verified"]
           /\ reserved' = reserved /\ verified' = verified + 1
           /\ CompleteIfTerminal(BatchOf[a])
  <2>1. Moves(a, "verified")
    BY <1>1, <1>2, <1>3, <1>6, VariantFacts DEF Moves, StillPending
  <2> QED
    BY <2>1, <1>1 DEF MovesPending
<1> QED
  BY <1>4, <1>5, <1>6 DEF CommitVerify, ledgerVars

\* What one step can do to the originals: nothing, or one of these moves.
LEMMA OriginalsStep ==
    ASSUME DataTypeOK, RowsInv, [Next]_vars
    PROVE  \/ Quiet
           \/ MovesPending
           \/ \E b \in Batches, s \in SubEvents : Reserve(b, s)
           \/ \E b \in Batches : CancelBatch(b)
           \/ PublishSnapshot
           \/ PrepareEventManifest
<1> USE DEF batchVars, objectVars, galleryVars, ledgerVars
<1>1. CASE ContributionNext
  <2>1. ASSUME NEW a \in Assets, IssueLease(a)
        PROVE  MovesPending
    <3>1. Moves(a, "reserved")
      BY <2>1, VariantFacts
         DEF IssueLease, Moves, Leasable, Terminal, DataTypeOK, ObjectTypeOK
    <3> QED
      BY <2>1, <3>1 DEF MovesPending, IssueLease, Leasable
  <2>2. ASSUME NEW a \in Assets, ExcludeAsset(a)
        PROVE  MovesPending
    <3>1. Moves(a, "excluded")
      BY <2>2, VariantFacts DEF ExcludeAsset, Moves, Terminal, DataTypeOK, ObjectTypeOK
    <3> QED
      BY <2>2, <3>1 DEF MovesPending, ExcludeAsset
  <2>3. ASSUME NEW a \in Assets, VerifyExcluded(a)
        PROVE  Quiet
    BY <2>3 DEF VerifyExcluded, Quiet
  <2>4. ASSUME NEW a \in Assets, NEW v \in Derivatives, IssueDerivativeLease(a, v)
        PROVE  Quiet
    BY <2>4 DEF IssueDerivativeLease, Quiet
  <2>5. ASSUME NEW o \in Objects, LeaseExpires(o) \/ Upload(o) \/ CleanupRollsBack(o)
        PROVE  Quiet
    BY <2>5 DEF LeaseExpires, Upload, CleanupRollsBack, Quiet
  <2>6. ASSUME NEW i \in Installations, RevokeInstallation(i)
        PROVE  Quiet
    BY <2>6 DEF RevokeInstallation, Quiet
  <2> QED
    BY <1>1, <2>1, <2>2, <2>3, <2>4, <2>5, <2>6 DEF ContributionNext
<1>2. CASE RequestNext
  <2>1. ASSUME NEW r \in Requests, NEW a \in Assets, BeginVerify(r, a) \/ BeginRegister(r, a)
        PROVE  Quiet
    BY <2>1 DEF BeginVerify, BeginRegister, Quiet
  <2>2. ASSUME NEW r \in Requests, NEW a \in Assets, NEW v \in Derivatives,
               BeginVerifyDerivative(r, a, v)
        PROVE  Quiet
    BY <2>2 DEF BeginVerifyDerivative, Quiet
  <2>3. ASSUME NEW r \in Requests, CommitRegister(r)
        PROVE  Quiet
    BY <2>3, VariantFacts DEF CommitRegister, Quiet, DataTypeOK, ObjectTypeOK, Original
  <2>4. ASSUME NEW r \in Requests, CommitVerifyDerivative(r)
        PROVE  Quiet
    <3>1. request[r].object \in Objects /\ \A c \in Assets : Original(c) # request[r].object
      BY <2>4, RequestFacts DEF CommitVerifyDerivative, DataTypeOK, Original
    <3>2. \/ object' = [object EXCEPT ![request[r].object] = "failed"]
          \/ object' = [object EXCEPT ![request[r].object] = "verified"]
      BY <2>4 DEF CommitVerifyDerivative
    <3>3. \A c \in Assets : object'[Original(c)] = object[Original(c)]
      BY <3>1, <3>2, VariantFacts DEF DataTypeOK, ObjectTypeOK
    <3> QED
      BY <2>4, <3>3 DEF CommitVerifyDerivative, Quiet
  <2>5. ASSUME NEW r \in Requests, AbortVerify(r)
        PROVE  Quiet
    BY <2>5 DEF AbortVerify, Quiet
  <2> QED
    BY <1>2, <2>1, <2>2, <2>3, <2>4, <2>5, CommitVerifyMoves DEF RequestNext
<1>3. CASE ProcessingNext
  BY <1>3 DEF ProcessingNext, SubmitAnalysis, SubmitConflicting, ReportFaceFailure,
              ResetAnalysis, HideAsset, RestoreAsset, ReportDerivativeFailure,
              RefreshDerivativeReadiness, RefreshFaceReadiness, RefreshIsLost, Quiet
<1>4. CASE StructureNext
  BY <1>4 DEF StructureNext, SetSubEventArchived, Reassign, Quiet
<1>5. CASE PublicationNext
  BY <1>5 DEF PublicationNext, PublishRollsBack, UnpublishEvent, ReopenEvent,
              CloseEventIntake, FinalizeAgain, CommitEventManifest, AbandonEventFinalize,
              MoveEvent, Quiet
<1>6. CASE UNCHANGED vars
  BY <1>6 DEF vars, Quiet
<1> QED
  BY <1>1, <1>2, <1>3, <1>4, <1>5, <1>6 DEF Next

\* Contributions are reserved once and for all.
LEMMA BatchesStay ==
    ASSUME DataTypeOK, RowsInv, [Next]_vars
    PROVE  /\ \A b \in Batches : batch[b] # "none" => batch'[b] # "none"
           /\ \/ \E b \in Batches, s \in SubEvents : Reserve(b, s)
              \/ \A b \in Batches : batch[b] = "none" => batch'[b] = "none"
<1> USE DEF DataTypeOK, ContributionTypeOK
<1>1. CASE Quiet
  BY <1>1 DEF Quiet
<1>2. CASE MovesPending
  <2>1. PICK a \in Assets : UNCHANGED batch \/ CompleteIfTerminal(BatchOf[a])
    BY <1>2 DEF MovesPending, Moves
  <2> QED
    BY <2>1, VariantFacts DEF CompleteIfTerminal
<1>3. ASSUME NEW b \in Batches, NEW s \in SubEvents, Reserve(b, s)
      PROVE  \A c \in Batches : batch[c] # "none" => batch'[c] # "none"
  BY <1>3 DEF Reserve
<1>4. ASSUME NEW b \in Batches, CancelBatch(b)
      PROVE  \A c \in Batches : batch[c] = "none" <=> batch'[c] = "none"
  BY <1>4 DEF CancelBatch, MayCancel
<1>5. CASE PublishSnapshot
  BY <1>5 DEF PublishSnapshot, Unfinished
<1>6. CASE PrepareEventManifest
  BY <1>6 DEF PrepareEventManifest, batchVars
<1> QED
  BY <1>1, <1>2, <1>3, <1>4, <1>5, <1>6, OriginalsStep

\* A row made by any other step than a reservation belongs to a reserved
\* contribution: registrations and late verifications check or were begun so.
LEMMA NewRows ==
    ASSUME DataTypeOK, RowsInv, [Next]_vars, NEW o \in Objects,
           batch[BatchOf[o[1]]] = "none",
           ~\E b \in Batches, s \in SubEvents : Reserve(b, s)
    PROVE  object'[o] = "absent"
<1> USE VariantFacts DEF DataTypeOK, ObjectTypeOK, RowsInv
<1>1. object[o] = "absent"
  OBVIOUS
<1>2. CASE ContributionNext
  <2>1. ASSUME NEW a \in Assets, IssueLease(a) \/ ExcludeAsset(a) \/ VerifyExcluded(a)
        PROVE  object'[o] = "absent"
    BY <1>1, <2>1 DEF IssueLease, Leasable, ExcludeAsset, VerifyExcluded
  <2>2. ASSUME NEW b \in Batches, CancelBatch(b)
        PROVE  object'[o] = "absent"
    BY <1>1, <2>2 DEF CancelBatch, Releasable
  <2> QED
    BY <1>1, <1>2, <2>1, <2>2
       DEF ContributionNext, IssueDerivativeLease, LeaseExpires, Upload, CleanupRollsBack,
           RevokeInstallation, objectVars
<1>3. CASE RequestNext
  <2>1. PICK r \in Requests : \/ \E a \in Assets : BeginVerify(r, a) \/ BeginRegister(r, a)
                              \/ \E a \in Assets, v \in Derivatives : BeginVerifyDerivative(r, a, v)
                              \/ CommitVerify(r)
                              \/ CommitRegister(r)
                              \/ CommitVerifyDerivative(r)
                              \/ AbortVerify(r)
    BY <1>3 DEF RequestNext
  <2>2. request[r] # Idle => request[r].object \in Objects /\ request[r].object # o
    BY RequestFacts
  <2>3. CASE CommitVerify(r)
    BY <1>1, <2>2, <2>3 DEF CommitVerify
  <2>4. CASE CommitRegister(r)
    BY <1>1, <2>2, <2>4 DEF CommitRegister
  <2>5. CASE CommitVerifyDerivative(r)
    BY <1>1, <2>2, <2>5 DEF CommitVerifyDerivative
  <2> QED
    BY <1>1, <2>1, <2>3, <2>4, <2>5
       DEF BeginVerify, BeginRegister, BeginVerifyDerivative, AbortVerify, objectVars
<1>4. CASE ProcessingNext
  BY <1>1, <1>4
     DEF ProcessingNext, SubmitAnalysis, SubmitConflicting, ReportFaceFailure,
         ResetAnalysis, HideAsset, RestoreAsset, ReportDerivativeFailure,
         RefreshDerivativeReadiness, RefreshFaceReadiness, RefreshIsLost, objectVars
<1>5. CASE StructureNext
  BY <1>1, <1>5 DEF StructureNext, SetSubEventArchived, Reassign, objectVars
<1>6. CASE PublicationNext
  <2>1. CASE PublishSnapshot
    BY <1>1, <2>1 DEF PublishSnapshot
  <2> QED
    BY <1>1, <1>6, <2>1
       DEF PublicationNext, PublishRollsBack, UnpublishEvent, ReopenEvent,
           CloseEventIntake, PrepareEventManifest, FinalizeAgain, CommitEventManifest,
           AbandonEventFinalize, MoveEvent, objectVars
<1>7. CASE UNCHANGED vars
  BY <1>1, <1>7 DEF vars, objectVars
<1> QED
  BY <1>2, <1>3, <1>4, <1>5, <1>6, <1>7 DEF Next

\* A request is made about a reserved contribution and keeps its object.
LEMMA RequestsStay ==
    ASSUME DataTypeOK, RowsInv, [Next]_vars, NEW r \in Requests, request'[r] # Idle
    PROVE  \/ request'[r] = request[r]
           \/ /\ request'[r].object[1] \in Assets
              /\ batch[BatchOf[request'[r].object[1]]] # "none"
              /\ UNCHANGED batch
<1> USE DEF DataTypeOK, CallTypeOK, batchVars
<1>1. ASSUME NEW q \in Requests, NEW a \in Assets, BeginVerify(q, a) \/ BeginRegister(q, a)
      PROVE  \/ request'[r] = request[r]
             \/ /\ request'[r].object[1] \in Assets
                /\ batch[BatchOf[request'[r].object[1]]] # "none"
                /\ UNCHANGED batch
  BY <1>1 DEF BeginVerify, BeginRegister, Original
<1>2. ASSUME NEW q \in Requests, NEW a \in Assets, NEW v \in Derivatives,
             BeginVerifyDerivative(q, a, v)
      PROVE  \/ request'[r] = request[r]
             \/ /\ request'[r].object[1] \in Assets
                /\ batch[BatchOf[request'[r].object[1]]] # "none"
                /\ UNCHANGED batch
  BY <1>2 DEF BeginVerifyDerivative, Owned
<1>3. ASSUME NEW q \in Requests, request' = [request EXCEPT ![q] = Idle]
      PROVE  request'[r] = request[r]
  BY <1>3
<1> QED
  BY <1>1, <1>2, <1>3, RequestChanges

\* An original's row stays.
LEMMA OriginalsStay ==
    ASSUME DataTypeOK, RowsInv, [Next]_vars, NEW a \in Assets,
           object[Original(a)] # "absent"
    PROVE  object'[Original(a)] # "absent"
<1> USE VariantFacts DEF DataTypeOK, ObjectTypeOK
<1>1. CASE Quiet
  BY <1>1 DEF Quiet
<1>2. CASE MovesPending
  BY <1>2 DEF MovesPending, Moves
<1>3. ASSUME NEW b \in Batches, NEW s \in SubEvents, Reserve(b, s)
      PROVE  object'[Original(a)] # "absent"
  BY <1>3 DEF Reserve
<1>4. ASSUME NEW b \in Batches, CancelBatch(b)
      PROVE  object'[Original(a)] # "absent"
  BY <1>4 DEF CancelBatch
<1>5. CASE PublishSnapshot
  BY <1>5 DEF PublishSnapshot
<1>6. CASE PrepareEventManifest
  BY <1>6 DEF PrepareEventManifest, objectVars
<1> QED
  BY <1>1, <1>2, <1>3, <1>4, <1>5, <1>6, OriginalsStep

\* Rows exist exactly for what was reserved, and every step keeps that.
LEMMA RowsStep == ASSUME DataTypeOK, RowsInv, [Next]_vars PROVE RowsInv'
<1> USE VariantFacts
<1>1. ASSUME NEW o \in Objects, batch'[BatchOf[o[1]]] = "none"
      PROVE  object'[o] = "absent"
  <2>1. batch[BatchOf[o[1]]] = "none"
    BY <1>1, BatchesStay
  <2>2. ASSUME NEW b \in Batches, NEW s \in SubEvents, Reserve(b, s)
        PROVE  object'[o] = "absent"
    <3>1. b # BatchOf[o[1]]
      BY <1>1, <2>2 DEF Reserve, DataTypeOK, ContributionTypeOK
    <3> QED
      BY <2>1, <2>2, <3>1 DEF Reserve, AssetsOf, RowsInv
  <2> QED
    BY <2>1, <2>2, NewRows
<1>2. ASSUME NEW a \in Assets, batch'[BatchOf[a]] # "none"
      PROVE  object'[Original(a)] # "absent"
  <2>1. CASE batch[BatchOf[a]] # "none"
    BY <2>1, OriginalsStay DEF RowsInv
  <2>2. CASE batch[BatchOf[a]] = "none"
    <3>1. PICK b \in Batches, s \in SubEvents : Reserve(b, s)
      BY <1>2, <2>2, BatchesStay
    <3>2. b = BatchOf[a]
      BY <1>2, <2>2, <3>1 DEF Reserve, DataTypeOK, ContributionTypeOK
    <3>3. Original(a) \in AssetsOf(b) \X {"original"}
      BY <3>2 DEF AssetsOf, Original
    <3> QED
      BY <3>1, <3>3 DEF Reserve
  <2> QED
    BY <2>1, <2>2
<1>3. ASSUME NEW r \in Requests, request'[r] # Idle
      PROVE  batch'[BatchOf[request'[r].object[1]]] # "none"
  <2>1. CASE request'[r] = request[r]
    BY <1>3, <2>1, BatchesStay, RequestFacts DEF RowsInv, DataTypeOK
  <2>2. CASE /\ batch[BatchOf[request'[r].object[1]]] # "none"
             /\ UNCHANGED batch
    BY <2>2
  <2> QED
    BY <1>3, <2>1, <2>2, RequestsStay
<1> QED
  BY <1>1, <1>2, <1>3 DEF RowsInv

-----------------------------------------------------------------------------
(* Contributions follow their originals.                                   *)

\* A pending original that has a row belongs to a reserved contribution.
LEMMA PendingIsReserved ==
    ASSUME DataTypeOK, RowsInv, BatchFollowsItsOriginals,
           NEW a \in Assets, object[Original(a)] \notin Terminal \cup {"absent"}
    PROVE  batch[BatchOf[a]] = "reserved"
<1>1. BatchOf[a] \in Batches /\ a \in AssetsOf(BatchOf[a])
  BY VariantFacts DEF AssetsOf
<1>2. batch[BatchOf[a]] # "none"
  BY VariantFacts DEF RowsInv, Original
<1> QED
  BY <1>1, <1>2 DEF DataTypeOK, ContributionTypeOK, BatchFollowsItsOriginals, BatchIsTerminal,
                    Terminal

\* The contribution states after the steps that move originals.
LEMMA FollowsMoves ==
    ASSUME DataTypeOK, RowsInv, BatchFollowsItsOriginals, MovesPending
    PROVE  BatchFollowsItsOriginals'
<1>1. PICK a \in Assets, s \in {"reserved", "failed", "verified", "excluded"} :
         object[Original(a)] # "absent" /\ Moves(a, s)
  BY DEF MovesPending
<1>2. /\ batch[BatchOf[a]] = "reserved"
      /\ BatchOf[a] \in Batches
      /\ a \in AssetsOf(BatchOf[a])
  BY <1>1, PendingIsReserved, VariantFacts DEF Moves, AssetsOf
<1>3. ASSUME NEW b \in Batches, b # BatchOf[a]
      PROVE  /\ batch'[b] = batch[b]
             /\ \A c \in AssetsOf(b) : object'[Original(c)] = object[Original(c)]
  BY <1>1, <1>3 DEF Moves, AssetsOf, CompleteIfTerminal, DataTypeOK, ContributionTypeOK
<1>4. \/ batch'[BatchOf[a]] = "reserved" /\ ~BatchIsTerminal(BatchOf[a])'
      \/ batch'[BatchOf[a]] = "complete" /\ BatchIsTerminal(BatchOf[a])'
  <2>1. CASE s \in {"reserved", "failed"}
    BY <1>1, <1>2, <2>1 DEF Moves, BatchIsTerminal, Terminal
  <2>2. CASE CompleteIfTerminal(BatchOf[a])
    BY <1>2, <2>2 DEF CompleteIfTerminal, BatchIsTerminal, DataTypeOK, ContributionTypeOK
  <2> QED
    BY <1>1, <2>1, <2>2 DEF Moves
<1>5. ASSUME NEW b \in Batches
      PROVE  /\ batch'[b] = "reserved" => ~BatchIsTerminal(b)'
             /\ batch'[b] = "complete" => BatchIsTerminal(b)'
             /\ batch'[b] \in {"not_included", "cancelled"} =>
                    \A c \in AssetsOf(b) : object'[Original(c)] = "excluded"
  <2>1. CASE b = BatchOf[a]
    BY <1>4, <2>1
  <2>2. CASE b # BatchOf[a]
    BY <1>3, <2>2 DEF BatchFollowsItsOriginals, BatchIsTerminal
  <2> QED
    BY <2>1, <2>2
<1> QED
  BY <1>5 DEF BatchFollowsItsOriginals, AssetsOf

\* Every step keeps the contribution states in line with the originals.
LEMMA FollowsStep ==
    ASSUME DataTypeOK, RowsInv, BatchFollowsItsOriginals, [Next]_vars
    PROVE  BatchFollowsItsOriginals'
<1> USE VariantFacts DEF DataTypeOK, ContributionTypeOK, ObjectTypeOK
<1>1. CASE Quiet
  BY <1>1 DEF Quiet, BatchFollowsItsOriginals, BatchIsTerminal, AssetsOf
<1>2. ASSUME NEW b \in Batches, NEW s \in SubEvents, Reserve(b, s)
      PROVE  BatchFollowsItsOriginals'
  <2>1. \A a \in AssetsOf(b) : object'[Original(a)] = "reserved"
    BY <1>2 DEF Reserve, AssetsOf, Original
  <2>2. \A c \in Batches \ {b} :
           /\ batch'[c] = batch[c]
           /\ \A a \in AssetsOf(c) : object'[Original(a)] = object[Original(a)]
    BY <1>2 DEF Reserve, AssetsOf, Original
  <2>3. batch'[b] = "reserved" /\ ~BatchIsTerminal(b)'
    BY <1>2, <2>1 DEF Reserve, BatchIsTerminal, Terminal, AssetsOf
  <2> QED
    BY <2>2, <2>3 DEF BatchFollowsItsOriginals, BatchIsTerminal, AssetsOf
<1>3. ASSUME NEW b \in Batches, CancelBatch(b)
      PROVE  BatchFollowsItsOriginals'
  <2>1. \A a \in AssetsOf(b) : object'[Original(a)] = "excluded"
    BY <1>3 DEF CancelBatch, MayCancel, Releasable, ObjectsOf, AssetsOf, RowsInv, Original, Variants
  <2>2. \A c \in Batches \ {b} :
           /\ batch'[c] = batch[c]
           /\ \A a \in AssetsOf(c) : object'[Original(a)] = object[Original(a)]
    BY <1>3 DEF CancelBatch, Releasable, ObjectsOf, AssetsOf, Original
  <2>3. batch'[b] = "cancelled"
    BY <1>3 DEF CancelBatch
  <2> QED
    BY <2>1, <2>2, <2>3 DEF BatchFollowsItsOriginals, BatchIsTerminal, AssetsOf
<1>4. CASE PublishSnapshot
  <2>1. \A b \in Unfinished : \A a \in AssetsOf(b) : object'[Original(a)] = "excluded"
    BY <1>4 DEF PublishSnapshot, UnfinishedAssets, Unfinished, AssetsOf, RowsInv, Original
  <2>2. \A b \in Batches \ Unfinished :
           /\ batch'[b] = batch[b] /\ batch[b] # "reserved"
           /\ \A a \in AssetsOf(b) : object'[Original(a)] = object[Original(a)]
    BY <1>4 DEF PublishSnapshot, UnfinishedAssets, Unfinished, AssetsOf, Original
  <2>3. \A b \in Unfinished : b \in Batches /\ batch'[b] = "not_included"
    BY <1>4 DEF PublishSnapshot, Unfinished
  <2> QED
    BY <2>1, <2>2, <2>3 DEF BatchFollowsItsOriginals, BatchIsTerminal, AssetsOf
<1>5. CASE PrepareEventManifest
  BY <1>5 DEF PrepareEventManifest, batchVars, objectVars, BatchFollowsItsOriginals,
              BatchIsTerminal, AssetsOf
<1> QED
  BY <1>1, <1>2, <1>3, <1>4, <1>5, FollowsMoves, OriginalsStep

-----------------------------------------------------------------------------
(* What the manifests list is kept.                                        *)

\* What a manifest lists lies in complete contributions, which nothing gives up.
SnapshotInv ==
    \A g \in Generations, a \in Assets :
        a \in snapshot[g] => object[Original(a)] = "verified" /\ batch[BatchOf[a]] = "complete"

\* When finalisation finds every original terminal, what is kept lies in
\* complete contributions.
LEMMA KeptIsComplete ==
    ASSUME DataTypeOK, RowsInv, BatchFollowsItsOriginals, OriginalsTerminal,
           NEW a \in Kept
    PROVE  batch[BatchOf[a]] = "complete"
<1>1. a \in Assets /\ object[Original(a)] = "verified"
  BY DEF Kept
<1>2. BatchOf[a] \in Batches /\ a \in AssetsOf(BatchOf[a])
  BY <1>1, VariantFacts DEF AssetsOf
<1>3. batch[BatchOf[a]] # "reserved"
  <2>1. SUFFICES ASSUME batch[BatchOf[a]] = "reserved" PROVE FALSE
    OBVIOUS
  <2>2. PICK c \in AssetsOf(BatchOf[a]) : object[Original(c)] \notin Terminal
    BY <1>2, <2>1 DEF BatchFollowsItsOriginals, BatchIsTerminal
  <2>3. c \in Assets /\ BatchOf[c] = BatchOf[a]
    BY DEF AssetsOf
  <2>4. object[Original(c)] \in {"reserved", "failed"}
    BY <2>1, <2>2, <2>3, VariantFacts DEF RowsInv, DataTypeOK, ObjectTypeOK, Terminal
  <2> QED
    BY <2>3, <2>4 DEF OriginalsTerminal, Charged, Kept
<1>4. batch[BatchOf[a]] # "none"
  BY <1>1, VariantFacts DEF RowsInv, Original
<1> QED
  BY <1>1, <1>2, <1>3, <1>4
     DEF BatchFollowsItsOriginals, DataTypeOK, ContributionTypeOK

\* Every step keeps the photos any manifest lists.
LEMMA SnapshotStep ==
    ASSUME DataTypeOK, RowsInv, BatchFollowsItsOriginals, SnapshotInv, [Next]_vars
    PROVE  SnapshotInv'
<1> USE VariantFacts DEF DataTypeOK, ContributionTypeOK, ObjectTypeOK
<1>1. CASE Quiet
  BY <1>1 DEF Quiet, SnapshotInv
<1>2. CASE MovesPending
  BY <1>2 DEF MovesPending, Moves, SnapshotInv, Terminal, CompleteIfTerminal
<1>3. ASSUME NEW b \in Batches, NEW s \in SubEvents, Reserve(b, s)
      PROVE  SnapshotInv'
  BY <1>3 DEF Reserve, AssetsOf, Original, SnapshotInv, galleryVars
<1>4. ASSUME NEW b \in Batches, CancelBatch(b)
      PROVE  SnapshotInv'
  BY <1>4 DEF CancelBatch, MayCancel, ObjectsOf, AssetsOf, Releasable, Original, Variants,
              SnapshotInv, galleryVars
<1>5. CASE PublishSnapshot
  <2>1. \A a \in Assets :
           object[Original(a)] = "verified" /\ batch[BatchOf[a]] = "complete" =>
               object'[Original(a)] = "verified" /\ batch'[BatchOf[a]] = "complete"
    BY <1>5 DEF PublishSnapshot, UnfinishedAssets, Unfinished, Original
  <2>2. snapshot' = [snapshot EXCEPT ![generation] = Completed]
    BY <1>5 DEF PublishSnapshot
  <2> QED
    BY <2>1, <2>2 DEF SnapshotInv, Completed, Kept, GalleryTypeOK
<1>6. CASE PrepareEventManifest
  <2>1. UNCHANGED <<batch, object>> /\ OriginalsTerminal
    BY <1>6 DEF PrepareEventManifest, batchVars, objectVars
  <2>2. snapshot' = [snapshot EXCEPT ![generation] = Kept] \/ UNCHANGED snapshot
    BY <1>6 DEF PrepareEventManifest
  <2> QED
    BY <2>1, <2>2, KeptIsComplete DEF SnapshotInv, Kept, GalleryTypeOK
<1> QED
  BY <1>1, <1>2, <1>3, <1>4, <1>5, <1>6, OriginalsStep

-----------------------------------------------------------------------------
(* The theorems about photos and contributions.  None of them needs an      *)
(* honest bucket or a cleanup that does not fail.                          *)

ContributionInv == DataTypeOK /\ RowsInv /\ BatchFollowsItsOriginals /\ SnapshotInv

\* Photos, contributions and manifests are consistent in every state.
THEOREM ContributionInvariant == Spec => []ContributionInv
<1>1. Init => ContributionInv
  <2>1. Init => RowsInv
    BY VariantFacts DEF Init, IngestionInit, RowsInv
  <2>2. Init => BatchFollowsItsOriginals
    BY DEF Init, IngestionInit, BatchFollowsItsOriginals
  <2>3. Init => SnapshotInv
    BY DEF Init, IngestionInit, SnapshotInv
  <2> QED
    BY <2>1, <2>2, <2>3, DataInit DEF ContributionInv
<1>2. ContributionInv /\ [Next]_vars => ContributionInv'
  BY DataTypeStep, RowsStep, FollowsStep, SnapshotStep DEF ContributionInv
<1> QED
  BY <1>1, <1>2, PTL DEF Spec

\* A contribution is complete, left out or cancelled exactly when its originals
\* are settled that way (_refresh_batch_completion and every command that
\* settles an original).
THEOREM BatchFollowsItsOriginalsAlways == Spec => []BatchFollowsItsOriginals
BY ContributionInvariant, PTL DEF ContributionInv

\* No later command gives up a photo a manifest lists.
THEOREM ManifestPhotosAreKeptAlways == Spec => []ManifestPhotosAreKept
<1>1. ContributionInv => ManifestPhotosAreKept
  BY DEF ContributionInv, DataTypeOK, GalleryTypeOK, SnapshotInv, ManifestPhotosAreKept, Kept
<1> QED
  BY <1>1, ContributionInvariant, PTL

\* No step takes an original out of its exclusion.
LEMMA ExcludedStays ==
    ASSUME DataTypeOK, RowsInv, [Next]_vars, NEW a \in Assets,
           object[Original(a)] = "excluded"
    PROVE  object'[Original(a)] = "excluded"
<1> USE VariantFacts DEF DataTypeOK, ObjectTypeOK
<1>1. CASE Quiet
  BY <1>1 DEF Quiet
<1>2. CASE MovesPending
  BY <1>2 DEF MovesPending, Moves, Terminal
<1>3. ASSUME NEW b \in Batches, NEW s \in SubEvents, Reserve(b, s)
      PROVE  object'[Original(a)] = "excluded"
  BY <1>3 DEF Reserve, AssetsOf, Original, RowsInv
<1>4. ASSUME NEW b \in Batches, CancelBatch(b)
      PROVE  object'[Original(a)] = "excluded"
  BY <1>4 DEF CancelBatch
<1>5. CASE PublishSnapshot
  BY <1>5 DEF PublishSnapshot
<1>6. CASE PrepareEventManifest
  BY <1>6 DEF PrepareEventManifest, objectVars
<1> QED
  BY <1>1, <1>2, <1>3, <1>4, <1>5, <1>6, OriginalsStep

\* An excluded original never comes back, whatever a late verification saw.
THEOREM ExcludedIsFinalAlways == Spec => ExcludedIsFinal
<1>1. ContributionInv /\ [Next]_vars =>
         [\A a \in Assets : object[Original(a)] = "excluded"
                             => object'[Original(a)] = "excluded"]_vars
  BY ExcludedStays DEF ContributionInv
<1> QED
  BY <1>1, ContributionInvariant, PTL DEF Spec, ExcludedIsFinal

\* A verified original is lost only to a publication that leaves its whole,
\* unfinished contribution out.
THEOREM VerifiedIsGivenUpAlways == Spec => VerifiedIsGivenUpOnlyByPublication
<1> DEFINE Step ==
        \A a \in Assets :
          object[Original(a)] = "verified" /\ object'[Original(a)] # "verified" =>
              /\ state # "published" /\ state' = "published"
              /\ batch[BatchOf[a]] = "reserved" /\ batch'[BatchOf[a]] = "not_included"
<1>1. ContributionInv /\ [Next]_vars => Step
  <2> SUFFICES ASSUME ContributionInv, [Next]_vars, NEW a \in Assets,
                      object[Original(a)] = "verified", object'[Original(a)] # "verified"
               PROVE  /\ state # "published" /\ state' = "published"
                      /\ batch[BatchOf[a]] = "reserved" /\ batch'[BatchOf[a]] = "not_included"
    OBVIOUS
  <2> USE VariantFacts DEF ContributionInv, DataTypeOK, ObjectTypeOK, ContributionTypeOK
  <2>1. CASE Quiet
    BY <2>1 DEF Quiet
  <2>2. CASE MovesPending
    BY <2>2 DEF MovesPending, Moves, Terminal
  <2>3. ASSUME NEW b \in Batches, NEW s \in SubEvents, Reserve(b, s)
        PROVE  FALSE
    BY <2>3 DEF Reserve, AssetsOf, Original, RowsInv
  <2>4. ASSUME NEW b \in Batches, CancelBatch(b)
        PROVE  FALSE
    BY <2>4 DEF CancelBatch, Releasable, MayCancel
  <2>5. CASE PublishSnapshot
    <3>1. BatchOf[a] \in Unfinished
      BY <2>5 DEF PublishSnapshot, UnfinishedAssets, Original
    <3> QED
      BY <2>5, <3>1 DEF PublishSnapshot, Publish, CanPublish, Unfinished
  <2>6. CASE PrepareEventManifest
    BY <2>6 DEF PrepareEventManifest, objectVars
  <2> QED
    BY <2>1, <2>2, <2>3, <2>4, <2>5, <2>6, OriginalsStep
<1>2. ContributionInv /\ [Next]_vars => [Step]_vars
  BY <1>1
<1> QED
  BY <1>2, ContributionInvariant, PTL DEF Spec, VerifiedIsGivenUpOnlyByPublication

\* A committed manifest is never rewritten: a publication needs a generation
\* without one, a finalisation writes the list only with the row.
THEOREM ManifestsAreImmutableAlways == Spec => ManifestsAreImmutable
<1> DEFINE Step == \A g \in Generations : manifest[g] = "committed" =>
                       manifest'[g] = "committed" /\ snapshot'[g] = snapshot[g]
           Inv == ContributionInv /\ LifecycleTypeOK
<1>1. Inv /\ [Next]_vars => Step
  <2> SUFFICES ASSUME Inv, [Next]_vars, NEW g \in Generations, manifest[g] = "committed"
               PROVE  manifest'[g] = "committed" /\ snapshot'[g] = snapshot[g]
    OBVIOUS
  <2> USE DEF ContributionInv, DataTypeOK, GalleryTypeOK, LifecycleTypeOK
  <2>1. manifest'[g] = "committed"
    BY LifecycleStep, CommitsStayStep DEF CommitsStay
  <2>2. CASE Quiet
    BY <2>1, <2>2 DEF Quiet
  <2>3. CASE MovesPending
    BY <2>1, <2>3 DEF MovesPending, Moves
  <2>4. ASSUME NEW b \in Batches, NEW s \in SubEvents, Reserve(b, s)
        PROVE  UNCHANGED snapshot
    BY <2>4 DEF Reserve, galleryVars
  <2>5. ASSUME NEW b \in Batches, CancelBatch(b)
        PROVE  UNCHANGED snapshot
    BY <2>5 DEF CancelBatch, galleryVars
  <2>6. CASE PublishSnapshot
    BY <2>1, <2>6 DEF PublishSnapshot, Publish
  <2>7. CASE PrepareEventManifest
    BY <2>1, <2>7 DEF PrepareEventManifest
  <2> QED
    BY <2>1, <2>2, <2>3, <2>4, <2>5, <2>6, <2>7, OriginalsStep
<1>2. Inv /\ [Next]_vars => [Step]_vars
  BY <1>1
<1> QED
  BY <1>2, ContributionInvariant, ImplementsLifecycle, LifecycleTypes, PTL
     DEF Spec, ManifestsAreImmutable

-----------------------------------------------------------------------------
(***************************************************************************)
(* The allowance of an event: its counters stay typed whatever the bucket  *)
(* holds, and are what the rows add up to unless a derivative can arrive   *)
(* with other bytes than it was signed for.                                *)
(***************************************************************************)

-----------------------------------------------------------------------------
(* Types of the counters.                                                  *)

CountersOK == reserved \in 0..AssetLimit /\ verified \in 0..AssetLimit

\* The sets the counters are changed by are finite.
LEMMA FiniteCounts ==
    /\ IsFiniteSet(Charged) /\ IsFiniteSet(Kept) /\ IsFiniteSet(Objects)
    /\ \A b \in Batches : IsFiniteSet(AssetsOf(b)) /\ IsFiniteSet(Releasable(b))
    /\ IsFiniteSet(LeftOut)
<1>1. IsFiniteSet(Variants)
  BY IngestionConstants, FS_Singleton, FS_Union DEF Variants
<1>2. IsFiniteSet(Objects)
  BY <1>1, IngestionConstants, FS_Product DEF Objects
<1>3. /\ Charged \in SUBSET Assets /\ Kept \in SUBSET Assets
      /\ \A b \in Batches : AssetsOf(b) \in SUBSET Assets /\ Releasable(b) \in SUBSET Objects
      /\ LeftOut \in SUBSET Objects
  BY DEF Charged, Kept, AssetsOf, Releasable, ObjectsOf, LeftOut, UnfinishedAssets, Objects, Variants
<1>4. IsFiniteSet(Charged) /\ IsFiniteSet(Kept)
  BY <1>3, IngestionConstants, FS_Subset
<1>5. \A b \in Batches : IsFiniteSet(AssetsOf(b))
  BY <1>3, IngestionConstants, FS_Subset
<1>6. \A b \in Batches : IsFiniteSet(Releasable(b))
  BY <1>2, <1>3, FS_Subset
<1>7. IsFiniteSet(LeftOut)
  BY <1>2, <1>3, FS_Subset
<1> QED
  BY <1>2, <1>4, <1>5, <1>6, <1>7

\* The allowance check bounds what is reserved from above, the CHECK of the
\* table bounds both counters from below.
LEMMA CountersStep ==
    ASSUME ContributionInv, CountersOK, [Next]_vars
    PROVE  CountersOK'
<1> USE IngestionConstants DEF ContributionInv, CountersOK, LedgerCheck
<1>1. \/ UNCHANGED <<reserved, verified>>
      \/ \E a \in Assets : ExcludeAsset(a)
      \/ \E r \in Requests : CommitVerify(r)
      \/ \E b \in Batches, s \in SubEvents : Reserve(b, s)
      \/ \E b \in Batches : CancelBatch(b)
      \/ PublishSnapshot
  BY DEF Next, vars, ledgerVars, ContributionNext, IssueLease, VerifyExcluded,
         IssueDerivativeLease, LeaseExpires, Upload, CleanupRollsBack, RevokeInstallation,
         RequestNext, BeginVerify, BeginRegister, BeginVerifyDerivative, CommitRegister,
         CommitVerifyDerivative, AbortVerify, ProcessingNext, SubmitAnalysis,
         SubmitConflicting, ReportFaceFailure, ResetAnalysis, HideAsset, RestoreAsset,
         ReportDerivativeFailure, RefreshDerivativeReadiness, RefreshFaceReadiness,
         RefreshIsLost, StructureNext, SetSubEventArchived, Reassign, PublicationNext,
         PublishRollsBack, UnpublishEvent, ReopenEvent, CloseEventIntake,
         PrepareEventManifest, FinalizeAgain, CommitEventManifest, AbandonEventFinalize,
         MoveEvent
<1>2. CASE UNCHANGED <<reserved, verified>>
  BY <1>2
<1>3. ASSUME NEW a \in Assets, ExcludeAsset(a)
      PROVE  CountersOK'
  BY <1>3 DEF ExcludeAsset
<1>4. ASSUME NEW r \in Requests, CommitVerify(r)
      PROVE  CountersOK'
  BY <1>4 DEF CommitVerify, ledgerVars
<1>5. ASSUME NEW b \in Batches, NEW s \in SubEvents, Reserve(b, s)
      PROVE  CountersOK'
  <2>1. Cardinality(AssetsOf(b)) \in Nat
    BY FiniteCounts, FS_CardinalityType
  <2> QED
    BY <1>5, <2>1 DEF Reserve, FitsAllowance
<1>6. ASSUME NEW b \in Batches, CancelBatch(b)
      PROVE  CountersOK'
  <2>1. Cardinality(Releasable(b)) \in Nat
    BY FiniteCounts, FS_CardinalityType
  <2> QED
    BY <1>6, <2>1 DEF CancelBatch
<1>7. CASE PublishSnapshot
  <2>1. Cardinality(LeftOut) \in Nat
    BY FiniteCounts, FS_CardinalityType
  <2>2. IsFiniteSet({o \in LeftOut : object[o] = "verified"})
    BY FiniteCounts, FS_Subset
  <2>3. Cardinality({o \in LeftOut : object[o] = "verified"}) \in Nat
    BY <2>2, FS_CardinalityType
  <2> QED
    BY <1>7, <2>1, <2>3 DEF PublishSnapshot
<1> QED
  BY <1>1, <1>2, <1>3, <1>4, <1>5, <1>6, <1>7

\* The state is typed: in particular no command drives a counter below zero or
\* above the allowance, not even one that gives back too much.
THEOREM TypesAlways == Spec => []TypeOK
<1>1. Init => CountersOK
  BY IngestionConstants DEF Init, IngestionInit, CountersOK
<1>2. ContributionInv /\ CountersOK /\ [Next]_vars => CountersOK'
  BY CountersStep
<1>3. ContributionInv /\ CountersOK /\ LifecycleTypeOK => TypeOK
  BY DEF ContributionInv, CountersOK, DataTypeOK, TypeOK
<1> QED
  BY <1>1, <1>2, <1>3, ContributionInvariant, ImplementsLifecycle, LifecycleTypes, PTL DEF Spec

-----------------------------------------------------------------------------
(* Exactness.  CancelBatch and PublishSnapshot give back what a query finds *)
(* under any variant, so the ledger is exact as long as the contributions   *)
(* they give up hold no derivative row that is reserved or failed.          *)

\* The bucket refuses bytes other than the signed ones, or there are no
\* derivatives at all.
NoBadDerivatives == BadPuts = FALSE \/ Derivatives = {}

\* Where the bucket is honest nothing in it or seen in it is bad.
HonestStore ==
    BadPuts = FALSE =>
        /\ \A o \in Objects : store[o] # "bad"
        /\ \A r \in Requests : request[r] # Idle => request[r].head # "bad"

\* A derivative that waits for its upload belongs to a kept photo.
PendingDerivativesAreKept ==
    \A a \in Assets, v \in Derivatives :
        object[<<a, v>>] \in {"reserved", "failed"} => object[Original(a)] = "verified"

\* The honest bucket stays so: an upload puts what was signed.
LEMMA HonestStep ==
    ASSUME DataTypeOK, HonestStore, [Next]_vars
    PROVE  HonestStore'
<1> SUFFICES ASSUME BadPuts = FALSE
             PROVE  /\ \A o \in Objects : store'[o] # "bad"
                    /\ \A r \in Requests : request'[r] # Idle => request'[r].head # "bad"
  BY DEF HonestStore
<1> USE VariantFacts
    DEF HonestStore, DataTypeOK, ObjectTypeOK, CallTypeOK, objectVars, callVars
<1>1. CASE UNCHANGED <<store, request>>
  BY <1>1
<1>2. ASSUME NEW a \in Assets, VerifyExcluded(a) \/ ExcludeAsset(a)
      PROVE  HonestStore'
  BY <1>2 DEF VerifyExcluded, ExcludeAsset
<1>3. ASSUME NEW o \in Objects, Upload(o) \/ CleanupRollsBack(o)
      PROVE  HonestStore'
  BY <1>3 DEF Upload, CleanupRollsBack
<1>4. ASSUME NEW b \in Batches, CancelBatch(b)
      PROVE  HonestStore'
  BY <1>4 DEF CancelBatch
<1>5. ASSUME NEW r \in Requests, NEW a \in Assets, BeginVerify(r, a) \/ BeginRegister(r, a)
      PROVE  HonestStore'
  BY <1>5 DEF BeginVerify, BeginRegister
<1>6. ASSUME NEW r \in Requests, NEW a \in Assets, NEW v \in Derivatives,
             BeginVerifyDerivative(r, a, v)
      PROVE  HonestStore'
  BY <1>6 DEF BeginVerifyDerivative
<1>7. ASSUME NEW r \in Requests, \/ CommitVerify(r)
                                 \/ CommitRegister(r)
                                 \/ CommitVerifyDerivative(r)
                                 \/ AbortVerify(r)
      PROVE  HonestStore'
  <2>1. request' = [request EXCEPT ![r] = Idle]
    BY <1>7 DEF CommitVerify, CommitRegister, CommitVerifyDerivative, AbortVerify
  <2>2. UNCHANGED store \/ store' = [store EXCEPT ![request[r].object] = "none"]
    BY <1>7 DEF CommitVerify, CommitRegister, CommitVerifyDerivative, AbortVerify
  <2> QED
    BY <2>1, <2>2
<1>8. \/ UNCHANGED <<store, request>>
      \/ \E a \in Assets : VerifyExcluded(a) \/ ExcludeAsset(a)
      \/ \E o \in Objects : Upload(o) \/ CleanupRollsBack(o)
      \/ \E b \in Batches : CancelBatch(b)
      \/ RequestNext
  BY DEF Next, vars, ContributionNext, Reserve, IssueLease, IssueDerivativeLease,
         LeaseExpires, RevokeInstallation, ProcessingNext, SubmitAnalysis,
         SubmitConflicting, ReportFaceFailure, ResetAnalysis, HideAsset, RestoreAsset,
         ReportDerivativeFailure, RefreshDerivativeReadiness, RefreshFaceReadiness,
         RefreshIsLost, StructureNext, SetSubEventArchived, Reassign, PublicationNext,
         PublishSnapshot, PublishRollsBack, UnpublishEvent, ReopenEvent, CloseEventIntake,
         PrepareEventManifest, FinalizeAgain, CommitEventManifest, AbandonEventFinalize,
         MoveEvent
<1> QED
  BY <1>1, <1>2, <1>3, <1>4, <1>5, <1>6, <1>7, <1>8 DEF RequestNext

\* A derivative row is changed by its own commands, and excluded with its photo.
LEMMA DerivativeStep ==
    ASSUME DataTypeOK, RowsInv, HonestStore, BadPuts = FALSE,
           PendingDerivativesAreKept, [Next]_vars
    PROVE  PendingDerivativesAreKept'
<1> SUFFICES ASSUME NEW a \in Assets, NEW v \in Derivatives,
                    object'[<<a, v>>] \in {"reserved", "failed"}
             PROVE  object'[Original(a)] = "verified"
  BY DEF PendingDerivativesAreKept
<1> USE VariantFacts DEF PendingDerivativesAreKept, DataTypeOK, ObjectTypeOK, Original
<1>1. CASE UNCHANGED object
  BY <1>1
<1>2. ASSUME NEW b \in Batches, NEW s \in SubEvents, Reserve(b, s)
      PROVE  object'[Original(a)] = "verified"
  BY <1>2 DEF Reserve, AssetsOf, RowsInv
<1>3. ASSUME NEW c \in Assets, IssueLease(c) \/ ExcludeAsset(c)
      PROVE  object'[Original(a)] = "verified"
  BY <1>3 DEF IssueLease, Leasable, ExcludeAsset
<1>4. ASSUME NEW b \in Batches, CancelBatch(b)
      PROVE  object'[Original(a)] = "verified"
  BY <1>4 DEF CancelBatch, Releasable, ObjectsOf, AssetsOf, Variants
<1>5. ASSUME NEW r \in Requests, CommitVerify(r)
      PROVE  object'[Original(a)] = "verified"
  <2>1. request[r].object \in Objects /\ request[r].head # "bad"
    BY <1>5, RequestFacts DEF CommitVerify, HonestStore
  <2>2. UNCHANGED object \/ object' = [object EXCEPT ![request[r].object] = "verified"]
    BY <1>5, <2>1 DEF CommitVerify
  <2> QED
    BY <2>1, <2>2
<1>6. ASSUME NEW r \in Requests, CommitRegister(r)
      PROVE  object'[Original(a)] = "verified"
  BY <1>6, RequestFacts DEF CommitRegister
<1>7. ASSUME NEW r \in Requests, CommitVerifyDerivative(r)
      PROVE  object'[Original(a)] = "verified"
  <2>1. /\ request[r].object \in Objects
        /\ request[r].object[2] # "original"
        /\ request[r].head # "bad"
    BY <1>7, RequestFacts DEF CommitVerifyDerivative, HonestStore
  <2>2. object' = [object EXCEPT ![request[r].object] = "verified"]
    BY <1>7, <2>1 DEF CommitVerifyDerivative
  <2> QED
    BY <2>1, <2>2
<1>8. CASE PublishSnapshot
  BY <1>8 DEF PublishSnapshot
<1>9. \/ UNCHANGED object
      \/ \E b \in Batches, s \in SubEvents : Reserve(b, s)
      \/ \E c \in Assets : IssueLease(c) \/ ExcludeAsset(c)
      \/ \E b \in Batches : CancelBatch(b)
      \/ \E r \in Requests : CommitVerify(r) \/ CommitRegister(r) \/ CommitVerifyDerivative(r)
      \/ PublishSnapshot
  BY ObjectChanges
<1> QED
  BY <1>1, <1>2, <1>3, <1>4, <1>5, <1>6, <1>7, <1>8, <1>9

\* As many objects as assets when only originals are counted.
LEMMA OriginalsCount ==
    ASSUME NEW S \in SUBSET Assets
    PROVE  Cardinality(S \X {"original"}) = Cardinality(S) /\ Cardinality(S) \in Nat
<1>1. IsFiniteSet(S)
  BY IngestionConstants, FS_Subset
<1>2. IsFiniteSet({"original"}) /\ Cardinality({"original"}) = 1
  BY FS_Singleton
<1> QED
  BY <1>1, <1>2, FS_Product, FS_CardinalityType

\* What a publication gives back are the originals that were charged, and so is what a
\* cancellation gives back at least; at most, too, while the derivatives of every photo
\* that can still be cancelled are absent or excluded.
LEMMA GivenBack ==
    ASSUME DataTypeOK, RowsInv
    PROVE  /\ \A b \in Batches :
                  /\ (Charged \cap AssetsOf(b)) \X {"original"} \subseteq Releasable(b)
                  /\ PendingDerivativesAreKept /\ MayCancel(b) =>
                        Releasable(b) = (Charged \cap AssetsOf(b)) \X {"original"}
           /\ LeftOut = (Charged \cap UnfinishedAssets) \X {"original"}
           /\ {o \in LeftOut : object[o] = "verified"}
                 = (Kept \cap UnfinishedAssets) \X {"original"}
<1> USE VariantFacts DEF DataTypeOK, ObjectTypeOK, Original
<1>1. ASSUME NEW b \in Batches, NEW o \in (Charged \cap AssetsOf(b)) \X {"original"}
      PROVE  o \in Releasable(b)
  BY <1>1 DEF Releasable, ObjectsOf, Variants, Charged
<1>2. ASSUME NEW b \in Batches, PendingDerivativesAreKept, MayCancel(b)
      PROVE  Releasable(b) \subseteq (Charged \cap AssetsOf(b)) \X {"original"}
  <2>1. ASSUME NEW a \in AssetsOf(b), NEW v \in Derivatives
        PROVE  object[<<a, v>>] \in {"absent", "excluded"}
    <3>1. a \in Assets /\ <<a, v>> \in ObjectsOf(b) /\ <<a, "original">> \in ObjectsOf(b)
      BY <2>1 DEF ObjectsOf, AssetsOf, Variants
    <3>2. object[<<a, v>>] # "verified" /\ object[<<a, "original">>] # "verified"
      BY <1>2, <3>1 DEF MayCancel
    <3> QED
      BY <1>2, <2>1, <3>1, <3>2 DEF PendingDerivativesAreKept
  <2>2. ASSUME NEW o \in ObjectsOf(b), object[o] \notin {"absent", "excluded"}
        PROVE  o \in (Charged \cap AssetsOf(b)) \X {"original"}
    BY <2>1, <2>2 DEF ObjectsOf, AssetsOf, Variants, Charged, Objects
  <2> QED
    BY <2>2 DEF Releasable
<1>3. LeftOut = (Charged \cap UnfinishedAssets) \X {"original"}
  BY DEF LeftOut, Charged, UnfinishedAssets
<1>4. {o \in LeftOut : object[o] = "verified"} = (Kept \cap UnfinishedAssets) \X {"original"}
  BY DEF LeftOut, Kept, UnfinishedAssets
<1>5. \A b \in Batches : (Charged \cap AssetsOf(b)) \X {"original"} \subseteq Releasable(b)
  BY <1>1
<1> QED
  BY <1>2, <1>3, <1>4, <1>5

\* A set without some of its members.
LEMMA Removed ==
    ASSUME NEW S \in SUBSET Assets, NEW T
    PROVE  Cardinality(S \ T) = Cardinality(S) - Cardinality(S \cap T)
BY IngestionConstants, FS_Subset, FS_Difference

\* How far the counters are from what the rows add up to.
ReservedDrift == reserved - Cardinality(Charged)
VerifiedDrift == verified - Cardinality(Kept)

\* No step charges what it does not reserve.
NoNewDrift ==
    /\ VerifiedDrift' = VerifiedDrift
    /\ ReservedDrift' <= ReservedDrift
    /\ PendingDerivativesAreKept => ReservedDrift' = ReservedDrift

\* Every step moves the counters by what it does to the object rows, except that a
\* cancellation may give back too much.
LEMMA LedgerStep ==
    ASSUME ContributionInv, CountersOK, [Next]_vars
    PROVE  NoNewDrift
<1> USE VariantFacts DEF ContributionInv, DataTypeOK, ContributionTypeOK, ObjectTypeOK
<1>0. /\ Charged \in SUBSET Assets /\ Kept \in SUBSET Assets
      /\ IsFiniteSet(Charged) /\ IsFiniteSet(Kept)
  BY FiniteCounts DEF Charged, Kept
<1>00. /\ Cardinality(Charged) \in Nat /\ Cardinality(Kept) \in Nat
       /\ reserved \in Nat /\ verified \in Nat
  BY <1>0, FS_CardinalityType, IngestionConstants DEF CountersOK
<1>1. CASE Quiet
  <2>1. Charged' = Charged /\ Kept' = Kept
    BY <1>1 DEF Quiet, Charged, Kept
  <2>2. UNCHANGED <<reserved, verified>>
    BY <1>1 DEF Quiet
  <2> QED
    BY <1>00, <2>1, <2>2 DEF NoNewDrift, ReservedDrift, VerifiedDrift
<1>2. CASE MovesPending
  <2>1. PICK a \in Assets, s \in {"reserved", "failed", "verified", "excluded"} :
           object[Original(a)] # "absent" /\ Moves(a, s)
    BY <1>2 DEF MovesPending
  <2>2. a \in Charged /\ a \notin Kept
    BY <2>1 DEF Moves, Charged, Kept, Terminal
  <2>3. CASE s \in {"reserved", "failed"}
    <3>1. Charged' = Charged /\ Kept' = Kept
      BY <2>1, <2>2, <2>3 DEF Moves, Charged, Kept
    <3>2. UNCHANGED <<reserved, verified>>
      BY <2>1, <2>3 DEF Moves
    <3> QED
      BY <1>00, <3>1, <3>2 DEF NoNewDrift, ReservedDrift, VerifiedDrift
  <2>4. CASE s = "verified"
    <3>1. Charged' = Charged /\ Kept' = Kept \cup {a}
      BY <2>1, <2>2, <2>4 DEF Moves, Charged, Kept
    <3>2. reserved' = reserved /\ verified' = verified + 1
      BY <2>1, <2>4 DEF Moves
    <3> QED
      <4>1. Cardinality(Kept \cup {a}) = Cardinality(Kept) + 1
        BY <1>0, <2>2, FS_AddElement
      <4>2. /\ (Cardinality(Kept))' = Cardinality(Kept) + 1
            /\ (Cardinality(Charged))' = Cardinality(Charged)
        BY <3>1, <4>1, Zenon
      <4>3. VerifiedDrift' = VerifiedDrift
        BY <1>00, <3>2, <4>2 DEF VerifiedDrift
      <4>4. ReservedDrift' = ReservedDrift /\ ReservedDrift \in Int
        BY <1>00, <3>2, <4>2 DEF ReservedDrift
      <4> QED
        BY <4>3, <4>4 DEF NoNewDrift
  <2>5. CASE s = "excluded"
    <3>1. Charged' = Charged \ {a} /\ Kept' = Kept
      BY <2>1, <2>2, <2>5 DEF Moves, Charged, Kept
    <3>2. reserved' = reserved - 1 /\ verified' = verified
      BY <2>1, <2>5 DEF Moves
    <3> QED
      <4>1. Cardinality(Charged \ {a}) = Cardinality(Charged) - 1
        BY <1>0, <2>2, FS_RemoveElement
      <4>2. /\ (Cardinality(Charged))' = Cardinality(Charged) - 1
            /\ (Cardinality(Kept))' = Cardinality(Kept)
        BY <3>1, <4>1, Zenon
      <4> QED
        BY <1>00, <3>2, <4>2 DEF NoNewDrift, ReservedDrift, VerifiedDrift
  <2> QED
    BY <2>3, <2>4, <2>5
<1>3. ASSUME NEW b \in Batches, NEW s \in SubEvents, Reserve(b, s)
      PROVE  NoNewDrift
  <2>1. Charged' = Charged \cup AssetsOf(b) /\ Kept' = Kept
    BY <1>3 DEF Reserve, Charged, Kept, AssetsOf, Original, RowsInv
  <2>2. Charged \cap AssetsOf(b) = {}
    BY <1>3 DEF Reserve, Charged, AssetsOf, RowsInv, Original
  <2>3. Cardinality(Charged \cup AssetsOf(b)) = Cardinality(Charged) + Cardinality(AssetsOf(b))
    <3>1. IsFiniteSet(AssetsOf(b))
      BY FiniteCounts
    <3>2. Cardinality(Charged) \in Nat /\ Cardinality(AssetsOf(b)) \in Nat
      BY <1>0, <3>1, FS_CardinalityType
    <3>3. Cardinality(Charged \cup AssetsOf(b))
            = Cardinality(Charged) + Cardinality(AssetsOf(b)) - Cardinality({})
      BY <1>0, <2>2, <3>1, FS_Union
    <3> QED
      BY <3>2, <3>3, FS_EmptySet
  <2>4. Cardinality(AssetsOf(b)) \in Nat
    BY FiniteCounts, FS_CardinalityType
  <2>5. /\ reserved' = reserved + Cardinality(AssetsOf(b))
        /\ verified' = verified
    BY <1>3 DEF Reserve
  <2> QED
    BY <1>00, <2>1, <2>3, <2>4, <2>5 DEF NoNewDrift, ReservedDrift, VerifiedDrift
<1>4. ASSUME NEW b \in Batches, CancelBatch(b)
      PROVE  NoNewDrift
  <2>1. Charged' = Charged \ AssetsOf(b) /\ Kept' = Kept
    BY <1>4 DEF CancelBatch, MayCancel, Releasable, ObjectsOf, AssetsOf, Charged, Kept,
                Original, Variants
  <2>2. /\ reserved' = reserved - Cardinality(Releasable(b))
        /\ verified' = verified
    BY <1>4 DEF CancelBatch
  <2>3. Cardinality(Charged \ AssetsOf(b))
          = Cardinality(Charged) - Cardinality(Charged \cap AssetsOf(b))
    BY <1>0, Removed
  <2> DEFINE Back == (Charged \cap AssetsOf(b)) \X {"original"}
  <2>4. Cardinality(Back) = Cardinality(Charged \cap AssetsOf(b)) /\ Cardinality(Back) \in Nat
    BY <1>0, OriginalsCount
  <2>5. /\ Cardinality(Releasable(b)) \in Nat
        /\ Cardinality(Back) <= Cardinality(Releasable(b))
    <3>1. IsFiniteSet(Releasable(b)) /\ Back \subseteq Releasable(b)
      BY FiniteCounts, GivenBack
    <3> QED
      BY <3>1, FS_Subset, FS_CardinalityType
  <2>6. PendingDerivativesAreKept => Releasable(b) = Back
    BY <1>4, GivenBack DEF CancelBatch
  <2>7. PendingDerivativesAreKept => Cardinality(Releasable(b)) = Cardinality(Back)
    BY <2>6
  <2>8. /\ (Cardinality(Charged))' = Cardinality(Charged) - Cardinality(Back)
        /\ (Cardinality(Kept))' = Cardinality(Kept)
    BY <2>1, <2>3, <2>4, Zenon
  <2> HIDE DEF Back
  <2> QED
    BY <1>00, <2>2, <2>4, <2>5, <2>7, <2>8 DEF NoNewDrift, ReservedDrift, VerifiedDrift
<1>5. CASE PublishSnapshot
  <2>1. Charged' = Charged \ UnfinishedAssets /\ Kept' = Kept \ UnfinishedAssets
    BY <1>5 DEF PublishSnapshot, Charged, Kept, Original
  <2>2. Cardinality(LeftOut) = Cardinality(Charged \cap UnfinishedAssets)
    BY <1>0, GivenBack, OriginalsCount
  <2>3. Cardinality({o \in LeftOut : object[o] = "verified"})
          = Cardinality(Kept \cap UnfinishedAssets)
    BY <1>0, GivenBack, OriginalsCount
  <2> QED
    <3>1. /\ Cardinality(Charged \ UnfinishedAssets)
               = Cardinality(Charged) - Cardinality(Charged \cap UnfinishedAssets)
          /\ Cardinality(Kept \ UnfinishedAssets)
               = Cardinality(Kept) - Cardinality(Kept \cap UnfinishedAssets)
      BY <1>0, Removed
    <3>2. /\ reserved' = reserved - Cardinality(LeftOut)
          /\ verified' = verified - Cardinality({o \in LeftOut : object[o] = "verified"})
      BY <1>5 DEF PublishSnapshot
    <3>3. /\ Cardinality(Charged \cap UnfinishedAssets) \in Nat
          /\ Cardinality(Kept \cap UnfinishedAssets) \in Nat
      BY <1>0, OriginalsCount
    <3> QED
      BY <1>00, <2>1, <2>2, <2>3, <3>1, <3>2, <3>3 DEF NoNewDrift, ReservedDrift, VerifiedDrift
<1>6. CASE PrepareEventManifest
  <2>1. Charged' = Charged /\ Kept' = Kept
    BY <1>6 DEF PrepareEventManifest, objectVars, Charged, Kept
  <2>2. UNCHANGED <<reserved, verified>>
    BY <1>6 DEF PrepareEventManifest, ledgerVars
  <2> QED
    BY <1>00, <2>1, <2>2 DEF NoNewDrift, ReservedDrift, VerifiedDrift
<1> QED
  BY <1>1, <1>2, <1>3, <1>4, <1>5, <1>6, OriginalsStep

\* The event never has more reserved than its originals take up, and counts exactly those
\* that are verified, whatever arrives: what a bad derivative can do is to make a
\* cancellation give back too much, never to keep allowance from photos that could use it.
LedgerNeverExceeds ==
    /\ reserved <= Cardinality(Charged)
    /\ verified = Cardinality(Kept)

\* Nothing is assumed of the store: the counters that reservation, verification, exclusion,
\* cancellation and publication move by hand err, if at all, to the photographer's side.
THEOREM LedgerNeverExceedsAlways == Spec => []LedgerNeverExceeds
<1>1. Init => LedgerNeverExceeds
  <2>1. Init => Charged = {} /\ Kept = {}
    BY VariantFacts DEF Init, IngestionInit, Charged, Kept
  <2> QED
    <3>1. Init => Cardinality(Charged) = 0 /\ Cardinality(Kept) = 0
      BY <2>1, FS_EmptySet, Zenon
    <3>2. Init => reserved = 0 /\ verified = 0
      BY DEF Init, IngestionInit
    <3> QED
      BY <3>1, <3>2 DEF LedgerNeverExceeds
<1>2. ContributionInv /\ CountersOK /\ LedgerNeverExceeds /\ [Next]_vars
         => (CountersOK' => LedgerNeverExceeds')
  <2> SUFFICES ASSUME ContributionInv, CountersOK, LedgerNeverExceeds, [Next]_vars, CountersOK'
               PROVE  LedgerNeverExceeds'
    OBVIOUS
  <2>1. NoNewDrift
    BY LedgerStep
  <2>2. /\ Cardinality(Charged) \in Nat /\ Cardinality(Kept) \in Nat
        /\ (Cardinality(Charged))' \in Int /\ (Cardinality(Kept))' \in Int
    <3>1. IsFiniteSet(Charged) /\ IsFiniteSet(Kept) /\ IsFiniteSet(Charged') /\ IsFiniteSet(Kept')
      BY IngestionConstants, FS_Subset DEF Charged, Kept
    <3> QED
      BY <3>1, FS_CardinalityType
  <2> QED
    BY <2>1, <2>2, IngestionConstants
    DEF NoNewDrift, ReservedDrift, VerifiedDrift, LedgerNeverExceeds, CountersOK
<1>3. TypeOK => CountersOK
  BY DEF TypeOK, CountersOK
<1> QED
  BY <1>1, <1>2, <1>3, ContributionInvariant, TypesAlways, PTL DEF Spec

\* The counters of the event are what the rows of its originals add up to, if
\* no derivative can arrive bad.  Without it the theorem is false (Claims in README.md).
THEOREM LedgerIsExactAlways ==
    ASSUME NoBadDerivatives
    PROVE  Spec => []LedgerIsExact
<1> DEFINE Inv == HonestStore /\ PendingDerivativesAreKept /\ LedgerIsExact
<1>1. Init => Inv
  <2>1. Init => Charged = {} /\ Kept = {}
    BY VariantFacts DEF Init, IngestionInit, Charged, Kept
  <2>2. Init => HonestStore /\ PendingDerivativesAreKept
    BY VariantFacts DEF Init, IngestionInit, HonestStore, PendingDerivativesAreKept
  <2> QED
    BY <2>1, <2>2, FS_EmptySet DEF Init, IngestionInit, LedgerIsExact
<1>2. ContributionInv /\ CountersOK /\ CountersOK' /\ Inv /\ [Next]_vars => Inv'
  <2> SUFFICES ASSUME ContributionInv, CountersOK, CountersOK', Inv, [Next]_vars
               PROVE  Inv'
    OBVIOUS
  <2>1. PendingDerivativesAreKept'
    <3>1. CASE BadPuts = FALSE
      BY <3>1, DerivativeStep DEF ContributionInv
    <3>2. CASE Derivatives = {}
      BY <3>2 DEF PendingDerivativesAreKept
    <3> QED
      BY <3>1, <3>2 DEF NoBadDerivatives
  <2> QED
    <3>1. NoNewDrift
      BY LedgerStep
    <3>2. reserved \in Nat /\ verified \in Nat /\ reserved' \in Nat /\ verified' \in Nat
      BY IngestionConstants DEF CountersOK
    <3>3. /\ (Cardinality(Charged))' \in Nat /\ (Cardinality(Kept))' \in Nat
      <4>1. IsFiniteSet(Charged') /\ IsFiniteSet(Kept')
        BY IngestionConstants, FS_Subset DEF Charged, Kept
      <4> QED
        BY <4>1, FS_CardinalityType
    <3>4. LedgerIsExact'
      BY <3>1, <3>2, <3>3 DEF NoNewDrift, ReservedDrift, VerifiedDrift, LedgerIsExact
    <3> QED
      BY <2>1, <3>4, HonestStep DEF ContributionInv
<1>3. TypeOK => CountersOK
  BY DEF TypeOK, CountersOK
<1> QED
  BY <1>1, <1>2, <1>3, ContributionInvariant, TypesAlways, PTL DEF Spec

=============================================================================
