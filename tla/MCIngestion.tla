---------------------------- MODULE MCIngestion ----------------------------
(* Small instances of Ingestion. *)
EXTENDS Ingestion, TLC

CONSTANTS
    a1, a2, a3, a4, b1, b2, b3, i1,
    Delivered       \* the contributions DeliveredInit starts with

\* One contribution of two photos and one of a single photo.

\* The same with a further contribution of a single photo.
QuadAssets == {a1, a2, a3, a4}
QuadBatchOf == (a1 :> b1) @@ (a2 :> b1) @@ (a3 :> b2) @@ (a4 :> b3)

\* Two contributions of one photo each.
SoloAssets == {a1, a2}
SoloBatchOf == (a1 :> b1) @@ (a2 :> b2)

\* A single photo.
LoneAssets == {a1}
LoneBatchOf == a1 :> b1

OneStation == [b \in Batches |-> i1]

\* The calls under way are alike.
AlikeRequests == Permutations(Requests)

\* Transfer only: no sub-event, gallery or refresh step, so that there is room
\* for more photos and requests.
TransferNext ==
    \/ ContributionNext
    \/ RequestNext
    \/ \E a \in Assets : SubmitAnalysis(a)
    \/ PublishSnapshot
    \/ UnpublishEvent

TransferSpec == Init /\ [][TransferNext]_vars

\* Transfer together with the internal controls of the generation.
ControlsNext == TransferNext \/ PublicationNext
ControlsSpec == Init /\ [][ControlsNext]_vars

\* The contributions of Delivered are complete: their photos and derivatives are
\* verified, no lease is out, and no face has been analysed yet.
DeliveredAssets == {a \in Assets : BatchOf[a] \in Delivered}

DeliveredInit ==
    /\ state = IF Delivered = {} THEN "draft" ELSE "uploading"
    /\ intake = "open"
    /\ generation = 1
    /\ current = None
    /\ manifest = [g \in Generations |-> "none"]
    /\ derivReady = None
    /\ faceReady = None
    /\ expiry = "unset"
    /\ everPublished = FALSE
    /\ contributed = (Delivered # {})
    /\ finalizing = {}
    /\ form = NoForm
    /\ reserved = Cardinality(DeliveredAssets)
    /\ verified = Cardinality(DeliveredAssets)
    /\ batch = [b \in Batches |-> IF b \in Delivered THEN "complete" ELSE "none"]
    /\ section \in [Batches -> SubEvents \cup {NoSection}]
    /\ \A b \in Batches : section[b] = NoSection <=> b \notin Delivered
    /\ station = [i \in Installations |->
                     IF \E b \in Delivered : InstallationOf[b] = i THEN "active" ELSE "new"]
    /\ archived = {}
    /\ object = [o \in Objects |-> IF o[1] \in DeliveredAssets THEN "verified" ELSE "absent"]
    /\ lease = [o \in Objects |-> FALSE]
    /\ url = [o \in Objects |-> FALSE]
    /\ store = [o \in Objects |-> IF o[1] \in DeliveredAssets THEN "good" ELSE "none"]
    /\ face = [a \in Assets |-> "pending"]
    /\ derivFailed = {}
    /\ derivWorn = {}
    /\ hidden = {}
    /\ snapshot = [g \in Generations |-> {}]
    /\ stray = "none"
    /\ request = [r \in Requests |-> Idle]
    /\ refreshes = {}

\* Every change of what a snapshot lists and of the generation; the failures of
\* the derivatives and the conflicts of the faces are left to Spec.
DeliveredNext ==
    \/ \E a \in Assets : \/ SubmitAnalysis(a) \/ ReportFaceFailure(a) \/ ResetAnalysis(a)
                         \/ HideAsset(a) \/ RestoreAsset(a)
    \/ RefreshDerivativeReadiness
    \/ RefreshFaceReadiness
    \/ RefreshIsLost
    \/ StructureNext
    \/ PublicationNext
DeliveredSpec == DeliveredInit /\ [][DeliveredNext]_vars

\* The transfer of one workstation that never stops or lets a lease run out, up
\* to a publication and a cancellation: enough for the claims that fail late.
SteadyNext ==
    \/ \E b \in Batches : CancelBatch(b) \/ \E s \in SubEvents : Reserve(b, s)
    \/ \E a \in Assets : IssueLease(a) \/ SubmitAnalysis(a)
    \/ \E a \in Assets, v \in Derivatives : IssueDerivativeLease(a, v)
    \/ \E o \in Objects : Upload(o)
    \/ \E r \in Requests :
          \/ \E a \in Assets : BeginVerify(r, a) \/ BeginRegister(r, a)
          \/ \E a \in Assets, v \in Derivatives : BeginVerifyDerivative(r, a, v)
          \/ CommitVerify(r)
          \/ CommitRegister(r)
          \/ CommitVerifyDerivative(r)
    \/ PublishSnapshot
    \/ UnpublishEvent

SteadySpec == DeliveredInit /\ [][SteadyNext]_vars

=============================================================================
