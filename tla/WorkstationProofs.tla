------------------------- MODULE WorkstationProofs -------------------------
(***************************************************************************)
(* What a workstation reports is true, for any number of photos, attempts  *)
(* and outages: nothing is verified in its checkpoint that the server has  *)
(* not got, and a run that ends well has delivered.                        *)
(***************************************************************************)
EXTENDS Workstation, TLAPS

ObjectStates == {"absent", "reserved", "failed", "verified", "excluded"}

\* Descriptions the server can give.
Views == [batch : {"none", "reserved", "complete", "not_included"},
          orig : [Items -> ObjectStates],
          der : [Renditions -> {"absent", "reserved", "verified", "excluded"}],
          derTries : [Items -> Nat],
          face : [Items -> {"pending", "failed", "done"}],
          faceTries : [Items -> Nat],
          hidden : SUBSET Items]

DescriptionsOK ==
    /\ answer \in [Runners -> Views \cup {NoAnswer}]
    /\ \A r \in Runners : at[r] = "apply" => answer[r] \in Views

\* A transfer is queued while the original has attempts left, and only for a
\* contribution that is reserved.
TransfersOK ==
    /\ \A i \in Items : sending[i] = "queued" => origTries[i] < MaxTries
    /\ \A i \in Items : sending[i] # "none" => sBatch # "none"

TypeInv == WorkstationTypeOK /\ AttemptsAreCapped /\ DescriptionsOK /\ TransfersOK

\* A contribution has originals once it is reserved, and none of it is left when a
\* publication leaves it out.
ServerInv ==
    /\ sBatch = "none" => \A i \in Items : sOrig[i] = "absent"
    /\ EventClosed => \A i \in Items : sOrig[i] = "excluded"
    /\ \A o \in Renditions : sDer[o] = "excluded" => EventClosed

\* What the server has got or dropped, it does not lose or take back.
ServerAdvances ==
    /\ \A i \in Items : sOrig[i] \in Terminal => sOrig'[i] \in Terminal
    /\ \A i \in Items : sOrig[i] = "excluded" => sOrig'[i] = "excluded"
    /\ \A o \in Renditions : sDer[o] \in Terminal => sDer'[o] \in Terminal
    /\ \A i \in Items : sFace[i] = "done" => sFace'[i] = "done" \/ EventClosed'
    /\ EventClosed => EventClosed'
    /\ hidden \subseteq hidden'

\* A photo of which nothing more is owed.
Gone(i) == sOrig[i] = "excluded" \/ i \in hidden

\* Local states, by what they let the server say.
OriginalFollows(s, i) ==
    /\ s = "verified" => sOrig[i] \in Terminal
    /\ s = "excluded" => sOrig[i] = "excluded"

DerivativeFollows(s, o) ==
    /\ s = "verified" => sDer[o] \in Terminal
    /\ s = "excluded" => Gone(o[1])

FaceFollows(s, i) ==
    /\ s = "done" => sFace[i] = "done" \/ EventClosed
    /\ s = "excluded" => Gone(i)

CheckpointFollows ==
    /\ \A i \in Items : OriginalFollows(orig[i], i)
    /\ \A o \in Renditions : DerivativeFollows(der[o], o)
    /\ \A i \in Items : FaceFollows(face[i], i)

\* A description in hand may be old, but what it calls verified was so and still is.
DescriptionsFollow ==
    \A r \in Runners : at[r] = "apply" =>
        /\ \A i \in Items : OriginalFollows(answer[r].orig[i], i)
        /\ \A o \in Renditions : DerivativeFollows(answer[r].der[o], o)
        /\ \A i \in Items : FaceFollows(answer[r].face[i], i)
        /\ answer[r].hidden \subseteq hidden

\* So may an answer the server has recorded.
RecordsFollow ==
    \A i \in Items : registered[i] # NoAnswer =>
        \A v \in registered[i] : sDer[<<i, v>>] \in Terminal

\* What a runner that ended without an error or a pause has seen to.
SeenTo(r) ==
    /\ r = "originals" => \A i \in Items : sOrig[i] \in Terminal
    /\ r = "derivatives" => \A o \in Renditions : sDer[o] \in Terminal \/ Gone(o[1])
    /\ r = "faces" => \A i \in Items : sFace[i] = "done" \/ Gone(i)

EndedIsSeenTo ==
    outcome = "running" /\ ~Halted => \A r \in Runners : at[r] = "ended" => SeenTo(r)

FollowInv == CheckpointFollows /\ DescriptionsFollow /\ RecordsFollow /\ EndedIsSeenTo

-----------------------------------------------------------------------------
(* What changes which part of the state.                                   *)

\* The checkpoint file.
LEMMA CheckpointSteps ==
    ASSUME [Next]_vars
    PROVE  \/ UNCHANGED checkpointVars
           \/ StartUpload
           \/ \E r \in Runners : Apply(r)
           \/ \E i \in Items :
                 \/ StartTransfer(i) \/ Delivered(i) \/ Interrupted(i)
                 \/ Rejected(i) \/ StartDerivatives(i) \/ Register(i)
                 \/ RegisterFails(i) \/ LeaseDerivatives(i) \/ PutDerivative(i)
                 \/ PutFails(i) \/ StartAnalysis(i) \/ SubmitAnalysis(i)
                 \/ AnalysisFails(i)
  BY DEF Next, RunnerNext, TransferNext, DerivativeNext, FaceNext, OperatorNext,
         PhotographerNext, vars, Ask, Look, Check, Wake, EndWave, LookOriginals,
         LeaseOriginals, LeaseFails, EndTransfers, Join, ReservationIsLost, Pause,
         Crash, SignInAgain, LeaveOut, ReportDerivative, ReportAnalysis,
         ExcludeItem, HideItem, ResetFace, DerivativeFrame, FaceFrame,
         InterventionFrame, checkpointVars, serverVars, recordVars, runVars,
         taskVars

\* The server.
LEMMA ServerSteps ==
    ASSUME [Next]_vars
    PROVE  \/ UNCHANGED serverVars
           \/ StartUpload \/ ReservationIsLost \/ LeaseOriginals \/ LeaveOut
           \/ \E i \in Items :
                 \/ Delivered(i) \/ Interrupted(i) \/ Rejected(i) \/ Register(i)
                 \/ RegisterFails(i) \/ PutDerivative(i) \/ PutFails(i)
                 \/ ReportDerivative(i) \/ SubmitAnalysis(i) \/ AnalysisFails(i)
                 \/ ReportAnalysis(i) \/ ExcludeItem(i) \/ HideItem(i)
                 \/ ResetFace(i)
  BY DEF Next, RunnerNext, TransferNext, DerivativeNext, FaceNext, OperatorNext,
         PhotographerNext, vars, Ask, Apply, Look, Check, Wake, EndWave,
         LookOriginals, LeaseFails, EndTransfers, Join, Pause, Crash, SignInAgain,
         StartTransfer, StartDerivatives, LeaseDerivatives, StartAnalysis,
         DerivativeFrame, DerivativeFails, FaceFrame, checkpointVars, serverVars,
         recordVars, runVars, taskVars

\* The recorded answers.
LEMMA RecordSteps ==
    ASSUME [Next]_vars
    PROVE  \/ UNCHANGED recordVars
           \/ SignInAgain
           \/ \E i \in Items :
                 \/ Register(i) \/ RegisterFails(i) \/ ReportDerivative(i)
                 \/ ReportAnalysis(i)
<1>1. ASSUME NEW r \in Runners, RunnerNext(r)
      PROVE  UNCHANGED recordVars
  BY <1>1 DEF RunnerNext, Ask, Apply, Look, Check, Wake, EndWave, LookOriginals,
         LeaseOriginals, LeaseFails, EndTransfers, checkpointVars, serverVars,
         recordVars, runVars, taskVars
<1>2. ASSUME NEW i \in Items, TransferNext(i)
      PROVE  UNCHANGED recordVars
  BY <1>2 DEF TransferNext, StartTransfer, Delivered, Interrupted, Rejected,
         TransferFailed, checkpointVars, serverVars, recordVars, runVars, taskVars
<1>3. ASSUME NEW i \in Items, DerivativeNext(i)
      PROVE  \/ UNCHANGED recordVars
             \/ Register(i)
             \/ RegisterFails(i)
             \/ ReportDerivative(i)
  BY <1>3 DEF DerivativeNext, StartDerivatives, LeaseDerivatives, PutDerivative,
         PutFails, DerivativeFrame, DerivativeFails, checkpointVars, serverVars,
         recordVars, runVars, taskVars
<1>4. ASSUME NEW i \in Items, FaceNext(i)
      PROVE  UNCHANGED recordVars \/ ReportAnalysis(i)
  BY <1>4 DEF FaceNext, StartAnalysis, SubmitAnalysis, AnalysisFails, FaceFrame,
         checkpointVars, serverVars, recordVars, runVars, taskVars
<1>5. CASE OperatorNext
  BY <1>5 DEF OperatorNext, StartUpload, ReservationIsLost, Pause, Crash, checkpointVars,
         serverVars, recordVars, runVars, taskVars
<1>6. CASE PhotographerNext
  BY <1>6 DEF PhotographerNext, LeaveOut, ExcludeItem, HideItem, ResetFace,
         InterventionFrame, checkpointVars, serverVars, recordVars, runVars,
         taskVars
<1> QED
  BY <1>1, <1>2, <1>3, <1>4, <1>5, <1>6 DEF Next, Join, vars, checkpointVars, serverVars, recordVars, runVars, taskVars

\* The run.
LEMMA RunSteps ==
    ASSUME [Next]_vars
    PROVE  \/ UNCHANGED runVars
           \/ LookOriginals \/ LeaseOriginals \/ LeaseFails \/ EndTransfers \/ Join
           \/ StartUpload \/ ReservationIsLost \/ Pause \/ Crash
           \/ \E r \in Runners :
                 \/ Ask(r) \/ Apply(r) \/ Look(r) \/ Check(r) \/ Wake(r)
                 \/ EndWave(r)
           \/ \E i \in Items :
                 \/ Delivered(i) \/ Rejected(i) \/ RegisterFails(i)
                 \/ LeaseDerivatives(i) \/ PutFails(i) \/ ReportDerivative(i)
                 \/ AnalysisFails(i) \/ ReportAnalysis(i)
<1>1. ASSUME NEW r \in Runners, RunnerNext(r)
      PROVE  \/ UNCHANGED runVars
             \/ Ask(r)
             \/ Apply(r)
             \/ Look(r)
             \/ Check(r)
             \/ Wake(r)
             \/ EndWave(r)
             \/ LookOriginals
             \/ LeaseOriginals
             \/ LeaseFails
             \/ EndTransfers
  BY <1>1 DEF RunnerNext, checkpointVars, serverVars, recordVars, runVars, taskVars
<1>2. ASSUME NEW i \in Items, TransferNext(i)
      PROVE  UNCHANGED runVars \/ Delivered(i) \/ Rejected(i)
  BY <1>2 DEF TransferNext, StartTransfer, Interrupted, TransferFailed, checkpointVars,
         serverVars, recordVars, runVars, taskVars
<1>3. ASSUME NEW i \in Items, DerivativeNext(i)
      PROVE  \/ UNCHANGED runVars
             \/ RegisterFails(i)
             \/ LeaseDerivatives(i)
             \/ PutFails(i)
             \/ ReportDerivative(i)
  BY <1>3 DEF DerivativeNext, StartDerivatives, Register, PutDerivative, DerivativeFrame,
         checkpointVars, serverVars, recordVars, runVars, taskVars
<1>4. ASSUME NEW i \in Items, FaceNext(i)
      PROVE  UNCHANGED runVars \/ AnalysisFails(i) \/ ReportAnalysis(i)
  BY <1>4 DEF FaceNext, StartAnalysis, SubmitAnalysis, FaceFrame, checkpointVars,
         serverVars, recordVars, runVars, taskVars
<1>5. CASE OperatorNext
  BY <1>5 DEF OperatorNext, SignInAgain, checkpointVars, serverVars, recordVars, runVars,
         taskVars
<1>6. CASE PhotographerNext
  BY <1>6 DEF PhotographerNext, LeaveOut, ExcludeItem, HideItem, ResetFace,
         InterventionFrame, checkpointVars, serverVars, recordVars, runVars,
         taskVars
<1> QED
  BY <1>1, <1>2, <1>3, <1>4, <1>5, <1>6 DEF Next, vars, checkpointVars, serverVars, recordVars, runVars, taskVars

\* The work of the pools.
LEMMA TaskSteps ==
    ASSUME [Next]_vars
    PROVE  \/ UNCHANGED taskVars
           \/ LeaseOriginals \/ Join \/ Crash
           \/ \E r \in Runners : Look(r)
           \/ \E i \in Items :
                 \/ StartTransfer(i) \/ Delivered(i) \/ Interrupted(i)
                 \/ Rejected(i) \/ StartDerivatives(i) \/ Register(i)
                 \/ RegisterFails(i) \/ LeaseDerivatives(i) \/ PutDerivative(i)
                 \/ PutFails(i) \/ ReportDerivative(i) \/ StartAnalysis(i)
                 \/ SubmitAnalysis(i) \/ AnalysisFails(i) \/ ReportAnalysis(i)
  BY DEF Next, RunnerNext, TransferNext, DerivativeNext, FaceNext, OperatorNext,
         PhotographerNext, vars, Ask, Apply, Check, Wake, EndWave, LookOriginals,
         LeaseFails, EndTransfers, StartUpload, ReservationIsLost, Pause,
         SignInAgain, LeaveOut, ExcludeItem, HideItem, ResetFace, InterventionFrame,
         checkpointVars, serverVars, recordVars, runVars, taskVars

\* Whatever is counted against the bound.
LEMMA OutageSteps ==
    ASSUME [Next]_vars
    PROVE  UNCHANGED outages \/ Outage
<1>1. ASSUME NEW r \in Runners, RunnerNext(r)
      PROVE  UNCHANGED outages \/ Outage
  BY <1>1 DEF RunnerNext, Ask, Apply, Look, Check, Wake, EndWave, LookOriginals,
         LeaseOriginals, LeaseFails, EndTransfers
<1>2. ASSUME NEW i \in Items, TransferNext(i)
      PROVE  UNCHANGED outages \/ Outage
  BY <1>2 DEF TransferNext, StartTransfer, Delivered, Interrupted, Rejected,
         TransferFailed
<1>3. ASSUME NEW i \in Items, DerivativeNext(i)
      PROVE  UNCHANGED outages \/ Outage
  BY <1>3 DEF DerivativeNext, StartDerivatives, Register, RegisterFails,
         LeaseDerivatives, PutDerivative, PutFails, ReportDerivative
<1>4. ASSUME NEW i \in Items, FaceNext(i)
      PROVE  UNCHANGED outages \/ Outage
  BY <1>4 DEF FaceNext, StartAnalysis, SubmitAnalysis, AnalysisFails, ReportAnalysis
<1>5. CASE OperatorNext
  BY <1>5 DEF OperatorNext, StartUpload, ReservationIsLost, Pause, Crash, SignInAgain
<1>6. CASE PhotographerNext
  BY <1>6 DEF PhotographerNext, LeaveOut, ExcludeItem, HideItem, ResetFace
<1> QED
  BY <1>1, <1>2, <1>3, <1>4, <1>5, <1>6 DEF Next, Join, vars

-----------------------------------------------------------------------------
(* Types.                                                                  *)

\* The larger of the attempts at the two variants.
LEMMA MostTriesIsNat ==
    ASSUME NEW i \in Items, derTries \in [Renditions -> Nat]
    PROVE  MostTries(i, Variants) \in Nat
<1> DEFINE p == derTries[<<i, "preview">>]
           t == derTries[<<i, "thumbnail">>]
<1>1. p \in Nat /\ t \in Nat
  BY DEF Renditions, Variants
<1>2. {derTries[<<i, v>>] : v \in Variants} = {p, t}
  BY DEF Variants
<1>3. \E n \in {p, t} : \A v \in Variants : derTries[<<i, v>>] <= n
  BY <1>1 DEF Variants
<1>4. MostTries(i, Variants) \in {p, t}
  BY <1>2, <1>3 DEF MostTries
<1> QED
  BY <1>1, <1>4

LEMMA CheckpointTypeStep ==
    ASSUME CheckpointTypeOK, DescriptionsOK, TransfersOK, [Next]_vars
    PROVE  CheckpointTypeOK'
<1> USE WorkstationConstants DEF CheckpointTypeOK
<1>1. CASE UNCHANGED checkpointVars
  BY <1>1 DEF checkpointVars
<1>2. ASSUME NEW r \in Runners, Apply(r)
      PROVE  CheckpointTypeOK'
  BY <1>2 DEF Apply, DescriptionsOK, Views, ObjectStates, SyncedOriginal,
         SyncedDerivative, SyncedTries, SyncedFaceTries, Dropped, LocalState,
         BatchAfter, Renditions
<1>3. CASE StartUpload
  BY <1>3 DEF StartUpload
<1>4. ASSUME NEW i \in Items, StartTransfer(i)
      PROVE  CheckpointTypeOK'
  BY <1>4 DEF StartTransfer, TransfersOK
<1>5. ASSUME NEW i \in Items, Delivered(i)
      PROVE  CheckpointTypeOK'
  BY <1>5 DEF Delivered, BatchAfter
<1>6. ASSUME NEW i \in Items, Interrupted(i)
      PROVE  CheckpointTypeOK'
  BY <1>6 DEF Interrupted, TransferFailed
<1>7. ASSUME NEW i \in Items, Rejected(i)
      PROVE  CheckpointTypeOK'
  BY <1>7 DEF Rejected, TransferFailed
<1>8. ASSUME NEW i \in Items, StartDerivatives(i)
      PROVE  CheckpointTypeOK'
  BY <1>8 DEF StartDerivatives, Renditions
<1>9. ASSUME NEW i \in Items, Register(i)
      PROVE  CheckpointTypeOK'
  BY <1>9 DEF Register, DerivativeFrame
<1>10. ASSUME NEW i \in Items, RegisterFails(i)
      PROVE  CheckpointTypeOK'
  BY <1>10 DEF RegisterFails, DerivativeFails, DerivativeFrame
<1>11. ASSUME NEW i \in Items, LeaseDerivatives(i)
      PROVE  CheckpointTypeOK'
  BY <1>11 DEF LeaseDerivatives, DerivativeFails, DerivativeFrame
<1>12. ASSUME NEW i \in Items, PutDerivative(i)
      PROVE  CheckpointTypeOK'
  BY <1>12 DEF PutDerivative, DerivativeFrame, NextPut, Renditions, Variants
<1>13. ASSUME NEW i \in Items, PutFails(i)
      PROVE  CheckpointTypeOK'
  BY <1>13 DEF PutFails, DerivativeFails, DerivativeFrame
<1>14. ASSUME NEW i \in Items, StartAnalysis(i)
      PROVE  CheckpointTypeOK'
  BY <1>14 DEF StartAnalysis, FaceFrame
<1>15. ASSUME NEW i \in Items, SubmitAnalysis(i)
      PROVE  CheckpointTypeOK'
  BY <1>15 DEF SubmitAnalysis, FaceFrame
<1>16. ASSUME NEW i \in Items, AnalysisFails(i)
      PROVE  CheckpointTypeOK'
  BY <1>16 DEF AnalysisFails, FaceFrame
<1> QED
  BY CheckpointSteps, <1>1, <1>2, <1>3, <1>4, <1>5, <1>6, <1>7, <1>8, <1>9, <1>10,
     <1>11, <1>12, <1>13, <1>14, <1>15, <1>16

LEMMA ServerTypeStep ==
    ASSUME ServerTypeOK, [Next]_vars
    PROVE  ServerTypeOK'
<1> USE WorkstationConstants DEF ServerTypeOK
<1>1. CASE UNCHANGED serverVars
  BY <1>1 DEF serverVars
<1>2. CASE StartUpload
  BY <1>2 DEF StartUpload, ReserveOnServer
<1>3. CASE ReservationIsLost
  BY <1>3 DEF ReservationIsLost, ReserveOnServer
<1>4. CASE LeaseOriginals
  BY <1>4 DEF LeaseOriginals
<1>5. CASE LeaveOut
  BY <1>5 DEF LeaveOut
<1>6. ASSUME NEW i \in Items, Delivered(i)
      PROVE  ServerTypeOK'
  BY <1>6 DEF Delivered, VerifyOnServer, ServerBatchAfter
<1>7. ASSUME NEW i \in Items, Interrupted(i)
      PROVE  ServerTypeOK'
  BY <1>7 DEF Interrupted, TransferFailed, VerifyOnServer, ServerBatchAfter
<1>8. ASSUME NEW i \in Items, Rejected(i)
      PROVE  ServerTypeOK'
  BY <1>8 DEF Rejected, TransferFailed
<1>9. ASSUME NEW i \in Items, Register(i)
      PROVE  ServerTypeOK'
  BY <1>9 DEF Register, DerivativeFrame, RegisterOnServer
<1>10. ASSUME NEW i \in Items, RegisterFails(i)
      PROVE  ServerTypeOK'
  BY <1>10 DEF RegisterFails, DerivativeFrame, RegisterOnServer
<1>11. ASSUME NEW i \in Items, PutDerivative(i)
      PROVE  ServerTypeOK'
  BY <1>11 DEF PutDerivative, DerivativeFrame, NextPut
<1>12. ASSUME NEW i \in Items, PutFails(i)
      PROVE  ServerTypeOK'
  BY <1>12 DEF PutFails, DerivativeFrame, NextPut
<1>13. ASSUME NEW i \in Items, ReportDerivative(i)
      PROVE  ServerTypeOK'
  BY <1>13 DEF ReportDerivative, DerivativeFrame, CountDerivativeFailure
<1>14. ASSUME NEW i \in Items, SubmitAnalysis(i)
      PROVE  ServerTypeOK'
  BY <1>14 DEF SubmitAnalysis, FaceFrame, StoreAnalysis, Analysable
<1>15. ASSUME NEW i \in Items, AnalysisFails(i)
      PROVE  ServerTypeOK'
  BY <1>15 DEF AnalysisFails, FaceFrame, StoreAnalysis, Analysable
<1>16. ASSUME NEW i \in Items, ReportAnalysis(i)
      PROVE  ServerTypeOK'
  BY <1>16 DEF ReportAnalysis, FaceFrame, CountFaceFailure
<1>17. ASSUME NEW i \in Items, ExcludeItem(i)
      PROVE  ServerTypeOK'
  BY <1>17 DEF ExcludeItem, ServerBatchAfter
<1>18. ASSUME NEW i \in Items, HideItem(i)
      PROVE  ServerTypeOK'
  BY <1>18 DEF HideItem
<1>19. ASSUME NEW i \in Items, ResetFace(i)
      PROVE  ServerTypeOK'
  BY <1>19 DEF ResetFace
<1> QED
  BY ServerSteps, <1>1, <1>2, <1>3, <1>4, <1>5, <1>6, <1>7, <1>8, <1>9, <1>10,
     <1>11, <1>12, <1>13, <1>14, <1>15, <1>16, <1>17, <1>18, <1>19

LEMMA RecordTypeStep ==
    ASSUME RecordTypeOK, CheckpointTypeOK, TaskTypeOK, [Next]_vars
    PROVE  RecordTypeOK'
<1> USE WorkstationConstants DEF RecordTypeOK
<1>1. CASE UNCHANGED recordVars
  BY <1>1 DEF recordVars
<1>2. CASE SignInAgain
  BY <1>2 DEF SignInAgain
<1>3. ASSUME NEW i \in Items, Register(i)
      PROVE  RecordTypeOK'
  <2>1. VerifiedOnServer(i) \in SUBSET Variants
    BY DEF VerifiedOnServer
  <2>2. /\ derReported' = derReported /\ faceReported' = faceReported
        /\ registered' = registered \/ registered' = [registered EXCEPT ![i] = VerifiedOnServer(i)]
    BY <1>3 DEF Register, RegisterOnServer, DerivativeFrame
  <2> QED
    BY <2>1, <2>2
<1>4. ASSUME NEW i \in Items, RegisterFails(i)
      PROVE  RecordTypeOK'
  <2>1. VerifiedOnServer(i) \in SUBSET Variants
    BY DEF VerifiedOnServer
  <2>2. /\ derReported' = derReported /\ faceReported' = faceReported
        /\ registered' = registered \/ registered' = [registered EXCEPT ![i] = VerifiedOnServer(i)]
    BY <1>4 DEF RegisterFails, RegisterOnServer, DerivativeFrame
  <2> QED
    BY <2>1, <2>2
<1>5. ASSUME NEW i \in Items, ReportDerivative(i)
      PROVE  RecordTypeOK'
  BY <1>5 DEF ReportDerivative, TaskTypeOK, DerivativeFrame, CountDerivativeFailure
<1>6. ASSUME NEW i \in Items, ReportAnalysis(i)
      PROVE  RecordTypeOK'
  BY <1>6 DEF ReportAnalysis, CheckpointTypeOK, FaceFrame, CountFaceFailure
<1> QED
  BY RecordSteps, <1>1, <1>2, <1>3, <1>4, <1>5, <1>6

LEMMA RunTypeStep ==
    ASSUME RunTypeOK, [Next]_vars
    PROVE  RunTypeOK'
<1> USE WorkstationConstants DEF RunTypeOK
<1>1. CASE UNCHANGED runVars
  BY <1>1 DEF runVars
<1>2. ASSUME NEW r \in Runners, Ask(r)
      PROVE  RunTypeOK'
  BY <1>2 DEF Ask, End, Return, Raise, GoTo
<1>3. ASSUME NEW r \in Runners, Apply(r)
      PROVE  RunTypeOK'
  BY <1>3 DEF Apply, GoTo
<1>4. ASSUME NEW r \in Runners, Look(r)
      PROVE  RunTypeOK'
  BY <1>4 DEF Look, GoTo
<1>5. ASSUME NEW r \in Runners, Check(r)
      PROVE  RunTypeOK'
  BY <1>5 DEF Check, End, Return, Raise, GoTo
<1>6. ASSUME NEW r \in Runners, Wake(r)
      PROVE  RunTypeOK'
  BY <1>6 DEF Wake
<1>7. ASSUME NEW r \in Runners, EndWave(r)
      PROVE  RunTypeOK'
  <2>1. /\ UNCHANGED <<outcome, paused, fatal>>
        /\ work' = work \/ work' = Stages
        /\ abort' = abort \/ abort' = TRUE
        /\ \E place \in {"ask", "ended"} : at' = [at EXCEPT ![r] = place]
    BY <1>7 DEF EndWave, GoTo, Raise, End
  <2> QED
    BY <2>1
<1>8. CASE LookOriginals
  BY <1>8 DEF LookOriginals, End, Return, Raise
<1>9. CASE LeaseOriginals
  BY <1>9 DEF LeaseOriginals, GoTo
<1>10. CASE LeaseFails
  BY <1>10 DEF LeaseFails, Raise, End
<1>11. CASE EndTransfers
  BY <1>11 DEF EndTransfers, Raise, End
<1>12. CASE Join
  BY <1>12 DEF Join, ForgetRun
<1>13. CASE StartUpload
  BY <1>13 DEF StartUpload
<1>14. CASE ReservationIsLost
  BY <1>14 DEF ReservationIsLost
<1>15. CASE Pause
  BY <1>15 DEF Pause
<1>16. CASE Crash
  BY <1>16 DEF Crash, ForgetRun
<1>17. ASSUME NEW i \in Items, Delivered(i)
      PROVE  RunTypeOK'
  BY <1>17 DEF Delivered
<1>18. ASSUME NEW i \in Items, Rejected(i)
      PROVE  RunTypeOK'
  BY <1>18 DEF Rejected, TransferFailed, Runners
<1>19. ASSUME NEW i \in Items, RegisterFails(i)
      PROVE  RunTypeOK'
  BY <1>19 DEF RegisterFails, DerivativeFails, DerivativeFrame
<1>20. ASSUME NEW i \in Items, LeaseDerivatives(i)
      PROVE  RunTypeOK'
  BY <1>20 DEF LeaseDerivatives, DerivativeFails, DerivativeFrame
<1>21. ASSUME NEW i \in Items, PutFails(i)
      PROVE  RunTypeOK'
  BY <1>21 DEF PutFails, DerivativeFails, DerivativeFrame
<1>22. ASSUME NEW i \in Items, ReportDerivative(i)
      PROVE  RunTypeOK'
  BY <1>22 DEF ReportDerivative, DerivativeFrame
<1>23. ASSUME NEW i \in Items, AnalysisFails(i)
      PROVE  RunTypeOK'
  BY <1>23 DEF AnalysisFails, FaceFrame
<1>24. ASSUME NEW i \in Items, ReportAnalysis(i)
      PROVE  RunTypeOK'
  BY <1>24 DEF ReportAnalysis, FaceFrame
<1> QED
  BY RunSteps, <1>1, <1>2, <1>3, <1>4, <1>5, <1>6, <1>7, <1>8, <1>9, <1>10, <1>11,
     <1>12, <1>13, <1>14, <1>15, <1>16, <1>17, <1>18, <1>19, <1>20, <1>21, <1>22,
     <1>23, <1>24

LEMMA TaskTypeStep ==
    ASSUME TaskTypeOK, RecordTypeOK, CheckpointTypeOK, [Next]_vars
    PROVE  TaskTypeOK'
<1> USE WorkstationConstants DEF TaskTypeOK
<1>1. CASE UNCHANGED taskVars
  BY <1>1 DEF taskVars
<1>2. ASSUME NEW r \in Runners, Look(r)
      PROVE  TaskTypeOK'
  BY <1>2 DEF Look, PendingVariants, NoTask, TaskPlaces
<1>3. CASE LeaseOriginals
  BY <1>3 DEF LeaseOriginals
<1>4. CASE Join
  BY <1>4 DEF Join, ForgetRun, NoTask, TaskPlaces
<1>5. CASE Crash
  BY <1>5 DEF Crash, ForgetRun, NoTask, TaskPlaces
<1>6. ASSUME NEW i \in Items, StartTransfer(i)
      PROVE  TaskTypeOK'
  BY <1>6 DEF StartTransfer
<1>7. ASSUME NEW i \in Items, Delivered(i)
      PROVE  TaskTypeOK'
  BY <1>7 DEF Delivered
<1>8. ASSUME NEW i \in Items, Interrupted(i)
      PROVE  TaskTypeOK'
  BY <1>8 DEF Interrupted, TransferFailed
<1>9. ASSUME NEW i \in Items, Rejected(i)
      PROVE  TaskTypeOK'
  BY <1>9 DEF Rejected, TransferFailed
<1>10. ASSUME NEW i \in Items, StartDerivatives(i)
      PROVE  TaskTypeOK'
  BY <1>10 DEF StartDerivatives, TaskPlaces
<1>11. ASSUME NEW i \in Items, Register(i)
      PROVE  TaskTypeOK'
  BY <1>11 DEF Register, DerivativeFrame, NoTask, TaskPlaces, RecordTypeOK
<1>12. ASSUME NEW i \in Items, RegisterFails(i)
      PROVE  TaskTypeOK'
  <2>1. MostTries(i, Variants) \in Nat
    BY MostTriesIsNat DEF CheckpointTypeOK
  <2>2. /\ sending' = sending /\ ftask' = ftask
        /\ \/ dtask' = [dtask EXCEPT ![i] = NoTask]
           \/ dtask' = [dtask EXCEPT ![i].at = "put"]
           \/ dtask' = [dtask EXCEPT ![i] = [at |-> "report", want |-> {},
                                             key |-> MostTries(i, Variants)]]
    BY <1>12 DEF RegisterFails, DerivativeFails, DerivativeFrame
  <2> QED
    BY <2>1, <2>2 DEF NoTask, TaskPlaces
<1>13. ASSUME NEW i \in Items, LeaseDerivatives(i)
      PROVE  TaskTypeOK'
  <2>1. MostTries(i, Variants) \in Nat
    BY MostTriesIsNat DEF CheckpointTypeOK
  <2>2. /\ sending' = sending /\ ftask' = ftask
        /\ \/ dtask' = [dtask EXCEPT ![i] = NoTask]
           \/ dtask' = [dtask EXCEPT ![i].at = "put"]
           \/ dtask' = [dtask EXCEPT ![i] = [at |-> "report", want |-> {},
                                             key |-> MostTries(i, Variants)]]
    BY <1>13 DEF LeaseDerivatives, DerivativeFails, DerivativeFrame
  <2> QED
    BY <2>1, <2>2 DEF NoTask, TaskPlaces
<1>14. ASSUME NEW i \in Items, PutDerivative(i)
      PROVE  TaskTypeOK'
  BY <1>14 DEF PutDerivative, DerivativeFrame, NoTask, TaskPlaces
<1>15. ASSUME NEW i \in Items, PutFails(i)
      PROVE  TaskTypeOK'
  <2>1. MostTries(i, Variants) \in Nat
    BY MostTriesIsNat DEF CheckpointTypeOK
  <2>2. /\ sending' = sending /\ ftask' = ftask
        /\ \/ dtask' = [dtask EXCEPT ![i] = NoTask]
           \/ dtask' = [dtask EXCEPT ![i] = [at |-> "report", want |-> {},
                                             key |-> MostTries(i, Variants)]]
    BY <1>15 DEF PutFails, DerivativeFails, DerivativeFrame
  <2>3. NoTask \in [at : TaskPlaces, want : SUBSET Variants, key : Nat]
    BY DEF NoTask, TaskPlaces
  <2>4. [at |-> "report", want |-> {}, key |-> MostTries(i, Variants)]
           \in [at : TaskPlaces, want : SUBSET Variants, key : Nat]
    BY <2>1 DEF TaskPlaces
  <2> QED
    BY <2>2, <2>3, <2>4
<1>16. ASSUME NEW i \in Items, ReportDerivative(i)
      PROVE  TaskTypeOK'
  BY <1>16 DEF ReportDerivative, DerivativeFrame, NoTask, TaskPlaces
<1>17. ASSUME NEW i \in Items, StartAnalysis(i)
      PROVE  TaskTypeOK'
  BY <1>17 DEF StartAnalysis, FaceFrame
<1>18. ASSUME NEW i \in Items, SubmitAnalysis(i)
      PROVE  TaskTypeOK'
  BY <1>18 DEF SubmitAnalysis, FaceFrame
<1>19. ASSUME NEW i \in Items, AnalysisFails(i)
      PROVE  TaskTypeOK'
  BY <1>19 DEF AnalysisFails, FaceFrame
<1>20. ASSUME NEW i \in Items, ReportAnalysis(i)
      PROVE  TaskTypeOK'
  BY <1>20 DEF ReportAnalysis, FaceFrame
<1> QED
  BY TaskSteps, <1>1, <1>2, <1>3, <1>4, <1>5, <1>6, <1>7, <1>8, <1>9, <1>10, <1>11,
     <1>12, <1>13, <1>14, <1>15, <1>16, <1>17, <1>18, <1>19, <1>20

LEMMA TypeInit == Init => TypeInv
<1> SUFFICES ASSUME Init
             PROVE  TypeInv
  OBVIOUS
<1> USE WorkstationConstants DEF Init
<1>1. CheckpointTypeOK /\ ServerTypeOK
  BY DEF CheckpointTypeOK, ServerTypeOK
<1>2. RecordTypeOK /\ TaskTypeOK
  BY DEF RecordTypeOK, TaskTypeOK, NoTask, TaskPlaces
<1>3. RunTypeOK
  BY DEF RunTypeOK
<1>4. DescriptionsOK
  BY DEF DescriptionsOK
<1>5. TransfersOK /\ AttemptsAreCapped
  BY DEF TransfersOK, AttemptsAreCapped
<1> QED
  BY <1>1, <1>2, <1>3, <1>4, <1>5 DEF TypeInv, WorkstationTypeOK

\* A description is what the server says when it is asked for, and is kept until
\* it is applied.
LEMMA DescriptionSteps ==
    ASSUME RunTypeOK, DescriptionsOK, [Next]_vars, NEW q \in Runners, at'[q] = "apply"
    PROVE  \/ at[q] = "apply" /\ answer'[q] = answer[q]
           \/ answer'[q] = View /\ UNCHANGED serverVars
<1> DEFINE Kept == at[q] = "apply" /\ answer'[q] = answer[q]
<1> USE DEF RunTypeOK, DescriptionsOK
<1>1. CASE UNCHANGED runVars
  BY <1>1 DEF runVars
<1>2. ASSUME NEW r \in Runners, Ask(r)
      PROVE  Kept \/ (answer'[q] = View /\ UNCHANGED serverVars)
  BY <1>2 DEF Ask, End, Return, Raise, GoTo, Outage
<1>3. ASSUME NEW r \in Runners, Apply(r)
      PROVE  Kept
  BY <1>3 DEF Apply, GoTo
<1>4. ASSUME NEW r \in Runners, Look(r)
      PROVE  Kept
  BY <1>4 DEF Look, GoTo
<1>5. ASSUME NEW r \in Runners, Check(r)
      PROVE  Kept
  BY <1>5 DEF Check, End, Return, Raise, GoTo
<1>6. ASSUME NEW r \in Runners, Wake(r)
      PROVE  Kept
  BY <1>6 DEF Wake
<1>7. ASSUME NEW r \in Runners, EndWave(r)
      PROVE  Kept
  BY <1>7 DEF EndWave, GoTo, Raise, End
<1>8. CASE LookOriginals
  BY <1>8 DEF LookOriginals, End, Return, Raise
<1>9. CASE LeaseOriginals
  BY <1>9 DEF LeaseOriginals, GoTo
<1>10. CASE LeaseFails
  BY <1>10 DEF LeaseFails, Raise, End
<1>11. CASE EndTransfers
  BY <1>11 DEF EndTransfers, Raise, End
<1>12. CASE Join
  BY <1>12 DEF Join, ForgetRun
<1>13. CASE StartUpload
  BY <1>13 DEF StartUpload
<1>14. CASE ReservationIsLost
  BY <1>14 DEF ReservationIsLost
<1>15. CASE Pause
  BY <1>15 DEF Pause
<1>16. CASE Crash
  BY <1>16 DEF Crash, ForgetRun
<1>17. ASSUME NEW i \in Items, Delivered(i)
      PROVE  Kept
  BY <1>17 DEF Delivered
<1>18. ASSUME NEW i \in Items, Rejected(i)
      PROVE  Kept
  BY <1>18 DEF Rejected, TransferFailed
<1>19. ASSUME NEW i \in Items, RegisterFails(i)
      PROVE  Kept
  BY <1>19 DEF RegisterFails, DerivativeFails, DerivativeFrame
<1>20. ASSUME NEW i \in Items, LeaseDerivatives(i)
      PROVE  Kept
  BY <1>20 DEF LeaseDerivatives, DerivativeFails, DerivativeFrame
<1>21. ASSUME NEW i \in Items, PutFails(i)
      PROVE  Kept
  BY <1>21 DEF PutFails, DerivativeFails, DerivativeFrame
<1>22. ASSUME NEW i \in Items, ReportDerivative(i)
      PROVE  Kept
  BY <1>22 DEF ReportDerivative, DerivativeFrame
<1>23. ASSUME NEW i \in Items, AnalysisFails(i)
      PROVE  Kept
  BY <1>23 DEF AnalysisFails, FaceFrame
<1>24. ASSUME NEW i \in Items, ReportAnalysis(i)
      PROVE  Kept
  BY <1>24 DEF ReportAnalysis, FaceFrame
<1> QED
  BY RunSteps, <1>1, <1>2, <1>3, <1>4, <1>5, <1>6, <1>7, <1>8, <1>9, <1>10, <1>11,
     <1>12, <1>13, <1>14, <1>15, <1>16, <1>17, <1>18, <1>19, <1>20, <1>21, <1>22,
     <1>23, <1>24

LEMMA DescriptionsStep ==
    ASSUME RunTypeOK, DescriptionsOK, ServerTypeOK, [Next]_vars
    PROVE  DescriptionsOK'
<1>1. View \in Views
  BY DEF View, Views, ServerTypeOK, ObjectStates
<1>2. answer' \in [Runners -> Views \cup {NoAnswer}]
  <2>1. \/ answer' = answer
        \/ \E r \in Runners : answer' = [answer EXCEPT ![r] = View]
        \/ \E r \in Runners : answer' = [answer EXCEPT ![r] = NoAnswer]
        \/ answer' = [r \in Runners |-> NoAnswer]
    BY RunSteps DEF runVars, Ask, Apply, Look, Check, Wake, EndWave, LookOriginals,
       LeaseOriginals, LeaseFails, EndTransfers, Join, StartUpload,
       ReservationIsLost, Pause, Crash, Delivered, Rejected, RegisterFails,
       LeaseDerivatives, PutFails, ReportDerivative, AnalysisFails, ReportAnalysis,
       ForgetRun, TransferFailed, DerivativeFrame, FaceFrame
  <2> QED
    BY <1>1, <2>1 DEF DescriptionsOK
<1>3. ASSUME NEW q \in Runners, at'[q] = "apply"
      PROVE  answer'[q] \in Views
  BY <1>1, <1>3, DescriptionSteps DEF DescriptionsOK
<1> QED
  BY <1>2, <1>3 DEF DescriptionsOK

LEMMA TransfersStep ==
    ASSUME CheckpointTypeOK, ServerTypeOK, TaskTypeOK, TransfersOK, [Next]_vars
    PROVE  TransfersOK'
<1> USE DEF CheckpointTypeOK, ServerTypeOK, TaskTypeOK, TransfersOK
<1>1. \A i \in Items : origTries'[i] = origTries[i] \/ sending'[i] = "sending"
  <2>1. origTries' = origTries \/ \E i \in Items : StartTransfer(i)
    BY ZenonT(30), CheckpointSteps
    DEF checkpointVars, Apply, StartUpload, Delivered, Interrupted, Rejected,
        StartDerivatives, Register, RegisterFails, LeaseDerivatives, PutDerivative,
        PutFails, StartAnalysis, SubmitAnalysis, AnalysisFails, TransferFailed,
        DerivativeFrame, FaceFrame
  <2> QED
    BY <2>1 DEF StartTransfer
<1>2. sBatch # "none" => sBatch' # "none"
  <2>1. \/ sBatch' \in {sBatch, "reserved", "not_included"}
        \/ sBatch' = ServerBatchAfter(sOrig')
    BY ZenonT(30), ServerSteps
    DEF serverVars, StartUpload, ReservationIsLost, LeaseOriginals, LeaveOut,
        Delivered, Interrupted, Rejected, Register, RegisterFails, PutDerivative,
        PutFails, ReportDerivative, SubmitAnalysis, AnalysisFails, ReportAnalysis,
        ExcludeItem, HideItem, ResetFace, ReserveOnServer, VerifyOnServer,
        TransferFailed, DerivativeFrame, FaceFrame
  <2> QED
    BY <2>1 DEF ServerBatchAfter
<1>3. ASSUME NEW i \in Items
      PROVE  /\ sending'[i] = "queued" => sending[i] = "queued" \/ origTries[i] < MaxTries
             /\ sending'[i] # "none" => sending[i] # "none" \/ sBatch # "none"
  <2>1. \/ sending' = sending
        \/ sending' = [j \in Items |-> "none"]
        \/ \E j \in Items : sending' = [sending EXCEPT ![j] = "none"]
        \/ \E j \in Items : StartTransfer(j)
        \/ LeaseOriginals
    BY ZenonT(30), TaskSteps
    DEF taskVars, Look, Join, Crash, Delivered, Interrupted, Rejected,
        StartDerivatives, Register, RegisterFails, LeaseDerivatives, PutDerivative,
        PutFails, ReportDerivative, StartAnalysis, SubmitAnalysis, AnalysisFails,
        ReportAnalysis, TransferFailed, DerivativeFrame, FaceFrame, ForgetRun
  <2>2. CASE LeaseOriginals
    <3>1. PICK S \in Requests :
             /\ Leases(S) # {}
             /\ sending' = [j \in Items |-> IF j \in Leases(S) THEN "queued" ELSE "none"]
      BY <2>2 DEF LeaseOriginals
    <3>2. sBatch = "reserved"
      BY <3>1 DEF Leases
    <3>3. \A j \in Leases(S) : origTries[j] < MaxTries
      BY DEF Requests, Leases, PendingUploads
    <3> QED
      BY <3>1, <3>2, <3>3
  <2>3. CASE \E j \in Items : StartTransfer(j)
    BY <2>3 DEF StartTransfer
  <2> QED
    BY <2>1, <2>2, <2>3
<1> QED
  BY <1>1, <1>2, <1>3

\* Only a transfer that was leased with attempts left counts one, and no description
\* changes the count; the server counts an analysis after it has looked at its own.
LEMMA AttemptsStep ==
    ASSUME CheckpointTypeOK, ServerTypeOK, AttemptsAreCapped, TransfersOK, [Next]_vars
    PROVE  AttemptsAreCapped'
<1> USE WorkstationConstants DEF CheckpointTypeOK, ServerTypeOK, AttemptsAreCapped
<1>1. \A i \in Items : origTries'[i] <= MaxTries
  <2>1. origTries' = origTries \/ \E i \in Items : StartTransfer(i)
    BY ZenonT(30), CheckpointSteps
    DEF checkpointVars, Apply, StartUpload, Delivered, Interrupted, Rejected,
        StartDerivatives, Register, RegisterFails, LeaseDerivatives, PutDerivative,
        PutFails, StartAnalysis, SubmitAnalysis, AnalysisFails, TransferFailed,
        DerivativeFrame, FaceFrame
  <2>2. ASSUME NEW i \in Items, StartTransfer(i)
        PROVE  \A j \in Items : origTries'[j] <= MaxTries
    BY <2>2 DEF StartTransfer, TransfersOK
  <2> QED
    BY <2>1, <2>2
<1>2. \A i \in Items : sFaceTries'[i] <= MaxTries
  <2>1. \/ sFaceTries' = sFaceTries
        \/ sFaceTries' = [i \in Items |-> 0]
        \/ \E i \in Items : sFaceTries' = [sFaceTries EXCEPT ![i] = 0]
        \/ \E i \in Items : SubmitAnalysis(i) \/ AnalysisFails(i) \/ ReportAnalysis(i)
    BY ZenonT(30), ServerSteps
    DEF serverVars, StartUpload, ReservationIsLost, LeaseOriginals, LeaveOut,
        Delivered, Interrupted, Rejected, Register, RegisterFails, PutDerivative,
        PutFails, ReportDerivative, ExcludeItem, HideItem, ResetFace,
        TransferFailed, DerivativeFrame
  <2>2. ASSUME NEW i \in Items, StoreAnalysis(i), Analysable(i)
        PROVE  \A j \in Items : sFaceTries'[j] <= MaxTries
    BY <2>2 DEF StoreAnalysis, Analysable
  <2>3. ASSUME NEW i \in Items, CountFaceFailure(i)
        PROVE  \A j \in Items : sFaceTries'[j] <= MaxTries
    BY <2>3 DEF CountFaceFailure
  <2>4. ASSUME NEW i \in Items, SubmitAnalysis(i) \/ AnalysisFails(i) \/ ReportAnalysis(i)
        PROVE  \A j \in Items : sFaceTries'[j] <= MaxTries
    BY <2>2, <2>3, <2>4 DEF SubmitAnalysis, AnalysisFails, ReportAnalysis
  <2> QED
    BY <2>1, <2>4
<1> QED
  BY <1>1, <1>2

LEMMA TypeStep ==
    ASSUME TypeInv, [Next]_vars
    PROVE  TypeInv'
<1> USE DEF TypeInv, WorkstationTypeOK
<1>1. CheckpointTypeOK' /\ ServerTypeOK' /\ RecordTypeOK'
  BY CheckpointTypeStep, ServerTypeStep, RecordTypeStep
<1>2. RunTypeOK' /\ TaskTypeOK'
  BY RunTypeStep, TaskTypeStep
<1>3. outages' \in 0..MaxOutages
  BY OutageSteps, WorkstationConstants DEF Outage
<1>4. DescriptionsOK' /\ TransfersOK' /\ AttemptsAreCapped'
  BY DescriptionsStep, TransfersStep, AttemptsStep
<1> QED
  BY <1>1, <1>2, <1>3, <1>4

\* The checkpoint, the server's rows, the recorded answers and the run are typed
\* for any number of photos, attempts and outages.
THEOREM WorkstationTypes == Spec => []WorkstationTypeOK
<1>1. Init => TypeInv
  BY TypeInit
<1>2. TypeInv /\ [Next]_vars => TypeInv'
  BY TypeStep
<1>3. TypeInv => WorkstationTypeOK
  BY DEF TypeInv
<1> QED
  BY <1>1, <1>2, <1>3, PTL DEF Spec

\* No original is sent, and no analysis counted by the server, more often than
\* allowed: the cap of an original is looked at when it is leased and its count is
\* not taken from descriptions of the server, and the cap of an analysis is looked at
\* by the server in the transaction that counts it.
THEOREM AttemptsAreCappedAlways == Spec => []AttemptsAreCapped
<1>1. Init => TypeInv
  BY TypeInit
<1>2. TypeInv /\ [Next]_vars => TypeInv'
  BY TypeStep
<1>3. TypeInv => AttemptsAreCapped
  BY DEF TypeInv
<1> QED
  BY <1>1, <1>2, <1>3, PTL DEF Spec

-----------------------------------------------------------------------------
(* The server keeps what it has got.                                       *)

\* No request and no intervention takes back what has arrived or was dropped.
LEMMA ServerAdvancesStep ==
    ASSUME ServerTypeOK, TransfersOK, ServerInv, [Next]_vars
    PROVE  ServerAdvances
<1> USE DEF ServerTypeOK, ServerInv, ServerAdvances, EventClosed, Terminal
<1>1. CASE UNCHANGED serverVars
  BY <1>1 DEF serverVars
<1>2. CASE StartUpload
  BY <1>2 DEF StartUpload, ReserveOnServer
<1>3. CASE ReservationIsLost
  BY <1>3 DEF ReservationIsLost, ReserveOnServer
<1>4. CASE LeaseOriginals
  BY <1>4 DEF LeaseOriginals, Leases
<1>5. CASE LeaveOut
  BY <1>5 DEF LeaveOut
<1>6. ASSUME NEW i \in Items, Delivered(i)
      PROVE  ServerAdvances
  BY <1>6 DEF Delivered, VerifyOnServer, ServerBatchAfter
<1>7. ASSUME NEW i \in Items, Interrupted(i)
      PROVE  ServerAdvances
  BY <1>7 DEF Interrupted, TransferFailed, VerifyOnServer, ServerBatchAfter
<1>8. ASSUME NEW i \in Items, Rejected(i)
      PROVE  ServerAdvances
  BY <1>8 DEF Rejected, TransferFailed
<1>9. ASSUME NEW i \in Items, Register(i)
      PROVE  ServerAdvances
  <2>1. /\ sDer' = sDer \/ sDer' = [o \in Renditions |-> IF o[1] = i /\ sDer[o] = "absent"
                                                 THEN "reserved" ELSE sDer[o]]
        /\ UNCHANGED <<sBatch, sOrig, sFace, hidden>>
    BY <1>9 DEF Register, DerivativeFrame, RegisterOnServer
  <2> QED
    BY <2>1
<1>10. ASSUME NEW i \in Items, RegisterFails(i)
      PROVE  ServerAdvances
  <2>1. /\ sDer' = sDer \/ sDer' = [o \in Renditions |-> IF o[1] = i /\ sDer[o] = "absent"
                                                 THEN "reserved" ELSE sDer[o]]
        /\ UNCHANGED <<sBatch, sOrig, sFace, hidden>>
    BY <1>10 DEF RegisterFails, DerivativeFrame, RegisterOnServer
  <2> QED
    BY <2>1
<1>11. ASSUME NEW i \in Items, PutDerivative(i)
      PROVE  ServerAdvances
  BY <1>11 DEF PutDerivative, DerivativeFrame, NextPut
<1>12. ASSUME NEW i \in Items, PutFails(i)
      PROVE  ServerAdvances
  BY <1>12 DEF PutFails, DerivativeFrame, NextPut
<1>13. ASSUME NEW i \in Items, ReportDerivative(i)
      PROVE  ServerAdvances
  BY <1>13 DEF ReportDerivative, DerivativeFrame, CountDerivativeFailure
<1>14. ASSUME NEW i \in Items, SubmitAnalysis(i)
      PROVE  ServerAdvances
  BY <1>14 DEF SubmitAnalysis, FaceFrame, StoreAnalysis, Analysable
<1>15. ASSUME NEW i \in Items, AnalysisFails(i)
      PROVE  ServerAdvances
  BY <1>15 DEF AnalysisFails, FaceFrame, StoreAnalysis, Analysable
<1>16. ASSUME NEW i \in Items, ReportAnalysis(i)
      PROVE  ServerAdvances
  BY <1>16 DEF ReportAnalysis, FaceFrame, CountFaceFailure
<1>17. ASSUME NEW i \in Items, ExcludeItem(i)
      PROVE  ServerAdvances
  BY <1>17 DEF ExcludeItem, ServerBatchAfter
<1>18. ASSUME NEW i \in Items, HideItem(i)
      PROVE  ServerAdvances
  BY <1>18 DEF HideItem
<1>19. ASSUME NEW i \in Items, ResetFace(i)
      PROVE  ServerAdvances
  BY <1>19 DEF ResetFace, Resettable
<1> QED
  BY ServerSteps, <1>1, <1>2, <1>3, <1>4, <1>5, <1>6, <1>7, <1>8, <1>9, <1>10,
     <1>11, <1>12, <1>13, <1>14, <1>15, <1>16, <1>17, <1>18, <1>19

\* Nor does any leave rows behind of a contribution that is left out.
LEMMA ServerInvStep ==
    ASSUME ServerTypeOK, TransfersOK, ServerInv, [Next]_vars
    PROVE  ServerInv'
<1> USE DEF ServerTypeOK, ServerInv, EventClosed, Terminal
<1>1. CASE UNCHANGED serverVars
  BY <1>1 DEF serverVars
<1>2. CASE StartUpload
  BY <1>2 DEF StartUpload, ReserveOnServer
<1>3. CASE ReservationIsLost
  BY <1>3 DEF ReservationIsLost, ReserveOnServer
<1>4. CASE LeaseOriginals
  BY <1>4 DEF LeaseOriginals, Leases
<1>5. CASE LeaveOut
  BY <1>5 DEF LeaveOut
<1>6. ASSUME NEW i \in Items, Delivered(i)
      PROVE  ServerInv'
  BY <1>6 DEF Delivered, VerifyOnServer, ServerBatchAfter, TransfersOK
<1>7. ASSUME NEW i \in Items, Interrupted(i)
      PROVE  ServerInv'
  BY <1>7 DEF Interrupted, TransferFailed, VerifyOnServer, ServerBatchAfter, TransfersOK
<1>8. ASSUME NEW i \in Items, Rejected(i)
      PROVE  ServerInv'
  BY <1>8 DEF Rejected, TransferFailed, TransfersOK
<1>9. ASSUME NEW i \in Items, Register(i)
      PROVE  ServerInv'
  <2>1. /\ sDer' = sDer \/ sDer' = [o \in Renditions |-> IF o[1] = i /\ sDer[o] = "absent"
                                                 THEN "reserved" ELSE sDer[o]]
        /\ UNCHANGED <<sBatch, sOrig, sFace, hidden>>
    BY <1>9 DEF Register, DerivativeFrame, RegisterOnServer
  <2> QED
    BY <2>1
<1>10. ASSUME NEW i \in Items, RegisterFails(i)
      PROVE  ServerInv'
  <2>1. /\ sDer' = sDer \/ sDer' = [o \in Renditions |-> IF o[1] = i /\ sDer[o] = "absent"
                                                 THEN "reserved" ELSE sDer[o]]
        /\ UNCHANGED <<sBatch, sOrig, sFace, hidden>>
    BY <1>10 DEF RegisterFails, DerivativeFrame, RegisterOnServer
  <2> QED
    BY <2>1
<1>11. ASSUME NEW i \in Items, PutDerivative(i)
      PROVE  ServerInv'
  BY <1>11 DEF PutDerivative, DerivativeFrame, NextPut
<1>12. ASSUME NEW i \in Items, PutFails(i)
      PROVE  ServerInv'
  BY <1>12 DEF PutFails, DerivativeFrame, NextPut
<1>13. ASSUME NEW i \in Items, ReportDerivative(i)
      PROVE  ServerInv'
  BY <1>13 DEF ReportDerivative, DerivativeFrame, CountDerivativeFailure
<1>14. ASSUME NEW i \in Items, SubmitAnalysis(i)
      PROVE  ServerInv'
  BY <1>14 DEF SubmitAnalysis, FaceFrame, StoreAnalysis, Analysable
<1>15. ASSUME NEW i \in Items, AnalysisFails(i)
      PROVE  ServerInv'
  BY <1>15 DEF AnalysisFails, FaceFrame, StoreAnalysis, Analysable
<1>16. ASSUME NEW i \in Items, ReportAnalysis(i)
      PROVE  ServerInv'
  BY <1>16 DEF ReportAnalysis, FaceFrame, CountFaceFailure
<1>17. ASSUME NEW i \in Items, ExcludeItem(i)
      PROVE  ServerInv'
  BY <1>17 DEF ExcludeItem, ServerBatchAfter
<1>18. ASSUME NEW i \in Items, HideItem(i)
      PROVE  ServerInv'
  BY <1>18 DEF HideItem
<1>19. ASSUME NEW i \in Items, ResetFace(i)
      PROVE  ServerInv'
  BY <1>19 DEF ResetFace
<1> QED
  BY ServerSteps, <1>1, <1>2, <1>3, <1>4, <1>5, <1>6, <1>7, <1>8, <1>9, <1>10,
     <1>11, <1>12, <1>13, <1>14, <1>15, <1>16, <1>17, <1>18, <1>19

-----------------------------------------------------------------------------
(* The checkpoint follows the server.                                      *)

\* What is marked in the checkpoint, or written over it, the server has by then.
LEMMA CheckpointFollowsStep ==
    ASSUME CheckpointTypeOK, ServerTypeOK, RecordTypeOK, DescriptionsOK, CheckpointFollows,
           DescriptionsFollow, RecordsFollow, ServerAdvances, [Next]_vars
    PROVE  CheckpointFollows'
<1> USE DEF CheckpointTypeOK, CheckpointFollows, OriginalFollows, DerivativeFollows, FaceFollows,
            Gone, ServerAdvances, Renditions
<1>1. CASE UNCHANGED checkpointVars
  BY <1>1 DEF checkpointVars
<1>2. ASSUME NEW r \in Runners, Apply(r)
      PROVE  CheckpointFollows'
  <2> DEFINE a == answer[r]
  <2>1. /\ UNCHANGED serverVars
        /\ \A i \in Items : OriginalFollows(a.orig[i], i)
        /\ \A o \in Renditions : DerivativeFollows(a.der[o], o)
        /\ \A i \in Items : FaceFollows(a.face[i], i)
        /\ a.hidden \subseteq hidden
    BY <1>2 DEF Apply, DescriptionsFollow
  <2>2. /\ orig' = [i \in Items |-> SyncedOriginal(i, a)]
        /\ der' = [o \in Renditions |-> SyncedDerivative(o, a)]
        /\ face' = [i \in Items |-> IF Dropped(i, a) THEN "excluded" ELSE a.face[i]]
    BY <1>2 DEF Apply
  <2>3. \A i \in Items : Dropped(i, a) => Gone(i)
    BY <2>1 DEF Dropped
  <2>4. \A i \in Items : OriginalFollows(orig'[i], i)
    BY <2>1, <2>2 DEF SyncedOriginal
  <2>5. \A o \in Renditions : DerivativeFollows(der'[o], o)
    BY <2>1, <2>2, <2>3 DEF SyncedDerivative, LocalState
  <2>6. \A i \in Items : FaceFollows(face'[i], i)
    BY <2>1, <2>2, <2>3
  <2> QED
    BY <2>1, <2>4, <2>5, <2>6 DEF serverVars, EventClosed
<1>3. CASE StartUpload
  BY <1>3 DEF StartUpload
<1>4. ASSUME NEW i \in Items, StartTransfer(i)
      PROVE  CheckpointFollows'
  BY <1>4 DEF StartTransfer, TransfersOK
<1>5. ASSUME NEW i \in Items, Delivered(i)
      PROVE  CheckpointFollows'
  BY <1>5 DEF Delivered, BatchAfter, VerifyOnServer, Terminal, ServerTypeOK
<1>6. ASSUME NEW i \in Items, Interrupted(i)
      PROVE  CheckpointFollows'
  BY <1>6 DEF Interrupted, TransferFailed
<1>7. ASSUME NEW i \in Items, Rejected(i)
      PROVE  CheckpointFollows'
  BY <1>7 DEF Rejected, TransferFailed
<1>8. ASSUME NEW i \in Items, StartDerivatives(i)
      PROVE  CheckpointFollows'
  BY <1>8 DEF StartDerivatives, Renditions
<1>9. ASSUME NEW i \in Items, Register(i)
      PROVE  CheckpointFollows'
  <2>1. \A v \in registered'[i] : sDer'[<<i, v>>] \in Terminal
    BY <1>9 DEF Register, RegisterOnServer, VerifiedOnServer, RecordsFollow, ServerTypeOK, Terminal,
              RecordTypeOK
  <2>2. /\ orig' = orig /\ face' = face
        /\ der' = [o \in Renditions |-> IF o[1] = i /\ o[2] \in registered'[i]
                                        THEN "verified" ELSE der[o]]
    BY <1>9 DEF Register, DerivativeFrame
  <2> QED
    BY <2>1, <2>2
<1>10. ASSUME NEW i \in Items, RegisterFails(i)
      PROVE  CheckpointFollows'
  BY <1>10 DEF RegisterFails, DerivativeFails, DerivativeFrame
<1>11. ASSUME NEW i \in Items, LeaseDerivatives(i)
      PROVE  CheckpointFollows'
  BY <1>11 DEF LeaseDerivatives, DerivativeFails, DerivativeFrame
<1>12. ASSUME NEW i \in Items, PutDerivative(i)
      PROVE  CheckpointFollows'
  BY <1>12 DEF PutDerivative, DerivativeFrame, NextPut, Renditions, Variants,
         ServerTypeOK, Terminal
<1>13. ASSUME NEW i \in Items, PutFails(i)
      PROVE  CheckpointFollows'
  BY <1>13 DEF PutFails, DerivativeFails, DerivativeFrame
<1>14. ASSUME NEW i \in Items, StartAnalysis(i)
      PROVE  CheckpointFollows'
  BY <1>14 DEF StartAnalysis, FaceFrame
<1>15. ASSUME NEW i \in Items, SubmitAnalysis(i)
      PROVE  CheckpointFollows'
  BY <1>15 DEF SubmitAnalysis, FaceFrame, StoreAnalysis, ServerTypeOK
<1>16. ASSUME NEW i \in Items, AnalysisFails(i)
      PROVE  CheckpointFollows'
  BY <1>16 DEF AnalysisFails, FaceFrame
<1> QED
  BY CheckpointSteps, <1>1, <1>2, <1>3, <1>4, <1>5, <1>6, <1>7, <1>8, <1>9, <1>10,
     <1>11, <1>12, <1>13, <1>14, <1>15, <1>16

\* A description ages, but does not become false in what it calls verified or excluded.
LEMMA DescriptionsFollowStep ==
    ASSUME RunTypeOK, ServerTypeOK, DescriptionsOK, DescriptionsFollow, ServerInv,
           ServerAdvances, [Next]_vars
    PROVE  DescriptionsFollow'
<1> USE DEF OriginalFollows, DerivativeFollows, FaceFollows, Gone
<1> SUFFICES ASSUME NEW r \in Runners, at'[r] = "apply"
             PROVE  /\ \A i \in Items : OriginalFollows(answer[r].orig[i], i)'
                    /\ \A o \in Renditions : DerivativeFollows(answer[r].der[o], o)'
                    /\ \A i \in Items : FaceFollows(answer[r].face[i], i)'
                    /\ (answer[r].hidden \subseteq hidden)'
  BY DEF DescriptionsFollow
<1>1. CASE at[r] = "apply" /\ answer'[r] = answer[r]
  BY <1>1 DEF DescriptionsFollow, ServerAdvances, Renditions
<1>2. CASE answer'[r] = View /\ UNCHANGED serverVars
  BY <1>2 DEF View, serverVars, ServerInv, ServerTypeOK, Terminal, Renditions
<1> QED
  BY <1>1, <1>2, DescriptionSteps

\* Nor does a recorded answer.
LEMMA RecordsFollowStep ==
    ASSUME RecordTypeOK, ServerTypeOK, RecordsFollow, ServerAdvances, [Next]_vars
    PROVE  RecordsFollow'
<1> USE DEF RecordTypeOK, RecordsFollow, ServerAdvances, Renditions
<1>1. CASE UNCHANGED recordVars
  BY <1>1 DEF recordVars
<1>2. CASE SignInAgain
  BY <1>2 DEF SignInAgain
<1>3. ASSUME NEW i \in Items, Register(i)
      PROVE  RecordsFollow'
  BY <1>3 DEF Register, RegisterOnServer, VerifiedOnServer, DerivativeFrame, Terminal
<1>4. ASSUME NEW i \in Items, RegisterFails(i)
      PROVE  RecordsFollow'
  <2>1. \/ registered' = registered
        \/ registered' = [registered EXCEPT ![i] = {v \in Variants : sDer[<<i, v>>] = "verified"}]
    BY <1>4 DEF RegisterFails, RegisterOnServer, VerifiedOnServer
  <2> QED
    BY <2>1 DEF Terminal
<1>5. ASSUME NEW i \in Items, ReportDerivative(i)
      PROVE  RecordsFollow'
  BY <1>5 DEF ReportDerivative, DerivativeFrame, CountDerivativeFailure
<1>6. ASSUME NEW i \in Items, ReportAnalysis(i)
      PROVE  RecordsFollow'
  BY <1>6 DEF ReportAnalysis, FaceFrame
<1> QED
  BY RecordSteps, <1>1, <1>2, <1>3, <1>4, <1>5, <1>6

-----------------------------------------------------------------------------
(* A runner that ends well has seen to its part.                           *)

\* A runner ends without an error and without a pause only when its part is complete
\* in the checkpoint.
LEMMA EndSteps ==
    ASSUME RunTypeOK, [Next]_vars, outcome' = "running", ~Halted',
           NEW q \in Runners, at'[q] = "ended"
    PROVE  \/ outcome = "running" /\ ~Halted /\ at[q] = "ended"
           \/ q = "originals" /\ Settled
           \/ q \in Stages /\ Complete(q)
<1> DEFINE Was == outcome = "running" /\ ~Halted /\ at[q] = "ended"
           Goal == Was \/ (q = "originals" /\ Settled) \/ (q \in Stages /\ Complete(q))
<1> USE DEF RunTypeOK, Halted
<1> HIDE DEF Goal
<1>1. CASE UNCHANGED runVars
  BY <1>1 DEF runVars, Goal
<1>2. ASSUME NEW r \in Runners, Ask(r)
      PROVE  Goal
  BY <1>2 DEF Ask, End, Return, Raise, GoTo, Goal
<1>3. ASSUME NEW r \in Runners, Apply(r)
      PROVE  Goal
  BY <1>3 DEF Apply, GoTo, Goal
<1>4. ASSUME NEW r \in Runners, Look(r)
      PROVE  Goal
  BY <1>4 DEF Look, GoTo, Goal
<1>5. ASSUME NEW r \in Runners, Check(r)
      PROVE  Goal
  BY <1>5 DEF Check, End, Return, Raise, GoTo, Goal
<1>6. ASSUME NEW r \in Runners, Wake(r)
      PROVE  Goal
  BY <1>6 DEF Wake, Goal
<1>7. ASSUME NEW r \in Runners, EndWave(r)
      PROVE  Goal
  BY <1>7 DEF EndWave, GoTo, Raise, End, Goal
<1>8. CASE LookOriginals
  BY <1>8 DEF LookOriginals, End, Return, Raise, Goal
<1>9. CASE LeaseOriginals
  BY <1>9 DEF LeaseOriginals, GoTo, Goal
<1>10. CASE LeaseFails
  BY <1>10 DEF LeaseFails, Raise, End, Goal
<1>11. CASE EndTransfers
  BY <1>11 DEF EndTransfers, Raise, End, Goal
<1>12. CASE Join
  BY <1>12 DEF Join, ForgetRun, Goal
<1>13. CASE StartUpload
  BY <1>13 DEF StartUpload, Goal
<1>14. CASE ReservationIsLost
  BY <1>14 DEF ReservationIsLost, Goal
<1>15. CASE Pause
  BY <1>15 DEF Pause, Goal
<1>16. CASE Crash
  BY <1>16 DEF Crash, ForgetRun, Goal
<1>17. ASSUME NEW i \in Items, Delivered(i)
      PROVE  Goal
  BY <1>17 DEF Delivered, Goal
<1>18. ASSUME NEW i \in Items, Rejected(i)
      PROVE  Goal
  BY <1>18 DEF Rejected, TransferFailed, Goal
<1>19. ASSUME NEW i \in Items, RegisterFails(i)
      PROVE  Goal
  BY <1>19 DEF RegisterFails, DerivativeFails, DerivativeFrame, Goal
<1>20. ASSUME NEW i \in Items, LeaseDerivatives(i)
      PROVE  Goal
  BY <1>20 DEF LeaseDerivatives, DerivativeFails, DerivativeFrame, Goal
<1>21. ASSUME NEW i \in Items, PutFails(i)
      PROVE  Goal
  BY <1>21 DEF PutFails, DerivativeFails, DerivativeFrame, Goal
<1>22. ASSUME NEW i \in Items, ReportDerivative(i)
      PROVE  Goal
  BY <1>22 DEF ReportDerivative, DerivativeFrame, Goal
<1>23. ASSUME NEW i \in Items, AnalysisFails(i)
      PROVE  Goal
  BY <1>23 DEF AnalysisFails, FaceFrame, Goal
<1>24. ASSUME NEW i \in Items, ReportAnalysis(i)
      PROVE  Goal
  BY <1>24 DEF ReportAnalysis, FaceFrame, Goal
<1> QED
  BY RunSteps, <1>1, <1>2, <1>3, <1>4, <1>5, <1>6, <1>7, <1>8, <1>9, <1>10, <1>11,
     <1>12, <1>13, <1>14, <1>15, <1>16, <1>17, <1>18, <1>19, <1>20, <1>21, <1>22,
     <1>23, <1>24 DEF Goal

\* What it has seen to stays so while the others go on.
LEMMA EndedStep ==
    ASSUME RunTypeOK, CheckpointTypeOK, ServerTypeOK, ServerInv, ServerInv', CheckpointFollows,
           EndedIsSeenTo, ServerAdvances, [Next]_vars
    PROVE  EndedIsSeenTo'
<1> SUFFICES ASSUME outcome' = "running", ~Halted', NEW q \in Runners, at'[q] = "ended"
             PROVE  SeenTo(q)'
  BY DEF EndedIsSeenTo
<1>1. SeenTo(q)
  <2>1. CASE outcome = "running" /\ ~Halted /\ at[q] = "ended"
    BY <2>1 DEF EndedIsSeenTo
  <2>2. CASE q = "originals" /\ Settled
    BY <2>2 DEF SeenTo, Settled, CheckpointFollows, OriginalFollows, Terminal
  <2>3. CASE q \in Stages /\ Complete(q)
    <3>1. CASE q = "derivatives"
      BY <2>3, <3>1 DEF SeenTo, Complete, DerivativesComplete, CheckpointFollows,
                        DerivativeFollows, Terminal
    <3>2. CASE q = "faces"
      BY <2>3, <3>2 DEF SeenTo, Complete, FacesComplete, CheckpointFollows, FaceFollows,
                        FaceTerminal, ServerInv, Gone
    <3> QED
      BY <2>3, <3>1, <3>2, WorkstationConstants
  <2> QED
    BY <2>1, <2>2, <2>3, EndSteps
<1> QED
  BY <1>1 DEF SeenTo, ServerAdvances, ServerInv, Gone, Renditions

-----------------------------------------------------------------------------
(* The invariant and what follows from it.                                 *)

Inv == TypeInv /\ ServerInv /\ FollowInv

LEMMA InvInit == Init => Inv
<1> SUFFICES ASSUME Init
             PROVE  Inv
  OBVIOUS
<1>1. TypeInv
  BY TypeInit
<1>2. ServerInv
  BY DEF Init, ServerInv, EventClosed
<1>3. CheckpointFollows /\ DescriptionsFollow /\ RecordsFollow /\ EndedIsSeenTo
  BY DEF Init, CheckpointFollows, OriginalFollows, DerivativeFollows, FaceFollows,
         DescriptionsFollow, RecordsFollow, EndedIsSeenTo, Renditions
<1> QED
  BY <1>1, <1>2, <1>3 DEF Inv, FollowInv

\* The invariant is inductive.
LEMMA InvStep ==
    ASSUME Inv, [Next]_vars
    PROVE  Inv' /\ ServerAdvances
<1> USE DEF Inv, FollowInv
<1>1. TypeInv'
  BY TypeStep
<1>2. ServerInv' /\ ServerAdvances
  BY ServerInvStep, ServerAdvancesStep DEF TypeInv, WorkstationTypeOK
<1>3. CheckpointFollows'
  BY <1>2, CheckpointFollowsStep DEF TypeInv, WorkstationTypeOK
<1>4. DescriptionsFollow' /\ RecordsFollow'
  BY <1>2, DescriptionsFollowStep, RecordsFollowStep DEF TypeInv, WorkstationTypeOK
<1>5. EndedIsSeenTo'
  BY <1>2, EndedStep DEF TypeInv, WorkstationTypeOK
<1> QED
  BY <1>1, <1>2, <1>3, <1>4, <1>5

\* The invariant holds of every behaviour.
LEMMA InvAlways == Spec => []Inv
<1>1. Inv /\ [Next]_vars => Inv'
  BY InvStep
<1> QED
  BY InvInit, <1>1, PTL DEF Spec

\* The checkpoint file calls nothing verified or done that the server has not got,
\* unless the photographer has dropped it: whatever descriptions of the batch are
\* written over it late, and whatever answers are replayed or lost.
THEOREM LocalFollowsServerAlways == Spec => []LocalFollowsServer
<1>1. Inv => LocalFollowsServer
  BY DEF Inv, FollowInv, CheckpointFollows, OriginalFollows, DerivativeFollows, FaceFollows,
         LocalFollowsServer
<1> QED
  BY InvAlways, <1>1, PTL

\* A run is done when its runners have joined, and at no other time.
LEMMA DoneSteps ==
    ASSUME [Next]_vars, outcome = "running", outcome' = "done"
    PROVE  Join
  BY RunSteps
  DEF runVars, Ask, Apply, Look, Check, Wake, EndWave, LookOriginals,
      LeaseOriginals, LeaseFails, EndTransfers, StartUpload, ReservationIsLost,
      Pause, Crash, Delivered, Rejected, RegisterFails, LeaseDerivatives, PutFails,
      ReportDerivative, AnalysisFails, ReportAnalysis, ForgetRun, TransferFailed,
      DerivativeFrame, FaceFrame

\* A run of upload() that ends as done has delivered everything that is owed,
\* however its runners, their waits and their synchronisations are interleaved.
THEOREM DoneIsDeliveredAlways == Spec => DoneIsDelivered
<1>1. ASSUME Inv, [Next]_vars, outcome = "running", outcome' = "done"
      PROVE  EverythingDelivered
  <2>1. Join /\ ~Halted
    BY <1>1, DoneSteps DEF Join, Halted
  <2>2. \A r \in Runners : SeenTo(r)
    BY <1>1, <2>1 DEF Join, Inv, FollowInv, EndedIsSeenTo
  <2>3. \A i \in Items : sOrig[i] \in Terminal
    BY <2>2 DEF Runners, SeenTo
  <2>4. ASSUME NEW i \in Items, sOrig[i] = "verified", i \notin hidden, "derivatives" \in Stages,
               NEW v \in Variants
        PROVE  sDer[<<i, v>>] = "verified"
    <3>1. <<i, v>> \in Renditions /\ ~Gone(i)
      BY <2>4 DEF Renditions, Gone
    <3>2. sDer[<<i, v>>] \in Terminal
      BY <2>2, <2>4, <3>1 DEF Runners, SeenTo
    <3>3. sDer[<<i, v>>] # "excluded"
      BY <1>1, <2>4, <3>1 DEF Inv, ServerInv
    <3> QED
      BY <3>2, <3>3 DEF Terminal
  <2>5. ASSUME NEW i \in Items, sOrig[i] = "verified", i \notin hidden, "faces" \in Stages
        PROVE  sFace[i] = "done"
    BY <2>2, <2>5 DEF Runners, SeenTo, Gone
  <2> QED
    BY <2>3, <2>4, <2>5 DEF EverythingDelivered
<1>2. Inv /\ [Next]_vars => [outcome = "running" /\ outcome' = "done" => EverythingDelivered]_vars
  BY <1>1
<1> QED
  BY InvAlways, <1>2, PTL DEF Spec, DoneIsDelivered

=============================================================================
