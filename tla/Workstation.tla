---------------------------- MODULE Workstation ----------------------------
(***************************************************************************)
(* One contribution on the desktop workstation that uploads it: a pipeline *)
(* of three threads (originals, derivatives, faces), each with a pool of   *)
(* workers, over one SQLite checkpoint file, against a server that answers *)
(* from its own rows and replays what it answered under the same           *)
(* idempotency key before.                                                 *)
(*                                                                         *)
(* A request to the server is one step, together with the mark its answer  *)
(* leaves in the checkpoint; a request whose answer is lost is committed   *)
(* without the mark.  A description of the contribution is fetched in one  *)
(* step and written over the checkpoints, row by row in the code, in       *)
(* another.  What happens between steps is left to the interleaving.       *)
(*                                                                         *)
(* The server is what the requests of a workstation can see of Ingestion:  *)
(* one contribution, whose event may be published without it.              *)
(***************************************************************************)
EXTENDS Naturals, FiniteSets

CONSTANTS
    Items,          \* the accepted originals of the contribution
    MaxTries,       \* _MAX_UPLOAD_ATTEMPTS, and the server's cap on analyses
    TransferLimit,  \* concurrent transfers of originals
    Stages,         \* the runners of an instance next to the one of the originals
    Faults,         \* what can go wrong with single pieces of work: "transfer",
                    \* "source", "derive", "face"; bounded by MaxTries alone
    MaxOutages,     \* bound on unreachable servers, pauses, crashes, sign-ins
                    \* and resets of analyses
    Interventions,  \* what the photographer may do meanwhile: "publish",
                    \* "exclude", "hide", "reset"
    NoAnswer        \* a model value: no answer recorded, no description in hand

ASSUME WorkstationConstants ==
    /\ IsFiniteSet(Items)
    /\ Items # {}
    /\ MaxTries \in Nat \ {0}
    /\ TransferLimit \in Nat \ {0}
    /\ Stages \subseteq {"derivatives", "faces"}
    /\ Faults \subseteq {"transfer", "source", "derive", "face"}
    /\ MaxOutages \in Nat
    /\ Interventions \subseteq {"publish", "exclude", "hide", "reset"}

Runners == {"originals"} \cup Stages
Variants == {"preview", "thumbnail"}
Renditions == Items \X Variants

Terminal == {"verified", "excluded"}
FaceTerminal == {"done", "excluded"}

\* No derivative work on an item.
NoTask == [at |-> "none", want |-> {}, key |-> 0]

VARIABLES
    \* the checkpoint file
    batch,          \* batches.state from the approval on
    orig, origTries,    \* upload_checkpoints
    der, derTries,      \* derivative_checkpoints
    face, faceTries,    \* face_analysis_checkpoints
    \* the server
    sBatch,         \* ContributionBatch.state; "none" before it is reserved
    sOrig,          \* AssetObject.state of the originals
    sDer,           \* AssetObject.state of the derivatives
    sDerTries,      \* Asset.derivative_attempt_count
    sFace, sFaceTries,  \* FaceAnalysis
    hidden,         \* assets with gallery_excluded_at
    \* the answers the server has recorded for the session's keys
    registered,     \* per item, the variants the answer to register_derivatives
                    \* calls verified
    derReported,    \* per item, the attempts whose derivative failure is answered
    faceReported,   \* the same for face analyses
    \* the process
    outcome,        \* of the last run: running, done, paused, failed, crashed, or new
    at,             \* where each runner is
    answer,         \* the description of the batch a runner holds in _sync_batch
    abort,          \* the abort event: some runner has recorded an error
    paused,         \* the operator has pressed pause
    work,           \* the runners whose work_available event is set
    fatal,          \* the runners whose wave met an error that ends the run
    sending,        \* the transfer of each original: none, queued, sending
    dtask,          \* the derivative work on each item
    ftask,          \* the face work on each item: none, queued, analyse, report
    outages         \* counts against MaxOutages

checkpointVars == <<batch, orig, origTries, der, derTries, face, faceTries>>
serverVars == <<sBatch, sOrig, sDer, sDerTries, sFace, sFaceTries, hidden>>
recordVars == <<registered, derReported, faceReported>>
runVars == <<outcome, at, answer, abort, paused, work, fatal>>
taskVars == <<sending, dtask, ftask>>

vars == <<checkpointVars, serverVars, recordVars, runVars, taskVars, outages>>

-----------------------------------------------------------------------------
(* Wrong forms of definitions below, each a plausible slip in the code it   *)
(* stands for.  No specification uses them: a run is repeated with one of    *)
(* them in place of the right form to show that its property can fail.       *)

\* Offers what is unfinished, however often it was tried.
UncappedUploads == {i \in Items : orig[i] \notin Terminal}

\* Writes the server's word for a derivative into the checkpoint.
UntranslatedState(o, a) == a.der[o]

\* Counts what has failed as finished.
NoDerivativePending == \A o \in Renditions : der[o] \in Terminal \cup {"failed"}

\* Does not tell the other runners that the originals runner has ended.
NeverDone == FALSE

\* Takes a derivative the server has a row of for one the server has.
RegisteredIsVerified(o, a) == IF a.der[o] = "reserved" THEN "verified" ELSE a.der[o]

\* Keeps the attempts counted here when the server has counted fewer.
KeptFaceTries(i, a) == IF faceTries[i] > a.faceTries[i] THEN faceTries[i] ELSE a.faceTries[i]

-----------------------------------------------------------------------------
(* What the checkpoint queries and the server's queries select.            *)

Settled == \A i \in Items : orig[i] \in Terminal

PendingUploads == {i \in Items : orig[i] \notin Terminal /\ origTries[i] < MaxTries}

PendingVariants(i) == {v \in Variants : der[<<i, v>>] \notin Terminal}

\* max(checkpoint.attempt_count ...) over the variants in S.
MostTries(i, S) ==
    CHOOSE n \in {derTries[<<i, v>>] : v \in S} : \A v \in S : derTries[<<i, v>>] <= n

\* Items a stage may work on: their original is verified as far as the
\* checkpoint says, and attempts are left.
DerivativeWork ==
    {i \in Items : /\ orig[i] = "verified"
                   /\ PendingVariants(i) # {}
                   /\ MostTries(i, PendingVariants(i)) < MaxTries}

FaceWork ==
    {i \in Items : /\ orig[i] = "verified"
                   /\ face[i] \notin FaceTerminal
                   /\ faceTries[i] < MaxTries}

DerivativesComplete == \A o \in Renditions : der[o] \in Terminal
FacesComplete == \A i \in Items : face[i] \in FaceTerminal

\* The event has been published without the contribution: no lease, no
\* registration and no analysis is accepted.
EventClosed == sBatch = "not_included"

\* abort is set, or the operator has pressed pause.
Halted == abort \/ paused

\* upload_done is set when the originals runner ends.
UploadDone == at["originals"] = "ended"

\* What GET .../batches/<id>/ answers.
View == [batch |-> sBatch, orig |-> sOrig, der |-> sDer, derTries |-> sDerTries,
         face |-> sFace, faceTries |-> sFaceTries, hidden |-> hidden]

\* _refresh_batch_upload_state, once some original is marked terminal.
BatchAfter(uploads) ==
    IF batch = "not_included" THEN batch
    ELSE IF \A i \in Items : uploads[i] \in Terminal THEN "complete" ELSE "uploading"

\* _complete_batch_if_terminal on the server.
ServerBatchAfter(uploads) ==
    IF sBatch = "reserved" /\ \A i \in Items : uploads[i] \in Terminal
    THEN "complete" ELSE sBatch

\* The server cannot be reached, or the process is stopped.
Outage == outages < MaxOutages /\ outages' = outages + 1

-----------------------------------------------------------------------------
Init ==
    /\ batch = "approved"
    /\ orig = [i \in Items |-> "pending"] /\ origTries = [i \in Items |-> 0]
    /\ der = [o \in Renditions |-> "pending"] /\ derTries = [o \in Renditions |-> 0]
    /\ face = [i \in Items |-> "pending"] /\ faceTries = [i \in Items |-> 0]
    /\ sBatch = "none"
    /\ sOrig = [i \in Items |-> "absent"]
    /\ sDer = [o \in Renditions |-> "absent"] /\ sDerTries = [i \in Items |-> 0]
    /\ sFace = [i \in Items |-> "pending"] /\ sFaceTries = [i \in Items |-> 0]
    /\ hidden = {}
    /\ registered = [i \in Items |-> NoAnswer]
    /\ derReported = [i \in Items |-> {}] /\ faceReported = [i \in Items |-> {}]
    /\ outcome = "new"
    /\ at = [r \in Runners |-> "ended"]
    /\ answer = [r \in Runners |-> NoAnswer]
    /\ abort = FALSE /\ paused = FALSE
    /\ work = {} /\ fatal = {}
    /\ sending = [i \in Items |-> "none"]
    /\ dtask = [i \in Items |-> NoTask]
    /\ ftask = [i \in Items |-> "none"]
    /\ outages = 0

-----------------------------------------------------------------------------
(* The run: reservation, the three threads, and their end.                 *)

ReserveOnServer ==
    IF sBatch = "none"
    THEN sBatch' = "reserved" /\ sOrig' = [i \in Items |-> "reserved"]
    ELSE UNCHANGED <<sBatch, sOrig>>

\* upload(): the contribution is reserved if it is only approved, and the
\* three runners start.
StartUpload ==
    /\ outcome # "running"
    /\ batch # "not_included"
    /\ IF batch = "approved"
       THEN ReserveOnServer /\ batch' = "reserved"
       ELSE UNCHANGED <<sBatch, sOrig, batch>>
    /\ outcome' = "running"
    /\ at' = [r \in Runners |-> "ask"]
    /\ UNCHANGED <<orig, origTries, der, derTries, face, faceTries, sDer, sDerTries,
                   sFace, sFaceTries, hidden, recordVars, answer, abort, paused, work,
                   fatal, taskVars, outages>>

\* The reservation was committed and its answer lost; upload() raises.
ReservationIsLost ==
    /\ outcome # "running"
    /\ batch = "approved"
    /\ Outage
    /\ ReserveOnServer
    /\ outcome' = "failed"
    /\ UNCHANGED <<checkpointVars, sDer, sDerTries, sFace, sFaceTries, hidden, recordVars,
                   at, answer, abort, paused, work, fatal, taskVars>>

Pause ==
    /\ outcome = "running"
    /\ ~paused
    /\ Outage
    /\ paused' = TRUE
    /\ UNCHANGED <<checkpointVars, serverVars, recordVars, outcome, at, answer, abort,
                   work, fatal, taskVars>>

\* The process forgets its threads and events.
ForgetRun ==
    /\ at' = [r \in Runners |-> "ended"]
    /\ answer' = [r \in Runners |-> NoAnswer]
    /\ abort' = FALSE /\ paused' = FALSE
    /\ work' = {} /\ fatal' = {}
    /\ sending' = [i \in Items |-> "none"]
    /\ dtask' = [i \in Items |-> NoTask]
    /\ ftask' = [i \in Items |-> "none"]

\* The runners have joined.
Join ==
    /\ outcome = "running"
    /\ \A r \in Runners : at[r] = "ended"
    /\ outcome' = IF abort THEN "failed" ELSE IF paused THEN "paused" ELSE "done"
    /\ ForgetRun
    /\ UNCHANGED <<checkpointVars, serverVars, recordVars, outages>>

\* The process stops; the checkpoint file and the server keep what they have.
Crash ==
    /\ outcome = "running"
    /\ Outage
    /\ outcome' = "crashed"
    /\ ForgetRun
    /\ UNCHANGED <<checkpointVars, serverVars, recordVars>>

\* A new session starts with no keys; a refreshed or resumed one keeps them.
SignInAgain ==
    /\ outcome # "running"
    /\ Outage
    /\ registered' = [i \in Items |-> NoAnswer]
    /\ derReported' = [i \in Items |-> {}] /\ faceReported' = [i \in Items |-> {}]
    /\ UNCHANGED <<checkpointVars, serverVars, runVars, taskVars>>

\* A runner returns, or records an error and halts the others.  However the
\* originals runner ends, the others are told.
End(r) ==
    /\ at' = [at EXCEPT ![r] = "ended"]
    /\ work' = IF r = "originals" THEN Stages ELSE work

Return(r) == End(r) /\ UNCHANGED abort
Raise(r)  == End(r) /\ abort' = TRUE

\* The next step of a runner that goes on.
GoTo(r, place) ==
    /\ at' = [at EXCEPT ![r] = place]
    /\ UNCHANGED <<work, abort>>

-----------------------------------------------------------------------------
(* _sync_batch, by any of the three runners.                               *)

\* The other two look at the halt first; the originals runner does not.
Ask(r) ==
    /\ at[r] = "ask"
    /\ \/ /\ r # "originals" /\ Halted
          /\ Return(r)
          /\ UNCHANGED <<answer, outages>>
       \/ /\ r = "originals" \/ ~Halted
          /\ GoTo(r, "apply")
          /\ answer' = [answer EXCEPT ![r] = View]
          /\ UNCHANGED outages
       \/ /\ r = "originals" \/ ~Halted
          /\ Outage
          /\ Raise(r)
          /\ UNCHANGED answer
    /\ UNCHANGED <<checkpointVars, serverVars, recordVars, outcome, paused, fatal, taskVars>>

\* The description is written over the checkpoints, whatever they say by now.
SyncedOriginal(i, a) == IF a.orig[i] \in {"verified", "failed", "excluded"}
                        THEN a.orig[i] ELSE orig[i]

Dropped(i, a) == a.orig[i] = "excluded" \/ i \in a.hidden

LocalState(o, a) == IF a.der[o] = "reserved" THEN "pending" ELSE a.der[o]

SyncedDerivative(o, a) ==
    IF Dropped(o[1], a) THEN "excluded"
    ELSE IF a.der[o] = "absent" THEN der[o] ELSE LocalState(o, a)

SyncedTries(o, a) ==
    IF o[1] \in a.hidden \/ a.der[o] = "absent" THEN derTries[o] ELSE a.derTries[o[1]]

SyncedFaceTries(i, a) == a.faceTries[i]

Apply(r) ==
    LET a == answer[r]
        marked == {i \in Items : \/ a.orig[i] = "verified" /\ orig[i] # "verified"
                                 \/ a.orig[i] = "excluded"}
    IN /\ at[r] = "apply"
       /\ orig' = [i \in Items |-> SyncedOriginal(i, a)]
       /\ der' = [o \in Renditions |-> SyncedDerivative(o, a)]
       /\ derTries' = [o \in Renditions |-> SyncedTries(o, a)]
       /\ face' = [i \in Items |-> IF Dropped(i, a) THEN "excluded" ELSE a.face[i]]
       /\ faceTries' = [i \in Items |-> SyncedFaceTries(i, a)]
       /\ batch' = IF a.batch = "not_included" THEN "not_included"
                   ELSE IF marked # {} THEN BatchAfter(orig') ELSE batch
       /\ GoTo(r, "look")
       /\ answer' = [answer EXCEPT ![r] = NoAnswer]
       /\ UNCHANGED <<origTries, serverVars, recordVars, outcome, paused, fatal,
                      taskVars, outages>>

-----------------------------------------------------------------------------
(* Originals.                                                              *)

\* After a synchronisation: everything is terminal, or attempts are used up,
\* or the operator pauses, or the next transfers are leased.
LookOriginals ==
    /\ at["originals"] = "look"
    /\ PendingUploads = {} \/ Halted
    /\ IF PendingUploads = {} /\ ~Settled THEN Raise("originals") ELSE Return("originals")
    /\ UNCHANGED <<checkpointVars, serverVars, recordVars, outcome, answer, paused, fatal,
                   taskVars, outages>>

\* The transfers asked for: TransferLimit of the pending ones, or all of them.
Requests == {S \in SUBSET PendingUploads :
                \/ Cardinality(S) = TransferLimit
                \/ S = PendingUploads /\ Cardinality(S) < TransferLimit}

Leases(S) == IF sBatch = "reserved" THEN {i \in S : sOrig[i] \in {"reserved", "failed"}} ELSE {}

LeaseOriginals ==
    /\ at["originals"] = "look"
    /\ PendingUploads # {} /\ ~Halted
    /\ \E S \in Requests :
          /\ Leases(S) # {}
          /\ sOrig' = [i \in Items |-> IF i \in Leases(S) THEN "reserved" ELSE sOrig[i]]
          /\ sending' = [i \in Items |-> IF i \in Leases(S) THEN "queued" ELSE "none"]
    /\ GoTo("originals", "wave")
    /\ UNCHANGED <<checkpointVars, sBatch, sDer, sDerTries, sFace, sFaceTries, hidden,
                   recordVars, outcome, answer, paused, fatal, dtask, ftask, outages>>

\* The server leases nothing, refuses because the event is published, or is
\* not reached.
LeaseFails ==
    /\ at["originals"] = "look"
    /\ PendingUploads # {} /\ ~Halted
    /\ \/ (\E S \in Requests : Leases(S) = {}) /\ UNCHANGED outages
       \/ Outage
    /\ Raise("originals")
    /\ UNCHANGED <<checkpointVars, serverVars, recordVars, outcome, answer, paused, fatal,
                   taskVars>>

\* mark_upload_started, which takes a batch marked not_included back to
\* uploading.
StartTransfer(i) ==
    /\ sending[i] = "queued"
    /\ sending' = [sending EXCEPT ![i] = "sending"]
    /\ orig' = [orig EXCEPT ![i] = "uploading"]
    /\ origTries' = [origTries EXCEPT ![i] = @ + 1]
    /\ batch' = IF batch = "complete" THEN batch ELSE "uploading"
    /\ UNCHANGED <<der, derTries, face, faceTries, serverVars, recordVars, runVars,
                   dtask, ftask, outages>>

VerifyOnServer(i) ==
    /\ sOrig' = [sOrig EXCEPT ![i] = "verified"]
    /\ sBatch' = ServerBatchAfter(sOrig')

Delivered(i) ==
    /\ sending[i] = "sending"
    /\ sOrig[i] # "excluded"
    /\ VerifyOnServer(i)
    /\ orig' = [orig EXCEPT ![i] = "verified"]
    /\ batch' = BatchAfter(orig')
    /\ work' = Stages
    /\ sending' = [sending EXCEPT ![i] = "none"]
    /\ UNCHANGED <<origTries, der, derTries, face, faceTries, sDer, sDerTries, sFace,
                   sFaceTries, hidden, recordVars, outcome, at, answer, abort, paused,
                   fatal, dtask, ftask, outages>>

TransferFailed(i) ==
    /\ sending[i] = "sending"
    /\ orig' = [orig EXCEPT ![i] = "failed"]
    /\ sending' = [sending EXCEPT ![i] = "none"]
    /\ UNCHANGED <<batch, origTries, der, derTries, face, faceTries, sDer, sDerTries, sFace,
                   sFaceTries, hidden, recordVars, outcome, at, answer, abort, paused, work,
                   dtask, ftask, outages>>

\* The PUT is interrupted, or the answer to the completion is lost; either is
\* tried again.
Interrupted(i) ==
    /\ "transfer" \in Faults
    /\ TransferFailed(i)
    /\ \/ UNCHANGED <<sOrig, sBatch>>
       \/ sOrig[i] # "excluded" /\ VerifyOnServer(i)
    /\ UNCHANGED fatal

\* The source changed, before or during the transfer, or the server refuses
\* what was uploaded, or the original is excluded by now.
Rejected(i) ==
    /\ TransferFailed(i)
    /\ \/ /\ "source" \in Faults
          /\ sOrig' \in {sOrig, [sOrig EXCEPT ![i] = IF @ = "reserved" THEN "failed" ELSE @]}
       \/ sOrig[i] = "excluded" /\ UNCHANGED sOrig
    /\ fatal' = fatal \cup {"originals"}
    /\ UNCHANGED sBatch

\* All transfers of the wave have ended.
EndTransfers ==
    /\ at["originals"] = "wave"
    /\ \A i \in Items : sending[i] = "none"
    /\ IF "originals" \in fatal
       THEN Raise("originals")
       ELSE /\ at' = [at EXCEPT !["originals"] = "ask"]
            /\ work' = Stages
            /\ UNCHANGED abort
    /\ UNCHANGED <<checkpointVars, serverVars, recordVars, outcome, answer, paused, fatal,
                   taskVars, outages>>

-----------------------------------------------------------------------------
(* The loop of the other two runners.                                      *)

WorkOf(r) == IF r = "derivatives" THEN DerivativeWork ELSE FaceWork
Complete(r) == IF r = "derivatives" THEN DerivativesComplete ELSE FacesComplete
TasksEnded(r) == IF r = "derivatives" THEN \A i \in Items : dtask[i] = NoTask
                                      ELSE \A i \in Items : ftask[i] = "none"

\* Ready items become the tasks of a wave; with none the runner goes on to
\* decide whether to stop.
Look(r) ==
    /\ r \in Stages
    /\ at[r] = "look"
    /\ GoTo(r, IF WorkOf(r) # {} THEN "wave" ELSE "check")
    /\ dtask' = [i \in Items |-> IF r = "derivatives" /\ i \in DerivativeWork
                                 THEN [at |-> "queued", want |-> PendingVariants(i), key |-> 0]
                                 ELSE dtask[i]]
    /\ ftask' = [i \in Items |-> IF r = "faces" /\ i \in FaceWork THEN "queued" ELSE ftask[i]]
    /\ UNCHANGED <<checkpointVars, serverVars, recordVars, outcome, answer, paused, fatal,
                   sending, outages>>

\* The checkpoints are read again, and the originals runner may have ended
\* since the look.
Check(r) ==
    /\ r \in Stages
    /\ at[r] = "check"
    /\ \/ Complete(r) /\ Return(r)
       \/ ~Complete(r) /\ UploadDone /\ Raise(r)
       \/ ~Complete(r) /\ ~UploadDone /\ GoTo(r, "wait")
    /\ UNCHANGED <<checkpointVars, serverVars, recordVars, outcome, answer, paused, fatal,
                   taskVars, outages>>

\* Woken, a runner synchronises; after a second of waiting it looks again
\* without.  Either way it clears the event, which may have been set meanwhile,
\* and looks at the halt first.
Wake(r) ==
    /\ r \in Stages
    /\ at[r] = "wait"
    /\ \/ r \in work /\ at' = [at EXCEPT ![r] = "ask"]
       \/ at' = [at EXCEPT ![r] = IF Halted THEN "ended" ELSE "look"]
    /\ work' = work \ {r}
    /\ UNCHANGED <<checkpointVars, serverVars, recordVars, outcome, answer, abort, paused,
                   fatal, taskVars, outages>>

EndWave(r) ==
    /\ r \in Stages
    /\ at[r] = "wave"
    /\ TasksEnded(r)
    /\ IF r \in fatal THEN Raise(r) ELSE GoTo(r, "ask")
    /\ UNCHANGED <<checkpointVars, serverVars, recordVars, outcome, answer, paused, fatal,
                   taskVars, outages>>

-----------------------------------------------------------------------------
(* Derivatives.                                                            *)

\* mark_derivative_started, for what was pending when the runner looked.
StartDerivatives(i) ==
    /\ dtask[i].at = "queued"
    /\ dtask' = [dtask EXCEPT ![i] = [at |-> "render", want |-> {}, key |-> 0]]
    /\ der' = [o \in Renditions |-> IF o[1] = i /\ o[2] \in dtask[i].want
                                    THEN "uploading" ELSE der[o]]
    /\ derTries' = [o \in Renditions |-> IF o[1] = i /\ o[2] \in dtask[i].want
                                         THEN derTries[o] + 1 ELSE derTries[o]]
    /\ UNCHANGED <<batch, orig, origTries, face, faceTries, serverVars, recordVars, runVars,
                   sending, ftask, outages>>

\* An attempt fails: what is not terminal is marked failed.  An error that ends
\* the run is not reported to the server; any other is, under the attempt.
DerivativeFails(i, ends) ==
    /\ der' = [o \in Renditions |-> IF o[1] = i /\ der[o] \notin Terminal
                                    THEN "failed" ELSE der[o]]
    /\ IF ends
       THEN /\ fatal' = fatal \cup {"derivatives"}
            /\ dtask' = [dtask EXCEPT ![i] = NoTask]
       ELSE /\ dtask' = [dtask EXCEPT ![i] = [at |-> "report", want |-> {},
                                              key |-> MostTries(i, Variants)]]
            /\ UNCHANGED fatal

\* What a step of derivative work leaves alone.
DerivativeFrame == UNCHANGED <<batch, orig, origTries, derTries, face, faceTries, sBatch, sOrig,
                               sFace, sFaceTries, hidden, faceReported, outcome, at, answer,
                               abort, paused, work, sending, ftask>>

\* The server reserves the rows of the derivatives, or refuses; a request it has
\* answered before it does not execute again.
Accepted(i) == ~EventClosed /\ sOrig[i] = "verified"

VerifiedOnServer(i) == {v \in Variants : sDer[<<i, v>>] = "verified"}

RegisterOnServer(i) ==
    IF registered[i] # NoAnswer THEN UNCHANGED <<registered, sDer>>
    ELSE /\ Accepted(i)
         /\ registered' = [registered EXCEPT ![i] = VerifiedOnServer(i)]
         /\ sDer' = [o \in Renditions |-> IF o[1] = i /\ sDer[o] = "absent"
                                          THEN "reserved" ELSE sDer[o]]

\* What the answer calls verified is marked so; the rest is wanted.
Register(i) ==
    /\ dtask[i].at = "render"
    /\ RegisterOnServer(i)
    /\ der' = [o \in Renditions |-> IF o[1] = i /\ o[2] \in registered'[i]
                                    THEN "verified" ELSE der[o]]
    /\ dtask' = [dtask EXCEPT ![i] =
                    IF registered'[i] = Variants THEN NoTask
                    ELSE [at |-> "lease", want |-> Variants \ registered'[i], key |-> 0]]
    /\ UNCHANGED <<fatal, sDerTries, derReported, outages>>
    /\ DerivativeFrame

\* The rendering fails, the server refuses, or it is not reached.
RegisterFails(i) ==
    /\ dtask[i].at = "render"
    /\ \/ /\ "derive" \in Faults
          /\ DerivativeFails(i, FALSE)
          /\ UNCHANGED <<registered, sDer, outages>>
       \/ /\ registered[i] = NoAnswer /\ ~Accepted(i)
          /\ DerivativeFails(i, TRUE)
          /\ UNCHANGED <<registered, sDer, outages>>
       \/ /\ Outage
          /\ DerivativeFails(i, TRUE)
          /\ (RegisterOnServer(i) \/ UNCHANGED <<registered, sDer>>)
    /\ UNCHANGED <<sDerTries, derReported>>
    /\ DerivativeFrame

Leasable(i, v) == sDer[<<i, v>>] \in {"reserved", "failed"}

LeaseDerivatives(i) ==
    /\ dtask[i].at = "lease"
    /\ \/ /\ ~EventClosed
          /\ IF \A v \in dtask[i].want : Leasable(i, v)
             THEN /\ dtask' = [dtask EXCEPT ![i].at = "put"]
                  /\ UNCHANGED <<der, fatal>>
             ELSE DerivativeFails(i, FALSE)
          /\ UNCHANGED outages
       \/ EventClosed /\ DerivativeFails(i, TRUE) /\ UNCHANGED outages
       \/ Outage /\ DerivativeFails(i, TRUE)
    /\ UNCHANGED <<registered, sDer, sDerTries, derReported>>
    /\ DerivativeFrame

\* Leases come ordered by variant.
NextPut(i) == IF "preview" \in dtask[i].want THEN "preview" ELSE "thumbnail"

PutDerivative(i) ==
    LET v == NextPut(i)
    IN /\ dtask[i].at = "put"
       /\ sDer' = [sDer EXCEPT ![<<i, v>>] = "verified"]
       /\ der' = [der EXCEPT ![<<i, v>>] = "verified"]
       /\ dtask' = [dtask EXCEPT ![i] = IF dtask[i].want = {v} THEN NoTask
                                        ELSE [dtask[i] EXCEPT !.want = @ \ {v}]]
       /\ UNCHANGED <<fatal, registered, sDerTries, derReported, outages>>
       /\ DerivativeFrame

\* The PUT is interrupted, or the server is not reached to complete it.
PutFails(i) ==
    /\ dtask[i].at = "put"
    /\ \/ /\ "derive" \in Faults
          /\ DerivativeFails(i, FALSE)
          /\ UNCHANGED <<sDer, outages>>
       \/ /\ Outage
          /\ DerivativeFails(i, TRUE)
          /\ sDer' \in {sDer, [sDer EXCEPT ![<<i, NextPut(i)>>] = "verified"]}
    /\ UNCHANGED <<registered, sDerTries, derReported>>
    /\ DerivativeFrame

\* A failure is counted once per attempt: a report under a key that was
\* answered before is answered from the record.
CountDerivativeFailure(i) ==
    /\ derReported' = [derReported EXCEPT ![i] = @ \cup {dtask[i].key}]
    /\ sDerTries' = IF dtask[i].key \in derReported[i] THEN sDerTries
                    ELSE [sDerTries EXCEPT ![i] = @ + 1]

ReportDerivative(i) ==
    /\ dtask[i].at = "report"
    /\ \/ CountDerivativeFailure(i) /\ UNCHANGED <<fatal, outages>>
       \/ /\ Outage
          /\ (CountDerivativeFailure(i) \/ UNCHANGED <<derReported, sDerTries>>)
          /\ fatal' = fatal \cup {"derivatives"}
    /\ dtask' = [dtask EXCEPT ![i] = NoTask]
    /\ UNCHANGED <<der, registered, sDer>>
    /\ DerivativeFrame

-----------------------------------------------------------------------------
(* Face analyses.  The engine answers the same photo with the same document, *)
(* so that a document already stored is acknowledged.                        *)

FaceFrame == UNCHANGED <<batch, orig, origTries, der, derTries, sBatch, sOrig, sDer,
                         sDerTries, hidden, registered, derReported, outcome, at, answer,
                         abort, paused, work, sending, dtask>>

StartAnalysis(i) ==
    /\ ftask[i] = "queued"
    /\ ftask' = [ftask EXCEPT ![i] = "analyse"]
    /\ face' = [face EXCEPT ![i] = "processing"]
    /\ faceTries' = [faceTries EXCEPT ![i] = @ + 1]
    /\ UNCHANGED <<sFace, sFaceTries, faceReported, fatal, outages>>
    /\ FaceFrame

\* submit_face_analysis takes the document; a stored one it acknowledges.
Analysable(i) == Accepted(i) /\ (sFace[i] = "done" \/ sFaceTries[i] < MaxTries)

StoreAnalysis(i) ==
    /\ sFace' = [sFace EXCEPT ![i] = "done"]
    /\ sFaceTries' = IF sFace[i] = "done" THEN sFaceTries ELSE [sFaceTries EXCEPT ![i] = @ + 1]

SubmitAnalysis(i) ==
    /\ ftask[i] = "analyse"
    /\ Analysable(i)
    /\ StoreAnalysis(i)
    /\ face' = [face EXCEPT ![i] = "done"]
    /\ ftask' = [ftask EXCEPT ![i] = "none"]
    /\ UNCHANGED <<faceTries, faceReported, fatal, outages>>
    /\ FaceFrame

\* The engine fails and the failure is to be reported, or the server refuses or
\* is not reached, which ends the run.
AnalysisFails(i) ==
    /\ ftask[i] = "analyse"
    /\ face' = [face EXCEPT ![i] = "failed"]
    /\ \/ /\ "face" \in Faults
          /\ ftask' = [ftask EXCEPT ![i] = "report"]
          /\ UNCHANGED <<sFace, sFaceTries, fatal, outages>>
       \/ /\ ~Analysable(i)
          /\ ftask' = [ftask EXCEPT ![i] = "none"]
          /\ fatal' = fatal \cup {"faces"}
          /\ UNCHANGED <<sFace, sFaceTries, outages>>
       \/ /\ Outage
          /\ \/ Analysable(i) /\ StoreAnalysis(i)
             \/ UNCHANGED <<sFace, sFaceTries>>
          /\ ftask' = [ftask EXCEPT ![i] = "none"]
          /\ fatal' = fatal \cup {"faces"}
    /\ UNCHANGED <<faceTries, faceReported>>
    /\ FaceFrame

\* report_face_analysis_failure, under the attempt the checkpoint now shows; an
\* analysis that is stored, or has no attempts left, stays as it is.
CountFaceFailure(i) ==
    /\ faceReported' = [faceReported EXCEPT ![i] = @ \cup {faceTries[i]}]
    /\ IF /\ faceTries[i] \notin faceReported[i]
          /\ sFace[i] # "done"
          /\ sFaceTries[i] < MaxTries
       THEN /\ sFace' = [sFace EXCEPT ![i] = "failed"]
            /\ sFaceTries' = [sFaceTries EXCEPT ![i] = @ + 1]
       ELSE UNCHANGED <<sFace, sFaceTries>>

\* A key answered before, under another failure code, is a conflict that ends
\* the run, as is a refusal.
ReportAnalysis(i) ==
    /\ ftask[i] = "report"
    /\ \/ /\ faceTries[i] \in faceReported[i] \/ Accepted(i)
          /\ CountFaceFailure(i)
          /\ UNCHANGED <<fatal, outages>>
       \/ /\ faceTries[i] \in faceReported[i] \/ ~Accepted(i)
          /\ fatal' = fatal \cup {"faces"}
          /\ UNCHANGED <<faceReported, sFace, sFaceTries, outages>>
       \/ /\ Outage
          /\ \/ Accepted(i) /\ CountFaceFailure(i)
             \/ UNCHANGED <<faceReported, sFace, sFaceTries>>
          /\ fatal' = fatal \cup {"faces"}
    /\ ftask' = [ftask EXCEPT ![i] = "none"]
    /\ UNCHANGED <<face, faceTries>>
    /\ FaceFrame

-----------------------------------------------------------------------------
(* What the photographer does meanwhile, as far as the workstation sees it. *)

InterventionFrame == UNCHANGED <<checkpointVars, recordVars, runVars, taskVars>>

\* A publication leaves the unfinished contribution out.
LeaveOut ==
    /\ "publish" \in Interventions
    /\ sBatch = "reserved"
    /\ sBatch' = "not_included"
    /\ sOrig' = [i \in Items |-> "excluded"]
    /\ sDer' = [o \in Renditions |-> IF sDer[o] = "absent" THEN "absent" ELSE "excluded"]
    /\ sFace' = [i \in Items |-> "pending"]
    /\ sFaceTries' = [i \in Items |-> 0]
    /\ UNCHANGED <<sDerTries, hidden>>
    /\ UNCHANGED outages
    /\ InterventionFrame

\* An original that has not arrived is excluded, once its lease is over.
ExcludeItem(i) ==
    /\ "exclude" \in Interventions
    /\ sOrig[i] \in {"reserved", "failed"}
    /\ sOrig' = [sOrig EXCEPT ![i] = "excluded"]
    /\ sBatch' = ServerBatchAfter(sOrig')
    /\ UNCHANGED <<sDer, sDerTries, sFace, sFaceTries, hidden>>
    /\ UNCHANGED outages
    /\ InterventionFrame

\* A photo whose processing has failed for the last time is excluded from the
\* gallery.
HideItem(i) ==
    /\ "hide" \in Interventions
    /\ ~EventClosed
    /\ i \notin hidden
    /\ sDerTries[i] >= MaxTries \/ (sFace[i] = "failed" /\ sFaceTries[i] >= MaxTries)
    /\ hidden' = hidden \cup {i}
    /\ UNCHANGED <<sBatch, sOrig, sDer, sDerTries, sFace, sFaceTries>>
    /\ UNCHANGED outages
    /\ InterventionFrame

\* reset_face_analysis, which the dashboard offers for a failed analysis; bounded
\* with the outages.
Resettable(i) == sFace[i] = "failed"

ResetFace(i) ==
    /\ "reset" \in Interventions
    /\ ~EventClosed
    /\ Resettable(i)
    /\ Outage
    /\ sFace' = [sFace EXCEPT ![i] = "pending"]
    /\ sFaceTries' = [sFaceTries EXCEPT ![i] = 0]
    /\ UNCHANGED <<sBatch, sOrig, sDer, sDerTries, hidden>>
    /\ InterventionFrame

-----------------------------------------------------------------------------
RunnerNext(r) ==
    \/ Ask(r)
    \/ Apply(r)
    \/ r = "originals" /\ (LookOriginals \/ LeaseOriginals \/ LeaseFails \/ EndTransfers)
    \/ Look(r)
    \/ Check(r)
    \/ Wake(r)
    \/ EndWave(r)

TransferNext(i) == StartTransfer(i) \/ Delivered(i) \/ Interrupted(i) \/ Rejected(i)

DerivativeNext(i) ==
    \/ StartDerivatives(i)
    \/ Register(i)
    \/ RegisterFails(i)
    \/ LeaseDerivatives(i)
    \/ PutDerivative(i)
    \/ PutFails(i)
    \/ ReportDerivative(i)

FaceNext(i) == StartAnalysis(i) \/ SubmitAnalysis(i) \/ AnalysisFails(i) \/ ReportAnalysis(i)

OperatorNext == StartUpload \/ ReservationIsLost \/ Pause \/ Crash \/ SignInAgain

PhotographerNext == LeaveOut \/ \E i \in Items : ExcludeItem(i) \/ HideItem(i) \/ ResetFace(i)

Next ==
    \/ \E r \in Runners : RunnerNext(r)
    \/ \E i \in Items : TransferNext(i) \/ DerivativeNext(i) \/ FaceNext(i)
    \/ Join
    \/ OperatorNext
    \/ PhotographerNext

Spec == Init /\ [][Next]_vars

\* The threads and the workers of a pool are scheduled; nothing says which of
\* the ways a piece of work can go it takes, and nothing makes the operator, the
\* photographer or an outage act.
Scheduling ==
    /\ WF_vars(Join)
    /\ \A r \in Runners : WF_vars(RunnerNext(r))
    /\ \A i \in Items : WF_vars(TransferNext(i)) /\ WF_vars(DerivativeNext(i))
                        /\ WF_vars(FaceNext(i))

FairSpec == Spec /\ Scheduling

\* An operator who resumes whatever has stopped.
PersistentSpec == FairSpec /\ WF_vars(StartUpload)

-----------------------------------------------------------------------------
TaskPlaces == {"none", "queued", "render", "lease", "put", "report"}

CheckpointTypeOK ==
    /\ batch \in {"approved", "reserved", "uploading", "complete", "not_included"}
    /\ orig \in [Items -> {"pending", "uploading", "failed", "verified", "excluded"}]
    /\ origTries \in [Items -> Nat]
    /\ der \in [Renditions -> {"pending", "uploading", "failed", "verified", "excluded"}]
    /\ derTries \in [Renditions -> Nat]
    /\ face \in [Items -> {"pending", "processing", "failed", "done", "excluded"}]
    /\ faceTries \in [Items -> Nat]

ServerTypeOK ==
    /\ sBatch \in {"none", "reserved", "complete", "not_included"}
    /\ sOrig \in [Items -> {"absent", "reserved", "failed", "verified", "excluded"}]
    /\ sDer \in [Renditions -> {"absent", "reserved", "verified", "excluded"}]
    /\ sDerTries \in [Items -> Nat]
    /\ sFace \in [Items -> {"pending", "failed", "done"}]
    /\ sFaceTries \in [Items -> Nat]
    /\ hidden \subseteq Items

RecordTypeOK ==
    /\ registered \in [Items -> (SUBSET Variants) \cup {NoAnswer}]
    /\ derReported \in [Items -> SUBSET Nat]
    /\ faceReported \in [Items -> SUBSET Nat]

RunTypeOK ==
    /\ outcome \in {"new", "running", "done", "paused", "failed", "crashed"}
    /\ at \in [Runners -> {"ask", "apply", "look", "wave", "check", "wait", "ended"}]
    /\ abort \in BOOLEAN
    /\ paused \in BOOLEAN
    /\ work \subseteq Stages
    /\ fatal \subseteq {"originals", "derivatives", "faces"}

TaskTypeOK ==
    /\ sending \in [Items -> {"none", "queued", "sending"}]
    /\ dtask \in [Items -> [at : TaskPlaces, want : SUBSET Variants, key : Nat]]
    /\ ftask \in [Items -> {"none", "queued", "analyse", "report"}]

WorkstationTypeOK ==
    /\ CheckpointTypeOK /\ ServerTypeOK /\ RecordTypeOK /\ RunTypeOK /\ TaskTypeOK
    /\ outages \in 0..MaxOutages

-----------------------------------------------------------------------------
(* Safety.                                                                 *)

\* Nothing is verified or done in the checkpoint that the server has not got,
\* unless the photographer has dropped it since: a description written over the
\* checkpoint late, a replayed answer and a crash between two marks included.
LocalFollowsServer ==
    /\ \A i \in Items : orig[i] = "verified" => sOrig[i] \in Terminal
    /\ \A o \in Renditions : der[o] = "verified" => sDer[o] \in Terminal
    /\ \A i \in Items : face[i] = "done" => sFace[i] = "done" \/ EventClosed

\* What a finished upload has delivered: every original has arrived or is
\* excluded, and what is kept and not hidden is processed.
EverythingDelivered ==
    /\ \A i \in Items : sOrig[i] \in Terminal
    /\ \A i \in Items : sOrig[i] = "verified" /\ i \notin hidden =>
          /\ "derivatives" \in Stages => \A v \in Variants : sDer[<<i, v>>] = "verified"
          /\ "faces" \in Stages => sFace[i] = "done"

\* A run that ends without an error or a pause has delivered everything, however
\* the three runners, their waits and the synchronisations were interleaved.
DoneIsDelivered == [][outcome = "running" /\ outcome' = "done" => EverythingDelivered]_vars

\* No original is sent more often than allowed, although its state is overwritten
\* by descriptions of the server and a crash leaves it half sent, and no analysis
\* is counted by the server more often, although failures are counted by their keys
\* and a lost answer hides what was stored.
AttemptsAreCapped ==
    \A i \in Items : origTries[i] <= MaxTries /\ sFaceTries[i] <= MaxTries

\* The same of the derivatives of a photo, of which docs/adr/0015 (38-40) says that
\* the five-attempt caps "behave exactly as in the serial pipeline".  They do not: a
\* description that another runner fetched before a failure was counted, written
\* after it, makes an exhausted photo ready again, and one fetched later puts the
\* count back before the attempt begins.
DerivativesAreCapped ==
    /\ \A o \in Renditions : derTries[o] <= MaxTries
    /\ \A i \in Items : sDerTries[i] <= MaxTries

-----------------------------------------------------------------------------
(* Liveness.                                                               *)

\* Every run ends: with success, an error or a pause.  No wake-up is missed, no
\* runner waits for one that has ended, and no item is tried for ever.
RunEnds == outcome = "running" ~> outcome # "running"

\* A failure report that is answered from the record, and not counted.
ReplayedReport ==
    \E i \in Items :
        \/ dtask[i].at = "report" /\ dtask[i].key \in derReported[i] /\ ReportDerivative(i)
        \/ ftask[i] = "report" /\ faceTries[i] \in faceReported[i] /\ ReportAnalysis(i)

\* Nothing but failures that are reported under a key used before can keep a run
\* from ending.
RunEndsUnlessReplayed == RunEnds \/ []<><<ReplayedReport>>_vars

\* An operator who keeps resuming gets a finished upload, whatever was lost on
\* the way, unless the contribution is left out or an analysis has failed for the
\* last time.
GivenUp == EventClosed \/ \E i \in Items : sFace[i] = "failed" /\ sFaceTries[i] >= MaxTries

ResumedIsDelivered ==
    \/ []<>(outcome = "done")
    \/ <>[]GivenUp
    \/ []<><<ReplayedReport>>_vars

=============================================================================
