--------------------------- MODULE LifecycleProofs ---------------------------
(***************************************************************************)
(* Proofs about EventLifecycle for every number of generations, with and   *)
(* without the admin change form and the internal controls.                *)
(*                                                                         *)
(* PublishedHasSnapshot is not inductive: what makes an event publishable  *)
(* by the service transition, or published again by a stale form, is that  *)
(* a row with a current manifest is closed and committed, and that a mark  *)
(* names the generation of a current manifest.  The invariant says this of *)
(* the row and of the copy a form holds alike (RowConsistent).             *)
(***************************************************************************)
EXTENDS EventLifecycle, TLAPS

\* What one version of the row says is backed by the committed manifests.
RowConsistent(r) ==
    /\ r.current # None => /\ r.current = r.generation
                           /\ r.intake = "closed"
                           /\ manifest[r.generation] = "committed"
    /\ r.derivReady # None => r.derivReady = r.generation /\ r.current = r.generation
    /\ r.faceReady # None => r.faceReady = r.generation /\ r.current = r.generation
    /\ r.state = "published" => r.current = r.generation

LifecycleInv ==
    /\ LifecycleTypeOK
    /\ RowConsistent(Row)
    /\ form # NoForm => RowConsistent(form)
    /\ state = "published" => expiry # "unset"

-----------------------------------------------------------------------------
\* The version of the row an action writes is typed and consistent with the
\* manifests it leaves; the theorems follow from this and a few frame facts.
CommitsStay == \A g \in Generations : manifest[g] = "committed" => manifest'[g] = "committed"

\* The generations are positive naturals, so that None is not one of them.
LEMMA GenerationFacts ==
    /\ None \notin Generations
    /\ 1 \in Generations
    /\ \A g \in Generations : g < MaxGeneration => g + 1 \in Generations
BY LifecycleConstants DEF Generations, None

\* The event row starts typed and consistent.
LEMMA LifecycleInitOK == LifecycleInit => LifecycleInv
BY GenerationFacts DEF LifecycleInit, LifecycleInv, LifecycleTypeOK, RowConsistent, Row,
                       NoForm, EventStates, None

\* Every command keeps the types.
LEMMA LifecycleTypeStep ==
    ASSUME LifecycleTypeOK, [LifecycleNext]_lifecycleVars
    PROVE  LifecycleTypeOK'
<1> USE GenerationFacts DEF LifecycleTypeOK, EventStates, dates
<1>1. CASE Contribute
  BY <1>1 DEF Contribute
<1>2. CASE CloseIntake
  BY <1>2 DEF CloseIntake
<1>3. CASE ReopenIntake \/ Unpublish
  BY <1>3 DEF ReopenIntake, Unpublish, OpenNextGeneration
<1>4. CASE PrepareManifest
  BY <1>4 DEF PrepareManifest
<1>5. ASSUME NEW g \in Generations, CommitManifest(g)
      PROVE  LifecycleTypeOK'
  BY <1>5 DEF CommitManifest
<1>6. ASSUME NEW g \in Generations, AbandonFinalize(g)
      PROVE  LifecycleTypeOK'
  BY <1>6 DEF AbandonFinalize
<1>7. ASSUME NEW ready \in BOOLEAN, RefreshDerivatives(ready) \/ RefreshFaces(ready)
      PROVE  LifecycleTypeOK'
  BY <1>7 DEF RefreshDerivatives, RefreshFaces, StateForReadiness
<1>8. CASE ForgetReadiness
  BY <1>8 DEF ForgetReadiness, StateForReadiness
<1>9. CASE Publish
  BY <1>9 DEF Publish
<1>10. ASSUME NEW target \in EventStates, ManualTransition(target)
       PROVE  LifecycleTypeOK'
  BY <1>10 DEF ManualTransition
<1>11. CASE LoadForm
  BY <1>11 DEF LoadForm, Row, Rows
<1>12. CASE SaveForm
  BY <1>12 DEF SaveForm, Rows
<1>13. CASE ExpiryPasses
  BY <1>13 DEF ExpiryPasses
<1>14. CASE UNCHANGED lifecycleVars
  BY <1>14 DEF lifecycleVars
<1> QED
  BY <1>1, <1>2, <1>3, <1>4, <1>5, <1>6, <1>7, <1>8, <1>9, <1>10, <1>11, <1>12, <1>13,
     <1>14 DEF LifecycleNext

\* No command takes a committed manifest back.
LEMMA CommitsStayStep ==
    ASSUME LifecycleTypeOK, [LifecycleNext]_lifecycleVars
    PROVE  CommitsStay
<1> USE DEF LifecycleTypeOK, CommitsStay, dates
<1>1. CASE Contribute \/ CloseIntake \/ ReopenIntake \/ Unpublish
  BY <1>1 DEF Contribute, CloseIntake, ReopenIntake, Unpublish, OpenNextGeneration
<1>2. CASE PrepareManifest
  BY <1>2 DEF PrepareManifest
<1>3. ASSUME NEW g \in Generations, CommitManifest(g) \/ AbandonFinalize(g)
      PROVE  CommitsStay
  BY <1>3 DEF CommitManifest, AbandonFinalize
<1>4. ASSUME NEW ready \in BOOLEAN, RefreshDerivatives(ready) \/ RefreshFaces(ready)
      PROVE  CommitsStay
  BY <1>4 DEF RefreshDerivatives, RefreshFaces
<1>5. CASE ForgetReadiness \/ LoadForm \/ SaveForm \/ ExpiryPasses
  BY <1>5 DEF ForgetReadiness, LoadForm, SaveForm, ExpiryPasses
<1>6. CASE Publish
  BY <1>6 DEF Publish
<1>7. ASSUME NEW target \in EventStates, ManualTransition(target)
      PROVE  CommitsStay
  BY <1>7 DEF ManualTransition
<1>8. CASE UNCHANGED lifecycleVars
  BY <1>8 DEF lifecycleVars
<1> QED
  BY <1>1, <1>2, <1>3, <1>4, <1>5, <1>6, <1>7, <1>8 DEF LifecycleNext

\* Every command leaves the row consistent with the manifests.
LEMMA RowStep ==
    ASSUME LifecycleInv, [LifecycleNext]_lifecycleVars
    PROVE  RowConsistent(Row)'
<1> USE GenerationFacts
    DEF LifecycleInv, LifecycleTypeOK, RowConsistent, Row, EventStates, dates, None
<1>1. CASE Contribute
  BY <1>1 DEF Contribute
<1>2. CASE CloseIntake
  BY <1>2 DEF CloseIntake
<1>3. CASE ReopenIntake \/ Unpublish
  BY <1>3 DEF ReopenIntake, Unpublish, OpenNextGeneration
<1>4. CASE PrepareManifest
  BY <1>4 DEF PrepareManifest
<1>5. ASSUME NEW g \in Generations, CommitManifest(g)
      PROVE  RowConsistent(Row)'
  BY <1>5 DEF CommitManifest
<1>6. ASSUME NEW g \in Generations, AbandonFinalize(g)
      PROVE  RowConsistent(Row)'
  BY <1>6 DEF AbandonFinalize
<1>7. ASSUME NEW ready \in BOOLEAN, RefreshDerivatives(ready)
      PROVE  RowConsistent(Row)'
  BY <1>7 DEF RefreshDerivatives, StateForReadiness, CurrentIsCommitted
<1>8. ASSUME NEW ready \in BOOLEAN, RefreshFaces(ready)
      PROVE  RowConsistent(Row)'
  BY <1>8 DEF RefreshFaces, CurrentIsCommitted
<1>9. CASE ForgetReadiness
  BY <1>9 DEF ForgetReadiness, StateForReadiness
<1>10. CASE Publish
  BY <1>10 DEF Publish
<1>11. ASSUME NEW target \in EventStates, ManualTransition(target)
       PROVE  RowConsistent(Row)'
  BY <1>11 DEF ManualTransition, ManualTransitionAllowed, CurrentIsCommitted
<1>12. CASE LoadForm \/ ExpiryPasses
  BY <1>12 DEF LoadForm, ExpiryPasses
<1>13. CASE SaveForm
  BY <1>13 DEF SaveForm, Rows, NoForm
<1>14. CASE UNCHANGED lifecycleVars
  BY <1>14 DEF lifecycleVars
<1> QED
  BY <1>1, <1>2, <1>3, <1>4, <1>5, <1>6, <1>7, <1>8, <1>9, <1>10, <1>11, <1>12, <1>13,
     <1>14 DEF LifecycleNext

\* A loaded form stays consistent however long it is left open, because the
\* manifests it relies on stay committed.
LEMMA FormStep ==
    ASSUME LifecycleInv, [LifecycleNext]_lifecycleVars, form' # NoForm
    PROVE  RowConsistent(form)'
<1>1. CASE LoadForm
  <2>1. form' = Row /\ manifest' = manifest
    BY <1>1 DEF LoadForm
  <2> QED
    BY <2>1 DEF LifecycleInv, RowConsistent, Row
<1>2. CASE form' = form
  <2>1. form \in Rows /\ RowConsistent(form)
    BY <1>2 DEF LifecycleInv, LifecycleTypeOK
  <2>2. form.current # None => manifest'[form.generation] = "committed"
    BY <2>1, CommitsStayStep DEF LifecycleInv, RowConsistent, CommitsStay, Rows
  <2> QED
    BY <1>2, <2>1, <2>2 DEF RowConsistent
<1>3. LoadForm \/ SaveForm \/ form' = form
  BY DEF LifecycleNext, lifecycleVars, Contribute, CloseIntake, ReopenIntake, Unpublish,
         OpenNextGeneration, PrepareManifest, CommitManifest, AbandonFinalize,
         RefreshDerivatives, RefreshFaces, ForgetReadiness, Publish, ManualTransition,
         ExpiryPasses
<1> QED
  BY <1>1, <1>2, <1>3 DEF SaveForm

\* A published event keeps an expiry date: only a form clears it, and the
\* table refuses that for a published event.
LEMMA ExpiryStep ==
    ASSUME LifecycleInv, [LifecycleNext]_lifecycleVars, state' = "published"
    PROVE  expiry' # "unset"
<1> USE DEF LifecycleInv, LifecycleTypeOK, dates
<1>1. CASE SaveForm
  BY <1>1 DEF SaveForm
<1>2. CASE Publish
  BY <1>2 DEF Publish
<1>3. ASSUME NEW target \in EventStates, ManualTransition(target)
      PROVE  expiry' # "unset"
  <2>1. CASE target = "published"
    BY <1>3, <2>1 DEF ManualTransition, ManualTransitionAllowed
  <2> QED
    BY <1>3, <2>1 DEF ManualTransition
<1>4. CASE ExpiryPasses
  BY <1>4 DEF ExpiryPasses
<1>5. CASE expiry' = expiry /\ state = "published"
  BY <1>5
<1>6. \/ SaveForm \/ Publish \/ ExpiryPasses
      \/ \E target \in EventStates : ManualTransition(target)
      \/ expiry' = expiry /\ state = "published"
  BY DEF LifecycleNext, lifecycleVars, Contribute, CloseIntake, ReopenIntake, Unpublish,
         OpenNextGeneration, PrepareManifest, CommitManifest, AbandonFinalize,
         RefreshDerivatives, RefreshFaces, ForgetReadiness, LoadForm, StateForReadiness
<1> QED
  BY <1>1, <1>2, <1>3, <1>4, <1>5, <1>6

\* The invariant holds of the event row for ever.
THEOREM LifecycleInvariant == LifecycleSpec => []LifecycleInv
<1>1. LifecycleInv /\ [LifecycleNext]_lifecycleVars => LifecycleInv'
  BY LifecycleTypeStep, RowStep, FormStep, ExpiryStep DEF LifecycleInv
<1> QED
  BY LifecycleInitOK, <1>1, PTL DEF LifecycleSpec

\* The event row is typed whatever commands and forms are interleaved.
THEOREM LifecycleTypes == LifecycleSpec => []LifecycleTypeOK
<1>1. LifecycleInv => LifecycleTypeOK
  BY DEF LifecycleInv
<1> QED
  BY LifecycleInvariant, <1>1, PTL

\* An event the public can see has its intake closed and serves the committed
\* manifest of its own generation, an old admin form notwithstanding.
THEOREM PublishedHasSnapshotAlways == LifecycleSpec => []PublishedHasSnapshot
<1>1. LifecycleInv => PublishedHasSnapshot
  BY GenerationFacts
     DEF LifecycleInv, LifecycleTypeOK, RowConsistent, Row, PublishedHasSnapshot
<1> QED
  BY LifecycleInvariant, <1>1, PTL

\* No readiness mark outlives its generation, an old admin form notwithstanding.
THEOREM ReadinessIsCurrentAlways == LifecycleSpec => []ReadinessIsCurrent
<1>1. LifecycleInv => ReadinessIsCurrent
  BY GenerationFacts
     DEF LifecycleInv, LifecycleTypeOK, RowConsistent, Row, ReadinessIsCurrent
<1> QED
  BY LifecycleInvariant, <1>1, PTL

-----------------------------------------------------------------------------
(* Without the admin change form the generation only grows, and nothing is *)
(* known of the generations to come; then a committed generation is the     *)
(* current one.                                                             *)

NoForms == AdminForms = FALSE

GenerationInv ==
    /\ form = NoForm
    /\ \A g \in Generations : g > generation => manifest[g] = "none"
    /\ finalizing \subseteq 1..generation
    /\ CommittedIsCurrent

\* Where no form is loaded none is saved.
LEMMA NoFormStep ==
    ASSUME NoForms, form = NoForm, [LifecycleNext]_lifecycleVars
    PROVE  form' = NoForm /\ ~SaveForm
BY DEF NoForms, LifecycleNext, lifecycleVars, Contribute, CloseIntake, ReopenIntake, Unpublish,
       OpenNextGeneration, PrepareManifest, CommitManifest, AbandonFinalize,
       RefreshDerivatives, RefreshFaces, ForgetReadiness, Publish, ManualTransition,
       LoadForm, SaveForm, ExpiryPasses

\* The generation moves by the one step reopening and unpublishing share.
LEMMA GenerationStep ==
    ASSUME LifecycleTypeOK, NoForms, form = NoForm, [LifecycleNext]_lifecycleVars
    PROVE  \/ OpenNextGeneration
           \/ generation' = generation
BY NoFormStep DEF LifecycleNext, lifecycleVars, Contribute, CloseIntake, ReopenIntake, Unpublish,
       PrepareManifest, CommitManifest, AbandonFinalize,
       RefreshDerivatives, RefreshFaces, ForgetReadiness, Publish, ManualTransition,
       LoadForm, ExpiryPasses

\* Every command keeps what is known of later generations.
LEMMA GenerationInvStep ==
    ASSUME NoForms, LifecycleTypeOK, GenerationInv, [LifecycleNext]_lifecycleVars
    PROVE  GenerationInv'
<1> USE NoFormStep, GenerationFacts
    DEF LifecycleTypeOK, GenerationInv, CommittedIsCurrent, Generations, dates
<1>1. CASE OpenNextGeneration
  BY <1>1 DEF OpenNextGeneration
<1>2. CASE PrepareManifest
  BY <1>2 DEF PrepareManifest
<1>3. ASSUME NEW g \in Generations, CommitManifest(g)
      PROVE  GenerationInv'
  BY <1>3 DEF CommitManifest
<1>4. CASE Publish
  BY <1>4 DEF Publish
<1>5. CASE /\ UNCHANGED <<generation, manifest, current>>
           /\ finalizing' \subseteq finalizing
  BY <1>5
<1>6. \/ OpenNextGeneration
      \/ PrepareManifest
      \/ \E g \in Generations : CommitManifest(g)
      \/ Publish
      \/ UNCHANGED <<generation, manifest, current>> /\ finalizing' \subseteq finalizing
  BY DEF LifecycleNext, lifecycleVars, Contribute, CloseIntake, ReopenIntake, Unpublish,
         AbandonFinalize, RefreshDerivatives, RefreshFaces, ForgetReadiness,
         ManualTransition, LoadForm, ExpiryPasses
<1> QED
  BY <1>1, <1>2, <1>3, <1>4, <1>5, <1>6

\* Without the admin form an event never holds a committed manifest of its own
\* generation that is not its current one.
THEOREM CommittedIsCurrentAlways ==
    ASSUME NoForms
    PROVE  LifecycleSpec => []CommittedIsCurrent
<1>1. LifecycleInit => GenerationInv
  BY GenerationFacts DEF LifecycleInit, GenerationInv, CommittedIsCurrent
<1>2. LifecycleTypeOK /\ GenerationInv /\ [LifecycleNext]_lifecycleVars => GenerationInv'
  BY GenerationInvStep
<1>3. GenerationInv => CommittedIsCurrent
  BY DEF GenerationInv
<1> QED
  BY <1>1, <1>2, <1>3, LifecycleTypes, PTL DEF LifecycleSpec

\* The admin change form is the only command that takes a generation back.
THEOREM OnlyFormsTakeGenerationsBack ==
    ASSUME NoForms
    PROVE  LifecycleSpec => GenerationIsMonotone
<1>1. LifecycleInit => form = NoForm
  BY DEF LifecycleInit
<1>2. form = NoForm /\ [LifecycleNext]_lifecycleVars => (form = NoForm)'
  BY NoFormStep
<1>3. LifecycleTypeOK /\ form = NoForm /\ [LifecycleNext]_lifecycleVars
        => [generation' >= generation]_lifecycleVars
  BY GenerationStep DEF LifecycleTypeOK, Generations, OpenNextGeneration
<1> QED
  BY <1>1, <1>2, <1>3, LifecycleTypes, PTL DEF LifecycleSpec, GenerationIsMonotone

=============================================================================
