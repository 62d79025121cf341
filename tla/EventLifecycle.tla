--------------------------- MODULE EventLifecycle ---------------------------
(***************************************************************************)
(* The event row as every server command sees it: the lifecycle state, the *)
(* intake gate, the intake generation and the reconciliation manifests.    *)
(*                                                                         *)
(* Each command locks the row (select_for_update), decides and saves, so a *)
(* command is one action; only finalisation is split, because it writes to *)
(* the object store between two transactions.  What the commands decide    *)
(* from the photos, the derivatives and the face analyses is left          *)
(* open here (\E over the outcomes): Ingestion refines this module and     *)
(* supplies those decisions.                                               *)
(***************************************************************************)
EXTENDS Naturals, FiniteSets

CONSTANTS
    MaxGeneration,      \* bound on intake_generation
    AdminForms,         \* TRUE adds saves of the admin change form
    InternalControls    \* TRUE adds close, reopen, finalise and the service-only
                        \* transition to Published, which no API or page calls

ASSUME LifecycleConstants == /\ MaxGeneration \in Nat \ {0}
                             /\ AdminForms \in BOOLEAN
                             /\ InternalControls \in BOOLEAN

Generations == 1..MaxGeneration

\* No manifest is current / no generation is ready (a NULL column).
None == 0

EventStates == {"draft", "uploading", "processing", "review",
                "published", "archived", "failed", "cancelled"}

-----------------------------------------------------------------------------
(* The transition table and the pure decisions.                            *)

Transitions ==
    [draft      |-> {"uploading", "cancelled"},
     uploading  |-> {"processing", "failed"},
     processing |-> {"uploading", "review", "failed"},
     review     |-> {"uploading", "published", "processing"},
     published  |-> {"archived", "review"},
     archived   |-> {"published"},
     failed     |-> {"uploading", "processing", "cancelled"},
     cancelled  |-> {}]

CanTransition(from, to) == to = from \/ to \in Transitions[from]

\* The targets an administrator is offered; Published is not one of them.
AdminTargets == {"uploading", "processing", "review", "archived", "failed", "cancelled"}

AcceptsContributions(s) == s \in {"draft", "uploading"}

CanReopen(s) == s \notin {"published", "archived", "cancelled"}

CanPublish(s) == s \notin {"published", "archived", "cancelled", "failed"}

StateForReadiness(s, ready) ==
    IF ready /\ s = "processing" THEN "review"
    ELSE IF ~ready /\ s = "review" THEN "processing"
    ELSE s

-----------------------------------------------------------------------------
VARIABLES
    state,          \* Event.state
    intake,         \* Event.intake_state
    generation,     \* Event.intake_generation
    current,        \* generation of Event.current_ingestion_manifest, or None
    manifest,       \* per generation, the state of its IngestionManifest row
    derivReady,     \* Event.derivatives_ready_generation
    faceReady,      \* Event.face_index_ready_generation
    expiry,         \* Event.expires_at against the clock
    everPublished,  \* Event.first_published_at is set
    contributed,    \* some contribution has been reserved
    finalizing,     \* generations some finalize_ingestion call is between
                    \* its two transactions for
    form            \* the copy of the row an admin form has loaded and not
                    \* yet saved, or NoForm

lifecycleVars == <<state, intake, generation, current, manifest, derivReady,
                   faceReady, expiry, everPublished, contributed, finalizing, form>>

dates == <<expiry, everPublished>>

\* What a save of the whole row writes back (expires_at is the form's own).
Row == [state |-> state, intake |-> intake, generation |-> generation,
        current |-> current, derivReady |-> derivReady, faceReady |-> faceReady,
        everPublished |-> everPublished]

Rows == [state : EventStates, intake : {"open", "closed"}, generation : Generations,
         current : Generations \cup {None}, derivReady : Generations \cup {None},
         faceReady : Generations \cup {None}, everPublished : BOOLEAN]

NoForm == [state |-> "none"]

LifecycleTypeOK ==
    /\ state \in EventStates
    /\ intake \in {"open", "closed"}
    /\ generation \in Generations
    /\ current \in Generations \cup {None}
    /\ manifest \in [Generations -> {"none", "prepared", "committed"}]
    /\ derivReady \in Generations \cup {None}
    /\ faceReady \in Generations \cup {None}
    /\ expiry \in {"unset", "future", "past"}
    /\ contributed \in BOOLEAN
    /\ finalizing \subseteq Generations
    /\ everPublished \in BOOLEAN
    /\ form \in Rows \cup {NoForm}

LifecycleInit ==
    /\ state = "draft"
    /\ intake = "open"
    /\ generation = 1
    /\ current = None
    /\ manifest = [g \in Generations |-> "none"]
    /\ derivReady = None
    /\ faceReady = None
    /\ expiry = "unset"
    /\ contributed = FALSE
    /\ finalizing = {}
    /\ everPublished = FALSE
    /\ form = NoForm

-----------------------------------------------------------------------------
(* Wrong forms of definitions below, each a plausible slip in the code it   *)
(* stands for.  No specification uses them: a run is repeated with one of    *)
(* them in place of the right form to show that its property can fail.       *)

\* Reopens without clearing the readiness marks.
OpenKeepingMarks ==
    /\ generation < MaxGeneration
    /\ generation' = generation + 1
    /\ intake' = "open"
    /\ current' = None
    /\ state' = "uploading"
    /\ UNCHANGED <<manifest, derivReady, faceReady, dates, contributed, finalizing, form>>

\* Publishes what is published already, or has a manifest of this generation.
PublishAgain ==
    /\ contributed
    /\ state \notin {"archived", "cancelled", "failed"}
    /\ state' = "published"
    /\ intake' = "closed"
    /\ manifest' = [manifest EXCEPT ![generation] = "committed"]
    /\ current' = generation
    /\ derivReady' = generation
    /\ faceReady' = generation
    /\ expiry' = IF everPublished THEN expiry ELSE "future"
    /\ expiry' # "unset"
    /\ everPublished' = TRUE
    /\ UNCHANGED <<generation, contributed, finalizing, form>>

\* Commits without checking the intake gate and the generation again.
CommitUnchecked(g) ==
    /\ g \in finalizing
    /\ manifest' = [manifest EXCEPT ![g] = "committed"]
    /\ current' = g
    /\ state' = "processing"
    /\ finalizing' = finalizing \ {g}
    /\ UNCHANGED <<intake, generation, derivReady, faceReady, dates, contributed, form>>

\* Moves an event by the table alone, whatever its manifest.
ManualByTable(target) == CanTransition(state, target)

-----------------------------------------------------------------------------
(* Contribution, intake gate and generation.                               *)

\* The current manifest is committed and belongs to the current generation.
CurrentIsCommitted ==
    /\ current = generation
    /\ manifest[generation] = "committed"

Contribute ==
    /\ intake = "open"
    /\ AcceptsContributions(state)
    /\ state' = "uploading"
    /\ contributed' = TRUE
    /\ UNCHANGED <<intake, generation, current, manifest, derivReady, faceReady,
                   dates, finalizing, form>>

CloseIntake ==
    /\ InternalControls
    /\ intake = "open"
    /\ state \in {"draft", "uploading"}
    /\ intake' = "closed"
    /\ UNCHANGED <<state, generation, current, manifest, derivReady, faceReady,
                   dates, contributed, finalizing, form>>

\* The bookkeeping reopening and unpublishing share: a new, open generation
\* in which nothing is current or ready.
OpenNextGeneration ==
    /\ generation < MaxGeneration
    /\ generation' = generation + 1
    /\ intake' = "open"
    /\ current' = None
    /\ derivReady' = None
    /\ faceReady' = None
    /\ state' = "uploading"
    /\ UNCHANGED <<manifest, dates, contributed, finalizing, form>>

ReopenIntake ==
    /\ InternalControls
    /\ intake = "closed"
    /\ CanReopen(state)
    /\ OpenNextGeneration

Unpublish ==
    /\ state = "published"
    /\ OpenNextGeneration

-----------------------------------------------------------------------------
(* Finalisation: prepare the manifest row, write the object, commit.       *)

PrepareManifest ==
    /\ InternalControls
    /\ intake = "closed"
    /\ state = "uploading"
    /\ contributed
    /\ manifest' = [manifest EXCEPT ![generation] = IF @ = "none" THEN "prepared" ELSE @]
    /\ finalizing' = finalizing \cup {generation}
    /\ UNCHANGED <<state, intake, generation, current, derivReady, faceReady,
                   dates, contributed, form>>

\* The second transaction checks the gate and the generation again, and not
\* the state the first transaction required.
CommitManifest(g) ==
    /\ g \in finalizing
    /\ intake = "closed"
    /\ generation = g
    /\ manifest' = [manifest EXCEPT ![g] = "committed"]
    /\ current' = g
    /\ state' = "processing"
    /\ finalizing' \in {finalizing, finalizing \ {g}}
    /\ UNCHANGED <<intake, generation, derivReady, faceReady, dates, contributed, form>>

\* The object store failed, or the generation moved on.
AbandonFinalize(g) ==
    /\ g \in finalizing
    /\ finalizing' = finalizing \ {g}
    /\ UNCHANGED <<state, intake, generation, current, manifest, derivReady,
                   faceReady, dates, contributed, form>>

-----------------------------------------------------------------------------
(* Readiness.                                                              *)

RefreshDerivatives(ready) ==
    /\ CurrentIsCommitted
    /\ derivReady' = IF ready THEN generation ELSE None
    /\ \/ state' = StateForReadiness(state, ready)
       \/ ~ready /\ state' = state          \* no visible photo at all
    /\ UNCHANGED <<intake, generation, current, manifest, faceReady, dates,
                   contributed, finalizing, form>>

RefreshFaces(ready) ==
    /\ ready => CurrentIsCommitted
    /\ faceReady' = IF ready THEN generation ELSE None
    /\ UNCHANGED <<state, intake, generation, current, manifest, derivReady,
                   dates, contributed, finalizing, form>>

\* A change of the visible photos forgets both readiness marks.
ForgetReadiness ==
    /\ state \notin {"published", "archived", "cancelled"}
    /\ derivReady' = None
    /\ faceReady' = None
    /\ state' \in {state, StateForReadiness(state, FALSE)}
    /\ UNCHANGED <<intake, generation, current, manifest, dates, contributed, finalizing, form>>

-----------------------------------------------------------------------------
(* Publication, the administrator's transitions and the clock.             *)

\* Intake closes, the snapshot of this generation is committed and both
\* readiness marks are set, in one transaction.  The first publication sets the
\* expiry date; a later one keeps what the row says, which may be past, and the
\* table refuses a published event with no date at all.
Publish ==
    /\ CanPublish(state)
    /\ contributed
    /\ manifest[generation] = "none"
    /\ state' = "published"
    /\ intake' = "closed"
    /\ manifest' = [manifest EXCEPT ![generation] = "committed"]
    /\ current' = generation
    /\ derivReady' = generation
    /\ faceReady' = generation
    /\ expiry' = IF everPublished THEN expiry ELSE "future"
    /\ expiry' # "unset"
    /\ everPublished' = TRUE
    /\ UNCHANGED <<generation, contributed, finalizing, form>>

\* state_for_manual_transition, with the facts transition_event reads.
ManualTransitionAllowed(target) ==
    /\ CanTransition(state, target)
    /\ target = "uploading" => state \notin {"processing", "review"} /\ current = None
    /\ target = "processing" => intake = "closed" /\ CurrentIsCommitted
    /\ target = "published" => /\ expiry = "future"
                               /\ CurrentIsCommitted
                               /\ derivReady = generation
                               /\ faceReady = generation

ManualTransition(target) ==
    /\ target \in AdminTargets \/ (InternalControls /\ target = "published")
    /\ target # state
    /\ ManualTransitionAllowed(target)
    /\ state' = target
    /\ UNCHANGED <<intake, generation, current, manifest, derivReady, faceReady,
                   dates, contributed, finalizing, form>>

\* The admin form loads the row without a lock and saves every column of it,
\* the expiry date as the administrator left it in the form.
LoadForm ==
    /\ AdminForms
    /\ form = NoForm
    /\ form' = Row
    /\ UNCHANGED <<state, intake, generation, current, manifest, derivReady,
                   faceReady, dates, contributed, finalizing>>

SaveForm ==
    /\ form # NoForm
    /\ state' = form.state
    /\ intake' = form.intake
    /\ generation' = form.generation
    /\ current' = form.current
    /\ derivReady' = form.derivReady
    /\ faceReady' = form.faceReady
    /\ everPublished' = form.everPublished
    /\ expiry' \in {"unset", "future", "past"}
    /\ form.state = "published" => expiry' # "unset"
    /\ form' = NoForm
    /\ UNCHANGED <<manifest, contributed, finalizing>>

ExpiryPasses ==
    /\ expiry = "future"
    /\ expiry' = "past"
    /\ UNCHANGED <<state, intake, generation, current, manifest, derivReady,
                   faceReady, everPublished, contributed, finalizing, form>>

-----------------------------------------------------------------------------
LifecycleNext ==
    \/ Contribute
    \/ CloseIntake
    \/ ReopenIntake
    \/ Unpublish
    \/ PrepareManifest
    \/ \E g \in Generations : CommitManifest(g) \/ AbandonFinalize(g)
    \/ \E ready \in BOOLEAN : RefreshDerivatives(ready) \/ RefreshFaces(ready)
    \/ ForgetReadiness
    \/ Publish
    \/ \E target \in EventStates : ManualTransition(target)
    \/ LoadForm
    \/ SaveForm
    \/ ExpiryPasses

LifecycleSpec == LifecycleInit /\ [][LifecycleNext]_lifecycleVars

-----------------------------------------------------------------------------
(* Safety.  The first two hold whatever the admin form writes back, because  *)
(* it writes one consistent earlier row; the third needs that no form does.  *)

\* A published event has its intake closed, an expiry date, and as current
\* manifest the committed one of its own generation.
PublishedHasSnapshot ==
    state = "published" =>
        /\ intake = "closed"
        /\ expiry # "unset"
        /\ current = generation
        /\ manifest[generation] = "committed"

\* A readiness mark never outlives the generation it was computed for: it is
\* set only for the current generation, whose manifest is current, so that
\* nothing computed before a reopening can let a later generation through.
ReadinessIsCurrent ==
    \A mark \in {derivReady, faceReady} :
        mark # None => mark = generation /\ current = generation /\ intake = "closed"

\* A generation whose manifest is committed is the event's current one: no
\* event is left with a snapshot it can neither serve nor replace.
CommittedIsCurrent == manifest[generation] = "committed" => current = generation

-----------------------------------------------------------------------------
(* Claims of the documentation that the code does not keep.                *)

\* Plan, section 7: intake uses monotonically increasing generations.
GenerationIsMonotone == [][generation' >= generation]_lifecycleVars

\* Plan, section 7: publication requires a future expiry.
PublicationHasFutureExpiry ==
    [][state # "published" /\ state' = "published" => expiry' = "future"]_lifecycleVars

\* "Unpublish the event before creating another publication snapshot.": the
\* events refused a publication with this advice are published ones.
RefusedCanUnpublish ==
    manifest[generation] # "none" /\ state \notin {"archived", "cancelled", "failed"}
        => state = "published"

\* ADR 0005: finalisation moves the event from Uploading to Processing.
FinalizesFromUploading ==
    [][current = None /\ current' = generation /\ state' = "processing"
         => state = "uploading"]_lifecycleVars

\* Plan, section 7: "the main event keeps the existing state machine".
FollowsTransitionTable == [][CanTransition(state, state')]_lifecycleVars

=============================================================================
