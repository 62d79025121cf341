---------------------------- MODULE PhotoArchive ----------------------------
(***************************************************************************)
(* What the ingestion service promises about the photographs of one event, *)
(* with no rows, leases, requests or generations: a photo is accepted      *)
(* within the allowance, then kept or dropped for good, and the gallery is *)
(* either closed or shows exactly the kept photos one publication chose.   *)
(*                                                                         *)
(* The only way a kept photo is lost is a publication that leaves it out,  *)
(* and a publication leaves nothing pending behind.                        *)
(***************************************************************************)
EXTENDS Naturals, FiniteSets

CONSTANTS
    Photos,
    Allowance       \* how many photos may be pending or kept

VARIABLES
    status,         \* per photo: unknown, pending, kept or dropped
    open,           \* the gallery is published
    shown           \* the photos an open gallery shows; {} while it is closed

archiveVars == <<status, open, shown>>

Statuses == {"unknown", "pending", "kept", "dropped"}

With(s) == {p \in Photos : status[p] = s}

ArchiveInit ==
    /\ status = [p \in Photos |-> "unknown"]
    /\ open = FALSE
    /\ shown = {}

\* A whole contribution is accepted or none of it.
Accept ==
    /\ ~open
    /\ \E S \in SUBSET With("unknown") :
          /\ S # {}
          /\ Cardinality(With("pending") \cup With("kept")) + Cardinality(S) <= Allowance
          /\ status' = [p \in Photos |-> IF p \in S THEN "pending" ELSE status[p]]
    /\ UNCHANGED <<open, shown>>

Keep ==
    /\ \E p \in With("pending") : status' = [status EXCEPT ![p] = "kept"]
    /\ UNCHANGED <<open, shown>>

Drop ==
    /\ \E S \in SUBSET With("pending") :
          /\ S # {}
          /\ status' = [p \in Photos |-> IF p \in S THEN "dropped" ELSE status[p]]
    /\ UNCHANGED <<open, shown>>

\* A gallery opens with no photo pending, on a choice among the photos kept.
OpenGallery ==
    /\ ~open
    /\ open' = TRUE
    /\ \E left \in SUBSET With("kept") :
          /\ status' = [p \in Photos |-> IF p \in With("pending") \cup left
                                        THEN "dropped" ELSE status[p]]
          /\ shown' \in SUBSET (With("kept") \ left)
          /\ shown' # {}

CloseGallery ==
    /\ open
    /\ open' = FALSE
    /\ shown' = {}
    /\ UNCHANGED status

ArchiveNext == Accept \/ Keep \/ Drop \/ OpenGallery \/ CloseGallery

ArchiveSpec == ArchiveInit /\ [][ArchiveNext]_archiveVars

=============================================================================
