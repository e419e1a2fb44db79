--------------------------- MODULE DocumentStatus ---------------------------
(***************************************************************************)
(* The lifecycle table of a document version: the statuses it can be in    *)
(* and the moves between them that models/document.py allows.  Every       *)
(* component that writes a status extends this module, so the table is     *)
(* translated once.                                                        *)
(***************************************************************************)

(* DocumentVersionStatus *)
Statuses ==
    { "UPLOADED", "HASHED", "STORED", "DUPLICATE_DETECTED",
      "QUEUED_FOR_EXTRACTION", "EXTRACTING", "EXTRACTED", "SEMANTIC_READY",
      "NEEDS_REVIEW", "VALIDATED", "REJECTED", "SUPERSEDED", "FAILED",
      "PURGED" }

(* ALLOWED_TRANSITIONS: where a version in status s may go next. *)
AllowedTransitions(s) ==
    CASE s \in {"UPLOADED", "HASHED"}   -> {"STORED", "FAILED"}
      [] s = "STORED"                   -> {"EXTRACTING", "QUEUED_FOR_EXTRACTION",
                                            "FAILED"}
      [] s = "QUEUED_FOR_EXTRACTION"    -> {"EXTRACTING", "FAILED"}
      [] s = "EXTRACTING"               -> {"EXTRACTED", "FAILED"}
      [] s = "EXTRACTED"                -> {"SEMANTIC_READY", "NEEDS_REVIEW",
                                            "FAILED"}
      [] s = "SEMANTIC_READY"           -> {"NEEDS_REVIEW", "FAILED"}
      [] s = "NEEDS_REVIEW"             -> {"VALIDATED", "REJECTED"}
      [] s = "VALIDATED"                -> {"NEEDS_REVIEW", "SUPERSEDED", "PURGED"}
      [] s = "REJECTED"                 -> {"NEEDS_REVIEW", "PURGED"}
      [] s = "FAILED"                   -> {"EXTRACTING", "QUEUED_FOR_EXTRACTION",
                                            "PURGED"}
      [] s \in {"DUPLICATE_DETECTED", "SUPERSEDED", "PURGED"} -> {"PURGED"}
      [] OTHER                          -> {}

(* ALLOWED_PREDECESSORS: the statuses a guarded write of t accepts.  The    *)
(* catalog puts this set in the WHERE clause of its UPDATE, so a guarded   *)
(* write tests and sets the status in one step.                            *)
AllowedPredecessors(t) == {s \in Statuses : t \in AllowedTransitions(s)}

(* A version waiting for, or held by, an extraction job: what the recovery *)
(* scan looks for.                                                         *)
StuckStates == {"QUEUED_FOR_EXTRACTION", "EXTRACTING"}

(* From NEEDS_REVIEW on, a version is in human hands: the review gate.     *)
BehindReviewGate == {"NEEDS_REVIEW", "VALIDATED", "REJECTED", "SUPERSEDED"}

=============================================================================
