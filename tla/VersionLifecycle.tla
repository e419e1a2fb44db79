-------------------------- MODULE VersionLifecycle --------------------------
(***************************************************************************)
(* What the catalog promises about one version, whoever writes it: it is   *)
(* created STORED or DUPLICATE_DETECTED, and every later change of its     *)
(* status is one edge of the lifecycle table.  The detailed components are *)
(* shown to implement this specification, or shown not to.                 *)
(***************************************************************************)
EXTENDS DocumentStatus

CONSTANT Versions      \* the version rows the catalog may come to hold

VARIABLE status        \* the status column, "ABSENT" before the row exists

LifecycleTypeOK == status \in [Versions -> Statuses \cup {"ABSENT"}]

LifecycleInit == status = [v \in Versions |-> "ABSENT"]

(* DocumentService.upload_stream inserts the row with its first status. *)
Create(v) ==
    /\ status[v] = "ABSENT"
    /\ \E s \in {"STORED", "DUPLICATE_DETECTED"} :
          status' = [status EXCEPT ![v] = s]

(* assert_transition: a move along one edge of the table. *)
Move(v) ==
    /\ status[v] # "ABSENT"
    /\ \E t \in AllowedTransitions(status[v]) :
          status' = [status EXCEPT ![v] = t]

(* A recovery scan at boot fails every abandoned version before the        *)
(* process serves its first request: seen from outside, one step.          *)
FailAbandoned ==
    \E R \in SUBSET {v \in Versions : status[v] \in StuckStates} :
       status' = [v \in Versions |-> IF v \in R THEN "FAILED" ELSE status[v]]

LifecycleNext == FailAbandoned \/ \E v \in Versions : Create(v) \/ Move(v)

LifecycleSpec == LifecycleInit /\ [][LifecycleNext]_status

=============================================================================
