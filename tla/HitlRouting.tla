---------------------------- MODULE HitlRouting -----------------------------
(***************************************************************************)
(* Which versions a human must review: the router's decision on each       *)
(* freshly scored version, the counters it keeps per content type, the     *)
(* rate at which it sends confident versions to a human all the same, and  *)
(* the writers of those counters besides it: the rejections that count as  *)
(* drift and the auto-promotion pass.  Reviews are one step here;          *)
(* ReviewFlow takes them apart.                                            *)
(*                                                                         *)
(* Left out: the score itself, of which only its class matters, the        *)
(* topic cluster, which every caller leaves unset, actors and timestamps.  *)
(* Rates and ratios are integers in hundredths of a percent and percent.   *)
(***************************************************************************)
EXTENDS Integers, FiniteSets

CONSTANTS
    ScoredVersions,   \* versions with semantic content to score
    ContentTypeOf,    \* the content type of each
    BaselineRate,     \* hitl_spc_sample_rate, in percent
    RampFactor,       \* hitl_drift_ramp_factor, in percent
    DriftThreshold,   \* hitl_drift_threshold, in percent
    MaxSamples,       \* bound on the decisions counted per bucket
    Unscored          \* no row of validation_metadata

ASSUME RoutingAssumption ==
    /\ BaselineRate \in 0..100
    /\ {RampFactor, DriftThreshold, MaxSamples} \subseteq Nat
    /\ IsFiniteSet(ScoredVersions)

VARIABLES
    policy,      \* how the deployment is set; restarts do not change it
    samples,     \* sampling_state: bucket -> counters
    routing,     \* validation_metadata: version -> row, or Unscored
    review,      \* where each version stands with its reviewers
    routingStep, \* the next statement of the generation or promotion of each
    driftCheck,  \* rejections whose drift signal is still to be recorded
    listed       \* what the running promotion pass has still to visit

routingVars == <<policy, samples, routing, review, routingStep, driftCheck, listed>>

-----------------------------------------------------------------------------
Buckets == {ContentTypeOf[v] : v \in ScoredVersions}

RoutingMethods == {"auto", "human", "external"}
ScoreClasses   == {"ocr", "above", "below"}

(* Every version automatic, every version sent to the external judge, or by *)
(* its score; the first wins when both are set.                            *)
RoutingPolicies == {"forceAuto", "external", "scored"}

RoutingRows == [method : RoutingMethods \cup {"none"}, validation : {"none", "auto"}]

ASSUME UnscoredAssumption == Unscored \notin RoutingRows

SampleCounters == [taken : Nat, auto : Nat, human : Nat, afterAuto : Nat]

(* The score is held by the request that goes on to route by it. *)
RoutingSteps == {"idle", "mark", "bump"} \cup ScoreClasses \cup RoutingMethods

RoutingTypeOK ==
    /\ policy \in RoutingPolicies
    /\ samples \in [Buckets -> SampleCounters]
    /\ routing \in [ScoredVersions -> RoutingRows \cup {Unscored}]
    /\ review \in [ScoredVersions -> {"generated", "in_review", "validated", "rejected"}]
    /\ routingStep \in [ScoredVersions -> RoutingSteps]
    /\ {driftCheck, listed} \subseteq SUBSET ScoredVersions

-----------------------------------------------------------------------------
(* The counters.                                                           *)

(* record_decision: one transaction; an external decision has no column.   *)
RecordDecisionOf(b, method) ==
    /\ samples[b].taken < MaxSamples
    /\ samples' = [samples EXCEPT
         ![b].taken = @ + 1,
         ![b].auto  = IF method = "auto" THEN @ + 1 ELSE @,
         ![b].human = IF method = "human" THEN @ + 1 ELSE @]

(* HITLDriftDetector.sampling_rate: the baseline, and the ramped rate once  *)
(* the share of overturned automatic decisions exceeds the threshold.      *)
Drifting(b) ==
    /\ samples[b].auto # 0
    /\ samples[b].afterAuto * 100 > DriftThreshold * samples[b].auto

AtMostCertain(rate) == IF rate > 10000 THEN 10000 ELSE rate

SamplingRate(b) ==
    IF Drifting(b) THEN AtMostCertain(BaselineRate * RampFactor) ELSE BaselineRate * 100

(* _decide_inner: the first rule that applies.  A confident score goes to   *)
(* a human with the bucket's rate, or the baseline when the detector fails;*)
(* a rate of zero never escalates and a certain one always does.           *)
DecisionsOn(class, b) ==
    LET rates == {SamplingRate(b), BaselineRate * 100} IN
    CASE class = "ocr"     -> {"human"}
      [] class # "ocr" /\ policy = "forceAuto" -> {"auto"}
      [] class # "ocr" /\ policy = "external" -> {"external"}
      [] class = "below" /\ policy = "scored" -> {"human"}
      [] OTHER -> {m \in {"human", "auto"} :
                     \E r \in rates : IF m = "human" THEN r > 0 ELSE r < 10000}

-----------------------------------------------------------------------------
(* The routing of a generated document.                                    *)

(* _maybe_score_for_hitl: the score replaces the whole row. *)
ScoreVersion(v) ==
    /\ routingStep[v] = "idle"
    /\ routing' = [routing EXCEPT ![v] = [method |-> "none", validation |-> "none"]]
    /\ \E class \in ScoreClasses : routingStep' = [routingStep EXCEPT ![v] = class]
    /\ review' = [review EXCEPT ![v] = IF @ = "generated" THEN "in_review" ELSE @]
    /\ UNCHANGED <<policy, samples, driftCheck, listed>>

(* Faulty variant: a decision whose counter cannot be written stands. *)
DecideRegardless(v) ==
    LET b == ContentTypeOf[v] IN
    /\ routingStep[v] \in ScoreClasses
    /\ \E m \in DecisionsOn(routingStep[v], b) :
          /\ routingStep' = [routingStep EXCEPT ![v] = m]
          /\ RecordDecisionOf(b, m) \/ UNCHANGED samples
    /\ UNCHANGED <<policy, routing, review, driftCheck, listed>>

(* HITLRouter.decide: the decision is counted before it is returned; a      *)
(* failure to count it leaves the version unrouted.                        *)
Decide(v) ==
    LET b == ContentTypeOf[v] IN
    /\ routingStep[v] \in ScoreClasses
    /\ \/ \E m \in DecisionsOn(routingStep[v], b) :
             /\ RecordDecisionOf(b, m)
             /\ routingStep' = [routingStep EXCEPT ![v] = m]
       \/ /\ routingStep' = [routingStep EXCEPT ![v] = "idle"]
          /\ UNCHANGED samples
    /\ UNCHANGED <<policy, routing, review, driftCheck, listed>>

(* _maybe_route_for_hitl: the decision replaces the whole row again, or the *)
(* write fails and is logged.                                              *)
StoreRouting(v) ==
    /\ routingStep[v] \in RoutingMethods
    /\ \/ routing' = [routing EXCEPT ![v].method = routingStep[v], ![v].validation = "none"]
       \/ UNCHANGED routing
    /\ routingStep' = [routingStep EXCEPT ![v] = "idle"]
    /\ UNCHANGED <<policy, samples, review, driftCheck, listed>>

-----------------------------------------------------------------------------
(* Reviewers and the promotion pass.                                       *)

Reviewed(v) ==
    /\ \/ review[v] = "in_review" /\ review' = [review EXCEPT ![v] = "validated"]
       \/ review[v] \in {"validated", "rejected"}
            /\ review' = [review EXCEPT ![v] = "in_review"]
    /\ UNCHANGED <<policy, samples, routing, routingStep, driftCheck, listed>>

RejectVersion(v) ==
    /\ review[v] = "in_review"
    /\ v \notin driftCheck
    /\ review' = [review EXCEPT ![v] = "rejected"]
    /\ driftCheck' = driftCheck \cup {v}
    /\ UNCHANGED <<policy, samples, routing, routingStep, listed>>

(* _maybe_record_drift_event: a human rejected what the router would have   *)
(* passed and the pass had not promoted.  A failing store is logged.       *)
RecordDrift(v) ==
    /\ v \in driftCheck
    /\ driftCheck' = driftCheck \ {v}
    /\ \/ /\ routing[v] # Unscored /\ routing[v].method = "auto"
          /\ routing[v].validation = "none"
          /\ samples[ContentTypeOf[v]].afterAuto < MaxSamples
          /\ samples' = [samples EXCEPT ![ContentTypeOf[v]].afterAuto = @ + 1]
       \/ UNCHANGED samples
    /\ UNCHANGED <<policy, routing, review, routingStep, listed>>

(* run_pass: the automatic rows without a method, read once. *)
ListPending ==
    /\ listed = {}
    /\ listed' = {v \in ScoredVersions : /\ routing[v] # Unscored
                                         /\ routing[v].method = "auto"
                                         /\ routing[v].validation = "none"
                                         /\ review[v] = "in_review"}
    /\ UNCHANGED <<policy, samples, routing, review, routingStep, driftCheck>>

(* _promote_one: validated on the system's behalf, or skipped. *)
PromoteListed(v) ==
    /\ v \in listed
    /\ listed' = listed \ {v}
    /\ \/ /\ review[v] = "in_review"
          /\ routingStep[v] = "idle"
          /\ review' = [review EXCEPT ![v] = "validated"]
          /\ routingStep' = [routingStep EXCEPT ![v] = "mark"]
       \/ /\ review[v] # "in_review"
          /\ UNCHANGED <<review, routingStep>>
    /\ UNCHANGED <<policy, samples, routing, driftCheck>>

(* ... marked, unless it has a method by now or the write fails ... *)
MarkListed(v) ==
    /\ routingStep[v] = "mark"
    /\ \/ /\ routing[v].validation = "none"
          /\ routing' = [routing EXCEPT ![v].validation = "auto"]
       \/ UNCHANGED routing
    /\ routingStep' = [routingStep EXCEPT ![v] = "bump"]
    /\ UNCHANGED <<policy, samples, review, driftCheck, listed>>

(* ... and counted as one more automatic decision, or not.  *)
BumpPromoted(v) ==
    /\ routingStep[v] = "bump"
    /\ RecordDecisionOf(ContentTypeOf[v], "auto") \/ UNCHANGED samples
    /\ routingStep' = [routingStep EXCEPT ![v] = "idle"]
    /\ UNCHANGED <<policy, routing, review, driftCheck, listed>>

(* The process dies between two statements: its tables remain. *)
RoutingRestart ==
    /\ routingStep' = [v \in ScoredVersions |-> "idle"]
    /\ driftCheck' = {}
    /\ listed' = {}
    /\ UNCHANGED <<policy, samples, routing, review>>

-----------------------------------------------------------------------------
RoutingInit ==
    /\ policy \in RoutingPolicies
    /\ samples = [b \in Buckets |-> [taken |-> 0, auto |-> 0, human |-> 0, afterAuto |-> 0]]
    /\ routing = [v \in ScoredVersions |-> Unscored]
    /\ review = [v \in ScoredVersions |-> "generated"]
    /\ routingStep = [v \in ScoredVersions |-> "idle"]
    /\ driftCheck = {}
    /\ listed = {}

RoutingNext ==
    \/ \E v \in ScoredVersions :
          \/ ScoreVersion(v) \/ Decide(v) \/ StoreRouting(v)
          \/ Reviewed(v) \/ RejectVersion(v) \/ RecordDrift(v)
          \/ PromoteListed(v) \/ MarkListed(v) \/ BumpPromoted(v)
    \/ ListPending \/ RoutingRestart

RoutingSpec == RoutingInit /\ [][RoutingNext]_routingVars

-----------------------------------------------------------------------------
(* Properties.                                                             *)

RoutedAs(b, method) ==
    Cardinality({v \in ScoredVersions : /\ ContentTypeOf[v] = b
                                        /\ routing[v] # Unscored
                                        /\ routing[v].method = method})

(* sampling_state_store.py: every decision is counted, once it can be seen. *)
(* At any instant, after any failure or restart, the counters cover the    *)
(* routings on record, so a bucket with drift in it has automatic          *)
(* decisions to measure the drift against.                                 *)
RoutingsAreCounted ==
    \A b \in Buckets :
        /\ RoutedAs(b, "auto") <= samples[b].auto
        /\ RoutedAs(b, "human") <= samples[b].human
        /\ RoutedAs(b, "external") <= samples[b].taken - samples[b].auto - samples[b].human
        /\ samples[b].afterAuto > 0 => samples[b].auto > 0

=============================================================================
