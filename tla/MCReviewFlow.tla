---------------------------- MODULE MCReviewFlow ----------------------------
(***************************************************************************)
(* Instances of ReviewFlow for TLC.  One run looks at two cases, chosen in *)
(* the initial state: requests that follow each other, over three versions *)
(* and with auto-promotion passes; and two requests that overlap, over two *)
(* versions and with crashes.                                              *)
(***************************************************************************)
EXTENDS ReviewFlow, FiniteSets, TLC

CONSTANTS v1, v2, v3, t1, t2, m1, m2, Cases

ASSUME CasesAssumption == {v1, v2} \subseteq Versions /\ m1 \in Methods

VARIABLE case

NumberOf == (v1 :> 1) @@ (v2 :> 2) @@ (v3 :> 3)
TwoNumbers == (v1 :> 1) @@ (v2 :> 2)

ThreadSymmetry == Permutations(Threads)

CasesInit == Init /\ case \in Cases

(* One request at a time, one method, no crash. *)
SerialStep(t) ==
    /\ case = "serial"
    /\ \A u \in Threads \ {t} : task[u] = Idle
    /\ \/ Step(t)
       \/ \E v \in Versions : StartGenerate(t, v, m1) \/ Review(t, v) \/ Promote(t, v)

(* Two requests about the first two versions, whose statements interleave;   *)
(* nothing is routed to automation.                                        *)
ConcurrentStep(t) ==
    /\ case = "concurrent"
    /\ \/ Step(t)
       \/ \E v \in {v1, v2} :
             Review(t, v) \/ \E m \in Methods : StartGenerate(t, v, m)
    /\ \A v \in Versions : metadata'[v] # None => metadata'[v].routing # "auto"

CasesNext ==
    /\ \/ \E t \in Threads : SerialStep(t) \/ ConcurrentStep(t)
       \/ case = "serial" /\ StartPass
       \/ case = "concurrent" /\ Crash
    /\ UNCHANGED case

CasesSpec == CasesInit /\ [][CasesNext]_<<vars, case>>

(* Between requests that follow each other and run to their end, at most    *)
(* one version of the document is VALIDATED (ADR-025, ReviewService's       *)
(* supersession) but for pairs that a swallowed failure of the lookup or of *)
(* the supersession left standing, the decision in the exported content is  *)
(* the one the version's status states (record_validation), and a version   *)
(* with a semantic document is not left EXTRACTED (generate).               *)
SerialReviewsAgree ==
    case = "serial" => AtMostOneValidated /\ DecisionInSync /\ GeneratedIsInReview

(* Requests that follow each other never write a status the lifecycle table *)
(* has no edge to, although the promotion pass works off a stale listing.  *)
SerialFollowsTable == [][case = "serial" => FollowsTable]_vars

=============================================================================
