------------------------------- MODULE GraphCopy -------------------------------
(***************************************************************************)
(* What the knowledge graph promises as a copy of the validated versions,  *)
(* whatever statements bring it about: work on one version changes the     *)
(* copy of that version, and when nothing works on a version any more, and *)
(* nothing went wrong with it, its copy is whole if the version is wanted, *)
(* and absent if the version is gone.                                      *)
(***************************************************************************)

CONSTANTS
    Versions,      \* ids of versions
    DocumentOf     \* the document of each

VARIABLES
    wanted,     \* versions that belong in the graph
    gone,       \* versions that must leave no trace in it
    copy,       \* how much of each version the graph holds
    working,    \* versions something is at work on
    damaged     \* versions something went wrong with

copyVars == <<wanted, gone, copy, working, damaged>>

Family(v) == {u \in Versions : DocumentOf[u] = DocumentOf[v]}

Kept(v) == /\ v \in wanted => copy[v] = "whole"
           /\ v \in gone   => copy[v] = "absent"

CopyPromise == \A v \in Versions \ (working \cup damaged) : Kept(v)

CopyInit ==
    /\ wanted = {} /\ gone = {} /\ working = {} /\ damaged = {}
    /\ copy = [v \in Versions |-> "absent"]

(* A version is validated, in place of another of its document. *)
Want(v) ==
    /\ v \notin wanted \cup gone
    /\ wanted' = (wanted \ Family(v)) \cup {v}
    /\ working' = working \cup {v}
    /\ UNCHANGED <<gone, copy, damaged>>

(* Work begins on a version, wanted or not. *)
Begin(v) ==
    /\ v \notin gone
    /\ working' = working \cup {v}
    /\ UNCHANGED <<wanted, gone, copy, damaged>>

(* A version is sent back to review: its copy may stay. *)
Forget(v) ==
    /\ v \in wanted
    /\ wanted' = wanted \ {v}
    /\ UNCHANGED <<gone, copy, working, damaged>>

(* A document is withdrawn, and its versions taken up to be removed: work  *)
(* that is under way on one of them may cross the removal.                 *)
Withdraw(v) ==
    /\ wanted' = wanted \ Family(v)
    /\ working' = working \cup Family(v)
    /\ \E crossed \in SUBSET (Family(v) \cap working) : damaged' = damaged \cup crossed
    /\ UNCHANGED <<gone, copy>>

(* Versions being removed are declared gone, for good. *)
Retire ==
    /\ \E retired \in SUBSET (working \ wanted) : gone' = gone \cup retired
    /\ UNCHANGED <<wanted, copy, working, damaged>>

(* A statement of the work on v, the last one or not.  Of others it may    *)
(* sweep away what is left of an incomplete copy.                          *)
Work(v) ==
    /\ v \in working
    /\ working' \in {working, working \ {v}}
    /\ damaged' \in {damaged, damaged \cup {v}}
    /\ UNCHANGED <<wanted, gone>>
    /\ \A u \in Versions \ {v} :
          copy'[u] = copy[u] \/ (copy[u] = "part" /\ copy'[u] = "absent")
    /\ v \notin working' \cup damaged' => Kept(v)'

(* Work is lost with the process that did it, and so may the graph be. *)
Lose ==
    /\ working' \subseteq working
    /\ \/ /\ \E lost \in SUBSET working : /\ damaged' = damaged \cup lost
                                          /\ working \ lost \subseteq working'
          /\ UNCHANGED copy
       \/ /\ damaged' = Versions
          /\ copy' = [v \in Versions |-> "absent"]
    /\ UNCHANGED <<wanted, gone>>

CopyNext ==
    \/ \E v \in Versions : Work(v) \/ Want(v) \/ Begin(v) \/ Forget(v) \/ Withdraw(v)
    \/ Retire
    \/ Lose

CopySpec == CopyInit /\ [][CopyNext]_copyVars

=============================================================================
