-------------------------- MODULE TaxonomyWorkflow --------------------------
(***************************************************************************)
(* The versions of the business taxonomy: drafts, the concept suggestions  *)
(* reviewed on them, the tree the language model makes of the accepted     *)
(* ones, and the promotion of a draft to the validated version.  Every     *)
(* operation reads a version from the in-memory store, checks it, and      *)
(* later writes a whole changed copy back: the read and the write are two  *)
(* steps, between which another administrator's request may run.           *)
(*                                                                         *)
(* Left out: labels, descriptions, actors and timestamps; version_label.   *)
(* One taxonomy_id, the versions of two never meeting.                     *)
(***************************************************************************)
EXTENDS Naturals

CONSTANTS
    Administrators,    \* threads serving administrators' requests
    MaxVersion,        \* bound on the version numbers drafted
    Concepts,          \* suggestion ids
    NoVersion          \* no row, no value

VARIABLES
    taxonomy,     \* the store: version number -> version, or NoVersion
    editing,      \* what each administrator's request is doing
    clashed       \* two requests met on a version, or two validations did

taxonomyVars == <<taxonomy, editing, clashed>>

-----------------------------------------------------------------------------
VersionNumbers == 1..MaxVersion

TaxonomyStates == {"DRAFT", "CANDIDATE_V0", "VALIDATED_V1", "ARCHIVED", "DISCARDED"}
ConceptStates  == {"NEW", "UNDER_REVIEW", "ACCEPTED", "REJECTED", "MERGED", "DEFERRED"}

VersionMoves ==
    {<<"DRAFT", "CANDIDATE_V0">>, <<"DRAFT", "DISCARDED">>,
     <<"CANDIDATE_V0", "VALIDATED_V1">>, <<"CANDIDATE_V0", "DISCARDED">>,
     <<"VALIDATED_V1", "ARCHIVED">>}

ConceptMoves ==
    ({"NEW"} \X {"UNDER_REVIEW", "ACCEPTED", "REJECTED", "DEFERRED"})
    \cup ({"UNDER_REVIEW"} \X {"ACCEPTED", "REJECTED", "MERGED", "DEFERRED"})
    \cup {<<"DEFERRED", "UNDER_REVIEW">>}

(* A tree is known by the accepted concepts it was made of.  A concept that *)
(* was never suggested on a version is "absent" from it.                   *)
TaxonomyVersions ==
             [state    : TaxonomyStates,
              tree     : SUBSET Concepts,
              concepts : [Concepts -> ConceptStates \cup {"absent"}]]

ASSUME TaxonomyAssumption == MaxVersion \in Nat /\ NoVersion \notin TaxonomyVersions

NoConcepts == [c \in Concepts |-> "absent"]

Known == {n \in VersionNumbers : taxonomy[n] # NoVersion}

FeedsTree(version) ==
    {c \in Concepts : version.concepts[c] \in {"ACCEPTED", "MERGED"}}

(* A request: the next statement, the number its copy will be written to,  *)
(* the copy, and the version it archives on the way.                       *)
NoRequest == [step |-> "idle", number |-> 0, copy |-> NoVersion, previous |-> 0]

Requests ==
    [step     : {"idle", "save", "previous", "archive", "archived"},
     number   : VersionNumbers \cup {0},
     copy     : TaxonomyVersions \cup {NoVersion},
     previous : VersionNumbers \cup {0}]

EditBegin(a, step, n, copy) ==
    /\ editing[a] = NoRequest
    /\ editing' = [editing EXCEPT ![a] =
                     [step |-> step, number |-> n, copy |-> copy, previous |-> 0]]

EditEnd(a) == editing' = [editing EXCEPT ![a] = NoRequest]

(* The versions a request reads to write back, or is about to archive. *)
Holds(request) == {request.number, request.previous} \ {0}

Validating(request) == request # NoRequest /\ request.copy.state = "VALIDATED_V1"

(* Noticed before every step: requests that overtake each other. *)
NoteClash ==
    clashed' = (clashed \/ \E a, b \in Administrators : a # b /\
                   \/ Holds(editing[a]) \cap Holds(editing[b]) # {}
                   \/ Validating(editing[a]) /\ Validating(editing[b]))

NobodyEdits == \A a \in Administrators : editing[a] = NoRequest

TaxonomyTypeOK ==
    /\ taxonomy \in [VersionNumbers -> TaxonomyVersions \cup {NoVersion}]
    /\ clashed \in BOOLEAN
    /\ editing \in [Administrators -> Requests]
    /\ \A a \in Administrators : editing[a] # NoRequest =>
          /\ editing[a].step # "idle"
          /\ editing[a].number \in VersionNumbers
          /\ editing[a].copy \in TaxonomyVersions

TaxonomyInit ==
    /\ taxonomy = [n \in VersionNumbers |-> NoVersion]
    /\ editing = [a \in Administrators |-> NoRequest]
    /\ clashed = FALSE

-----------------------------------------------------------------------------
(* create_draft: the next number after the highest listed one; the tree is *)
(* copied from the version the draft branches from.  The source and the    *)
(* listing are read in one step.                                           *)
StartDraft(a) ==
    /\ \E n \in VersionNumbers, source \in Known \cup {0} :
          /\ \A k \in Known : k < n
          /\ n = 1 \/ n - 1 \in Known
          /\ EditBegin(a, "save", n,
                [state |-> "DRAFT", concepts |-> NoConcepts,
                 tree |-> IF source = 0 THEN {} ELSE taxonomy[source].tree])
    /\ UNCHANGED taxonomy

(* promote_to_candidate, discard_draft and archive_version.  A promotion    *)
(* leaves the tree as it is and drops the suggestions, and so does a       *)
(* discard; a version that can be archived has none.                       *)
StartMove(a, n, to) ==
    /\ taxonomy[n] # NoVersion
    /\ <<taxonomy[n].state, to>> \in VersionMoves
    /\ to # "VALIDATED_V1"
    /\ EditBegin(a, "save", n, [taxonomy[n] EXCEPT !.state = to, !.concepts = NoConcepts])
    /\ UNCHANGED taxonomy

(* validate_version: the candidate is read and checked first ... *)
StartValidate(a, n) ==
    /\ taxonomy[n] # NoVersion
    /\ <<taxonomy[n].state, "VALIDATED_V1">> \in VersionMoves
    /\ EditBegin(a, "previous", n, [taxonomy[n] EXCEPT !.state = "VALIDATED_V1"])
    /\ UNCHANGED taxonomy

Validated == {n \in Known : taxonomy[n].state = "VALIDATED_V1"}

(* Faulty variant: only versions numbered below the candidate are looked at. *)
FindPreviousBelow(a) ==
    LET older == {k \in Validated : k < editing[a].number} IN
    /\ editing[a].step = "previous"
    /\ \/ /\ older = {}
          /\ editing' = [editing EXCEPT ![a].step = "save"]
       \/ \E k \in older :
             /\ \A j \in older : j <= k
             /\ editing' = [editing EXCEPT ![a].step = "archive", ![a].previous = k]
    /\ UNCHANGED taxonomy

(* ... then the active version: the validated one with the highest number. *)
FindPrevious(a) ==
    /\ editing[a].step = "previous"
    /\ \/ /\ Validated = {}
          /\ editing' = [editing EXCEPT ![a].step = "save"]
       \/ \E k \in Validated :
             /\ \A j \in Validated : j <= k
             /\ editing' = [editing EXCEPT ![a].step = "archive", ![a].previous = k]
    /\ UNCHANGED taxonomy

(* archive_version on the previous version reads it again; if it has been  *)
(* archived meanwhile the whole validation is refused.                     *)
CheckPrevious(a) ==
    /\ editing[a].step = "archive"
    /\ IF <<taxonomy[editing[a].previous].state, "ARCHIVED">> \in VersionMoves
          THEN editing' = [editing EXCEPT ![a].step = "archived"]
          ELSE EditEnd(a)
    /\ UNCHANGED taxonomy

ArchivePrevious(a) ==
    /\ editing[a].step = "archived"
    /\ taxonomy' = [taxonomy EXCEPT ![editing[a].previous].state = "ARCHIVED"]
    /\ editing' = [editing EXCEPT ![a].step = "save"]

(* add_suggestions and transition_concept, on a draft only. *)
StartSuggest(a, n, c) ==
    /\ taxonomy[n] # NoVersion
    /\ taxonomy[n].state = "DRAFT"
    /\ taxonomy[n].concepts[c] = "absent"
    /\ EditBegin(a, "save", n, [taxonomy[n] EXCEPT !.concepts[c] = "NEW"])
    /\ UNCHANGED taxonomy

StartConcept(a, n, c, to) ==
    /\ taxonomy[n] # NoVersion
    /\ taxonomy[n].state = "DRAFT"
    /\ <<taxonomy[n].concepts[c], to>> \in ConceptMoves
    /\ EditBegin(a, "save", n, [taxonomy[n] EXCEPT !.concepts[c] = to])
    /\ UNCHANGED taxonomy

(* Faulty variant: a candidate's tree may be synthesised again. *)
StartSynthesizeAnyState(a, n) ==
    /\ taxonomy[n] # NoVersion
    /\ \E tree \in {FeedsTree(taxonomy[n]), {}} :
          EditBegin(a, "save", n, [taxonomy[n] EXCEPT !.tree = tree])
    /\ UNCHANGED taxonomy

(* Synthesis: a draft with something accepted is sent to the model, which  *)
(* answers with a tree of those concepts, or, finding them too few, with   *)
(* an empty one.  A failed call leaves no request behind.                  *)
StartSynthesize(a, n) ==
    /\ taxonomy[n] # NoVersion
    /\ taxonomy[n].state = "DRAFT"
    /\ FeedsTree(taxonomy[n]) # {}
    /\ \E tree \in {FeedsTree(taxonomy[n]), {}} :
          EditBegin(a, "save", n, [taxonomy[n] EXCEPT !.tree = tree])
    /\ UNCHANGED taxonomy

(* upsert: the row becomes the copy made when the request began. *)
SaveVersion(a) ==
    /\ editing[a].step = "save"
    /\ taxonomy' = [taxonomy EXCEPT ![editing[a].number] = editing[a].copy]
    /\ EditEnd(a)

(* The store lives in memory: a restart forgets every version. *)
TaxonomyRestart ==
    /\ Known # {}
    /\ taxonomy' = [n \in VersionNumbers |-> NoVersion]
    /\ editing' = [a \in Administrators |-> NoRequest]
    /\ clashed' = FALSE

-----------------------------------------------------------------------------
TaxonomyNext ==
    \/ \E a \in Administrators : NoteClash /\
          \/ StartDraft(a)
          \/ FindPrevious(a) \/ CheckPrevious(a) \/ ArchivePrevious(a) \/ SaveVersion(a)
          \/ \E n \in VersionNumbers :
                \/ \E to \in TaxonomyStates : StartMove(a, n, to)
                \/ StartValidate(a, n)
                \/ StartSynthesize(a, n)
                \/ \E c \in Concepts :
                      \/ StartSuggest(a, n, c)
                      \/ \E to \in ConceptStates : StartConcept(a, n, c, to)
    \/ TaxonomyRestart

TaxonomySpec == TaxonomyInit /\ [][TaxonomyNext]_taxonomyVars

-----------------------------------------------------------------------------
(* Properties.                                                             *)

(* ADR-018 section 4: the active taxonomy is one version.  Between         *)
(* requests, at most one version is VALIDATED_V1, in whatever order the    *)
(* numbers were drafted, validated and archived, and whatever two           *)
(* administrators did at once to different versions.  Two validations at   *)
(* once leave two.                                                         *)
OneTaxonomyValidated ==
    NobodyEdits /\ ~clashed => \A m, n \in Validated : m = n

TreeStands ==
    \A n \in VersionNumbers :
        LET old == taxonomy[n]
            new == taxonomy'[n]
        IN  ~clashed' /\ old # NoVersion /\ new # NoVersion /\ old # new =>
               /\ old.state = new.state \/ <<old.state, new.state>> \in VersionMoves
               /\ old.tree # new.tree => old.state = "DRAFT" /\ new.state = "DRAFT"
               /\ \A c \in Concepts :
                     \/ new.concepts[c] \in {old.concepts[c], "absent"}
                     \/ <<old.concepts[c], new.concepts[c]>>
                           \in ConceptMoves \cup {<<"absent", "NEW">>}

(* What a reviewer has been shown stands: a version moves along the table  *)
(* of ADR-018, a suggestion along its own, and the tree of a version that  *)
(* has left DRAFT never changes again.  A restart alone removes versions,   *)
(* and only requests that met on a version write over each other.          *)
ReviewedTreeStands == [][TreeStands]_taxonomyVars

=============================================================================
