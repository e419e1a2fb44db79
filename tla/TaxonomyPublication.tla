------------------------ MODULE TaxonomyPublication -------------------------
(***************************************************************************)
(* The imposed taxonomy: an operator's YAML file, checked by the loader,   *)
(* flattened into rows by a publication, assembled again by every read,    *)
(* and kept by the running process from its boot on.                       *)
(*                                                                         *)
(* A file holds categories in the order of its text, each with its nesting *)
(* depth: <<[id |-> "hr", depth |-> 1], [id |-> "hr.pay", depth |-> 2]>>.   *)
(* Left out: labels, descriptions, sources and actors.                     *)
(***************************************************************************)
EXTENDS Naturals, Sequences, FiniteSets, SequencesExt, OrderedRows

CONSTANTS
    Files,             \* what the file at the configured path may hold
    CategoryIds,       \* ids that match the loader's pattern
    MaxTaxonomyDepth,  \* MAX_TAXONOMY_DEPTH
    MaxPublications,   \* bound on the publications made
    Missing,           \* no file, or none configured
    TopLevel,          \* the NULL parent of a top-level category
    NotConfigured      \* no taxonomy

ASSUME PublicationAssumption ==
    /\ MaxTaxonomyDepth \in Nat \ {0}
    /\ MaxPublications \in Nat
    /\ TopLevel \notin CategoryIds

(* A file nests its categories one level at a time. *)
ASSUME FilesAssumption ==
    \A f \in Files :
       /\ Len(f) \in Nat /\ DOMAIN f = 1..Len(f)
       /\ \A i \in 1..Len(f) :
             /\ f[i].depth \in Nat \ {0}
             /\ f[i].depth # 1 => \E j \in 1..(i - 1) : f[j].depth = f[i].depth - 1

VARIABLES
    file,         \* what the configured path holds now
    publications, \* the rows of taxonomies, each with those of taxonomy_categories
    served        \* the taxonomy wired into the running process

publicationVars == <<file, publications, served>>

-----------------------------------------------------------------------------
(* The category that encloses position i: the nearest one before it that is *)
(* one level up.                                                           *)
ParentPosition(doc, i) ==
    LET above == {j \in 1..(i - 1) : doc[j].depth = doc[i].depth - 1}
    IN  IF doc[i].depth = 1 THEN 0
        ELSE CHOOSE j \in above : \A k \in above : k <= j

ParentOf(doc, i) ==
    IF ParentPosition(doc, i) = 0 THEN TopLevel ELSE doc[ParentPosition(doc, i)].id

(* _parse_category and _validate_invariants: ids of the right form, no id   *)
(* twice anywhere in the tree, no category below the deepest level.        *)
Loadable(doc) ==
    /\ \A i \in DOMAIN doc : doc[i].id \in CategoryIds /\ doc[i].depth <= MaxTaxonomyDepth
    /\ \A i, j \in DOMAIN doc : doc[i].id = doc[j].id => i = j

(* Faulty variant: the rows do not name their parents. *)
InsertCategoriesFlat(doc) ==
    {[id |-> doc[i].id, parent |-> TopLevel, sortOrder |-> i - 1] : i \in DOMAIN doc}

(* _insert_categories: one row a category, numbered among its siblings.    *)
InsertCategories(doc) ==
    {[id        |-> doc[i].id,
      parent    |-> ParentOf(doc, i),
      sortOrder |-> Cardinality({j \in 1..(i - 1) :
                                    ParentPosition(doc, j) = ParentPosition(doc, i)})] :
        i \in DOMAIN doc}

(* _assemble_tree: the rows come sorted by parent and sort_order, and each  *)
(* is appended to the children of its parent.                              *)
AssembleTree(rows) ==
    [p \in CategoryIds \cup {TopLevel} |->
        LET children == {r \in rows : r.parent = p}
            order    == {q \in children \X children : q[1].sortOrder < q[2].sortOrder}
        IN  [i \in 1..Cardinality(children) |-> InOrder(children, order)[i].id]]

(* load_taxonomy: the path leads to a file the loader accepts. *)
Readable == file \in Files /\ Loadable(file)

Active == {i \in DOMAIN publications : publications[i].active}

GetActive ==
    IF Active = {} THEN NotConfigured
    ELSE LET i == CHOOSE i \in Active : TRUE IN AssembleTree(publications[i].rows)

(* publish, one transaction: every active row is switched off, and the new *)
(* one inserted active with its categories.                                *)
Publish(doc) ==
    publications' = Append([i \in DOMAIN publications |-> [publications[i] EXCEPT !.active = FALSE]],
                           [active |-> TRUE, rows |-> InsertCategories(doc)])

-----------------------------------------------------------------------------
(* The operator edits the file. *)
EditFile ==
    /\ \E f \in Files \cup {Missing} : f # file /\ file' = f
    /\ UNCHANGED <<publications, served>>

(* POST /admin/taxonomy/import_yaml: a missing file is answered with 404,   *)
(* one that does not load with 422, and any other is published.  The       *)
(* running process keeps the taxonomy it was booted with.                  *)
ImportYaml ==
    /\ Len(publications) < MaxPublications
    /\ Readable
    /\ Publish(file)
    /\ UNCHANGED <<file, served>>

(* _bootstrap_taxonomy: the active publication, if there is one; else the   *)
(* file is imported once.  A file that does not load does not stop the boot.*)
Boot ==
    /\ \/ /\ Active # {}
          /\ served' = GetActive
          /\ UNCHANGED publications
       \/ /\ Active = {} /\ ~Readable
          /\ served' = NotConfigured
          /\ UNCHANGED publications
       \/ /\ Active = {} /\ Readable
          /\ Publish(file)
          /\ served' = AssembleTree(InsertCategories(file))
    /\ UNCHANGED file

PublicationInit ==
    /\ file \in Files \cup {Missing}
    /\ publications = <<>>
    /\ served = NotConfigured

PublicationNext == EditFile \/ ImportYaml \/ Boot

PublicationSpec == PublicationInit /\ [][PublicationNext]_publicationVars

Forests == [CategoryIds \cup {TopLevel} -> Seq(CategoryIds)]

PublicationTypeOK ==
    /\ file \in Files \cup {Missing}
    /\ \A i \in DOMAIN publications :
          /\ publications[i].active \in BOOLEAN
          /\ \A r \in publications[i].rows :
                r.id \in CategoryIds /\ r.parent \in CategoryIds \cup {TopLevel}
    /\ served \in Forests \cup {NotConfigured}

-----------------------------------------------------------------------------
(* What the author wrote: under each category, its subcategories in the    *)
(* order of the text.                                                      *)
AsAuthored(doc) ==
    [p \in CategoryIds \cup {TopLevel} |->
        LET below == {i \in DOMAIN doc : ParentOf(doc, i) = p}
        IN  [k \in 1..Cardinality(below) |-> doc[InOrder(below, Ascending(below))[k]].id]]

(* taxonomy_store.py: one active taxonomy, whatever was imported before,   *)
(* and what the process classifies with is, category for category and in   *)
(* order, the text of a file the loader accepts.                           *)
TaxonomyAsAuthored ==
    /\ publications # <<>> => Cardinality(Active) = 1
    /\ served # NotConfigured =>
          \E f \in Files : Loadable(f) /\ served = AsAuthored(f)

=============================================================================
