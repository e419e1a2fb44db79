----------------------------- MODULE OrderedRows -----------------------------
(***************************************************************************)
(* What a query answers: the members of a set as rows, in the order it asks *)
(* for, those of them that a condition keeps, and the first few.  An order *)
(* is a set of pairs, of which the first is to be listed first.            *)
(***************************************************************************)
EXTENDS Naturals, Sequences, FiniteSets

(* The members of S that the order puts ahead of x. *)
Ahead(x, S, order) == {y \in S : <<y, x>> \in order}

(* ORDER BY *)
InOrder(S, order) ==
    [i \in 1..Cardinality(S) |-> CHOOSE x \in S : Cardinality(Ahead(x, S, order)) = i - 1]

(* Of numbers, the smaller ones first. *)
Ascending(S) == {p \in S \X S : p[1] < p[2]}

(* The rows of s that are in R, in the order they are in. *)
Where(s, R) ==
    LET places == InOrder({i \in 1..Len(s) : s[i] \in R}, Ascending(1..Len(s)))
    IN  [k \in 1..Len(places) |-> s[places[k]]]

(* LIMIT *)
FirstFew(s, n) == SubSeq(s, 1, IF Len(s) < n THEN Len(s) ELSE n)

=============================================================================
