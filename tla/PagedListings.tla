---------------------------- MODULE PagedListings ----------------------------
(* The three listings that are read page by page, by cursors: a document's *)
(* topics, the documents of a scope, and the audit log.                    *)
EXTENDS EnrichmentStores, ScopedListing, AuditLog

(* Whoever follows a paged listing to its end, the administrator in the     *)
(* audit log, a reader of documents or of a document's topics, has seen     *)
(* what was there throughout, once and in order, whatever was written       *)
(* between two pages.                                                      *)
PagedWalksAreComplete == WalkIsComplete /\ ListingIsComplete /\ AuditWalkIsComplete

=============================================================================
