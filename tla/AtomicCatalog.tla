---------------------------- MODULE AtomicCatalog ----------------------------
(***************************************************************************)
(* What commit_catalog promises (src/src/remote.rs:28-30): to merge the    *)
(* revisions of one ingest into the shared catalog, as one atomic step,    *)
(* whatever other machines commit at the same time.  No step removes a     *)
(* revision unless a strictly newer one of its session is there.           *)
(***************************************************************************)
EXTENDS Catalog

VARIABLE catalog

Init == catalog = {}

\* Some ingest adds its revisions.
Publish(new) ==
    /\ ~Conflict(catalog \cup new)
    /\ catalog' = Prune(Merge(catalog, new))

Next == \E new \in SUBSET Revision : new # {} /\ Publish(new)

Spec == Init /\ [][Next]_catalog
=============================================================================
