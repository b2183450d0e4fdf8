------------------------------- MODULE Catalog -------------------------------
(***************************************************************************)
(* The catalog of src/src/catalog.rs as a set of revisions, and the        *)
(* operations on it.  A revision is a record [session, repo, hash, rank]:  *)
(* a session record of the catalog is the set of revisions with its        *)
(* session, whose repo is the record's repo_key.                           *)
(*                                                                         *)
(* The rank stands for what merge.rs compares (updated_at or, without it,  *)
(* the time of the last message; then the number of messages): a total     *)
(* pre-order with a largest value.  Module Freshness has its detail.       *)
(***************************************************************************)
EXTENDS Naturals

CONSTANTS
    Hash,      \* content hashes of archived documents
    Revision,  \* the revisions that can exist
    MaxRank    \* the largest rank of a revision

\* The hash covers the session id and the repository key (document.rs:20-27,
\* 39-41), so equal hashes have equal sessions and repositories.
ASSUME RevisionAssumption ==
    /\ MaxRank \in Nat
    /\ \A r \in Revision : r.hash \in Hash /\ r.rank \in 0 .. MaxRank
    /\ \A r, q \in Revision : r.hash = q.hash =>
            r.session = q.session /\ r.repo = q.repo

Hashes(revs) == {r.hash : r \in revs}

\* merge_catalogs refuses a session that belongs to two repositories.
Conflict(revs) == \E r, q \in revs : r.session = q.session /\ r.repo # q.repo

\* (mutant) A session that is already there is left as it is.
MergeKnown(base, new) ==
    base \cup {r \in new : \A q \in base : q.session # r.session}

\* merge_catalogs: an entry already there for the same hash is kept.
Merge(base, new) == base \cup {r \in new : r.hash \notin Hashes(base)}

\* q is strictly newer than r.
Supersedes(q, r) == q.session = r.session /\ q.rank > r.rank

\* (mutant) Of revisions tied at the top, only one stays.
PruneToOne(revs) ==
    {r \in revs : \A q \in revs : ~Supersedes(q, r) /\
        (q.session = r.session /\ q.rank = r.rank =>
            r = CHOOSE p \in revs : p.session = r.session /\ p.rank = r.rank)}

\* prune_to_current: what is strictly older than another revision of its
\* session goes; every revision tied at the top stays.
Prune(revs) == {r \in revs : \A q \in revs : ~Supersedes(q, r)}
=============================================================================
