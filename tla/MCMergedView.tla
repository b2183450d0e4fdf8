---------------------------- MODULE MCMergedView ----------------------------
(***************************************************************************)
(* MergedView with three bodies, two times (or none) and two counts.       *)
(***************************************************************************)
EXTENDS MergedView

CONSTANTS h1, h2, h3, none

Snapshot(at, count, hash) ==
    [updated_at |-> at, last_message_at |-> none, message_count |-> count,
     content_hash |-> hash]

\* Every hash at two ranks, so that bodies tie and overtake each other; a
\* body has one message count, its time may differ from copy to copy.
SmallItems ==
    {Snapshot(at, IF hash = h3 THEN 2 ELSE 1, hash) :
        at \in {none, 1, 2}, hash \in {h1, h2, h3}}
=============================================================================
