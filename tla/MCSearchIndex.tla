---------------------------- MODULE MCSearchIndex ----------------------------
(***************************************************************************)
(* SearchIndex on one machine, whose server handles two requests while the *)
(* indexes are rebuilt, with finitely many disturbances.                   *)
(***************************************************************************)
EXTENDS SearchIndex, FiniteSets

CONSTANTS
    owner, q1, q2,
    MaxChanges,  \* bound on edits, archivals, rebuilds, failures and restarts
    MaxUploads   \* bound on snapshots waiting for their upload

VARIABLE changes

Home == [r \in Request |-> owner]

\* Every session exists at first.
MCInit ==
    /\ Init
    /\ newest = [s \in Session |-> 1]
    /\ changes = 0

MCNext ==
    /\ \/ (\E r \in Request : RequestStep(r)) /\ UNCHANGED changes
       \/ (Publish \/ PublishFails \/ BuildStep) /\ UNCHANGED changes
       \/ (\E v \in Server : Restart(v)) /\ UNCHANGED changes
       \/ /\ BuildStart \/ (\E s \in Session : Change(s))
          /\ changes' = changes + 1
    /\ changes' + accidents' =< MaxChanges
    /\ Cardinality(publishing') =< MaxUploads

MCSpec == MCInit /\ [][MCNext]_<<vars, changes>> /\ Fairness
=============================================================================
