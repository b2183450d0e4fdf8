---------------------------- MODULE MCArchiveLive ----------------------------
(***************************************************************************)
(* Archive with finitely many disturbances, for its liveness properties.   *)
(***************************************************************************)
EXTENDS MCArchive

CONSTANT MaxDisturbances  \* bound on failures, unreadable sources and edits

VARIABLE disturbances

Disturb(m) == Abort(m) \/ ScanPart(m) \/ Edit(m)

\* Each source is on one machine at first.
LiveInit ==
    /\ Init
    /\ \A m, n \in Machine : m # n => local[m] \cap local[n] = {}
    /\ disturbances = 0

LiveNext ==
    \/ /\ (\E m \in Machine : IngestStep(m)) \/ Tick
       /\ UNCHANGED disturbances
    \/ /\ disturbances < MaxDisturbances
       /\ \E m \in Machine : Disturb(m)
       /\ disturbances' = disturbances + 1

LiveSpec == LiveInit /\ [][LiveNext]_<<vars, disturbances>> /\ Fairness
=============================================================================
