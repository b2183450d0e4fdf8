--------------------------- MODULE Archive_proofs ---------------------------
(***************************************************************************)
(* Theorems about Archive for any number of machines, any revisions, any   *)
(* grace and any number of commit attempts.                                *)
(***************************************************************************)
EXTENDS Archive, WellFoundedInduction, TLAPS

-----------------------------------------------------------------------------
(* What merging and pruning guarantee, for any set of revisions.           *)

\* Ranks are bounded, so among the revisions of a session some are newest.
LEMMA NewestExists ==
    ASSUME NEW S \in SUBSET Revision, NEW r \in S
    PROVE  \E q \in S :
              /\ q.session = r.session
              /\ q.rank >= r.rank
              /\ \A p \in S : ~Supersedes(p, q)
<1> DEFINE Same == {q \in S : q.session = r.session}
           Gap(q) == MaxRank - q.rank
           Gaps == {Gap(q) : q \in Same}
<1>1. \A q \in Same : q.rank \in 0 .. MaxRank /\ Gap(q) \in Nat
  BY RevisionAssumption
<1>2. Gaps \subseteq Nat /\ Gaps # {}
  BY <1>1
<1>3. PICK x \in Gaps : \A y \in Gaps : ~ (<<y, x>> \in OpToRel(<, Nat))
  <2> HIDE DEF Gaps
  <2> QED BY <1>2, NatLessThanWellFounded, WFMin
<1>4. \A y \in Gaps : ~ (y < x)
  <2> HIDE DEF Gaps
  <2> QED BY <1>2, <1>3 DEF OpToRel
<1>5. PICK q \in Same : x = Gap(q)
  OBVIOUS
<1>6. \A p \in Same : p.rank <= q.rank
  <2> SUFFICES ASSUME NEW p \in Same PROVE p.rank <= q.rank
    OBVIOUS
  <2>1. ~ (Gap(p) < Gap(q))
    BY <1>4, <1>5
  <2> QED BY <1>1, <2>1, RevisionAssumption
<1> QED
  BY <1>1, <1>5, <1>6, RevisionAssumption DEF Supersedes

\* prune_to_current loses nothing but what it keeps a strictly newer
\* revision for.
LEMMA PruneKeeps ==
    ASSUME NEW S \in SUBSET Revision, NEW r \in S
    PROVE  r \in Prune(S) \/ \E q \in Prune(S) : Supersedes(q, r)
<1>1. CASE r \in Prune(S)
  BY <1>1
<1>2. CASE r \notin Prune(S)
  <2>1. PICK p \in S : Supersedes(p, r)
    BY <1>2 DEF Prune
  <2>2. PICK q \in S : /\ q.session = p.session
                       /\ q.rank >= p.rank
                       /\ \A o \in S : ~Supersedes(o, q)
    BY NewestExists
  <2>3. q \in Prune(S)
    BY <2>2 DEF Prune
  <2>4. Supersedes(q, r)
    BY <2>1, <2>2, RevisionAssumption DEF Supersedes
  <2> QED BY <2>3, <2>4
<1> QED BY <1>1, <1>2

\* What supersedes a revision that supersedes another supersedes both.
LEMMA SupersedesTransitive ==
    ASSUME NEW p \in Revision, NEW q \in Revision, NEW r \in Revision,
           Supersedes(p, q), Supersedes(q, r)
    PROVE  Supersedes(p, r)
BY RevisionAssumption DEF Supersedes

\* A set that covers the old entries still covers them after a merge and a
\* prune.
LEMMA MergePruneKeeps ==
    ASSUME NEW base \in SUBSET Revision, NEW new \in SUBSET Revision,
           NEW r \in Revision,
           r \in base \/ \E q \in base : Supersedes(q, r)
    PROVE  LET after == Prune(Merge(base, new))
           IN  r \in after \/ \E q \in after : Supersedes(q, r)
<1> DEFINE S == Merge(base, new)
<1>1. S \in SUBSET Revision /\ base \subseteq S
  BY DEF Merge
<1>2. CASE r \in base
  BY <1>1, <1>2, PruneKeeps
<1>3. CASE \E q \in base : Supersedes(q, r)
  <2>1. PICK q \in base : Supersedes(q, r)
    BY <1>3
  <2>2. q \in Prune(S) \/ \E p \in Prune(S) : Supersedes(p, q)
    BY <1>1, PruneKeeps
  <2>3. Prune(S) \subseteq Revision
    BY <1>1 DEF Prune
  <2> QED BY <2>1, <2>2, <2>3, SupersedesTransitive
<1> QED BY <1>2, <1>3
-----------------------------------------------------------------------------
(* Types.                                                                  *)

USE DEF Step, Command, Age

\* Every upload of a scan comes from the local sources.
LEMMA UploadsSubset ==
    ASSUME NEW known, NEW revs, NEW I \in Uploads(known, revs)
    PROVE  I \subseteq revs
BY DEF Uploads

\* A committed catalog holds only what was loaded and what was incoming.
LEMMA MergePruneSubset ==
    ASSUME NEW base, NEW new
    PROVE  Prune(Merge(base, new)) \subseteq base \cup new
BY DEF Prune, Merge

\* An object grows older, but never beyond one more than the grace.
LEMMA OlderAge ==
    ASSUME NEW a \in Age \cup {Absent}
    PROVE  Older(a) \in Age \cup {Absent} /\ (a # Absent <=> Older(a) # Absent)
BY TimeAssumption, AbsentAssumption DEF Older

\* Types hold at first.
LEMMA InitTypeOK == Init => TypeOK /\ AttemptsLeft
BY TimeAssumption, AttemptAssumption DEF Init, TypeOK, AttemptsLeft

\* Every step keeps the types; an attempt begins only when one is left.
LEMMA StepTypeOK ==
    TypeOK /\ AttemptsLeft /\ [Next]_vars => TypeOK' /\ AttemptsLeft'
<1> SUFFICES ASSUME TypeOK, AttemptsLeft, [Next]_vars
             PROVE  TypeOK' /\ AttemptsLeft'
  OBVIOUS
<1> USE TimeAssumption, AttemptAssumption DEF TypeOK, AttemptsLeft, archiveVars
<1>1. ASSUME NEW m \in Machine, Ingest(m) PROVE TypeOK' /\ AttemptsLeft'
  BY <1>1 DEF Ingest, LoadCatalog
<1>2. ASSUME NEW m \in Machine, Scan(m) \/ ScanPart(m) PROVE TypeOK' /\ AttemptsLeft'
  BY <1>2, UploadsSubset DEF Scan, ScanPart, Found
<1>3. ASSUME NEW m \in Machine, ScanConflict(m) PROVE TypeOK' /\ AttemptsLeft'
  BY <1>3 DEF ScanConflict, Return
<1>4. ASSUME NEW m \in Machine, Put(m) PROVE TypeOK' /\ AttemptsLeft'
  <2>1. PICK r \in todo[m] :
            /\ age' = [age EXCEPT ![r.hash] = 0]
            /\ todo' = [todo EXCEPT ![m] = @ \ {r}]
    BY <1>4 DEF Put
  <2>2. r.hash \in Hash
    BY RevisionAssumption
  <2> QED BY <1>4, <2>1, <2>2 DEF Put
<1>5. ASSUME NEW m \in Machine, CommitNothing(m) PROVE TypeOK' /\ AttemptsLeft'
  BY <1>5 DEF CommitNothing, AfterCommit
<1>6. ASSUME NEW m \in Machine, CommitLoad(m) PROVE TypeOK' /\ AttemptsLeft'
  BY <1>6 DEF CommitLoad, LoadCatalog
<1>7. ASSUME NEW m \in Machine, CommitConflict(m) PROVE TypeOK' /\ AttemptsLeft'
  BY <1>7 DEF CommitConflict, Return
<1>8. ASSUME NEW m \in Machine, Commit(m) PROVE TypeOK' /\ AttemptsLeft'
  <2>1. catalog' \subseteq Revision
    BY <1>8, MergePruneSubset DEF Commit
  <2> QED BY <1>8, <2>1 DEF Commit, AfterCommit
<1>9. ASSUME NEW m \in Machine, CommitRetry(m) PROVE TypeOK' /\ AttemptsLeft'
  BY <1>9 DEF CommitRetry
<1>10. ASSUME NEW m \in Machine, CommitGiveUp(m) PROVE TypeOK' /\ AttemptsLeft'
  BY <1>10 DEF CommitGiveUp, Return
<1>11. ASSUME NEW m \in Machine, Gc(m) PROVE TypeOK' /\ AttemptsLeft'
  BY <1>11 DEF Gc
<1>12. ASSUME NEW m \in Machine, SweepLoad(m) PROVE TypeOK' /\ AttemptsLeft'
  BY <1>12 DEF SweepLoad, LoadCatalog
<1>13. ASSUME NEW m \in Machine, SweepList(m) PROVE TypeOK' /\ AttemptsLeft'
  BY <1>13 DEF SweepList
<1>14. ASSUME NEW m \in Machine, SweepDelete(m) PROVE TypeOK' /\ AttemptsLeft'
  BY <1>14 DEF SweepDelete
<1>15. ASSUME NEW m \in Machine, SweepDone(m) PROVE TypeOK' /\ AttemptsLeft'
  BY <1>15 DEF SweepDone, Return
<1>16. ASSUME NEW m \in Machine, Abort(m) PROVE TypeOK' /\ AttemptsLeft'
  BY <1>16 DEF Abort, Return
<1>17. ASSUME NEW m \in Machine, Edit(m) PROVE TypeOK' /\ AttemptsLeft'
  BY <1>17 DEF Edit, runVars
<1>18. ASSUME NEW m \in Machine, Remove(m) PROVE TypeOK' /\ AttemptsLeft'
  BY <1>18 DEF Remove, runVars
<1>19. CASE Tick
  <2>1. age' \in [Hash -> Age \cup {Absent}]
    BY <1>19, OlderAge DEF Tick
  <2>2. sinceSweep' \in [Machine -> 0 .. SweepInterval]
    BY <1>19 DEF Tick
  <2> QED BY <1>19, <2>1, <2>2 DEF Tick
<1>20. CASE UNCHANGED vars
  BY <1>20 DEF vars, runVars
<1> QED
  BY <1>1, <1>2, <1>3, <1>4, <1>5, <1>6, <1>7, <1>8, <1>9, <1>10, <1>11,
     <1>12, <1>13, <1>14, <1>15, <1>16, <1>17, <1>18, <1>19, <1>20
  DEF Next, IngestStep, IngestProceeds, CommitFails

\* The variables keep their types (in particular, no commit is attempted more
\* than MaxAttempts times).
THEOREM TypeCorrect == Spec => []TypeOK
BY InitTypeOK, StepTypeOK, PTL DEF Spec

-----------------------------------------------------------------------------
(* Commits.                                                                *)

\* The inductive invariant of the commits: the conditional PUT replaces
\* exactly the catalog the machine merged into.
CommitInv == TypeOK /\ EtagVouches /\ CommitReady

\* The invariant of the commits holds at first.
LEMMA InitCommitInv == Init => CommitInv
BY InitTypeOK DEF Init, CommitInv, EtagVouches, CommitReady

\* Every step that changes the catalog takes the ETag from all machines.
LEMMA StepEtagVouches ==
    CommitInv /\ [Next]_vars => EtagVouches'
<1> SUFFICES ASSUME CommitInv, [Next]_vars PROVE EtagVouches'
  OBVIOUS
<1> USE DEF CommitInv, TypeOK, EtagVouches, archiveVars
<1>1. ASSUME NEW m \in Machine, Ingest(m) PROVE EtagVouches'
  BY <1>1 DEF Ingest, LoadCatalog
<1>2. ASSUME NEW m \in Machine, Scan(m) \/ ScanPart(m) PROVE EtagVouches'
  BY <1>2 DEF Scan, ScanPart, Found
<1>3. ASSUME NEW m \in Machine, ScanConflict(m) PROVE EtagVouches'
  BY <1>3 DEF ScanConflict, Return
<1>4. ASSUME NEW m \in Machine, Put(m) PROVE EtagVouches'
  BY <1>4 DEF Put
<1>5. ASSUME NEW m \in Machine, CommitNothing(m) PROVE EtagVouches'
  BY <1>5 DEF CommitNothing, AfterCommit
<1>6. ASSUME NEW m \in Machine, CommitLoad(m) PROVE EtagVouches'
  BY <1>6 DEF CommitLoad, LoadCatalog
<1>7. ASSUME NEW m \in Machine, CommitConflict(m) PROVE EtagVouches'
  BY <1>7 DEF CommitConflict, Return
<1>8. ASSUME NEW m \in Machine, Commit(m) PROVE EtagVouches'
  BY <1>8 DEF Commit, AfterCommit
<1>9. ASSUME NEW m \in Machine, CommitRetry(m) PROVE EtagVouches'
  BY <1>9 DEF CommitRetry
<1>10. ASSUME NEW m \in Machine, CommitGiveUp(m) PROVE EtagVouches'
  BY <1>10 DEF CommitGiveUp, Return
<1>11. ASSUME NEW m \in Machine, Gc(m) PROVE EtagVouches'
  BY <1>11 DEF Gc
<1>12. ASSUME NEW m \in Machine, SweepLoad(m) PROVE EtagVouches'
  BY <1>12 DEF SweepLoad, LoadCatalog
<1>13. ASSUME NEW m \in Machine, SweepList(m) PROVE EtagVouches'
  BY <1>13 DEF SweepList
<1>14. ASSUME NEW m \in Machine, SweepDelete(m) PROVE EtagVouches'
  BY <1>14 DEF SweepDelete
<1>15. ASSUME NEW m \in Machine, SweepDone(m) PROVE EtagVouches'
  BY <1>15 DEF SweepDone, Return
<1>16. ASSUME NEW m \in Machine, Abort(m) PROVE EtagVouches'
  BY <1>16 DEF Abort, Return
<1>17. ASSUME NEW m \in Machine, Edit(m) PROVE EtagVouches'
  BY <1>17 DEF Edit, runVars
<1>18. ASSUME NEW m \in Machine, Remove(m) PROVE EtagVouches'
  BY <1>18 DEF Remove, runVars
<1>19. CASE Tick
  BY <1>19 DEF Tick
<1>20. CASE UNCHANGED vars
  BY <1>20 DEF vars, runVars
<1> QED
  BY <1>1, <1>2, <1>3, <1>4, <1>5, <1>6, <1>7, <1>8, <1>9, <1>10, <1>11,
     <1>12, <1>13, <1>14, <1>15, <1>16, <1>17, <1>18, <1>19, <1>20
  DEF Next, IngestStep, IngestProceeds, CommitFails

\* What is about to be written was merged without a conflict.
LEMMA StepCommitReady ==
    CommitInv /\ [Next]_vars => CommitReady'
<1> SUFFICES ASSUME CommitInv, [Next]_vars PROVE CommitReady'
  OBVIOUS
<1> USE DEF CommitInv, TypeOK, CommitReady, archiveVars
<1>1. ASSUME NEW m \in Machine, Ingest(m) PROVE CommitReady'
  BY <1>1 DEF Ingest, LoadCatalog
<1>2. ASSUME NEW m \in Machine, Scan(m) \/ ScanPart(m) PROVE CommitReady'
  BY <1>2 DEF Scan, ScanPart, Found
<1>3. ASSUME NEW m \in Machine, ScanConflict(m) PROVE CommitReady'
  BY <1>3 DEF ScanConflict, Return
<1>4. ASSUME NEW m \in Machine, Put(m) PROVE CommitReady'
  BY <1>4 DEF Put
<1>5. ASSUME NEW m \in Machine, CommitNothing(m) PROVE CommitReady'
  BY <1>5 DEF CommitNothing, AfterCommit
<1>6. ASSUME NEW m \in Machine, CommitLoad(m) PROVE CommitReady'
  BY <1>6 DEF CommitLoad, LoadCatalog
<1>7. ASSUME NEW m \in Machine, CommitConflict(m) PROVE CommitReady'
  BY <1>7 DEF CommitConflict, Return
<1>8. ASSUME NEW m \in Machine, Commit(m) PROVE CommitReady'
  BY <1>8 DEF Commit, AfterCommit
<1>9. ASSUME NEW m \in Machine, CommitRetry(m) PROVE CommitReady'
  BY <1>9 DEF CommitRetry
<1>10. ASSUME NEW m \in Machine, CommitGiveUp(m) PROVE CommitReady'
  BY <1>10 DEF CommitGiveUp, Return
<1>11. ASSUME NEW m \in Machine, Gc(m) PROVE CommitReady'
  BY <1>11 DEF Gc
<1>12. ASSUME NEW m \in Machine, SweepLoad(m) PROVE CommitReady'
  BY <1>12 DEF SweepLoad, LoadCatalog
<1>13. ASSUME NEW m \in Machine, SweepList(m) PROVE CommitReady'
  BY <1>13 DEF SweepList
<1>14. ASSUME NEW m \in Machine, SweepDelete(m) PROVE CommitReady'
  BY <1>14 DEF SweepDelete
<1>15. ASSUME NEW m \in Machine, SweepDone(m) PROVE CommitReady'
  BY <1>15 DEF SweepDone, Return
<1>16. ASSUME NEW m \in Machine, Abort(m) PROVE CommitReady'
  BY <1>16 DEF Abort, Return
<1>17. ASSUME NEW m \in Machine, Edit(m) PROVE CommitReady'
  BY <1>17 DEF Edit, runVars
<1>18. ASSUME NEW m \in Machine, Remove(m) PROVE CommitReady'
  BY <1>18 DEF Remove, runVars
<1>19. CASE Tick
  BY <1>19 DEF Tick
<1>20. CASE UNCHANGED vars
  BY <1>20 DEF vars, runVars
<1> QED
  BY <1>1, <1>2, <1>3, <1>4, <1>5, <1>6, <1>7, <1>8, <1>9, <1>10, <1>11,
     <1>12, <1>13, <1>14, <1>15, <1>16, <1>17, <1>18, <1>19, <1>20
  DEF Next, IngestStep, IngestProceeds, CommitFails

\* The ETag a machine holds vouches for the catalog it loaded, and what it is
\* about to write was merged without a conflict (remote.rs:36-47).
THEOREM CommitInvariant == Spec => []CommitInv
<1>1. CommitInv /\ AttemptsLeft /\ [Next]_vars => CommitInv' /\ AttemptsLeft'
  BY StepTypeOK, StepEtagVouches, StepCommitReady DEF CommitInv
<1>2. Init => CommitInv /\ AttemptsLeft
  BY InitCommitInv, InitTypeOK
<1> QED
  BY <1>1, <1>2, PTL DEF Spec

\* Only a successful conditional PUT changes the catalog.
LEMMA OnlyCommitWrites ==
    [Next]_vars =>
        \/ \E m \in Machine : Commit(m)
        \/ catalog' = catalog /\ history' = history
BY DEF Next, IngestStep, IngestProceeds, CommitFails, vars, archiveVars,
       Ingest, Scan, ScanPart, Found, ScanConflict, Put, CommitNothing,
       CommitLoad, CommitConflict, CommitRetry, CommitGiveUp, Gc, SweepLoad,
       SweepList, SweepDelete, SweepDone, Abort, Edit, Remove, Tick

\* The catalog a commit replaces is the one it merged into.
LEMMA CommitMerges ==
    ASSUME CommitInv, NEW m \in Machine, Commit(m)
    PROVE  /\ incoming[m] \in SUBSET Revision
           /\ incoming[m] # {}
           /\ ~Conflict(catalog \cup incoming[m])
           /\ catalog' = Prune(Merge(catalog, incoming[m]))
           /\ history' = history \cup catalog'
BY DEF Commit, CommitInv, TypeOK, EtagVouches, CommitReady

\* The catalog never holds a session under two repositories.
THEOREM OneRepo == Spec => []OneRepoPerSession
<1>1. Init => OneRepoPerSession
  BY DEF Init, OneRepoPerSession, Conflict
<1>2. CommitInv /\ OneRepoPerSession /\ [Next]_vars => OneRepoPerSession'
  <2> SUFFICES ASSUME CommitInv, OneRepoPerSession, [Next]_vars
               PROVE  OneRepoPerSession'
    OBVIOUS
  <2>1. ASSUME NEW m \in Machine, Commit(m) PROVE OneRepoPerSession'
    <3>1. catalog' \subseteq catalog \cup incoming[m]
      BY <2>1, CommitMerges, MergePruneSubset
    <3>2. ~Conflict(catalog \cup incoming[m])
      BY <2>1, CommitMerges
    <3> QED BY <3>1, <3>2 DEF OneRepoPerSession, Conflict
  <2>2. CASE catalog' = catalog
    BY <2>2 DEF OneRepoPerSession, Conflict
  <2> QED BY <2>1, <2>2, OnlyCommitWrites
<1> QED
  BY <1>1, <1>2, CommitInvariant, PTL DEF Spec

\* What a committed catalog held stays, or gives way to something newer, for
\* any number of machines that commit, fail and retry.
THEOREM NothingCommittedIsLost == Spec => []CommittedKept
<1>1. Init => CommittedKept
  BY DEF Init, CommittedKept
<1>2. CommitInv /\ CommittedKept /\ [Next]_vars => CommittedKept'
  <2> SUFFICES ASSUME CommitInv, CommittedKept, [Next]_vars
               PROVE  CommittedKept'
    OBVIOUS
  <2>1. ASSUME NEW m \in Machine, Commit(m) PROVE CommittedKept'
    <3> SUFFICES ASSUME NEW r \in history'
                 PROVE  \/ r \in catalog'
                        \/ \E q \in catalog' : Supersedes(q, r)
      BY DEF CommittedKept
    <3>1. CASE r \in catalog'
      BY <3>1
    <3>2. CASE r \in history
      <4>1. r \in catalog \/ \E q \in catalog : Supersedes(q, r)
        BY <3>2 DEF CommittedKept
      <4>2. r \in Revision /\ catalog \in SUBSET Revision
        BY <3>2 DEF CommitInv, TypeOK
      <4> QED BY <2>1, <4>1, <4>2, CommitMerges, MergePruneKeeps
    <3> QED BY <2>1, <3>1, <3>2, CommitMerges
  <2>2. CASE catalog' = catalog /\ history' = history
    BY <2>2 DEF CommittedKept
  <2> QED BY <2>1, <2>2, OnlyCommitWrites
<1> QED
  BY <1>1, <1>2, CommitInvariant, PTL DEF Spec

\* No commit drops a revision it has uploaded, whatever was committed between
\* its load and its PUT.
THEOREM CommitsArchive == Spec => CommitArchives
<1>1. ASSUME CommitInv, NEW m \in Machine, Commit(m), NEW r \in incoming[m],
             \A q \in catalog : q.hash = r.hash => q = r
      PROVE  r \in catalog' \/ \E q \in catalog' : Supersedes(q, r)
  <2>1. r \in Merge(catalog, incoming[m])
    BY <1>1 DEF Merge, Hashes
  <2>2. Merge(catalog, incoming[m]) \in SUBSET Revision
    BY <1>1, CommitMerges DEF Merge, CommitInv, TypeOK
  <2> QED BY <1>1, <2>1, <2>2, CommitMerges, PruneKeeps
<1>2. CommitInv =>
        [\A m \in Machine : Commit(m) =>
            \A r \in incoming[m] :
                \/ r \in catalog'
                \/ \E q \in catalog' : Supersedes(q, r)
                \/ \E q \in catalog : q.hash = r.hash /\ q # r]_vars
  BY <1>1
<1> QED
  BY <1>2, CommitInvariant, PTL DEF CommitArchives

\* The optimistic commit implements the atomic catalog: a successful PUT maps
\* to Publish, every other step to a stutter.
THEOREM CommitsRefineAtomicCatalog == Spec => CommitsAreAtomic
<1>1. Init => Atomic!Init
  BY DEF Init, Atomic!Init
<1>2. CommitInv /\ [Next]_vars => [Atomic!Next]_catalog
  <2> SUFFICES ASSUME CommitInv, [Next]_vars PROVE [Atomic!Next]_catalog
    OBVIOUS
  <2>1. ASSUME NEW m \in Machine, Commit(m) PROVE Atomic!Next
    BY <2>1, CommitMerges
    DEF Atomic!Next, Atomic!Publish, Conflict, Prune, Merge, Hashes,
        Supersedes, Atomic!Conflict, Atomic!Prune, Atomic!Merge,
        Atomic!Hashes, Atomic!Supersedes
  <2> QED BY <2>1, OnlyCommitWrites
<1> QED
  BY <1>1, <1>2, CommitInvariant, PTL DEF Spec, CommitsAreAtomic, Atomic!Spec

-----------------------------------------------------------------------------
(* One machine: the run lock keeps its sweeps apart from its commits.      *)

\* The inductive invariant of a bucket that only one machine writes.
IntactInv == UploadedBeforeCommit /\ SweepUpToDate /\ NoDanglingReference

\* The invariant of a single machine holds at first.
LEMMA InitIntactInv == Init => IntactInv
BY DEF Init, IntactInv, UploadedBeforeCommit, SweepUpToDate,
       NoDanglingReference

\* With one machine, every step keeps the bodies of the catalog in the bucket.
LEMMA StepIntactInv ==
    ASSUME \A m, n \in Machine : m = n,
           CommitInv, IntactInv, [Next]_vars
    PROVE  IntactInv'
<1>0. ASSUME NEW m \in Machine, Commit(m) PROVE catalog' \subseteq catalog \cup incoming[m]
  BY <1>0, MergePruneSubset, CommitMerges
<1> USE DEF CommitInv, TypeOK, IntactInv, archiveVars
<1>1. ASSUME NEW m \in Machine, Ingest(m) PROVE IntactInv'
  BY <1>1 DEF Ingest, LoadCatalog, UploadedBeforeCommit, SweepUpToDate,
     NoDanglingReference
<1>2. ASSUME NEW m \in Machine, Scan(m) \/ ScanPart(m) PROVE IntactInv'
  BY <1>2 DEF Scan, ScanPart, Found, UploadedBeforeCommit, SweepUpToDate,
     NoDanglingReference
<1>3. ASSUME NEW m \in Machine, ScanConflict(m) PROVE IntactInv'
  BY <1>3 DEF ScanConflict, Return, UploadedBeforeCommit, SweepUpToDate,
     NoDanglingReference
<1>4. ASSUME NEW m \in Machine, Put(m) PROVE IntactInv'
  <2>1. PICK r \in todo[m] :
            /\ age' = [age EXCEPT ![r.hash] = 0]
            /\ todo' = [todo EXCEPT ![m] = @ \ {r}]
    BY <1>4 DEF Put
  <2>2. \A h \in Hash : age'[h] = IF h = r.hash THEN 0 ELSE age[h]
    BY <2>1
  <2>3. UploadedBeforeCommit'
    BY <1>4, <2>1, <2>2, AbsentAssumption, RevisionAssumption
    DEF Put, UploadedBeforeCommit
  <2>4. SweepUpToDate'
    BY <1>4 DEF Put, SweepUpToDate
  <2>5. NoDanglingReference'
    BY <1>4, <2>2, AbsentAssumption, RevisionAssumption
    DEF Put, NoDanglingReference
  <2> QED BY <2>3, <2>4, <2>5
<1>5. ASSUME NEW m \in Machine, CommitNothing(m) PROVE IntactInv'
  BY <1>5 DEF CommitNothing, AfterCommit, UploadedBeforeCommit, SweepUpToDate,
     NoDanglingReference
<1>6. ASSUME NEW m \in Machine, CommitLoad(m) PROVE IntactInv'
  BY <1>6 DEF CommitLoad, LoadCatalog, UploadedBeforeCommit, SweepUpToDate,
     NoDanglingReference
<1>7. ASSUME NEW m \in Machine, CommitConflict(m) PROVE IntactInv'
  BY <1>7 DEF CommitConflict, Return, UploadedBeforeCommit, SweepUpToDate,
     NoDanglingReference
<1>8. ASSUME NEW m \in Machine, Commit(m) PROVE IntactInv'
  <2>1. catalog' \subseteq catalog \cup incoming[m]
    BY <1>0, <1>8
  <2>2. \A r \in incoming[m] : age[r.hash] # Absent
    BY <1>8 DEF Commit, UploadedBeforeCommit
  <2>3. NoDanglingReference'
    BY <1>8, <2>1, <2>2 DEF Commit, NoDanglingReference
  <2>4. UploadedBeforeCommit' /\ SweepUpToDate'
    BY <1>8 DEF Commit, AfterCommit, UploadedBeforeCommit, SweepUpToDate
  <2> QED BY <2>3, <2>4
<1>9. ASSUME NEW m \in Machine, CommitRetry(m) PROVE IntactInv'
  BY <1>9 DEF CommitRetry, UploadedBeforeCommit, SweepUpToDate,
     NoDanglingReference
<1>10. ASSUME NEW m \in Machine, CommitGiveUp(m) PROVE IntactInv'
  BY <1>10 DEF CommitGiveUp, Return, UploadedBeforeCommit, SweepUpToDate,
     NoDanglingReference
<1>11. ASSUME NEW m \in Machine, Gc(m) PROVE IntactInv'
  BY <1>11 DEF Gc, UploadedBeforeCommit, SweepUpToDate,
     NoDanglingReference
<1>12. ASSUME NEW m \in Machine, SweepLoad(m) PROVE IntactInv'
  BY <1>12 DEF SweepLoad, LoadCatalog, UploadedBeforeCommit, SweepUpToDate,
     NoDanglingReference
<1>13. ASSUME NEW m \in Machine, SweepList(m) PROVE IntactInv'
  BY <1>13 DEF SweepList, UploadedBeforeCommit, SweepUpToDate,
     NoDanglingReference
<1>14. ASSUME NEW m \in Machine, SweepDelete(m) PROVE IntactInv'
  <2>1. PICK h \in doomed[m] : age' = [age EXCEPT ![h] = Absent]
    BY <1>14 DEF SweepDelete
  <2>2. h \notin Hashes(catalog)
    BY <1>14, <2>1 DEF SweepDelete, SweepUpToDate
  <2>3. NoDanglingReference'
    BY <1>14, <2>1, <2>2, RevisionAssumption
    DEF SweepDelete, NoDanglingReference, Hashes
  <2>4. UploadedBeforeCommit' /\ SweepUpToDate'
    BY <1>14 DEF SweepDelete, UploadedBeforeCommit, SweepUpToDate
  <2> QED BY <2>3, <2>4
<1>15. ASSUME NEW m \in Machine, SweepDone(m) PROVE IntactInv'
  BY <1>15 DEF SweepDone, Return, UploadedBeforeCommit, SweepUpToDate,
     NoDanglingReference
<1>16. ASSUME NEW m \in Machine, Abort(m) PROVE IntactInv'
  BY <1>16 DEF Abort, Return, UploadedBeforeCommit, SweepUpToDate,
     NoDanglingReference
<1>17. ASSUME NEW m \in Machine, Edit(m) PROVE IntactInv'
  BY <1>17 DEF Edit, runVars, UploadedBeforeCommit, SweepUpToDate,
     NoDanglingReference
<1>18. ASSUME NEW m \in Machine, Remove(m) PROVE IntactInv'
  BY <1>18 DEF Remove, runVars, UploadedBeforeCommit, SweepUpToDate,
     NoDanglingReference
<1>19. CASE Tick
  <2>1. \A h \in Hash : age'[h] # Absent <=> age[h] # Absent
    BY <1>19, OlderAge DEF Tick
  <2>2. UploadedBeforeCommit'
    BY <1>19, <2>1, RevisionAssumption DEF Tick, UploadedBeforeCommit
  <2>3. SweepUpToDate' /\ NoDanglingReference'
    BY <1>19, <2>1, RevisionAssumption
    DEF Tick, SweepUpToDate, NoDanglingReference
  <2> QED BY <2>2, <2>3
<1>20. CASE UNCHANGED vars
  BY <1>20 DEF vars, runVars, UploadedBeforeCommit, SweepUpToDate,
     NoDanglingReference
<1> QED
  BY <1>1, <1>2, <1>3, <1>4, <1>5, <1>6, <1>7, <1>8, <1>9, <1>10, <1>11,
     <1>12, <1>13, <1>14, <1>15, <1>16, <1>17, <1>18, <1>19, <1>20
  DEF Next, IngestStep, IngestProceeds, CommitFails

\* If one machine alone writes the bucket, every revision of the catalog has
\* its body, whatever fails in between.
THEOREM OneMachineIntact ==
    ASSUME \A m, n \in Machine : m = n
    PROVE  Spec => []NoDanglingReference
<1>1. CommitInv /\ IntactInv /\ [Next]_vars => IntactInv'
  BY StepIntactInv
<1>2. IntactInv => NoDanglingReference
  BY DEF IntactInv
<1> QED
  BY <1>1, <1>2, InitIntactInv, CommitInvariant, PTL DEF Spec

\* Only a sweep's DELETE removes a body.
LEMMA OnlySweepDeletes ==
    ASSUME TypeOK, [Next]_vars, NEW h \in Hash, Deleted(h)
    PROVE  \E m \in Machine : pc[m] = "delete" /\ h \in doomed[m]
<1> USE DEF TypeOK, Deleted, archiveVars
<1>1. ASSUME NEW m \in Machine, Put(m) PROVE FALSE
  BY <1>1, AbsentAssumption DEF Put
<1>2. ASSUME NEW m \in Machine, SweepDelete(m) PROVE h \in doomed[m]
  BY <1>2 DEF SweepDelete
<1>3. CASE Tick
  BY <1>3, OlderAge DEF Tick
<1>4. CASE age' = age
  BY <1>4
<1> QED
  BY <1>1, <1>2, <1>3, <1>4
  DEF Next, IngestStep, IngestProceeds, CommitFails, vars, Ingest, Scan,
      ScanPart, Found, ScanConflict, CommitNothing, CommitLoad,
      CommitConflict, Commit, CommitRetry, CommitGiveUp, Gc, SweepLoad,
      SweepList, SweepDelete, SweepDone, Abort, Edit, Remove

\* If one machine alone writes the bucket, a sweep deletes only bodies that
\* the catalog does not reference at that moment.
THEOREM OneMachineSweepsOrphans ==
    ASSUME \A m, n \in Machine : m = n
    PROVE  Spec => SweepSparesReferenced
<1>1. CommitInv /\ IntactInv /\ [Next]_vars => IntactInv'
  BY StepIntactInv
<1>2. CommitInv /\ IntactInv /\ [Next]_vars =>
        \A h \in Hash : Deleted(h) => h \notin Hashes(catalog)
  BY OnlySweepDeletes DEF CommitInv, IntactInv, SweepUpToDate
<1>3. CommitInv /\ IntactInv /\ [Next]_vars =>
        [\A h \in Hash : Deleted(h) => h \notin Hashes(catalog)]_vars
  BY <1>2
<1> QED
  BY <1>1, <1>3, InitIntactInv, CommitInvariant, PTL
  DEF Spec, SweepSparesReferenced

\* With one machine, what a sweep is about to delete has been older than the
\* grace since the listing: nothing uploads it anew before the DELETE.
DoomedOld ==
    \A m \in Machine : \A h \in doomed[m] :
        pc[m] = "delete" /\ (age[h] # Absent => age[h] > Grace)

\* With one machine, no step makes a doomed body recent.
LEMMA StepDoomedOld ==
    ASSUME \A m, n \in Machine : m = n,
           TypeOK, DoomedOld, [Next]_vars
    PROVE  DoomedOld'
<1> USE DEF TypeOK, DoomedOld, archiveVars
<1>1. ASSUME NEW m \in Machine, Put(m) PROVE DoomedOld'
  BY <1>1 DEF Put
<1>2. ASSUME NEW m \in Machine, SweepList(m) PROVE DoomedOld'
  BY <1>2 DEF SweepList
<1>3. ASSUME NEW m \in Machine, SweepDelete(m) PROVE DoomedOld'
  <2>1. PICK h \in doomed[m] :
            /\ age' = [age EXCEPT ![h] = Absent]
            /\ doomed' = [doomed EXCEPT ![m] = @ \ {h}]
    BY <1>3 DEF SweepDelete
  <2> QED BY <1>3, <2>1 DEF SweepDelete
<1>4. CASE Tick
  <2>1. \A h \in Hash : age[h] # Absent /\ age[h] > Grace => age'[h] = age[h]
    BY <1>4 DEF Tick, Older
  <2>2. \A h \in Hash : age'[h] # Absent <=> age[h] # Absent
    BY <1>4, OlderAge DEF Tick
  <2> QED BY <1>4, <2>1, <2>2 DEF Tick
<1>5. ASSUME NEW m \in Machine,
             \/ ScanConflict(m) \/ CommitConflict(m) \/ CommitGiveUp(m)
             \/ SweepDone(m) \/ Abort(m)
      PROVE  DoomedOld'
  BY <1>5 DEF ScanConflict, CommitConflict, CommitGiveUp, SweepDone, Abort,
              Return
<1>6. ASSUME NEW m \in Machine,
             \/ Ingest(m) \/ Scan(m) \/ ScanPart(m) \/ CommitNothing(m)
             \/ CommitLoad(m) \/ Commit(m) \/ CommitRetry(m) \/ Gc(m)
             \/ SweepLoad(m)
      PROVE  DoomedOld'
  BY <1>6 DEF Ingest, Scan, ScanPart, Found, CommitNothing, CommitLoad,
              Commit, CommitRetry, Gc, SweepLoad, AfterCommit
<1>7. ASSUME NEW m \in Machine, Edit(m) \/ Remove(m) PROVE DoomedOld'
  BY <1>7 DEF Edit, Remove, runVars
<1>8. CASE UNCHANGED vars
  BY <1>8 DEF vars, runVars
<1> QED
  BY <1>1, <1>2, <1>3, <1>4, <1>5, <1>6, <1>7, <1>8
  DEF Next, IngestStep, IngestProceeds, CommitFails

\* If one machine alone writes the bucket, a sweep deletes only objects that
\* are older than the grace at that moment (ingest.rs:24-26).
THEOREM OneMachineSparesRecent ==
    ASSUME \A m, n \in Machine : m = n
    PROVE  Spec => SweepSparesRecent
<1>1. Init => DoomedOld
  BY DEF Init, DoomedOld
<1>2. TypeOK /\ DoomedOld /\ [Next]_vars => DoomedOld'
  BY StepDoomedOld
<1>3. TypeOK /\ DoomedOld /\ [Next]_vars =>
        [\A h \in Hash : Deleted(h) => age[h] > Grace]_vars
  <2> SUFFICES ASSUME TypeOK, DoomedOld, [Next]_vars,
                      NEW h \in Hash, Deleted(h)
               PROVE  age[h] > Grace
    OBVIOUS
  <2> QED BY OnlySweepDeletes DEF DoomedOld, Deleted
<1> QED
  BY <1>1, <1>2, <1>3, TypeCorrect, PTL DEF Spec, SweepSparesRecent

-----------------------------------------------------------------------------
(* Any number of machines that are prompt: the grace does what it is for.  *)

\* Revisions whose body the machine has uploaded and not yet committed.
Uncommitted(m) == incoming[m] \ todo[m]

Fresh(h) == age[h] # Absent /\ age[h] <= Grace

\* Where a machine may have revisions to upload or to commit.
PipelineShape ==
    \A m \in Machine :
        /\ todo[m] \subseteq incoming[m]
        /\ pc[m] \notin {"put", "commit"} => incoming[m] = {}
        /\ pc[m] = "commit" => todo[m] = {}

\* Every commit prunes.
CatalogPruned == \A q, r \in catalog : ~Supersedes(q, r)

\* No sweep takes a body that waits for its commit, or that commit is in vain.
UploadsFresh ==
    \A m \in Machine : \A r \in Uncommitted(m) : Fresh(r.hash) \/ Stale(r)

\* An object that the catalog does not name is superseded for good or about
\* to be committed.
OrphansExplained ==
    \A h \in Hash : age[h] # Absent /\ h \notin Hashes(catalog) =>
        \E r \in Revision :
            /\ r.hash = h
            /\ Stale(r) \/ \E m \in Machine : r \in Uncommitted(m)

\* What was committed since a sweep loaded the catalog is too young for it.
ListFresh ==
    \A m \in Machine : pc[m] = "list" =>
        \A r \in catalog : r.hash \in Hashes(seen[m]) \/ Fresh(r.hash)

\* A sweep deletes only what is superseded for good.
DoomedStale ==
    \A m \in Machine : \A h \in doomed[m] :
        \E r \in Revision : r.hash = h /\ Stale(r)

\* The inductive invariant of prompt machines.
PromptInv ==
    /\ PipelineShape
    /\ CatalogPruned
    /\ UploadsFresh
    /\ OrphansExplained
    /\ ListFresh
    /\ DoomedStale
    /\ NoDanglingReference

\* Prompt machines do nothing that machines do not do in general.
LEMMA PromptIsNext == [PromptNext]_vars => [Next]_vars
BY DEF PromptNext, Next, IngestStep

\* The invariant of prompt machines holds at first.
LEMMA InitPromptInv == Init => PromptInv
BY DEF Init, PromptInv, PipelineShape, CatalogPruned, UploadsFresh,
       OrphansExplained, ListFresh, DoomedStale, NoDanglingReference,
       Uncommitted

\* The requests of a command come in order, and only a commit may follow a
\* load of the catalog that has uploaded everything.
LEMMA StepPipelineShape ==
    ASSUME TypeOK, PipelineShape, [Next]_vars
    PROVE  PipelineShape'
<1> USE DEF TypeOK, PipelineShape, archiveVars
<1>1. ASSUME NEW m \in Machine, Put(m) PROVE PipelineShape'
  BY <1>1 DEF Put
<1>2. ASSUME NEW m \in Machine,
             \/ ScanConflict(m) \/ CommitConflict(m) \/ CommitGiveUp(m)
             \/ SweepDone(m) \/ Abort(m)
      PROVE  PipelineShape'
  BY <1>2 DEF ScanConflict, CommitConflict, CommitGiveUp, SweepDone, Abort,
              Return
<1>3. ASSUME NEW m \in Machine, Scan(m) \/ ScanPart(m) PROVE PipelineShape'
  BY <1>3 DEF Scan, ScanPart, Found
<1>4. ASSUME NEW m \in Machine, CommitNothing(m) \/ Commit(m)
      PROVE  PipelineShape'
  BY <1>4 DEF CommitNothing, Commit, AfterCommit
<1>5. ASSUME NEW m \in Machine,
             \/ Ingest(m) \/ CommitLoad(m) \/ CommitRetry(m) \/ Gc(m)
             \/ SweepLoad(m) \/ SweepList(m) \/ SweepDelete(m)
      PROVE  PipelineShape'
  BY <1>5 DEF Ingest, CommitLoad, CommitRetry, Gc, SweepLoad, SweepList,
              SweepDelete
<1>6. CASE Tick
  BY <1>6 DEF Tick
<1>7. ASSUME NEW m \in Machine, Edit(m) \/ Remove(m) PROVE PipelineShape'
  BY <1>7 DEF Edit, Remove, runVars
<1>8. CASE UNCHANGED vars
  BY <1>8 DEF vars, runVars
<1> QED
  BY <1>1, <1>2, <1>3, <1>4, <1>5, <1>6, <1>7, <1>8
  DEF Next, IngestStep, IngestProceeds, CommitFails

\* What a commit writes: nothing superseded, and each revision it had before
\* it or brought is there or superseded.
LEMMA CommitWrites ==
    ASSUME BodiesStay, CommitInv, NEW m \in Machine, Commit(m)
    PROVE  /\ catalog' \subseteq catalog \cup incoming[m]
           /\ \A r \in catalog' : ~Stale(r)
           /\ CatalogPruned'
           /\ \A r \in Revision : Stale(r) => Stale(r)'
           /\ \A r \in catalog \cup incoming[m] : r \in catalog' \/ Stale(r)'
<1> DEFINE S == Merge(catalog, incoming[m])
<1>1. /\ incoming[m] \in SUBSET Revision
      /\ catalog \in SUBSET Revision
      /\ catalog' = Prune(S)
  BY CommitMerges DEF CommitInv, TypeOK
<1>2. catalog' \subseteq catalog \cup incoming[m]
  BY <1>1, MergePruneSubset
<1>3. /\ \A r \in catalog' : ~Stale(r)
      /\ CatalogPruned'
  BY <1>1 DEF Prune, Merge, Stale, CatalogPruned
<1>4. ASSUME NEW r \in Revision, Stale(r) PROVE Stale(r)'
  <2>1. PICK q \in catalog : Supersedes(q, r)
    BY <1>4 DEF Stale
  <2>2. r \in catalog' \/ \E p \in catalog' : Supersedes(p, r)
    BY <1>1, <2>1, MergePruneKeeps
  <2> QED BY <1>3, <1>4, <2>2 DEF Stale
<1>5. ASSUME NEW r \in catalog \cup incoming[m]
      PROVE  r \in catalog' \/ Stale(r)'
  <2>1. r \in S
    BY <1>1 DEF Merge, Hashes, BodiesStay
  <2>2. S \in SUBSET Revision
    BY <1>1 DEF Merge
  <2> HIDE DEF S
  <2> QED BY <1>1, <2>1, <2>2, PruneKeeps DEF Stale
<1> QED BY <1>2, <1>3, <1>4, <1>5

\* Being superseded is for good.
LEMMA StaleStays ==
    ASSUME BodiesStay, CommitInv, [Next]_vars, NEW r \in Revision, Stale(r)
    PROVE  Stale(r)'
<1>1. ASSUME NEW m \in Machine, Commit(m) PROVE Stale(r)'
  BY <1>1, CommitWrites
<1>2. CASE catalog' = catalog
  BY <1>2 DEF Stale
<1> QED BY <1>1, <1>2, OnlyCommitWrites

\* What the catalog names is not superseded.
LEMMA NamedNotStale ==
    ASSUME BodiesStay, CommitInv, CatalogPruned, DoomedStale,
           NEW m \in Machine, NEW h \in doomed[m]
    PROVE  h \notin Hashes(catalog)
BY DEF BodiesStay, CommitInv, TypeOK, CatalogPruned, DoomedStale, Hashes,
       Stale

\* The steps that touch neither the catalog nor a body, nor doom one.
PrivateStep(m) ==
    \/ Ingest(m) \/ Scan(m) \/ ScanPart(m) \/ ScanConflict(m)
    \/ CommitNothing(m) \/ CommitLoad(m) \/ CommitRetry(m)
    \/ SweepLoad(m) \/ SweepDone(m) \/ Gc(m) \/ Edit(m) \/ Remove(m)
    \/ NothingUploaded(m) /\ Abort(m)

\* What such a step leaves alone; whoever enters the listing has just loaded
\* the catalog.
LEMMA PrivateKeeps ==
    ASSUME TypeOK, PipelineShape, NEW m \in Machine, PrivateStep(m)
    PROVE  /\ catalog' = catalog
           /\ age' = age
           /\ \A n \in Machine :
                /\ Uncommitted(n)' = Uncommitted(n)
                /\ doomed'[n] \subseteq doomed[n]
                /\ pc'[n] = "list" =>
                      \/ seen'[n] = catalog
                      \/ pc[n] = "list" /\ seen'[n] = seen[n]
<1> USE DEF TypeOK, PipelineShape, Uncommitted, archiveVars
<1>1. CASE Scan(m) \/ ScanPart(m)
  BY <1>1 DEF Scan, ScanPart, Found
<1>2. CASE ScanConflict(m) \/ SweepDone(m)
  BY <1>2 DEF ScanConflict, SweepDone, Return
<1>3. CASE CommitNothing(m)
  BY <1>3 DEF CommitNothing, AfterCommit
<1>4. CASE \/ Ingest(m) \/ CommitLoad(m) \/ CommitRetry(m) \/ SweepLoad(m)
           \/ Gc(m)
  BY <1>4 DEF Ingest, CommitLoad, CommitRetry, SweepLoad, Gc, LoadCatalog
<1>5. CASE NothingUploaded(m) /\ Abort(m)
  BY <1>5 DEF NothingUploaded, Abort, Return
<1>6. CASE Edit(m) \/ Remove(m)
  BY <1>6 DEF Edit, Remove, runVars
<1> QED BY <1>1, <1>2, <1>3, <1>4, <1>5, <1>6 DEF PrivateStep

\* A step that touches nothing shared keeps the invariant.
LEMMA PrivatePromptInv ==
    ASSUME TypeOK, PromptInv, NEW m \in Machine, PrivateStep(m),
           PipelineShape'
    PROVE  PromptInv'
<1> USE DEF PromptInv
<1>1. /\ catalog' = catalog
      /\ age' = age
      /\ \A n \in Machine :
            /\ Uncommitted(n)' = Uncommitted(n)
            /\ doomed'[n] \subseteq doomed[n]
            /\ pc'[n] = "list" =>
                  \/ seen'[n] = catalog
                  \/ pc[n] = "list" /\ seen'[n] = seen[n]
  BY PrivateKeeps
<1>2. CatalogPruned' /\ NoDanglingReference'
  BY <1>1 DEF CatalogPruned, NoDanglingReference
<1>3. UploadsFresh'
  BY <1>1 DEF UploadsFresh, Fresh, Stale
<1>4. OrphansExplained'
  BY <1>1 DEF OrphansExplained, Stale
<1>5. ListFresh'
  BY <1>1 DEF ListFresh, Fresh, Hashes
<1>6. DoomedStale'
  BY <1>1 DEF DoomedStale, Stale
<1> QED BY <1>2, <1>3, <1>4, <1>5, <1>6

\* An upload makes a body fresh and leaves the catalog alone.
LEMMA PutPromptInv ==
    ASSUME TypeOK, PromptInv, NEW m \in Machine, Put(m), PipelineShape'
    PROVE  PromptInv'
<1> USE DEF PromptInv, TypeOK
<1>1. PICK r \in todo[m] :
          /\ age' = [age EXCEPT ![r.hash] = 0]
          /\ todo' = [todo EXCEPT ![m] = @ \ {r}]
  BY DEF Put
<1>2. /\ catalog' = catalog /\ incoming' = incoming /\ doomed' = doomed
      /\ pc' = pc /\ seen' = seen
      /\ r \in incoming[m] /\ r \in Revision
  BY <1>1 DEF Put, PipelineShape
<1>3. \A h \in Hash : age'[h] = IF h = r.hash THEN 0 ELSE age[h]
  BY <1>1
<1>4. \A h \in Hash : h = r.hash \/ Fresh(h) => Fresh(h)'
  BY <1>3, TimeAssumption, AbsentAssumption DEF Fresh
<1>5. \A n \in Machine :
        /\ Uncommitted(n) \subseteq Uncommitted(n)'
        /\ \A q \in Uncommitted(n)' : q = r \/ q \in Uncommitted(n)
  BY <1>1, <1>2 DEF Uncommitted
<1>6. r \in Uncommitted(m)'
  BY <1>1, <1>2 DEF Uncommitted
<1>7. \A n \in Machine : Uncommitted(n) \subseteq Revision
  BY DEF Uncommitted
<1>8. CatalogPruned' /\ DoomedStale'
  BY <1>2 DEF CatalogPruned, DoomedStale, Stale
<1>9. UploadsFresh'
  BY <1>2, <1>4, <1>5, <1>7, RevisionAssumption DEF UploadsFresh, Stale
<1>10. OrphansExplained'
  BY <1>2, <1>3, <1>5, <1>6 DEF OrphansExplained, Stale, Hashes
<1>11. ListFresh'
  BY <1>2, <1>4, RevisionAssumption DEF ListFresh
<1>12. NoDanglingReference'
  BY <1>2, <1>3, RevisionAssumption, AbsentAssumption
  DEF NoDanglingReference
<1> QED BY <1>8, <1>9, <1>10, <1>11, <1>12

\* A commit names only bodies that are in the bucket, and explains those it
\* no longer names.
LEMMA CommitPromptInv ==
    ASSUME BodiesStay, CommitInv, PromptInv, [Next]_vars,
           NEW m \in Machine, Commit(m), PipelineShape'
    PROVE  PromptInv'
<1> USE DEF PromptInv, CommitInv, TypeOK
<1>1. /\ catalog' \subseteq catalog \cup incoming[m]
      /\ \A r \in catalog' : ~Stale(r)
      /\ CatalogPruned'
      /\ \A r \in Revision : Stale(r) => Stale(r)'
      /\ \A r \in catalog \cup incoming[m] : r \in catalog' \/ Stale(r)'
  BY CommitWrites
<1>2. /\ age' = age /\ doomed' = doomed /\ todo' = todo
      /\ seen' = [seen EXCEPT ![m] = {}]
      /\ incoming' = [incoming EXCEPT ![m] = {}]
      /\ \A n \in Machine : pc'[n] = "list" => n # m /\ pc[n] = "list"
      /\ Uncommitted(m) = incoming[m]
  BY DEF Commit, AfterCommit, PipelineShape, Uncommitted
<1>3. \A n \in Machine :
        /\ Uncommitted(n)' \subseteq Uncommitted(n)
        /\ n # m => Uncommitted(n)' = Uncommitted(n)
        /\ Uncommitted(n) \subseteq Revision
  BY <1>2 DEF Uncommitted
<1>4. \A r \in catalog' : r \in catalog \/ Fresh(r.hash)
  BY <1>1, <1>2 DEF UploadsFresh
<1>5. UploadsFresh'
  BY <1>1, <1>2, <1>3 DEF UploadsFresh, Fresh
<1>6. OrphansExplained'
  <2> SUFFICES ASSUME NEW h \in Hash, age[h] # Absent, h \notin Hashes(catalog')
               PROVE  \E r \in Revision :
                          /\ r.hash = h
                          /\ \/ Stale(r)'
                             \/ \E n \in Machine : r \in Uncommitted(n)'
    BY <1>2 DEF OrphansExplained, Hashes
  <2>1. CASE h \in Hashes(catalog)
    BY <1>1, <2>1 DEF Hashes
  <2>2. CASE h \notin Hashes(catalog)
    <3>1. PICK r \in Revision :
              /\ r.hash = h
              /\ Stale(r) \/ \E n \in Machine : r \in Uncommitted(n)
      BY <2>2 DEF OrphansExplained
    <3>2. CASE Stale(r)
      BY <1>1, <3>1, <3>2
    <3>3. ASSUME NEW n \in Machine, r \in Uncommitted(n)
          PROVE  Stale(r)' \/ r \in Uncommitted(n)'
      BY <1>1, <1>2, <1>3, <3>1, <3>3 DEF Hashes
    <3> QED BY <3>1, <3>2, <3>3
  <2> QED BY <2>1, <2>2
<1>7. ListFresh'
  BY <1>2, <1>4 DEF ListFresh, Fresh
<1>8. DoomedStale'
  BY <1>1, <1>2 DEF DoomedStale
<1>9. NoDanglingReference'
  BY <1>2, <1>4 DEF NoDanglingReference, Fresh
<1> QED BY <1>1, <1>5, <1>6, <1>7, <1>8, <1>9

\* The listing dooms no body that is named now or about to be.
LEMMA ListPromptInv ==
    ASSUME TypeOK, PromptInv, NEW m \in Machine, SweepList(m), PipelineShape'
    PROVE  PromptInv'
<1> USE DEF PromptInv, TypeOK
<1>1. /\ catalog' = catalog /\ age' = age /\ incoming' = incoming
      /\ todo' = todo /\ seen' = seen
      /\ pc[m] = "list" /\ pc' = [pc EXCEPT ![m] = "delete"]
      /\ doomed' = [doomed EXCEPT ![m] =
              {h \in Hash : /\ age[h] # Absent
                            /\ age[h] > Grace
                            /\ h \notin Hashes(seen[m])}]
  BY DEF SweepList, archiveVars
<1>2. \A n \in Machine : Uncommitted(n)' = Uncommitted(n)
  BY <1>1 DEF Uncommitted
<1>3. \A h \in doomed'[m] : ~Fresh(h) /\ age[h] # Absent /\ h \in Hash
  BY <1>1, TimeAssumption, AbsentAssumption DEF Fresh
<1>4. ASSUME NEW h \in doomed'[m]
      PROVE  \E r \in Revision : r.hash = h /\ Stale(r)
  <2>1. h \notin Hashes(catalog)
    BY <1>1, <1>3 DEF ListFresh, Hashes
  <2>2. PICK r \in Revision :
            /\ r.hash = h
            /\ Stale(r) \/ \E n \in Machine : r \in Uncommitted(n)
    BY <1>3, <2>1 DEF OrphansExplained
  <2> QED BY <1>3, <2>2 DEF UploadsFresh
<1>5. DoomedStale'
  BY <1>1, <1>4 DEF DoomedStale, Stale
<1>6. UploadsFresh' /\ OrphansExplained'
  BY <1>1, <1>2 DEF UploadsFresh, OrphansExplained, Fresh, Stale
<1>7. CatalogPruned' /\ ListFresh' /\ NoDanglingReference'
  BY <1>1 DEF CatalogPruned, ListFresh, NoDanglingReference, Fresh
<1> QED BY <1>5, <1>6, <1>7

\* A DELETE removes only what is superseded.
LEMMA DeletePromptInv ==
    ASSUME BodiesStay, CommitInv, PromptInv,
           NEW m \in Machine, SweepDelete(m), PipelineShape'
    PROVE  PromptInv'
<1> USE DEF PromptInv, CommitInv, TypeOK
<1>1. PICK h \in doomed[m] :
          /\ age' = [age EXCEPT ![h] = Absent]
          /\ doomed' = [doomed EXCEPT ![m] = @ \ {h}]
  BY DEF SweepDelete
<1>2. /\ catalog' = catalog /\ incoming' = incoming /\ todo' = todo
      /\ pc' = pc /\ seen' = seen
  BY DEF SweepDelete
<1>3. \A n \in Machine : Uncommitted(n)' = Uncommitted(n)
  BY <1>2 DEF Uncommitted
<1>4. h \in Hash /\ h \notin Hashes(catalog)
  BY NamedNotStale
<1>5. PICK s \in Revision : s.hash = h /\ Stale(s)
  BY DEF DoomedStale
<1>6. \A r \in Revision : r = s \/ Fresh(r.hash) = Fresh(r.hash)'
  BY <1>1, <1>4, <1>5, RevisionAssumption DEF Fresh, BodiesStay
<1>7. UploadsFresh'
  BY <1>2, <1>3, <1>5, <1>6 DEF UploadsFresh, Uncommitted, Stale
<1>8. OrphansExplained'
  BY <1>1, <1>2, <1>3 DEF OrphansExplained, Stale
<1>9. ListFresh'
  BY <1>2, <1>4, <1>5, <1>6 DEF ListFresh, Hashes
<1>10. NoDanglingReference'
  BY <1>1, <1>2, <1>4, RevisionAssumption DEF NoDanglingReference, Hashes
<1>11. CatalogPruned' /\ DoomedStale'
  BY <1>1, <1>2 DEF CatalogPruned, DoomedStale, Stale
<1> QED BY <1>7, <1>8, <1>9, <1>10, <1>11

\* While everyone is prompt, time ages no body beyond the grace that waits for
\* its commit or that a sweep has yet to see in the catalog.
LEMMA TickPromptInv ==
    ASSUME TypeOK, PromptInv, Prompt, Tick, PipelineShape'
    PROVE  PromptInv'
<1> USE DEF PromptInv, TypeOK
<1>1. /\ catalog' = catalog /\ incoming' = incoming /\ todo' = todo
      /\ pc' = pc /\ seen' = seen /\ doomed' = doomed
      /\ \A h \in Hash : age'[h] = Older(age[h])
  BY DEF Tick
<1>2. \A h \in Hash : age'[h] # Absent <=> age[h] # Absent
  BY <1>1, OlderAge
<1>3. \A n \in Machine :
        /\ Uncommitted(n)' = Uncommitted(n)
        /\ Uncommitted(n) \subseteq Revision
  BY <1>1 DEF Uncommitted
<1>4. ASSUME NEW h \in Hash, age[h] # Absent, age[h] < Grace PROVE Fresh(h)'
  BY <1>1, <1>2, <1>4, TimeAssumption DEF Fresh, Older
<1>5. UploadsFresh'
  BY <1>1, <1>3, <1>4, RevisionAssumption
  DEF UploadsFresh, Fresh, Stale, Prompt, Uncommitted
<1>6. OrphansExplained'
  BY <1>1, <1>2, <1>3 DEF OrphansExplained, Stale
<1>7. ListFresh'
  BY <1>1 DEF ListFresh, Prompt
<1>8. NoDanglingReference'
  BY <1>1, <1>2, RevisionAssumption DEF NoDanglingReference
<1>9. CatalogPruned' /\ DoomedStale'
  BY <1>1 DEF CatalogPruned, DoomedStale, Stale
<1> QED BY <1>5, <1>6, <1>7, <1>8, <1>9

\* Every step of prompt machines keeps their invariant.
LEMMA StepPromptInv ==
    ASSUME BodiesStay, CommitInv, PromptInv, [PromptNext]_vars
    PROVE  PromptInv'
<1>1. [Next]_vars
  BY PromptIsNext
<1>2. TypeOK /\ PipelineShape /\ PipelineShape'
  BY <1>1, StepPipelineShape DEF CommitInv, PromptInv
<1>3. ASSUME NEW m \in Machine, PrivateStep(m) PROVE PromptInv'
  BY <1>2, <1>3, PrivatePromptInv
<1>4. ASSUME NEW m \in Machine, Put(m) PROVE PromptInv'
  BY <1>2, <1>4, PutPromptInv
<1>5. ASSUME NEW m \in Machine, Commit(m) PROVE PromptInv'
  BY <1>1, <1>2, <1>5, CommitPromptInv
<1>6. ASSUME NEW m \in Machine, SweepList(m) PROVE PromptInv'
  BY <1>2, <1>6, ListPromptInv
<1>7. ASSUME NEW m \in Machine, SweepDelete(m) PROVE PromptInv'
  BY <1>2, <1>7, DeletePromptInv
<1>8. CASE Prompt /\ Tick
  BY <1>2, <1>8, TickPromptInv
<1>9. CASE UNCHANGED vars
  BY <1>9 DEF vars, archiveVars, runVars, PromptInv, PipelineShape,
     CatalogPruned, UploadsFresh, OrphansExplained, ListFresh, DoomedStale,
     NoDanglingReference, Uncommitted, Fresh, Stale
<1> QED
  BY <1>3, <1>4, <1>5, <1>6, <1>7, <1>8, <1>9
  DEF PromptNext, IngestProceeds, PrivateStep

\* Any number of machines keep the bodies of the catalog in the bucket, if no
\* upload waits for its commit longer than the grace, no command fails between
\* an upload and its commit, a sweep lists as soon as it has loaded the
\* catalog, and no body comes back under another rank.  Without any of these
\* TLC finds a catalog that names a body which a sweep has deleted.
THEOREM PromptMachinesIntact ==
    ASSUME BodiesStay
    PROVE  PromptSpec => []NoDanglingReference
<1> DEFINE IInv == CommitInv /\ AttemptsLeft /\ PromptInv
<1>1. Init => IInv
  BY InitCommitInv, InitTypeOK, InitPromptInv
<1>2. IInv /\ [PromptNext]_vars => IInv'
  BY StepTypeOK, StepEtagVouches, StepCommitReady, StepPromptInv,
     PromptIsNext DEF CommitInv
<1>3. IInv => NoDanglingReference
  BY DEF PromptInv
<1> QED
  <2> HIDE DEF IInv
  <2> QED BY <1>1, <1>2, <1>3, PTL DEF PromptSpec

\* Under the same conditions a sweep deletes only bodies that the catalog does
\* not reference at that moment, whatever was committed since its listing.
THEOREM PromptMachinesSweepOrphans ==
    ASSUME BodiesStay
    PROVE  PromptSpec => SweepSparesReferenced
<1> DEFINE IInv == CommitInv /\ AttemptsLeft /\ PromptInv
           OrphansOnly ==
              \A h \in Hash : Deleted(h) => h \notin Hashes(catalog)
<1>1. Init => IInv
  BY InitCommitInv, InitTypeOK, InitPromptInv
<1>2. IInv /\ [PromptNext]_vars => IInv'
  BY StepTypeOK, StepEtagVouches, StepCommitReady, StepPromptInv,
     PromptIsNext DEF CommitInv
<1>3. IInv /\ [PromptNext]_vars => [OrphansOnly]_vars
  <2> SUFFICES ASSUME IInv, [PromptNext]_vars, NEW h \in Hash, Deleted(h)
               PROVE  h \notin Hashes(catalog)
    OBVIOUS
  <2>1. TypeOK /\ [Next]_vars
    BY PromptIsNext DEF CommitInv
  <2>2. \E m \in Machine : h \in doomed[m]
    BY <2>1, OnlySweepDeletes
  <2> QED BY <2>2, NamedNotStale DEF PromptInv
<1> QED
  <2> HIDE DEF IInv
  <2> QED BY <1>1, <1>2, <1>3, PTL DEF PromptSpec, SweepSparesReferenced
=============================================================================
