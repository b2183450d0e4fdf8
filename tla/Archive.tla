------------------------------- MODULE Archive -------------------------------
(***************************************************************************)
(* The shared archive: one R2 bucket holding content-addressed session     *)
(* bodies and one catalog, written by the `ingest` (or `watch`) and `gc`   *)
(* commands of several machines.  src/src/ingest.rs, remote.rs and         *)
(* catalog.rs run the same sequence of requests on every machine:          *)
(*                                                                         *)
(*   load the catalog; scan the local sources; PUT every new body;         *)
(*   commit the catalog (load, merge, prune, PUT if the ETag still holds); *)
(*   when due, sweep (load the catalog, list the bucket, DELETE orphans).  *)
(*                                                                         *)
(* A request is one step: it takes effect at the server at one instant.    *)
(* Between two requests of a machine every other machine may run, time may *)
(* pass, and the machine may fail.  On one machine the run lock lets one   *)
(* command run at a time, so a machine has one program counter.            *)
(*                                                                         *)
(* Time is kept as the age of each object, counted up to one beyond Grace: *)
(* `last_modified < now - SWEEP_GRACE` is `age > Grace`.  The ETag of the  *)
(* catalog is kept as the set `unchanged` of machines whose precondition   *)
(* still holds, which is all a conditional PUT depends on (every PUT makes *)
(* a new ETag, because the encryption draws a fresh nonce).                *)
(***************************************************************************)
EXTENDS Catalog

CONSTANTS
    Machine,        \* machines with a readwrite configuration
    Grace,          \* SWEEP_GRACE in clock ticks
    SweepInterval,  \* SWEEP_INTERVAL in clock ticks
    MaxAttempts,    \* attempts of commit_catalog (5 in the code)
    Absent          \* the age of an object that is not in the bucket

ASSUME TimeAssumption == Grace \in Nat /\ SweepInterval \in Nat

ASSUME AttemptAssumption == MaxAttempts \in Nat \ {0}

ASSUME AbsentAssumption == Absent \notin Nat

VARIABLES
    catalog,    \* the revisions in the catalog object; {} before it exists
    age,        \* age of each content object, or Absent
    local,      \* the Ready revisions in each machine's local sources
    pc,         \* the next request of each machine
    command,    \* the command the machine runs
    seen,       \* the catalog the machine loaded last
    unchanged,  \* machines whose last loaded ETag is still the catalog's
    incoming,   \* revisions the running ingest wants to commit
    todo,       \* those of them whose body is not uploaded yet
    attempt,    \* commit attempts made
    doomed,     \* hashes the running sweep still has to delete
    sinceSweep, \* ticks since last_sweep, up to SweepInterval
    history     \* auxiliary: every revision a committed catalog ever held

archiveVars == <<catalog, age, history>>
runVars == <<pc, command, seen, unchanged, incoming, todo, attempt, doomed,
             sinceSweep>>
vars == <<archiveVars, local, runVars>>

Step == {"idle", "scan", "put", "commit", "sweep", "list", "delete"}
Command == {"none", "ingest", "gc"}
Age == 0 .. Grace + 1

\* The uploads of one scan: one revision for each hash not yet known.  Two
\* local copies of one body count once, whichever is met first.
Uploads(known, revs) ==
    {I \in SUBSET revs :
        /\ \A i \in I : i.hash \notin Hashes(known)
        /\ \A r \in revs : r.hash \notin Hashes(known) =>
                \E i \in I : i.hash = r.hash
        /\ \A i, j \in I : i.hash = j.hash => i = j}

-----------------------------------------------------------------------------

Init ==
    /\ catalog = {}
    /\ age = [h \in Hash |-> Absent]
    /\ local \in [Machine -> SUBSET Revision]
    /\ pc = [m \in Machine |-> "idle"]
    /\ command = [m \in Machine |-> "none"]
    /\ seen = [m \in Machine |-> {}]
    /\ unchanged = {}
    /\ incoming = [m \in Machine |-> {}]
    /\ todo = [m \in Machine |-> {}]
    /\ attempt = [m \in Machine |-> 0]
    /\ doomed = [m \in Machine |-> {}]
    /\ sinceSweep = [m \in Machine |-> SweepInterval]
    /\ history = {}

\* The command returns, with or without an error, or its process dies: what
\* it held in memory is gone.
Return(m) ==
    /\ pc' = [pc EXCEPT ![m] = "idle"]
    /\ command' = [command EXCEPT ![m] = "none"]
    /\ seen' = [seen EXCEPT ![m] = {}]
    /\ unchanged' = unchanged \ {m}
    /\ incoming' = [incoming EXCEPT ![m] = {}]
    /\ todo' = [todo EXCEPT ![m] = {}]
    /\ attempt' = [attempt EXCEPT ![m] = 0]
    /\ doomed' = [doomed EXCEPT ![m] = {}]

\* load_catalog: one GET of the catalog object.
LoadCatalog(m) ==
    /\ seen' = [seen EXCEPT ![m] = catalog]
    /\ unchanged' = unchanged \cup {m}

\* (mutant) The sweep after a commit reuses the catalog of before the merge.
AfterCommitReuse(m) ==
    /\ pc' = [pc EXCEPT ![m] = IF seen[m] = {} THEN "sweep" ELSE "list"]
    /\ incoming' = [incoming EXCEPT ![m] = {}]
    /\ attempt' = [attempt EXCEPT ![m] = 0]
    /\ UNCHANGED <<local, seen, command, todo, doomed, sinceSweep>>

\* After a commit, ingest sweeps when the last sweep is an hour old, and
\* returns otherwise.
AfterCommit(m) ==
    /\ IF sinceSweep[m] >= SweepInterval
         THEN /\ pc' = [pc EXCEPT ![m] = "sweep"]
              /\ UNCHANGED command
         ELSE /\ pc' = [pc EXCEPT ![m] = "idle"]
              /\ command' = [command EXCEPT ![m] = "none"]
    /\ seen' = [seen EXCEPT ![m] = {}]
    /\ incoming' = [incoming EXCEPT ![m] = {}]
    /\ attempt' = [attempt EXCEPT ![m] = 0]
    /\ UNCHANGED <<local, todo, doomed, sinceSweep>>

\* ingest takes the run lock and loads the catalog.
Ingest(m) ==
    /\ pc[m] = "idle"
    /\ pc' = [pc EXCEPT ![m] = "scan"]
    /\ command' = [command EXCEPT ![m] = "ingest"]
    /\ LoadCatalog(m)
    /\ UNCHANGED <<archiveVars, local, incoming, todo, attempt, doomed,
                   sinceSweep>>

\* (mutant) A body that is in the bucket already counts as archived.
ScanSkipsStored(m) ==
    /\ pc[m] = "scan"
    /\ \E I \in Uploads(seen[m], {r \in local[m] : age[r.hash] = Absent}) :
        /\ ~Conflict(I)
        /\ incoming' = [incoming EXCEPT ![m] = I]
        /\ todo' = [todo EXCEPT ![m] = I]
    /\ pc' = [pc EXCEPT ![m] = "put"]
    /\ UNCHANGED <<archiveVars, local, command, seen, unchanged, attempt,
                   doomed, sinceSweep>>

\* The scan finds the revisions revs in the local sources: whatever the
\* loaded catalog lacks is to be uploaded.
Found(m, revs) ==
    /\ \E I \in Uploads(seen[m], revs) :
        /\ ~Conflict(I)
        /\ incoming' = [incoming EXCEPT ![m] = I]
        /\ todo' = [todo EXCEPT ![m] = I]
    /\ pc' = [pc EXCEPT ![m] = "put"]
    /\ UNCHANGED <<archiveVars, local, command, seen, unchanged, attempt,
                   doomed, sinceSweep>>

Scan(m) ==
    /\ pc[m] = "scan"
    /\ Found(m, local[m])

\* Some sources cannot be read now: the others are archived.
ScanPart(m) ==
    /\ pc[m] = "scan"
    /\ \E revs \in SUBSET local[m] : Found(m, revs)

\* scan fails as a whole when two local sources claim one session for two
\* repositories.
ScanConflict(m) ==
    /\ pc[m] = "scan"
    /\ \E I \in Uploads(seen[m], local[m]) : Conflict(I)
    /\ Return(m)
    /\ UNCHANGED <<archiveVars, local, sinceSweep>>

\* One unconditional PUT of a body; it overwrites and so renews the object.
Put(m) ==
    /\ pc[m] = "put"
    /\ \E r \in todo[m] :
        /\ age' = [age EXCEPT ![r.hash] = 0]
        /\ todo' = [todo EXCEPT ![m] = @ \ {r}]
    /\ UNCHANGED <<catalog, history, local, pc, command, seen, unchanged,
                   incoming, attempt, doomed, sinceSweep>>

\* (mutant) ingest returns early when there is nothing to upload.
CommitNothingReturns(m) ==
    /\ pc[m] = "put"
    /\ todo[m] = {}
    /\ incoming[m] = {}
    /\ Return(m)
    /\ UNCHANGED <<archiveVars, local, sinceSweep>>

\* commit_catalog with nothing to merge only loads the catalog.
CommitNothing(m) ==
    /\ pc[m] = "put"
    /\ todo[m] = {}
    /\ incoming[m] = {}
    /\ AfterCommit(m)
    /\ unchanged' = unchanged \ {m}
    /\ UNCHANGED archiveVars

\* (mutant) The commit does not wait for the uploads.
CommitLoadEarly(m) ==
    /\ pc[m] = "put"
    /\ incoming[m] # {}
    /\ ~Conflict(catalog \cup incoming[m])
    /\ LoadCatalog(m)
    /\ pc' = [pc EXCEPT ![m] = "commit"]
    /\ attempt' = [attempt EXCEPT ![m] = @ + 1]
    /\ UNCHANGED <<archiveVars, local, command, incoming, todo, doomed,
                   sinceSweep>>

\* (mutant) The merge does not compare repositories.
CommitLoadUnchecked(m) ==
    /\ pc[m] = "put"
    /\ todo[m] = {}
    /\ incoming[m] # {}
    /\ LoadCatalog(m)
    /\ pc' = [pc EXCEPT ![m] = "commit"]
    /\ attempt' = [attempt EXCEPT ![m] = @ + 1]
    /\ UNCHANGED <<archiveVars, local, command, incoming, todo, doomed,
                   sinceSweep>>

\* An attempt of commit_catalog begins: load the catalog and merge into it.
CommitLoad(m) ==
    /\ pc[m] = "put"
    /\ todo[m] = {}
    /\ incoming[m] # {}
    /\ ~Conflict(catalog \cup incoming[m])
    /\ LoadCatalog(m)
    /\ pc' = [pc EXCEPT ![m] = "commit"]
    /\ attempt' = [attempt EXCEPT ![m] = @ + 1]
    /\ UNCHANGED <<archiveVars, local, command, incoming, todo, doomed,
                   sinceSweep>>

\* merge_catalogs refuses: a session is archived for another repository.
CommitConflict(m) ==
    /\ pc[m] = "put"
    /\ todo[m] = {}
    /\ incoming[m] # {}
    /\ Conflict(catalog \cup incoming[m])
    /\ Return(m)
    /\ UNCHANGED <<archiveVars, local, sinceSweep>>

\* The conditional PUT of the catalog succeeds.
Commit(m) ==
    /\ pc[m] = "commit"
    /\ m \in unchanged
    /\ catalog' = Prune(Merge(seen[m], incoming[m]))
    /\ history' = history \cup catalog'
    /\ AfterCommit(m)
    /\ unchanged' = {}
    /\ UNCHANGED age

\* (mutant) The retry refreshes the ETag but keeps the catalog merged before.
CommitRetryStale(m) ==
    /\ pc[m] = "commit"
    /\ m \notin unchanged
    /\ attempt[m] < MaxAttempts
    /\ unchanged' = unchanged \cup {m}
    /\ attempt' = [attempt EXCEPT ![m] = @ + 1]
    /\ UNCHANGED <<archiveVars, local, pc, command, seen, incoming, todo,
                   doomed, sinceSweep>>

\* (mutant) Attempts are not counted against the limit.
CommitRetryForever(m) ==
    /\ pc[m] = "commit"
    /\ m \notin unchanged
    /\ pc' = [pc EXCEPT ![m] = "put"]
    /\ UNCHANGED <<archiveVars, local, command, seen, unchanged, incoming,
                   todo, attempt, doomed, sinceSweep>>

\* The PUT answers 412 and attempts are left: load and merge again.
CommitRetry(m) ==
    /\ pc[m] = "commit"
    /\ m \notin unchanged
    /\ attempt[m] < MaxAttempts
    /\ pc' = [pc EXCEPT ![m] = "put"]
    /\ UNCHANGED <<archiveVars, local, command, seen, unchanged, incoming,
                   todo, attempt, doomed, sinceSweep>>

\* The last attempt answers 412: the bodies stay in the bucket, uncommitted.
CommitGiveUp(m) ==
    /\ pc[m] = "commit"
    /\ m \notin unchanged
    /\ attempt[m] = MaxAttempts
    /\ Return(m)
    /\ UNCHANGED <<archiveVars, local, sinceSweep>>

\* gc takes the run lock and sweeps at once.
Gc(m) ==
    /\ pc[m] = "idle"
    /\ pc' = [pc EXCEPT ![m] = "sweep"]
    /\ command' = [command EXCEPT ![m] = "gc"]
    /\ UNCHANGED <<archiveVars, local, seen, unchanged, incoming, todo,
                   attempt, doomed, sinceSweep>>

\* sweep: load the catalog, which tells what is live.
SweepLoad(m) ==
    /\ pc[m] = "sweep"
    /\ LoadCatalog(m)
    /\ pc' = [pc EXCEPT ![m] = "list"]
    /\ UNCHANGED <<archiveVars, local, command, incoming, todo, attempt,
                   doomed, sinceSweep>>

\* (mutant) The sweep gives no grace.
SweepListNoGrace(m) ==
    /\ pc[m] = "list"
    /\ doomed' = [doomed EXCEPT ![m] =
            {h \in Hash : age[h] # Absent /\ h \notin Hashes(seen[m])}]
    /\ pc' = [pc EXCEPT ![m] = "delete"]
    /\ UNCHANGED <<archiveVars, local, command, seen, unchanged, incoming,
                   todo, attempt, sinceSweep>>

\* sweep: list the bucket; orphans older than the grace are to be deleted.
SweepList(m) ==
    /\ pc[m] = "list"
    /\ doomed' = [doomed EXCEPT ![m] =
            {h \in Hash : /\ age[h] # Absent
                          /\ age[h] > Grace
                          /\ h \notin Hashes(seen[m])}]
    /\ pc' = [pc EXCEPT ![m] = "delete"]
    /\ UNCHANGED <<archiveVars, local, command, seen, unchanged, incoming,
                   todo, attempt, sinceSweep>>

\* sweep: one DELETE.  Deleting what is gone already succeeds too.
SweepDelete(m) ==
    /\ pc[m] = "delete"
    /\ \E h \in doomed[m] :
        /\ age' = [age EXCEPT ![h] = Absent]
        /\ doomed' = [doomed EXCEPT ![m] = @ \ {h}]
    /\ UNCHANGED <<catalog, history, local, pc, command, seen, unchanged,
                   incoming, todo, attempt, sinceSweep>>

\* sweep succeeded.  ingest notes the time of the sweep, gc does not.
SweepDone(m) ==
    /\ pc[m] = "delete"
    /\ doomed[m] = {}
    /\ Return(m)
    /\ sinceSweep' = IF command[m] = "ingest"
                       THEN [sinceSweep EXCEPT ![m] = 0]
                       ELSE sinceSweep
    /\ UNCHANGED <<archiveVars, local>>

\* The command stops early: a request fails, before or after the server
\* applied it, or the process is killed.
Abort(m) ==
    /\ pc[m] # "idle"
    /\ Return(m)
    /\ UNCHANGED <<archiveVars, local, sinceSweep>>

\* A harness writes a session: a new source, or new content of an old one.
Edit(m) ==
    /\ \E new \in Revision :
        /\ new \notin local[m]
        /\ \/ local' = [local EXCEPT ![m] = @ \cup {new}]
           \/ \E old \in local[m] :
                /\ old.session = new.session
                /\ local' = [local EXCEPT ![m] = (@ \ {old}) \cup {new}]
    /\ UNCHANGED <<archiveVars, runVars>>

\* A harness drops a session from its store.
Remove(m) ==
    /\ \E r \in local[m] : local' = [local EXCEPT ![m] = @ \ {r}]
    /\ UNCHANGED <<archiveVars, runVars>>

Older(a) == IF a = Absent \/ a > Grace THEN a ELSE a + 1

\* A clock tick ages every object and every machine's last sweep.
Tick ==
    /\ age' = [h \in Hash |-> Older(age[h])]
    /\ sinceSweep' = [m \in Machine |->
            IF sinceSweep[m] < SweepInterval THEN sinceSweep[m] + 1
                                             ELSE sinceSweep[m]]
    /\ UNCHANGED <<catalog, history, local, pc, command, seen, unchanged,
                   incoming, todo, attempt, doomed>>

\* A commit fails for good: the bodies it was for stay in the bucket.
CommitFails(m) == CommitConflict(m) \/ CommitGiveUp(m)

\* The requests of ingest and its sweep, each answered with success.
IngestProceeds(m) ==
    \/ Ingest(m) \/ Scan(m) \/ ScanConflict(m) \/ Put(m)
    \/ CommitNothing(m) \/ CommitLoad(m) \/ Commit(m) \/ CommitRetry(m)
    \/ SweepLoad(m) \/ SweepList(m) \/ SweepDelete(m) \/ SweepDone(m)

\* What a machine does by itself once ingest runs: the watch loop repeats it.
IngestStep(m) == IngestProceeds(m) \/ CommitFails(m)

Next ==
    \/ \E m \in Machine :
          \/ IngestStep(m) \/ ScanPart(m) \/ Gc(m) \/ Abort(m)
          \/ Edit(m) \/ Remove(m)
    \/ Tick

Spec == Init /\ [][Next]_vars

\* watch repeats ingest for ever, every request is answered or fails, and
\* time passes.  A machine pauses for five minutes between two commits, so
\* others do not slip one between every load and PUT of a machine for ever.
Fairness ==
    /\ WF_vars(Tick)
    /\ \A m \in Machine : WF_vars(IngestStep(m)) /\ SF_vars(Commit(m))

\* What the grace of the sweep relies on: no upload waits for its commit until
\* it is older than the grace, and a sweep takes its cutoff as soon as it has
\* the catalog.
Prompt ==
    \A m \in Machine :
        /\ pc[m] # "list"
        /\ \A r \in incoming[m] \ todo[m] :
                age[r.hash] # Absent => age[r.hash] < Grace

\* Nothing that the machine has uploaded waits for its commit.
NothingUploaded(m) == incoming[m] \ todo[m] = {}

\* Prompt machines that never give up a body they have uploaded.
PromptNext ==
    \/ \E m \in Machine :
          \/ IngestProceeds(m) \/ ScanPart(m) \/ Gc(m)
          \/ NothingUploaded(m) /\ Abort(m)
          \/ Edit(m) \/ Remove(m)
    \/ Prompt /\ Tick

PromptSpec == Init /\ [][PromptNext]_vars

\* No body comes back under another rank: a harness only adds to a session.
BodiesStay == \A r, q \in Revision : r.hash = q.hash => r = q

-----------------------------------------------------------------------------

TypeOK ==
    /\ catalog \subseteq Revision
    /\ age \in [Hash -> Age \cup {Absent}]
    /\ local \in [Machine -> SUBSET Revision]
    /\ pc \in [Machine -> Step]
    /\ command \in [Machine -> Command]
    /\ seen \in [Machine -> SUBSET Revision]
    /\ unchanged \subseteq Machine
    /\ incoming \in [Machine -> SUBSET Revision]
    /\ todo \in [Machine -> SUBSET Revision]
    /\ attempt \in [Machine -> 0 .. MaxAttempts]
    /\ doomed \in [Machine -> SUBSET Hash]
    /\ sinceSweep \in [Machine -> 0 .. SweepInterval]
    /\ history \subseteq Revision

\* What a committed catalog held is never lost: it is in the catalog still,
\* or a strictly newer revision of its session is (catalog.rs:125-131,
\* remote.rs:28-53; a lost update or an over-eager prune would break it).
CommittedKept ==
    \A r \in history :
        r \in catalog \/ \E q \in catalog : Supersedes(q, r)

\* A session of the catalog belongs to one repository (catalog.rs:66-77),
\* although machines that disagree about it commit concurrently.
OneRepoPerSession == ~Conflict(catalog)

\* Every revision of the catalog can be read: its body is in the bucket
\* (ingest.rs:72-78 uploads first, ingest.rs:177-190 deletes).
NoDanglingReference == \A r \in catalog : age[r.hash] # Absent

\* A machine that is not committing may still begin an attempt.
AttemptsLeft ==
    \A m \in Machine : pc[m] # "commit" => attempt[m] < MaxAttempts

\* An ETag that still holds vouches for the loaded catalog.
EtagVouches == \A m \in unchanged : seen[m] = catalog

\* What a machine is about to commit has been merged without a conflict.
CommitReady ==
    \A m \in Machine : pc[m] = "commit" =>
        /\ incoming[m] # {}
        /\ ~Conflict(seen[m] \cup incoming[m])

\* With one machine only: bodies are in the bucket before their revisions are
\* committed, and a sweep's view of the catalog cannot grow old.
UploadedBeforeCommit ==
    \A m \in Machine : pc[m] \in {"put", "commit"} =>
        /\ \A r \in incoming[m] \ todo[m] : age[r.hash] # Absent
        /\ pc[m] = "commit" => todo[m] = {}
SweepUpToDate ==
    \A m \in Machine :
        /\ pc[m] = "list" => seen[m] = catalog
        /\ pc[m] = "delete" => doomed[m] \cap Hashes(catalog) = {}

\* The body of h is deleted in this step.
Deleted(h) == age[h] # Absent /\ age'[h] = Absent

\* "Objects younger than this are never deleted during a sweep"
\* (ingest.rs:24-26).
SweepSparesRecent ==
    [][\A h \in Hash : Deleted(h) => age[h] > Grace]_vars

\* sweep deletes "objects no longer referenced by the catalog"
\* (ingest.rs:161): no body the catalog references at that moment.
SweepSparesReferenced ==
    [][\A h \in Hash : Deleted(h) => h \notin Hashes(catalog)]_vars

\* A commit that succeeds has archived every revision it uploaded a body for,
\* or finds a newer one there, whoever committed meanwhile; unless the same body
\* was committed under another rank, whose entry stays (ingest.rs:72-78,
\* catalog.rs:61-85).
CommitArchives ==
    [][\A m \in Machine : Commit(m) =>
          \A r \in incoming[m] :
              \/ r \in catalog'
              \/ \E q \in catalog' : Supersedes(q, r)
              \/ \E q \in catalog : q.hash = r.hash /\ q # r]_vars

\* Concurrent commits behave as if each merged its revisions into the
\* catalog in one step (remote.rs:28-53).
Atomic == INSTANCE AtomicCatalog WITH catalog <- catalog
CommitsAreAtomic == Atomic!Spec

\* A source that holds a superseded body has it uploaded anew, and pruned
\* again, by every ingest: its object never gets older than the grace.
Stale(r) == \E q \in catalog : Supersedes(q, r)

Covered(r) == r.hash \in Hashes(catalog) \/ Stale(r)

\* An older copy of the body of r on the machine m, which the catalog has passed.
\* Whenever the scan meets it first, the body is uploaded under the older time,
\* r is not, and the commit prunes it again (ingest.rs:258-270, 305).
Hides(m, r) == \E o \in local[m] : o # r /\ o.hash = r.hash /\ Stale(o)

\* "A failed commit retries because the catalog lacks the hash"
\* (ingest.rs:246-248): if failures, edits and gc runs come to an end, every
\* local revision gets archived for good, unless a newer one of its session is,
\* or an older copy of its body on the same machine is met instead of it.
EventuallyArchived ==
    <>[](\A m \in Machine : \A r \in local[m] : Covered(r) \/ Hides(m, r))

\* The sweep reclaims what prune and failed commits leave behind
\* (catalog.rs:128-129, ingest.rs:161): under the same conditions only bodies
\* of the catalog, and those that stale sources upload anew, stay.
EventuallyReclaimed ==
    <>[](\A h \in Hash : age[h] # Absent =>
            \/ h \in Hashes(catalog)
            \/ \E m \in Machine : \E r \in local[m] : r.hash = h /\ Stale(r))
=============================================================================
