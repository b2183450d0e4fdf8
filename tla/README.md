# agent-transcript in TLA+

`agent-transcript` reads the conversation logs of coding agents from the local
stores of a PC and from a shared, encrypted archive in a Cloudflare R2 bucket.
This directory holds TLA+ specifications of the parts whose correctness depends
on order, failure and concurrency, the TLC runs that check them on small
instances, and proofs for every value of the constants.

Run a check with `tlc -config archive_single.cfg MCArchive.tla` and a proof
with `tlapm Archive_proofs.tla`. `PROJECT.json` lists runs, properties, the
lines each definition stands for, hazards and theorems. Paths below are
relative to `src/src/` unless they begin with `src/`.

## 1. The system

| Component | State it keeps | Operations | Modelled by |
|---|---|---|---|
| Shared archive (`ingest.rs`, `remote.rs`) | bodies under `v1/objects/`, `v1/catalog`, `last_sweep` of each machine | `ingest`, `watch`, `gc` | `Catalog`, `Archive`, `AtomicCatalog` |
| Catalog (`catalog.rs`) | sessions with their revisions | `merge_catalogs`, `prune_to_current`, `validate` | `Catalog`, `ChooseCurrent` |
| Freshness and merged view (`merge.rs`, `sessions.rs`) | none | `rank`, `prefer`, `choose_current`, `choose_local`, `select`, `merge_pair` | `Freshness`, `ChooseCurrent`, `MergedView` |
| Run lock (`ingest.rs:354-458`) | `ingest.lock` with a process id | `acquire`, `Drop` | `RunLock` |
| Local state (`local_state.rs`, `sources.rs`) | `local-state.json`: a record and a fingerprint per source, repositories of directories, fingerprints of databases | `load`, `diff`, `reconsider`, `reload`, `resolve_pending`, `drop_unseen`, `drop_unowned`, `save_if_dirty` | `LocalState` |
| MCP server (`mcp.rs`) | cached catalog with its ETag and time, on disk and in memory | `list_sessions`, `search_sessions`, `read_session`, `ensure_catalog` | `CatalogCache`; reads of bodies are not modelled |
| Search index (`search_index.rs`, `mcp.rs:457-602`) | a runtime per repository in memory, a snapshot on disk, an object under `v1/search` | `runtime_for`, `sync_runtime`, `build_for_repo`, `download_for_cwd`, `publish_remote` | `SearchIndex` |
| Self-update (`update.rs`, `src/scripts/update-windows.ps1`) | the executable, a staged file, a backup | `update`, `stage_and_replace`, the script's swap loop | `UpdateSwap` |
| R2 client (`store.rs`, `sigv4.rs`), cryptography and encoding (`crypto.rs`, `document.rs`), repository names (`repo_id.rs`), ranges and rendering (`fragment.rs`, `read.rs`), configuration, installation, command line (`config.rs`, `install.rs`, `main.rs`, `error.rs`, `command.rs`, `fsutil.rs`) | files and bytes only | I/O, pure functions | not modelled (section 8) |

How they interact:

- The local state tells `ingest` which sources are Ready and with which content
  hash. `ingest` uploads each body whose hash the catalog lacks, then commits a
  catalog that names them. The catalog is the only thing machines share besides
  the bodies, and its ETag the only synchronisation between machines.
- The sweep, at the end of an ingest or by `gc`, deletes what the catalog does
  not name, if it is older than ten minutes.
- The run lock serialises `ingest` and `gc` on one machine. The MCP server takes
  no lock; it shares `local-state.json` and the snapshots with `ingest`.
- A reader merges its local records with a catalog that its server fetched or
  compared with the bucket up to five minutes ago. The servers of a machine share
  `catalog.json`.
- A search first brings the server's runtime in line with the merged views, then
  saves it and publishes it; an ingest rebuilds the snapshots of the
  repositories it changed. Nothing orders the two.

What is hard here: several machines interleave their requests; every request
can fail before or after it took effect; the process can die between two
requests; deletion relies on ages and not on a lock; a session can return to an
earlier body; copies of one body carry different times; a harness writes its
files between any two of our system calls; processes of one machine replace each
other's state file; requests of one server share a cache and an index across
`await`.

What makes each component correct:

- archive: nothing committed is lost; the catalog never names a deleted body; a
  session belongs to one repository; what is local and not hidden by an older
  copy of its body is archived in the end, and what nothing names is deleted in
  the end;
- freshness: the result does not depend on the order of the copies, and a tie
  of different bodies is never hidden;
- lock: one holder, and a stale file never blocks for good;
- local state: no fingerprint hides an edit, on disk or in memory; a diff
  knows exactly every source that nothing happened to since it began; a server
  comes to an exact state whatever file it started from; both but for sources
  that an earlier diff gave up (section 7);
- catalog cache: what is served was current within a known time, never goes back
  and becomes current;
- search index: no text is older than its fingerprint; a search covers the
  sessions it was asked for, and in the end what they say now;
- update: a target that is missing is kept in a backup that nothing overwrites.

`PROJECT.json` lists every hazard with its line, and the properties that cover it.

## 2. Modules

| Module | Content |
|---|---|
| `Catalog` | the catalog as a set of revisions `[session, repo, hash, rank]`; `Merge`, `Prune`, `Conflict` |
| `AtomicCatalog` | the abstract promise of `commit_catalog`: one atomic merge |
| `Archive` | the bucket and all machines, one action per request; `PromptSpec`, under whose conditions sweeps harm no other machine |
| `MCArchive`, `MCArchiveLive` | small sets of revisions; restricted next-state relations for the racing-commit and liveness runs |
| `Freshness` | `rank` and `prefer` on freshness records |
| `ChooseCurrent`, `MCChooseCurrent` | the loop of `choose_current` and the selection of `prune_to_current` |
| `MergedView`, `MCMergedView` | what a machine shows of a session, while machines archive |
| `RunLock`, `MCRunLock` | the lock file, one file-system call per action |
| `LocalState`, `MCLocalState` | the records of local sessions: diffs of several processes over stores that change meanwhile, and the state file |
| `CatalogCache`, `MCCatalogCache` | the cached catalog of the servers of one machine |
| `SearchIndex`, `MCSearchIndex` | the index of one repository: runtimes, snapshots on disk and in the bucket, the rebuild |
| `UpdateSwap` | the moves of the update script, for overlapping updates; proved about, not run |
| `Archive_proofs`, `ChooseCurrent_proofs`, `MergedView_proofs`, `RunLock_proofs`, `LocalState_proofs`, `CatalogCache_proofs`, `SearchIndex_proofs`, `UpdateSwap_proofs` | the theorems of section 6 |

`Archive` extends `Catalog`, instantiates `AtomicCatalog` and is extended by its
MC modules; `ChooseCurrent` and `MergedView` extend `Freshness`, and the first
instantiates the second. `Catalog`
abstracts `Freshness` to a bounded rank: `ChooseCurrent_proofs` shows that
`rank` is a total pre-order (lemmas `RankTransitive`, `RankReverses`,
`TieTransitive`), so that this loses nothing, and that `prune_to_current` keeps
what `Prune` keeps (`PrunesToNewest`).

Definitions marked `(mutant)` are variants of the definition below them with a
plausible mistake; nothing refers to them. They serve to show that a property
would notice the mistake.

## 3. How the models correspond to the code

**Archive.** `pc[m]` is the next request of machine m:

| pc | code | actions |
|---|---|---|
| idle | no command runs | `Ingest` (`ingest.rs:49-60`), `Gc` (141-148) |
| scan | `scan` (241-338) | `Scan`, `ScanPart` (a source fails to load), `ScanConflict` |
| put | the PUT loop (72-75), then `commit_catalog` loads (`remote.rs:31-45`) | `Put`, `CommitNothing`, `CommitLoad`, `CommitConflict` |
| commit | the conditional PUT (`remote.rs:46-52`) | `Commit`, `CommitRetry`, `CommitGiveUp` |
| sweep | `sweep` loads the catalog (`ingest.rs:165-176`) | `SweepLoad` |
| list | it takes the cutoff and lists (177-188) | `SweepList` |
| delete | it deletes (182-194) | `SweepDelete`, `SweepDone` |

`Abort` is a failing request or a dying process at any of them; the answer of a
request that was applied can be lost, because `Abort` may follow the request.
`Return` forgets what the command held in memory and releases the run lock.

- Time is the age of each object, counted to one beyond the grace; no condition
  tells older ages apart. `Tick` is any amount of time between two requests.
- The ETag is the set `unchanged`: every PUT of the catalog is a new encryption
  with a fresh nonce, so that an ETag never comes back.
- The listing and the cutoff are one step. In the code the cutoff is taken
  first, so that the model deletes a superset of what the code deletes.
- A LIST of several pages is one step; an object that arrives meanwhile is
  younger than the cutoff.
- The phase after the sweep that rebuilds search snapshots touches neither the
  bodies nor the catalog; it is the builder of `SearchIndex`.
- Edits pick any revision, which includes one whose time does not fit its body
  (the file changed between the diff and the read of `scan`).
- Not modelled: clock skew between a machine and the bucket (the grace compares
  the two), and a request of a dead process that is still on its way.

**ChooseCurrent.** One step is one iteration of the loop (`merge.rs:133-143`);
`Kept` is the second loop of `prune_to_current` (`catalog.rs:146-167`).

**MergedView.** One session on one machine: `local` is the freshness of its
copies, `remote` that of its revisions in the catalog. `Summary` stands for the
folds of `ChooseCurrent`, which instantiates this module to show that they agree
(`FoldIsSummary`). `Shown` is `select` with `merge_pair`.

**RunLock.** `Read`, `Remove`, `Create`, `Write`, `Release` are the calls on the
file system in `acquire` and `Drop`; `file` records who created the file, since
the creator writes its id into its own file even after that file lost its name.

**LocalState.** `pc[p]` is where the diff of process p is:

| pc | code (`local_state.rs`) | actions |
|---|---|---|
| off | the process does not run | `Start` (`load`, 161-179) |
| idle | between requests | `Begin` (206-211), `ResolveDirectory` (`mcp.rs:381-455`) |
| walk | the loop over the sites (212-227) | `Skip` (an absent site, or a database as seen), `Walk`, `Stamp` (`scan_db` takes the fingerprint), `EndSites` (`drop_unowned`) |
| discover | `scan_db` lists the rows (296) | `Discover`, `DiscoverNothing` (the database went away after its fingerprint was taken), `DiscoverFails` |
| load | `reconsider` of each source listed | `Load`, `EndSite` (`drop_unseen`; the database is recorded as seen) |
| pending | `resolve_pending` (542-563), the save | `ResolvePending`, `Save`, `SaveFails` |

- A fingerprint (time and size) is the version of the source; every edit and
  every removal makes a new one. A record holds the fingerprint of the walk
  (`fp`) and the version of the body that was read (`body`), which differ when
  the harness wrote in between. `body` is `Unread` in the broken record of a
  source that nobody read: its site or the source itself was gone when it was
  loaded (`sources.rs:134-138`), or the read failed for good. Each read of a
  locked source chooses how it fails: `"transient"` is would-block, timed out or
  interrupted, `"broken"` any other error (`load_failure`, `sources.rs:430-449`).
- `GivenUp` are the sources that exist at a present site, and whose record has
  their fingerprint but was never read: `reconsider` leaves them alone until they
  change (`local_state.rs:316-324`).
- `Resolves` and `Remember` are `resolve_repo` with its cache; `Retry` is the
  passing of the five minutes after which a remembered failure does not count.
- `Shadow` relates stores of one harness of which one path is a string prefix of
  the other, as `drop_unseen` compares strings. The databases belong to
  different harnesses.
- `passed` (auxiliary) are the rows that the code passes over although it
  records their database as seen: those that could not be read, those of a
  database that was away when its rows were listed, and those dropped while their
  database was absent. The properties except them; see section 7.
- `still` (auxiliary) are the sources that nothing happened to since the diff
  began: no edit of it, its site neither came nor went, its directory was not
  rewired, it (or, in a database, a row beside it) did not become readable. Those that are
  `GivenUp` when the diff begins are not among them; the diff itself may give up
  none.
- Not modelled: the report (`changed_repos`, failures), `last_sweep`, the content
  of bodies, and two edits of a source within the resolution of the clock that
  leave its size alone.

**CatalogCache.** `req[r].pc` follows `ensure_catalog` (`mcp.rs:316-361`): `Ask`,
`Enter` (the mutex), `Answer` (the bucket's answer leaves), then `Unchanged`,
`Changed` or `ProbeFails`, and `Install` or `FetchFails`; `Keep` is the slot and
`persist_catalog_cache`. Catalogs are numbered as they are committed; equal
numbers are equal ETags, as every encryption of the catalog is a new one. Time
is the age of a cache, of an answer on its way (at most `Timeout`, `store.rs:48`)
and of the moment a catalog was superseded. `Restart` starts from `catalog.json`.

**SearchIndex.** A document is `[fingerprint, body]`: the view it was indexed
for, and the version whose text was read. A request goes through `find`, `open`,
`fetch` (`runtime_for`), `plan`, `load`, `answer` (`sync_runtime`,
`query_runtime`); the builder through `load` and `publish` (`from_merged`,
`build_for_repo`). The runtime that a request creates is named after it: two
requests that miss the memory at the same time create two runtimes, of which one
is remembered, as in the code. `publishing` are the uploads that `tokio::spawn`
has started. `undisturbed` (auxiliary) are the sessions of a request whose
transcript did not fail, and whose document no other request rewrote in the
runtime after the request was planned. There is one repository; a view that is
ambiguous has no document in the code either.

**UpdateSwap.** One action per `Move` of the script and one per failure of it
(`update-windows.ps1:16-33`); `Again` is the catch of the retry loop. The wait
for the parent process, the scheduled watcher and the log are left out.

## 4. Runs

| Run | Instance and bounds | Shows |
|---|---|---|
| `archive_single` | 1 machine; 3 revisions, one body returns as the newest; grace 1, sweep interval 1, 5 attempts | the catalog never names a missing body; the sweep spares what is recent or referenced |
| `archive_commits` | 3 machines, 2 attempts; 4 revisions: tied, older, and of another repository; no gc, no time | commits are atomic, nothing is lost, one repository per session |
| `archive_prompt` | 2 machines, grace 1; no command fails while it has uploaded a body that is not committed; an upload is committed within the grace; the cutoff follows the load of the catalog; no body returns under another rank | types, with the limit of attempts; the catalog never names a missing body; a commit drops nothing it uploaded |
| `archive_live` | 2 machines; 3 revisions of a session: two bodies, the older of which comes back in another copy, tied with the newer one; one disturbance, sweep after each ingest | in the end every local body is archived or superseded, unless an older copy of it hides it on its machine, and what nothing names is deleted |
| `archive_dangling` (violation) | as `archive_prompt`, with failures at any request | the sweep can delete a body the catalog names |
| `choose_current` | all sequences of up to 3 of the 20 snapshots with 2 hashes, 2 counts, and 2 times, 1 or none | the fold and the pruning are right, and the order of the items makes no difference to what is shown; stops at the end of the loop, hence no deadlock check |
| `merged_view` | 9 snapshots of 3 bodies | the newest body is shown; archiving changes nothing that is shown |
| `lock` | 3 processes, 5 ids, 4 accidents; acquisitions do not overlap | one holder, named by the file; a stale file never blocks for good |
| `lock_overlap` (violation) | 2 processes, no accident | overlapping acquisitions can both succeed |
| `local_state` | a server and a command; a store, another whose path extends it, a database, one source each; 2 directories; 2 versions, 3 changes | no edit is hidden, skipped databases are known, a diff is exact about what stayed as it was and was not given up before it, the server settles |
| `catalog_cache` | 2 servers, 3 requests; lifetime 2, timeout 2; 2 commits, 2 accidents | how old an answer can be; no server goes back; every server becomes current |
| `search_index` | 1 machine, 2 requests and a rebuild, 1 session, 2 versions, 2 changes or accidents, 1 upload waiting | texts are not older than their fingerprints; answers match their views, are current where these are, and settle |

Why the bounds are enough to show the interesting cases: the interactions of
the archive are between two machines about one body, so that two machines and
two or three bodies reach them; a third machine makes a commit lose twice. A
grace of one tick tells "recent", "just within" and "older" apart. Two attempts
include a retry and giving up. Three snapshots are the least at which the loop
of `choose_current` can tie, then forget the tie; `ChooseCurrent_proofs` covers
every length. Symmetry of machines is used for safety only; nothing in the
specifications tells them apart.

`local_state` has one source for each way to lose one: a file, a file whose
store is shadowed and which cannot be parsed at first, and a row. Two processes
are what it takes to overwrite a file, and three changes to lock a source, edit
it and lose or replace the file. `MCNext` keeps the instance small: requests
name the directory that does not resolve at first; the second store, its session
included, is always there and readable, and the session is only edited first;
the directory the session moves to keeps its key; no source is locked while the
command runs; a save of the server fails as the first change; and the last
change comes between two requests of the server and neither locks a source nor
moves a store. The first store and the database vanish and come back, and a read
fails transiently or for good. The safety theorems of `LocalState_proofs` have
none of these limits. In `catalog_cache` a lifetime and a timeout of two ticks
tell "just fresh" from "fresh" and a late answer from a prompt one; two requests
of one server meet at the mutex, and another server shares the file. In
`search_index` two versions let a text be newer or older than a fingerprint, and
two requests race in `runtime_for` and in `sync_runtime`; documents of different
sessions do not depend on each other. The safety theorems of
`SearchIndex_proofs` cover any number of sessions, machines and requests.

## 5. Fairness

`Archive!Fairness` is weak fairness of time and of every machine's ingest
steps: `watch` repeats `ingest` for ever, and a request is answered or fails. It
also has strong fairness of `Commit`: a machine whose conditional PUT could
succeed again and again succeeds at some time. The code does not enforce this;
it follows from the five minutes that `watch` sleeps between two ingests, which
are long against the few requests of a commit. Without it TLC shows a machine
that loses every race to another one that uploads a stale copy in each of its
ingests. In `archive_live` failures, unreadable sources and edits are finitely
many (`MaxDisturbances`): endless failures refute any progress.

`EventuallyReclaimed` excepts bodies of which a stale local copy exists:
`ingest` uploads such a body again in every run, every five minutes, and prunes
it from the catalog in the same run. Its object never reaches the age of ten
minutes. This is a hazard of the code and not of the model.

`EventuallyArchived` excepts a local revision that an older copy of the same body
on the same machine `Hides`. `ingest` goes through the records in the order of
their keys and keeps the first copy of a body it meets, with the time of that
copy (`ingest.rs:258-270`, `305`); a revision between the two times then prunes
it, in every run. See section 7.

`LocalState!Fairness` lets a server take its steps (its client asks again and
again, and each request begins with a diff), lets whoever holds a source let go
of it in the end, and lets five minutes pass. `CatalogCache!Fairness` lets
requests go on, which are tasks the runtime schedules, and is strongly fair to
time: a tick is disabled while an answer at its timeout waits to be taken, and
time does not stop for that. `SearchIndex!Fairness` lets requests begin and go
on; neither the publication nor the rebuild is fair, as answers settle without
them. In all three, edits, failures and deaths are finitely many by a bound.

`RunLock!Fairness` lets processes that run take their steps and foreign
processes end: a foreign process that got the id in a stale lock file holds the
lock off as long as it lives.

## 6. Proofs

All are checked by TLAPS for any constants that satisfy the named assumptions.

- `Archive_proofs!TypeCorrect`: `TypeOK`. It needs `AttemptsLeft` (a machine
  that is not committing has an attempt left) to bound the attempts.
- `CommitInvariant`: `TypeOK`, `EtagVouches` (a machine whose precondition still
  holds has loaded exactly the current catalog) and `CommitReady` (what is about
  to be written has been merged without a conflict) are inductive. Every proof
  about commits rests on it: by `EtagVouches` a successful PUT replaces the
  catalog it was merged into (lemma `CommitMerges`), and only `Commit` changes
  the catalog (`OnlyCommitWrites`).
- `OneRepo`, `NothingCommittedIsLost`, `CommitsRefineAtomicCatalog`: for any
  number of machines, revisions and attempts. The third is a refinement: the
  abstract specification `AtomicCatalog` (each commit is one atomic merge) is
  instantiated with the catalog of `Archive`. The second needs the lemma
  `MergePruneKeeps`: what a prune drops is superseded by
  something it keeps, because ranks are bounded (`NewestExists`, by the
  well-founded order of the naturals) and superseding is transitive.
- `CommitsArchive`: a commit that succeeds leaves each revision it uploaded in the
  catalog, or superseded there (`PruneKeeps`). The exception is a body that was
  committed under another rank between the scan and the commit: `merge_catalogs`
  keeps the entry it has, which a revision between the two ranks prunes. The next
  ingest uploads it again. Under `BodiesStay` there is no exception.
- `OneMachineIntact`, `OneMachineSweepsOrphans`: with a single machine the
  catalog never names a missing body and no sweep deletes a referenced one. The
  inductive invariant adds that a body whose revision is being committed is in
  the bucket (`UploadedBeforeCommit`) and that a sweep's view of the catalog is
  still true (`SweepUpToDate`). Both need the run lock, that is, one program
  counter per machine. The age of objects plays no part in it. It does in
  `OneMachineSparesRecent`: what a sweep is about to delete was old when it was
  listed, and with one machine nothing has been uploaded since (`DoomedOld`).
- `PromptMachinesIntact`, `PromptMachinesSweepOrphans`: the same two promises for
  any number of machines, under the conditions of `PromptSpec` and the hypothesis
  `BodiesStay` (a body has one revision; a harness only adds to a session, and
  stale copies carry the revision they had). The inductive invariant `PromptInv`
  explains every object of the bucket: its body is named by the catalog, or is
  about to be committed by the machine that uploaded it, or is superseded by a
  strictly newer revision, for good (`OrphansExplained`). An upload that waits for
  its commit is no older than the grace, or superseded so that the commit prunes
  it again (`UploadsFresh`). Hence a listing taken right after the load finds what
  was committed since too young (`ListFresh`), and what a sweep is about to delete
  is superseded for good (`DoomedStale`): whoever uploads it again meanwhile
  commits nothing that names it.
- `ChooseCurrent_proofs`: `ChoosesNewest` and `PrunesToNewest`, for sequences of
  any length, from the loop invariant `BestSoFar`. `FoldsAreSummaries` joins this
  module to the next: the fold picks the newest item it meets first, `Summary`
  picks any, and `merge_pair` cannot tell which, whatever the other side is
  (`MergesAlike`, from `TiedCompareAlike`: what ties compares alike with
  anything).
- `MergedView_proofs`: `NewestIsShown` and `ArchivingIsInvisible`, for any bodies,
  times and counts. `Shown` works on one summary of each side; the proof shows
  that a summary keeps what decides the comparison (`SummaryIs`, `OneSide`,
  `TwoSides`): a side with several newest bodies is either beaten by the other
  or makes the result ambiguous. A newest copy exists because ranks are bounded
  (`NewestExists`; the invariant bounds the time and the counts, as the
  harnesses write finitely many bodies). Archiving then only moves copies that
  are already compared (`ArchiveKeepsNewest`).
- `RunLock_proofs`: `SerialExclusion` and `HolderIsNamed`, for any number of
  processes and any reuse of ids, as long as acquisitions do not overlap. The
  inductive invariant adds that ids of live processes differ, that no one holds
  the lock while another acquires it, and that the file a process writes to is
  the one with the name.

- `LocalState_proofs`: `StateInvariant` is the inductive invariant; from it
  `EditsAreSeen` (`FingerprintNeverHidesEdit`) and `SeenDatabasesAreKnown`
  (`DatabaseVouches`), for any stores, sources, processes and interleaving of
  their saves. The argument: fingerprints are taken before what they stand for,
  and versions only grow (`StateGood`: a record's fingerprint =< the version,
  with its body between the two if one was read), so a fingerprint that is
  current stands for what is there. The invariant also says what each local of a
  running diff promises of the versions (`ScanGood`, `DiffGood`), because a
  harness may write between any two steps.
- `LocalState_proofs!DiffsAreExact`: `DiffExact`, for any number of stores,
  sources and processes, whatever happens to other sources during the diff. On
  top of the invariant above, `StillInv` says how far a diff has come with each
  source that nothing happened to since it began (`SourceGood`): known when its
  site is done, listed as it is while its site is scanned, and if its record was
  gone through at the end and is pending, it does not resolve. It also says that
  the source is not given up: a site that is present and untouched finds it, and
  a source that is not locked can be read. Hence the record is broken exactly if
  the version cannot be parsed. The part on pending records needs that what
  `resolve_repo` remembers of one directory changes the answer for no record
  (`RememberResolves`), and what each state of a record tells (`Tells`): unread
  records are broken, read ones are broken iff they cannot be parsed, and a
  pending one waits for a directory. Its hypothesis `ShadowsComeFirst` is the
  order of the table in `sites()`; see section 7.
- `CatalogCache_proofs`: `AnswersRecent` and `NeverBack`. The inductive invariant
  relates every cache, `catalog.json` and every answer on its way to the moment
  its catalog was superseded (`Recent`), and says that whoever waits for an
  answer holds the mutex of its server. Without the mutex the second fails.
- `SearchIndex_proofs`: `TextsAreVouched`, `AnswersMatch` and
  `AnswersAreCurrent`. All documents come from one place: lemma `NextMade` goes
  through the actions once and shows that a document of a runtime, a disk, the
  bucket, an upload or a task is none, was kept before, or is a transcript read
  now under the view of a task that planned to. What is true of these is then
  true everywhere (`DocumentsInv`, `Dated`): a text is neither older than its
  fingerprint nor newer than its session, and is exactly that of a fingerprint
  of the archive. The second theorem needs that a runtime is only used by
  requests of its server (`RuntimesOwned`), and that the plan of a request still
  fits its runtime in each undisturbed session (`Planned`), whatever others do
  to the other sessions. The third follows from both: a local view that is still
  true squeezes the text between its fingerprint and the session.
- `UpdateSwap_proofs`: `SwapKeepsExecutable`: for any number of overlapping
  updates and attempts, a missing target is in a backup that is either about to
  be moved back or replaced, or was left by a script that was killed or could
  not roll back; nothing overwrites it. It assumes that the installed executable
  is not `None`.

The theorems named `TypeCorrect` prove the type invariant of their module.

Every invariant and every safety property that a passing run checks is stated by
one of these theorems. Only model-checked: liveness (`EventuallyArchived`,
`EventuallyReclaimed`, `StaleLockTaken`, `Settles`, `EventuallyCurrent`,
`AnswersSettle`), as fairness and `ENABLED` are out of the prover's reach.

## 7. What the checks found

1. `archive_dangling`. An ingest uploads a body and fails; after the grace another
   machine lists the orphan; the first machine uploads it again and commits; the
   DELETE arrives, and the catalog names a body that is gone. No ingest uploads
   it again, because the catalog names it. On the way, a body younger than the
   grace is deleted, against the comment at `ingest.rs:24-26`: the age that counts
   is the one in the listing, and the DELETE has no condition. `PromptSpec` and
   `BodiesStay` state conditions under which this cannot happen: no command fails
   between an upload and its commit, no commit is refused for good or gives up
   after five attempts, no upload waits for its commit longer than the grace, a
   sweep takes its cutoff as soon as it has the catalog, and no body returns under
   another rank. `PromptMachinesIntact` proves that they suffice; TLC refutes
   `NoDanglingReference` when any one of them is dropped.
2. `lock_overlap`. The lock file is created empty and filled after. A second
   process that reads it in between takes it for a stale file, removes it and
   creates its own: both hold the lock. Drop then removes the file of the other.

Attempts at a proof that failed for a reason:

- `DiffExact` first spoke only of diffs during which nothing happened at all. No
  proof step needs that of other sources, so that the property now speaks of
  each source by itself. It also excepted only the sources that are locked
  themselves. A database of which one row cannot be enumerated is given up as a whole
  (`DiscoverFails`), so that its other rows keep their old records: TLC shows it
  with two rows, one more than `local_state` has. `Unreadable` now excepts them.
- `AnswerMatchesViews` first excepted a request altogether once a transcript had
  failed or another request had changed the runtime. The proof goes session by
  session, so that the property does too: such an event excepts the session it is
  about. The run has one session; TLC agrees on two with one change.
- `drop_unseen` drops records by string prefix, those of a longer path included.
  They come back in the same diff only if that site is scanned afterwards. With
  the two sites in the other order TLC refutes `DiffExact`: each diff would
  read one site's sessions and drop them again. `sites()` lists a GrokBot root
  before its `agents` (`sources.rs:374-391`), which is why this does not happen;
  nothing in the code says that the order matters.

Comments that the modelled code does not keep, met while the properties were
stated. No run refutes them; the properties are stated so as to except them:

- `local_state.rs:45`, `Broken` is "The source could not be parsed; retried only
  when it changes again": it is also the record of a healthy source whose store
  `sites()` did not find at the moment of the load (`sources.rs:134-138`), or
  whose read met an error that is not transient, as permission denied or too many
  open files (`sources.rs:430-449`). When the store is back the source has the
  fingerprint of its record, so that no diff reads it again: it is neither
  archived nor listed until its harness writes to it. These sources are `GivenUp`
  in `DiffExact` and `Settles`; TLC refutes either without the exception.
- `ingest.rs:246-248`, "A failed commit retries because the catalog lacks the
  hash": the catalog can lack a hash for good. If a machine has a body twice, under
  an old time and a new one, and the copy with the old time comes first, each
  ingest uploads the body under the old time, and prunes it in favour of another
  body between the two. The newest revision is never archived. It is the
  exception `Hides` of `EventuallyArchived`; TLC refutes it without.
- `local_state.rs:405`, "the next diff retries it": not for a row of a database.
  `scan_db` records the database as seen after a row failed to load, and the row
  is next looked at when the database changes. Rows that `drop_unowned` removes
  while their database is absent for one diff share this fate, and so do those of
  a database that was away just when its rows were listed. They are `passed` in
  `DatabaseVouches`, `DiffExact` and `Settles`.
- `mcp.rs:268-269`, "at most `CATALOG_MAX_AGE` stale": the age counts from the
  arrival of the answer, so `AnswersAreRecent` adds the HTTP timeout of five
  minutes; and a failed probe serves the cache whatever its age, which
  `src/README.md:56` excludes. A server without a cache then answers from an
  empty catalog.
- `search_index.rs:428-429`, "a single R2 object fetch": the published documents
  of sessions that the publisher has locally carry its stat fingerprints, which
  no view of a read-only PC has, so that each is fetched again at its first
  search.
- `update-windows.ps1:23`, "do not retry": the exception of a failed rollback is
  caught by the retry loop, which goes on. By `ExecutableKept` this does no harm,
  as no move overwrites a file that exists.
- `mcp.rs:495-496`, "bring the runtime in line with the merged views": a request
  beside a slower one can find in the index what the slower one saw before it.
  `AnswerMatchesViews` excepts, for each request, the sessions whose document
  another one rewrote meanwhile;
  `AnswersSettle` shows that later requests heal this. A snapshot on disk or in
  the bucket may stay older until the next change.

## 8. Not modelled

The R2 client, signatures, encryption, document encoding, repository names,
ranges, rendering, configuration, installation and the command line hold no
state that two actors share, or are I/O whose effect `Archive`, `CatalogCache`
and `SearchIndex` model request by request. Of the encryption, two facts are
used: equal hashes mean equal session, repository and body
(`RevisionAssumption`), and each encryption of the catalog gets a new ETag.

Left out of parts that are modelled, beside what section 3 says:

- the download of the body of a session by a reader, with its plaintext cache and
  `prune_plaintext_cache`: a reader whose catalog is older than a sweep gets an
  error;
- `index` on a read-only install (`search_index.rs:443-460`), and `Ambiguous`
  views in the index;
- snapshots that cannot be parsed or do not `validate`. The format of a snapshot
  names the version of txcript, so that each upgrade of that library turns the
  snapshots on disk into such ones. `load_local(...)?` then fails the rebuild
  (`search_index.rs:89`) and the queries (`mcp.rs:473`) of that repository, until
  the file is removed;
- the download and verification of a release, and the rename that replaces the
  executable on systems other than Windows, one atomic call;
- `changed_repos`: after a session moves to another repository only the new one
  is rebuilt (`local_state.rs:387`); the next search of the old one updates it.

## 9. Plan

What could follow:

1. `CatalogCache` composed with `Archive`: when a reader can ask for a body that
   is swept, and that asking again finds the session.
2. `SearchIndex` for two repositories, with `changed_repos` and sessions that
   move between them.
3. Proofs: abstract specifications of the local state and of the search index
   that their steps implement, as `AtomicCatalog` is of the commits; the safety
   part of the liveness properties (which step remains to be taken).
