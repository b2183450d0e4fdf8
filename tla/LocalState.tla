------------------------------ MODULE LocalState ------------------------------
(***************************************************************************)
(* The records of local sessions (src/src/local_state.rs) over the stores  *)
(* of this machine (src/src/sources.rs).  A diff walks every site and      *)
(* reads only the sources whose fingerprint moved; a database is only      *)
(* enumerated when its own fingerprint moved.  The result is kept in       *)
(* memory and saved as a whole in local-state.json, which ingest and the   *)
(* MCP servers all load and replace: the last writer wins.                 *)
(*                                                                         *)
(* A source is a sequence of versions; every edit and every removal makes  *)
(* a version of its own, so that equal fingerprints (time and size) mean   *)
(* an untouched source.  Each walk, enumeration and read of a body is one  *)
(* step, and the harnesses write between any two of them.                  *)
(***************************************************************************)
EXTENDS Naturals

CONSTANTS
    Process,      \* processes of this program on the machine
    Server,       \* those that keep their state between diffs: MCP servers
    SiteCount,    \* sites() is a table: sites are 1 .. SiteCount, in its order
    Db,           \* the sites that are databases
    Shadow,       \* <<v, w>>: one harness, and v's root is a string prefix of w's
    Source,       \* session files, session directories and rows
    SiteOf,       \* the site of each source
    Dir,          \* directories that sessions record as their cwd
    Cwd,          \* Cwd[s][n]: the cwd in version n of s, or Garbled
    Garbled,      \* the version cannot be parsed
    None,         \* no record; no fingerprint
    MaxVersion,   \* bound on the versions of a source
    MaxChanges    \* bound on what happens outside this program

Sites == 1 .. SiteCount

ASSUME SiteAssumption ==
    /\ SiteCount \in Nat
    /\ Db \subseteq Sites
    /\ SiteOf \in [Source -> Sites]
    /\ Shadow \subseteq (Sites \ Db) \X (Sites \ Db)

\* A site is scanned before those whose path it is a prefix of: sites() lists
\* a root of GrokBot before the `agents` of that root.
ShadowsComeFirst == \A v, w \in Sites : <<v, w>> \in Shadow => v < w

\* The body of a record whose source was given up without being read.
Unread == 0

RecordType == [fp : 1 .. MaxVersion, body : {Unread} \cup 1 .. MaxVersion,
               state : {"ready", "pending", "broken"}]
StampType == [Source -> 0 .. MaxVersion]

ASSUME NoneAssumption == None \notin RecordType /\ None \notin StampType

ASSUME ProcessAssumption == Server \subseteq Process

ASSUME VersionAssumption ==
    /\ MaxVersion \in Nat \ {0}
    /\ MaxChanges \in Nat
    /\ Cwd \in [Source -> [1 .. MaxVersion -> Dir \cup {Garbled}]]

VARIABLES
    version,    \* the version of each source, 0 before the first
    there,      \* the sources that exist
    locked,     \* the sources that cannot be read for now
    present,    \* the sites that sites() finds
    origin,     \* what git says of each directory: "key", "none"; or "gone"
    changes,    \* what happened outside this program so far
    disk,       \* local-state.json
    mem,        \* the LocalStore of each process
    dirty,      \* it differs from what the process loaded or saved
    pc,         \* what each process does next
    diff,       \* the locals of its diff: the site it has come to, the sites it
                \* found, the fingerprints it listed at this site, the one it
                \* took of the database before, the sources yet to consider
    still       \* the sources that nothing happened to since its diff began,
                \* but for those that an earlier diff gave up (auxiliary)

outside == <<version, there, locked, present, origin, changes>>
vars == <<outside, disk, mem, dirty, pc, diff, still>>

Empty == [record |-> [s \in Source |-> None],   \* a SourceRecord of each source
          repo   |-> [d \in Dir |-> "unknown"], \* cached resolutions
          seen   |-> [w \in Db |-> None],       \* fingerprints of databases
          passed |-> {}]   \* rows passed over although their database is seen (auxiliary)

Nothing == [s \in Source |-> 0]

NoDiff == [at |-> 0, sites |-> {}, walk |-> Nothing, held |-> Nothing, todo |-> {}]

Init ==
    /\ there \in SUBSET Source
    /\ version = [s \in Source |-> IF s \in there THEN 1 ELSE 0]
    /\ locked = {}
    /\ present = Sites
    /\ origin \in [Dir -> {"key", "none"}]
    /\ changes = 0
    /\ disk = Empty
    /\ mem = [p \in Process |-> Empty]
    /\ dirty = [p \in Process |-> FALSE]
    /\ pc = [p \in Process |-> "off"]
    /\ diff = [p \in Process |-> NoDiff]
    /\ still = [p \in Process |-> {}]

\* What a walk lists of a site: the fingerprint of each of its sources, and
\* nothing if the site vanished.
Listing(w) ==
    [s \in Source |-> IF SiteOf[s] = w /\ w \in present /\ s \in there THEN version[s] ELSE 0]

\* db_fingerprint: time and size of the database and of its side files.
DbStamp(w) == [s \in Source |-> IF SiteOf[s] = w THEN version[s] ELSE 0]

-----------------------------------------------------------------------------
(* Reading one source                                                      *)

\* resolve_repo: a directory that is gone resolves to nothing, and no cached
\* answer is asked; a cached answer counts, a new one is remembered.
Resolves(st, d) ==
    \/ origin[d] # "gone" /\ st.repo[d] = "key"
    \/ origin[d] = "key" /\ st.repo[d] = "unknown"

Remember(st, d) ==
    IF origin[d] = "gone" \/ st.repo[d] # "unknown"
      THEN st
      ELSE [st EXCEPT !.repo[d] = origin[d]]

Record(fp, body, how) == [fp |-> fp, body |-> body, state |-> how]

Gone(s) == s \notin there \/ SiteOf[s] \notin present

\* load_failure: a read that fails is tried again when the system says that it
\* would block, timed out or was interrupted; any other error is final.
Failure == {"transient", "broken"}

\* The record of a source that was read.
ReadAs(st, s, fp) ==
    LET d == Cwd[s][version[s]]
    IN IF d = Garbled
         THEN [st EXCEPT !.record[s] = Record(fp, version[s], "broken")]
         ELSE [Remember(st, d) EXCEPT !.record[s] =
                 Record(fp, version[s], IF Resolves(st, d) THEN "ready" ELSE "pending")]

\* (mutant) A record that cannot be read again is marked as seen.
ReloadMarks(st, s, fp, failure) ==
    IF Gone(s) \/ (s \in locked /\ failure = "broken")
      THEN [st EXCEPT !.record[s] = Record(fp, Unread, "broken")]
    ELSE IF s \in locked
      THEN IF st.record[s] = None THEN st ELSE [st EXCEPT !.record[s].fp = fp]
    ELSE ReadAs(st, s, fp)

\* reload: sources::load finds the site anew and reads the body as it is now,
\* whatever the fingerprint says.  A transient failure keeps the old record;
\* no site, no source or a final error makes a broken one of a body that
\* nobody read.
Reload(st, s, fp, failure) ==
    IF Gone(s) \/ (s \in locked /\ failure = "broken")
      THEN [st EXCEPT !.record[s] = Record(fp, Unread, "broken")]
    ELSE IF s \in locked
      THEN st
    ELSE ReadAs(st, s, fp)

Carries(st, s, fp) == st.record[s] # None /\ st.record[s].fp = fp

\* reconsider: a record with the same fingerprint is left alone.
Reconsider(st, s, fp, failure) ==
    LET new == IF Carries(st, s, fp) THEN st ELSE Reload(st, s, fp, failure)
    IN [new EXCEPT !.passed = IF SiteOf[s] \in Db /\ ~Carries(new, s, fp)
                                THEN @ \cup {s}
                                ELSE @ \ {s}]

\* The sources that the diff does not read again although it never read them
\* as they are: their site was away, or would not open, when they were loaded.
GivenUp(st) ==
    {s \in Source : /\ SiteOf[s] \in present
                    /\ Carries(st, s, version[s])
                    /\ st.record[s].body = Unread}

\* Records that leave the map.
Without(st, gone) ==
    [st EXCEPT !.record = [s \in Source |-> IF s \in gone THEN None ELSE @[s]]]

-----------------------------------------------------------------------------
(* The steps of a process                                                  *)

\* The state of p after a step of its diff.
Becomes(p, st) ==
    /\ mem' = [mem EXCEPT ![p] = st]
    /\ dirty' = [dirty EXCEPT ![p] = @ \/ st # mem[p]]

Goes(p, next) == pc' = [pc EXCEPT ![p] = next]

\* LocalStore::load, of a file that may be missing or corrupt.  Someone runs
\* the command.
Start(p) ==
    /\ pc[p] = "off"
    /\ IF p \in Server
         THEN UNCHANGED changes
         ELSE changes < MaxChanges /\ changes' = changes + 1
    /\ Goes(p, "idle")
    /\ mem' = [mem EXCEPT ![p] = disk]
    /\ dirty' = [dirty EXCEPT ![p] = FALSE]
    /\ UNCHANGED <<version, there, locked, present, origin, disk, diff, still>>

\* diff begins with the table of sites.
Begin(p) ==
    /\ pc[p] = "idle"
    /\ Goes(p, "walk")
    /\ diff' = [diff EXCEPT ![p].at = 1, ![p].sites = present]
    /\ still' = [still EXCEPT ![p] = Source \ GivenUp(mem[p])]
    /\ UNCHANGED <<outside, disk, mem, dirty>>

\* On to the next site; the locals of the scan are gone.
NextSite(p) ==
    /\ Goes(p, "walk")
    /\ diff' = [diff EXCEPT ![p].at = @ + 1, ![p].walk = Nothing, ![p].held = Nothing]

Skip(p) ==
    LET w == diff[p].at
    IN /\ pc[p] = "walk"
       /\ w \in Sites
       /\ w \in diff[p].sites => w \in Db /\ mem[p].seen[w] = DbStamp(w)
       /\ NextSite(p)
       /\ UNCHANGED <<outside, disk, mem, dirty, still>>

\* The walk or the enumeration lists some of the site's sources.  Which files
\* and rows are sources is decided by their names and kinds.
Lists(p, listing) ==
    /\ Goes(p, "load")
    /\ diff' = [diff EXCEPT ![p].walk = listing,
                            ![p].todo = {s \in Source : listing[s] # 0}]
    /\ UNCHANGED <<outside, disk, mem, dirty, still>>

\* scan_files and scan_session_dirs: a stat-only walk, which passes over
\* what it cannot read.
Walk(p) ==
    /\ pc[p] = "walk"
    /\ diff[p].at \in diff[p].sites \ Db
    /\ \E over \in {{}, locked} :
         Lists(p, [s \in Source |-> IF s \in over THEN 0 ELSE Listing(diff[p].at)[s]])

\* scan_db: the fingerprint of the database is taken first.
Stamp(p) ==
    LET w == diff[p].at
    IN /\ pc[p] = "walk"
       /\ w \in diff[p].sites \cap Db
       /\ mem[p].seen[w] # DbStamp(w)
       /\ Goes(p, "discover")
       /\ diff' = [diff EXCEPT ![p].held = DbStamp(w)]
       /\ UNCHANGED <<outside, disk, mem, dirty, still>>

\* Site::discover lists the rows with their fingerprints, or fails.
Discover(p) ==
    /\ pc[p] = "discover"
    /\ diff[p].at \in present
    /\ Lists(p, Listing(diff[p].at))

\* The database vanished after its fingerprint was taken, and no row is found.
DiscoverNothing(p) ==
    /\ pc[p] = "discover"
    /\ diff[p].at \notin present
    /\ Goes(p, "load")
    /\ diff' = [diff EXCEPT ![p].walk = Nothing, ![p].todo = {}]
    /\ mem' = [mem EXCEPT ![p].passed = @ \cup {s \in Source : SiteOf[s] = diff[p].at}]
    /\ UNCHANGED <<outside, disk, dirty, still>>

DiscoverFails(p) ==
    /\ pc[p] = "discover"
    /\ diff[p].at \notin present \/ \E s \in locked : SiteOf[s] = diff[p].at
    /\ NextSite(p)
    /\ UNCHANGED <<outside, disk, mem, dirty, still>>

Load(p) ==
    /\ pc[p] = "load"
    /\ \E s \in diff[p].todo, failure \in Failure :
         /\ Becomes(p, Reconsider(mem[p], s, diff[p].walk[s], failure))
         /\ diff' = [diff EXCEPT ![p].todo = @ \ {s}]
    /\ UNCHANGED <<outside, disk, pc, still>>

\* The records of a site that drop_unseen takes: those of a source it did not
\* list, of this site or of one whose path begins with the same string.
Unseen(p) ==
    {s \in Source : /\ diff[p].walk[s] = 0
                    /\ SiteOf[s] = diff[p].at \/ <<diff[p].at, SiteOf[s]>> \in Shadow}

\* (mutant) The fingerprint of the database is taken after the rows.
SeesLate(st, w, stamp) == IF w \in Db THEN [st EXCEPT !.seen[w] = DbStamp(w)] ELSE st

\* A database is recorded as seen, by the fingerprint taken before its rows.
Sees(st, w, stamp) == IF w \in Db THEN [st EXCEPT !.seen[w] = stamp] ELSE st

\* The scan of a site ends with drop_unseen.
EndSite(p) ==
    /\ pc[p] = "load"
    /\ diff[p].todo = {}
    /\ Becomes(p, Sees(Without(mem[p], Unseen(p)), diff[p].at, diff[p].held))
    /\ NextSite(p)
    /\ UNCHANGED <<outside, disk, still>>

\* (mutant) The records of sites that are gone stay.
UnownedKept(p) == {}

Unowned(p) == {s \in Source : SiteOf[s] \notin diff[p].sites}

\* drop_unowned, and the list that resolve_pending goes through.
EndSites(p) ==
    LET st == [Without(mem[p], Unowned(p)) EXCEPT
                 !.passed = @ \cup {s \in Unowned(p) : SiteOf[s] \in Db}]
    IN /\ pc[p] = "walk"
       /\ diff[p].at = SiteCount + 1
       /\ Goes(p, "pending")
       /\ Becomes(p, st)
       /\ diff' = [diff EXCEPT ![p].todo =
                     {s \in Source : st.record[s] # None /\ st.record[s].state = "pending"}]
       /\ UNCHANGED <<outside, disk, still>>

\* resolve_pending: a directory that resolves now has its session read again,
\* under the fingerprint of its record.
ResolvePending(p) ==
    /\ pc[p] = "pending"
    /\ \E s \in diff[p].todo, failure \in Failure :
         LET r == mem[p].record[s]
             d == Cwd[s][r.body]
             st == Remember(mem[p], d)
         IN /\ Becomes(p, IF Resolves(mem[p], d) THEN Reload(st, s, r.fp, failure) ELSE st)
            /\ diff' = [diff EXCEPT ![p].todo = @ \ {s}]
    /\ UNCHANGED <<outside, disk, pc, still>>

\* What a process holds is gone.
Ends(p) ==
    /\ Goes(p, "off")
    /\ mem' = [mem EXCEPT ![p] = Empty]
    /\ diff' = [diff EXCEPT ![p] = NoDiff]

DiffDone(p) == pc[p] = "pending" /\ diff[p].todo = {}

\* save_if_dirty replaces the whole file.  A server waits for its next
\* request; a command ends.
Save(p) ==
    /\ DiffDone(p)
    /\ disk' = IF dirty[p] THEN mem[p] ELSE disk
    /\ dirty' = [dirty EXCEPT ![p] = FALSE]
    /\ still' = [still EXCEPT ![p] = {}]
    /\ IF p \in Server
         THEN Goes(p, "idle") /\ diff' = [diff EXCEPT ![p] = NoDiff] /\ UNCHANGED mem
         ELSE Ends(p)
    /\ UNCHANGED outside

\* The file cannot be written: what is in memory counts until the process
\* ends, and the next request tries again.
SaveFails(p) ==
    /\ DiffDone(p)
    /\ changes < MaxChanges
    /\ changes' = changes + 1
    /\ still' = [still EXCEPT ![p] = {}]
    /\ IF p \in Server
         THEN /\ Goes(p, "idle")
              /\ diff' = [diff EXCEPT ![p] = NoDiff]
              /\ UNCHANGED <<mem, dirty>>
         ELSE Ends(p) /\ dirty' = [dirty EXCEPT ![p] = FALSE]
    /\ UNCHANGED <<version, there, locked, present, origin, disk>>

\* A request names a directory, which is resolved before the diff, through the
\* same cache, that of a directory that is gone included.  A server saves the
\* answer at once; the command `index` keeps it until its diff is done.
ResolveDirectory(p) ==
    /\ pc[p] = "idle"
    /\ \E d \in Dir :
         LET answer == IF origin[d] = "key" THEN "key" ELSE "none"
             st == IF mem[p].repo[d] = "unknown" THEN [mem[p] EXCEPT !.repo[d] = answer] ELSE mem[p]
             new == dirty[p] \/ st # mem[p]
         IN /\ mem' = [mem EXCEPT ![p] = st]
            /\ dirty' = [dirty EXCEPT ![p] = new /\ p \notin Server]
            /\ disk' = IF new /\ p \in Server THEN st ELSE disk
    /\ UNCHANGED <<outside, pc, diff, still>>

Step(p) ==
    \/ Start(p) \/ Begin(p) \/ Skip(p) \/ Walk(p) \/ Stamp(p) \/ Discover(p)
    \/ DiscoverNothing(p) \/ DiscoverFails(p) \/ Load(p) \/ EndSite(p) \/ EndSites(p)
    \/ ResolvePending(p) \/ Save(p)

-----------------------------------------------------------------------------
(* What happens outside                                                    *)

Outside ==
    /\ changes < MaxChanges
    /\ changes' = changes + 1

\* Something happens to the sources of a set (auxiliary).
Touches(some) == still' = [p \in Process |-> still[p] \ some]

\* The sources that are listed together with s, or not at all.
Together(s) == IF SiteOf[s] \in Db THEN {r \in Source : SiteOf[r] = SiteOf[s]} ELSE {s}

Edit(s) ==
    /\ Outside
    /\ Touches({s})
    /\ version[s] < MaxVersion
    /\ version' = [version EXCEPT ![s] = @ + 1]
    /\ there' = there \cup {s}
    /\ UNCHANGED <<locked, present, origin, disk, mem, dirty, pc, diff>>

Delete(s) ==
    /\ Outside
    /\ Touches({s})
    /\ s \in there
    /\ version[s] < MaxVersion
    /\ version' = [version EXCEPT ![s] = @ + 1]
    /\ there' = there \ {s}
    /\ UNCHANGED <<locked, present, origin, disk, mem, dirty, pc, diff>>

Lock(s) ==
    /\ Outside
    /\ s \in there \ locked
    /\ locked' = locked \cup {s}
    /\ UNCHANGED <<version, there, present, origin, disk, mem, dirty, pc, diff, still>>

Unlock(s) ==
    /\ s \in locked
    /\ locked' = locked \ {s}
    /\ Touches(Together(s))
    /\ UNCHANGED <<version, there, present, origin, changes, disk, mem, dirty, pc, diff>>

\* A store root that sites() no longer finds, or finds again.
Toggle(w) ==
    /\ Outside
    /\ Touches({s \in Source : SiteOf[s] = w})
    /\ present' = IF w \in present THEN present \ {w} ELSE present \cup {w}
    /\ UNCHANGED <<version, there, locked, origin, disk, mem, dirty, pc, diff>>

\* A repository gains an origin; a directory is deleted, or comes back.
Rewire(d) ==
    /\ Outside
    /\ Touches({s \in there : Cwd[s][version[s]] = d})
    /\ \E o \in {"key", "gone"} \ {origin[d]} : origin' = [origin EXCEPT ![d] = o]
    /\ UNCHANGED <<version, there, locked, present, disk, mem, dirty, pc, diff>>

\* (mutant) A remembered failure counts for good.
ForgetNever(st) == st

\* REPO_RETRY passes: a remembered failure does not count any more.
Forget(st) == [st EXCEPT !.repo = [d \in Dir |-> IF @[d] = "none" THEN "unknown" ELSE @[d]]]

Retry ==
    /\ \E st \in {disk} \cup {mem[p] : p \in Process} : Forget(st) # st
    /\ disk' = Forget(disk)
    /\ mem' = [p \in Process |-> Forget(mem[p])]
    /\ Touches(Source)
    /\ UNCHANGED <<outside, dirty, pc, diff>>

\* A process ends, whatever it does.
Die(p) ==
    /\ changes < MaxChanges
    /\ changes' = changes + 1
    /\ pc[p] # "off"
    /\ Ends(p)
    /\ dirty' = [dirty EXCEPT ![p] = FALSE]
    /\ still' = [still EXCEPT ![p] = {}]
    /\ UNCHANGED <<version, there, locked, present, origin, disk>>

\* The state file is lost, or written by a version with another schema.
LoseFile ==
    /\ Outside
    /\ disk' = Empty
    /\ UNCHANGED <<version, there, locked, present, origin, mem, dirty, pc, diff, still>>

Next ==
    \/ \E p \in Process : Step(p) \/ ResolveDirectory(p) \/ SaveFails(p) \/ Die(p)
    \/ \E s \in Source : Edit(s) \/ Delete(s) \/ Lock(s) \/ Unlock(s)
    \/ \E w \in Sites : Toggle(w)
    \/ \E d \in Dir : Rewire(d)
    \/ Retry
    \/ LoseFile

Spec == Init /\ [][Next]_vars

\* A server answers requests for ever, each of which begins with a diff; a
\* reader lets go of a source in the end; five minutes pass.
Fairness ==
    /\ \A p \in Server : WF_vars(Step(p))
    /\ \A s \in Source : WF_vars(Unlock(s))
    /\ WF_vars(Retry)

FairSpec == Spec /\ Fairness

-----------------------------------------------------------------------------
(* Properties                                                              *)

StateType == [record : [Source -> RecordType \cup {None}],
              repo   : [Dir -> {"unknown", "none", "key"}],
              seen   : [Db -> StampType \cup {None}],
              passed : SUBSET Source]

\* The types of the variables; a diff is between the first site and the last.
TypeOK ==
    /\ version \in StampType
    /\ there \subseteq Source
    /\ locked \subseteq Source
    /\ present \subseteq Sites
    /\ origin \in [Dir -> {"key", "none", "gone"}]
    /\ changes \in 0 .. MaxChanges
    /\ disk \in StateType
    /\ mem \in [Process -> StateType]
    /\ dirty \in [Process -> BOOLEAN]
    /\ pc \in [Process -> {"off", "idle", "walk", "discover", "load", "pending"}]
    /\ diff \in [Process -> [at : 0 .. SiteCount + 1, sites : SUBSET Sites,
                             walk : StampType, held : StampType, todo : SUBSET Source]]
    /\ still \in [Process -> SUBSET Source]

States == {disk} \cup {mem[p] : p \in Process}

\* In no state, on disk or in memory, does a record that carries the current
\* fingerprint of its source describe an older body: the diff would never read
\* that source again.  The harness writes between the walk and the read, the
\* read fails, processes overwrite each other's file, and resolve_pending reads
\* under an old fingerprint.  A record of a source that was given up describes
\* no body at all.
FingerprintNeverHidesEdit ==
    \A st \in States, s \in Source :
        Carries(st, s, version[s])
            => \/ st.record[s].body = version[s]
               \/ st.record[s].body = Unread /\ st.record[s].state = "broken"

\* A database whose fingerprint is recorded is not enumerated again, so its
\* records must then be those of its rows: one for each row, with the row's
\* fingerprint, and none for another.  Excused are the rows that scan_db passes
\* over: it records the database as seen although a row could not be read, or
\* the database was away when its rows were listed, and drop_unowned drops rows
\* but not the fingerprint.
DatabaseVouches ==
    \A st \in States, s \in Source :
        SiteOf[s] \in Db /\ st.seen[SiteOf[s]] = DbStamp(SiteOf[s]) /\ s \notin st.passed
            => IF s \in there
                 THEN Carries(st, s, version[s])
                 ELSE st.record[s] = None

\* The record of s says what the source is now: broken only if it cannot be
\* parsed, pending only if its directory does not resolve.
Exact(st, s) ==
    IF s \in there /\ SiteOf[s] \in present
      THEN /\ Carries(st, s, version[s])
           /\ st.record[s].body = version[s]
           /\ st.record[s].state = "broken" <=> Cwd[s][version[s]] = Garbled
           /\ st.record[s].state = "pending" => ~Resolves(st, Cwd[s][version[s]])
      ELSE st.record[s] = None

\* What cannot be read for now: a locked source, and every row of a database
\* that holds one, as the enumeration of the database can fail.
Unreadable ==
    locked \cup {s \in Source : SiteOf[s] \in Db /\ \E r \in locked : SiteOf[r] = SiteOf[s]}

\* A diff ends with the record of every source that can be read and to which
\* nothing happened since the diff began, as the source is, and with none of
\* such a source that does not exist, whatever happened to others and whatever
\* file it started from: ingest uploads, and the server lists, from these
\* records.  It gives no such source up; those that an earlier diff gave up, and
\* that have not changed since, are not read again and are excepted.
DiffExact ==
    \A p \in Process : DiffDone(p) =>
        \A s \in still[p] \ (Unreadable \cup mem[p].passed) : Exact(mem[p], s)

\* A server comes to an exact state and stays there once nothing happens any
\* more: what a transient failure kept, what did not resolve and what a lost
\* file or another process's save took away is tried again.  Not so the rows
\* passed over and the sources given up, which wait for the next change.
Settles ==
    <>[](\A p \in Server : pc[p] = "idle" =>
           \A s \in Source \ (mem[p].passed \cup GivenUp(mem[p])) :
               /\ Exact(mem[p], s)
               /\ mem[p].record[s] # None /\ mem[p].record[s].state = "pending"
                     => origin[Cwd[s][version[s]]] # "key")

=============================================================================
