----------------------------- MODULE SearchIndex -----------------------------
(***************************************************************************)
(* The search index of one repository: the runtimes of the MCP servers     *)
(* (src/src/mcp.rs), their snapshots on disk and in the bucket, and the    *)
(* rebuild after an ingest (src/src/search_index.rs).                      *)
(*                                                                         *)
(* A document is the text of a session with the fingerprint of the view it *)
(* was asked for by: what the local scan or the catalog said before the    *)
(* text was read.  Sessions are written on one machine, Owner, which also  *)
(* archives them; the other servers read the archive only.  Versions of a  *)
(* session are numbered; a version stands for its stat fingerprint, its    *)
(* hash and its text.                                                      *)
(***************************************************************************)
EXTENDS Naturals

CONSTANTS
    Session,
    Server,        \* MCP servers, each with a cache directory of its own
    Owner,         \* the one that may write the archive
    Request,       \* search requests, each to one server
    ServerOf,
    Builder,       \* the rebuild on the owner's machine, ingest or `index`
    None,
    MaxVersion,    \* bound on the versions of a session
    MaxAccidents   \* bound on failures and restarts

Task == Request \cup {Builder}

ASSUME ServerAssumption ==
    /\ Owner \in Server
    /\ ServerOf \in [Request -> Server]
    /\ Builder \notin Request
    /\ None \notin Request

ASSUME BoundAssumption == MaxVersion \in Nat \ {0} /\ MaxAccidents \in Nat

View == [pick : {"None", "Local", "Remote"}, version : 0 .. MaxVersion]
Document == [fingerprint : View, body : 0 .. MaxVersion]
Snapshot == [Session -> Document]

NoView == [pick |-> "None", version |-> 0]
NoDocument == [fingerprint |-> NoView, body |-> 0]
Empty == [s \in Session |-> NoDocument]
NoViews == [s \in Session |-> NoView]

VARIABLES
    newest,      \* the newest version of each session
    there,       \* whether the owner's machine has the session
    archive,     \* the version in the archive, 0 if none
    disk,        \* the snapshot of each server's machine: {}, or one
    remote,      \* the snapshot in the bucket: {}, or one
    runtime,     \* the Runtime each request created
    indexes,     \* whose runtime each server remembers
    publishing,  \* snapshots that spawned tasks are about to upload
    pc, view, removes, todo, held, uses,  \* each task: its next step, its
                 \* views, its plan, the documents read, its runtime
    undisturbed, \* auxiliary: the sessions of each request whose transcript did
                 \* not fail, and whose document no other request changed after
                 \* it was planned
    accidents

sessions == <<newest, there, archive>>
snapshots == <<disk, remote, publishing>>
task == <<view, removes, todo, held, uses, undisturbed>>
vars == <<sessions, snapshots, runtime, indexes, pc, task, accidents>>

Init ==
    /\ newest \in [Session -> {0, 1}]
    /\ there = [s \in Session |-> newest[s] = 1]
    /\ archive = [s \in Session |-> 0]
    /\ disk = [v \in Server |-> {}]
    /\ remote = {}
    /\ runtime = [r \in Request |-> [documents |-> Empty, dirty |-> FALSE]]
    /\ indexes = [v \in Server |-> None]
    /\ publishing = {}
    /\ pc = [t \in Task |-> "idle"]
    /\ view = [t \in Task |-> NoViews]
    /\ removes = [t \in Task |-> {}]
    /\ todo = [t \in Task |-> {}]
    /\ held = [t \in Task |-> Empty]
    /\ uses = [r \in Request |-> r]
    /\ undisturbed = [r \in Request |-> {}]
    /\ accidents = 0

Goes(t, next) == pc' = [pc EXCEPT ![t] = next]

\* Tasks end, and what they held is gone.
Ends(ts) ==
    /\ pc' = [t \in Task |-> IF t \in ts THEN "idle" ELSE pc[t]]
    /\ view' = [t \in Task |-> IF t \in ts THEN NoViews ELSE view[t]]
    /\ removes' = [t \in Task |-> IF t \in ts THEN {} ELSE removes[t]]
    /\ todo' = [t \in Task |-> IF t \in ts THEN {} ELSE todo[t]]
    /\ held' = [t \in Task |-> IF t \in ts THEN Empty ELSE held[t]]
    /\ uses' = [r \in Request |-> IF r \in ts THEN r ELSE uses[r]]
    /\ undisturbed' = [r \in Request |-> IF r \in ts THEN {} ELSE undisturbed[r]]

Accident == accidents < MaxAccidents /\ accidents' = accidents + 1

-----------------------------------------------------------------------------
(* What the tasks read                                                     *)

\* merged: the owner's copy is never older than the archive's.
Merged(server) ==
    [s \in Session |->
        CASE server = Owner /\ there[s] -> [pick |-> "Local", version |-> newest[s]]
          [] (server # Owner \/ ~there[s]) /\ archive[s] # 0 ->
                [pick |-> "Remote", version |-> archive[s]]
          [] OTHER -> NoView]

\* (mutant) A session that is in the index is not looked at again.
ChangesMissing(v, docs) == {s \in Session : v[s] # NoView /\ docs[s] = NoDocument}

\* The sessions of a view whose document in docs is another one's, or missing.
Changes(v, docs) == {s \in Session : v[s] # NoView /\ docs[s].fingerprint # v[s]}

\* transcript: a local source is read as it is now, a body of the archive has
\* the hash of the view.
Readable(v, s) == v.pick = "Local" => there[s]
Transcript(v, s) == IF v.pick = "Local" THEN newest[s] ELSE v.version

Indexed(v, s) == [fingerprint |-> v, body |-> Transcript(v, s)]

Load(t) ==
    /\ pc[t] = "load"
    /\ \E s \in todo[t] :
        /\ Readable(view[t][s], s)
        /\ held' = [held EXCEPT ![t][s] = Indexed(view[t][s], s)]
        /\ todo' = [todo EXCEPT ![t] = @ \ {s}]
    /\ UNCHANGED <<sessions, snapshots, runtime, indexes, pc, view, removes, uses,
                   undisturbed, accidents>>

-----------------------------------------------------------------------------
(* A search request: merged, then runtime_for and sync_runtime             *)

Begin(r) ==
    /\ pc[r] = "idle"
    /\ Goes(r, "find")
    /\ view' = [view EXCEPT ![r] = Merged(ServerOf[r])]
    /\ undisturbed' = [undisturbed EXCEPT ![r] = Session]
    /\ UNCHANGED <<sessions, snapshots, runtime, indexes, removes, todo, held, uses, accidents>>

Find(r) ==
    LET found == indexes[ServerOf[r]]
    IN /\ pc[r] = "find"
       /\ IF found = None
            THEN Goes(r, "open") /\ UNCHANGED uses
            ELSE Goes(r, "plan") /\ uses' = [uses EXCEPT ![r] = found]
       /\ UNCHANGED <<sessions, snapshots, runtime, indexes, view, removes, todo, held,
                      undisturbed, accidents>>

\* Another request of the server may have remembered its own meanwhile.
remember_runtime(r, documents) ==
    /\ runtime' = [runtime EXCEPT ![r] = [documents |-> documents, dirty |-> FALSE]]
    /\ indexes' = [indexes EXCEPT ![ServerOf[r]] = r]
    /\ held' = [held EXCEPT ![r] = Empty]
    /\ uses' = [uses EXCEPT ![r] = r]
    /\ Goes(r, "plan")
    /\ UNCHANGED <<sessions, remote, publishing, view, removes, todo, undisturbed>>

Open(r) ==
    /\ pc[r] = "open"
    /\ \/ /\ \E snapshot \in disk[ServerOf[r]] : remember_runtime(r, snapshot)
          /\ UNCHANGED <<disk, accidents>>
       \/ /\ disk[ServerOf[r]] = {}
          /\ Goes(r, "fetch")
          /\ UNCHANGED <<sessions, snapshots, runtime, indexes, task, accidents>>

\* The bucket answers the GET of load_remote.
Fetch(r) ==
    /\ pc[r] = "fetch"
    /\ \/ /\ \E snapshot \in remote : held' = [held EXCEPT ![r] = snapshot]
          /\ Goes(r, "fetched")
          /\ UNCHANGED <<sessions, snapshots, runtime, indexes, view, removes, todo, uses,
                         undisturbed, accidents>>
       \/ /\ remote = {}
          /\ remember_runtime(r, Empty)
          /\ UNCHANGED <<disk, accidents>>

Download(r) ==
    /\ pc[r] = "fetched"
    /\ disk' = [disk EXCEPT ![ServerOf[r]] = {held[r]}]
    /\ remember_runtime(r, held[r])
    /\ UNCHANGED accidents

\* The request or the save fails, or the 900 ms are over: the sync fills an
\* empty runtime.
DownloadFails(r) ==
    /\ pc[r] \in {"fetch", "fetched"}
    /\ Accident
    /\ remember_runtime(r, Empty)
    /\ UNCHANGED disk

Plan(r) ==
    LET docs == runtime[uses[r]].documents
    IN /\ pc[r] = "plan"
       /\ removes' = [removes EXCEPT ![r] =
                        {s \in Session : docs[s] # NoDocument /\ view[r][s] = NoView}]
       /\ todo' = [todo EXCEPT ![r] = Changes(view[r], docs)]
       /\ held' = [held EXCEPT ![r] = Empty]
       /\ Goes(r, "load")
       /\ UNCHANGED <<sessions, snapshots, runtime, indexes, view, uses, undisturbed, accidents>>

\* A transcript that cannot be read leaves the document it had.
SkipUnreadable(r) ==
    /\ pc[r] = "load"
    /\ \E s \in todo[r] :
        /\ \/ ~Readable(view[r][s], s) /\ UNCHANGED accidents
           \/ Accident
        /\ todo' = [todo EXCEPT ![r] = @ \ {s}]
        /\ undisturbed' = [undisturbed EXCEPT ![r] = @ \ {s}]
    /\ UNCHANGED <<sessions, snapshots, runtime, indexes, pc, view, removes, held, uses>>

\* (mutant) The fingerprint is taken when the runtime is changed.
UpdatedLate(r) ==
    [s \in Session |->
        CASE held[r][s] # NoDocument ->
               [held[r][s] EXCEPT !.fingerprint = Merged(ServerOf[r])[s]]
          [] held[r][s] = NoDocument /\ s \in removes[r] -> NoDocument
          [] OTHER -> runtime[uses[r]].documents[s]]

\* (mutant) What is gone stays in the index.
UpdatedOnly(r) ==
    [s \in Session |->
        IF held[r][s] # NoDocument THEN held[r][s] ELSE runtime[uses[r]].documents[s]]

Updated(r) ==
    [s \in Session |->
        CASE held[r][s] # NoDocument -> held[r][s]
          [] held[r][s] = NoDocument /\ s \in removes[r] -> NoDocument
          [] OTHER -> runtime[uses[r]].documents[s]]

Rewritten(r) ==
    {s \in Session : Updated(r)[s] # runtime[uses[r]].documents[s]}

Dirty(r) ==
    \/ runtime[uses[r]].dirty
    \/ held[r] # Empty
    \/ \E s \in removes[r] : runtime[uses[r]].documents[s] # NoDocument

\* The runtime is changed and, if it is dirty, saved, which may fail; what was
\* saved is uploaded by a task of its own.
Apply(r, saves) ==
    LET server == ServerOf[r]
    IN /\ pc[r] = "load" /\ todo[r] = {}
       /\ runtime' = [runtime EXCEPT ![uses[r]] =
                        [documents |-> Updated(r), dirty |-> Dirty(r) /\ ~saves]]
       /\ IF Dirty(r) /\ saves
            THEN /\ disk' = [disk EXCEPT ![server] = {Updated(r)}]
                 /\ publishing' = publishing \cup (IF server = Owner THEN {Updated(r)} ELSE {})
            ELSE UNCHANGED <<disk, publishing>>
       /\ undisturbed' = [q \in Request |->
                            IF q # r /\ pc[q] \in {"load", "answer"} /\ uses[q] = uses[r]
                              THEN undisturbed[q] \ Rewritten(r) ELSE undisturbed[q]]
       /\ held' = [held EXCEPT ![r] = Empty]
       /\ removes' = [removes EXCEPT ![r] = {}]
       /\ Goes(r, "answer")
       /\ UNCHANGED <<sessions, remote, indexes, view, todo, uses>>

\* query_runtime
Answer(r) ==
    /\ pc[r] = "answer"
    /\ Ends({r})
    /\ UNCHANGED <<sessions, snapshots, runtime, indexes, accidents>>

Publish ==
    /\ \E snapshot \in publishing :
        /\ remote' = {snapshot}
        /\ publishing' = publishing \ {snapshot}
    /\ UNCHANGED <<sessions, disk, runtime, indexes, pc, task, accidents>>

PublishFails ==
    /\ Accident
    /\ \E snapshot \in publishing : publishing' = publishing \ {snapshot}
    /\ UNCHANGED <<sessions, disk, remote, runtime, indexes, pc, task>>

-----------------------------------------------------------------------------
(* build_for_repo                                                          *)

\* Documents whose fingerprint is the same are taken from the last snapshot.
BuildStart ==
    LET merged == Merged(Owner)
        prior == IF disk[Owner] = {} THEN Empty ELSE CHOOSE snapshot \in disk[Owner] : TRUE
    IN /\ pc[Builder] = "idle"
       /\ view' = [view EXCEPT ![Builder] = merged]
       /\ todo' = [todo EXCEPT ![Builder] = Changes(merged, prior)]
       /\ held' = [held EXCEPT ![Builder] =
                     [s \in Session |-> IF merged[s] # NoView /\ prior[s].fingerprint = merged[s]
                                          THEN prior[s] ELSE NoDocument]]
       /\ Goes(Builder, "load")
       /\ UNCHANGED <<sessions, snapshots, runtime, indexes, removes, uses, undisturbed, accidents>>

BuildSave ==
    /\ pc[Builder] = "load" /\ todo[Builder] = {}
    /\ disk' = [disk EXCEPT ![Owner] = {held[Builder]}]
    /\ Goes(Builder, "publish")
    /\ UNCHANGED <<sessions, remote, publishing, runtime, indexes, task, accidents>>

BuildPublish ==
    /\ pc[Builder] = "publish"
    /\ remote' = {held[Builder]}
    /\ Ends({Builder})
    /\ UNCHANGED <<sessions, disk, publishing, runtime, indexes, accidents>>

\* Any failure, and the end of the process, ends the rebuild.
BuildFails ==
    /\ pc[Builder] # "idle"
    /\ \/ /\ pc[Builder] = "load"
          /\ \E s \in todo[Builder] : ~Readable(view[Builder][s], s)
          /\ UNCHANGED accidents
       \/ Accident
    /\ Ends({Builder})
    /\ UNCHANGED <<sessions, snapshots, runtime, indexes>>

-----------------------------------------------------------------------------
(* What happens around them                                                *)

Edit(s) ==
    /\ newest[s] < MaxVersion
    /\ newest' = [newest EXCEPT ![s] = @ + 1]
    /\ there' = [there EXCEPT ![s] = TRUE]
    /\ UNCHANGED <<archive, snapshots, runtime, indexes, pc, task, accidents>>

Remove(s) ==
    /\ there[s]
    /\ there' = [there EXCEPT ![s] = FALSE]
    /\ UNCHANGED <<newest, archive, snapshots, runtime, indexes, pc, task, accidents>>

Ingest(s) ==
    /\ there[s] /\ archive[s] # newest[s]
    /\ archive' = [archive EXCEPT ![s] = newest[s]]
    /\ UNCHANGED <<newest, there, snapshots, runtime, indexes, pc, task, accidents>>

\* A server ends, with its requests and uploads, and is started again.
Restart(server) ==
    /\ Accident
    /\ indexes' = [indexes EXCEPT ![server] = None]
    /\ Ends({r \in Request : ServerOf[r] = server})
    /\ publishing' = IF server = Owner THEN {} ELSE publishing
    /\ UNCHANGED <<sessions, disk, remote, runtime>>

Step(r) ==
    \/ Find(r) \/ Open(r) \/ Fetch(r) \/ Download(r) \/ Plan(r) \/ Load(r)
    \/ SkipUnreadable(r)
    \/ Apply(r, TRUE) /\ UNCHANGED accidents
    \/ Answer(r)

RequestStep(r) ==
    \/ Begin(r) \/ Step(r) \/ DownloadFails(r)
    \/ Apply(r, FALSE) /\ Dirty(r) /\ Accident

BuildStep == Load(Builder) \/ BuildSave \/ BuildPublish \/ BuildFails

Change(s) == Edit(s) \/ Remove(s) \/ Ingest(s)

Next ==
    \/ \E r \in Request : RequestStep(r)
    \/ Publish \/ PublishFails
    \/ BuildStart \/ BuildStep
    \/ \E s \in Session : Change(s)
    \/ \E v \in Server : Restart(v)

Spec == Init /\ [][Next]_vars

\* Clients ask again and again, and a request that can go on does.
Fairness == \A r \in Request : WF_vars(Begin(r)) /\ WF_vars(Step(r))

FairSpec == Spec /\ Fairness

-----------------------------------------------------------------------------
(* Properties                                                              *)

\* The types of the variables.
TypeOK ==
    /\ newest \in [Session -> 0 .. MaxVersion]
    /\ there \in [Session -> BOOLEAN]
    /\ archive \in [Session -> 0 .. MaxVersion]
    /\ disk \in [Server -> SUBSET Snapshot]
    /\ remote \subseteq Snapshot
    /\ runtime \in [Request -> [documents : Snapshot, dirty : BOOLEAN]]
    /\ indexes \in [Server -> Request \cup {None}]
    /\ publishing \subseteq Snapshot
    /\ pc \in [Task -> {"idle", "find", "open", "fetch", "fetched", "plan", "load", "answer",
                        "publish"}]
    /\ view \in [Task -> [Session -> View]]
    /\ removes \in [Task -> SUBSET Session]
    /\ todo \in [Task -> SUBSET Session]
    /\ held \in [Task -> Snapshot]
    /\ uses \in [Request -> Request]
    /\ undisturbed \in [Request -> SUBSET Session]
    /\ accidents \in 0 .. MaxAccidents

\* A document is at least as new as its fingerprint says.
Vouched(docs) ==
    \A s \in Session : docs[s].body >= docs[s].fingerprint.version

\* Wherever a document is kept, a server, a disk or the bucket, its text is not
\* older than its fingerprint: a view with that fingerprint may do without
\* reading the session again.
DocumentsVouched ==
    /\ \A snapshot \in remote \cup publishing \cup UNION {disk[v] : v \in Server} :
          Vouched(snapshot)
    /\ \A r \in Request : Vouched(runtime[r].documents)

\* A request searches exactly the sessions of its views, but for those whose
\* transcript could not be read and those whose document another request changed
\* meanwhile: what happens to a session concerns no other.
AnswerMatchesViews ==
    \A r \in Request :
        pc[r] = "answer" =>
            \A s \in undisturbed[r] :
                runtime[uses[r]].documents[s].fingerprint = view[r][s]

\* Where its view is still what it would be now, such a request searches the
\* text that the session has now: not one that an earlier request, the rebuild
\* or another machine left under the same fingerprint.
AnswerIsCurrent ==
    \A r \in Request :
        pc[r] = "answer" =>
            \A s \in undisturbed[r] :
                view[r][s] = Merged(ServerOf[r])[s] =>
                    runtime[uses[r]].documents[s].body = view[r][s].version

\* Once edits, failures and restarts have ended, every request searches what
\* the sessions say, whatever raced before and whatever the snapshots hold.
AnswersSettle ==
    <>[](\A r \in Request :
            pc[r] = "answer" =>
                \A s \in Session :
                    LET now == Merged(ServerOf[r])[s]
                    IN runtime[uses[r]].documents[s] =
                         [fingerprint |-> now, body |-> now.version])
=============================================================================
