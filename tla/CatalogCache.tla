---------------------------- MODULE CatalogCache ----------------------------
(***************************************************************************)
(* The catalog an MCP server keeps (src/src/mcp.rs).  A cached catalog of  *)
(* less than MaxAge is served as it is.  An older one is first compared    *)
(* with the bucket by its ETag, under a mutex, and fetched if it changed;  *)
(* a comparison that fails lets the old one be served.  Each server also   *)
(* writes its cache to catalog.json, which all servers of the machine      *)
(* share and which a restarted server begins with.                         *)
(*                                                                         *)
(* Catalogs are numbered as they are committed, so the number is the ETag; *)
(* 0 is the empty catalog, of a bucket that has none.  An answer can be on *)
(* its way for up to Timeout (store.rs:48), while time and commits go on.  *)
(***************************************************************************)
EXTENDS Naturals

CONSTANTS
    Server,         \* MCP servers of one machine
    Request,        \* requests, each to one server
    ServerOf,
    None,
    MaxAge,         \* CATALOG_MAX_AGE, in ticks
    Timeout,        \* timeout_global of the HTTP agent, in ticks
    MaxCommits,     \* bound on commits by ingests anywhere
    MaxAccidents    \* bound on failed requests and restarted servers

ASSUME ServerAssumption == ServerOf \in [Request -> Server] /\ None \notin Request

ASSUME TimeAssumption ==
    /\ MaxAge \in Nat \ {0}
    /\ Timeout \in Nat
    /\ MaxCommits \in Nat
    /\ MaxAccidents \in Nat

VARIABLES
    remote,      \* the catalog of the bucket
    superseded,  \* how long ago each catalog was replaced, 0 if it was not
    slot,        \* the CatalogSlot of each server: a catalog and its age
    disk,        \* catalog.json
    holder,      \* who holds catalog_sync of each server
    req,         \* each request: what it does next, the answer it got, the age
                 \* of that answer, and whether its probe failed
    accidents

vars == <<remote, superseded, slot, disk, holder, req, accidents>>

\* Ages beyond these are all alike.
Oldest == MaxAge + Timeout

\* A request that has no answer to wait for.
At(next) == [pc |-> next, got |-> 0, age |-> 0, failed |-> FALSE]

Init ==
    /\ remote = 0
    /\ superseded = [n \in 0 .. MaxCommits |-> 0]
    /\ slot = [s \in Server |-> [catalog |-> 0, age |-> MaxAge]]
    /\ disk = [catalog |-> 0, age |-> MaxAge]
    /\ holder = [s \in Server |-> None]
    /\ req = [r \in Request |-> At("idle")]
    /\ accidents = 0

catalog_fresh(s) == slot[s].age < MaxAge

Goes(r, next) == req' = [req EXCEPT ![r] = At(next)]

Release(r) == holder' = [holder EXCEPT ![ServerOf[r]] = None]

Accident == accidents < MaxAccidents /\ accidents' = accidents + 1

-----------------------------------------------------------------------------
(* ensure_catalog                                                          *)

Ask(r) ==
    /\ req[r].pc = "idle"
    /\ Goes(r, IF catalog_fresh(ServerOf[r]) THEN "serve" ELSE "want")
    /\ UNCHANGED <<remote, superseded, slot, disk, holder, accidents>>

\* (mutant) The mutex is not taken.
EnterAtOnce(r) ==
    /\ req[r].pc = "want"
    /\ Goes(r, IF catalog_fresh(ServerOf[r]) THEN "serve" ELSE "probe")
    /\ UNCHANGED <<remote, superseded, slot, disk, holder, accidents>>

\* Once it has the mutex a request looks again: another may have refreshed.
Enter(r) ==
    LET s == ServerOf[r]
    IN /\ req[r].pc = "want"
       /\ holder[s] = None
       /\ IF catalog_fresh(s)
            THEN Goes(r, "serve") /\ UNCHANGED holder
            ELSE Goes(r, "probe") /\ holder' = [holder EXCEPT ![s] = r]
       /\ UNCHANGED <<remote, superseded, slot, disk, accidents>>

\* The bucket answers a HEAD or a GET with the catalog it has.
Answer(r) ==
    /\ \/ req[r].pc = "probe" /\ req' = [req EXCEPT ![r].pc = "probed", ![r].got = remote]
       \/ req[r].pc = "fetch" /\ req' = [req EXCEPT ![r].pc = "fetched", ![r].got = remote]
    /\ UNCHANGED <<remote, superseded, slot, disk, holder, accidents>>

\* The slot of the request's server is replaced, and then catalog.json, which
\* may fail.
Keep(r, cached) ==
    /\ slot' = [slot EXCEPT ![ServerOf[r]] = cached]
    /\ disk' \in {disk, cached}
    /\ Goes(r, "serve")
    /\ Release(r)
    /\ UNCHANGED <<remote, superseded, accidents>>

\* (mutant) Any answer to the probe renews the cache.
UnchangedAlways(r) ==
    /\ req[r].pc = "probed"
    /\ Keep(r, [slot[ServerOf[r]] EXCEPT !.age = 0])

Unchanged(r) ==
    /\ req[r].pc = "probed"
    /\ req[r].got = slot[ServerOf[r]].catalog
    /\ Keep(r, [slot[ServerOf[r]] EXCEPT !.age = 0])

Changed(r) ==
    /\ req[r].pc = "probed"
    /\ req[r].got # slot[ServerOf[r]].catalog
    /\ Goes(r, "fetch")
    /\ UNCHANGED <<remote, superseded, slot, disk, holder, accidents>>

Install(r) ==
    /\ req[r].pc = "fetched"
    /\ Keep(r, [catalog |-> req[r].got, age |-> 0])

\* (mutant) After a probe that failed the next one waits for MaxAge again.
ProbeFailsRenews(r) ==
    /\ req[r].pc \in {"probe", "probed"}
    /\ Accident
    /\ req' = [req EXCEPT ![r] = [At("serve") EXCEPT !.failed = TRUE]]
    /\ slot' = [slot EXCEPT ![ServerOf[r]].age = 0]
    /\ Release(r)
    /\ UNCHANGED <<remote, superseded, disk>>

\* The probe fails, or its answer is lost: the cache is served as it is.
ProbeFails(r) ==
    /\ req[r].pc \in {"probe", "probed"}
    /\ Accident
    /\ req' = [req EXCEPT ![r] = [At("serve") EXCEPT !.failed = TRUE]]
    /\ Release(r)
    /\ UNCHANGED <<remote, superseded, slot, disk>>

\* The fetch fails, and the request with it.
FetchFails(r) ==
    /\ req[r].pc \in {"fetch", "fetched"}
    /\ Accident
    /\ Goes(r, "idle")
    /\ Release(r)
    /\ UNCHANGED <<remote, superseded, slot, disk>>

\* merged reads the slot, after the local scan.
Serve(r) ==
    /\ req[r].pc = "serve"
    /\ Goes(r, "idle")
    /\ UNCHANGED <<remote, superseded, slot, disk, holder, accidents>>

-----------------------------------------------------------------------------
(* What happens around the requests                                        *)

Commit ==
    /\ remote < MaxCommits
    /\ remote' = remote + 1
    /\ UNCHANGED <<superseded, slot, disk, holder, req, accidents>>

Older(age, oldest) == IF age < oldest THEN age + 1 ELSE age

\* Time passes; an answer on its way for too long is given up before.
Tick ==
    /\ \A r \in Request : req[r].pc \in {"probed", "fetched"} => req[r].age < Timeout
    /\ superseded' = [n \in 0 .. MaxCommits |->
                        IF n < remote THEN Older(superseded[n], Oldest) ELSE 0]
    /\ slot' = [s \in Server |-> [slot[s] EXCEPT !.age = Older(@, MaxAge)]]
    /\ disk' = [disk EXCEPT !.age = Older(@, MaxAge)]
    /\ req' = [r \in Request |->
                 IF req[r].pc \in {"probed", "fetched"} THEN [req[r] EXCEPT !.age = @ + 1] ELSE req[r]]
    /\ UNCHANGED <<remote, holder, accidents>>

\* A server ends and is started again: it loads catalog.json.
Restart(s) ==
    /\ Accident
    /\ slot' = [slot EXCEPT ![s] = disk]
    /\ holder' = [holder EXCEPT ![s] = None]
    /\ req' = [r \in Request |->
                 IF ServerOf[r] = s THEN At("idle") ELSE req[r]]
    /\ UNCHANGED <<remote, superseded, disk>>

Step(r) ==
    \/ Enter(r) \/ Answer(r) \/ Unchanged(r) \/ Changed(r) \/ Install(r) \/ Serve(r)

Next ==
    \/ \E r \in Request : Ask(r) \/ Step(r) \/ ProbeFails(r) \/ FetchFails(r)
    \/ \E s \in Server : Restart(s)
    \/ Commit
    \/ Tick

Spec == Init /\ [][Next]_vars

\* A request that can go on does, as tokio schedules every task; clients
\* ask again and again; time passes whatever the requests do.
Fairness ==
    /\ \A r \in Request : WF_vars(Ask(r)) /\ WF_vars(Step(r))
    /\ SF_vars(Tick)

FairSpec == Spec /\ Fairness

-----------------------------------------------------------------------------
(* Properties                                                              *)

CacheType == [catalog : 0 .. MaxCommits, age : 0 .. MaxAge]

\* The types of the variables.
TypeOK ==
    /\ remote \in 0 .. MaxCommits
    /\ superseded \in [0 .. MaxCommits -> 0 .. Oldest]
    /\ slot \in [Server -> CacheType]
    /\ disk \in CacheType
    /\ holder \in [Server -> Request \cup {None}]
    /\ req \in [Request -> [pc : {"idle", "want", "probe", "probed", "fetch", "fetched", "serve"},
                            got : 0 .. MaxCommits, age : 0 .. Timeout, failed : BOOLEAN]]
    /\ accidents \in 0 .. MaxAccidents

\* A request whose probe did not fail is served a catalog that was the newest
\* one less than MaxAge + Timeout ago, whichever server wrote catalog.json,
\* whichever request renewed the slot, and however late the answers came.
AnswersAreRecent ==
    [][\A r \in Request :
         req[r].pc # "serve" /\ req'[r].pc = "serve" /\ ~req'[r].failed
           => superseded'[slot'[ServerOf[r]].catalog] < Oldest]_vars

\* As long as a server runs, its requests never see an older catalog than an
\* earlier request did.
NeverGoesBack ==
    [][\A s \in Server : slot'[s].catalog >= slot[s].catalog \/ Restart(s)]_vars

\* Once commits, failures and restarts have ended, every server comes to serve
\* the newest catalog.
EventuallyCurrent ==
    <>[](\A r \in Request : req[r].pc = "serve" => slot[ServerOf[r]].catalog = remote)

=============================================================================
