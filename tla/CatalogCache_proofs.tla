------------------------- MODULE CatalogCache_proofs -------------------------
(***************************************************************************)
(* What the cached catalog promises, for any number of servers, requests,  *)
(* commits and failures.                                                   *)
(***************************************************************************)
EXTENDS CatalogCache, TLAPS

\* A cache that counts as fresh was the newest catalog when it was fetched or
\* compared, up to the time its answer took.
Recent(c) == c.age < MaxAge => superseded[c.catalog] =< c.age + Timeout

Waiting(r) == req[r].pc \in {"probed", "fetched"}

\* What makes the properties inductive.
CacheInv ==
    /\ \A n \in 0 .. MaxCommits : n >= remote => superseded[n] = 0
    /\ \A s \in Server : slot[s].catalog =< remote /\ Recent(slot[s])
    /\ disk.catalog =< remote /\ Recent(disk)
    /\ \A r \in Request : req[r].got =< remote
    /\ \A r \in Request : Waiting(r) =>
          superseded[req[r].got] =< req[r].age /\ req[r].got >= slot[ServerOf[r]].catalog
    /\ \A r \in Request : req[r].pc \in {"probe", "probed", "fetch", "fetched"} =>
          holder[ServerOf[r]] = r

Inv == TypeOK /\ CacheInv

LEMMA AtType ==
  \A x : /\ At(x).pc = x /\ At(x).got = 0 /\ At(x).age = 0 /\ At(x).failed = FALSE
         /\ DOMAIN At(x) = {"pc", "got", "age", "failed"}
  BY DEF At

LEMMA InvInit == Init => Inv
<1> SUFFICES ASSUME Init PROVE Inv
  OBVIOUS
<1>1. TypeOK
  BY TimeAssumption DEF Init, TypeOK, CacheType, Oldest, At
<1>2. CacheInv
  BY TimeAssumption DEF Init, CacheInv, Recent, Waiting, At
<1> QED
  BY <1>1, <1>2 DEF Inv

ReqType == [pc : {"idle", "want", "probe", "probed", "fetch", "fetched", "serve"},
            got : 0 .. MaxCommits, age : 0 .. Timeout, failed : BOOLEAN]

LEMMA AtInType ==
  ASSUME NEW x \in {"idle", "want", "probe", "fetch", "serve"}
  PROVE  At(x) \in ReqType /\ [At("serve") EXCEPT !.failed = TRUE] \in ReqType
<1>1. At(x) \in ReqType /\ At("serve") \in ReqType
  BY TimeAssumption DEF At, ReqType
<1> QED
  BY <1>1 DEF ReqType

\* A step that leaves the caches alone and after which the request waits for
\* no answer.
LEMMA InvGoes ==
  ASSUME Inv, NEW r \in Request, NEW x \in {"idle", "want", "probe", "fetch", "serve"},
         req' = [req EXCEPT ![r] = At(x)] \/ req' = [req EXCEPT ![r] = [At("serve") EXCEPT !.failed = TRUE]],
         UNCHANGED <<remote, superseded, slot, disk>>,
         accidents' \in 0 .. MaxAccidents,
         \/ holder' = holder /\ (x \in {"probe", "fetch"} => holder[ServerOf[r]] = r)
         \/ holder' = [holder EXCEPT ![ServerOf[r]] = r] /\ holder[ServerOf[r]] = None
         \/ holder' = [holder EXCEPT ![ServerOf[r]] = None] /\ holder[ServerOf[r]] = r
               /\ x \notin {"probe", "fetch"}
  PROVE  Inv'
<1>1. req' \in [Request -> ReqType] /\ req'[r].got = 0 /\ req'[r].pc \in {x, "serve"}
  <2>1. PICK y \in ReqType : req' = [req EXCEPT ![r] = y] /\ y.got = 0 /\ y.pc \in {x, "serve"}
    BY AtInType, AtType
  <2>2. req \in [Request -> ReqType]
    BY DEF Inv, TypeOK, ReqType
  <2> QED
    BY <2>1, <2>2
<1>2. \A q \in Request \ {r} : req'[q] = req[q]
  BY DEF Inv, TypeOK
<1>3. TypeOK'
  BY <1>1, ServerAssumption DEF Inv, TypeOK, ReqType
<1>4. \A q \in Request : req'[q].got =< remote
  BY <1>1, <1>2 DEF Inv, TypeOK, CacheInv
<1>5. \A q \in Request : Waiting(q)' => q # r /\ Waiting(q)
  BY <1>1, <1>2 DEF Waiting
<1>6. \A q \in Request : Waiting(q)' =>
         superseded[req'[q].got] =< req'[q].age /\ req'[q].got >= slot[ServerOf[q]].catalog
  BY <1>2, <1>5 DEF Inv, CacheInv
<1>7. ASSUME NEW q \in Request, req'[q].pc \in {"probe", "probed", "fetch", "fetched"}
      PROVE  holder'[ServerOf[q]] = q
  <2>1. CASE q = r
    BY <1>1, <1>7, <2>1, ServerAssumption DEF Inv, TypeOK
  <2>2. CASE q # r
    <3>1. holder[ServerOf[q]] = q
      BY <1>2, <1>7, <2>2 DEF Inv, CacheInv
    <3>2. ServerOf[q] # ServerOf[r] \/ holder' = holder
      BY <2>2, <3>1, ServerAssumption
    <3> QED
      BY <3>1, <3>2, ServerAssumption DEF Inv, TypeOK
  <2> QED
    BY <2>1, <2>2
<1>8. (\A s \in Server : Recent(slot[s])') /\ Recent(disk)'
  BY DEF Inv, CacheInv, Recent
<1> QED
  BY <1>3, <1>4, <1>6, <1>7, <1>8 DEF Inv, CacheInv

LEMMA InvAnswer ==
  ASSUME Inv, NEW r \in Request, Answer(r)
  PROVE  Inv'
<1>1. PICK x \in {"probed", "fetched"} : req' = [req EXCEPT ![r].pc = x, ![r].got = remote]
  BY DEF Answer
<1>2. /\ req[r].pc \in {"probe", "fetch"}
      /\ UNCHANGED <<remote, superseded, slot, disk, holder, accidents>>
  BY DEF Answer
<1>3. /\ req'[r].pc = x /\ req'[r].got = remote /\ req'[r].age = req[r].age
      /\ req[r] \in ReqType /\ req'[r] \in ReqType
  BY <1>1 DEF Inv, TypeOK, ReqType
<1>4. \A q \in Request \ {r} : req'[q] = req[q]
  BY <1>1 DEF Inv, TypeOK
<1>5. TypeOK'
  BY <1>1, <1>2, <1>3 DEF Inv, TypeOK, ReqType
<1>6. superseded[remote] = 0
  BY DEF Inv, TypeOK, CacheInv
<1>7. \A q \in Request : Waiting(q)' =>
         superseded[req'[q].got] =< req'[q].age /\ req'[q].got >= slot[ServerOf[q]].catalog
  <2> SUFFICES ASSUME NEW q \in Request, Waiting(q)'
               PROVE  superseded[req'[q].got] =< req'[q].age /\ req'[q].got >= slot[ServerOf[q]].catalog
    OBVIOUS
  <2>1. CASE q = r
    <3>1. req[r].age \in Nat /\ remote \in Nat /\ slot[ServerOf[r]].catalog \in Nat
          /\ slot[ServerOf[r]].catalog =< remote
      BY <1>3, ServerAssumption, TimeAssumption DEF Inv, TypeOK, CacheInv, CacheType, ReqType
    <3> QED
      BY <1>3, <1>6, <2>1, <3>1
  <2>2. CASE q # r
    BY <1>4, <2>2 DEF Inv, CacheInv, Waiting
  <2> QED
    BY <2>1, <2>2
<1>8. \A q \in Request : req'[q].got =< remote
  <2>1. remote =< remote /\ \A q \in Request : req[q].got =< remote
    BY DEF Inv, TypeOK, CacheInv
  <2> QED
    BY <1>3, <1>4, <2>1
<1>9. \A q \in Request : req'[q].pc \in {"probe", "probed", "fetch", "fetched"} =>
         holder[ServerOf[q]] = q
  BY <1>2, <1>4 DEF Inv, CacheInv
<1>10. (\A s \in Server : Recent(slot[s])') /\ Recent(disk)'
  BY <1>2 DEF Inv, CacheInv, Recent
<1> QED
  BY <1>2, <1>5, <1>7, <1>8, <1>9, <1>10 DEF Inv, CacheInv

\* A renewed or replaced cache: fresh, recent, and no older than the last.
LEMMA KeepGood ==
  ASSUME Inv, NEW r \in Request, Unchanged(r) \/ Install(r)
  PROVE  \E c \in CacheType :
            /\ Keep(r, c) /\ Waiting(r)
            /\ c.age = 0 /\ c.catalog = req[r].got
            /\ c.catalog =< remote /\ c.catalog >= slot[ServerOf[r]].catalog
            /\ superseded[c.catalog] =< Timeout
<1>1. /\ req[r] \in ReqType /\ slot[ServerOf[r]] \in CacheType
      /\ superseded[req[r].got] \in Nat
  BY ServerAssumption DEF Inv, TypeOK, ReqType, Oldest
<1>2. /\ req[r].got =< remote
      /\ Waiting(r) => superseded[req[r].got] =< req[r].age /\ req[r].got >= slot[ServerOf[r]].catalog
  BY DEF Inv, CacheInv
<1>3. \E c \in CacheType : Keep(r, c) /\ Waiting(r) /\ c.age = 0 /\ c.catalog = req[r].got
  <2>1. CASE Unchanged(r)
    <3> DEFINE c == [slot[ServerOf[r]] EXCEPT !.age = 0]
    <3>1. c \in CacheType /\ c.age = 0 /\ c.catalog = slot[ServerOf[r]].catalog
      BY <1>1, TimeAssumption DEF CacheType
    <3>2. Keep(r, c) /\ Waiting(r) /\ req[r].got = slot[ServerOf[r]].catalog
      BY <2>1 DEF Unchanged, Waiting
    <3> QED
      BY <3>1, <3>2
  <2>2. CASE Install(r)
    <3> DEFINE c == [catalog |-> req[r].got, age |-> 0]
    <3>1. c \in CacheType /\ c.age = 0 /\ c.catalog = req[r].got
      BY <1>1, TimeAssumption DEF CacheType, ReqType
    <3>2. Keep(r, c) /\ Waiting(r)
      BY <2>2 DEF Install, Waiting
    <3> QED
      BY <3>1, <3>2
  <2> QED
    BY <2>1, <2>2
<1>4. req[r].age =< Timeout /\ req[r].age \in Nat /\ Timeout \in Nat
  BY <1>1, TimeAssumption DEF ReqType
<1> QED
  BY <1>1, <1>2, <1>3, <1>4

LEMMA InvKeep ==
  ASSUME Inv, NEW r \in Request, Unchanged(r) \/ Install(r)
  PROVE  Inv'
<1>1. PICK c \in CacheType :
        /\ Keep(r, c) /\ Waiting(r)
        /\ c.age = 0 /\ c.catalog = req[r].got
        /\ c.catalog =< remote /\ c.catalog >= slot[ServerOf[r]].catalog
        /\ superseded[c.catalog] =< Timeout
  BY KeepGood
<1> DEFINE s == ServerOf[r]
<1>2. /\ slot' = [slot EXCEPT ![s] = c] /\ disk' \in {disk, c}
      /\ req' = [req EXCEPT ![r] = At("serve")] /\ holder' = [holder EXCEPT ![s] = None]
      /\ UNCHANGED <<remote, superseded, accidents>>
  BY <1>1 DEF Keep, Goes, Release
<1>3. At("serve") \in ReqType /\ At("serve").pc = "serve" /\ At("serve").got = 0
  BY AtInType, AtType
<1>4. TypeOK'
  BY <1>2, <1>3, ServerAssumption DEF Inv, TypeOK, ReqType
<1>5. holder[s] = r
  BY <1>1 DEF Inv, CacheInv, Waiting
<1>6. ASSUME NEW q \in Request, req'[q].pc \in {"probe", "probed", "fetch", "fetched"}
      PROVE  /\ q # r /\ req'[q] = req[q] /\ holder[ServerOf[q]] = q
             /\ ServerOf[q] # s /\ slot'[ServerOf[q]] = slot[ServerOf[q]]
             /\ holder'[ServerOf[q]] = q
  <2>1. q # r /\ req'[q] = req[q]
    BY <1>2, <1>3, <1>6 DEF Inv, TypeOK
  <2>2. holder[ServerOf[q]] = q
    BY <1>6, <2>1 DEF Inv, CacheInv
  <2>3. ServerOf[q] # s
    BY <1>5, <2>1, <2>2
  <2> QED
    BY <1>2, <2>1, <2>2, <2>3, ServerAssumption DEF Inv, TypeOK
<1>7. Recent(c)' /\ \A x : Recent(x) => Recent(x)'
  <2>1. superseded[c.catalog] \in Nat
    BY DEF Inv, TypeOK, CacheType, Oldest
  <2> QED
    BY <1>1, <1>2, <2>1, TimeAssumption DEF Recent
<1>8. \A q \in Request : req'[q].got =< remote
  BY <1>2, <1>3 DEF Inv, TypeOK, CacheInv
<1>9. (\A x \in Server : slot'[x].catalog =< remote /\ Recent(slot[x])') /\ disk'.catalog =< remote /\ Recent(disk)'
  <2>1. \A x \in Server : slot'[x] = c \/ slot'[x] = slot[x]
    BY <1>2 DEF Inv, TypeOK
  <2> QED
    BY <1>1, <1>2, <1>7, <2>1 DEF Inv, CacheInv, Recent
<1>10. \A q \in Request : Waiting(q)' =>
         superseded[req'[q].got] =< req'[q].age /\ req'[q].got >= slot'[ServerOf[q]].catalog
  BY <1>6 DEF Inv, CacheInv, Waiting
<1> QED
  BY <1>2, <1>4, <1>6, <1>8, <1>9, <1>10 DEF Inv, CacheInv

\* The other steps of a request.
LEMMA InvRequest ==
  ASSUME Inv, NEW r \in Request,
         Ask(r) \/ Enter(r) \/ Changed(r) \/ ProbeFails(r) \/ FetchFails(r) \/ Serve(r)
  PROVE  Inv'
<1>1. accidents \in 0 .. MaxAccidents /\ (Accident => accidents' \in 0 .. MaxAccidents)
  BY TimeAssumption DEF Inv, TypeOK, Accident
<1>2. req[r].pc \in {"probe", "probed", "fetch", "fetched"} => holder[ServerOf[r]] = r
  BY DEF Inv, CacheInv
<1>3. CASE Ask(r)
  <2>1. PICK x \in {"serve", "want"} : req' = [req EXCEPT ![r] = At(x)]
    BY <1>3 DEF Ask, Goes
  <2> QED
    BY <1>1, <1>3, <2>1, InvGoes DEF Ask
<1>4. CASE Enter(r)
  <2>1. CASE Goes(r, "serve") /\ UNCHANGED holder
    BY <1>1, <1>4, <2>1, InvGoes DEF Enter, Goes
  <2>2. CASE Goes(r, "probe") /\ holder' = [holder EXCEPT ![ServerOf[r]] = r]
    BY <1>1, <1>4, <2>2, InvGoes DEF Enter, Goes
  <2> QED
    BY <1>4, <2>1, <2>2 DEF Enter
<1>5. CASE Changed(r)
  BY <1>1, <1>2, <1>5, InvGoes DEF Changed, Goes
<1>6. CASE ProbeFails(r)
  BY <1>1, <1>2, <1>6, InvGoes DEF ProbeFails, Release
<1>7. CASE FetchFails(r)
  BY <1>1, <1>2, <1>7, InvGoes DEF FetchFails, Goes, Release
<1>8. CASE Serve(r)
  BY <1>1, <1>8, InvGoes DEF Serve, Goes
<1> QED
  BY <1>3, <1>4, <1>5, <1>6, <1>7, <1>8

LEMMA InvCommit ==
  ASSUME Inv, Commit
  PROVE  Inv'
<1>1. /\ remote' = remote + 1 /\ remote < MaxCommits
      /\ UNCHANGED <<superseded, slot, disk, holder, req, accidents>>
  BY DEF Commit
<1>2. remote \in Nat /\ remote' \in 0 .. MaxCommits
  BY <1>1, TimeAssumption DEF Inv, TypeOK
<1>3. TypeOK'
  BY <1>1, <1>2 DEF Inv, TypeOK
<1>4. \A n \in 0 .. MaxCommits : n =< remote => n =< remote'
  BY <1>1, <1>2
<1>5. \A n \in 0 .. MaxCommits : n >= remote' => superseded[n] = 0
  BY <1>1, <1>2 DEF Inv, CacheInv
<1>6. (\A s \in Server : slot[s].catalog =< remote') /\ disk.catalog =< remote'
      /\ (\A r \in Request : req[r].got =< remote')
  BY <1>4 DEF Inv, TypeOK, CacheInv, CacheType
<1>7. (\A s \in Server : Recent(slot[s])') /\ Recent(disk)'
  BY <1>1 DEF Inv, CacheInv, Recent
<1>8. \A r \in Request : Waiting(r)' => Waiting(r)
  BY <1>1 DEF Waiting
<1> QED
  BY <1>1, <1>3, <1>5, <1>6, <1>7, <1>8 DEF Inv, CacheInv

\* A cache grows older no more slowly than the catalog it holds.
LEMMA OlderRecent ==
  ASSUME Inv, Tick, NEW c \in CacheType, Recent(c),
         NEW d, d = [c EXCEPT !.age = Older(@, MaxAge)]
  PROVE  /\ d \in CacheType /\ d.catalog = c.catalog
         /\ d.age < MaxAge => superseded'[d.catalog] =< d.age + Timeout
<1>1. d \in CacheType /\ d.catalog = c.catalog /\ d.age = Older(c.age, MaxAge)
  BY TimeAssumption DEF CacheType, Older
<1>2. c.catalog \in 0 .. MaxCommits /\ c.age \in Nat /\ superseded[c.catalog] \in Nat
  BY DEF CacheType, Inv, TypeOK, Oldest
<1>3. superseded'[c.catalog] =< superseded[c.catalog] + 1 /\ superseded'[c.catalog] \in Nat
  BY <1>2, TimeAssumption DEF Tick, Older
<1>4. d.age < MaxAge => d.age = c.age + 1 /\ c.age < MaxAge
  BY <1>1, <1>2, TimeAssumption DEF Older
<1> QED
  BY <1>1, <1>2, <1>3, <1>4, TimeAssumption DEF Recent

LEMMA InvTick ==
  ASSUME Inv, Tick
  PROVE  Inv'
<1>1. /\ superseded' = [n \in 0 .. MaxCommits |->
                          IF n < remote THEN Older(superseded[n], Oldest) ELSE 0]
      /\ slot' = [s \in Server |-> [slot[s] EXCEPT !.age = Older(@, MaxAge)]]
      /\ disk' = [disk EXCEPT !.age = Older(@, MaxAge)]
      /\ UNCHANGED <<remote, holder, accidents>>
  BY DEF Tick
<1>2. /\ \A x \in Server : /\ slot'[x] \in CacheType /\ slot'[x].catalog = slot[x].catalog
                           /\ slot'[x].age < MaxAge =>
                                superseded'[slot'[x].catalog] =< slot'[x].age + Timeout
      /\ disk' \in CacheType /\ disk'.catalog = disk.catalog
      /\ disk'.age < MaxAge => superseded'[disk'.catalog] =< disk'.age + Timeout
  BY <1>1, OlderRecent DEF Inv, TypeOK, CacheInv
<1>3. superseded' \in [0 .. MaxCommits -> 0 .. Oldest]
      /\ \A n \in 0 .. MaxCommits : superseded'[n] =< superseded[n] + 1
  BY <1>1, TimeAssumption DEF Inv, TypeOK, Oldest, Older
<1>4. ASSUME NEW r \in Request
      PROVE  /\ req'[r] \in ReqType /\ req'[r].pc = req[r].pc /\ req'[r].got = req[r].got
             /\ Waiting(r) => req'[r].age = req[r].age + 1
  <2>1. req[r] \in ReqType
    BY DEF Inv, TypeOK, ReqType
  <2>2. req'[r] = IF Waiting(r) THEN [req[r] EXCEPT !.age = @ + 1] ELSE req[r]
    BY DEF Tick, Waiting
  <2>3. Waiting(r) => req[r].age < Timeout
    BY DEF Tick, Waiting
  <2>4. Waiting(r) => req[r].age + 1 \in 0 .. Timeout
    BY <2>1, <2>3, TimeAssumption DEF ReqType
  <2> QED
    BY <2>1, <2>2, <2>4 DEF ReqType
<1>5. req' \in [Request -> ReqType]
  <2>1. req' = [r \in Request |-> req'[r]]
    BY DEF Tick
  <2> QED
    BY <1>4, <2>1
<1>6. TypeOK'
  BY <1>1, <1>2, <1>3, <1>5 DEF Inv, TypeOK, ReqType
<1>7. (\A x \in Server : Recent(slot[x])') /\ Recent(disk)'
  BY <1>2 DEF Recent
<1>8. ASSUME NEW r \in Request, Waiting(r)'
      PROVE  superseded'[req'[r].got] =< req'[r].age /\ req'[r].got >= slot'[ServerOf[r]].catalog
  <2>1. /\ Waiting(r) /\ req[r].got \in 0 .. MaxCommits /\ req[r].age \in Nat
        /\ req'[r].age = req[r].age + 1 /\ req'[r].got = req[r].got
    BY <1>4, <1>8 DEF Waiting, Inv, TypeOK
  <2>2. superseded[req[r].got] =< req[r].age /\ req[r].got >= slot[ServerOf[r]].catalog
    BY <2>1 DEF Inv, CacheInv
  <2>3. superseded[req[r].got] \in Nat /\ superseded'[req[r].got] \in Nat
        /\ superseded'[req[r].got] =< superseded[req[r].got] + 1
    BY <1>3, <2>1, TimeAssumption DEF Inv, TypeOK, Oldest
  <2> QED
    BY <1>2, <2>1, <2>2, <2>3, ServerAssumption
<1>9. \A r \in Request : req'[r].pc \in {"probe", "probed", "fetch", "fetched"} =>
         holder'[ServerOf[r]] = r
  BY <1>1, <1>4 DEF Inv, CacheInv
<1>10. \A n \in 0 .. MaxCommits : n >= remote => superseded'[n] = 0
  BY <1>1 DEF Inv, TypeOK
<1>11. /\ \A x \in Server : slot'[x].catalog =< remote
       /\ disk'.catalog =< remote
       /\ \A r \in Request : req'[r].got =< remote
  BY <1>2, <1>4 DEF Inv, CacheInv
<1> QED
  BY <1>1, <1>6, <1>7, <1>8, <1>9, <1>10, <1>11 DEF Inv, CacheInv

LEMMA InvRestart ==
  ASSUME Inv, NEW s \in Server, Restart(s)
  PROVE  Inv'
<1>1. /\ slot' = [slot EXCEPT ![s] = disk] /\ holder' = [holder EXCEPT ![s] = None]
      /\ UNCHANGED <<remote, superseded, disk>>
      /\ accidents < MaxAccidents /\ accidents' = accidents + 1
  BY DEF Restart, Accident
<1>2. ASSUME NEW q \in Request
      PROVE  /\ req'[q] \in ReqType
             /\ ServerOf[q] = s => req'[q].pc = "idle" /\ req'[q].got = 0
             /\ ServerOf[q] # s => req'[q] = req[q]
  BY AtInType, AtType DEF Restart, Inv, TypeOK, ReqType
<1>3. req' \in [Request -> ReqType]
  <2>1. req' = [q \in Request |-> req'[q]]
    BY DEF Restart
  <2> QED
    BY <1>2, <2>1
<1>4. TypeOK'
  BY <1>1, <1>3, TimeAssumption DEF Inv, TypeOK, ReqType
<1>5. \A q \in Request : req'[q].got =< remote
  BY <1>2 DEF Inv, TypeOK, CacheInv
<1>6. ASSUME NEW q \in Request, req'[q].pc \in {"probe", "probed", "fetch", "fetched"}
      PROVE  /\ req'[q] = req[q] /\ holder'[ServerOf[q]] = q
             /\ slot'[ServerOf[q]] = slot[ServerOf[q]]
  <2>1. ServerOf[q] # s /\ req'[q] = req[q]
    BY <1>2, <1>6
  <2> QED
    BY <1>1, <1>6, <2>1, ServerAssumption DEF Inv, TypeOK, CacheInv
<1>7. (\A x \in Server : slot'[x].catalog =< remote /\ Recent(slot[x])') /\ Recent(disk)'
  <2>1. \A x \in Server : slot'[x] = disk \/ slot'[x] = slot[x]
    BY <1>1 DEF Inv, TypeOK
  <2> QED
    BY <1>1, <2>1 DEF Inv, CacheInv, Recent
<1>8. \A q \in Request : Waiting(q)' =>
         superseded[req'[q].got] =< req'[q].age /\ req'[q].got >= slot'[ServerOf[q]].catalog
  BY <1>6 DEF Inv, CacheInv, Waiting
<1> QED
  BY <1>1, <1>4, <1>5, <1>6, <1>7, <1>8 DEF Inv, CacheInv

LEMMA InvNext ==
  ASSUME Inv, [Next]_vars
  PROVE  Inv'
<1>1. CASE UNCHANGED vars
  BY <1>1 DEF vars, Inv, TypeOK, CacheInv, Recent, Waiting
<1>2. CASE Next
  <2>1. ASSUME NEW r \in Request, Ask(r) \/ Step(r) \/ ProbeFails(r) \/ FetchFails(r)
        PROVE  Inv'
    BY <2>1, InvAnswer, InvKeep, InvRequest DEF Step
  <2> QED
    BY <1>2, <2>1, InvRestart, InvCommit, InvTick DEF Next
<1> QED
  BY <1>1, <1>2

\* The invariant holds in every behaviour: the holder of a server's mutex is
\* the one request that compares or fetches (mcp.rs, ensure_catalog).
THEOREM CacheInvariant == Spec => []Inv
<1>1. Init => Inv
  BY InvInit
<1>2. Inv /\ [Next]_vars => Inv'
  BY InvNext
<1> QED
  BY <1>1, <1>2, PTL DEF Spec

\* Every variable keeps its type.
THEOREM TypeCorrect == Spec => []TypeOK
<1>1. Inv => TypeOK
  BY DEF Inv
<1> QED
  BY <1>1, CacheInvariant, PTL

\* What it means for one step to serve a recent catalog.
ServesRecent ==
  \A r \in Request :
     req[r].pc # "serve" /\ req'[r].pc = "serve" /\ ~req'[r].failed
       => superseded'[slot'[ServerOf[r]].catalog] < Oldest

LEMMA FreshIsRecent ==
  ASSUME Inv, NEW s \in Server, catalog_fresh(s)
  PROVE  superseded[slot[s].catalog] < Oldest
<1>1. slot[s] \in CacheType /\ Recent(slot[s])
  BY DEF Inv, TypeOK, CacheInv
<1>2. superseded[slot[s].catalog] \in Nat
  BY <1>1 DEF Inv, TypeOK, CacheType, Oldest
<1> QED
  BY <1>1, <1>2, TimeAssumption DEF catalog_fresh, Recent, CacheType, Oldest

LEMMA StepServesRecent ==
  ASSUME Inv, [Next]_vars
  PROVE  ServesRecent
<1> SUFFICES ASSUME NEW r \in Request,
                    req[r].pc # "serve", req'[r].pc = "serve", ~req'[r].failed
             PROVE  superseded'[slot'[ServerOf[r]].catalog] < Oldest
  BY DEF ServesRecent
<1> DEFINE s == ServerOf[r]
<1>1. req \in [Request -> ReqType] /\ s \in Server
  BY ServerAssumption DEF Inv, TypeOK, ReqType
<1>2. PICK q \in Request :
         \/ Ask(q) \/ Enter(q)
         \/ Unchanged(q) \/ Install(q)
         \/ ProbeFails(q)
         \/ Changed(q) \/ FetchFails(q) \/ Serve(q) \/ Answer(q)
         \/ (\E x \in Server : Restart(x)) \/ Commit \/ Tick \/ UNCHANGED vars
  BY DEF Next, Step
<1>3. CASE Ask(q) \/ Enter(q)
  <2>1. UNCHANGED <<superseded, slot>> /\ \E x : Goes(q, x) /\ (x = "serve" => catalog_fresh(ServerOf[q]))
    <3>1. CASE Ask(q)
      BY <3>1 DEF Ask
    <3>2. CASE Enter(q)
      BY <3>2 DEF Enter
    <3> QED
      BY <1>3, <3>1, <3>2
  <2>2. PICK x : req' = [req EXCEPT ![q] = At(x)] /\ (x = "serve" => catalog_fresh(ServerOf[q]))
    BY <2>1 DEF Goes
  <2>3. q = r /\ x = "serve"
    BY <1>1, <2>2, AtType
  <2> QED
    BY <1>1, <2>1, <2>2, <2>3, FreshIsRecent
<1>4. CASE Unchanged(q) \/ Install(q)
  <2>1. PICK c \in CacheType :
          Keep(q, c) /\ c.catalog = req[q].got /\ superseded[c.catalog] =< Timeout
    BY <1>4, KeepGood
  <2>2. /\ slot' = [slot EXCEPT ![ServerOf[q]] = c]
        /\ req' = [req EXCEPT ![q] = At("serve")]
        /\ UNCHANGED superseded
    BY <2>1 DEF Keep, Goes
  <2>3. q = r
    BY <1>1, <2>2
  <2>4. slot'[s] = c
    BY <1>1, <2>2, <2>3 DEF Inv, TypeOK
  <2>5. superseded[c.catalog] \in Nat
    BY DEF Inv, TypeOK, CacheType, Oldest
  <2> QED
    BY <2>1, <2>2, <2>4, <2>5, TimeAssumption DEF Oldest
<1>5. CASE ProbeFails(q)
  <2>1. req' = [req EXCEPT ![q] = [At("serve") EXCEPT !.failed = TRUE]]
    BY <1>5 DEF ProbeFails
  <2>2. [At("serve") EXCEPT !.failed = TRUE].failed = TRUE
    BY AtType
  <2> QED
    BY <1>1, <2>1, <2>2
<1>6. CASE Changed(q) \/ FetchFails(q) \/ Serve(q)
  <2>1. PICK x \in {"fetch", "idle"} : req' = [req EXCEPT ![q] = At(x)]
    BY <1>6 DEF Changed, FetchFails, Serve, Goes
  <2> QED
    BY <1>1, <2>1, AtType
<1>7. CASE Answer(q)
  <2>1. PICK x \in {"probed", "fetched"} : req' = [req EXCEPT ![q].pc = x, ![q].got = remote]
    BY <1>7 DEF Answer
  <2>2. req'[q].pc = x \/ q # r
    BY <1>1, <2>1 DEF ReqType
  <2> QED
    BY <1>1, <2>1, <2>2
<1>8. ASSUME NEW x \in Server, Restart(x)
      PROVE  FALSE
  BY <1>1, <1>8, AtType DEF Restart
<1>9. CASE Commit \/ UNCHANGED vars
  BY <1>9 DEF Commit, vars
<1>10. CASE Tick
  <2>1. req'[r].pc = req[r].pc
    BY <1>1, <1>10 DEF Tick, ReqType
  <2> QED
    BY <2>1
<1> QED
  BY <1>2, <1>3, <1>4, <1>5, <1>6, <1>7, <1>8, <1>9, <1>10

\* A request whose probe did not fail is served a catalog that was the newest
\* less than MaxAge + Timeout ago (mcp.rs, ensure_catalog).
THEOREM AnswersRecent == Spec => AnswersAreRecent
<1>1. Inv /\ [Next]_vars => ServesRecent
  BY StepServesRecent
<1>2. ServesRecent =>
        \A r \in Request :
           req[r].pc # "serve" /\ req'[r].pc = "serve" /\ ~req'[r].failed
             => superseded'[slot'[ServerOf[r]].catalog] < Oldest
  BY DEF ServesRecent
<1> QED
  BY <1>1, <1>2, CacheInvariant, PTL DEF Spec, AnswersAreRecent

\* What it means for one step not to go back.
GoesOn == \A s \in Server : slot'[s].catalog >= slot[s].catalog \/ Restart(s)

LEMMA StepGoesOn ==
  ASSUME Inv, [Next]_vars
  PROVE  GoesOn
<1> SUFFICES ASSUME NEW s \in Server
             PROVE  slot'[s].catalog >= slot[s].catalog \/ Restart(s)
  BY DEF GoesOn
<1>1. slot \in [Server -> CacheType] /\ slot[s].catalog \in Nat
  BY DEF Inv, TypeOK, CacheType
<1>2. CASE slot' = slot
  BY <1>1, <1>2
<1>3. ASSUME NEW r \in Request, Unchanged(r) \/ Install(r)
      PROVE  slot'[s].catalog >= slot[s].catalog
  <2>1. PICK c \in CacheType : Keep(r, c) /\ c.catalog >= slot[ServerOf[r]].catalog
    BY <1>3, KeepGood
  <2>2. slot' = [slot EXCEPT ![ServerOf[r]] = c]
    BY <2>1 DEF Keep
  <2> QED
    BY <1>1, <2>1, <2>2
<1>4. ASSUME NEW x \in Server, Restart(x)
      PROVE  slot'[s].catalog >= slot[s].catalog \/ Restart(s)
  <2>1. slot' = [slot EXCEPT ![x] = disk]
    BY <1>4 DEF Restart
  <2> QED
    BY <1>1, <1>4, <2>1
<1>5. CASE Tick
  <2>1. slot'[s] = [slot[s] EXCEPT !.age = Older(@, MaxAge)]
    BY <1>5 DEF Tick
  <2> QED
    BY <1>1, <2>1 DEF CacheType
<1> QED
  BY <1>2, <1>3, <1>4, <1>5
     DEF Next, Step, vars, Ask, Enter, Answer, Changed, Serve, ProbeFails, FetchFails, Commit

\* While a server runs, its requests never see an older catalog than before:
\* the mutex is held across the probe and the fetch (mcp.rs, ensure_catalog).
THEOREM NeverBack == Spec => NeverGoesBack
<1>1. Inv /\ [Next]_vars => GoesOn
  BY StepGoesOn
<1>2. GoesOn => \A s \in Server : slot'[s].catalog >= slot[s].catalog \/ Restart(s)
  BY DEF GoesOn
<1> QED
  BY <1>1, <1>2, CacheInvariant, PTL DEF Spec, NeverGoesBack

=============================================================================
