------------------------- MODULE SearchIndex_proofs -------------------------
(***************************************************************************)
(* What the search index promises, for any number of servers, requests,    *)
(* sessions and versions.                                                  *)
(***************************************************************************)
EXTENDS SearchIndex, TLAPS

LEMMA Constants ==
  /\ NoView \in View /\ NoDocument \in Document
  /\ Empty \in Snapshot /\ NoViews \in [Session -> View]
  /\ Builder \in Task /\ Request \subseteq Task
<1>1. NoView \in View
  BY BoundAssumption DEF NoView, View
<1>2. NoDocument \in Document
  BY <1>1, BoundAssumption DEF NoDocument, Document
<1>3. Empty \in Snapshot
  BY <1>2 DEF Empty, Snapshot
<1> QED
  BY <1>1, <1>2, <1>3 DEF NoViews, Task

LEMMA TypeInit == Init => TypeOK
<1> SUFFICES ASSUME Init PROVE TypeOK
  OBVIOUS
<1>1. /\ newest \in [Session -> 0 .. MaxVersion]
      /\ archive \in [Session -> 0 .. MaxVersion]
      /\ accidents \in 0 .. MaxAccidents
  BY BoundAssumption DEF Init
<1>2. runtime \in [Request -> [documents : Snapshot, dirty : BOOLEAN]]
  <2>1. [documents |-> Empty, dirty |-> FALSE] \in [documents : Snapshot, dirty : BOOLEAN]
    BY Constants
  <2> QED
    BY <2>1 DEF Init
<1>3. /\ view \in [Task -> [Session -> View]] /\ held \in [Task -> Snapshot]
      /\ removes \in [Task -> SUBSET Session] /\ todo \in [Task -> SUBSET Session]
  BY Constants DEF Init
<1> QED
  BY <1>1, <1>2, <1>3 DEF Init, TypeOK

LEMMA MergedType ==
  ASSUME TypeOK, NEW v \in Server
  PROVE  Merged(v) \in [Session -> View]
<1>1. ASSUME NEW s \in Session
      PROVE  Merged(v)[s] \in View
  <2>1. newest[s] \in 0 .. MaxVersion /\ archive[s] \in 0 .. MaxVersion
    BY DEF TypeOK
  <2> QED
    BY <2>1, Constants DEF Merged, View
<1> QED
  BY <1>1 DEF Merged

LEMMA IndexedType ==
  ASSUME TypeOK, NEW v \in View, NEW s \in Session
  PROVE  Indexed(v, s) \in Document
<1>1. Transcript(v, s) \in 0 .. MaxVersion
  BY DEF Transcript, View, TypeOK
<1> QED
  BY <1>1 DEF Indexed, Document

LEMMA UpdatedType ==
  ASSUME TypeOK, NEW r \in Request
  PROVE  Updated(r) \in Snapshot
<1>1. held[r] \in Snapshot /\ runtime[uses[r]].documents \in Snapshot
  BY Constants DEF TypeOK
<1>2. ASSUME NEW s \in Session
      PROVE  Updated(r)[s] \in Document
  BY <1>1, Constants DEF Updated, Snapshot
<1> QED
  BY <1>2 DEF Updated, Snapshot

\* What a task that ends leaves behind has its type.
LEMMA EndsType ==
  ASSUME TypeOK, NEW ts, Ends(ts)
  PROVE  /\ pc' \in [Task -> {"idle", "find", "open", "fetch", "fetched", "plan", "load",
                              "answer", "publish"}]
         /\ view' \in [Task -> [Session -> View]]
         /\ removes' \in [Task -> SUBSET Session]
         /\ todo' \in [Task -> SUBSET Session]
         /\ held' \in [Task -> Snapshot]
         /\ uses' \in [Request -> Request]
         /\ undisturbed' \in [Request -> SUBSET Session]
  BY Constants DEF Ends, TypeOK

LEMMA RememberType ==
  ASSUME TypeOK, NEW r \in Request, NEW docs \in Snapshot, remember_runtime(r, docs)
  PROVE  /\ runtime' \in [Request -> [documents : Snapshot, dirty : BOOLEAN]]
         /\ indexes' \in [Server -> Request \cup {None}]
         /\ held' \in [Task -> Snapshot]
         /\ uses' \in [Request -> Request]
         /\ pc' \in [Task -> {"idle", "find", "open", "fetch", "fetched", "plan", "load",
                              "answer", "publish"}]
  BY Constants DEF remember_runtime, Goes, TypeOK

LEMMA TypeRequest ==
  ASSUME TypeOK, NEW r \in Request, RequestStep(r)
  PROVE  TypeOK'
<1> USE ServerAssumption, Constants
<1>1. r \in Task /\ ServerOf[r] \in Server /\ view[r] \in [Session -> View]
      /\ held[r] \in Snapshot /\ (Accident => accidents' \in 0 .. MaxAccidents)
  BY BoundAssumption DEF TypeOK, Accident
<1>2. CASE Begin(r)
  BY <1>1, <1>2, MergedType DEF Begin, Goes, TypeOK, sessions, snapshots
<1>3. CASE Find(r)
  <2>1. uses' \in [Request -> Request]
    BY <1>1, <1>3 DEF Find, TypeOK
  <2> QED
    BY <1>3, <2>1 DEF Find, Goes, TypeOK, sessions, snapshots
<1>4. CASE Open(r)
  <2>1. ASSUME NEW snapshot \in disk[ServerOf[r]], remember_runtime(r, snapshot), UNCHANGED <<disk, accidents>>
        PROVE  TypeOK'
    <3>1. snapshot \in Snapshot
      BY <1>1, <2>1 DEF TypeOK
    <3> QED
      BY <2>1, <3>1, RememberType DEF remember_runtime, TypeOK, sessions
  <2>2. ASSUME Goes(r, "fetch"), UNCHANGED <<sessions, snapshots, runtime, indexes, task, accidents>>
        PROVE  TypeOK'
    BY <2>2 DEF Goes, TypeOK, sessions, snapshots, task
  <2> QED
    BY <1>4, <2>1, <2>2 DEF Open
<1>5. CASE Fetch(r)
  <2>1. CASE remember_runtime(r, Empty) /\ UNCHANGED <<disk, accidents>>
    BY <2>1, RememberType DEF remember_runtime, TypeOK, sessions
  <2>2. ASSUME NEW snapshot \in remote, held' = [held EXCEPT ![r] = snapshot], Goes(r, "fetched"),
               UNCHANGED <<sessions, snapshots, runtime, indexes, view, removes, todo, uses,
                           undisturbed, accidents>>
        PROVE  TypeOK'
    BY <1>1, <2>2 DEF Goes, TypeOK, sessions, snapshots
  <2> QED
    BY <1>5, <2>1, <2>2 DEF Fetch
<1>6. CASE Download(r)
  <2>1. disk' \in [Server -> SUBSET Snapshot]
    BY <1>1, <1>6 DEF Download, TypeOK
  <2> QED
    BY <1>1, <1>6, <2>1, RememberType DEF Download, remember_runtime, TypeOK, sessions
<1>7. CASE DownloadFails(r)
  BY <1>1, <1>7, RememberType DEF DownloadFails, remember_runtime, TypeOK, sessions
<1>8. CASE Plan(r)
  <2>1. todo' \in [Task -> SUBSET Session] /\ removes' \in [Task -> SUBSET Session]
    BY <1>1, <1>8 DEF Plan, Changes, TypeOK
  <2> QED
    BY <1>8, <2>1 DEF Plan, Goes, TypeOK, sessions, snapshots
<1>9. CASE SkipUnreadable(r)
  <2>1. todo' \in [Task -> SUBSET Session] /\ undisturbed' \in [Request -> SUBSET Session]
        /\ accidents' \in 0 .. MaxAccidents
    BY <1>1, <1>9 DEF SkipUnreadable, TypeOK
  <2> QED
    BY <1>9, <2>1 DEF SkipUnreadable, TypeOK, sessions, snapshots
<1>10. ASSUME NEW saves \in BOOLEAN, Apply(r, saves), accidents' \in 0 .. MaxAccidents
       PROVE  TypeOK'
  <2>1. Updated(r) \in Snapshot
    BY UpdatedType
  <2>2. runtime' \in [Request -> [documents : Snapshot, dirty : BOOLEAN]]
    <3>1. (Dirty(r) /\ ~saves) \in BOOLEAN
      OBVIOUS
    <3>2. runtime' = [runtime EXCEPT ![uses[r]] =
                        [documents |-> Updated(r), dirty |-> Dirty(r) /\ ~saves]]
      BY <1>10 DEF Apply
    <3>3. [documents |-> Updated(r), dirty |-> Dirty(r) /\ ~saves]
             \in [documents : Snapshot, dirty : BOOLEAN]
      BY <2>1, <3>1
    <3> DEFINE Runtimes == [documents : Snapshot, dirty : BOOLEAN]
    <3>4. PICK new \in Runtimes : runtime' = [runtime EXCEPT ![uses[r]] = new]
      BY <3>2, <3>3
    <3>5. runtime \in [Request -> Runtimes]
      BY DEF TypeOK
    <3> HIDE DEF Runtimes
    <3>6. runtime' \in [Request -> Runtimes]
      BY <3>4, <3>5
    <3> QED
      BY <3>6 DEF Runtimes
  <2>3. disk' \in [Server -> SUBSET Snapshot] /\ publishing' \subseteq Snapshot
    <3>1. \/ UNCHANGED <<disk, publishing>>
          \/ /\ disk' = [disk EXCEPT ![ServerOf[r]] = {Updated(r)}]
             /\ publishing' \subseteq publishing \cup {Updated(r)}
      BY <1>10 DEF Apply
    <3>2. {Updated(r)} \in SUBSET Snapshot
      BY <2>1
    <3> HIDE DEF Updated
    <3>3. disk \in [Server -> SUBSET Snapshot] /\ publishing \subseteq Snapshot
      BY DEF TypeOK
    <3> QED
      BY <3>1, <3>2, <3>3
  <2>4. undisturbed' \in [Request -> SUBSET Session] /\ held' \in [Task -> Snapshot]
        /\ removes' \in [Task -> SUBSET Session]
    BY <1>10 DEF Apply, TypeOK
  <2> QED
    BY <1>10, <2>2, <2>3, <2>4 DEF Apply, Goes, TypeOK, sessions
<1>11. CASE Answer(r)
  BY <1>11, EndsType DEF Answer, TypeOK, sessions, snapshots
<1>12. CASE Load(r)
  <2>1. PICK s \in todo[r] : held' = [held EXCEPT ![r][s] = Indexed(view[r][s], s)]
                             /\ todo' = [todo EXCEPT ![r] = @ \ {s}]
    BY <1>12 DEF Load
  <2>2. s \in Session /\ Indexed(view[r][s], s) \in Document
    BY <1>1, <2>1, IndexedType DEF TypeOK
  <2>3. held' \in [Task -> Snapshot] /\ todo' \in [Task -> SUBSET Session]
    BY <2>1, <2>2 DEF TypeOK, Snapshot
  <2> QED
    BY <1>12, <2>3 DEF Load, TypeOK, sessions, snapshots
<1>13. accidents \in 0 .. MaxAccidents
  BY DEF TypeOK
<1> QED
  BY <1>1, <1>2, <1>3, <1>4, <1>5, <1>6, <1>7, <1>8, <1>9, <1>10, <1>11, <1>12, <1>13
     DEF RequestStep, Step

LEMMA TypeBuild ==
  ASSUME TypeOK, BuildStart \/ BuildStep
  PROVE  TypeOK'
<1> USE ServerAssumption, Constants
<1>1. (Accident => accidents' \in 0 .. MaxAccidents) /\ accidents \in 0 .. MaxAccidents
  BY BoundAssumption DEF TypeOK, Accident
<1>2. CASE BuildStart
  <2> DEFINE prior == IF disk[Owner] = {} THEN Empty ELSE CHOOSE snapshot \in disk[Owner] : TRUE
             reused == [s \in Session |->
                          IF Merged(Owner)[s] # NoView /\ prior[s].fingerprint = Merged(Owner)[s]
                            THEN prior[s] ELSE NoDocument]
  <2>1. prior \in Snapshot
    BY DEF TypeOK
  <2>2. reused \in Snapshot
    BY <2>1 DEF Snapshot
  <2>3. Merged(Owner) \in [Session -> View]
    BY MergedType
  <2>4. Changes(Merged(Owner), prior) \subseteq Session
    BY DEF Changes
  <2>5. /\ view' = [view EXCEPT ![Builder] = Merged(Owner)]
        /\ todo' = [todo EXCEPT ![Builder] = Changes(Merged(Owner), prior)]
        /\ held' = [held EXCEPT ![Builder] = reused]
        /\ pc' = [pc EXCEPT ![Builder] = "load"]
        /\ UNCHANGED <<sessions, snapshots, runtime, indexes, removes, uses, undisturbed, accidents>>
    BY <1>2 DEF BuildStart, Goes
  <2> HIDE DEF prior, reused
  <2> QED
    BY <2>2, <2>3, <2>4, <2>5 DEF TypeOK, sessions, snapshots
<1>3. CASE Load(Builder)
  <2>1. PICK s \in todo[Builder] : held' = [held EXCEPT ![Builder][s] = Indexed(view[Builder][s], s)]
                             /\ todo' = [todo EXCEPT ![Builder] = @ \ {s}]
    BY <1>3 DEF Load
  <2>2. s \in Session /\ Indexed(view[Builder][s], s) \in Document
    BY <2>1, IndexedType DEF TypeOK
  <2>3. held' \in [Task -> Snapshot] /\ todo' \in [Task -> SUBSET Session]
    BY <2>1, <2>2 DEF TypeOK, Snapshot
  <2> QED
    BY <1>3, <2>3 DEF Load, TypeOK, sessions, snapshots
<1>4. CASE BuildSave
  BY <1>4 DEF BuildSave, Goes, TypeOK, sessions, task
<1>5. CASE BuildPublish
  <2>1. remote' \subseteq Snapshot
    BY <1>5 DEF BuildPublish, TypeOK
  <2> QED
    BY <1>5, <2>1, EndsType DEF BuildPublish, TypeOK, sessions
<1>6. CASE BuildFails
  BY <1>1, <1>6, EndsType DEF BuildFails, TypeOK, sessions, snapshots
<1> QED
  BY <1>2, <1>3, <1>4, <1>5, <1>6 DEF BuildStep

LEMMA TypeNext ==
  ASSUME TypeOK, [Next]_vars
  PROVE  TypeOK'
<1>1. accidents \in 0 .. MaxAccidents /\ (Accident => accidents' \in 0 .. MaxAccidents)
  BY BoundAssumption DEF TypeOK, Accident
<1>2. CASE Publish \/ PublishFails
  BY <1>1, <1>2 DEF Publish, PublishFails, TypeOK, sessions, task
<1>3. ASSUME NEW s \in Session, Change(s)
      PROVE  TypeOK'
  <2>1. newest' \in [Session -> 0 .. MaxVersion] /\ there' \in [Session -> BOOLEAN]
        /\ archive' \in [Session -> 0 .. MaxVersion]
    <3>1. newest[s] \in 0 .. MaxVersion /\ (newest[s] < MaxVersion => newest[s] + 1 \in 0 .. MaxVersion)
      BY BoundAssumption DEF TypeOK
    <3>2. CASE Edit(s)
      BY <3>1, <3>2 DEF Edit, TypeOK
    <3>3. CASE Remove(s) \/ Ingest(s)
      BY <3>1, <3>3 DEF Remove, Ingest, TypeOK
    <3> QED
      BY <1>3, <3>2, <3>3 DEF Change
  <2>2. UNCHANGED <<snapshots, runtime, indexes, pc, task, accidents>>
    BY <1>3 DEF Change, Edit, Remove, Ingest
  <2> QED
    BY <2>1, <2>2 DEF TypeOK, snapshots, task
<1>4. ASSUME NEW v \in Server, Restart(v)
      PROVE  TypeOK'
  BY <1>1, <1>4, EndsType DEF Restart, TypeOK, sessions
<1>5. CASE UNCHANGED vars
  BY <1>5 DEF vars, sessions, snapshots, task, TypeOK
<1> QED
  BY <1>2, <1>3, <1>4, <1>5, TypeRequest, TypeBuild DEF Next

\* Every variable keeps its type.
THEOREM TypeCorrect == Spec => []TypeOK
<1>1. Init => TypeOK
  BY TypeInit
<1>2. TypeOK /\ [Next]_vars => TypeOK'
  BY TypeNext
<1> QED
  BY <1>1, <1>2, PTL DEF Spec

-----------------------------------------------------------------------------
(* Where documents come from.                                              *)

\* Snapshots of the bucket, of uploads, of disks, of tasks and of runtimes.
Kept(snapshot) ==
    \/ snapshot \in remote \cup publishing
    \/ \E v \in Server : snapshot \in disk[v]
    \/ \E t \in Task : snapshot = held[t]
    \/ \E r \in Request : snapshot = runtime[r].documents

\* None at all, one that was kept, or a transcript read now.
ComesFrom(d, s) ==
    \/ d = NoDocument
    \/ \E snapshot : Kept(snapshot) /\ d = snapshot[s]
    \/ \E t \in Task : pc[t] = "load" /\ s \in todo[t] /\ d = Indexed(view[t][s], s)

Made(snapshot) == \A s \in Session : ComesFrom(snapshot[s], s)

LEMMA KeptMade ==
  /\ Made(Empty)
  /\ \A x \in remote \cup publishing : Made(x)
  /\ \A v \in Server : \A x \in disk[v] : Made(x)
  /\ \A t \in Task : Made(held[t])
  /\ \A r \in Request : Made(runtime[r].documents)
<1>1. \A x : Kept(x) => Made(x)
  BY DEF Made, ComesFrom
<1>2. Made(Empty)
  BY DEF Made, ComesFrom, Empty
<1> QED
  BY <1>1, <1>2 DEF Kept

LEMMA AllMade ==
  ASSUME \A x \in remote' \cup publishing' : Made(x),
         \A v \in Server : \A x \in disk'[v] : Made(x),
         \A t \in Task : Made(held'[t]),
         \A r \in Request : Made(runtime'[r].documents)
  PROVE  \A x : Kept(x)' => Made(x)
  BY DEF Kept

LEMMA UpdatedMade ==
  ASSUME TypeOK, NEW r \in Request
  PROVE  Made(Updated(r))
<1>1. Made(held[r]) /\ Made(runtime[uses[r]].documents) /\ Made(Empty)
  BY KeptMade, Constants DEF TypeOK
<1>2. \A s \in Session : Updated(r)[s] \in {held[r][s], Empty[s], runtime[uses[r]].documents[s]}
  BY DEF Updated, Empty
<1> QED
  BY <1>1, <1>2 DEF Made

LEMMA LoadMade ==
  ASSUME TypeOK, NEW t \in Task, Load(t)
  PROVE  \A x : Kept(x)' => Made(x)
<1>1. PICK s \in todo[t] : held' = [held EXCEPT ![t][s] = Indexed(view[t][s], s)]
  BY DEF Load
<1>2. s \in Session
  BY <1>1 DEF TypeOK
<1>3. ComesFrom(Indexed(view[t][s], s), s)
  BY <1>1 DEF Load, ComesFrom
<1>4. \A x \in Session : held'[t][x] = IF x = s THEN Indexed(view[t][s], s) ELSE held[t][x]
  BY <1>1, <1>2 DEF TypeOK, Snapshot
<1>5. Made(held'[t])
  BY <1>3, <1>4, KeptMade DEF Made
<1>6. \A u \in Task \ {t} : held'[u] = held[u]
  BY <1>1 DEF TypeOK
<1>7. UNCHANGED <<snapshots, runtime>>
  BY DEF Load
<1> QED
  BY <1>5, <1>6, <1>7, KeptMade, AllMade DEF snapshots

LEMMA RememberMade ==
  ASSUME TypeOK, NEW r \in Request, NEW docs, Made(docs), remember_runtime(r, docs),
         disk' = disk \/ disk' = [disk EXCEPT ![ServerOf[r]] = {docs}]
  PROVE  \A x : Kept(x)' => Made(x)
<1>1. \A q \in Request : runtime'[q].documents = docs \/ runtime'[q] = runtime[q]
  BY DEF remember_runtime, TypeOK
<1>2. \A v \in Server : disk'[v] = {docs} \/ disk'[v] = disk[v]
  BY DEF TypeOK
<1>3. \A t \in Task : held'[t] = Empty \/ held'[t] = held[t]
  BY DEF remember_runtime, TypeOK
<1>4. UNCHANGED <<remote, publishing>>
  BY DEF remember_runtime
<1> QED
  BY <1>1, <1>2, <1>3, <1>4, KeptMade, AllMade

LEMMA ApplyMade ==
  ASSUME TypeOK, NEW r \in Request, NEW saves \in BOOLEAN, Apply(r, saves)
  PROVE  \A x : Kept(x)' => Made(x)
<1> DEFINE docs == Updated(r)
<1>1. Made(docs)
  BY UpdatedMade
<1>2. \A q \in Request : runtime'[q].documents = docs \/ runtime'[q] = runtime[q]
  BY DEF Apply, TypeOK
<1>3. /\ disk' = disk \/ disk' = [disk EXCEPT ![ServerOf[r]] = {docs}]
      /\ publishing' \subseteq publishing \cup {docs}
      /\ UNCHANGED remote
  BY DEF Apply
<1>4. \A v \in Server : disk'[v] = {docs} \/ disk'[v] = disk[v]
  BY <1>3 DEF TypeOK
<1>5. \A u \in Task : held'[u] = Empty \/ held'[u] = held[u]
  <2>1. held' = [held EXCEPT ![r] = Empty]
    BY DEF Apply
  <2> QED
    BY <2>1 DEF TypeOK
<1> HIDE DEF docs
<1> QED
  BY <1>1, <1>2, <1>3, <1>4, <1>5, KeptMade, AllMade

LEMMA RequestMade ==
  ASSUME TypeOK, NEW r \in Request, RequestStep(r)
  PROVE  \A x : Kept(x)' => Made(x)
<1> USE ServerAssumption, Constants
<1>1. ServerOf[r] \in Server
  OBVIOUS
<1>2. ASSUME UNCHANGED <<snapshots, runtime>>,
             \A u \in Task : held'[u] = held[u] \/ Made(held'[u])
      PROVE  \A x : Kept(x)' => Made(x)
  BY <1>2, KeptMade, AllMade DEF snapshots
<1>3. CASE Begin(r) \/ Find(r) \/ SkipUnreadable(r)
  BY <1>2, <1>3 DEF Begin, Find, SkipUnreadable
<1>4. CASE Open(r)
  <2>1. ASSUME NEW snapshot \in disk[ServerOf[r]], remember_runtime(r, snapshot), UNCHANGED disk
        PROVE  \A x : Kept(x)' => Made(x)
    <3>1. Made(snapshot)
      BY <1>1, <2>1, KeptMade
    <3> QED
      BY <2>1, <3>1, RememberMade
  <2>2. CASE UNCHANGED <<snapshots, runtime, task>>
    BY <1>2, <2>2 DEF task
  <2> QED
    BY <1>4, <2>1, <2>2 DEF Open
<1>5. CASE Fetch(r)
  <2>1. ASSUME NEW snapshot \in remote, held' = [held EXCEPT ![r] = snapshot],
               UNCHANGED <<snapshots, runtime>>
        PROVE  \A x : Kept(x)' => Made(x)
    <3>1. Made(snapshot)
      BY <2>1, KeptMade
    <3>2. \A u \in Task : held'[u] = snapshot \/ held'[u] = held[u]
      BY <2>1 DEF TypeOK
    <3> QED
      BY <1>2, <2>1, <3>1, <3>2
  <2>2. CASE remember_runtime(r, Empty) /\ UNCHANGED disk
    BY <2>2, KeptMade, RememberMade
  <2> QED
    BY <1>5, <2>1, <2>2 DEF Fetch
<1>6. CASE Download(r)
  BY <1>6, KeptMade, RememberMade DEF Download
<1>7. CASE DownloadFails(r)
  BY <1>7, KeptMade, RememberMade DEF DownloadFails
<1>8. CASE Plan(r)
  <2>1. \A u \in Task : held'[u] = Empty \/ held'[u] = held[u]
    BY <1>8 DEF Plan, TypeOK
  <2> QED
    BY <1>2, <1>8, <2>1, KeptMade DEF Plan
<1>9. CASE Answer(r)
  <2>1. \A u \in Task : held'[u] = Empty \/ held'[u] = held[u]
    BY <1>9 DEF Answer, Ends
  <2> QED
    BY <1>2, <1>9, <2>1, KeptMade DEF Answer
<1> QED
  BY <1>3, <1>4, <1>5, <1>6, <1>7, <1>8, <1>9, LoadMade, ApplyMade DEF RequestStep, Step

LEMMA BuildStartMade ==
  ASSUME TypeOK, BuildStart
  PROVE  \A x : Kept(x)' => Made(x)
<1> USE ServerAssumption, Constants
<1> DEFINE prior == IF disk[Owner] = {} THEN Empty ELSE CHOOSE snapshot \in disk[Owner] : TRUE
           reused == [s \in Session |->
                        IF Merged(Owner)[s] # NoView /\ prior[s].fingerprint = Merged(Owner)[s]
                          THEN prior[s] ELSE NoDocument]
<1>1. Made(prior)
  <2>1. prior = Empty \/ prior \in disk[Owner]
    OBVIOUS
  <2> HIDE DEF prior
  <2> QED
    BY <2>1, KeptMade
<1>2. Made(reused)
  <2>1. \A s \in Session : reused[s] = prior[s] \/ reused[s] = Empty[s]
    BY DEF Empty
  <2> HIDE DEF reused, prior
  <2> QED
    BY <1>1, <2>1, KeptMade DEF Made
<1>3. held' = [held EXCEPT ![Builder] = reused] /\ UNCHANGED <<snapshots, runtime>>
  BY DEF BuildStart
<1> HIDE DEF reused, prior
<1>4. \A u \in Task : held'[u] = reused \/ held'[u] = held[u]
  BY <1>3 DEF TypeOK
<1> QED
  BY <1>2, <1>3, <1>4, KeptMade, AllMade DEF snapshots

\* A document is never made of anything else, in any step.
LEMMA NextMade ==
  ASSUME TypeOK, [Next]_vars
  PROVE  \A x : Kept(x)' => Made(x)
<1> USE ServerAssumption, Constants
<1>1. CASE Publish
  BY <1>1, KeptMade, AllMade DEF Publish, task
<1>2. CASE PublishFails
  BY <1>2, KeptMade, AllMade DEF PublishFails, task
<1>3. CASE BuildSave
  <2>1. \A v \in Server : disk'[v] = {held[Builder]} \/ disk'[v] = disk[v]
    BY <1>3 DEF BuildSave, TypeOK
  <2>2. UNCHANGED <<remote, publishing, runtime, task>>
    BY <1>3 DEF BuildSave
  <2> QED
    BY <2>1, <2>2, KeptMade, AllMade DEF task
<1>4. CASE BuildPublish
  <2>1. \A u \in Task : held'[u] = Empty \/ held'[u] = held[u]
    BY <1>4 DEF BuildPublish, Ends
  <2>2. remote' = {held[Builder]} /\ UNCHANGED <<disk, publishing, runtime>>
    BY <1>4 DEF BuildPublish
  <2> QED
    BY <2>1, <2>2, KeptMade, AllMade
<1>5. CASE BuildFails
  <2>1. \A u \in Task : held'[u] = Empty \/ held'[u] = held[u]
    BY <1>5 DEF BuildFails, Ends
  <2>2. UNCHANGED <<snapshots, runtime>>
    BY <1>5 DEF BuildFails
  <2> QED
    BY <2>1, <2>2, KeptMade, AllMade DEF snapshots
<1>6. ASSUME NEW v \in Server, Restart(v)
      PROVE  \A x : Kept(x)' => Made(x)
  <2>1. \A u \in Task : held'[u] = Empty \/ held'[u] = held[u]
    BY <1>6 DEF Restart, Ends
  <2>2. publishing' \subseteq publishing /\ UNCHANGED <<disk, remote, runtime>>
    BY <1>6 DEF Restart
  <2> QED
    BY <2>1, <2>2, KeptMade, AllMade
<1>7. CASE UNCHANGED <<snapshots, runtime, task>>
  BY <1>7, KeptMade, AllMade DEF snapshots, task
<1>8. ASSUME NEW s \in Session, Change(s)
      PROVE  UNCHANGED <<snapshots, runtime, task>>
  BY <1>8 DEF Change, Edit, Remove, Ingest
<1> QED
  BY <1>1, <1>2, <1>3, <1>4, <1>5, <1>6, <1>7, <1>8, LoadMade, RequestMade, BuildStartMade
     DEF Next, BuildStep, vars

-----------------------------------------------------------------------------
(* What a document says of its session.                                    *)

\* A text is not older than its fingerprint nor newer than the session, and is
\* the one of its fingerprint if that is the archive's.
Dated(d, s) ==
    /\ d.body >= d.fingerprint.version /\ d.body =< newest[s]
    /\ d.fingerprint.pick = "Remote" => d.body = d.fingerprint.version
    /\ d.fingerprint = NoView => d.body = 0

\* Nor are views and the archive ahead of the sessions; what is to be read is
\* somewhere.
DocumentsInv ==
    /\ \A snapshot : Kept(snapshot) => \A s \in Session : Dated(snapshot[s], s)
    /\ \A t \in Task, s \in Session : view[t][s].version =< newest[s]
    /\ \A s \in Session : archive[s] =< newest[s]
    /\ \A t \in Task : pc[t] = "load" => \A s \in todo[t] : view[t][s] # NoView

LEMMA ComesDated ==
  ASSUME TypeOK, DocumentsInv, NEW s \in Session, NEW d, ComesFrom(d, s)
  PROVE  Dated(d, s)
<1>0. newest[s] \in Nat
  BY DEF TypeOK
<1>1. CASE d = NoDocument
  BY <1>0, <1>1 DEF NoDocument, NoView, Dated
<1>2. CASE \E snapshot : Kept(snapshot) /\ d = snapshot[s]
  BY <1>2 DEF DocumentsInv
<1>3. ASSUME NEW t \in Task, pc[t] = "load", s \in todo[t], d = Indexed(view[t][s], s)
      PROVE  Dated(d, s)
  <2>1. view[t][s] \in View /\ view[t][s].version =< newest[s] /\ view[t][s] # NoView
    BY <1>3 DEF DocumentsInv, TypeOK
  <2>2. /\ d.fingerprint = view[t][s]
        /\ d.body = IF view[t][s].pick = "Local" THEN newest[s] ELSE view[t][s].version
    BY <1>3 DEF Indexed, Transcript
  <2> QED
    BY <1>0, <2>1, <2>2 DEF Dated, View
<1> QED
  BY <1>1, <1>2, <1>3 DEF ComesFrom

LEMMA ChangeGrows ==
  ASSUME TypeOK, NEW s \in Session, Change(s)
  PROVE  /\ \A x \in Session : newest'[x] >= newest[x]
         /\ \A x \in Session : archive'[x] = archive[x] \/ archive'[x] = newest[x]
<1>1. newest \in [Session -> Nat] /\ archive \in [Session -> Nat]
  BY DEF TypeOK
<1>2. CASE Edit(s)
  BY <1>1, <1>2 DEF Edit
<1>3. CASE Remove(s)
  BY <1>1, <1>3 DEF Remove
<1>4. CASE Ingest(s)
  BY <1>1, <1>4 DEF Ingest
<1> QED
  BY <1>2, <1>3, <1>4 DEF Change

LEMMA SessionsGrow ==
  ASSUME TypeOK, [Next]_vars
  PROVE  /\ \A x \in Session : newest[x] \in Nat /\ newest'[x] \in Nat /\ newest'[x] >= newest[x]
         /\ \A x \in Session : archive'[x] = archive[x] \/ archive'[x] = newest[x]
<1>1. \A x \in Session : newest[x] \in Nat /\ newest'[x] \in Nat
  BY TypeNext DEF TypeOK
<1>2. UNCHANGED sessions \/ \E s \in Session : Change(s)
  BY DEF Next, RequestStep, Step, Begin, Find, Open, Fetch, Download, DownloadFails, Plan, Load,
         SkipUnreadable, Apply, Answer, Publish, PublishFails, BuildStart, BuildStep, BuildSave,
         BuildPublish, BuildFails, Restart, remember_runtime, vars, sessions
<1> QED
  BY <1>1, <1>2, ChangeGrows DEF sessions

\* A view is kept, is none or is taken now; what is to be read is planned from
\* it.
LEMMA ViewsNext ==
  ASSUME TypeOK, [Next]_vars, NEW t \in Task
  PROVE  /\ \/ view'[t] = view[t] \/ view'[t] = NoViews
            \/ \E v \in Server : view'[t] = Merged(v)
         /\ pc'[t] = "load" =>
              \/ pc[t] = "load" /\ todo'[t] \subseteq todo[t] /\ view'[t] = view[t]
              \/ \A s \in todo'[t] : view'[t][s] # NoView
<1> USE ServerAssumption, Constants
<1> DEFINE Right == /\ \/ view'[t] = view[t] \/ view'[t] = NoViews
                       \/ \E v \in Server : view'[t] = Merged(v)
                    /\ pc'[t] = "load" =>
                         \/ pc[t] = "load" /\ todo'[t] \subseteq todo[t] /\ view'[t] = view[t]
                         \/ \A s \in todo'[t] : view'[t][s] # NoView
<1> SUFFICES Right
  OBVIOUS
<1>1. ASSUME view'[t] = view[t], todo'[t] \subseteq todo[t], pc'[t] = pc[t] \/ pc'[t] # "load"
      PROVE  Right
  BY <1>1
<1>2. ASSUME NEW ts, Ends(ts)
      PROVE  Right
  <2>1. \/ view'[t] = view[t] /\ todo'[t] = todo[t] /\ pc'[t] = pc[t]
        \/ view'[t] = NoViews /\ pc'[t] # "load"
    BY <1>2 DEF Ends
  <2> QED
    BY <2>1
<1>3. ASSUME NEW r \in Request, Begin(r)
      PROVE  Right
  <2>1. CASE t = r
    BY <1>3, <2>1 DEF Begin, Goes, TypeOK
  <2>2. CASE t # r
    BY <1>3, <2>2 DEF Begin, Goes, TypeOK
  <2> QED
    BY <2>1, <2>2
<1>4. ASSUME NEW r \in Request, Plan(r)
      PROVE  Right
  <2>1. CASE t = r
    BY <1>4, <2>1 DEF Plan, Goes, Changes, TypeOK
  <2>2. CASE t # r
    BY <1>4, <2>2 DEF Plan, Goes, TypeOK
  <2> QED
    BY <2>1, <2>2
<1>5. CASE BuildStart
  <2>1. CASE t = Builder
    BY <1>5, <2>1 DEF BuildStart, Goes, Changes, TypeOK
  <2>2. CASE t # Builder
    BY <1>5, <2>2 DEF BuildStart, Goes, TypeOK
  <2> QED
    BY <2>1, <2>2
<1>6. ASSUME NEW u \in Task, NEW x \in {"open", "plan", "fetch", "fetched", "answer", "publish"},
             pc' = [pc EXCEPT ![u] = x], UNCHANGED <<view, todo>>
      PROVE  Right
  BY <1>1, <1>6 DEF TypeOK
<1>7. ASSUME NEW u \in Task, NEW s, todo' = [todo EXCEPT ![u] = @ \ {s}], UNCHANGED <<view, pc>>
      PROVE  Right
  BY <1>1, <1>7 DEF TypeOK
<1>8. CASE UNCHANGED <<pc, view, todo>>
  BY <1>1, <1>8
<1>9. ASSUME NEW r \in Request, RequestStep(r)
      PROVE  Right
  <2> HIDE DEF Right
  <2>1. CASE Find(r) \/ Open(r) \/ Fetch(r) \/ Download(r) \/ DownloadFails(r)
             \/ Apply(r, TRUE) \/ Apply(r, FALSE)
    BY <1>6, <1>8, <2>1
       DEF Find, Open, Fetch, Download, DownloadFails, Apply, remember_runtime, Goes, task
  <2>2. CASE Load(r) \/ SkipUnreadable(r)
    BY <1>7, <2>2 DEF Load, SkipUnreadable
  <2>3. CASE Answer(r)
    BY <1>2, <2>3 DEF Answer
  <2> QED
    BY <1>3, <1>4, <1>9, <2>1, <2>2, <2>3 DEF RequestStep, Step
<1>10. CASE BuildStep
  <2> HIDE DEF Right
  <2>1. CASE Load(Builder)
    BY <1>7, <2>1 DEF Load
  <2>2. CASE BuildSave
    BY <1>6, <2>2 DEF BuildSave, Goes, task
  <2>3. CASE Ends({Builder})
    BY <1>2, <2>3
  <2>4. BuildPublish \/ BuildFails => Ends({Builder})
    BY DEF BuildPublish, BuildFails
  <2> QED
    BY <1>10, <2>1, <2>2, <2>3, <2>4 DEF BuildStep
<1>11. ASSUME NEW v \in Server, Restart(v)
       PROVE  Right
  BY <1>2, <1>11 DEF Restart
<1>12. Publish \/ PublishFails \/ (\E s \in Session : Change(s)) \/ UNCHANGED vars
          => UNCHANGED <<pc, view, todo>>
  BY DEF Publish, PublishFails, Change, Edit, Remove, Ingest, vars, task
<1> HIDE DEF Right
<1> QED
  BY <1>5, <1>8, <1>9, <1>10, <1>11, <1>12 DEF Next

LEMMA MergedKnown ==
  ASSUME TypeOK, DocumentsInv, NEW v \in Server, NEW s \in Session
  PROVE  Merged(v)[s].version =< newest[s]
<1>1. newest[s] \in Nat /\ archive[s] =< newest[s]
  BY DEF DocumentsInv, TypeOK
<1> QED
  BY <1>1 DEF Merged, NoView

LEMMA DocumentsNext ==
  ASSUME TypeOK, DocumentsInv, [Next]_vars
  PROVE  DocumentsInv'
<1> DEFINE Grown(x) == newest[x] \in Nat /\ newest'[x] \in Nat /\ newest'[x] >= newest[x]
<1>1. \A x \in Session : Grown(x)
  BY SessionsGrow
<1>2. ASSUME NEW snapshot, Kept(snapshot)', NEW s \in Session
      PROVE  Dated(snapshot[s], s)'
  <2>1. Dated(snapshot[s], s)
    BY <1>2, NextMade, ComesDated DEF Made
  <2>2. snapshot[s] \in Document
    BY <1>2, TypeNext DEF Kept, TypeOK, Snapshot
  <2> QED
    BY <1>1, <2>1, <2>2 DEF Dated, Document
<1>3. ASSUME NEW t \in Task, NEW s \in Session
      PROVE  view'[t][s].version =< newest'[s]
  <2>1. view[t][s].version =< newest[s] /\ view[t][s].version \in Nat
    BY DEF DocumentsInv, TypeOK, View
  <2>2. \A v \in Server : Merged(v)[s].version =< newest[s] /\ Merged(v)[s].version \in Nat
    BY MergedKnown, MergedType DEF View
  <2>3. \/ view'[t] = view[t] \/ view'[t] = NoViews \/ \E v \in Server : view'[t] = Merged(v)
    BY ViewsNext
  <2>4. NoViews[s].version = 0
    BY DEF NoViews, NoView
  <2> QED
    BY <1>1, <2>1, <2>2, <2>3, <2>4
<1>4. \A s \in Session : archive'[s] =< newest'[s]
  <2>1. \A s \in Session : archive[s] \in Nat /\ archive[s] =< newest[s]
    BY DEF DocumentsInv, TypeOK
  <2> QED
    BY <1>1, <2>1, SessionsGrow
<1>5. ASSUME NEW t \in Task, pc'[t] = "load", NEW s \in todo'[t]
      PROVE  view'[t][s] # NoView
  BY <1>5, ViewsNext DEF DocumentsInv
<1> QED
  BY <1>2, <1>3, <1>4, <1>5 DEF DocumentsInv

LEMMA DocumentsInit == Init => DocumentsInv
<1> SUFFICES ASSUME Init PROVE DocumentsInv
  OBVIOUS
<1> USE Constants
<1>1. \A snapshot : Kept(snapshot) => snapshot = Empty
  BY DEF Init, Kept
<1>2. \A s \in Session : newest[s] \in {0, 1} /\ archive[s] = 0
  BY DEF Init
<1>3. ASSUME NEW s \in Session
      PROVE  Dated(Empty[s], s)
  <2>1. newest[s] >= 0 /\ Empty[s] = NoDocument
    BY <1>2 DEF Empty
  <2> QED
    BY <2>1 DEF Dated, NoDocument, NoView
<1>4. \A t \in Task : view[t] = NoViews /\ todo[t] = {}
  BY DEF Init
<1> QED
  BY <1>1, <1>2, <1>3, <1>4 DEF DocumentsInv, NoViews, NoView

\* Wherever a document is kept, its text is not older than its fingerprint:
\* transcripts are read after the views they are asked for by (mcp.rs,
\* sync_runtime; search_index.rs, from_merged).
THEOREM TextsAreVouched == Spec => []DocumentsVouched
<1>1. TypeOK /\ DocumentsInv /\ [Next]_vars => DocumentsInv'
  BY DocumentsNext
<1>2. DocumentsInv => DocumentsVouched
  BY DEF DocumentsInv, Dated, Kept, DocumentsVouched, Vouched
<1> QED
  BY <1>1, <1>2, DocumentsInit, TypeCorrect, PTL DEF Spec

-----------------------------------------------------------------------------
(* Whose runtime a request uses.                                           *)

Opening(r) == pc[r] \in {"open", "fetch", "fetched"}
Using(r) == pc[r] \in {"plan", "load", "answer"}

\* A request that is about to create a runtime has none that others use.
RuntimesOwned ==
    /\ \A v \in Server : indexes[v] # None => ServerOf[indexes[v]] = v
    /\ \A r \in Request : Using(r) =>
          ServerOf[uses[r]] = ServerOf[r] /\ indexes[ServerOf[r]] # None
    /\ \A q \in Request : Opening(q) =>
          /\ \A v \in Server : indexes[v] # q
          /\ \A r \in Request : Using(r) => uses[r] # q

\* A step that keeps runtimes and only ends requests or lets them go on.
LEMMA OwnedKept ==
  ASSUME TypeOK, RuntimesOwned, UNCHANGED indexes,
         \A q \in Request : Opening(q)' => Opening(q),
         \A q \in Request : Using(q)' => Using(q) /\ uses'[q] = uses[q]
  PROVE  RuntimesOwned'
  BY DEF RuntimesOwned

LEMMA OwnedRemember ==
  ASSUME TypeOK, RuntimesOwned, NEW r \in Request, Opening(r), NEW docs, remember_runtime(r, docs)
  PROVE  RuntimesOwned'
<1> USE ServerAssumption, Constants
<1>1. /\ indexes' = [indexes EXCEPT ![ServerOf[r]] = r] /\ uses' = [uses EXCEPT ![r] = r]
      /\ pc' = [pc EXCEPT ![r] = "plan"]
  BY DEF remember_runtime, Goes
<1>2. \A q \in Request \ {r} : pc'[q] = pc[q] /\ uses'[q] = uses[q]
  BY <1>1 DEF TypeOK
<1>3. pc'[r] = "plan" /\ uses'[r] = r
  BY <1>1 DEF TypeOK
<1>4. \A v \in Server : indexes'[v] = IF v = ServerOf[r] THEN r ELSE indexes[v]
  BY <1>1 DEF TypeOK
<1>5. \A v \in Server : indexes'[v] # None => ServerOf[indexes'[v]] = v
  BY <1>4 DEF RuntimesOwned
<1>6. \A q \in Request : Using(q)' =>
         ServerOf[uses'[q]] = ServerOf[q] /\ indexes'[ServerOf[q]] # None
  BY <1>2, <1>3, <1>4 DEF RuntimesOwned, Using
<1>7. ASSUME NEW q \in Request, Opening(q)'
      PROVE  /\ \A v \in Server : indexes'[v] # q
             /\ \A x \in Request : Using(x)' => uses'[x] # q
  <2>1. q # r /\ Opening(q)
    BY <1>2, <1>3, <1>7 DEF Opening
  <2> QED
    BY <1>2, <1>3, <1>4, <2>1 DEF RuntimesOwned, Using
<1> QED
  BY <1>5, <1>6, <1>7 DEF RuntimesOwned

LEMMA OwnedRequest ==
  ASSUME TypeOK, RuntimesOwned, NEW r \in Request, RequestStep(r)
  PROVE  RuntimesOwned'
<1> USE ServerAssumption, Constants
<1>1. CASE Find(r)
  <2> DEFINE found == indexes[ServerOf[r]]
  <2>1. /\ UNCHANGED indexes /\ pc[r] = "find"
        /\ \A q \in Request \ {r} : pc'[q] = pc[q] /\ uses'[q] = uses[q]
    BY <1>1 DEF Find, Goes, TypeOK
  <2>2. CASE found = None
    <3>1. pc'[r] = "open" /\ uses' = uses
      BY <1>1, <2>2 DEF Find, Goes, TypeOK
    <3>2. \A v \in Server : indexes[v] # r
      BY <2>2 DEF RuntimesOwned
    <3>3. \A q \in Request : Using(q)' => Using(q) /\ uses'[q] = uses[q]
      BY <2>1, <3>1 DEF Using
    <3>4. \A q \in Request : Using(q) => uses[q] # r
      BY <2>2 DEF RuntimesOwned
    <3>5. \A q \in Request : Opening(q)' => q = r \/ Opening(q)
      BY <2>1 DEF Opening
    <3> QED
      BY <2>1, <3>2, <3>3, <3>4, <3>5 DEF RuntimesOwned
  <2>3. CASE found # None
    <3>1. pc'[r] = "plan" /\ uses'[r] = found
      BY <1>1, <2>3 DEF Find, Goes, TypeOK
    <3>2. ServerOf[found] = ServerOf[r] /\ ServerOf[r] \in Server
      BY <2>3 DEF RuntimesOwned
    <3>3. \A q \in Request : Using(q)' => q = r \/ (Using(q) /\ uses'[q] = uses[q])
      BY <2>1 DEF Using
    <3>4. \A q \in Request : Opening(q)' => Opening(q) /\ q # r
      BY <2>1, <3>1 DEF Opening
    <3>5. \A q \in Request : Opening(q) => found # q
      BY <3>2 DEF RuntimesOwned
    <3>6. \A q \in Request : Using(q)' =>
             ServerOf[uses'[q]] = ServerOf[q] /\ indexes'[ServerOf[q]] # None
      BY <2>1, <2>3, <3>1, <3>2, <3>3 DEF RuntimesOwned
    <3>7. \A q, x \in Request : Opening(q)' /\ Using(x)' => uses'[x] # q
      BY <3>1, <3>3, <3>4, <3>5 DEF RuntimesOwned
    <3> HIDE DEF found
    <3> QED
      BY <2>1, <3>4, <3>6, <3>7 DEF RuntimesOwned
  <2> QED
    BY <2>2, <2>3
<1>2. ASSUME Opening(r), NEW docs, remember_runtime(r, docs)
      PROVE  RuntimesOwned'
  BY <1>2, OwnedRemember
<1>3. CASE Begin(r) \/ Plan(r) \/ Load(r) \/ SkipUnreadable(r)
           \/ (Open(r) /\ pc'[r] # "plan") \/ (Fetch(r) /\ pc'[r] # "plan")
           \/ Apply(r, TRUE) \/ Apply(r, FALSE)
  <2>1. /\ UNCHANGED <<indexes, uses>>
        /\ \/ UNCHANGED pc
           \/ pc[r] = "idle" /\ pc' = [pc EXCEPT ![r] = "find"]
           \/ Using(r) /\ \E x \in {"load", "answer"} : pc' = [pc EXCEPT ![r] = x]
           \/ Opening(r) /\ \E x \in {"fetch", "fetched"} : pc' = [pc EXCEPT ![r] = x]
    BY <1>3 DEF Begin, Plan, Load, SkipUnreadable, Open, Fetch, Apply, Goes, Opening, Using,
                task, remember_runtime, TypeOK
  <2> QED
    BY <2>1, OwnedKept DEF Opening, Using, TypeOK
<1>4. CASE Answer(r)
  BY <1>4, OwnedKept DEF Answer, Ends, Opening, Using
<1>5. CASE (Open(r) \/ Fetch(r)) /\ pc'[r] = "plan"
  <2>1. pc' # [pc EXCEPT ![r] = "fetch"] /\ pc' # [pc EXCEPT ![r] = "fetched"]
    BY <1>5 DEF TypeOK
  <2> QED
    BY <1>2, <1>5, <2>1 DEF Open, Fetch, Goes, Opening
<1>6. CASE Download(r) \/ DownloadFails(r)
  BY <1>2, <1>6 DEF Download, DownloadFails, Opening
<1> QED
  BY <1>1, <1>3, <1>4, <1>5, <1>6 DEF RequestStep, Step

LEMMA OwnedNext ==
  ASSUME TypeOK, RuntimesOwned, [Next]_vars
  PROVE  RuntimesOwned'
<1> USE ServerAssumption, Constants
<1>1. CASE BuildStart \/ BuildStep
  <2>1. /\ UNCHANGED indexes
        /\ \A q \in Request : pc'[q] = pc[q] /\ uses'[q] = uses[q]
    BY <1>1 DEF BuildStart, BuildStep, Load, BuildSave, BuildPublish, BuildFails, Goes, Ends,
                task, TypeOK
  <2> QED
    BY <2>1, OwnedKept DEF Opening, Using
<1>2. ASSUME NEW v \in Server, Restart(v)
      PROVE  RuntimesOwned'
  <2>1. indexes' = [indexes EXCEPT ![v] = None]
    BY <1>2 DEF Restart
  <2>2. \A q \in Request : pc'[q] = "idle" \/ (ServerOf[q] # v /\ pc'[q] = pc[q] /\ uses'[q] = uses[q])
    BY <1>2 DEF Restart, Ends
  <2>3. \A x \in Server : indexes'[x] = IF x = v THEN None ELSE indexes[x]
    BY <2>1 DEF TypeOK
  <2>4. \A q \in Request : Using(q)' => Using(q) /\ uses'[q] = uses[q] /\ ServerOf[q] # v
    BY <2>2 DEF Using
  <2>5. \A q \in Request : Opening(q)' => Opening(q)
    BY <2>2 DEF Opening
  <2> QED
    BY <2>3, <2>4, <2>5 DEF RuntimesOwned
<1>3. CASE UNCHANGED <<indexes, pc, uses>>
  BY <1>3, OwnedKept DEF Opening, Using
<1> QED
  BY <1>1, <1>2, <1>3, OwnedRequest
     DEF Next, vars, Publish, PublishFails, Change, Edit, Remove, Ingest, task

-----------------------------------------------------------------------------
(* What a request finds of its undisturbed sessions.                       *)

Documents(r) == runtime[uses[r]].documents

\* While the plan is carried out, a session has been read, is still to be read,
\* goes, or is as the view says.
Planned(r, s) ==
    /\ \/ held[r][s] # NoDocument /\ held[r][s].fingerprint = view[r][s]
       \/ held[r][s] = NoDocument /\ s \in todo[r]
       \/ held[r][s] = NoDocument /\ s \in removes[r] /\ view[r][s] = NoView
       \/ held[r][s] = NoDocument /\ s \notin removes[r]
            /\ Documents(r)[s].fingerprint = view[r][s]
    /\ s \in todo[r] => view[r][s] # NoView

Found(r, s) == Documents(r)[s].fingerprint = view[r][s]

PlanHolds(r, s) ==
    /\ pc[r] = "load" => Planned(r, s)
    /\ pc[r] = "answer" => Found(r, s)

PlansHold == \A r \in Request : \A s \in undisturbed[r] : PlanHolds(r, s)

\* What a step leaves alone of a request, for a session of it.
Alone(r, s) ==
    /\ pc'[r] = pc[r] /\ view'[r][s] = view[r][s] /\ held'[r][s] = held[r][s]
    /\ (s \in todo'[r] <=> s \in todo[r]) /\ (s \in removes'[r] <=> s \in removes[r])
    /\ Documents(r)'[s] = Documents(r)[s]

\* A step keeps what a request holds of an undisturbed session if it leaves
\* these, and the document of the session, alone.
LEMMA PlansKept ==
  ASSUME PlansHold, NEW r \in Request, NEW s \in undisturbed'[r],
         pc'[r] \in {"load", "answer"} => s \in undisturbed[r] /\ Alone(r, s)
  PROVE  PlanHolds(r, s)'
<1> SUFFICES ASSUME pc'[r] \in {"load", "answer"}
             PROVE  PlanHolds(r, s)'
  BY DEF PlanHolds
<1>1. PlanHolds(r, s) /\ Alone(r, s)
  BY DEF PlansHold
<1> QED
  BY <1>1 DEF PlanHolds, Planned, Found, Alone

\* The usual case: the step leaves the whole request and its runtime alone.
LEMMA PlansLeft ==
  ASSUME PlansHold, NEW r \in Request, NEW s \in undisturbed'[r],
         pc'[r] \in {"load", "answer"} =>
            /\ s \in undisturbed[r] /\ pc'[r] = pc[r]
            /\ view'[r] = view[r] /\ held'[r] = held[r] /\ todo'[r] = todo[r]
            /\ removes'[r] = removes[r] /\ uses'[r] = uses[r]
            /\ runtime'[uses[r]] = runtime[uses[r]]
  PROVE  PlanHolds(r, s)'
BY PlansKept DEF Alone, Documents

LEMMA PlansRemember ==
  ASSUME TypeOK, RuntimesOwned, PlansHold, NEW q \in Request, Opening(q),
         NEW docs, remember_runtime(q, docs)
  PROVE  PlansHold'
<1> SUFFICES ASSUME NEW r \in Request, NEW s \in undisturbed'[r]
             PROVE  PlanHolds(r, s)'
  BY DEF PlansHold
<1> USE Constants
<1>1. pc' = [pc EXCEPT ![q] = "plan"]
  BY DEF remember_runtime, Goes
<1>2. CASE r = q
  BY <1>1, <1>2 DEF TypeOK, PlanHolds
<1>3. CASE r # q
  <2>1. /\ pc'[r] = pc[r] /\ held'[r] = held[r] /\ uses'[r] = uses[r]
        /\ UNCHANGED <<view, todo, removes, undisturbed>>
    BY <1>1, <1>3 DEF remember_runtime, TypeOK
  <2>2. pc[r] \in {"load", "answer"} => uses[r] # q
    BY DEF RuntimesOwned, Using
  <2>3. pc[r] \in {"load", "answer"} => runtime'[uses[r]] = runtime[uses[r]]
    BY <2>2 DEF remember_runtime, TypeOK
  <2> QED
    BY <2>1, <2>3, PlansLeft
<1> QED
  BY <1>2, <1>3

LEMMA PlansPlan ==
  ASSUME TypeOK, PlansHold, NEW q \in Request, Plan(q)
  PROVE  PlansHold'
<1> SUFFICES ASSUME NEW r \in Request, NEW s \in undisturbed'[r]
             PROVE  PlanHolds(r, s)'
  BY DEF PlansHold
<1> USE Constants
<1>1. CASE r = q
  <2>1. /\ pc'[r] = "load" /\ held'[r] = Empty
        /\ removes'[r] = {x \in Session : Documents(r)[x] # NoDocument /\ view[r][x] = NoView}
        /\ todo'[r] = {x \in Session : view[r][x] # NoView
                                         /\ Documents(r)[x].fingerprint # view[r][x]}
        /\ UNCHANGED <<view, uses, runtime, undisturbed>>
    BY <1>1 DEF Plan, Goes, Changes, Documents, TypeOK
  <2>2. NoDocument.fingerprint = NoView /\ s \in Session
    BY <2>1 DEF NoDocument, TypeOK
  <2>3. Planned(r, s)'
    BY <2>1, <2>2 DEF Planned, Documents, Empty
  <2> QED
    BY <2>1, <2>3 DEF PlanHolds
<1>2. CASE r # q
  <2>1. /\ pc'[r] = pc[r] /\ held'[r] = held[r] /\ removes'[r] = removes[r] /\ todo'[r] = todo[r]
        /\ UNCHANGED <<view, uses, runtime, undisturbed>>
    BY <1>2 DEF Plan, Goes, TypeOK
  <2> QED
    BY <2>1, PlansLeft
<1> QED
  BY <1>1, <1>2

LEMMA PlansLoad ==
  ASSUME TypeOK, PlansHold, NEW q \in Task, Load(q)
  PROVE  PlansHold'
<1> SUFFICES ASSUME NEW r \in Request, NEW s \in undisturbed'[r]
             PROVE  PlanHolds(r, s)'
  BY DEF PlansHold
<1> USE Constants
<1>1. PICK x \in todo[q] : held' = [held EXCEPT ![q][x] = Indexed(view[q][x], x)]
                           /\ todo' = [todo EXCEPT ![q] = @ \ {x}]
  BY DEF Load
<1>2. UNCHANGED <<pc, view, removes, uses, undisturbed, runtime>>
  BY DEF Load
<1>3. s \in Session /\ s \in undisturbed[r]
  BY <1>2 DEF TypeOK
<1>4. CASE r = q /\ s = x
  <2>1. pc[r] = "load" /\ Planned(r, s)
    BY <1>3, <1>4 DEF Load, PlansHold, PlanHolds
  <2>2. s \notin todo'[r] /\ held'[r][s] = Indexed(view[r][s], s)
    BY <1>1, <1>3, <1>4 DEF TypeOK, Snapshot
  <2>3. view[r][s] # NoView
    BY <1>1, <1>4, <2>1 DEF Planned
  <2>4. /\ Indexed(view[r][s], s) # NoDocument
        /\ Indexed(view[r][s], s).fingerprint = view[r][s]
    BY <2>3 DEF Indexed, NoDocument
  <2>5. Planned(r, s)'
    BY <1>2, <2>2, <2>4 DEF Planned
  <2> QED
    BY <1>2, <2>1, <2>5 DEF PlanHolds
<1>5. CASE r # q \/ s # x
  <2>1. held'[r][s] = held[r][s] /\ (s \in todo'[r] <=> s \in todo[r])
    BY <1>1, <1>3, <1>5 DEF TypeOK, Snapshot
  <2> QED
    BY <1>2, <1>3, <2>1, PlansKept DEF Alone, Documents
<1> QED
  BY <1>4, <1>5

\* A runtime that another request changes is the same for a session that stays
\* undisturbed.
LEMMA PlansApply ==
  ASSUME TypeOK, PlansHold, NEW q \in Request, NEW saves \in BOOLEAN, Apply(q, saves)
  PROVE  PlansHold'
<1> SUFFICES ASSUME NEW r \in Request, NEW s \in undisturbed'[r]
             PROVE  PlanHolds(r, s)'
  BY DEF PlansHold
<1> USE Constants
<1>1. /\ pc[q] = "load" /\ todo[q] = {} /\ pc' = [pc EXCEPT ![q] = "answer"]
      /\ held' = [held EXCEPT ![q] = Empty] /\ removes' = [removes EXCEPT ![q] = {}]
      /\ UNCHANGED <<view, todo, uses>>
  BY DEF Apply, Goes
<1>2. /\ s \in undisturbed[r]
      /\ r = q \/ pc[r] \notin {"load", "answer"} \/ uses[r] # uses[q] \/ s \notin Rewritten(q)
  BY DEF Apply
<1>3. s \in Session /\ uses[q] \in Request /\ uses[r] \in Request
  BY <1>2 DEF TypeOK
<1>4. \A u \in Request : runtime'[u].documents = IF u = uses[q] THEN Updated(q)
                                                                 ELSE runtime[u].documents
  <2>1. PICK dirty : runtime' = [runtime EXCEPT ![uses[q]] =
                                   [documents |-> Updated(q), dirty |-> dirty]]
    BY DEF Apply
  <2> HIDE DEF Updated
  <2> QED
    BY <1>3, <2>1 DEF TypeOK
<1>5. CASE r = q
  <2>1. pc'[r] = "answer" /\ Documents(r)'[s] = Updated(r)[s]
    BY <1>1, <1>3, <1>4, <1>5 DEF Documents, TypeOK
  <2>2. Planned(r, s)
    BY <1>1, <1>2, <1>5 DEF PlansHold, PlanHolds
  <2>3. Updated(r)[s].fingerprint = view[r][s]
    <3>1. NoDocument.fingerprint = NoView
      BY DEF NoDocument
    <3> QED
      BY <1>1, <1>3, <1>5, <2>2, <3>1 DEF Planned, Updated, Documents
  <2> QED
    BY <1>1, <2>1, <2>3 DEF PlanHolds, Found
<1>6. CASE r # q
  <2>1. pc'[r] = pc[r] /\ held'[r] = held[r] /\ removes'[r] = removes[r]
    BY <1>1, <1>6 DEF TypeOK
  <2>2. pc[r] \in {"load", "answer"} => Documents(r)'[s] = Documents(r)[s]
    <3>1. s \notin Rewritten(q) => Updated(q)[s] = runtime[uses[q]].documents[s]
      BY <1>3 DEF Rewritten
    <3> HIDE DEF Updated
    <3> QED
      BY <1>1, <1>2, <1>3, <1>4, <1>6, <3>1 DEF Documents
  <2> QED
    BY <1>1, <1>2, <2>1, <2>2, PlansKept DEF Alone
<1> QED
  BY <1>5, <1>6

\* A session that is skipped is undisturbed no more; the others wait on.
LEMMA PlansSkip ==
  ASSUME TypeOK, PlansHold, NEW q \in Request, SkipUnreadable(q)
  PROVE  PlansHold'
<1> SUFFICES ASSUME NEW r \in Request, NEW s \in undisturbed'[r]
             PROVE  PlanHolds(r, s)'
  BY DEF PlansHold
<1> USE Constants
<1>1. PICK x \in todo[q] : todo' = [todo EXCEPT ![q] = @ \ {x}]
                           /\ undisturbed' = [undisturbed EXCEPT ![q] = @ \ {x}]
  BY DEF SkipUnreadable
<1>2. UNCHANGED <<pc, view, removes, held, uses, runtime>>
  BY DEF SkipUnreadable
<1>3. s \in undisturbed[r] /\ (r # q \/ s # x)
  BY <1>1 DEF TypeOK
<1>4. s \in todo'[r] <=> s \in todo[r]
  BY <1>1, <1>3 DEF TypeOK
<1> QED
  BY <1>2, <1>3, <1>4, PlansKept DEF Alone, Documents

LEMMA PlansRequest ==
  ASSUME TypeOK, RuntimesOwned, PlansHold, NEW q \in Request, RequestStep(q)
  PROVE  PlansHold'
<1> USE Constants
<1>1. ASSUME \E x : x \notin {"load", "answer"} /\ pc' = [pc EXCEPT ![q] = x],
             \A r \in Request \ {q} :
                /\ view'[r] = view[r] /\ held'[r] = held[r] /\ todo'[r] = todo[r]
                /\ removes'[r] = removes[r] /\ uses'[r] = uses[r]
                /\ undisturbed'[r] = undisturbed[r],
             UNCHANGED runtime
      PROVE  PlansHold'
  <2>1. ASSUME NEW r \in Request, NEW s \in undisturbed'[r]
        PROVE  PlanHolds(r, s)'
    <3>1. CASE r = q
      BY <1>1, <3>1 DEF TypeOK, PlanHolds
    <3>2. CASE r # q
      BY <1>1, <2>1, <3>2, PlansLeft DEF TypeOK
    <3> QED
      BY <3>1, <3>2
  <2> QED
    BY <2>1 DEF PlansHold
<1>2. CASE Begin(q)
  BY <1>1, <1>2 DEF Begin, Goes, TypeOK
<1>3. CASE Find(q)
  BY <1>1, <1>3 DEF Find, Goes, TypeOK
<1>4. CASE Open(q)
  <2>1. CASE \E snapshot : remember_runtime(q, snapshot)
    BY <1>4, <2>1, PlansRemember DEF Open, Opening
  <2>2. CASE Goes(q, "fetch") /\ UNCHANGED <<runtime, task>>
    BY <1>1, <2>2 DEF Goes, task
  <2> QED
    BY <1>4, <2>1, <2>2 DEF Open
<1>5. CASE Fetch(q)
  <2>1. CASE remember_runtime(q, Empty)
    BY <1>5, <2>1, PlansRemember DEF Fetch, Opening
  <2>2. ASSUME NEW snapshot, held' = [held EXCEPT ![q] = snapshot], Goes(q, "fetched"),
               UNCHANGED <<runtime, view, removes, todo, uses, undisturbed>>
        PROVE  PlansHold'
    <3>1. \A r \in Request \ {q} : held'[r] = held[r]
      BY <2>2 DEF TypeOK
    <3> QED
      BY <1>1, <2>2, <3>1 DEF Goes
  <2> QED
    BY <1>5, <2>1, <2>2 DEF Fetch
<1>6. CASE Download(q) \/ DownloadFails(q)
  BY <1>6, PlansRemember DEF Download, DownloadFails, Opening
<1>7. CASE Answer(q)
  <2>1. \A r \in Request : \A s \in undisturbed'[r] :
          /\ r # q /\ s \in undisturbed[r] /\ pc'[r] = pc[r]
          /\ view'[r] = view[r] /\ held'[r] = held[r] /\ todo'[r] = todo[r]
          /\ removes'[r] = removes[r] /\ uses'[r] = uses[r] /\ runtime' = runtime
    BY <1>7 DEF Answer, Ends
  <2> QED
    BY <2>1, PlansLeft DEF PlansHold
<1> QED
  BY <1>2, <1>3, <1>4, <1>5, <1>6, <1>7, PlansPlan, PlansLoad, PlansApply, PlansSkip
     DEF RequestStep, Step

LEMMA PlansNext ==
  ASSUME TypeOK, RuntimesOwned, PlansHold, [Next]_vars
  PROVE  PlansHold'
<1> USE Constants
<1>1. ASSUME \A r \in Request : \A s \in undisturbed'[r] :
                /\ s \in undisturbed[r] /\ pc'[r] = pc[r]
                /\ view'[r] = view[r] /\ held'[r] = held[r] /\ todo'[r] = todo[r]
                /\ removes'[r] = removes[r] /\ uses'[r] = uses[r],
             UNCHANGED runtime
      PROVE  PlansHold'
  BY <1>1, PlansLeft DEF PlansHold
<1>2. CASE BuildStart
  BY <1>1, <1>2, ServerAssumption DEF BuildStart, Goes, TypeOK
<1>3. CASE BuildSave
  BY <1>1, <1>3, ServerAssumption DEF BuildSave, Goes, task, TypeOK
<1>4. CASE BuildPublish \/ BuildFails
  BY <1>1, <1>4, ServerAssumption DEF BuildPublish, BuildFails, Ends
<1>5. ASSUME NEW v \in Server, Restart(v)
      PROVE  PlansHold'
  BY <1>1, <1>5 DEF Restart, Ends
<1>6. CASE UNCHANGED <<runtime, pc, task>>
  BY <1>1, <1>6 DEF task
<1> QED
  BY <1>2, <1>3, <1>4, <1>5, <1>6, PlansRequest, PlansLoad
     DEF Next, BuildStep, vars, Publish, PublishFails, Change, Edit, Remove, Ingest

\* A request searches exactly its views of the sessions whose transcript could be
\* read and whose document no other request changed meanwhile (mcp.rs,
\* sync_runtime).
THEOREM AnswersMatch == Spec => []AnswerMatchesViews
<1>1. Init => RuntimesOwned /\ PlansHold
  BY Constants DEF Init, RuntimesOwned, PlansHold, Using, Opening
<1>2. TypeOK /\ RuntimesOwned /\ PlansHold /\ [Next]_vars => RuntimesOwned' /\ PlansHold'
  BY OwnedNext, PlansNext
<1>3. PlansHold => AnswerMatchesViews
  BY DEF PlansHold, PlanHolds, Found, Documents, AnswerMatchesViews
<1> QED
  BY <1>1, <1>2, <1>3, TypeCorrect, PTL DEF Spec

\* Where its view is what it would be now, such a request searches the text the
\* session has now: a fingerprint stands for one text of the archive, and for
\* none of a local session that is older (mcp.rs, sync_runtime;
\* search_index.rs, changes).
THEOREM AnswersAreCurrent == Spec => []AnswerIsCurrent
<1>1. Init => RuntimesOwned /\ PlansHold
  BY Constants DEF Init, RuntimesOwned, PlansHold, Using, Opening
<1>2. TypeOK /\ RuntimesOwned /\ PlansHold /\ [Next]_vars => RuntimesOwned' /\ PlansHold'
  BY OwnedNext, PlansNext
<1>3. TypeOK /\ DocumentsInv /\ [Next]_vars => DocumentsInv'
  BY DocumentsNext
<1>4. TypeOK /\ DocumentsInv /\ PlansHold => AnswerIsCurrent
  <2> SUFFICES ASSUME TypeOK, DocumentsInv, PlansHold, NEW r \in Request, pc[r] = "answer",
                      NEW s \in undisturbed[r], view[r][s] = Merged(ServerOf[r])[s]
               PROVE  Documents(r)[s].body = view[r][s].version
    BY DEF AnswerIsCurrent, Documents
  <2> s \in Session
    BY DEF TypeOK
  <2>1. Documents(r)[s].fingerprint = view[r][s]
    BY DEF PlansHold, PlanHolds, Found
  <2>2. Dated(Documents(r)[s], s) /\ Documents(r)[s] \in Document
    <3>1. Kept(Documents(r)) /\ Documents(r) \in Snapshot
      BY DEF Documents, Kept, TypeOK
    <3> QED
      BY <3>1 DEF DocumentsInv, Snapshot
  <2>3. \/ view[r][s].pick = "Local" /\ view[r][s].version = newest[s]
        \/ view[r][s].pick = "Remote"
        \/ view[r][s] = NoView
    BY DEF Merged
  <2>4. newest[s] \in Nat
    BY DEF TypeOK
  <2> QED
    BY <2>1, <2>2, <2>3, <2>4 DEF Dated, Document, View, NoView
<1> QED
  BY <1>1, <1>2, <1>3, <1>4, DocumentsInit, TypeCorrect, PTL DEF Spec

=============================================================================
