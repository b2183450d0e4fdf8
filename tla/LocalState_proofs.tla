-------------------------- MODULE LocalState_proofs --------------------------
(***************************************************************************)
(* What the records of local sessions promise, for any number of processes *)
(* that replace each other's file, of sites and of sources.  The argument: *)
(* fingerprints are taken before what they stand for, and versions only    *)
(* grow, so a fingerprint that is still current stands for what is there.  *)
(***************************************************************************)
EXTENDS LocalState, TLAPS

\* A record of a body that nobody read is broken; of a body that was read, it
\* is if and only if that cannot be parsed.  One that waits, waits for a
\* directory.
Tells(s, r) ==
    r # None =>
        IF r.body = Unread
          THEN r.state = "broken"
          ELSE /\ r.state = "broken" <=> Cwd[s][r.body] = Garbled
               /\ r.state = "pending" => Cwd[s][r.body] \in Dir

\* A fingerprint is no newer than the source, nor than the body read under it;
\* the fingerprint of a database is no newer than the database.
StateGood(st, v) ==
    /\ st \in StateType
    /\ \A s \in Source : st.record[s] # None =>
          /\ st.record[s].fp =< v[s]
          /\ \/ st.record[s].body = Unread
             \/ st.record[s].fp =< st.record[s].body /\ st.record[s].body =< v[s]
    /\ \A s \in Source : Tells(s, st.record[s])
    /\ \A s \in Source : SiteOf[s] \in Db /\ st.seen[SiteOf[s]] # None =>
          st.seen[SiteOf[s]][s] =< v[s]

StampOf(v, w) == [s \in Source |-> IF SiteOf[s] = w THEN v[s] ELSE 0]

\* DatabaseVouches of one state, for versions v of which those in t exist.
Vouches(st, v, t) ==
    \A s \in Source :
        SiteOf[s] \in Db /\ st.seen[SiteOf[s]] = StampOf(v, SiteOf[s]) /\ s \notin st.passed
            => IF s \in t THEN Carries(st, s, v[s]) ELSE st.record[s] = None

\* The scan of a site: its database is not recorded as seen, and as far as a
\* row is still as it was when the fingerprint was taken, the listing and the
\* records considered so far are those of now, or the row is passed over.
ScanGood(d, st, v, t) ==
    /\ d.at \in Db => st.seen[d.at] # StampOf(v, d.at)
    /\ \A s \in Source : SiteOf[s] = d.at /\ d.held[s] = v[s] =>
          \/ d.walk[s] = IF s \in t THEN v[s] ELSE 0
          \/ d.walk[s] = 0 /\ s \in st.passed
    /\ \A s \in Source : SiteOf[s] \in Db /\ SiteOf[s] = d.at /\ d.walk[s] # 0 /\ s \notin d.todo =>
          s \in st.passed \/ Carries(st, s, d.walk[s])

\* A listing lists the sources of the site the diff has come to.
ListGood(d) ==
    /\ d.at \in Sites
    /\ \A s \in Source : SiteOf[s] # d.at => d.walk[s] = 0
    /\ \A s \in d.todo : d.walk[s] # 0

DiffType == [at : 0 .. SiteCount + 1, sites : SUBSET Sites,
             walk : StampType, held : StampType, todo : SUBSET Source]

\* What is known of a diff at the step pc.
DiffGood(d, c, st, v, t) ==
    /\ d \in DiffType
    /\ \A s \in Source : d.walk[s] =< v[s] /\ d.held[s] =< v[s]
    /\ c = "discover" => d.at \in Db /\ st.seen[d.at] # StampOf(v, d.at)
    /\ c = "load" => ListGood(d)
    /\ c = "load" /\ d.at \in Db => ScanGood(d, st, v, t)
    /\ c = "pending" => \A s \in d.todo : st.record[s] # None

Outer ==
    /\ version \in StampType
    /\ there \subseteq Source
    /\ locked \subseteq Source
    /\ present \subseteq Sites
    /\ origin \in [Dir -> {"key", "none", "gone"}]
    /\ changes \in 0 .. MaxChanges
    /\ \A s \in there : version[s] # 0

Inner ==
    /\ mem \in [Process -> StateType]
    /\ dirty \in [Process -> BOOLEAN]
    /\ pc \in [Process -> {"off", "idle", "walk", "discover", "load", "pending"}]
    /\ diff \in [Process -> DiffType]
    /\ still \in [Process -> SUBSET Source]

\* The inductive invariant.
Inv ==
    /\ Outer
    /\ Inner
    /\ StateGood(disk, version) /\ Vouches(disk, version, there)
    /\ \A p \in Process :
         /\ StateGood(mem[p], version) /\ Vouches(mem[p], version, there)
         /\ DiffGood(diff[p], pc[p], mem[p], version, there)

-----------------------------------------------------------------------------
(* One state                                                               *)

LEMMA EmptyGood ==
  ASSUME NEW v \in StampType, NEW t
  PROVE  StateGood(Empty, v) /\ Vouches(Empty, v, t)
<1>1. Empty \in StateType
  BY DEF Empty, StateType
<1>2. \A w \in Sites : StampOf(v, w) \in StampType
  BY VersionAssumption DEF StampOf, StampType
<1>3. StateGood(Empty, v)
  BY <1>1, SiteAssumption DEF StateGood, Empty, Tells
<1>4. Vouches(Empty, v, t)
  BY <1>2, NoneAssumption, SiteAssumption DEF Vouches, Empty
<1> QED
  BY <1>3, <1>4

\* A database that was not seen as it is stays so when its rows grow older.
LEMMA StaysUnseen ==
  ASSUME NEW v \in StampType, NEW v2 \in StampType, NEW st, StateGood(st, v),
         NEW s \in Source, v2[s] > v[s], \A r \in Source \ {s} : v2[r] = v[r],
         NEW w \in Db, st.seen[w] # StampOf(v, w)
  PROVE  st.seen[w] # StampOf(v2, w)
<1>1. CASE SiteOf[s] = w
  <2> SUFFICES ASSUME st.seen[w] = StampOf(v2, w) PROVE FALSE
    OBVIOUS
  <2>1. st.seen[w] # None
    <3>1. StampOf(v2, w) \in StampType
      BY VersionAssumption DEF StampOf, StampType
    <3> QED
      BY <3>1, NoneAssumption
  <2>2. st.seen[w][s] =< v[s]
    BY <1>1, <2>1 DEF StateGood
  <2>3. st.seen[w][s] = v2[s]
    BY <1>1 DEF StampOf
  <2> QED
    BY <2>2, <2>3, VersionAssumption DEF StampType
<1>2. CASE SiteOf[s] # w
  <2>1. StampOf(v2, w) = StampOf(v, w)
    BY <1>2 DEF StampOf
  <2> QED
    BY <2>1
<1> QED
  BY <1>1, <1>2

\* A state stays good when a source is edited or removed.
LEMMA GrowGood ==
  ASSUME NEW v \in StampType, NEW v2 \in StampType, NEW t, NEW t2,
         NEW st, StateGood(st, v), Vouches(st, v, t),
         NEW s \in Source, v2[s] > v[s], \A r \in Source \ {s} : v2[r] = v[r],
         \A r \in Source \ {s} : r \in t <=> r \in t2
  PROVE  StateGood(st, v2) /\ Vouches(st, v2, t2)
<1>1. \A r \in Source : v[r] =< v2[r] /\ v[r] \in Nat /\ v2[r] \in Nat
  <2> TAKE r \in Source
  <2>1. v[r] \in Nat /\ v2[r] \in Nat
    BY VersionAssumption DEF StampType
  <2>2. CASE r = s
    BY <2>1, <2>2
  <2>3. CASE r # s
    BY <2>1, <2>3
  <2> QED
    BY <2>1, <2>2, <2>3
<1>2. StateGood(st, v2)
  <2>1. ASSUME NEW r \in Source, st.record[r] # None
        PROVE  /\ st.record[r].fp =< v2[r]
               /\ \/ st.record[r].body = Unread
                  \/ st.record[r].fp =< st.record[r].body /\ st.record[r].body =< v2[r]
    <3>1. st.record[r].fp \in Nat /\ st.record[r].body \in Nat
      BY <2>1 DEF StateGood, StateType, RecordType, Unread
    <3>2. /\ st.record[r].fp =< v[r]
          /\ \/ st.record[r].body = Unread
             \/ st.record[r].fp =< st.record[r].body /\ st.record[r].body =< v[r]
      BY <2>1 DEF StateGood
    <3> QED
      BY <1>1, <3>1, <3>2
  <2>2. \A r \in Source : SiteOf[r] \in Db /\ st.seen[SiteOf[r]] # None =>
           st.seen[SiteOf[r]][r] =< v2[r]
    <3> SUFFICES ASSUME NEW r \in Source, SiteOf[r] \in Db, st.seen[SiteOf[r]] # None
                 PROVE  st.seen[SiteOf[r]][r] =< v2[r]
      OBVIOUS
    <3>1. st.seen[SiteOf[r]] \in StampType
      BY DEF StateGood, StateType
    <3>2. st.seen[SiteOf[r]][r] \in Nat
      BY <3>1, VersionAssumption DEF StampType
    <3>3. st.seen[SiteOf[r]][r] =< v[r]
      BY DEF StateGood
    <3> QED
      BY <1>1, <3>2, <3>3
  <2> QED
    BY <2>1, <2>2 DEF StateGood
<1>3. Vouches(st, v2, t2)
  <2> SUFFICES ASSUME NEW r \in Source, SiteOf[r] \in Db, r \notin st.passed,
                      st.seen[SiteOf[r]] = StampOf(v2, SiteOf[r])
               PROVE  IF r \in t2 THEN Carries(st, r, v2[r]) ELSE st.record[r] = None
    BY DEF Vouches
  <2>1. st.seen[SiteOf[r]] = StampOf(v, SiteOf[r])
    BY StaysUnseen
  <2>2. r # s
    <3> SUFFICES ASSUME r = s PROVE FALSE
      OBVIOUS
    <3>1. StampOf(v, SiteOf[s])[s] = v[s] /\ StampOf(v2, SiteOf[s])[s] = v2[s]
      BY DEF StampOf
    <3> QED
      BY <2>1, <3>1, <1>1
  <2> QED
    BY <2>1, <2>2 DEF Vouches
<1> QED
  BY <1>2, <1>3

-----------------------------------------------------------------------------
(* Reading one source                                                      *)

\* What a step does that considers s under the fingerprint fp.
Touched(st, new, s, fp) ==
    /\ new \in StateType
    /\ new.seen = st.seen
    /\ \A r \in Source \ {s} : new.record[r] = st.record[r] /\ (r \in new.passed <=> r \in st.passed)
    /\ \/ new.record[s] = st.record[s]
       \/ /\ Carries(new, s, fp) /\ new.record[s].body \in {Unread, version[s]}
          /\ Tells(s, new.record[s])

LEMMA RememberKeeps ==
  ASSUME Outer, NEW st \in StateType, NEW d
  PROVE  /\ Remember(st, d) \in StateType
         /\ Remember(st, d).record = st.record
         /\ Remember(st, d).seen = st.seen
         /\ Remember(st, d).passed = st.passed
<1>1. CASE Remember(st, d) = st
  BY <1>1
<1>2. CASE Remember(st, d) # st
  <2>1. Remember(st, d) = [st EXCEPT !.repo[d] = origin[d]] /\ origin[d] # "gone"
    BY <1>2 DEF Remember
  <2>2. [st.repo EXCEPT ![d] = origin[d]] \in [Dir -> {"unknown", "none", "key"}]
    BY <2>1 DEF Outer, StateType
  <2> QED
    BY <2>1, <2>2 DEF StateType
<1> QED
  BY <1>1, <1>2

LEMMA RecordType1 ==
  ASSUME Outer, NEW s \in Source, NEW fp \in 1 .. MaxVersion, fp =< version[s],
         NEW body \in {Unread, version[s]}, NEW how \in {"ready", "pending", "broken"}
  PROVE  /\ Record(fp, body, how) \in RecordType
         /\ Record(fp, body, how) # None
         /\ Record(fp, body, how).fp = fp /\ Record(fp, body, how).body = body
         /\ Record(fp, body, how).state = how
         /\ version[s] \in 1 .. MaxVersion /\ version[s] # Unread
<1>1. version[s] \in 1 .. MaxVersion
  BY VersionAssumption DEF Outer, StampType
<1>2. Record(fp, body, how) \in RecordType
  BY <1>1 DEF Record, RecordType
<1> QED
  BY <1>1, <1>2, NoneAssumption DEF Record, Unread

LEMMA PutTouches ==
  ASSUME NEW st \in StateType, NEW s \in Source, NEW r \in RecordType
  PROVE  LET new == [st EXCEPT !.record[s] = r]
         IN /\ new \in StateType
            /\ new.seen = st.seen /\ new.passed = st.passed
            /\ new.record[s] = r
            /\ \A q \in Source \ {s} : new.record[q] = st.record[q]
<1>1. [st.record EXCEPT ![s] = r] \in [Source -> RecordType \cup {None}]
  BY DEF StateType
<1> QED
  BY <1>1 DEF StateType

\* A source that is read.
LEMMA ReadAsReads ==
  ASSUME Outer, NEW st \in StateType, NEW s \in Source,
         NEW fp \in 1 .. MaxVersion, fp =< version[s]
  PROVE  LET new == ReadAs(st, s, fp)
         IN /\ Touched(st, new, s, fp) /\ new.passed = st.passed
            /\ Carries(new, s, fp) /\ new.record[s].body = version[s]
            /\ new.record[s].state = "pending" => ~Resolves(st, Cwd[s][version[s]])
            /\ new.repo = st.repo \/ new.repo = Remember(st, Cwd[s][version[s]]).repo
<1> DEFINE d == Cwd[s][version[s]]
           new == ReadAs(st, s, fp)
           how == IF d = Garbled THEN "broken" ELSE IF Resolves(st, d) THEN "ready" ELSE "pending"
           rec == Record(fp, version[s], how)
           old == IF d = Garbled THEN st ELSE Remember(st, d)
<1>1. new = [old EXCEPT !.record[s] = rec]
  BY DEF ReadAs
<1>2. how \in {"ready", "pending", "broken"} /\ (how = "broken" <=> d = Garbled)
      /\ (how = "pending" => ~Resolves(st, d))
  OBVIOUS
<1>3. /\ rec \in RecordType /\ rec # None /\ rec.fp = fp /\ rec.body = version[s]
      /\ rec.state = how /\ version[s] \in 1 .. MaxVersion /\ version[s] # Unread
  <2> HIDE DEF how
  <2> QED
    BY <1>2, RecordType1
<1>4. d \in Dir \cup {Garbled}
  BY <1>3, VersionAssumption
<1>5. Tells(s, rec)
  <2> HIDE DEF how, rec, d
  <2>1. rec.state = "broken" <=> d = Garbled
    BY <1>2, <1>3
  <2>2. rec.state = "pending" => d \in Dir
    BY <1>2, <1>3, <1>4
  <2> QED
    BY <1>3, <2>1, <2>2 DEF Tells, d
<1>6. /\ old \in StateType /\ old.record = st.record
      /\ old.seen = st.seen /\ old.passed = st.passed
      /\ old.repo = st.repo \/ old.repo = Remember(st, d).repo
  BY RememberKeeps
<1> HIDE DEF how, rec, old, new
<1>7. /\ new \in StateType /\ new.seen = old.seen /\ new.passed = old.passed
      /\ new.record[s] = rec /\ \A q \in Source \ {s} : new.record[q] = old.record[q]
  BY <1>1, <1>3, <1>6, PutTouches
<1>8. new.repo = old.repo
  BY <1>1, <1>6 DEF StateType
<1>9. Touched(st, new, s, fp) /\ new.passed = st.passed
  BY <1>3, <1>5, <1>6, <1>7 DEF Touched, Carries
<1>10. Carries(new, s, fp) /\ new.record[s].body = version[s]
       /\ (new.record[s].state = "pending" => ~Resolves(st, d))
  BY <1>2, <1>3, <1>7 DEF Carries
<1> QED
  BY <1>6, <1>8, <1>9, <1>10 DEF new

LEMMA ReloadTouches ==
  ASSUME Outer, NEW st \in StateType, NEW s \in Source,
         NEW fp \in 1 .. MaxVersion, fp =< version[s], NEW failure
  PROVE  LET new == Reload(st, s, fp, failure)
         IN Touched(st, new, s, fp) /\ new.passed = st.passed
<1> DEFINE new == Reload(st, s, fp, failure)
           rec == Record(fp, Unread, "broken")
<1> SUFFICES Touched(st, new, s, fp) /\ new.passed = st.passed
  OBVIOUS
<1>1. CASE new = st
  BY <1>1 DEF Touched
<1>2. CASE new = [st EXCEPT !.record[s] = rec]
  <2>1. rec \in RecordType /\ rec # None /\ rec.fp = fp /\ rec.body = Unread /\ rec.state = "broken"
    BY RecordType1
  <2>2. Tells(s, rec)
    BY <2>1 DEF Tells
  <2> HIDE DEF rec, new
  <2> QED
    BY <1>2, <2>1, <2>2, PutTouches DEF Touched, Carries
<1>3. CASE new = ReadAs(st, s, fp)
  BY <1>3, ReadAsReads
<1> QED
  BY <1>1, <1>2, <1>3 DEF Reload

LEMMA ReconsiderTouches ==
  ASSUME Outer, NEW st \in StateType, NEW s \in Source,
         NEW fp \in 1 .. MaxVersion, fp =< version[s], NEW failure
  PROVE  LET new == Reconsider(st, s, fp, failure)
         IN /\ Touched(st, new, s, fp)
            /\ SiteOf[s] \in Db /\ s \notin new.passed => Carries(new, s, fp)
<1> DEFINE old == IF Carries(st, s, fp) THEN st ELSE Reload(st, s, fp, failure)
           new == Reconsider(st, s, fp, failure)
<1>1. Touched(st, old, s, fp) /\ old.passed = st.passed
  BY ReloadTouches DEF Touched
<1>2. /\ new.record = old.record /\ new.seen = old.seen /\ new.repo = old.repo
      /\ new.passed = IF SiteOf[s] \in Db /\ ~Carries(old, s, fp)
                        THEN old.passed \cup {s} ELSE old.passed \ {s}
      /\ new \in StateType
  <2>1. old \in StateType
    BY <1>1 DEF Touched
  <2>2. new = [old EXCEPT !.passed = IF SiteOf[s] \in Db /\ ~Carries(old, s, fp)
                                      THEN @ \cup {s} ELSE @ \ {s}]
    BY DEF Reconsider
  <2> QED
    BY <2>1, <2>2 DEF StateType
<1>3. Carries(new, s, fp) <=> Carries(old, s, fp)
  BY <1>2 DEF Carries
<1>4. Touched(st, new, s, fp)
  BY <1>1, <1>2, <1>3 DEF Touched
<1> QED
  BY <1>2, <1>3, <1>4

\* A touched state stays good.
LEMMA TouchedGood ==
  ASSUME Outer, NEW st, StateGood(st, version), NEW s \in Source,
         NEW fp \in 1 .. MaxVersion, fp =< version[s],
         NEW new, Touched(st, new, s, fp)
  PROVE  StateGood(new, version)
<1>1. new \in StateType /\ new.seen = st.seen
  BY DEF Touched
<1>2. ASSUME NEW r \in Source, new.record[r] # None
      PROVE  /\ new.record[r].fp =< version[r]
             /\ \/ new.record[r].body = Unread
                \/ new.record[r].fp =< new.record[r].body /\ new.record[r].body =< version[r]
  <2>1. version[r] \in Nat
    BY VersionAssumption DEF Outer, StampType
  <2>2. CASE new.record[r] = st.record[r]
    BY <1>2, <2>2 DEF StateGood
  <2>3. CASE r = s /\ Carries(new, s, fp) /\ new.record[s].body \in {Unread, version[s]}
    BY <2>1, <2>3 DEF Carries
  <2> QED
    BY <2>2, <2>3 DEF Touched
<1>3. \A r \in Source : Tells(r, new.record[r])
  BY DEF Touched, StateGood
<1> QED
  BY <1>1, <1>2, <1>3 DEF StateGood

\* A touched state still vouches, when the database is being scanned and when
\* a record is read again under its own fingerprint.
LEMMA TouchedVouches ==
  ASSUME Outer, NEW st, Vouches(st, version, there), NEW s \in Source, NEW fp,
         NEW new, Touched(st, new, s, fp),
         \/ SiteOf[s] \in Db => st.seen[SiteOf[s]] # StampOf(version, SiteOf[s])
         \/ new.passed = st.passed /\ Carries(st, s, fp)
  PROVE  Vouches(new, version, there)
<1> SUFFICES ASSUME NEW r \in Source, SiteOf[r] \in Db, r \notin new.passed,
                    new.seen[SiteOf[r]] = StampOf(version, SiteOf[r])
             PROVE  IF r \in there THEN Carries(new, r, version[r]) ELSE new.record[r] = None
  BY DEF Vouches
<1>1. new.seen = st.seen
  BY DEF Touched
<1>2. CASE r # s
  <2>1. new.record[r] = st.record[r] /\ r \notin st.passed
    BY <1>2 DEF Touched
  <2>2. IF r \in there THEN Carries(st, r, version[r]) ELSE st.record[r] = None
    BY <1>1, <2>1 DEF Vouches
  <2> QED
    BY <2>1, <2>2 DEF Carries
<1>3. CASE r = s
  <2>1. new.passed = st.passed /\ Carries(st, s, fp)
    BY <1>1, <1>3
  <2>2. IF s \in there THEN Carries(st, s, version[s]) ELSE st.record[s] = None
    BY <1>1, <1>3, <2>1 DEF Vouches
  <2>3. s \in there /\ fp = version[s]
    BY <2>1, <2>2 DEF Carries
  <2> QED
    BY <1>3, <2>1, <2>2, <2>3 DEF Touched, Carries
<1> QED
  BY <1>2, <1>3

LEMMA WithoutKeeps ==
  ASSUME NEW st \in StateType, NEW gone
  PROVE  /\ Without(st, gone) \in StateType
         /\ Without(st, gone).seen = st.seen
         /\ Without(st, gone).passed = st.passed
         /\ \A s \in Source : Without(st, gone).record[s] = IF s \in gone THEN None ELSE st.record[s]
<1>1. Without(st, gone) =
        [st EXCEPT !.record = [s \in Source |-> IF s \in gone THEN None ELSE st.record[s]]]
  BY DEF Without, StateType
<1>2. [s \in Source |-> IF s \in gone THEN None ELSE st.record[s]] \in [Source -> RecordType \cup {None}]
  BY DEF StateType
<1> QED
  BY <1>1, <1>2 DEF StateType

LEMMA WithoutGood ==
  ASSUME NEW v \in StampType, NEW st, StateGood(st, v), NEW gone
  PROVE  StateGood(Without(st, gone), v)
<1>1. st \in StateType
  BY DEF StateGood
<1> QED
  BY <1>1, WithoutKeeps DEF StateGood, Tells

\* What a state promises depends on its records, stamps and exceptions only.
LEMMA SameRecords ==
  ASSUME NEW st, NEW new \in StateType, NEW v, NEW t,
         new.record = st.record, new.seen = st.seen, new.passed = st.passed
  PROVE  /\ StateGood(st, v) => StateGood(new, v)
         /\ Vouches(st, v, t) => Vouches(new, v, t)
         /\ \A d, c : DiffGood(d, c, st, v, t) => DiffGood(d, c, new, v, t)
<1>1. \A fp : \A s \in Source : Carries(new, s, fp) <=> Carries(st, s, fp)
  BY DEF Carries
<1>2. StateGood(st, v) => StateGood(new, v)
  BY DEF StateGood
<1>3. Vouches(st, v, t) => Vouches(new, v, t)
  BY <1>1 DEF Vouches
<1>4. \A d, c : DiffGood(d, c, st, v, t) => DiffGood(d, c, new, v, t)
  BY <1>1 DEF DiffGood, ScanGood, Carries
<1> QED
  BY <1>2, <1>3, <1>4

LEMMA ForgetKeeps ==
  ASSUME NEW st \in StateType
  PROVE  /\ Forget(st) \in StateType
         /\ Forget(st).record = st.record
         /\ Forget(st).seen = st.seen
         /\ Forget(st).passed = st.passed
<1>1. Forget(st) =
        [st EXCEPT !.repo = [d \in Dir |-> IF st.repo[d] = "none" THEN "unknown" ELSE st.repo[d]]]
  BY DEF Forget, StateType
<1>2. [d \in Dir |-> IF st.repo[d] = "none" THEN "unknown" ELSE st.repo[d]]
        \in [Dir -> {"unknown", "none", "key"}]
  BY DEF StateType
<1> QED
  BY <1>1, <1>2 DEF StateType

\* A diff stays good when a source is edited or removed.
LEMMA GrowDiff ==
  ASSUME NEW v \in StampType, NEW v2 \in StampType, NEW t, NEW t2,
         NEW st, StateGood(st, v),
         NEW s \in Source, v2[s] > v[s], \A r \in Source \ {s} : v2[r] = v[r],
         \A r \in Source \ {s} : r \in t <=> r \in t2,
         NEW d, NEW c, DiffGood(d, c, st, v, t)
  PROVE  DiffGood(d, c, st, v2, t2)
<1>1. d \in DiffType
  BY DEF DiffGood
<1>2. \A r \in Source : /\ v[r] \in Nat /\ v2[r] \in Nat
                        /\ d.walk[r] \in Nat /\ d.held[r] \in Nat
  BY <1>1, VersionAssumption DEF DiffType, StampType
<1>3. \A r \in Source : v[r] =< v2[r]
  <2> TAKE r \in Source
  <2>1. CASE r = s
    BY <1>2, <2>1
  <2>2. CASE r # s
    BY <1>2, <2>2
  <2> QED
    BY <2>1, <2>2
<1>4. \A r \in Source : d.walk[r] =< v2[r] /\ d.held[r] =< v2[r]
  <2> TAKE r \in Source
  <2>1. d.walk[r] =< v[r] /\ d.held[r] =< v[r]
    BY DEF DiffGood
  <2> QED
    BY <1>2, <1>3, <2>1
<1>5. \A w \in Db : st.seen[w] # StampOf(v, w) => st.seen[w] # StampOf(v2, w)
  BY StaysUnseen
<1>6. d.held[s] # v2[s]
  <2>1. d.held[s] =< v[s]
    BY DEF DiffGood
  <2> QED
    BY <1>2, <2>1
<1>7. d.at \in Db /\ ScanGood(d, st, v, t) => ScanGood(d, st, v2, t2)
  <2> SUFFICES ASSUME d.at \in Db, ScanGood(d, st, v, t)
               PROVE  ScanGood(d, st, v2, t2)
    OBVIOUS
  <2>1. st.seen[d.at] # StampOf(v2, d.at)
    BY <1>5 DEF ScanGood
  <2>2. ASSUME NEW r \in Source, SiteOf[r] = d.at, d.held[r] = v2[r]
        PROVE  \/ d.walk[r] = IF r \in t2 THEN v2[r] ELSE 0
               \/ d.walk[r] = 0 /\ r \in st.passed
    <3>1. r # s
      BY <1>6, <2>2
    <3> QED
      BY <2>2, <3>1 DEF ScanGood
  <2> QED
    BY <2>1, <2>2 DEF ScanGood
<1> QED
  BY <1>1, <1>4, <1>5, <1>7 DEF DiffGood

-----------------------------------------------------------------------------
(* The steps of a process                                                  *)

\* A step of p has only to keep what is known of p and of the file.
LEMMA StepFrame ==
  ASSUME Inv, NEW p \in Process, Inner', UNCHANGED <<version, there>>, Outer',
         \A q \in Process \ {p} : mem'[q] = mem[q] /\ diff'[q] = diff[q] /\ pc'[q] = pc[q],
         disk' = disk \/ disk' = mem[p],
         StateGood(mem'[p], version), Vouches(mem'[p], version, there),
         DiffGood(diff'[p], pc'[p], mem'[p], version, there)
  PROVE  Inv'
<1>1. StateGood(disk', version) /\ Vouches(disk', version, there)
  BY DEF Inv
<1>2. \A q \in Process :
         /\ StateGood(mem'[q], version) /\ Vouches(mem'[q], version, there)
         /\ DiffGood(diff'[q], pc'[q], mem'[q], version, there)
  BY DEF Inv
<1> QED
  BY <1>1, <1>2 DEF Inv

LEMMA InvStart ==
  ASSUME Inv, NEW p \in Process, Start(p)
  PROVE  Inv'
<1>1. /\ mem' = [mem EXCEPT ![p] = disk] /\ pc' = [pc EXCEPT ![p] = "idle"]
      /\ dirty' = [dirty EXCEPT ![p] = FALSE]
      /\ UNCHANGED <<version, there, locked, present, origin, disk, diff, still>>
  BY DEF Start, Goes
<1>2. Outer'
  <2>1. changes' \in 0 .. MaxChanges
    BY VersionAssumption DEF Start, Inv, Outer
  <2> QED
    BY <1>1, <2>1 DEF Inv, Outer
<1>3. Inner'
  BY <1>1 DEF Inv, Inner, StateGood
<1>4. DiffGood(diff'[p], pc'[p], mem'[p], version, there)
  BY <1>1 DEF Inv, Inner, DiffGood
<1> QED
  BY <1>1, <1>2, <1>3, <1>4, StepFrame DEF Inv, Inner

LEMMA InvBegin ==
  ASSUME Inv, NEW p \in Process, Begin(p)
  PROVE  Inv'
<1>1. /\ pc' = [pc EXCEPT ![p] = "walk"]
      /\ still' = [still EXCEPT ![p] = Source \ GivenUp(mem[p])]
      /\ diff' = [diff EXCEPT ![p].at = 1, ![p].sites = present]
      /\ UNCHANGED <<outside, disk, mem, dirty>>
  BY DEF Begin, Goes
<1>2. diff'[p] = [diff[p] EXCEPT !.at = 1, !.sites = present] /\ diff'[p] \in DiffType
  <2>1. diff[p] \in DiffType /\ present \in SUBSET Sites /\ 1 \in 0 .. SiteCount + 1
    BY SiteAssumption DEF Inv, Inner, Outer
  <2>2. diff'[p] = [diff[p] EXCEPT !.at = 1, !.sites = present]
    BY <1>1, <2>1 DEF Inv, Inner, DiffType
  <2> QED
    BY <2>1, <2>2 DEF DiffType
<1>3. Outer' /\ Inner'
  BY <1>1, <1>2 DEF Inv, Inner, Outer, outside
<1>4. DiffGood(diff'[p], pc'[p], mem'[p], version, there)
  BY <1>1, <1>2 DEF Inv, Inner, DiffGood, DiffType
<1> QED
  BY <1>1, <1>3, <1>4, StepFrame DEF Inv, Inner, outside

\* Going on to the next site.
LEMMA NextSiteGood ==
  ASSUME Inv, NEW p \in Process, NextSite(p), diff[p].at \in Sites, NEW st
  PROVE  /\ diff'[p] \in DiffType /\ diff' = [diff EXCEPT ![p] = diff'[p]]
         /\ pc' = [pc EXCEPT ![p] = "walk"]
         /\ DiffGood(diff'[p], pc'[p], st, version, there)
<1>1. diff' = [diff EXCEPT ![p].at = @ + 1, ![p].walk = Nothing, ![p].held = Nothing]
      /\ pc' = [pc EXCEPT ![p] = "walk"]
  BY DEF NextSite, Goes
<1>2. Nothing \in StampType /\ \A s \in Source : Nothing[s] = 0
  BY VersionAssumption DEF Nothing, StampType
<1>3. diff[p].at + 1 \in 0 .. SiteCount + 1
  BY SiteAssumption DEF Sites
<1>4. diff'[p] = [diff[p] EXCEPT !.at = @ + 1, !.walk = Nothing, !.held = Nothing]
  <2>1. diff \in [Process -> DiffType]
    BY DEF Inv, Inner
  <2> QED
    BY <1>1, <2>1 DEF DiffType
<1>5. diff'[p] \in DiffType
  <2>1. diff[p] \in DiffType
    BY DEF Inv, Inner
  <2> QED
    BY <1>2, <1>3, <1>4, <2>1 DEF DiffType
<1>6. diff'[p].walk = Nothing /\ diff'[p].held = Nothing /\ pc'[p] = "walk"
  <2>1. diff[p] \in DiffType
    BY DEF Inv, Inner
  <2>2. pc'[p] = "walk"
    BY <1>1 DEF Inv, Inner
  <2> QED
    BY <1>4, <2>1, <2>2 DEF DiffType
<1>7. \A s \in Source : 0 =< version[s]
  BY VersionAssumption DEF Inv, Outer, StampType
<1>8. diff' = [diff EXCEPT ![p] = diff'[p]]
  BY <1>1, <1>4 DEF Inv, Inner
<1>9. DiffGood(diff'[p], pc'[p], st, version, there)
  <2>1. \A s \in Source : diff'[p].walk[s] =< version[s] /\ diff'[p].held[s] =< version[s]
    BY <1>2, <1>6, <1>7
  <2> HIDE DEF Inv, Nothing
  <2> QED
    BY <1>5, <1>6, <2>1 DEF DiffGood
<1> QED
  BY <1>1, <1>5, <1>8, <1>9

LEMMA InvSkip ==
  ASSUME Inv, NEW p \in Process, Skip(p) \/ DiscoverFails(p)
  PROVE  Inv'
<1>1. NextSite(p) /\ UNCHANGED <<outside, disk, mem, dirty, still>>
  BY DEF Skip, DiscoverFails
<1>2. diff[p].at \in Sites
  BY SiteAssumption DEF Skip, DiscoverFails, Inv, DiffGood
<1>3. /\ diff'[p] \in DiffType /\ diff' = [diff EXCEPT ![p] = diff'[p]]
      /\ pc' = [pc EXCEPT ![p] = "walk"]
      /\ DiffGood(diff'[p], pc'[p], mem[p], version, there)
  BY <1>1, <1>2, NextSiteGood
<1>4. Outer' /\ Inner'
  BY <1>1, <1>3 DEF Inv, Inner, Outer, outside
<1> QED
  BY <1>1, <1>3, <1>4, StepFrame DEF Inv, Inner, outside

LEMMA InvStamp ==
  ASSUME Inv, NEW p \in Process, Stamp(p)
  PROVE  Inv'
<1> DEFINE w == diff[p].at
<1>1. /\ w \in Db /\ mem[p].seen[w] # StampOf(version, w)
      /\ pc' = [pc EXCEPT ![p] = "discover"]
      /\ diff' = [diff EXCEPT ![p].held = StampOf(version, w)]
      /\ UNCHANGED <<outside, disk, mem, dirty, still>>
  BY DEF Stamp, Goes, DbStamp, StampOf
<1>2. StampOf(version, w) \in StampType /\ \A s \in Source : StampOf(version, w)[s] =< version[s]
  BY VersionAssumption DEF Inv, Outer, StampType, StampOf
<1>3. diff'[p] = [diff[p] EXCEPT !.held = StampOf(version, w)] /\ diff'[p] \in DiffType
  BY <1>1, <1>2 DEF Inv, Inner, DiffType
<1>4. Outer' /\ Inner'
  BY <1>1, <1>3 DEF Inv, Inner, Outer, outside
<1>5. DiffGood(diff'[p], pc'[p], mem'[p], version, there)
  BY <1>1, <1>2, <1>3 DEF Inv, Inner, DiffGood, DiffType
<1> QED
  BY <1>1, <1>4, <1>5, StepFrame DEF Inv, Inner, outside

LEMMA ListingGood ==
  ASSUME Inv, NEW w
  PROVE  /\ Listing(w) \in StampType
         /\ \A s \in Source : /\ Listing(w)[s] =< version[s]
                              /\ SiteOf[s] # w => Listing(w)[s] = 0
                              /\ SiteOf[s] = w /\ w \in present =>
                                    Listing(w)[s] = IF s \in there THEN version[s] ELSE 0
  BY VersionAssumption DEF Listing, Inv, Outer, StampType

\* A walk or an enumeration.
LEMMA InvLists ==
  ASSUME Inv, NEW p \in Process, Walk(p) \/ Discover(p)
  PROVE  Inv'
<1> DEFINE w == diff[p].at
<1>1. PICK listing :
        /\ Lists(p, listing)
        /\ listing \in StampType
        /\ \A s \in Source : listing[s] =< version[s] /\ (SiteOf[s] # w => listing[s] = 0)
        /\ w \in Sites
        /\ w \in Db => /\ mem[p].seen[w] # StampOf(version, w)
                       /\ listing = Listing(w) /\ w \in present
  <2>1. CASE Walk(p)
    <3>1. PICK over :
             Lists(p, [s \in Source |-> IF s \in over THEN 0 ELSE Listing(w)[s]])
      BY <2>1 DEF Walk
    <3> DEFINE listing == [s \in Source |-> IF s \in over THEN 0 ELSE Listing(w)[s]]
    <3>2. listing \in StampType
      BY ListingGood, VersionAssumption DEF StampType
    <3>3. \A s \in Source : listing[s] =< version[s] /\ (SiteOf[s] # w => listing[s] = 0)
      <4>1. \A s \in Source : version[s] \in Nat
        BY VersionAssumption DEF Inv, Outer, StampType
      <4> QED
        BY <4>1, ListingGood
    <3>4. w \in Sites /\ w \notin Db
      BY <2>1 DEF Walk, Inv, Inner, DiffType
    <3> QED
      BY <3>1, <3>2, <3>3, <3>4
  <2>2. CASE Discover(p)
    <3>1. /\ w \in Db /\ w \in Sites /\ w \in present
          /\ mem[p].seen[w] # StampOf(version, w) /\ Lists(p, Listing(w))
      BY <2>2, SiteAssumption DEF Discover, Inv, DiffGood
    <3> QED
      BY <3>1, ListingGood
  <2> QED
    BY <2>1, <2>2
<1> DEFINE todo == {s \in Source : listing[s] # 0}
<1>2. /\ pc' = [pc EXCEPT ![p] = "load"]
      /\ diff' = [diff EXCEPT ![p].walk = listing, ![p].todo = todo]
      /\ UNCHANGED <<outside, disk, mem, dirty, still>>
  BY <1>1 DEF Lists, Goes
<1>3. diff'[p] = [diff[p] EXCEPT !.walk = listing, !.todo = todo]
  BY <1>2 DEF Inv, Inner
<1>4. diff'[p] \in DiffType
  <2>1. diff[p] \in DiffType /\ listing \in StampType /\ todo \in SUBSET Source
    BY <1>1 DEF Inv, Inner
  <2> QED
    BY <1>3, <2>1 DEF DiffType
<1>5. Outer' /\ Inner'
  BY <1>2, <1>4 DEF Inv, Inner, Outer, outside
<1>6. /\ diff'[p].at = w /\ diff'[p].walk = listing /\ diff'[p].todo = todo
      /\ diff'[p].held = diff[p].held
  BY <1>3 DEF Inv, Inner, DiffType
<1>7. ListGood(diff'[p])
  BY <1>1, <1>6 DEF ListGood
<1>8. w \in Db => ScanGood(diff'[p], mem[p], version, there)
  BY <1>1, <1>6, ListingGood DEF ScanGood
<1>9. pc'[p] = "load" /\ mem' = mem
  BY <1>2 DEF Inv, Inner
<1>10. \A s \in Source : diff'[p].walk[s] =< version[s] /\ diff'[p].held[s] =< version[s]
  BY <1>1, <1>6 DEF Inv, DiffGood
<1>11. DiffGood(diff'[p], pc'[p], mem'[p], version, there)
  BY <1>4, <1>6, <1>7, <1>8, <1>9, <1>10 DEF DiffGood
<1> QED
  BY <1>2, <1>5, <1>11, StepFrame DEF Inv, Inner, outside

\* A database that vanished: every row is passed over.
LEMMA InvDiscoverNothing ==
  ASSUME Inv, NEW p \in Process, DiscoverNothing(p)
  PROVE  Inv'
<1> DEFINE w == diff[p].at
           rows == {s \in Source : SiteOf[s] = w}
           st == mem[p]
           new == [st EXCEPT !.passed = @ \cup rows]
<1>1. /\ pc[p] = "discover" /\ pc' = [pc EXCEPT ![p] = "load"]
      /\ diff' = [diff EXCEPT ![p].walk = Nothing, ![p].todo = {}]
      /\ mem' = [mem EXCEPT ![p].passed = @ \cup rows]
      /\ UNCHANGED <<outside, disk, dirty, still>>
  BY DEF DiscoverNothing, Goes
<1>2. /\ st \in StateType /\ StateGood(st, version) /\ Vouches(st, version, there)
      /\ diff[p] \in DiffType /\ w \in Db /\ w \in Sites /\ st.seen[w] # StampOf(version, w)
  BY <1>1, SiteAssumption DEF Inv, Inner, DiffGood
<1>3. /\ new \in StateType /\ new.record = st.record /\ new.seen = st.seen
      /\ st.passed \subseteq new.passed /\ rows \subseteq new.passed
  BY <1>2 DEF StateType
<1>4. mem' = [mem EXCEPT ![p] = new] /\ mem'[p] = new
  BY <1>1, <1>2 DEF Inv, Inner, StateType
<1> HIDE DEF new
<1>5. StateGood(new, version) /\ Vouches(new, version, there)
  BY <1>2, <1>3 DEF StateGood, Vouches, Carries
<1>6. Nothing \in StampType /\ \A s \in Source : Nothing[s] = 0
  BY VersionAssumption DEF Nothing, StampType
<1>7. diff'[p] = [diff[p] EXCEPT !.walk = Nothing, !.todo = {}] /\ pc'[p] = "load"
  BY <1>1 DEF Inv, Inner
<1> HIDE DEF Nothing
<1>8. /\ diff'[p] \in DiffType /\ diff'[p].at = w /\ diff'[p].held = diff[p].held
      /\ diff'[p].walk = Nothing /\ diff'[p].todo = {}
  BY <1>2, <1>6, <1>7 DEF DiffType
<1>9. ListGood(diff'[p])
  BY <1>2, <1>6, <1>8 DEF ListGood
<1>10. ScanGood(diff'[p], new, version, there)
  BY <1>2, <1>3, <1>6, <1>8 DEF ScanGood
<1>11. \A s \in Source : diff'[p].walk[s] =< version[s] /\ diff'[p].held[s] =< version[s]
  BY <1>6, <1>8, VersionAssumption DEF Inv, DiffGood, Outer, StampType
<1>12. DiffGood(diff'[p], pc'[p], mem'[p], version, there)
  BY <1>4, <1>7, <1>8, <1>9, <1>10, <1>11 DEF DiffGood
<1>13. Outer' /\ Inner'
  BY <1>1, <1>3, <1>4, <1>8 DEF Inv, Inner, Outer, outside
<1> QED
  BY <1>1, <1>4, <1>5, <1>12, <1>13, StepFrame DEF Inv, Inner, outside

LEMMA InvLoad ==
  ASSUME Inv, NEW p \in Process, Load(p)
  PROVE  Inv'
<1> DEFINE st == mem[p]
           d == diff[p]
<1>1. PICK s \in d.todo, failure \in Failure :
        /\ Becomes(p, Reconsider(st, s, d.walk[s], failure))
        /\ diff' = [diff EXCEPT ![p].todo = @ \ {s}]
  BY DEF Load
<1> DEFINE new == Reconsider(st, s, d.walk[s], failure)
<1>2. /\ pc[p] = "load" /\ pc' = pc /\ mem' = [mem EXCEPT ![p] = new]
      /\ dirty' = [dirty EXCEPT ![p] = @ \/ new # st]
      /\ UNCHANGED <<outside, disk, still>>
  BY <1>1 DEF Load, Becomes
<1>3. d \in DiffType /\ ListGood(d) /\ StateGood(st, version) /\ Vouches(st, version, there)
      /\ st \in StateType /\ (d.at \in Db => ScanGood(d, st, version, there))
  BY <1>2 DEF Inv, Inner, DiffGood
<1>4. s \in Source /\ SiteOf[s] = d.at /\ d.walk[s] \in 1 .. MaxVersion /\ d.walk[s] =< version[s]
  <2>1. s \in Source /\ d.walk[s] # 0 /\ d.walk[s] \in 0 .. MaxVersion
    BY <1>3 DEF ListGood, DiffType, StampType
  <2> QED
    BY <1>3, <2>1, VersionAssumption DEF ListGood, Inv, DiffGood
<1>5. Touched(st, new, s, d.walk[s])
      /\ (SiteOf[s] \in Db /\ s \notin new.passed => Carries(new, s, d.walk[s]))
  BY <1>3, <1>4, ReconsiderTouches DEF Inv
<1>6. StateGood(new, version)
  BY <1>3, <1>4, <1>5, TouchedGood DEF Inv
<1>7. Vouches(new, version, there)
  BY <1>3, <1>4, <1>5, TouchedVouches DEF Inv, ScanGood
<1>8. /\ diff'[p] = [d EXCEPT !.todo = @ \ {s}] /\ diff'[p] \in DiffType
      /\ diff'[p].at = d.at /\ diff'[p].walk = d.walk /\ diff'[p].held = d.held
      /\ diff'[p].todo = d.todo \ {s}
  BY <1>1, <1>3 DEF Inv, Inner, DiffType
<1>9. Outer' /\ Inner'
  BY <1>1, <1>2, <1>6, <1>8 DEF Inv, Inner, Outer, outside, StateGood
<1>10. d.at \in Db => ScanGood(diff'[p], new, version, there)
  <2> SUFFICES ASSUME d.at \in Db
               PROVE  ScanGood(diff'[p], new, version, there)
    OBVIOUS
  <2>1. ASSUME NEW r \in Source, SiteOf[r] \in Db, SiteOf[r] = d.at, d.walk[r] # 0, r \notin d.todo \ {s}
        PROVE  r \in new.passed \/ Carries(new, r, d.walk[r])
    <3>1. CASE r = s
      BY <1>5, <2>1, <3>1
    <3>2. CASE r # s
      BY <1>3, <1>5, <2>1, <3>2 DEF ScanGood, Touched, Carries
    <3> QED
      BY <3>1, <3>2
  <2>2. ASSUME NEW r \in Source, SiteOf[r] = d.at, d.held[r] = version[r]
        PROVE  \/ d.walk[r] = IF r \in there THEN version[r] ELSE 0
               \/ d.walk[r] = 0 /\ r \in new.passed
    <3>1. \/ d.walk[r] = IF r \in there THEN version[r] ELSE 0
          \/ d.walk[r] = 0 /\ r \in st.passed
      BY <1>3, <2>2 DEF ScanGood
    <3>2. d.walk[r] = 0 => r # s
      BY <1>4
    <3> QED
      BY <1>5, <3>1, <3>2 DEF Touched
  <2>3. st.seen[d.at] # StampOf(version, d.at) /\ new.seen = st.seen
    BY <1>3, <1>5 DEF ScanGood, Touched
  <2> HIDE DEF new, d
  <2> QED
    BY <1>8, <2>1, <2>2, <2>3 DEF ScanGood
<1>11. ListGood(diff'[p])
  BY <1>3, <1>8 DEF ListGood
<1>12. mem'[p] = new /\ pc'[p] = "load"
  BY <1>2 DEF Inv, Inner
<1>13. DiffGood(diff'[p], pc'[p], mem'[p], version, there)
  BY <1>8, <1>10, <1>11, <1>12 DEF DiffGood, Inv
<1> QED
  BY <1>1, <1>2, <1>6, <1>7, <1>9, <1>12, <1>13, StepFrame DEF Inv, Inner, outside

\* The end of a scan: what is dropped is not in another database, and a
\* database that has not changed since its fingerprint was taken is recorded
\* with exactly its rows.
LEMMA InvEndSite ==
  ASSUME Inv, NEW p \in Process, EndSite(p)
  PROVE  Inv'
<1> DEFINE st == mem[p]
           d == diff[p]
           w == d.at
           kept == Without(st, Unseen(p))
           new == Sees(kept, w, d.held)
<1>1. /\ pc[p] = "load" /\ d.todo = {}
      /\ mem' = [mem EXCEPT ![p] = new]
      /\ dirty' = [dirty EXCEPT ![p] = @ \/ new # st]
      /\ NextSite(p)
      /\ UNCHANGED <<outside, disk, still>>
  BY DEF EndSite, Becomes
<1>2. d \in DiffType /\ ListGood(d) /\ StateGood(st, version) /\ Vouches(st, version, there)
      /\ st \in StateType /\ w \in Sites /\ (w \in Db => ScanGood(d, st, version, there))
  BY <1>1 DEF Inv, Inner, DiffGood, ListGood
<1>3. /\ kept \in StateType /\ kept.seen = st.seen /\ kept.passed = st.passed
      /\ StateGood(kept, version)
      /\ \A s \in Source : kept.record[s] = IF s \in Unseen(p) THEN None ELSE st.record[s]
  BY <1>2, WithoutKeeps, WithoutGood DEF Inv, Outer
<1>4. /\ new \in StateType /\ new.record = kept.record /\ new.passed = st.passed
      /\ \A x \in Db : new.seen[x] = IF x = w THEN d.held ELSE st.seen[x]
  <2>1. CASE w \in Db
    <3>1. new = [kept EXCEPT !.seen[w] = d.held]
      BY <2>1 DEF Sees
    <3>2. d.held \in StampType /\ kept.seen \in [Db -> StampType \cup {None}]
      BY <1>2, <1>3 DEF DiffType, StateType
    <3>3. [kept.seen EXCEPT ![w] = d.held] \in [Db -> StampType \cup {None}]
      BY <3>2
    <3> QED
      BY <1>3, <3>1, <3>2, <3>3 DEF StateType
  <2>2. CASE w \notin Db
    BY <1>3, <2>2 DEF Sees
  <2> QED
    BY <2>1, <2>2
<1>5. StateGood(new, version)
  <2>1. \A s \in Source : d.held[s] =< version[s]
    BY DEF Inv, DiffGood
  <2> QED
    BY <1>3, <1>4, <2>1 DEF StateGood
<1>6. Vouches(new, version, there)
  <2> SUFFICES ASSUME NEW s \in Source, SiteOf[s] \in Db, s \notin new.passed,
                      new.seen[SiteOf[s]] = StampOf(version, SiteOf[s])
               PROVE  IF s \in there THEN Carries(new, s, version[s]) ELSE new.record[s] = None
    BY DEF Vouches
  <2>1. CASE SiteOf[s] = w
    <3>1. d.held[s] = version[s]
      BY <1>4, <2>1 DEF StampOf
    <3>2. d.walk[s] = IF s \in there THEN version[s] ELSE 0
      BY <1>2, <1>4, <2>1, <3>1 DEF ScanGood
    <3>3. CASE s \in there
      <4>1. d.walk[s] # 0 /\ s \notin d.todo
        BY <1>1, <3>2, <3>3 DEF Inv, Outer
      <4>2. Carries(st, s, version[s])
        BY <1>2, <1>4, <2>1, <3>2, <3>3, <4>1 DEF ScanGood
      <4>3. s \notin Unseen(p)
        BY <4>1 DEF Unseen
      <4> QED
        BY <1>3, <1>4, <3>3, <4>2, <4>3 DEF Carries
    <3>4. CASE s \notin there
      <4>1. s \in Unseen(p)
        BY <2>1, <3>2, <3>4 DEF Unseen
      <4> QED
        BY <1>3, <1>4, <3>4, <4>1
    <3> QED
      BY <3>3, <3>4
  <2>2. CASE SiteOf[s] # w
    <3>1. s \notin Unseen(p)
      BY <2>2, SiteAssumption DEF Unseen
    <3>2. IF s \in there THEN Carries(st, s, version[s]) ELSE st.record[s] = None
      BY <1>2, <1>4, <2>2 DEF Vouches
    <3> QED
      BY <1>3, <1>4, <3>1, <3>2 DEF Carries
  <2> QED
    BY <2>1, <2>2
<1>7. /\ diff'[p] \in DiffType /\ diff' = [diff EXCEPT ![p] = diff'[p]]
      /\ pc' = [pc EXCEPT ![p] = "walk"]
      /\ DiffGood(diff'[p], pc'[p], new, version, there)
  BY <1>1, <1>2, NextSiteGood
<1>8. Outer' /\ Inner' /\ mem'[p] = new
  BY <1>1, <1>4, <1>7 DEF Inv, Inner, Outer, outside
<1> QED
  BY <1>1, <1>5, <1>6, <1>7, <1>8, StepFrame DEF Inv, Inner, outside

LEMMA TodoType ==
  ASSUME NEW d \in DiffType, NEW left \in SUBSET Source
  PROVE  [d EXCEPT !.todo = left] \in DiffType
  BY DEF DiffType

LEMMA InvEndSites ==
  ASSUME Inv, NEW p \in Process, EndSites(p)
  PROVE  Inv'
<1> DEFINE kept == Without(mem[p], Unowned(p))
           new == [kept EXCEPT !.passed = @ \cup {s \in Unowned(p) : SiteOf[s] \in Db}]
           todo == {s \in Source : new.record[s] # None /\ new.record[s].state = "pending"}
<1>1. /\ mem' = [mem EXCEPT ![p] = new]
      /\ dirty' = [dirty EXCEPT ![p] = @ \/ new # mem[p]]
      /\ pc' = [pc EXCEPT ![p] = "pending"]
      /\ diff' = [diff EXCEPT ![p].todo = todo]
      /\ UNCHANGED <<outside, disk, still>>
  BY DEF EndSites, Becomes, Goes
<1>2. /\ mem[p] \in StateType /\ StateGood(mem[p], version) /\ Vouches(mem[p], version, there)
      /\ diff[p] \in DiffType /\ Unowned(p) \subseteq Source
  BY DEF Inv, Inner, Unowned
<1>3. /\ kept \in StateType /\ kept.seen = mem[p].seen /\ kept.passed = mem[p].passed
      /\ StateGood(kept, version)
      /\ \A s \in Source : kept.record[s] = IF s \in Unowned(p) THEN None ELSE mem[p].record[s]
  BY <1>2, WithoutKeeps, WithoutGood DEF Inv, Outer
<1>4. /\ new \in StateType /\ new.record = kept.record /\ new.seen = kept.seen
      /\ new.passed = kept.passed \cup {s \in Unowned(p) : SiteOf[s] \in Db}
  BY <1>2, <1>3 DEF StateType
<1>5. StateGood(new, version)
  BY <1>3, <1>4 DEF StateGood
<1>6. Vouches(new, version, there)
  <2> SUFFICES ASSUME NEW s \in Source, SiteOf[s] \in Db, s \notin new.passed,
                      new.seen[SiteOf[s]] = StampOf(version, SiteOf[s])
               PROVE  IF s \in there THEN Carries(new, s, version[s]) ELSE new.record[s] = None
    BY DEF Vouches
  <2>1. s \notin Unowned(p) /\ s \notin mem[p].passed
    BY <1>3, <1>4
  <2>2. new.record[s] = mem[p].record[s]
    BY <1>3, <1>4, <2>1
  <2> QED
    BY <1>2, <1>3, <1>4, <2>1, <2>2 DEF Vouches, Carries
<1>7. /\ diff'[p] = [diff[p] EXCEPT !.todo = todo] /\ todo \in SUBSET Source
      /\ diff'[p] \in DiffType
  <2>1. diff'[p] = [diff[p] EXCEPT !.todo = todo]
    BY <1>1 DEF Inv, Inner
  <2>2. todo \in SUBSET Source
    OBVIOUS
  <2> HIDE DEF todo
  <2> QED
    BY <1>2, <2>1, <2>2, TodoType
<1>8. DiffGood(diff'[p], "pending", new, version, there)
  BY <1>2, <1>7 DEF Inv, DiffGood, DiffType
<1>9. Outer' /\ Inner' /\ mem'[p] = new /\ pc'[p] = "pending"
  BY <1>1, <1>4, <1>7 DEF Inv, Inner, Outer, outside
<1> QED
  BY <1>1, <1>5, <1>6, <1>8, <1>9, StepFrame DEF Inv, Inner, outside

LEMMA InvResolvePending ==
  ASSUME Inv, NEW p \in Process, ResolvePending(p)
  PROVE  Inv'
<1>1. PICK s \in diff[p].todo, failure \in Failure :
        LET r == mem[p].record[s]
            c == Cwd[s][r.body]
            st == Remember(mem[p], c)
        IN /\ Becomes(p, IF Resolves(mem[p], c) THEN Reload(st, s, r.fp, failure) ELSE st)
           /\ diff' = [diff EXCEPT ![p].todo = @ \ {s}]
  BY DEF ResolvePending
<1> DEFINE r == mem[p].record[s]
           st == Remember(mem[p], Cwd[s][r.body])
           new == IF Resolves(mem[p], Cwd[s][r.body]) THEN Reload(st, s, r.fp, failure) ELSE st
<1>2. /\ pc[p] = "pending" /\ pc' = pc /\ mem' = [mem EXCEPT ![p] = new]
      /\ dirty' = [dirty EXCEPT ![p] = @ \/ new # mem[p]]
      /\ diff' = [diff EXCEPT ![p].todo = @ \ {s}]
      /\ UNCHANGED <<outside, disk, still>>
  BY <1>1 DEF ResolvePending, Becomes
<1>3. /\ mem[p] \in StateType /\ StateGood(mem[p], version) /\ Vouches(mem[p], version, there)
      /\ diff[p] \in DiffType /\ s \in Source /\ r # None /\ r \in RecordType
  <2>1. /\ mem[p] \in StateType /\ StateGood(mem[p], version)
        /\ Vouches(mem[p], version, there) /\ diff[p] \in DiffType
    BY DEF Inv, Inner
  <2>2. s \in Source
    BY <2>1 DEF DiffType
  <2>3. r # None
    BY <1>2 DEF Inv, DiffGood
  <2>4. r \in RecordType
    BY <2>1, <2>2, <2>3 DEF StateType
  <2> QED
    BY <2>1, <2>2, <2>3, <2>4
<1>4. r.fp \in 1 .. MaxVersion /\ r.fp =< version[s]
  <2>1. r.fp =< version[s] /\ version[s] \in Nat
    BY <1>3, VersionAssumption DEF StateGood, Inv, Outer, StampType
  <2> QED
    BY <1>3, <2>1, VersionAssumption DEF RecordType
<1>5. /\ st \in StateType /\ st.record = mem[p].record
      /\ StateGood(st, version) /\ Vouches(st, version, there)
  BY <1>3, RememberKeeps, SameRecords DEF Inv
<1>6. Touched(st, new, s, r.fp) /\ new.passed = st.passed
  <2>1. Touched(st, Reload(st, s, r.fp, failure), s, r.fp)
        /\ Reload(st, s, r.fp, failure).passed = st.passed
    BY <1>3, <1>4, <1>5, ReloadTouches DEF Inv
  <2>2. Touched(st, st, s, r.fp)
    BY <1>5 DEF Touched
  <2> QED
    BY <2>1, <2>2
<1>7. StateGood(new, version)
  BY <1>3, <1>4, <1>5, <1>6, TouchedGood DEF Inv
<1>8. Vouches(new, version, there)
  <2>1. Carries(st, s, r.fp)
    BY <1>3, <1>5 DEF Carries
  <2> QED
    BY <1>3, <1>5, <1>6, <2>1, TouchedVouches DEF Inv
<1>9. /\ diff'[p] = [diff[p] EXCEPT !.todo = @ \ {s}] /\ diff'[p] \in DiffType
  <2>1. diff'[p] = [diff[p] EXCEPT !.todo = diff[p].todo \ {s}]
    BY <1>2 DEF Inv, Inner
  <2>2. diff[p].todo \ {s} \in SUBSET Source
    BY <1>3 DEF DiffType
  <2> QED
    BY <1>3, <2>1, <2>2, TodoType
<1>10. \A q \in diff'[p].todo : new.record[q] # None
  <2> SUFFICES ASSUME NEW q \in diff'[p].todo
               PROVE  new.record[q] # None
    OBVIOUS
  <2>1. q \in diff[p].todo \ {s} /\ q \in Source
    BY <1>3, <1>9 DEF DiffType
  <2>2. mem[p].record[q] # None
    BY <1>2, <2>1 DEF Inv, DiffGood
  <2> QED
    BY <1>3, <1>5, <1>6, <2>1, <2>2 DEF Touched
<1>11. DiffGood(diff'[p], "pending", new, version, there)
  BY <1>3, <1>9, <1>10 DEF Inv, DiffGood, DiffType
<1>12. Outer' /\ Inner' /\ mem'[p] = new /\ pc'[p] = "pending"
  BY <1>2, <1>6, <1>9 DEF Inv, Inner, Outer, outside, Touched
<1> QED
  BY <1>2, <1>7, <1>8, <1>11, <1>12, StepFrame DEF Inv, Inner, outside

LEMMA InvSave ==
  ASSUME Inv, NEW p \in Process, Save(p) \/ SaveFails(p) \/ Die(p)
  PROVE  Inv'
<1>1. NoDiff \in DiffType /\ (\A s \in Source : NoDiff.walk[s] = 0 /\ NoDiff.held[s] = 0)
  BY SiteAssumption, VersionAssumption DEF NoDiff, Nothing, DiffType, StampType
<1>2. Empty \in StateType /\ StateGood(Empty, version) /\ Vouches(Empty, version, there)
  BY EmptyGood DEF Inv, Outer, StateGood
<1>3. \A s \in Source : 0 =< version[s]
  BY VersionAssumption DEF Inv, Outer, StampType
<1>4. /\ UNCHANGED <<version, there, locked, present, origin>>
      /\ dirty' = [dirty EXCEPT ![p] = FALSE] \/ dirty' = dirty
      /\ still' = [still EXCEPT ![p] = {}]
      /\ diff' = [diff EXCEPT ![p] = NoDiff]
      /\ \/ pc' = [pc EXCEPT ![p] = "idle"] /\ mem' = mem
         \/ pc' = [pc EXCEPT ![p] = "off"] /\ mem' = [mem EXCEPT ![p] = Empty]
      /\ disk' = disk \/ disk' = mem[p]
  BY DEF Save, SaveFails, Die, Ends, Goes, outside
<1>5. Outer'
  <2>1. changes' \in 0 .. MaxChanges
    BY VersionAssumption DEF Save, SaveFails, Die, outside, Inv, Outer
  <2> QED
    BY <1>4, <2>1 DEF Inv, Outer
<1>6. Inner'
  BY <1>1, <1>2, <1>4 DEF Inv, Inner
<1>7. diff'[p] = NoDiff /\ pc'[p] \in {"idle", "off"} /\ (mem'[p] = mem[p] \/ mem'[p] = Empty)
  BY <1>4 DEF Inv, Inner
<1>8. DiffGood(diff'[p], pc'[p], mem'[p], version, there)
  BY <1>1, <1>3, <1>7 DEF DiffGood
<1> QED
  BY <1>2, <1>4, <1>5, <1>6, <1>7, <1>8, StepFrame DEF Inv, Inner

LEMMA InvResolveDirectory ==
  ASSUME Inv, NEW p \in Process, ResolveDirectory(p)
  PROVE  Inv'
<1>1. PICK d \in Dir, answer \in {"key", "none"} :
        LET st == IF mem[p].repo[d] = "unknown" THEN [mem[p] EXCEPT !.repo[d] = answer] ELSE mem[p]
        IN mem' = [mem EXCEPT ![p] = st] /\ (disk' = st \/ disk' = disk)
  BY DEF ResolveDirectory
<1>2. /\ UNCHANGED <<outside, pc, diff, still>>
      /\ dirty' \in [Process -> BOOLEAN]
  BY DEF ResolveDirectory, Inv, Inner
<1> DEFINE st == IF mem[p].repo[d] = "unknown" THEN [mem[p] EXCEPT !.repo[d] = answer] ELSE mem[p]
<1>3. mem[p] \in StateType
  BY DEF Inv, Inner
<1>4. /\ st \in StateType /\ st.record = mem[p].record
      /\ st.seen = mem[p].seen /\ st.passed = mem[p].passed
  BY <1>3 DEF StateType
<1>5. mem' = [mem EXCEPT ![p] = st] /\ (disk' = st \/ disk' = disk)
  BY <1>1
<1> HIDE DEF st
<1>6. Outer' /\ Inner'
  BY <1>2, <1>4, <1>5 DEF Inv, Outer, Inner, outside
<1>7. /\ StateGood(st, version) /\ Vouches(st, version, there)
      /\ \A x, c : DiffGood(x, c, mem[p], version, there) => DiffGood(x, c, st, version, there)
  BY <1>4, SameRecords DEF Inv
<1>8. ASSUME NEW q \in Process
      PROVE  /\ StateGood(mem'[q], version) /\ Vouches(mem'[q], version, there)
             /\ DiffGood(diff[q], pc[q], mem'[q], version, there)
  BY <1>3, <1>5, <1>7 DEF Inv, Inner
<1> QED
  BY <1>2, <1>5, <1>6, <1>7, <1>8 DEF Inv, outside

-----------------------------------------------------------------------------
(* What happens outside                                                    *)

LEMMA InvGrow ==
  ASSUME Inv, NEW s \in Source, Edit(s) \/ Delete(s)
  PROVE  Inv'
<1>1. /\ version' = [version EXCEPT ![s] = @ + 1] /\ version[s] < MaxVersion
      /\ changes < MaxChanges /\ changes' = changes + 1
      /\ Touches({s})
      /\ there' = there \cup {s} \/ there' = there \ {s}
      /\ UNCHANGED <<locked, present, origin, disk, mem, dirty, pc, diff>>
  BY DEF Edit, Delete, Outside
<1>2. /\ version \in StampType /\ version' \in StampType /\ version'[s] > version[s]
      /\ version'[s] # 0 /\ \A r \in Source \ {s} : version'[r] = version[r]
  BY <1>1, VersionAssumption DEF Inv, Outer, StampType
<1>3. there' \subseteq Source /\ \A r \in Source \ {s} : r \in there <=> r \in there'
  BY <1>1 DEF Inv, Outer
<1>4. Outer'
  <2>1. changes' \in 0 .. MaxChanges
    BY <1>1, VersionAssumption DEF Inv, Outer
  <2> QED
    BY <1>1, <1>2, <1>3, <2>1 DEF Inv, Outer
<1>5. Inner'
  BY <1>1 DEF Inv, Inner, Touches
<1>6. StateGood(disk, version') /\ Vouches(disk, version', there')
  BY <1>2, <1>3, GrowGood DEF Inv
<1>7. ASSUME NEW p \in Process
      PROVE  /\ StateGood(mem[p], version') /\ Vouches(mem[p], version', there')
             /\ DiffGood(diff[p], pc[p], mem[p], version', there')
  <2>1. StateGood(mem[p], version) /\ Vouches(mem[p], version, there)
        /\ DiffGood(diff[p], pc[p], mem[p], version, there)
    BY DEF Inv
  <2> QED
    BY <1>2, <1>3, <2>1, GrowGood, GrowDiff
<1> QED
  BY <1>1, <1>4, <1>5, <1>6, <1>7 DEF Inv

LEMMA InvOutside ==
  ASSUME Inv,
         \/ \E s \in Source : Lock(s) \/ Unlock(s)
         \/ \E w \in Sites : Toggle(w)
         \/ \E d \in Dir : Rewire(d)
         \/ LoseFile
  PROVE  Inv'
<1>1. /\ UNCHANGED <<version, there, mem, dirty, pc, diff>>
      /\ locked' \subseteq Source /\ present' \subseteq Sites
      /\ changes' \in 0 .. MaxChanges
      /\ disk' = disk \/ disk' = Empty
  <2>1. UNCHANGED <<version, there, mem, dirty, pc, diff>> /\ (disk' = disk \/ disk' = Empty)
    BY DEF Lock, Unlock, Toggle, Rewire, LoseFile
  <2>2. locked' \subseteq Source /\ present' \subseteq Sites
    BY DEF Lock, Unlock, Toggle, Rewire, LoseFile, Inv, Outer
  <2>3. changes' = changes \/ Outside
    BY DEF Lock, Unlock, Toggle, Rewire, LoseFile
  <2>4. changes' \in 0 .. MaxChanges
    BY <2>3, VersionAssumption DEF Outside, Inv, Outer
  <2> QED
    BY <2>1, <2>2, <2>4
<1>2. origin' \in [Dir -> {"key", "none", "gone"}]
  BY DEF Lock, Unlock, Toggle, Rewire, LoseFile, Inv, Outer
<1>3. still' \in [Process -> SUBSET Source]
  BY DEF Lock, Unlock, Toggle, Rewire, LoseFile, Touches, Inv, Inner
<1>4. Outer' /\ Inner'
  BY <1>1, <1>2, <1>3 DEF Inv, Outer, Inner
<1>5. StateGood(disk', version) /\ Vouches(disk', version, there)
  BY <1>1, EmptyGood DEF Inv, Outer
<1> QED
  BY <1>1, <1>4, <1>5 DEF Inv

LEMMA InvRetry ==
  ASSUME Inv, Retry
  PROVE  Inv'
<1>1. /\ disk' = Forget(disk) /\ mem' = [p \in Process |-> Forget(mem[p])]
      /\ Touches(Source)
      /\ UNCHANGED <<outside, dirty, pc, diff>>
  BY DEF Retry
<1>2. Outer'
  BY <1>1 DEF Inv, Outer, outside
<1>3. Inner'
  BY <1>1, ForgetKeeps DEF Inv, Inner, Touches
<1>4. StateGood(disk', version) /\ Vouches(disk', version, there)
  <2>1. disk \in StateType
    BY DEF Inv, StateGood
  <2> QED
    BY <1>1, <2>1, ForgetKeeps, SameRecords DEF Inv
<1>5. ASSUME NEW p \in Process
      PROVE  /\ StateGood(mem'[p], version) /\ Vouches(mem'[p], version, there)
             /\ DiffGood(diff[p], pc[p], mem'[p], version, there)
  <2>1. mem[p] \in StateType /\ mem'[p] = Forget(mem[p])
    BY <1>1 DEF Inv, Inner
  <2> QED
    BY <2>1, ForgetKeeps, SameRecords DEF Inv
<1> QED
  BY <1>1, <1>2, <1>3, <1>4, <1>5 DEF Inv, outside

-----------------------------------------------------------------------------
(* A diff, of the sources that nothing happens to                          *)

\* The record of s is that of its body as it is, which was read.
Current(st, s) == Carries(st, s, version[s]) /\ st.record[s].body # Unread

\* The record of s, of a site that is found, is that of the source as it is.
Known(st, s) == IF s \in there THEN Current(st, s) ELSE st.record[s] = None

\* What a diff of the state st at the step c has made of the source s, if
\* nothing happened to s since it began and s can be read: it is not given up;
\* when its site has been scanned, s is known; while it is scanned, s is listed
\* as it is and is known once it was considered.  At last, the record of a source of no site is
\* gone, and one that was gone through waits for its directory only if that
\* does not resolve.
SourceGood(d, c, st, s) ==
    /\ d.at \in 1 .. SiteCount + 1
    /\ c \in {"walk", "discover", "load", "pending"}
    /\ c = "pending" => d.at = SiteCount + 1
    /\ SiteOf[s] \in d.sites <=> SiteOf[s] \in present
    /\ c \in {"discover", "load"} /\ SiteOf[s] = d.at => SiteOf[s] \in present
    /\ c # "pending" /\ s \notin Unreadable => s \notin GivenUp(st)
    /\ c = "load" /\ s \notin Unreadable /\ SiteOf[s] = d.at =>
          d.walk[s] = IF s \in there THEN version[s] ELSE 0
    /\ s \notin Unreadable \cup st.passed =>
          /\ SiteOf[s] \in present /\ SiteOf[s] < d.at => Known(st, s)
          /\ c = "load" /\ SiteOf[s] = d.at /\ s \in there /\ s \notin d.todo =>
                Current(st, s)
          /\ c = "pending" /\ SiteOf[s] \notin present => st.record[s] = None
          /\ c = "pending" /\ st.record[s] # None /\ st.record[s].state = "pending"
                /\ s \notin d.todo => ~Resolves(st, Cwd[s][version[s]])

StillInv == \A p \in Process : \A s \in still[p] : SourceGood(diff[p], pc[p], mem[p], s)

\* A step of p has only to keep what is known of p.
LEMMA StillFrame ==
  ASSUME StillInv, NEW p \in Process,
         UNCHANGED <<version, there, locked, present, origin>>,
         \A q \in Process \ {p} : /\ mem'[q] = mem[q] /\ diff'[q] = diff[q]
                                  /\ pc'[q] = pc[q] /\ still'[q] = still[q],
         \A s \in still'[p] : SourceGood(diff'[p], pc'[p], mem'[p], s)
  PROVE  StillInv'
<1> SUFFICES ASSUME NEW q \in Process, NEW s \in still'[q]
             PROVE  SourceGood(diff[q], pc[q], mem[q], s)'
  BY DEF StillInv
<1>1. SourceGood(diff'[q], pc'[q], mem'[q], s)
  <2>1. CASE q = p
    BY <2>1
  <2>2. CASE q # p
    BY <2>2 DEF StillInv
  <2> QED
    BY <2>1, <2>2
<1>2. Unreadable' = Unreadable
  BY DEF Unreadable
<1> QED
  BY <1>1, <1>2 DEF SourceGood, Known, Current, GivenUp, Carries, Resolves

\* What git is asked, and what is remembered of it, gives the same answer.
LEMMA RememberResolves ==
  ASSUME NEW st \in StateType, NEW d, NEW e
  PROVE  Resolves(Remember(st, d), e) <=> Resolves(st, e)
<1>1. CASE Remember(st, d) = st
  BY <1>1
<1>2. CASE Remember(st, d) # st
  <2>1. /\ Remember(st, d) = [st EXCEPT !.repo[d] = origin[d]]
        /\ origin[d] # "gone" /\ st.repo[d] = "unknown"
    BY <1>2 DEF Remember
  <2>2. Remember(st, d).repo = [st.repo EXCEPT ![d] = origin[d]]
    BY <2>1 DEF StateType
  <2>3. st.repo \in [Dir -> {"unknown", "none", "key"}]
    BY DEF StateType
  <2>4. CASE d \in Dir
    <3>1. CASE e = d
      <4>1. Remember(st, d).repo[e] = origin[d]
        BY <2>2, <2>3, <2>4, <3>1
      <4> QED
        BY <2>1, <3>1, <4>1 DEF Resolves
    <3>2. CASE e # d
      <4>1. Remember(st, d).repo[e] = st.repo[e]
        BY <2>2, <2>3, <3>2
      <4> QED
        BY <4>1 DEF Resolves
    <3> QED
      BY <3>1, <3>2
  <2>5. CASE d \notin Dir
    <3>1. Remember(st, d).repo = st.repo
      BY <2>2, <2>3, <2>5
    <3> QED
      BY <3>1 DEF Resolves
  <2> QED
    BY <2>4, <2>5
<1> QED
  BY <1>1, <1>2

LEMMA ReloadResolves ==
  ASSUME Outer, NEW st \in StateType, NEW s \in Source,
         NEW fp \in 1 .. MaxVersion, fp =< version[s], NEW failure, NEW e
  PROVE  Resolves(Reload(st, s, fp, failure), e) <=> Resolves(st, e)
<1>1. \/ Reload(st, s, fp, failure).repo = st.repo
      \/ \E d : Reload(st, s, fp, failure).repo = Remember(st, d).repo
  <2>1. ReadAs(st, s, fp).repo = st.repo \/ \E d : ReadAs(st, s, fp).repo = Remember(st, d).repo
    BY ReadAsReads
  <2>2. \A r : [st EXCEPT !.record[s] = r].repo = st.repo
    BY DEF StateType
  <2> QED
    BY <2>1, <2>2 DEF Reload
<1>2. \A d : Resolves(Remember(st, d), e) <=> Resolves(st, e)
  BY RememberResolves
<1> QED
  BY <1>1, <1>2 DEF Resolves

\* A source that can be read is read.
LEMMA ReloadReads ==
  ASSUME Outer, NEW st \in StateType, NEW s \in Source,
         NEW fp \in 1 .. MaxVersion, fp =< version[s], NEW failure,
         s \notin locked, s \in there, SiteOf[s] \in present
  PROVE  LET new == Reload(st, s, fp, failure)
         IN /\ Carries(new, s, fp) /\ new.record[s].body = version[s]
            /\ new.record[s].state = "pending" => ~Resolves(st, Cwd[s][version[s]])
<1>1. Reload(st, s, fp, failure) = ReadAs(st, s, fp)
  BY DEF Reload, Gone
<1> QED
  BY <1>1, ReadAsReads

\* A source that can be read, and was not given up, is known by its record
\* once it was considered under its fingerprint.
LEMMA ReconsiderReads ==
  ASSUME Outer, NEW st \in StateType, NEW s \in Source,
         version[s] \in 1 .. MaxVersion, NEW failure,
         s \notin locked, s \in there, SiteOf[s] \in present, s \notin GivenUp(st)
  PROVE  Current(Reconsider(st, s, version[s], failure), s)
<1> DEFINE fp == version[s]
           old == IF Carries(st, s, fp) THEN st ELSE Reload(st, s, fp, failure)
<1>1. fp \in 1 .. MaxVersion /\ fp =< version[s]
  BY VersionAssumption
<1>2. Current(old, s)
  <2>1. CASE Carries(st, s, fp)
    BY <2>1 DEF GivenUp, Current
  <2>2. CASE ~Carries(st, s, fp)
    BY <1>1, <2>2, ReloadReads DEF Current, Unread
  <2> QED
    BY <2>1, <2>2
<1>3. old \in StateType
  BY <1>1, ReloadTouches DEF Touched
<1>4. Reconsider(st, s, fp, failure).record = old.record
  BY <1>3 DEF Reconsider, StateType
<1> QED
  BY <1>2, <1>4 DEF Current, Carries

LEMMA StillBegin ==
  ASSUME Inv, StillInv, NEW p \in Process, Begin(p)
  PROVE  StillInv'
<1>1. /\ pc' = [pc EXCEPT ![p] = "walk"]
      /\ still' = [still EXCEPT ![p] = Source \ GivenUp(mem[p])]
      /\ diff' = [diff EXCEPT ![p].at = 1, ![p].sites = present]
      /\ UNCHANGED <<outside, disk, mem, dirty>>
  BY DEF Begin, Goes
<1>2. /\ diff'[p].at = 1 /\ diff'[p].sites = present /\ pc'[p] = "walk"
      /\ mem'[p] = mem[p] /\ still'[p] = Source \ GivenUp(mem[p])
  BY <1>1 DEF Inv, Inner, DiffType
<1>3. 1 \in 1 .. SiteCount + 1 /\ \A s \in Source : ~(SiteOf[s] < 1)
  BY SiteAssumption DEF Sites
<1>4. \A s \in still'[p] : SourceGood(diff'[p], pc'[p], mem'[p], s)
  BY <1>2, <1>3 DEF SourceGood
<1> QED
  BY <1>1, <1>4, StillFrame DEF outside, Inv, Inner

\* Going on to the next site, when a source of this one is known.
LEMMA StillNextSite ==
  ASSUME Inv, NEW p \in Process, NextSite(p), diff[p].at \in Sites,
         NEW s \in Source, NEW old, SourceGood(diff[p], pc[p], old, s),
         NEW st, s \notin Unreadable => s \notin GivenUp(st),
         s \notin Unreadable \cup st.passed /\ SiteOf[s] \in present
                    /\ SiteOf[s] =< diff[p].at => Known(st, s)
  PROVE  SourceGood(diff'[p], pc'[p], st, s)
<1>1. diff' = [diff EXCEPT ![p].at = @ + 1, ![p].walk = Nothing, ![p].held = Nothing]
      /\ pc' = [pc EXCEPT ![p] = "walk"]
  BY DEF NextSite, Goes
<1>2. diff'[p].at = diff[p].at + 1 /\ diff'[p].sites = diff[p].sites /\ pc'[p] = "walk"
  BY <1>1 DEF Inv, Inner, DiffType
<1>3. diff[p].at + 1 \in 1 .. SiteCount + 1
      /\ (SiteOf[s] < diff[p].at + 1 => SiteOf[s] =< diff[p].at)
  BY SiteAssumption DEF Sites
<1> QED
  BY <1>2, <1>3 DEF SourceGood

LEMMA StillSkip ==
  ASSUME Inv, StillInv, NEW p \in Process, Skip(p) \/ DiscoverFails(p)
  PROVE  StillInv'
<1> DEFINE w == diff[p].at
           st == mem[p]
<1>1. NextSite(p) /\ UNCHANGED <<outside, disk, mem, dirty, still>>
  BY DEF Skip, DiscoverFails
<1>2. w \in Sites
  BY SiteAssumption DEF Skip, DiscoverFails, Inv, DiffGood
<1>3. ASSUME NEW s \in still'[p]
      PROVE  SourceGood(diff'[p], pc'[p], mem'[p], s)
  <2>1. SourceGood(diff[p], pc[p], st, s) /\ s \in Source
        /\ (s \notin Unreadable => s \notin GivenUp(st))
    BY <1>1 DEF StillInv, Inv, Inner, SourceGood, Skip, DiscoverFails
  <2>2. ASSUME s \notin Unreadable \cup st.passed, SiteOf[s] \in present, SiteOf[s] =< w
        PROVE  Known(st, s)
    <3>1. CASE SiteOf[s] # w
      <4>1. SiteOf[s] < w
        BY <1>2, <2>1, <2>2, <3>1, SiteAssumption DEF Sites
      <4> QED
        BY <2>1, <2>2, <4>1 DEF SourceGood
    <3>2. CASE SiteOf[s] = w /\ Skip(p)
      <4>1. w \in Db /\ st.seen[w] = StampOf(version, w)
        BY <1>2, <2>1, <2>2, <3>2 DEF Skip, SourceGood, DbStamp, StampOf
      <4> QED
        BY <2>1, <2>2, <3>2, <4>1 DEF Inv, Vouches, Known, Current, GivenUp
    <3>3. CASE SiteOf[s] = w /\ DiscoverFails(p)
      <4>1. w \in Db /\ \E r \in locked : SiteOf[r] = w
        BY <2>2, <3>3 DEF DiscoverFails, Inv, DiffGood
      <4>2. s \in Unreadable
        BY <2>1, <3>3, <4>1 DEF Unreadable
      <4> QED
        BY <2>2, <4>2
    <3> QED
      BY <3>1, <3>2, <3>3
  <2>3. SourceGood(diff'[p], pc'[p], st, s)
    BY <1>1, <1>2, <2>1, <2>2, StillNextSite
  <2> QED
    BY <1>1, <2>3
<1>4. \A q \in Process \ {p} : diff'[q] = diff[q] /\ pc'[q] = pc[q]
  BY <1>1 DEF NextSite, Goes, Inv, Inner
<1> QED
  BY <1>1, <1>3, <1>4, StillFrame DEF outside

LEMMA StillStamp ==
  ASSUME Inv, StillInv, NEW p \in Process, Stamp(p)
  PROVE  StillInv'
<1> DEFINE w == diff[p].at
<1>1. /\ pc[p] = "walk" /\ w \in diff[p].sites
      /\ pc' = [pc EXCEPT ![p] = "discover"]
      /\ diff' = [diff EXCEPT ![p].held = DbStamp(w)]
      /\ UNCHANGED <<outside, disk, mem, dirty, still>>
  BY DEF Stamp, Goes
<1>2. diff'[p].at = w /\ diff'[p].sites = diff[p].sites /\ pc'[p] = "discover" /\ mem'[p] = mem[p]
  BY <1>1 DEF Inv, Inner, DiffType
<1>3. \A s \in still'[p] : SourceGood(diff'[p], pc'[p], mem'[p], s)
  BY <1>1, <1>2 DEF StillInv, SourceGood
<1> QED
  BY <1>1, <1>3, StillFrame DEF outside, Inv, Inner

\* A walk or an enumeration lists what can be read as it is.
LEMMA StillLists ==
  ASSUME Inv, StillInv, NEW p \in Process, Walk(p) \/ Discover(p)
  PROVE  StillInv'
<1> DEFINE w == diff[p].at
<1>1. PICK listing :
        /\ Lists(p, listing)
        /\ \A s \in Source : s \notin locked => listing[s] = Listing(w)[s]
        /\ (pc[p] = "walk" /\ w \in diff[p].sites) \/ pc[p] = "discover"
  <2>1. CASE Walk(p)
    <3>1. PICK over \in {{}, locked} :
             Lists(p, [s \in Source |-> IF s \in over THEN 0 ELSE Listing(w)[s]])
      BY <2>1 DEF Walk
    <3>2. pc[p] = "walk" /\ w \in diff[p].sites
      BY <2>1 DEF Walk
    <3> QED
      BY <3>1, <3>2
  <2>2. CASE Discover(p)
    BY <2>2 DEF Discover
  <2> QED
    BY <2>1, <2>2
<1> DEFINE todo == {s \in Source : listing[s] # 0}
<1>2. /\ pc' = [pc EXCEPT ![p] = "load"]
      /\ diff' = [diff EXCEPT ![p].walk = listing, ![p].todo = todo]
      /\ UNCHANGED <<outside, disk, mem, dirty, still>>
  BY <1>1 DEF Lists, Goes
<1>3. /\ diff'[p].at = w /\ diff'[p].sites = diff[p].sites /\ diff'[p].walk = listing
      /\ diff'[p].todo = todo /\ pc'[p] = "load" /\ mem'[p] = mem[p]
  BY <1>2 DEF Inv, Inner, DiffType
<1>4. ASSUME NEW s \in still'[p]
      PROVE  SourceGood(diff'[p], pc'[p], mem'[p], s)
  <2>1. SourceGood(diff[p], pc[p], mem[p], s) /\ s \in Source
    BY <1>2 DEF StillInv, Inv, Inner
  <2>2. SiteOf[s] = w => SiteOf[s] \in present
    BY <1>1, <2>1 DEF SourceGood
  <2>3. s \notin Unreadable /\ SiteOf[s] = w => listing[s] = IF s \in there THEN version[s] ELSE 0
    BY <1>1, <2>1, <2>2, ListingGood DEF Unreadable
  <2>4. s \notin Unreadable /\ SiteOf[s] = w /\ s \in there => s \in todo
    BY <2>1, <2>3 DEF Inv, Outer
  <2>5. s \notin Unreadable => s \notin GivenUp(mem[p])
    BY <1>1, <2>1 DEF SourceGood
  <2> HIDE DEF todo
  <2> QED
    BY <1>3, <2>1, <2>2, <2>3, <2>4, <2>5 DEF SourceGood
<1> QED
  BY <1>2, <1>4, StillFrame DEF outside, Inv, Inner

\* A database that vanished has no row that nothing happened to.
LEMMA StillDiscoverNothing ==
  ASSUME Inv, StillInv, NEW p \in Process, DiscoverNothing(p)
  PROVE  StillInv'
<1> DEFINE w == diff[p].at
           rows == {s \in Source : SiteOf[s] = w}
           st == mem[p]
           new == [st EXCEPT !.passed = @ \cup rows]
<1>1. /\ pc[p] = "discover" /\ w \notin present /\ pc' = [pc EXCEPT ![p] = "load"]
      /\ diff' = [diff EXCEPT ![p].walk = Nothing, ![p].todo = {}]
      /\ mem' = [mem EXCEPT ![p].passed = @ \cup rows]
      /\ UNCHANGED <<outside, disk, dirty, still>>
  BY DEF DiscoverNothing, Goes
<1>2. new.record = st.record /\ st.passed \subseteq new.passed /\ mem'[p] = new
  BY <1>1 DEF Inv, Inner, StateType
<1>3. diff'[p].at = w /\ diff'[p].sites = diff[p].sites /\ pc'[p] = "load"
  BY <1>1 DEF Inv, Inner, DiffType
<1> HIDE DEF new
<1>4. ASSUME NEW s \in still'[p]
      PROVE  SourceGood(diff'[p], pc'[p], mem'[p], s)
  <2>1. SourceGood(diff[p], "discover", st, s) /\ s \in Source
    BY <1>1 DEF StillInv, Inv, Inner
  <2>2. SiteOf[s] # w
    BY <1>1, <2>1 DEF SourceGood
  <2>3. s \in GivenUp(new) <=> s \in GivenUp(st)
    BY <1>2 DEF GivenUp, Carries
  <2>4. Known(new, s) <=> Known(st, s)
    BY <1>2 DEF Known, Current, Carries
  <2> QED
    BY <1>2, <1>3, <2>1, <2>2, <2>3, <2>4 DEF SourceGood
<1> QED
  BY <1>1, <1>4, StillFrame DEF outside, Inv, Inner

LEMMA StillLoad ==
  ASSUME Inv, StillInv, NEW p \in Process, Load(p)
  PROVE  StillInv'
<1> DEFINE st == mem[p]
           d == diff[p]
<1>1. PICK s \in d.todo, failure \in Failure :
        /\ Becomes(p, Reconsider(st, s, d.walk[s], failure))
        /\ diff' = [diff EXCEPT ![p].todo = @ \ {s}]
  BY DEF Load
<1> DEFINE new == Reconsider(st, s, d.walk[s], failure)
<1>2. /\ pc[p] = "load" /\ pc' = pc /\ mem' = [mem EXCEPT ![p] = new]
      /\ UNCHANGED <<outside, disk, still>>
  BY <1>1 DEF Load, Becomes
<1>3. d \in DiffType /\ ListGood(d) /\ st \in StateType
  BY <1>2 DEF Inv, Inner, DiffGood
<1>4. s \in Source /\ SiteOf[s] = d.at /\ d.walk[s] \in 1 .. MaxVersion /\ d.walk[s] =< version[s]
  <2>1. s \in Source /\ d.walk[s] # 0 /\ d.walk[s] \in 0 .. MaxVersion
    BY <1>3 DEF ListGood, DiffType, StampType
  <2> QED
    BY <1>3, <2>1, VersionAssumption DEF ListGood, Inv, DiffGood
<1>5. Touched(st, new, s, d.walk[s])
  BY <1>3, <1>4, ReconsiderTouches DEF Inv
<1>6. /\ diff'[p].at = d.at /\ diff'[p].sites = d.sites /\ diff'[p].walk = d.walk
      /\ diff'[p].todo = d.todo \ {s} /\ pc'[p] = "load" /\ mem'[p] = new
  BY <1>1, <1>2, <1>3 DEF Inv, Inner, DiffType
<1>7. ASSUME NEW r \in still'[p]
      PROVE  SourceGood(diff'[p], pc'[p], mem'[p], r)
  <2>1. SourceGood(d, "load", st, r) /\ r \in Source
    BY <1>2 DEF StillInv, Inv, Inner
  <2>2. CASE r = s
    <3>1. ~(SiteOf[s] < d.at)
      BY <1>4, SiteAssumption DEF Sites
    <3>2. s \notin Unreadable => Current(new, s)
      <4> SUFFICES ASSUME s \notin Unreadable
                   PROVE  Current(new, s)
        OBVIOUS
      <4>1. d.walk[s] = IF s \in there THEN version[s] ELSE 0
        BY <1>4, <2>1, <2>2 DEF SourceGood
      <4>2. s \in there /\ d.walk[s] = version[s]
        BY <1>4, <4>1, VersionAssumption
      <4>3. SiteOf[s] \in present /\ s \notin locked
        BY <1>4, <2>1, <2>2 DEF SourceGood, Unreadable
      <4>4. s \notin GivenUp(st)
        BY <2>1, <2>2 DEF SourceGood
      <4>5. Current(Reconsider(st, s, version[s], failure), s)
        BY <1>3, <1>4, <4>2, <4>3, <4>4, ReconsiderReads DEF Inv
      <4> QED
        BY <4>2, <4>5
    <3>3. s \notin Unreadable => s \notin GivenUp(new)
      BY <3>2 DEF Current, GivenUp
    <3> HIDE DEF new
    <3> QED
      BY <1>6, <2>1, <2>2, <3>1, <3>2, <3>3 DEF SourceGood
  <2>3. CASE r # s
    <3>1. new.record[r] = st.record[r] /\ (r \in new.passed <=> r \in st.passed)
      BY <1>5, <2>1, <2>3 DEF Touched
    <3>2. (Known(new, r) <=> Known(st, r)) /\ (Current(new, r) <=> Current(st, r))
          /\ (r \in GivenUp(new) <=> r \in GivenUp(st))
      BY <3>1 DEF Known, Current, GivenUp, Carries
    <3> HIDE DEF new
    <3> QED
      BY <1>6, <2>1, <2>3, <3>1, <3>2 DEF SourceGood
  <2> QED
    BY <2>2, <2>3
<1> QED
  BY <1>1, <1>2, <1>7, StillFrame DEF outside, Inv, Inner

\* drop_unseen leaves what earlier sites have read, as it takes the records of
\* later ones only.
LEMMA StillEndSite ==
  ASSUME ShadowsComeFirst, Inv, StillInv, NEW p \in Process, EndSite(p)
  PROVE  StillInv'
<1> DEFINE st == mem[p]
           d == diff[p]
           kept == Without(st, Unseen(p))
           new == Sees(kept, d.at, d.held)
<1>1. /\ pc[p] = "load" /\ d.todo = {}
      /\ mem' = [mem EXCEPT ![p] = new]
      /\ NextSite(p)
      /\ UNCHANGED <<outside, disk, still>>
  BY DEF EndSite, Becomes
<1>2. d \in DiffType /\ ListGood(d) /\ st \in StateType /\ d.at \in Sites
  BY <1>1 DEF Inv, Inner, DiffGood, ListGood
<1>3. /\ kept \in StateType /\ kept.passed = st.passed
      /\ \A s \in Source : kept.record[s] = IF s \in Unseen(p) THEN None ELSE st.record[s]
  BY <1>2, WithoutKeeps
<1>4. new.record = kept.record /\ new.passed = st.passed
  BY <1>3 DEF Sees, StateType
<1>5. ASSUME NEW s \in still'[p]
      PROVE  SourceGood(diff'[p], pc'[p], mem'[p], s)
  <2>1. SourceGood(d, "load", st, s) /\ s \in Source
    BY <1>1 DEF StillInv, Inv, Inner
  <2>2. ASSUME s \notin Unreadable \cup new.passed, SiteOf[s] \in present, SiteOf[s] =< d.at
        PROVE  Known(new, s)
    <3>1. CASE SiteOf[s] # d.at
      <4>1. SiteOf[s] \in Sites /\ SiteOf[s] < d.at
        BY <1>2, <2>1, <2>2, <3>1, SiteAssumption DEF Sites
      <4>2. <<d.at, SiteOf[s]>> \notin Shadow
        BY <1>2, <4>1 DEF ShadowsComeFirst, Sites
      <4>3. new.record[s] = st.record[s]
        BY <1>3, <1>4, <2>1, <3>1, <4>2 DEF Unseen
      <4>4. Known(st, s)
        BY <1>4, <2>1, <2>2, <4>1 DEF SourceGood
      <4> QED
        BY <4>3, <4>4 DEF Known, Current, Carries
    <3>2. CASE SiteOf[s] = d.at
      <4>1. d.walk[s] = IF s \in there THEN version[s] ELSE 0
        BY <2>1, <2>2, <3>2 DEF SourceGood
      <4>2. CASE s \in there
        <5>1. Current(st, s)
          BY <1>1, <1>4, <2>1, <2>2, <3>2, <4>2 DEF SourceGood
        <5>2. s \notin Unseen(p)
          BY <4>1, <4>2 DEF Unseen, Inv, Outer
        <5> QED
          BY <1>3, <1>4, <2>1, <4>2, <5>1, <5>2 DEF Known, Current, Carries
      <4>3. CASE s \notin there
        <5>1. s \in Unseen(p)
          BY <2>1, <3>2, <4>1, <4>3 DEF Unseen
        <5> QED
          BY <1>3, <1>4, <2>1, <4>3, <5>1 DEF Known
      <4> QED
        BY <4>2, <4>3
    <3> QED
      BY <3>1, <3>2
  <2>3. s \notin Unreadable => s \notin GivenUp(new)
    BY <1>3, <1>4, <2>1 DEF SourceGood, GivenUp, Carries
  <2>4. SourceGood(diff'[p], pc'[p], new, s)
    <3> HIDE DEF new
    <3> QED
      BY <1>1, <1>2, <2>1, <2>2, <2>3, StillNextSite
  <2>5. mem'[p] = new
    BY <1>1 DEF Inv, Inner
  <2> QED
    BY <2>4, <2>5
<1>6. \A q \in Process \ {p} : diff'[q] = diff[q] /\ pc'[q] = pc[q]
  BY <1>1 DEF NextSite, Goes, Inv, Inner
<1> QED
  BY <1>1, <1>5, <1>6, StillFrame DEF outside, Inv, Inner

LEMMA StillEndSites ==
  ASSUME Inv, StillInv, NEW p \in Process, EndSites(p)
  PROVE  StillInv'
<1> DEFINE st == mem[p]
           d == diff[p]
           kept == Without(st, Unowned(p))
           new == [kept EXCEPT !.passed = @ \cup {s \in Unowned(p) : SiteOf[s] \in Db}]
           todo == {s \in Source : new.record[s] # None /\ new.record[s].state = "pending"}
<1>1. /\ pc[p] = "walk" /\ d.at = SiteCount + 1
      /\ mem' = [mem EXCEPT ![p] = new]
      /\ pc' = [pc EXCEPT ![p] = "pending"]
      /\ diff' = [diff EXCEPT ![p].todo = todo]
      /\ UNCHANGED <<outside, disk, still>>
  BY DEF EndSites, Becomes, Goes
<1>2. /\ kept \in StateType /\ kept.passed = st.passed
      /\ \A s \in Source : kept.record[s] = IF s \in Unowned(p) THEN None ELSE st.record[s]
  BY WithoutKeeps DEF Inv, Inner
<1>3. new.record = kept.record /\ st.passed \subseteq new.passed
  BY <1>2 DEF StateType
<1> HIDE DEF new
<1>4. /\ diff'[p].at = SiteCount + 1 /\ diff'[p].sites = d.sites /\ diff'[p].todo = todo
      /\ pc'[p] = "pending" /\ mem'[p] = new
  BY <1>1 DEF Inv, Inner, DiffType
<1>5. ASSUME NEW s \in still'[p]
      PROVE  SourceGood(diff'[p], pc'[p], mem'[p], s)
  <2>1. SourceGood(d, "walk", st, s) /\ s \in Source
    BY <1>1 DEF StillInv, Inv, Inner
  <2>2. SiteCount + 1 \in 1 .. SiteCount + 1 /\ SiteOf[s] < SiteCount + 1
    BY <2>1, SiteAssumption DEF Sites
  <2>3. ASSUME s \notin Unreadable \cup new.passed
        PROVE  IF SiteOf[s] \in present THEN Known(new, s) ELSE new.record[s] = None
    <3>1. s \in Unowned(p) <=> SiteOf[s] \notin present
      BY <2>1 DEF Unowned, SourceGood
    <3>2. SiteOf[s] \in present => Known(st, s)
      BY <1>1, <1>3, <2>1, <2>2, <2>3 DEF SourceGood
    <3> QED
      BY <1>2, <1>3, <2>1, <3>1, <3>2 DEF Known, Current, Carries
  <2>4. new.record[s] # None /\ new.record[s].state = "pending" => s \in todo
    BY <2>1
  <2> HIDE DEF todo
  <2> QED
    BY <1>4, <2>1, <2>2, <2>3, <2>4 DEF SourceGood
<1> QED
  BY <1>1, <1>5, StillFrame DEF outside, Inv, Inner

\* Going through the pending records settles each of them: what is remembered
\* meanwhile of a directory changes no other record's answer.
LEMMA StillResolvePending ==
  ASSUME Inv, StillInv, NEW p \in Process, ResolvePending(p)
  PROVE  StillInv'
<1> DEFINE old == mem[p]
           d == diff[p]
<1>1. PICK s \in d.todo, failure \in Failure :
        LET r == old.record[s]
            c == Cwd[s][r.body]
            st == Remember(old, c)
        IN /\ Becomes(p, IF Resolves(old, c) THEN Reload(st, s, r.fp, failure) ELSE st)
           /\ diff' = [diff EXCEPT ![p].todo = @ \ {s}]
  BY DEF ResolvePending
<1> DEFINE r == old.record[s]
           c == Cwd[s][r.body]
           st == Remember(old, c)
           new == IF Resolves(old, c) THEN Reload(st, s, r.fp, failure) ELSE st
<1>2. /\ pc[p] = "pending" /\ pc' = pc /\ mem' = [mem EXCEPT ![p] = new]
      /\ diff' = [diff EXCEPT ![p].todo = @ \ {s}]
      /\ UNCHANGED <<outside, disk, still>>
  BY <1>1 DEF ResolvePending, Becomes
<1>3. old \in StateType /\ StateGood(old, version) /\ d \in DiffType /\ s \in Source
  BY <1>2 DEF Inv, Inner, DiffType
<1>4. r # None /\ r \in RecordType
  BY <1>2, <1>3 DEF Inv, DiffGood, StateType
<1>5. /\ version[s] \in Nat /\ r.fp \in 1 .. MaxVersion /\ r.body \in Nat
      /\ r.body # Unread => r.fp =< r.body /\ r.body =< version[s]
  BY <1>3, <1>4, VersionAssumption DEF StateGood, Inv, Outer, StampType, RecordType, Unread
<1>6. r.fp =< version[s]
  BY <1>3, <1>4 DEF StateGood
<1>7. st \in StateType /\ st.record = old.record /\ st.passed = old.passed
  BY <1>3, RememberKeeps DEF Inv
<1>8. Touched(st, new, s, r.fp) /\ new.passed = old.passed
  <2>1. Touched(st, Reload(st, s, r.fp, failure), s, r.fp)
        /\ Reload(st, s, r.fp, failure).passed = st.passed
    BY <1>3, <1>5, <1>6, <1>7, ReloadTouches DEF Inv
  <2>2. Touched(st, st, s, r.fp)
    BY <1>7 DEF Touched
  <2> QED
    BY <1>7, <2>1, <2>2
<1>9. \A e : Resolves(new, e) <=> Resolves(old, e)
  BY <1>3, <1>5, <1>6, <1>7, RememberResolves, ReloadResolves DEF Inv
<1>10. /\ diff'[p].at = d.at /\ diff'[p].sites = d.sites /\ diff'[p].todo = d.todo \ {s}
       /\ pc'[p] = "pending" /\ mem'[p] = new
  BY <1>2 DEF Inv, Inner, DiffType
<1>11. ASSUME NEW q \in still'[p]
       PROVE  SourceGood(diff'[p], pc'[p], mem'[p], q)
  <2>1. SourceGood(d, "pending", old, q) /\ q \in Source
    BY <1>2 DEF StillInv, Inv, Inner
  <2>2. CASE q = s
    <3>1. SiteOf[s] < d.at
      BY <1>3, <2>1, <2>2, SiteAssumption DEF Sites, SourceGood
    <3>2. ASSUME s \notin Unreadable \cup old.passed
          PROVE  /\ SiteOf[s] \in present /\ Known(new, s)
                 /\ new.record[s].state = "pending" => ~Resolves(old, Cwd[s][version[s]])
      <4>1. SiteOf[s] \in present
        BY <1>4, <2>1, <2>2, <3>2 DEF SourceGood
      <4>2. Known(old, s)
        BY <2>1, <2>2, <3>1, <3>2, <4>1 DEF SourceGood
      <4>3. s \in there /\ r.fp = version[s] /\ r.body # Unread
        BY <1>4, <4>2 DEF Known, Current, Carries
      <4>4. r.body = version[s]
        BY <1>5, <4>3, VersionAssumption
      <4>5. s \notin locked
        BY <3>2 DEF Unreadable
      <4>6. CASE Resolves(old, c)
        <5> DEFINE read == Reload(st, s, r.fp, failure)
        <5>0. Outer /\ new = read
          BY <4>6 DEF Inv
        <5> HIDE DEF st, new
        <5>1. /\ Carries(read, s, r.fp) /\ read.record[s].body = version[s]
              /\ read.record[s].state = "pending" => ~Resolves(st, Cwd[s][version[s]])
          BY <1>3, <1>5, <1>6, <1>7, <4>1, <4>3, <4>5, <5>0, ReloadReads
        <5> HIDE DEF read
        <5> USE DEF st
        <5>2. Resolves(st, Cwd[s][version[s]]) <=> Resolves(old, Cwd[s][version[s]])
          BY <1>3, RememberResolves
        <5> QED
          BY <4>1, <4>3, <4>4, <5>0, <5>1, <5>2 DEF Known, Current
      <4>7. CASE ~Resolves(old, c)
        <5>1. new.record[s] = r
          BY <1>7, <4>7
        <5> QED
          BY <1>4, <4>1, <4>3, <4>4, <4>7, <5>1 DEF Known, Current, Carries
      <4> QED
        BY <4>6, <4>7
    <3> HIDE DEF new
    <3> QED
      BY <1>8, <1>9, <1>10, <2>1, <2>2, <3>2 DEF SourceGood
  <2>3. CASE q # s
    <3>1. new.record[q] = old.record[q]
      BY <1>7, <1>8, <2>1, <2>3 DEF Touched
    <3>2. Known(new, q) <=> Known(old, q)
      BY <3>1 DEF Known, Current, Carries
    <3> HIDE DEF new
    <3> QED
      BY <1>8, <1>9, <1>10, <2>1, <2>3, <3>1, <3>2 DEF SourceGood
  <2> QED
    BY <2>2, <2>3
<1> QED
  BY <1>2, <1>11, StillFrame DEF outside, Inv, Inner

\* Nothing is said of a process that is not in a diff.
LEMMA StillEnds ==
  ASSUME Inv, StillInv, NEW p \in Process,
         Start(p) \/ Save(p) \/ SaveFails(p) \/ Die(p) \/ ResolveDirectory(p)
  PROVE  StillInv'
<1>1. still'[p] = {}
  <2>1. CASE Start(p) \/ ResolveDirectory(p)
    <3>1. pc[p] \in {"off", "idle"} /\ still' = still
      BY <2>1 DEF Start, ResolveDirectory
    <3> QED
      BY <3>1 DEF StillInv, SourceGood
  <2>2. CASE Save(p) \/ SaveFails(p) \/ Die(p)
    BY <2>2 DEF Save, SaveFails, Die, Inv, Inner
  <2> QED
    BY <2>1, <2>2
<1>2. /\ UNCHANGED <<version, there, locked, present, origin>>
      /\ \A q \in Process \ {p} : /\ mem'[q] = mem[q] /\ diff'[q] = diff[q]
                                  /\ pc'[q] = pc[q] /\ still'[q] = still[q]
  BY DEF Start, Save, SaveFails, Die, ResolveDirectory, Ends, Goes, outside, Inv, Inner
<1> QED
  BY <1>1, <1>2, StillFrame

\* What happens outside disturbs only what it happens to.
LEMMA StillKept ==
  ASSUME Inv, StillInv, UNCHANGED <<mem, diff, pc>>,
         NEW p \in Process, NEW s \in still'[p], s \in still[p],
         version'[s] = version[s], s \in there' <=> s \in there,
         SiteOf[s] \in present' <=> SiteOf[s] \in present,
         s \in Unreadable => s \in Unreadable',
         s \in there /\ Carries(mem[p], s, version[s]) /\ mem[p].record[s].state = "pending" =>
            (origin[Cwd[s][version[s]]])' = origin[Cwd[s][version[s]]]
  PROVE  SourceGood(diff[p], pc[p], mem[p], s)'
<1>1. s \in Source /\ SourceGood(diff[p], pc[p], mem[p], s)
  BY DEF StillInv, Inv, Inner
<1>2. /\ Known(mem[p], s)' <=> Known(mem[p], s)
      /\ Current(mem[p], s)' <=> Current(mem[p], s)
      /\ (s \in GivenUp(mem[p]))' <=> s \in GivenUp(mem[p])
      /\ mem[p]' = mem[p] /\ diff[p]' = diff[p] /\ pc[p]' = pc[p]
  BY DEF Known, Current, GivenUp, Carries
<1>3. ASSUME pc[p] = "pending", s \notin Unreadable \cup mem[p].passed,
             mem[p].record[s] # None, mem[p].record[s].state = "pending", s \notin diff[p].todo
      PROVE  (~Resolves(mem[p], Cwd[s][version[s]]))'
  <2>1. SiteOf[s] < diff[p].at
    BY <1>1, <1>3, SiteAssumption DEF SourceGood, Sites
  <2>2. s \in there /\ Carries(mem[p], s, version[s])
    BY <1>1, <1>3, <2>1 DEF SourceGood, Known, Current
  <2>3. (origin[Cwd[s][version[s]]])' = origin[Cwd[s][version[s]]]
    BY <1>3, <2>2
  <2>4. ~Resolves(mem[p], Cwd[s][version[s]])
    BY <1>1, <1>3 DEF SourceGood
  <2> QED
    BY <2>2, <2>3, <2>4 DEF Resolves
<1> DEFINE d == diff[p]
           c == pc[p]
           st == mem[p]
<1>4. /\ d' = d /\ c' = c /\ st' = st /\ version'[s] = version[s]
      /\ s \in there' <=> s \in there
      /\ SiteOf[s] \in present' <=> SiteOf[s] \in present
      /\ s \in Unreadable => s \in Unreadable'
  BY <1>2
<1>5. (c = "pending" /\ s \notin Unreadable \cup st.passed /\ st.record[s] # None
         /\ st.record[s].state = "pending" /\ s \notin d.todo
       => ~Resolves(st, Cwd[s][version[s]]))'
  BY <1>3, <1>4
<1>6. SourceGood(d, c, st, s)
  BY <1>1
<1>7. /\ Known(st, s) <=> Known(st, s)'
      /\ Current(st, s) <=> Current(st, s)'
      /\ s \in GivenUp(st) <=> (s \in GivenUp(st))'
  BY <1>2
<1> HIDE DEF d, c, st
<1>8. SourceGood(d, c, st, s)'
  BY <1>4, <1>5, <1>6, <1>7 DEF SourceGood
<1> QED
  BY <1>8 DEF d, c, st

LEMMA StillOutside ==
  ASSUME Inv, StillInv,
         \/ \E s \in Source : Edit(s) \/ Delete(s) \/ Lock(s) \/ Unlock(s)
         \/ \E w \in Sites : Toggle(w)
         \/ \E d \in Dir : Rewire(d)
         \/ LoseFile
  PROVE  StillInv'
<1>1. UNCHANGED <<mem, diff, pc>>
  BY DEF Edit, Delete, Lock, Unlock, Toggle, Rewire, LoseFile
<1> SUFFICES ASSUME NEW p \in Process, NEW s \in still'[p]
             PROVE  SourceGood(diff[p], pc[p], mem[p], s)'
  BY DEF StillInv
<1>2. ASSUME NEW x \in Source, Edit(x) \/ Delete(x)
      PROVE  SourceGood(diff[p], pc[p], mem[p], s)'
  <2>1. s \in still[p] /\ s # x /\ s \in Source
    BY <1>2 DEF Edit, Delete, Touches, Inv, Inner
  <2>2. version'[s] = version[s] /\ (s \in there' <=> s \in there)
    BY <1>2, <2>1 DEF Edit, Delete, Inv, Outer, StampType
  <2>3. UNCHANGED <<locked, present, origin>>
    BY <1>2 DEF Edit, Delete
  <2>4. Unreadable' = Unreadable
    BY <2>3 DEF Unreadable
  <2> QED
    BY <1>1, <2>1, <2>2, <2>3, <2>4, StillKept
<1>3. ASSUME NEW x \in Source, Lock(x) \/ Unlock(x)
      PROVE  SourceGood(diff[p], pc[p], mem[p], s)'
  <2>1. s \in still[p] /\ UNCHANGED <<version, there, present, origin>>
    BY <1>3 DEF Lock, Unlock, Touches
  <2>2. s \in Unreadable => s \in Unreadable'
    <3>1. CASE Lock(x)
      BY <3>1 DEF Lock, Unreadable
    <3>2. CASE Unlock(x)
      <4>1. s \notin Together(x) /\ locked' = locked \ {x}
        BY <3>2 DEF Unlock, Touches
      <4> QED
        BY <4>1 DEF Unreadable, Together
    <3> QED
      BY <1>3, <3>1, <3>2
  <2> QED
    BY <1>1, <2>1, <2>2, StillKept
<1>4. ASSUME NEW w \in Sites, Toggle(w)
      PROVE  SourceGood(diff[p], pc[p], mem[p], s)'
  <2>1. s \in still[p] /\ SiteOf[s] # w /\ UNCHANGED <<version, there, locked, origin>>
    BY <1>4 DEF Toggle, Touches, Inv, Inner
  <2>2. SiteOf[s] \in present' <=> SiteOf[s] \in present
    BY <1>4, <2>1 DEF Toggle
  <2>3. Unreadable' = Unreadable
    BY <2>1 DEF Unreadable
  <2> QED
    BY <1>1, <2>1, <2>2, <2>3, StillKept
<1>5. ASSUME NEW d \in Dir, Rewire(d)
      PROVE  SourceGood(diff[p], pc[p], mem[p], s)'
  <2>1. /\ s \in still[p] /\ ~(s \in there /\ Cwd[s][version[s]] = d)
        /\ UNCHANGED <<version, there, locked, present>>
    BY <1>5 DEF Rewire, Touches
  <2>2. Unreadable' = Unreadable
    BY <2>1 DEF Unreadable
  <2>3. ASSUME s \in there, Carries(mem[p], s, version[s]), mem[p].record[s].state = "pending"
        PROVE  (origin[Cwd[s][version[s]]])' = origin[Cwd[s][version[s]]]
    <3>1. s \in Source
      BY <2>1 DEF Inv, Inner
    <3>2. /\ mem[p].record[s] \in RecordType /\ mem[p].record[s].fp = version[s]
          /\ \/ mem[p].record[s].body = Unread
             \/ /\ mem[p].record[s].fp =< mem[p].record[s].body
                /\ mem[p].record[s].body =< version[s]
          /\ Tells(s, mem[p].record[s])
      BY <2>3, <3>1 DEF Inv, StateGood, StateType, Carries
    <3>3. mem[p].record[s].body = version[s] /\ Cwd[s][version[s]] \in Dir
      BY <2>3, <3>2, VersionAssumption DEF RecordType, Tells, Carries, Unread
    <3> QED
      <4>1. PICK o : origin' = [origin EXCEPT ![d] = o]
        BY <1>5 DEF Rewire
      <4>2. version' = version /\ Cwd[s][version[s]] # d
        BY <2>1, <2>3
      <4>3. (origin[Cwd[s][version[s]]])' = origin'[Cwd[s][version[s]]]
        BY <4>2
      <4> QED
        BY <3>3, <4>1, <4>2, <4>3 DEF Inv, Outer
  <2> QED
    BY <1>1, <2>1, <2>2, <2>3, StillKept
<1>6. CASE LoseFile
  <2>1. UNCHANGED <<version, there, locked, present, origin, still>>
    BY <1>6 DEF LoseFile
  <2>2. Unreadable' = Unreadable
    BY <2>1 DEF Unreadable
  <2> QED
    BY <1>1, <2>1, <2>2, StillKept
<1> QED
  BY <1>2, <1>3, <1>4, <1>5, <1>6

LEMMA StillNext == ASSUME ShadowsComeFirst PROVE Inv /\ StillInv /\ [Next]_vars => StillInv'
<1> SUFFICES ASSUME Inv, StillInv, [Next]_vars PROVE StillInv'
  OBVIOUS
<1>1. ASSUME NEW p \in Process, Step(p) \/ ResolveDirectory(p) \/ SaveFails(p) \/ Die(p)
      PROVE  StillInv'
  BY <1>1, StillBegin, StillSkip, StillStamp, StillLists, StillDiscoverNothing, StillLoad,
     StillEndSite, StillEndSites, StillResolvePending, StillEnds DEF Step
<1>2. CASE Retry
  BY <1>2 DEF Retry, Touches, StillInv, Inv, Inner
<1>3. CASE UNCHANGED vars
  <2>1. Unreadable' = Unreadable
    BY <1>3 DEF Unreadable, vars, outside
  <2> QED
    BY <1>3, <2>1 DEF vars, outside, StillInv, SourceGood, Known, Current, GivenUp, Carries, Resolves
<1> QED
  BY <1>1, <1>2, <1>3, StillOutside DEF Next

-----------------------------------------------------------------------------
(* The theorems                                                            *)

LEMMA InvInit == Init => Inv
<1> SUFFICES ASSUME Init PROVE Inv
  OBVIOUS
<1>1. Outer
  <2>1. version \in StampType
    BY VersionAssumption DEF Init, StampType
  <2> QED
    BY <2>1, VersionAssumption DEF Init, Outer
<1>2. NoDiff \in DiffType /\ (\A s \in Source : NoDiff.walk[s] = 0 /\ NoDiff.held[s] = 0)
  BY SiteAssumption, VersionAssumption DEF NoDiff, Nothing, DiffType, StampType
<1>3. StateGood(Empty, version) /\ Vouches(Empty, version, there) /\ Empty \in StateType
  BY <1>1, EmptyGood DEF Outer, StateGood
<1>4. Inner
  BY <1>2, <1>3 DEF Init, Inner
<1>5. \A s \in Source : 0 =< version[s]
  BY <1>1, VersionAssumption DEF Outer, StampType
<1>6. \A p \in Process : DiffGood(diff[p], pc[p], mem[p], version, there)
  BY <1>2, <1>5 DEF Init, DiffGood
<1> QED
  BY <1>1, <1>3, <1>4, <1>6 DEF Init, Inv

LEMMA InvNext == Inv /\ [Next]_vars => Inv'
<1> SUFFICES ASSUME Inv, [Next]_vars PROVE Inv'
  OBVIOUS
<1>1. ASSUME NEW p \in Process, Step(p) PROVE Inv'
  BY <1>1, InvStart, InvBegin, InvSkip, InvLists, InvDiscoverNothing, InvStamp, InvLoad, InvEndSite,
     InvEndSites, InvResolvePending, InvSave DEF Step
<1>2. CASE UNCHANGED vars
  BY <1>2 DEF vars, outside, Inv, Outer, Inner
<1> QED
  BY <1>1, <1>2, InvResolveDirectory, InvSave, InvGrow, InvOutside, InvRetry DEF Next

\* The argument in one formula: fingerprints are no newer than what they were
\* taken of, in the file and in every process that scans.
THEOREM StateInvariant == Spec => []Inv
  BY InvInit, InvNext, PTL DEF Spec

\* The variables keep their types, and a diff stays among the sites.
THEOREM TypeCorrect == Spec => []TypeOK
<1>1. Inv => TypeOK
  BY DEF Inv, Outer, Inner, TypeOK, StateGood, DiffType
<1> QED
  BY <1>1, StateInvariant, PTL

\* No record in any process or in the file hides an edit behind a current
\* fingerprint, however many processes overwrite each other's state.
THEOREM EditsAreSeen == Spec => []FingerprintNeverHidesEdit
<1>1. Inv => FingerprintNeverHidesEdit
  <2> SUFFICES ASSUME Inv, NEW st \in States, NEW s \in Source, Carries(st, s, version[s])
               PROVE  \/ st.record[s].body = version[s]
                      \/ st.record[s].body = Unread /\ st.record[s].state = "broken"
    BY DEF FingerprintNeverHidesEdit
  <2>1. StateGood(st, version)
    BY DEF States, Inv
  <2>2. /\ st.record[s] \in RecordType /\ st.record[s].fp = version[s]
        /\ st.record[s].body = Unread => st.record[s].state = "broken"
        /\ \/ st.record[s].body = Unread
           \/ st.record[s].fp =< st.record[s].body /\ st.record[s].body =< version[s]
    BY <2>1 DEF StateGood, StateType, Carries, Tells
  <2> QED
    BY <2>2, VersionAssumption DEF RecordType, Unread
<1> QED
  BY <1>1, StateInvariant, PTL

\* A database recorded as seen is described row by row, but for the rows that
\* scan_db and drop_unowned give up.
THEOREM SeenDatabasesAreKnown == Spec => []DatabaseVouches
<1>1. Inv => DatabaseVouches
  <2>1. \A w : StampOf(version, w) = DbStamp(w)
    BY DEF StampOf, DbStamp
  <2>2. Inv => \A st \in States : Vouches(st, version, there)
    BY DEF Inv, States
  <2> QED
    BY <2>1, <2>2 DEF DatabaseVouches, Vouches
<1> QED
  BY <1>1, StateInvariant, PTL

\* Whatever other processes do and whatever happens to other sources, a diff
\* ends with exactly the record of each source that can be read and that
\* nothing happened to since it began, for any number of sites, sources and
\* directories, if no site is scanned after one whose path it is a prefix of.
THEOREM DiffsAreExact == ASSUME ShadowsComeFirst PROVE Spec => []DiffExact
<1>1. Init => StillInv
  BY DEF Init, StillInv
<1>2. Inv /\ StillInv /\ [Next]_vars => StillInv'
  BY StillNext
<1>3. Inv /\ StillInv => DiffExact
  <2> SUFFICES ASSUME Inv, StillInv, NEW p \in Process, DiffDone(p),
                      NEW s \in still[p] \ (Unreadable \cup mem[p].passed)
               PROVE  Exact(mem[p], s)
    BY DEF DiffExact
  <2> DEFINE st == mem[p]
  <2>1. SourceGood(diff[p], "pending", st, s) /\ diff[p].todo = {} /\ s \in Source
    BY DEF DiffDone, StillInv, Inv, Inner
  <2>2. SiteOf[s] < diff[p].at
    BY <2>1, SiteAssumption DEF SourceGood, Sites
  <2>3. IF SiteOf[s] \in present THEN Known(st, s) ELSE st.record[s] = None
    BY <2>1, <2>2 DEF SourceGood
  <2>4. CASE s \in there /\ SiteOf[s] \in present
    <3>1. Carries(st, s, version[s]) /\ st.record[s].body # Unread
      BY <2>3, <2>4 DEF Known, Current
    <3>2. /\ st.record[s] \in RecordType /\ st.record[s].fp = version[s]
          /\ st.record[s].fp =< st.record[s].body /\ st.record[s].body =< version[s]
          /\ Tells(s, st.record[s]) /\ st.record[s] # None
      BY <2>1, <3>1 DEF Inv, StateGood, StateType, Carries
    <3>3. st.record[s].body = version[s]
          /\ (st.record[s].state = "broken" <=> Cwd[s][version[s]] = Garbled)
      BY <3>1, <3>2, VersionAssumption DEF RecordType, Tells, Unread
    <3>4. st.record[s].state = "pending" => ~Resolves(st, Cwd[s][version[s]])
      BY <2>1, <3>1 DEF SourceGood, Carries
    <3> QED
      BY <2>4, <3>1, <3>3, <3>4 DEF Exact
  <2>5. CASE ~(s \in there /\ SiteOf[s] \in present)
    BY <2>3, <2>5 DEF Exact, Known
  <2> QED
    BY <2>4, <2>5
<1> QED
  BY <1>1, <1>2, <1>3, StateInvariant, InvNext, PTL DEF Spec

=============================================================================
