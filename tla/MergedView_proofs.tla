-------------------------- MODULE MergedView_proofs --------------------------
(***************************************************************************)
(* What a machine shows is the newest body, for any snapshots and any      *)
(* number of copies and revisions.                                         *)
(***************************************************************************)
EXTENDS MergedView, WellFoundedInduction, TLAPS

\* The time as a natural number; any time is later than none.
TimeRank(f) == IF At(f) = None THEN 0 ELSE At(f) + 1

\* f is strictly newer than g: first the time counts, then the messages.
Newer(f, g) ==
    \/ TimeRank(f) > TimeRank(g)
    \/ TimeRank(f) = TimeRank(g) /\ f.message_count > g.message_count

\* The two keys of the order are naturals.
LEMMA KeysAreNaturals ==
    ASSUME NEW f \in Item
    PROVE  /\ TimeRank(f) \in Nat
           /\ f.message_count \in Nat
           /\ At(f) # None => At(f) \in Nat
<1>1. At(f) \in Time \cup {None} /\ f.message_count \in Count
  BY DEF Item, At
<1>2. f.message_count \in Nat
  BY <1>1, FreshnessAssumption
<1>3. At(f) # None => At(f) \in Nat
  BY <1>1, FreshnessAssumption
<1> QED BY <1>2, <1>3 DEF TimeRank

\* rank is the lexicographic order of the keys, with the hashes on a tie.
LEMMA RankIsNewer ==
    ASSUME NEW f \in Item, NEW g \in Item
    PROVE  /\ rank(f, g) = "Left" <=> Newer(f, g)
           /\ rank(f, g) = "Right" <=> Newer(g, f)
           /\ rank(f, g) = "Same" <=>
                ~Newer(f, g) /\ ~Newer(g, f) /\ f.content_hash = g.content_hash
           /\ rank(f, g) = "Ambiguous" <=>
                ~Newer(f, g) /\ ~Newer(g, f) /\ f.content_hash # g.content_hash
<1>1. Later(f, g) <=> TimeRank(f) > TimeRank(g)
  BY KeysAreNaturals DEF TimeRank, Later
<1>2. Later(g, f) <=> TimeRank(g) > TimeRank(f)
  BY KeysAreNaturals DEF TimeRank, Later
<1> QED BY <1>1, <1>2, KeysAreNaturals DEF rank, Newer

\* Not being newer is transitive, and one of two is not newer.
LEMMA NewerOrder ==
    ASSUME NEW f \in Item, NEW g \in Item, NEW h \in Item
    PROVE  /\ ~Newer(f, g) /\ ~Newer(g, h) => ~Newer(f, h)
           /\ ~Newer(f, g) \/ ~Newer(g, f)
<1>1. /\ TimeRank(f) \in Nat /\ TimeRank(g) \in Nat /\ TimeRank(h) \in Nat
      /\ f.message_count \in Nat /\ g.message_count \in Nat
      /\ h.message_count \in Nat
  BY KeysAreNaturals
<1> QED BY <1>1 DEF Newer

\* A bounded set of naturals has a largest element.
LEMMA LargestExists ==
    ASSUME NEW S \in SUBSET Nat, S # {}, NEW b \in Nat, \A x \in S : x <= b
    PROVE  \E x \in S : \A y \in S : y <= x
<1> DEFINE Gaps == {b - x : x \in S}
<1>1. Gaps \subseteq Nat /\ Gaps # {}
  <2>1. \A x \in S : b - x \in Nat
    OBVIOUS
  <2> QED BY <2>1
<1>2. PICK d \in Gaps : \A e \in Gaps : ~ (<<e, d>> \in OpToRel(<, Nat))
  <2> HIDE DEF Gaps
  <2> QED BY <1>1, NatLessThanWellFounded, WFMin
<1>3. \A e \in Gaps : ~ (e < d)
  <2> HIDE DEF Gaps
  <2> QED BY <1>1, <1>2 DEF OpToRel
<1>4. PICK x \in S : d = b - x
  OBVIOUS
<1>5. ASSUME NEW y \in S PROVE y <= x
  <2>1. ~ (b - y < b - x)
    BY <1>3, <1>4
  <2> QED BY <2>1
<1> QED BY <1>5

-----------------------------------------------------------------------------
(* Sets of snapshots whose times and counts are bounded.                   *)

\* There are finitely many copies, so their keys have a bound.
Bounded(S) ==
    \E b \in Nat : \A f \in S : TimeRank(f) <= b /\ f.message_count <= b

\* Bounds survive unions, and what is taken away.
LEMMA BoundedUnion ==
    ASSUME NEW S \in SUBSET Item, NEW T \in SUBSET Item,
           Bounded(S), Bounded(T)
    PROVE  Bounded(S \cup T)
<1>1. PICK b \in Nat : \A f \in S : TimeRank(f) <= b /\ f.message_count <= b
  BY DEF Bounded
<1>2. PICK c \in Nat : \A f \in T : TimeRank(f) <= c /\ f.message_count <= c
  BY DEF Bounded
<1>3. \A f \in S \cup T : TimeRank(f) \in Nat /\ f.message_count \in Nat
  BY KeysAreNaturals
<1>4. \A f \in S \cup T : TimeRank(f) <= b + c /\ f.message_count <= b + c
  BY <1>1, <1>2, <1>3
<1> QED BY <1>4 DEF Bounded

\* One snapshot is bounded by its own keys.
LEMMA BoundedOne ==
    ASSUME NEW f \in Item
    PROVE  Bounded({f})
<1>1. TimeRank(f) \in Nat /\ f.message_count \in Nat
  BY KeysAreNaturals
<1>2. \A g \in {f} : /\ TimeRank(g) <= TimeRank(f) + f.message_count
                     /\ g.message_count <= TimeRank(f) + f.message_count
  BY <1>1
<1> QED BY <1>1, <1>2 DEF Bounded

\* Some snapshot of a set is newest, and those that tie with it are all.
LEMMA NewestIs ==
    ASSUME NEW S \in SUBSET Item
    PROVE  NewestOf(S) = {f \in S : \A g \in S : ~Newer(g, f)}
BY RankIsNewer DEF NewestOf

\* A non-empty set of copies has a newest one.
LEMMA NewestExists ==
    ASSUME NEW S \in SUBSET Item, S # {}, Bounded(S)
    PROVE  NewestOf(S) # {}
<1>1. PICK b \in Nat : \A f \in S : TimeRank(f) <= b /\ f.message_count <= b
  BY DEF Bounded
<1>2. \A f \in S : TimeRank(f) \in Nat /\ f.message_count \in Nat
  BY KeysAreNaturals
<1> DEFINE Times == {TimeRank(f) : f \in S}
<1>3. PICK t \in Times : \A u \in Times : u <= t
  <2>1. Times \in SUBSET Nat /\ Times # {} /\ \A u \in Times : u <= b
    BY <1>1, <1>2
  <2> HIDE DEF Times
  <2> QED BY <2>1, LargestExists
<1> DEFINE Latest == {f \in S : TimeRank(f) = t}
           Counts == {f.message_count : f \in Latest}
<1>4. PICK c \in Counts : \A d \in Counts : d <= c
  <2>1. Counts \in SUBSET Nat /\ Counts # {} /\ \A d \in Counts : d <= b
    BY <1>1, <1>2, <1>3
  <2> HIDE DEF Counts
  <2> QED BY <2>1, LargestExists
<1>5. PICK f \in Latest : f.message_count = c
  BY <1>4
<1>6. ASSUME NEW g \in S PROVE ~Newer(g, f)
  <2>1. TimeRank(g) <= TimeRank(f)
    BY <1>3, <1>5
  <2>2. TimeRank(g) = TimeRank(f) => g.message_count <= f.message_count
    BY <1>4, <1>5
  <2> QED BY <1>2, <2>1, <2>2 DEF Newer
<1> QED BY <1>6, NewestIs

\* The newest of a set is newer than or ties with everything of it, and what
\* ties with it is newest too.
LEMMA NewestBeats ==
    ASSUME NEW S \in SUBSET Item, NEW f \in NewestOf(S), NEW g \in Item
    PROVE  /\ f \in S
           /\ g \in S => ~Newer(g, f)
           /\ g \in S => (g \in NewestOf(S) <=> ~Newer(f, g))
<1>1. f \in S /\ \A h \in S : ~Newer(h, f)
  BY NewestIs
<1>2. ASSUME g \in S, ~Newer(f, g) PROVE g \in NewestOf(S)
  BY <1>1, <1>2, NewerOrder, NewestIs
<1>3. ASSUME g \in S, g \in NewestOf(S) PROVE ~Newer(f, g)
  BY <1>1, <1>3, NewestIs
<1> QED BY <1>1, <1>2, <1>3

\* A summary names one of the newest, and tells whether all have its body.
LEMMA SummaryIs ==
    ASSUME NEW S \in SUBSET Item, S # {}, Bounded(S)
    PROVE  /\ Summary(S).freshness \in NewestOf(S)
           /\ Summary(S).freshness \in Item
           /\ ~Summary(S).ambiguous <=>
                HashesOf(NewestOf(S)) = {Summary(S).freshness.content_hash}
<1>1. Summary(S).freshness \in NewestOf(S)
  BY NewestExists DEF Summary
<1>2. NewestOf(S) \subseteq Item
  BY DEF NewestOf
<1>3. Summary(S).ambiguous <=>
        \E f, g \in NewestOf(S) : f.content_hash # g.content_hash
  BY DEF Summary
<1> HIDE DEF Summary
<1> QED BY <1>1, <1>2, <1>3 DEF HashesOf

\* The newest of two sets are the newest of the one with the newer summary, or
\* of both when the summaries tie.
LEMMA NewestOfBoth ==
    ASSUME NEW S \in SUBSET Item, NEW T \in SUBSET Item,
           NEW f \in NewestOf(S), NEW g \in NewestOf(T)
    PROVE  NewestOf(S \cup T) =
              IF Newer(f, g) THEN NewestOf(S)
              ELSE IF Newer(g, f) THEN NewestOf(T)
              ELSE NewestOf(S) \cup NewestOf(T)
<1>1. /\ f \in S /\ \A h \in S : ~Newer(h, f)
      /\ g \in T /\ \A h \in T : ~Newer(h, g)
  BY NewestIs
<1>2. \A h \in S : h \in NewestOf(S) <=> ~Newer(f, h)
  BY NewestBeats
<1>3. \A h \in T : h \in NewestOf(T) <=> ~Newer(g, h)
  BY NewestBeats
<1>4. \A h \in S \cup T :
        h \in NewestOf(S \cup T) <=> ~Newer(f, h) /\ ~Newer(g, h)
  <2> SUFFICES ASSUME NEW h \in S \cup T, ~Newer(f, h), ~Newer(g, h),
                      NEW e \in S \cup T
               PROVE  ~Newer(e, h)
    BY <1>1, NewestIs
  <2> QED BY <1>1, NewerOrder
<1>5. /\ NewestOf(S) \subseteq S /\ NewestOf(T) \subseteq T
      /\ NewestOf(S \cup T) \subseteq S \cup T
  BY DEF NewestOf
<1>6. CASE Newer(f, g)
  <2>1. ASSUME NEW h \in T, ~Newer(f, h) PROVE FALSE
    BY <1>1, <1>6, <2>1, NewerOrder
  <2>2. ASSUME NEW h \in S, ~Newer(f, h) PROVE ~Newer(g, h)
    BY <1>1, <1>6, <2>2, NewerOrder
  <2> QED BY <1>2, <1>4, <1>5, <1>6, <2>1, <2>2
<1>7. CASE ~Newer(f, g) /\ Newer(g, f)
  <2>1. ASSUME NEW h \in S, ~Newer(g, h) PROVE FALSE
    BY <1>1, <1>7, <2>1, NewerOrder
  <2>2. ASSUME NEW h \in T, ~Newer(g, h) PROVE ~Newer(f, h)
    BY <1>1, <1>7, <2>2, NewerOrder
  <2> QED BY <1>3, <1>4, <1>5, <1>7, <2>1, <2>2
<1>8. CASE ~Newer(f, g) /\ ~Newer(g, f)
  <2>1. \A h \in S \cup T : ~Newer(f, h) <=> ~Newer(g, h)
    BY <1>1, <1>8, NewerOrder
  <2> QED BY <1>2, <1>3, <1>4, <1>5, <1>8, <2>1
<1> QED BY <1>6, <1>7, <1>8

-----------------------------------------------------------------------------
(* What is shown.                                                          *)

\* The view that the newest of all copies and revisions call for.
Verdict(newest) ==
    CASE newest = {} -> View("None", "")
      [] \E h \in HashesOf(newest) : HashesOf(newest) = {h} ->
            View(IF newest \cap local # {} THEN "Local" ELSE "Remote",
                 CHOOSE h \in HashesOf(newest) : TRUE)
      [] OTHER -> Ambiguous

\* One body at the top: it is shown.
LEMMA OneBody ==
    ASSUME NEW newest, NEW h, HashesOf(newest) = {h}
    PROVE  Verdict(newest) =
              View(IF newest \cap local # {} THEN "Local" ELSE "Remote", h)
<1>1. newest # {}
  BY DEF HashesOf
<1>2. (CHOOSE g \in HashesOf(newest) : TRUE) = h
  OBVIOUS
<1>3. \E g \in HashesOf(newest) : HashesOf(newest) = {g}
  OBVIOUS
<1> QED BY <1>1, <1>2, <1>3 DEF Verdict

\* Several bodies at the top: the session is ambiguous.
LEMMA ManyBodies ==
    ASSUME NEW newest, newest # {}, \A h : HashesOf(newest) # {h}
    PROVE  Verdict(newest) = Ambiguous
BY DEF Verdict

\* One side alone is shown by its summary.
LEMMA OneSide ==
    ASSUME NEW S \in SUBSET Item, S # {}, Bounded(S)
    PROVE  Verdict(NewestOf(S)) =
              IF Summary(S).ambiguous
                THEN Ambiguous
                ELSE View(IF NewestOf(S) \cap local # {} THEN "Local"
                                                         ELSE "Remote",
                          Summary(S).freshness.content_hash)
<1> DEFINE f == Summary(S).freshness
<1>1. /\ f \in NewestOf(S)
      /\ ~Summary(S).ambiguous <=> HashesOf(NewestOf(S)) = {f.content_hash}
  BY SummaryIs
<1>2. CASE Summary(S).ambiguous
  <2>1. \A h : HashesOf(NewestOf(S)) # {h}
    BY <1>1, <1>2 DEF HashesOf
  <2> QED BY <1>1, <1>2, <2>1, ManyBodies
<1>3. CASE ~Summary(S).ambiguous
  BY <1>1, <1>3, OneBody
<1> QED BY <1>2, <1>3

\* merge_pair loses nothing that the two sets would tell.
LEMMA TwoSides ==
    ASSUME local \in SUBSET Item, local # {}, Bounded(local),
           remote \in SUBSET Item, remote # {}, Bounded(remote)
    PROVE  MergePair(Summary(local), Summary(remote)) =
              Verdict(NewestOf(local \cup remote))
<1> DEFINE l == Summary(local)
           r == Summary(remote)
           f == l.freshness
           g == r.freshness
           both == NewestOf(local \cup remote)
<1>1. /\ f \in NewestOf(local) /\ f \in Item
      /\ ~l.ambiguous <=> HashesOf(NewestOf(local)) = {f.content_hash}
      /\ g \in NewestOf(remote) /\ g \in Item
      /\ ~r.ambiguous <=> HashesOf(NewestOf(remote)) = {g.content_hash}
  BY SummaryIs
<1>2. NewestOf(local) \subseteq local /\ NewestOf(remote) \subseteq remote
  BY DEF NewestOf
<1>3. both = IF Newer(f, g) THEN NewestOf(local)
             ELSE IF Newer(g, f) THEN NewestOf(remote)
             ELSE NewestOf(local) \cup NewestOf(remote)
  BY <1>1, NewestOfBoth
<1> HIDE DEF l, r, f, g, both
<1>4. CASE Newer(f, g)
  <2>1. rank(f, g) = "Left"
    BY <1>1, <1>4, RankIsNewer
  <2>2. MergePair(l, r) =
            IF l.ambiguous THEN Ambiguous ELSE View("Local", f.content_hash)
    BY <2>1 DEF MergePair, prefer, f, g
  <2>3. both \cap local # {}
    BY <1>1, <1>2, <1>3, <1>4
  <2> QED BY <1>3, <1>4, <2>2, <2>3, OneSide DEF l, r, f, both
<1>5. CASE Newer(g, f)
  <2>0. ~Newer(f, g)
    BY <1>1, <1>5, NewerOrder
  <2>1. rank(f, g) = "Right"
    BY <1>1, <1>5, RankIsNewer
  <2>2. MergePair(l, r) =
            IF r.ambiguous THEN Ambiguous ELSE View("Remote", g.content_hash)
    BY <2>1 DEF MergePair, prefer, FromRemote, f, g
  <2>3. both \cap local = {}
    <3> SUFFICES ASSUME NEW h \in both, h \in local PROVE FALSE
      OBVIOUS
    <3>1. h \in NewestOf(remote)
      BY <1>3, <1>5, <2>0
    <3>2. h \in Item /\ ~Newer(g, h) /\ ~Newer(h, f)
      BY <1>1, <1>2, <3>1, NewestBeats
    <3> QED BY <1>1, <1>5, <3>2, NewerOrder
  <2> QED BY <1>3, <1>5, <2>0, <2>2, <2>3, OneSide DEF l, r, g, both
<1>6. CASE ~Newer(f, g) /\ ~Newer(g, f)
  <2>1. /\ both = NewestOf(local) \cup NewestOf(remote)
        /\ HashesOf(both) =
              HashesOf(NewestOf(local)) \cup HashesOf(NewestOf(remote))
    BY <1>3, <1>6 DEF HashesOf
  <2>2. /\ f.content_hash \in HashesOf(NewestOf(local))
        /\ g.content_hash \in HashesOf(NewestOf(remote))
    BY <1>1 DEF HashesOf
  <2>3. both \cap local # {} /\ both # {}
    BY <1>1, <1>2, <2>1
  <2>4. rank(f, g) = IF f.content_hash = g.content_hash THEN "Same"
                                                        ELSE "Ambiguous"
    BY <1>1, <1>6, RankIsNewer
  <2>5. CASE ~l.ambiguous /\ ~r.ambiguous /\ f.content_hash = g.content_hash
    <3>1. MergePair(l, r) = View("Local", f.content_hash)
      BY <2>4, <2>5 DEF MergePair, prefer, f, g
    <3>2. HashesOf(both) = {f.content_hash}
      BY <1>1, <2>1, <2>5
    <3> QED BY <2>3, <3>1, <3>2, OneBody DEF l, r, both
  <2>6. CASE l.ambiguous \/ r.ambiguous \/ f.content_hash # g.content_hash
    <3>1. MergePair(l, r) = Ambiguous
      BY <2>4, <2>6 DEF MergePair, prefer, f, g
    <3>2. \A h : HashesOf(both) # {h}
      <4> SUFFICES ASSUME NEW h, HashesOf(both) = {h} PROVE FALSE
        OBVIOUS
      <4> QED BY <1>1, <2>1, <2>2, <2>6
    <3> QED BY <2>3, <3>1, <3>2, ManyBodies DEF l, r, both
  <2> QED BY <2>5, <2>6
<1> QED BY <1>4, <1>5, <1>6

\* In every state with bounded copies and revisions, what is shown is what
\* their newest call for.
LEMMA ShownIsVerdict ==
    ASSUME local \in SUBSET Item, Bounded(local),
           remote \in SUBSET Item, Bounded(remote)
    PROVE  Shown = Verdict(NewestOf(local \cup remote))
<1>1. CASE local = {} /\ remote = {}
  <2>1. NewestOf(local \cup remote) = {}
    BY <1>1 DEF NewestOf
  <2>2. Verdict({}) = View("None", "")
    <3>1. HashesOf({}) = {}
      BY DEF HashesOf
    <3> QED BY <3>1 DEF Verdict
  <2>3. Shown = View("None", "")
    BY <1>1 DEF Shown
  <2> QED BY <2>1, <2>2, <2>3
<1>2. CASE local = {} /\ remote # {}
  <2>1. local \cup remote = remote /\ NewestOf(remote) \cap local = {}
    BY <1>2
  <2> QED BY <1>2, <2>1, OneSide DEF Shown, FromRemote
<1>3. CASE local # {} /\ remote = {}
  <2>1. local \cup remote = local
    BY <1>3
  <2>2. NewestOf(local) \cap local # {}
    BY <1>3, NewestExists DEF NewestOf
  <2>3. Shown = IF Summary(local).ambiguous
                  THEN Ambiguous
                  ELSE View("Local", Summary(local).freshness.content_hash)
    BY <1>3 DEF Shown
  <2> QED BY <1>3, <2>1, <2>2, <2>3, OneSide
<1>4. CASE local # {} /\ remote # {}
  BY <1>4, TwoSides DEF Shown
<1> QED BY <1>1, <1>2, <1>3, <1>4

-----------------------------------------------------------------------------
(* The theorems.                                                           *)

\* The inductive invariant: snapshots on both sides, with bounded keys.
Inv ==
    /\ local \in SUBSET Item /\ Bounded(local)
    /\ remote \in SUBSET Item /\ Bounded(remote)

\* Under the invariant, what is shown is the verdict on all there is.
LEMMA InvVerdict == Inv => Shown = Verdict(NewestOf(local \cup remote))
BY ShownIsVerdict DEF Inv

\* So the invariant gives the property.
LEMMA InvShown == Inv => ShownIsNewest
BY InvVerdict DEF ShownIsNewest, Verdict

\* What is committed was there or is new.
LEMMA CommittedSubset ==
    ASSUME NEW base, NEW new
    PROVE  Committed(base, new) \subseteq base \cup new
BY DEF Committed, NewestOf

\* Parts of what is bounded are bounded.
LEMMA BoundedPart ==
    ASSUME NEW S, Bounded(S), NEW T \in SUBSET S
    PROVE  Bounded(T)
BY DEF Bounded

\* The invariant holds at first.
LEMMA InitInv == Init => Inv
<1>1. Bounded({})
  BY DEF Bounded
<1> QED BY <1>1 DEF Init, Inv

\* Every step adds one snapshot, or some of those there are already.
LEMMA StepInv == Inv /\ [Next]_vars => Inv'
<1> SUFFICES ASSUME Inv, [Next]_vars PROVE Inv'
  OBVIOUS
<1>1. ASSUME NEW S \in SUBSET Item, Bounded(S), NEW f \in Items,
             NEW T \in SUBSET (S \cup {f})
      PROVE  T \in SUBSET Item /\ Bounded(T)
  <2>1. f \in Item
    BY ItemsAssumption
  <2>2. Bounded(S \cup {f})
    BY <1>1, <2>1, BoundedOne, BoundedUnion
  <2> QED BY <2>1, <2>2, BoundedPart
<1>2. CASE Edit
  <2>1. PICK new \in Items :
            \/ local' = local \cup {new}
            \/ \E old \in local : local' = (local \ {old}) \cup {new}
    BY <1>2 DEF Edit
  <2>2. local' \in SUBSET (local \cup {new}) /\ remote' = remote
    BY <1>2, <2>1 DEF Edit
  <2> QED BY <1>1, <2>2 DEF Inv, Bounded
<1>3. CASE Remove
  <2>1. local' \in SUBSET local /\ remote' = remote
    BY <1>3 DEF Remove
  <2> QED BY <2>1, BoundedPart DEF Inv, Bounded
<1>4. CASE Archive
  <2>1. PICK I \in SUBSET local : remote' = Committed(remote, I)
    BY <1>4 DEF Archive, Uploads
  <2>2. local' = local /\ remote' \subseteq remote \cup local
    BY <1>4, <2>1, CommittedSubset DEF Archive
  <2>3. Bounded(remote \cup local)
    BY BoundedUnion DEF Inv
  <2> QED BY <2>2, <2>3, BoundedPart DEF Inv, Bounded
<1>5. CASE ArchiveElsewhere
  <2>1. PICK f \in Items : remote' = Committed(remote, {f})
    BY <1>5 DEF ArchiveElsewhere
  <2>2. local' = local /\ remote' \in SUBSET (remote \cup {f})
    BY <1>5, <2>1, CommittedSubset DEF ArchiveElsewhere
  <2> QED BY <1>1, <2>2 DEF Inv, Bounded
<1>6. CASE UNCHANGED vars
  BY <1>6 DEF vars, Inv, Bounded
<1> QED BY <1>2, <1>3, <1>4, <1>5, <1>6 DEF Next

\* However copies come, change and go, and whatever machines archive: the
\* newest body is shown, and a tie of different bodies never hidden
\* (merge_pair, choose_local and choose_current together; README.md:13).
THEOREM NewestIsShown == Spec => []ShownIsNewest
BY InitInv, StepInv, InvShown, PTL DEF Spec

\* Uploading what is local, keeping the entries of the catalog and pruning it
\* leaves the newest of all copies and revisions as they are.
LEMMA ArchiveKeepsNewest ==
    ASSUME Inv, Archive
    PROVE  NewestOf(local' \cup remote') = NewestOf(local \cup remote)
<1>1. PICK I \in SUBSET local : remote' = Committed(remote, I)
  BY DEF Archive, Uploads
<1> DEFINE merged ==
              remote \cup {f \in I : f.content_hash \notin HashesOf(remote)}
           all == local \cup remote
<1>2. /\ local' = local /\ remote' = NewestOf(merged)
      /\ merged \subseteq all /\ remote \subseteq merged
      /\ all \in SUBSET Item /\ merged \in SUBSET Item
  BY <1>1 DEF Archive, Committed, Inv
<1> HIDE DEF merged
<1>3. remote' = {f \in merged : \A g \in merged : ~Newer(g, f)}
  BY <1>2, NewestIs
<1>4. /\ local' \cup remote' \in SUBSET Item
      /\ local' \cup remote' \subseteq all
  BY <1>2, <1>3
<1>5. NewestOf(all) = {f \in all : \A g \in all : ~Newer(g, f)}
  BY <1>2, NewestIs
<1>6. NewestOf(local' \cup remote') =
        {f \in local' \cup remote' : \A g \in local' \cup remote' : ~Newer(g, f)}
  BY <1>4, NewestIs
<1>7. NewestOf(all) \subseteq local' \cup remote'
  BY <1>2, <1>3, <1>5
<1>8. NewestOf(all) \subseteq NewestOf(local' \cup remote')
  BY <1>4, <1>5, <1>6, <1>7
<1>9. ASSUME NEW f \in NewestOf(local' \cup remote') PROVE f \in NewestOf(all)
  <2>1. f \in all
    BY <1>4, <1>6
  <2>2. Bounded(all) /\ all # {}
    BY <2>1, BoundedUnion DEF Inv
  <2>3. PICK t \in NewestOf(all) : TRUE
    BY <1>2, <2>2, NewestExists
  <2>4. ~Newer(t, f) /\ t \in Item /\ f \in Item
    BY <1>2, <1>5, <1>6, <1>7, <1>9, <2>1, <2>3
  <2>5. ASSUME NEW g \in all PROVE ~Newer(g, f)
    BY <1>2, <1>5, <2>3, <2>4, <2>5, NewerOrder
  <2> QED BY <1>5, <2>1, <2>5
<1> QED BY <1>8, <1>9

\* A user sees no difference when this machine archives what it has.
THEOREM ArchivingIsInvisible == Spec => ArchiveChangesNothingShown
<1>1. Inv' => (Shown = Verdict(NewestOf(local \cup remote)))'
  BY InvVerdict, PTL
<1>2. Inv /\ [Next]_vars => [Archive => Shown' = Shown]_vars
  <2> SUFFICES ASSUME Inv, [Next]_vars, Archive PROVE Shown' = Shown
    OBVIOUS
  <2>1. Shown' = Verdict(NewestOf(local \cup remote))'
    BY <1>1, StepInv
  <2>2. local' = local
    BY DEF Archive
  <2>3. Verdict(NewestOf(local \cup remote))' =
            Verdict(NewestOf(local \cup remote))
    BY <2>2, ArchiveKeepsNewest DEF Verdict, HashesOf
  <2> QED BY <2>1, <2>3, InvVerdict
<1> QED
  BY <1>2, InitInv, StepInv, PTL DEF Spec, ArchiveChangesNothingShown
=============================================================================
