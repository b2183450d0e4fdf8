------------------------ MODULE ChooseCurrent_proofs ------------------------
(***************************************************************************)
(* The fold of choose_current is correct for sequences of any length.      *)
(***************************************************************************)
EXTENDS ChooseCurrent, WellFoundedInduction, TLAPS

\* Not being newer is transitive, because rank orders by time, then by count.
LEMMA RankTransitive ==
    ASSUME NEW f \in Item, NEW g \in Item, NEW h \in Item,
           rank(f, g) # "Left", rank(g, h) # "Left"
    PROVE  rank(f, h) # "Left"
BY FreshnessAssumption DEF Item, rank, Later, At

\* rank with its arguments swapped, and what its results say of the hashes.
LEMMA RankReverses ==
    ASSUME NEW f \in Item, NEW g \in Item
    PROVE  /\ rank(f, g) = "Left" <=> rank(g, f) = "Right"
           /\ rank(f, g) = "Ambiguous" <=> rank(g, f) = "Ambiguous"
           /\ rank(f, f) = "Same"
           /\ rank(f, g) = "Same" => f.content_hash = g.content_hash
           /\ rank(f, g) = "Ambiguous" => f.content_hash # g.content_hash
           /\ rank(f, g) \in {"Left", "Right", "Same", "Ambiguous"}
BY FreshnessAssumption DEF Item, rank, Later, At

\* What ties with the newest, ties with what the newest ties with.
LEMMA TieTransitive ==
    ASSUME NEW f \in Item, NEW g \in Item, NEW h \in Item,
           rank(f, g) \in {"Same", "Ambiguous"},
           rank(g, h) \in {"Same", "Ambiguous"}
    PROVE  rank(f, h) \in {"Same", "Ambiguous"}
BY FreshnessAssumption DEF Item, rank, Later, At

\* What an iteration keeps, and what makes the two theorems inductive.
Inv == TypeOK /\ BestSoFar

\* The items are a non-empty sequence of snapshots.
LEMMA ItemsType ==
    ASSUME TypeOK
    PROVE  /\ items \in Seq(Item)
           /\ Len(items) \in Nat \ {0}
           /\ DOMAIN items = 1 .. Len(items)
           /\ \A i \in 1 .. Len(items) : items[i] \in Item
<1>1. items \in Seq(Item) /\ items # <<>>
  BY InputsAssumption DEF TypeOK
<1> QED BY <1>1

\* The loop invariant holds at first.
LEMMA InitInv == Init => Inv
<1> SUFFICES ASSUME Init PROVE Inv
  OBVIOUS
<1>1. TypeOK
  <2>1. items \in Seq(Item) /\ items # <<>>
    BY InputsAssumption DEF Init
  <2>2. Len(items) \in Nat \ {0}
    BY <2>1
  <2>3. index \in 2 .. Len(items) + 1 /\ best \in 1 .. index - 1
    BY <2>2 DEF Init
  <2> QED BY <2>3 DEF Init, TypeOK
<1>2. items[1] \in Item
  BY <1>1, ItemsType
<1>3. rank(items[1], items[1]) = "Same"
  BY <1>2, RankReverses
<1> QED BY <1>1, <1>3 DEF Init, Inv, BestSoFar

\* Every iteration keeps the loop invariant.
LEMMA StepInv == Inv /\ [Next]_vars => Inv'
<1> SUFFICES ASSUME Inv, [Next]_vars PROVE Inv'
  OBVIOUS
<1>1. CASE Newer
  <2>1. TypeOK'
    <3>1. /\ Len(items) \in Nat /\ index \in 2 .. Len(items) + 1
          /\ items \in Inputs
      BY ItemsType DEF Inv, TypeOK
    <3>2. /\ index <= Len(items) /\ index' = index + 1 /\ best' = index
          /\ items' = items /\ tied' = FALSE
      BY <1>1 DEF Newer
    <3>3. Len(items') = Len(items)
      BY <3>2
    <3>4. index' \in 2 .. Len(items') + 1 /\ best' \in 1 .. index' - 1
      BY <3>1, <3>2, <3>3
    <3> QED BY <3>1, <3>2, <3>4 DEF TypeOK
  <2>2. /\ best \in 1 .. Len(items) /\ index \in 1 .. Len(items)
        /\ items' = items /\ best' = index /\ index' = index + 1 /\ ~tied'
        /\ rank(items[best], items[index]) = "Right"
    BY <1>1, ItemsType DEF Inv, TypeOK, Newer
  <2>3. ASSUME NEW i \in 1 .. index
        PROVE  rank(items[i], items[index]) \notin {"Left", "Ambiguous"}
    <3>1. CASE i = index
      BY <2>2, <3>1, ItemsType, RankReverses DEF Inv
    <3>2. CASE i \in 1 .. index - 1
      <4>1. /\ items[i] \in Item /\ items[best] \in Item
            /\ items[index] \in Item
        BY <2>2, <3>2, ItemsType DEF Inv
      <4>2. rank(items[i], items[best]) # "Left"
        BY <3>2 DEF Inv, BestSoFar
      <4>3. rank(items[i], items[index]) # "Left"
        BY <2>2, <4>1, <4>2, RankTransitive
      <4>4. rank(items[i], items[index]) # "Ambiguous"
        \* Otherwise the best, no older than i, is no older than the new item.
        <5>1. SUFFICES ASSUME rank(items[i], items[index]) = "Ambiguous"
                       PROVE  FALSE
          OBVIOUS
        <5>2. rank(items[index], items[i]) # "Left"
          BY <4>1, <5>1, RankReverses
        <5>3. rank(items[index], items[best]) # "Left"
          BY <4>1, <4>2, <5>2, RankTransitive
        <5> QED BY <2>2, <4>1, <5>3, RankReverses
      <4> QED BY <4>3, <4>4
    <3> QED BY <2>2, <3>1, <3>2
  <2>4. (1 .. index - 1)' = 1 .. index
    BY <2>2
  <2> QED BY <2>1, <2>2, <2>3, <2>4 DEF Inv, BestSoFar
<1>2. CASE NotNewer
  <2>1. TypeOK'
    BY <1>2, ItemsType DEF Inv, TypeOK, NotNewer
  <2>2. /\ best \in 1 .. Len(items) /\ index \in 1 .. Len(items)
        /\ items' = items /\ best' = best /\ index' = index + 1
        /\ tied' = (tied \/ rank(items[best], items[index]) = "Ambiguous")
        /\ rank(items[best], items[index]) # "Right"
    BY <1>2, ItemsType DEF Inv, TypeOK, NotNewer
  <2>3. items[best] \in Item /\ items[index] \in Item
    BY <2>2, ItemsType DEF Inv
  <2>4. /\ rank(items[index], items[best]) # "Left"
        /\ rank(items[index], items[best]) = "Ambiguous" <=>
              rank(items[best], items[index]) = "Ambiguous"
    BY <2>2, <2>3, RankReverses
  <2>5. 1 .. index = (1 .. index - 1) \cup {index}
    BY <2>2
  <2>6. (1 .. index - 1)' = 1 .. index
    BY <2>2
  <2> QED BY <2>1, <2>2, <2>4, <2>5, <2>6 DEF Inv, BestSoFar
<1>3. CASE UNCHANGED vars
  BY <1>3 DEF vars, Inv, TypeOK, BestSoFar
<1> QED BY <1>1, <1>2, <1>3 DEF Next

\* Once the loop has ended, the newest items are those that tie with the best.
LEMMA InvNewest ==
    ASSUME Inv, Finished
    PROVE  /\ best \in DOMAIN items
           /\ 1 .. index - 1 = DOMAIN items
           /\ \A i \in DOMAIN items : items[i] \in Item
           /\ Newest(best)
           /\ \A i \in DOMAIN items :
                Newest(i) <=>
                    rank(items[i], items[best]) \in {"Same", "Ambiguous"}
<1>1. /\ best \in DOMAIN items
      /\ 1 .. index - 1 = DOMAIN items
      /\ \A i \in DOMAIN items : items[i] \in Item
  BY ItemsType DEF Inv, TypeOK, Finished
<1>2. Newest(best)
  BY <1>1 DEF Inv, BestSoFar, Newest
<1>3. ASSUME NEW i \in DOMAIN items
      PROVE  Newest(i) <=> rank(items[i], items[best]) \in {"Same", "Ambiguous"}
  <2>1. ASSUME Newest(i)
        PROVE  rank(items[i], items[best]) \in {"Same", "Ambiguous"}
    BY <1>1, <1>2, <2>1, RankReverses DEF Newest
  <2>2. ASSUME rank(items[i], items[best]) \in {"Same", "Ambiguous"},
               NEW j \in DOMAIN items
        PROVE  rank(items[j], items[i]) # "Left"
    <3>1. rank(items[j], items[best]) # "Left"
      BY <1>2 DEF Newest
    <3>2. rank(items[best], items[i]) # "Left"
      BY <1>1, <2>2, RankReverses
    <3> QED BY <1>1, <3>1, <3>2, RankTransitive
  <2> QED BY <2>1, <2>2 DEF Newest
<1> QED BY <1>1, <1>2, <1>3

\* The loop finds a newest item, and reports a tie exactly when two newest
\* items have different bodies.
LEMMA InvFindsNewest == Inv => FindsNewest
<1> SUFFICES ASSUME Inv, Finished PROVE
        /\ Newest(best)
        /\ tied <=> \E i, j \in DOMAIN items :
                        /\ Newest(i) /\ Newest(j)
                        /\ items[i].content_hash # items[j].content_hash
  BY DEF FindsNewest
<1>1. /\ best \in DOMAIN items
      /\ 1 .. index - 1 = DOMAIN items
      /\ \A i \in DOMAIN items : items[i] \in Item
  BY InvNewest
<1>2. Newest(best)
  BY InvNewest
<1>3. \A i \in DOMAIN items :
        Newest(i) <=> rank(items[i], items[best]) \in {"Same", "Ambiguous"}
  BY InvNewest
<1>4. ASSUME tied
      PROVE  \E i, j \in DOMAIN items :
                /\ Newest(i) /\ Newest(j)
                /\ items[i].content_hash # items[j].content_hash
  <2>1. PICK i \in DOMAIN items : rank(items[i], items[best]) = "Ambiguous"
    BY <1>1, <1>4 DEF Inv, BestSoFar
  <2> QED BY <1>1, <1>2, <1>3, <2>1, RankReverses
<1>5. ASSUME NEW i \in DOMAIN items, NEW j \in DOMAIN items,
             Newest(i), Newest(j),
             items[i].content_hash # items[j].content_hash
      PROVE  tied
  \* One of the two bodies is not the best one's.
  <2>1. PICK k \in {i, j} : items[k].content_hash # items[best].content_hash
    BY <1>5
  <2>2. k \in DOMAIN items /\ Newest(k)
    BY <1>5
  <2>3. rank(items[k], items[best]) = "Ambiguous"
    BY <1>1, <1>3, <2>1, <2>2, RankReverses
  <2> QED BY <1>1, <2>2, <2>3 DEF Inv, BestSoFar
<1> QED BY <1>2, <1>4, <1>5

\* After every iteration the best of the items seen is known, with its ties: the
\* loop of choose_current needs no second look at what it passed over.
THEOREM BestIsKept == Spec => []BestSoFar
<1>1. Inv => BestSoFar
  BY DEF Inv
<1> QED BY <1>1, InitInv, StepInv, PTL DEF Spec

\* choose_current is right for every non-empty sequence of revisions.
THEOREM ChoosesNewest == Spec => []FindsNewest
BY InitInv, StepInv, InvFindsNewest, PTL DEF Spec

\* Every body at the top stays, once; nothing older does.
LEMMA InvKeepsNewest == Inv => KeepsNewest
<1> SUFFICES ASSUME Inv, Finished PROVE
        /\ \A i \in Kept : Newest(i)
        /\ \A i \in DOMAIN items : Newest(i) =>
                \E j \in Kept : items[j].content_hash = items[i].content_hash
        /\ \A i, j \in Kept :
                items[i].content_hash = items[j].content_hash => i = j
  BY DEF KeepsNewest
<1>1. /\ best \in DOMAIN items
      /\ DOMAIN items \subseteq Nat
      /\ \A i \in DOMAIN items : items[i] \in Item
  BY InvNewest, ItemsType DEF Inv
<1>2. NotOlder = {i \in DOMAIN items : Newest(i)}
  <2>1. ASSUME NEW i \in DOMAIN items PROVE i \in NotOlder <=> Newest(i)
    BY <1>1, InvNewest, RankReverses DEF NotOlder, prefer, Newest
  <2> QED BY <2>1 DEF NotOlder
<1>3. ASSUME NEW i \in DOMAIN items, Newest(i)
      PROVE  \E j \in Kept : items[j].content_hash = items[i].content_hash
  <2>1. CASE items[i].content_hash = items[best].content_hash
    BY <1>1, <1>2, <2>1, InvNewest DEF Kept
  <2>2. CASE items[i].content_hash # items[best].content_hash
    <3> DEFINE Twins == {j \in NotOlder :
                            items[j].content_hash = items[i].content_hash}
    <3>1. Twins \subseteq Nat /\ Twins # {}
      BY <1>1, <1>2, <1>3
    <3>2. PICK j \in Twins : \A k \in Twins : ~ (<<k, j>> \in OpToRel(<, Nat))
      <4> HIDE DEF Twins
      <4> QED BY <3>1, NatLessThanWellFounded, WFMin
    <3>3. \A k \in Twins : ~ (k < j)
      <4> HIDE DEF Twins
      <4> QED BY <3>1, <3>2 DEF OpToRel
    <3>4. \A k \in Twins : j <= k
      <4> HIDE DEF Twins
      <4> QED BY <3>1, <3>3
    <3> QED BY <2>2, <3>4 DEF Kept
  <2> QED BY <2>1, <2>2
<1>4. ASSUME NEW i \in Kept, NEW j \in Kept,
             items[i].content_hash = items[j].content_hash
      PROVE  i = j
  BY <1>1, <1>4 DEF Kept, NotOlder
<1>5. \A i \in Kept : Newest(i)
  BY <1>2 DEF Kept
<1> QED BY <1>3, <1>4, <1>5

\* prune_to_current keeps exactly the current bodies, for every session.
THEOREM PrunesToNewest == Spec => []KeepsNewest
BY InitInv, StepInv, InvKeepsNewest, PTL DEF Spec

-----------------------------------------------------------------------------
(* The fold and the summary of the set.                                    *)

\* The two modules compare snapshots in the same way.
LEMMA SameRank ==
    ASSUME NEW f, NEW g
    PROVE  Sides!rank(f, g) = rank(f, g)
BY DEF Sides!rank, Sides!Later, Sides!At, rank, Later, At

\* Two snapshots that tie compare alike with any other; if they also have the
\* same body, in all respects.
LEMMA TiedCompareAlike ==
    ASSUME NEW f \in Item, NEW g \in Item, NEW h \in Item,
           rank(f, g) # "Left", rank(g, f) # "Left"
    PROVE  /\ rank(f, h) = "Left" <=> rank(g, h) = "Left"
           /\ rank(f, h) = "Right" <=> rank(g, h) = "Right"
           /\ rank(h, f) = "Left" <=> rank(h, g) = "Left"
           /\ rank(h, f) = "Right" <=> rank(h, g) = "Right"
           /\ f.content_hash = g.content_hash =>
                rank(f, h) = rank(g, h) /\ rank(h, f) = rank(h, g)
<1>1. /\ rank(f, h) = "Left" <=> rank(g, h) = "Left"
      /\ rank(h, f) = "Left" <=> rank(h, g) = "Left"
  BY RankTransitive
<1>2. /\ rank(f, h) = "Right" <=> rank(g, h) = "Right"
      /\ rank(h, f) = "Right" <=> rank(h, g) = "Right"
  BY <1>1, RankReverses
<1>3. ASSUME f.content_hash = g.content_hash
      PROVE  rank(f, h) = rank(g, h) /\ rank(h, f) = rank(h, g)
  BY <1>1, <1>2, <1>3, RankReverses
<1> QED BY <1>1, <1>2, <1>3

\* Two results that tie, agree on being ambiguous and, if they are not, on the
\* body: merge_pair tells them apart on neither side.
LEMMA MergesAlike ==
    ASSUME NEW f \in Item, NEW g \in Item, NEW a \in BOOLEAN,
           rank(f, g) # "Left", rank(g, f) # "Left",
           ~a => f.content_hash = g.content_hash,
           NEW other \in [freshness : Item, ambiguous : BOOLEAN]
    PROVE  LET l == [freshness |-> f, ambiguous |-> a]
               r == [freshness |-> g, ambiguous |-> a]
           IN  /\ Sides!FromRemote(l) = Sides!FromRemote(r)
               /\ Sides!MergePair(other, l) = Sides!MergePair(other, r)
               /\ Sides!MergePair(l, other) = Sides!MergePair(r, other)
<1> DEFINE l == [freshness |-> f, ambiguous |-> a]
           r == [freshness |-> g, ambiguous |-> a]
           o == other.freshness
<1>1. o \in Item
  OBVIOUS
<1>2. /\ rank(f, o) = "Left" <=> rank(g, o) = "Left"
      /\ rank(f, o) = "Right" <=> rank(g, o) = "Right"
      /\ rank(o, f) = "Left" <=> rank(o, g) = "Left"
      /\ rank(o, f) = "Right" <=> rank(o, g) = "Right"
      /\ ~a => rank(f, o) = rank(g, o) /\ rank(o, f) = rank(o, g)
  BY <1>1, TiedCompareAlike
<1>3. Sides!FromRemote(l) = Sides!FromRemote(r)
  BY DEF Sides!FromRemote
<1>4. Sides!MergePair(other, l) = Sides!MergePair(other, r)
  <2>1. CASE rank(o, f) = "Left"
    BY <1>2, <2>1, SameRank DEF Sides!MergePair, Sides!prefer
  <2>2. CASE rank(o, f) # "Left" /\ a
    BY <1>2, <2>2, SameRank DEF Sides!MergePair
  <2>3. CASE rank(o, f) # "Left" /\ ~a
    BY <1>2, <1>3, <2>3, SameRank DEF Sides!MergePair, Sides!prefer
  <2> QED BY <2>1, <2>2, <2>3
<1>5. Sides!MergePair(l, other) = Sides!MergePair(r, other)
  <2>1. CASE rank(f, o) = "Right"
    BY <1>2, <2>1, SameRank DEF Sides!MergePair, Sides!prefer
  <2>2. CASE rank(f, o) # "Right" /\ a
    BY <1>2, <2>2, SameRank DEF Sides!MergePair
  <2>3. CASE rank(f, o) # "Right" /\ ~a
    BY <1>2, <2>3, SameRank DEF Sides!MergePair, Sides!prefer
  <2> QED BY <2>1, <2>2, <2>3
<1> QED BY <1>3, <1>4, <1>5

LEMMA InvFoldIsSummary == Inv => FoldIsSummary
<1> SUFFICES ASSUME Inv, Finished PROVE FoldIsSummary
  BY DEF FoldIsSummary
<1> DEFINE top == Sides!NewestOf(Chosen)
           picked == CHOOSE f \in top : TRUE
           several == \E f, g \in top : f.content_hash # g.content_hash
<1>1. /\ best \in DOMAIN items /\ tied \in BOOLEAN
      /\ \A i \in DOMAIN items : items[i] \in Item
      /\ Newest(best)
  BY InvNewest DEF Inv, TypeOK
<1>2. tied <=> \E i, j \in DOMAIN items :
                  /\ Newest(i) /\ Newest(j)
                  /\ items[i].content_hash # items[j].content_hash
  BY InvFindsNewest DEF FindsNewest
<1>3. \A i \in DOMAIN items : items[i] \in top <=> Newest(i)
  BY SameRank DEF Sides!NewestOf, Chosen, Newest
<1>4. \A f \in top : \E i \in DOMAIN items : f = items[i] /\ Newest(i)
  BY <1>3 DEF Sides!NewestOf, Chosen
<1>5. tied <=> several
  BY <1>2, <1>3, <1>4
<1>6. items[best] \in top /\ picked \in top
  BY <1>1, <1>3
<1>7. /\ items[best] \in Item /\ picked \in Item
      /\ rank(items[best], picked) # "Left" /\ rank(picked, items[best]) # "Left"
  BY <1>1, <1>4, <1>6 DEF Newest
<1>8. ~tied => items[best].content_hash = picked.content_hash
  BY <1>5, <1>6
<1>9. Sides!Summary(Chosen) = [freshness |-> picked, ambiguous |-> tied]
  BY <1>1, <1>5 DEF Sides!Summary
<1> HIDE DEF picked, top, several
<1> QED BY <1>1, <1>7, <1>8, <1>9, MergesAlike DEF FoldIsSummary

\* In whatever order the copies and the entries come, what is shown is decided
\* by the sets of them.
THEOREM FoldsAreSummaries == Spec => []FoldIsSummary
BY InitInv, StepInv, InvFoldIsSummary, PTL DEF Spec
=============================================================================
