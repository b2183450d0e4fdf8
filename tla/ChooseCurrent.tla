---------------------------- MODULE ChooseCurrent ----------------------------
(***************************************************************************)
(* The fold of choose_current (src/src/merge.rs:125-149), which finds the  *)
(* current snapshot among the revisions of a session, and of prune_to_     *)
(* current (src/src/catalog.rs:132-169), which keeps what it ties with.    *)
(* choose_local (src/src/sessions.rs:103-116) is the same fold over local  *)
(* copies.  One step is one iteration of the loop.                         *)
(*                                                                         *)
(* The fold compares every item with the best so far only; that this finds *)
(* every tie at the top, in any order of the items, is the correctness     *)
(* stated here.                                                            *)
(***************************************************************************)
EXTENDS Freshness, Sequences

CONSTANT Inputs  \* the non-empty sequences of items to choose from

ASSUME InputsAssumption == Inputs \subseteq Seq(Item) \ {<<>>}

VARIABLES items, index, best, tied

vars == <<items, index, best, tied>>

Init ==
    /\ items \in Inputs
    /\ index = 2
    /\ best = 1
    /\ tied = FALSE

\* (mutant) A newer item does not end the tie of the older ones.
NewerKeepsTie ==
    /\ index <= Len(items)
    /\ rank(items[best], items[index]) = "Right"
    /\ best' = index
    /\ index' = index + 1
    /\ UNCHANGED <<items, tied>>

Newer ==
    /\ index <= Len(items)
    /\ rank(items[best], items[index]) = "Right"
    /\ best' = index
    /\ tied' = FALSE
    /\ index' = index + 1
    /\ UNCHANGED items

NotNewer ==
    /\ index <= Len(items)
    /\ rank(items[best], items[index]) # "Right"
    /\ tied' = (tied \/ rank(items[best], items[index]) = "Ambiguous")
    /\ index' = index + 1
    /\ UNCHANGED <<items, best>>

Next == Newer \/ NotNewer

Spec == Init /\ [][Next]_vars

\* What is not older than the winner.
NotOlder == {i \in DOMAIN items : prefer(items[i], items[best]) # "Remote"}

\* (mutant) What only ties with the winner is dropped.
KeptStrict == {i \in NotOlder : prefer(items[i], items[best]) = "Local"}

\* prune_to_current keeps one entry per body that is not older than the
\* winner: the winner itself, and the first one of every other body.
Kept ==
    {i \in NotOlder :
        IF items[i].content_hash = items[best].content_hash
          THEN i = best
          ELSE \A j \in NotOlder :
                  items[j].content_hash = items[i].content_hash => i <= j}

-----------------------------------------------------------------------------

TypeOK ==
    /\ items \in Inputs
    /\ index \in 2 .. Len(items) + 1
    /\ best \in 1 .. index - 1
    /\ tied \in BOOLEAN

\* No item is strictly newer than the i-th.
Newest(i) == \A j \in DOMAIN items : rank(items[j], items[i]) # "Left"

Finished == index > Len(items)

\* "Order is updated_at, then the last message time, then message count.
\* Equal rank and equal content hash are the same body.  Equal rank and
\* different hashes have no current body." (merge.rs:120-124)
FindsNewest ==
    Finished =>
        /\ Newest(best)
        /\ tied <=> \E i, j \in DOMAIN items :
                        /\ Newest(i) /\ Newest(j)
                        /\ items[i].content_hash # items[j].content_hash

\* "The winning revision and every revision tied with it at the top rank stay
\* [...] while anything clearly older is removed", and "revisions sharing a
\* content hash collapse to one entry" (catalog.rs:127-131).
KeepsNewest ==
    Finished =>
        /\ \A i \in Kept : Newest(i)
        /\ \A i \in DOMAIN items : Newest(i) =>
                \E j \in Kept : items[j].content_hash = items[i].content_hash
        /\ \A i, j \in Kept :
                items[i].content_hash = items[j].content_hash => i = j

Chosen == {items[i] : i \in DOMAIN items}
Sides == INSTANCE MergedView WITH Items <- Item, local <- {}, remote <- Chosen

\* Which of the newest items the fold picks, that is, in which order the files
\* and the entries come, makes no difference to what is shown: merge_pair gets
\* the same result from the fold as from the summary of the set, whatever the
\* other side is (merge.rs:125-149, 244-259).
FoldIsSummary ==
    Finished =>
        LET found == [freshness |-> items[best], ambiguous |-> tied]
            summary == Sides!Summary(Chosen)
        IN  /\ Sides!FromRemote(found) = Sides!FromRemote(summary)
            /\ \A other \in [freshness : Item, ambiguous : BOOLEAN] :
                  /\ Sides!MergePair(other, found) = Sides!MergePair(other, summary)
                  /\ Sides!MergePair(found, other) = Sides!MergePair(summary, other)

\* The loop invariant: among the items seen, none is newer than the best, and
\* the tie is known exactly.
BestSoFar ==
    /\ \A i \in 1 .. index - 1 : rank(items[i], items[best]) # "Left"
    /\ tied <=> \E i \in 1 .. index - 1 :
                    rank(items[i], items[best]) = "Ambiguous"
=============================================================================
