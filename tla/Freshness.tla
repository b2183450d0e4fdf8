------------------------------ MODULE Freshness ------------------------------
(***************************************************************************)
(* What makes one snapshot of a session newer than another                 *)
(* (src/src/merge.rs): updated_at or, without it, the time of the last     *)
(* message; then the number of messages.  Snapshots of equal rank are the  *)
(* same body when their content hashes are equal, and ambiguous otherwise. *)
(***************************************************************************)
EXTENDS Naturals

CONSTANTS
    Hash,   \* content hashes
    Time,   \* timestamps
    Count,  \* numbers of messages
    None    \* the missing timestamp

ASSUME FreshnessAssumption ==
    Time \subseteq Nat /\ Count \subseteq Nat /\ None \notin Nat

Item == [updated_at : Time \cup {None}, last_message_at : Time \cup {None},
         message_count : Count, content_hash : Hash]

\* updated_at.or(last_message_at)
At(f) == IF f.updated_at # None THEN f.updated_at ELSE f.last_message_at

\* The left snapshot has a later time than the right one; any time is later
\* than none.
Later(f, g) ==
    /\ At(f) # None
    /\ At(g) = None \/ At(f) > At(g)

\* (mutant) Without a time on one side, only the message counts decide.
rankTimeless(left, right) ==
    CASE At(left) # None /\ At(right) # None /\ At(left) > At(right) -> "Left"
      [] At(left) # None /\ At(right) # None /\ At(right) > At(left) -> "Right"
      [] OTHER ->
         CASE left.message_count > right.message_count -> "Left"
           [] left.message_count < right.message_count -> "Right"
           [] OTHER -> IF left.content_hash = right.content_hash
                         THEN "Same" ELSE "Ambiguous"

rank(left, right) ==
    CASE Later(left, right) -> "Left"
      [] Later(right, left) -> "Right"
      [] OTHER ->
         CASE left.message_count > right.message_count -> "Left"
           [] left.message_count < right.message_count -> "Right"
           [] OTHER -> IF left.content_hash = right.content_hash
                         THEN "Same" ELSE "Ambiguous"

\* prefer: which of two copies supplies the body; the left one wins ties.
prefer(left, right) ==
    CASE rank(left, right) \in {"Left", "Same"} -> "Local"
      [] rank(left, right) = "Right"            -> "Remote"
      [] OTHER                                  -> "Ambiguous"
=============================================================================
