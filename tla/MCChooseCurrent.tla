--------------------------- MODULE MCChooseCurrent ---------------------------
(***************************************************************************)
(* ChooseCurrent over every sequence of up to three items with two hashes, *)
(* two times (or none) and two message counts.                             *)
(***************************************************************************)
EXTENDS ChooseCurrent, SequencesExt

CONSTANTS h1, h2, none

MaxItems == 3

\* Copies with equal rank and hash are interchangeable, and updated_at and
\* last_message_at count only through At: one of them is enough here.
SmallItems == {f \in [updated_at : {none, 1, 2}, last_message_at : {none, 1},
                      message_count : {1, 2}, content_hash : {h1, h2}] :
                 f.updated_at = 2 => f.last_message_at = none}

SmallInputs == BoundedSeq(SmallItems, MaxItems) \ {<<>>}
=============================================================================
