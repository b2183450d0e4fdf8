----------------------------- MODULE MergedView -----------------------------
(***************************************************************************)
(* What one machine shows of one session of one repository: its local      *)
(* copies merged with the catalog's revisions (src/src/sessions.rs and     *)
(* merge.rs), while this machine and others archive what they have.        *)
(*                                                                         *)
(* A machine may hold several copies of a session (choose_local), and each *)
(* side may tie with itself; merge_pair combines two summaries and never   *)
(* sees the sets behind them.                                              *)
(***************************************************************************)
EXTENDS Freshness

CONSTANT Items  \* the snapshots that can exist

ASSUME ItemsAssumption == Items \subseteq Item

VARIABLES
    local,   \* freshness of the local copies on this machine
    remote   \* freshness of the catalog's revisions, one for each hash

vars == <<local, remote>>

HashesOf(S) == {f.content_hash : f \in S}

\* The items of S that none is strictly newer than.
NewestOf(S) == {f \in S : \A g \in S : rank(g, f) # "Left"}

\* choose_local and choose_current of a non-empty set, by what module
\* ChooseCurrent shows of their fold: a newest item, and whether others tie
\* with it on a different body.
Summary(S) ==
    [freshness |-> CHOOSE f \in NewestOf(S) : TRUE,
     ambiguous |-> \E f, g \in NewestOf(S) : f.content_hash # g.content_hash]

View(pick, hash) == [pick |-> pick, content_hash |-> hash]

Ambiguous == View("Ambiguous", "")

\* from_remote, without a local twin
FromRemote(r) ==
    IF r.ambiguous THEN Ambiguous
                   ELSE View("Remote", r.freshness.content_hash)

\* (mutant) Only the remote side is asked whether it is ambiguous.
MergePairTrusting(l, r) ==
    LET ordering == rank(l.freshness, r.freshness)
    IN  CASE r.ambiguous /\ ordering # "Left" -> Ambiguous
          [] OTHER ->
              CASE prefer(l.freshness, r.freshness) = "Local" ->
                       View("Local", l.freshness.content_hash)
                [] prefer(l.freshness, r.freshness) = "Remote" -> FromRemote(r)
                [] OTHER -> Ambiguous

\* merge_pair: an ambiguous side only loses when the other is strictly newer.
MergePair(l, r) ==
    LET ordering == rank(l.freshness, r.freshness)
    IN  CASE r.ambiguous /\ ordering # "Left"  -> Ambiguous
          [] l.ambiguous /\ ordering # "Right" -> Ambiguous
          [] OTHER ->
              CASE prefer(l.freshness, r.freshness) = "Local" ->
                       View("Local", l.freshness.content_hash)
                [] prefer(l.freshness, r.freshness) = "Remote" -> FromRemote(r)
                [] OTHER -> Ambiguous

\* select, for this session; without any copy it is not listed.
Shown ==
    CASE local = {} /\ remote = {} -> View("None", "")
      [] local = {} /\ remote # {} -> FromRemote(Summary(remote))
      [] local # {} /\ remote = {} ->
            LET l == Summary(local)
            IN  IF l.ambiguous THEN Ambiguous
                               ELSE View("Local", l.freshness.content_hash)
      [] OTHER -> MergePair(Summary(local), Summary(remote))

\* (mutant) Of revisions tied at the top, one stays.
CommittedToOne(base, new) ==
    LET merged == base \cup {f \in new : f.content_hash \notin HashesOf(base)}
    IN  {CHOOSE f \in NewestOf(merged) : TRUE}

\* merge_catalogs and prune_to_current: an entry there for the same hash is
\* kept with its freshness, and what is not newest goes.
Committed(base, new) ==
    NewestOf(base \cup {f \in new : f.content_hash \notin HashesOf(base)})

\* The snapshots one scan uploads: one for each body the catalog lacks.
Uploads(S) ==
    {I \in SUBSET S :
        /\ HashesOf(I) = HashesOf(S) \ HashesOf(remote)
        /\ \A f, g \in I : f.content_hash = g.content_hash => f = g}

-----------------------------------------------------------------------------

Init == local = {} /\ remote = {}

\* A harness writes a new copy, or new content of a copy.
Edit ==
    \E new \in Items :
        /\ new \notin local
        /\ \/ local' = local \cup {new}
           \/ \E old \in local : local' = (local \ {old}) \cup {new}
        /\ UNCHANGED remote

\* A harness drops a copy.
Remove ==
    /\ \E f \in local : local' = local \ {f}
    /\ UNCHANGED remote

\* ingest on this machine.
Archive ==
    \E I \in Uploads(local) :
        /\ I # {}
        /\ remote' = Committed(remote, I)
        /\ UNCHANGED local

\* ingest on another machine.
ArchiveElsewhere ==
    \E f \in Items :
        /\ f.content_hash \notin HashesOf(remote)
        /\ remote' = Committed(remote, {f})
        /\ UNCHANGED local

Next == Edit \/ Remove \/ Archive \/ ArchiveElsewhere

Spec == Init /\ [][Next]_vars

-----------------------------------------------------------------------------

\* "A session in both places is one entry that uses the newer body.  [...]
\* With equal rank and different bodies, getting the body is an error"
\* (README.md:13): the two summaries lose nothing that the sets would tell.
ShownIsNewest ==
    LET newest == NewestOf(local \cup remote)
        bodies == HashesOf(newest)
    IN  Shown =
          CASE newest = {} -> View("None", "")
            [] \E h \in bodies : bodies = {h} ->
                  View(IF newest \cap local # {} THEN "Local" ELSE "Remote",
                       CHOOSE h \in bodies : TRUE)
            [] OTHER -> Ambiguous

\* Archiving what this machine has, and pruning the catalog with it, changes
\* nothing that this machine shows ("nothing user-visible is lost",
\* catalog.rs:130).
ArchiveChangesNothingShown == [][Archive => Shown' = Shown]_vars
=============================================================================
