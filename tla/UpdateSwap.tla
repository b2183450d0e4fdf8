----------------------------- MODULE UpdateSwap -----------------------------
(***************************************************************************)
(* Self-update on Windows (src/src/update.rs, src/scripts/                 *)
(* update-windows.ps1): the new executable is staged beside the running    *)
(* one, and a script that outlives the process swaps them, one move at a   *)
(* time.  Every move may fail, as others hold the files, and the script    *)
(* may be killed.  Updates may overlap: each has a staged file and a       *)
(* backup of its own, and all have the same target.                        *)
(***************************************************************************)
EXTENDS Naturals

CONSTANTS
    Update,    \* runs of `update`, each with another executable
    Old,       \* the executable before them
    None,      \* no file
    Attempts   \* 30

VARIABLES
    target,    \* the executable installed
    staged,    \* the new one of each update
    backup,    \* what each update moved away
    pc,
    i,         \* attempts before this one
    stranded   \* updates that left the target missing: killed between two
               \* moves, or unable to roll back

vars == <<target, staged, backup, pc, i, stranded>>

Init ==
    /\ target = Old
    /\ staged = [u \in Update |-> None]
    /\ backup = [u \in Update |-> None]
    /\ pc = [u \in Update |-> "start"]
    /\ i = [u \in Update |-> 0]
    /\ stranded = {}

Goes(u, next) == pc' = [pc EXCEPT ![u] = next]

\* stage_and_replace: the verified file is kept and the script started, or it
\* is removed again.
Stage(u) ==
    /\ pc[u] = "start"
    /\ \/ staged' = [staged EXCEPT ![u] = u] /\ Goes(u, "away")
       \/ UNCHANGED staged /\ Goes(u, "end")
    /\ UNCHANGED <<target, backup, i, stranded>>

\* Nothing is moved over a file that exists.
MoveAway(u) ==
    /\ pc[u] = "away"
    /\ target # None /\ backup[u] = None
    /\ backup' = [backup EXCEPT ![u] = target]
    /\ target' = None
    /\ Goes(u, "place")
    /\ UNCHANGED <<staged, i, stranded>>

\* The catch around each attempt: also when the rollback failed.
Again(u) ==
    IF i[u] + 1 < Attempts
      THEN Goes(u, "away") /\ i' = [i EXCEPT ![u] = @ + 1]
      ELSE Goes(u, "end") /\ UNCHANGED i

MoveAwayFails(u) ==
    /\ pc[u] = "away"
    /\ Again(u)
    /\ UNCHANGED <<target, staged, backup, stranded>>

Place(u) ==
    /\ pc[u] = "place"
    /\ target = None /\ staged[u] # None
    /\ target' = staged[u]
    /\ staged' = [staged EXCEPT ![u] = None]
    /\ Goes(u, "clean")
    /\ UNCHANGED <<backup, i, stranded>>

PlaceFails(u) ==
    /\ pc[u] = "place"
    /\ Goes(u, "back")
    /\ UNCHANGED <<target, staged, backup, i, stranded>>

MoveBack(u) ==
    /\ pc[u] = "back"
    /\ target = None
    /\ target' = backup[u]
    /\ backup' = [backup EXCEPT ![u] = None]
    /\ Again(u)
    /\ UNCHANGED <<staged, stranded>>

MoveBackFails(u) ==
    /\ pc[u] = "back"
    /\ stranded' = stranded \cup {u}
    /\ Again(u)
    /\ UNCHANGED <<target, staged, backup>>

\* The backup is removed, which may fail.
Clean(u) ==
    /\ pc[u] = "clean"
    /\ backup' \in {backup, [backup EXCEPT ![u] = None]}
    /\ Goes(u, "end")
    /\ UNCHANGED <<target, staged, i, stranded>>

Killed(u) ==
    /\ pc[u] # "start"
    /\ stranded' = IF pc[u] \in {"place", "back"} THEN stranded \cup {u} ELSE stranded
    /\ Goes(u, "end")
    /\ UNCHANGED <<target, staged, backup, i>>

Next ==
    \E u \in Update :
        \/ Stage(u)
        \/ MoveAway(u) \/ MoveAwayFails(u)
        \/ Place(u) \/ PlaceFails(u)
        \/ MoveBack(u) \/ MoveBackFails(u)
        \/ Clean(u) \/ Killed(u)

Spec == Init /\ [][Next]_vars

\* The types of the variables.
TypeOK ==
    /\ target \in Update \cup {Old, None}
    /\ staged \in [Update -> Update \cup {None}]
    /\ backup \in [Update -> Update \cup {Old, None}]
    /\ pc \in [Update -> {"start", "away", "place", "back", "clean", "end"}]
    /\ i \in [Update -> Nat]
    /\ stranded \subseteq Update

\* "A failed swap keeps the original executable" (update-windows.ps1:36), as far
\* as the script goes: a target that is missing is in the backup of an update
\* that is about to fill its place, or of one that was killed or could not
\* roll back; no later attempt and no other update overwrites or removes it.
ExecutableKept ==
    target = None =>
        \E u \in Update :
            /\ backup[u] # None
            /\ pc[u] \in {"place", "back"} \/ u \in stranded

=============================================================================
