------------------------------ MODULE MCArchive ------------------------------
(***************************************************************************)
(* Small instances of Archive for TLC.                                     *)
(***************************************************************************)
EXTENDS Archive, TLC

CONSTANTS h1, h2, h3, h4

Rev(session, repo, hash, rank) ==
    [session |-> session, repo |-> repo, hash |-> hash, rank |-> rank]

\* One session, an older and a newer body.
OldNew == {Rev("s", "r", h1, 0), Rev("s", "r", h2, 1)}

\* One session whose first body comes back later, as the newest.
Reverted == {Rev("s", "r", h1, 0), Rev("s", "r", h2, 1), Rev("s", "r", h1, 2)}

\* One session: two bodies tied at the top, an older one, and one that
\* another machine places in a different repository.
Disputed == {Rev("s", "r", h1, 0), Rev("s", "r", h2, 1), Rev("s", "r", h3, 1),
             Rev("s", "q", h4, 1)}

Machines == Permutations(Machine)

\* Racing commits alone: no gc, no passing of time, sources fixed.  The sweep
\* after a commit stops before its first request.
CommitStep(m) ==
    \/ Ingest(m) \/ Scan(m) \/ ScanConflict(m) \/ Put(m)
    \/ CommitNothing(m) \/ CommitLoad(m) \/ CommitConflict(m)
    \/ Commit(m) \/ CommitRetry(m) \/ CommitGiveUp(m)
    \/ Abort(m)

CommitSpec == Init /\ [][\E m \in Machine : CommitStep(m)]_vars

\* Prompt machines whose requests may fail.
FlakySpec ==
    Init /\ [][\/ PromptNext
              \/ \E m \in Machine : Abort(m) \/ CommitFails(m)]_vars

\* One session whose older body comes back, tied with the newer one.
Returning == OldNew \cup {Rev("s", "r", h1, 1)}
=============================================================================
