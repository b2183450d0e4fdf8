------------------------------- MODULE RunLock -------------------------------
(***************************************************************************)
(* The lock file ingest.lock that lets one ingest or gc run at a time on a *)
(* machine (src/src/ingest.rs:354-390, 422-458).  acquire reads the file;  *)
(* unless it names another live process, the file is removed, created anew *)
(* and only then filled with the process id.  Drop removes the file,       *)
(* whoever created it.  Each call on the file system is one step.          *)
(*                                                                         *)
(* Process ids are reused: a process may get the id a dead one left in the *)
(* file, and so may a process that has nothing to do with this program.    *)
(***************************************************************************)
EXTENDS Naturals, FiniteSets

CONSTANTS
    Process,       \* the processes that run ingest, watch or gc
    Pid,           \* process ids
    NoFile,        \* the lock file does not exist
    NoPid,         \* no process id: of a dead process, or in an empty file
    MaxAccidents   \* bound on failures, deaths and foreign processes

ASSUME PidAssumption == NoPid \notin Pid /\ NoFile \notin [by : Process, text : Pid \cup {NoPid}]

ASSUME AccidentsAssumption == MaxAccidents \in Nat

VARIABLES
    file,       \* the lock file: who created it, and the id written in it
    pid,        \* the id of each process, or NoPid while it does not run
    pc,         \* what acquire does next; "run" while the lock is held
    foreign,    \* ids of live processes of other programs
    accidents   \* failed writes, deaths and foreign processes so far

vars == <<file, pid, pc, foreign, accidents>>

Init ==
    /\ file = NoFile
    /\ pid = [p \in Process |-> NoPid]
    /\ pc = [p \in Process |-> "idle"]
    /\ foreign = {}
    /\ accidents = 0

Used == {pid[p] : p \in Process} \cup foreign

\* (mutant) A process that holds the lock does not count as alive.
AliveIfIdle(n) == \E p \in Process : pid[p] = n /\ pc[p] # "run"

\* process_alive: some process has the id.
Alive(n) == n \in Used

Start(p) ==
    /\ pid[p] = NoPid
    /\ \E n \in Pid \ Used : pid' = [pid EXCEPT ![p] = n]
    /\ UNCHANGED <<file, pc, foreign, accidents>>

\* (mutant) A file that names a process is respected, dead or alive.
ReadTrustsFile(p) ==
    /\ pid[p] # NoPid
    /\ pc[p] = "idle"
    /\ \/ /\ file = NoFile
          /\ pc' = [pc EXCEPT ![p] = "create"]
       \/ /\ file # NoFile
          /\ file.text \in {NoPid, pid[p]}
          /\ pc' = [pc EXCEPT ![p] = "remove"]
    /\ UNCHANGED <<file, pid, foreign, accidents>>

\* acquire reads the file.  It refuses when the file names another live
\* process, which changes nothing; otherwise the file, if any, goes.
Read(p) ==
    /\ pid[p] # NoPid
    /\ pc[p] = "idle"
    /\ \/ /\ file = NoFile
          /\ pc' = [pc EXCEPT ![p] = "create"]
       \/ /\ file # NoFile
          /\ file.text # NoPid => file.text = pid[p] \/ ~Alive(file.text)
          /\ pc' = [pc EXCEPT ![p] = "remove"]
    /\ UNCHANGED <<file, pid, foreign, accidents>>

\* remove_file, which fails when another process removed the file before.
Remove(p) ==
    /\ pc[p] = "remove"
    /\ pc' = [pc EXCEPT ![p] = IF file = NoFile THEN "idle" ELSE "create"]
    /\ file' = NoFile
    /\ UNCHANGED <<pid, foreign, accidents>>

\* create_new, which fails when the file exists: "ingest is already running".
Create(p) ==
    /\ pc[p] = "create"
    /\ IF file = NoFile
         THEN /\ pc' = [pc EXCEPT ![p] = "write"]
              /\ file' = [by |-> p, text |-> NoPid]
         ELSE /\ pc' = [pc EXCEPT ![p] = "idle"]
              /\ UNCHANGED file
    /\ UNCHANGED <<pid, foreign, accidents>>

\* (mutant) The id is not written.
WriteNothing(p) ==
    /\ pc[p] = "write"
    /\ pc' = [pc EXCEPT ![p] = "run"]
    /\ UNCHANGED <<file, pid, foreign, accidents>>

\* The id goes into the file that this process created, which may have lost
\* its name since.
Write(p) ==
    /\ pc[p] = "write"
    /\ pc' = [pc EXCEPT ![p] = "run"]
    /\ file' = IF file # NoFile /\ file.by = p
                 THEN [file EXCEPT !.text = pid[p]]
                 ELSE file
    /\ UNCHANGED <<pid, foreign, accidents>>

\* Writing the id fails: acquire returns without a lock, so that nothing
\* removes the empty file.
WriteFails(p) ==
    /\ accidents < MaxAccidents
    /\ pc[p] = "write"
    /\ pc' = [pc EXCEPT ![p] = "idle"]
    /\ accidents' = accidents + 1
    /\ UNCHANGED <<file, pid, foreign>>

\* The command returns and Drop removes the file.
Release(p) ==
    /\ pc[p] = "run"
    /\ pc' = [pc EXCEPT ![p] = "idle"]
    /\ file' = NoFile
    /\ UNCHANGED <<pid, foreign, accidents>>

\* The process ends, whatever it does; its lock file stays.
Die(p) ==
    /\ accidents < MaxAccidents
    /\ pid[p] # NoPid
    /\ pid' = [pid EXCEPT ![p] = NoPid]
    /\ pc' = [pc EXCEPT ![p] = "idle"]
    /\ accidents' = accidents + 1
    /\ UNCHANGED <<file, foreign>>

\* A process of another program gets a free id.
ForeignStart ==
    /\ accidents < MaxAccidents
    /\ \E n \in Pid \ Used : foreign' = foreign \cup {n}
    /\ accidents' = accidents + 1
    /\ UNCHANGED <<file, pid, pc>>

ForeignExit ==
    /\ \E n \in foreign : foreign' = foreign \ {n}
    /\ UNCHANGED <<file, pid, pc, accidents>>

Acquiring(p) == pc[p] \in {"remove", "create", "write"}

ProcessStep(p) ==
    \/ Start(p) \/ Read(p) \/ Remove(p) \/ Create(p) \/ Write(p) \/ Release(p)

Next ==
    \/ \E p \in Process : ProcessStep(p) \/ WriteFails(p) \/ Die(p)
    \/ ForeignStart
    \/ ForeignExit

Spec == Init /\ [][Next]_vars

\* No process begins to acquire the lock while another is acquiring it.
Serial ==
    \A p \in Process : Read(p) => \A q \in Process \ {p} : ~Acquiring(q)

SerialSpec == Init /\ [][Next /\ Serial]_vars

-----------------------------------------------------------------------------

TypeOK ==
    /\ file \in [by : Process, text : Pid \cup {NoPid}] \cup {NoFile}
    /\ pid \in [Process -> Pid \cup {NoPid}]
    /\ pc \in [Process -> {"idle", "remove", "create", "write", "run"}]
    /\ foreign \subseteq Pid
    /\ accidents \in 0 .. MaxAccidents

\* Two live processes never hold the lock at once (ingest.rs:366-369, 378-380:
\* "ingest is already running").
MutualExclusion ==
    \A p, q \in Process : pc[p] = "run" /\ pc[q] = "run" => p = q

\* A holder is named by the lock file, so that others can see it.
HolderNamed ==
    \A p \in Process : pc[p] = "run" => file = [by |-> p, text |-> pid[p]]

\* Processes keep trying (watch), and foreign processes end.
Fairness ==
    /\ WF_vars(ForeignExit)
    /\ \A p \in Process : WF_vars(ProcessStep(p))

FairSerialSpec == SerialSpec /\ Fairness

\* What a dead process left behind never keeps the others out for good.
StaleLockTaken == []<>(\E p \in Process : pc[p] = "run")
=============================================================================
