---------------------------- MODULE RunLock_proofs ----------------------------
(***************************************************************************)
(* When acquisitions do not overlap, the lock file excludes: whatever      *)
(* dies and whichever process id is used again, no two live processes hold *)
(* the lock, and a holder is named by the file.                            *)
(***************************************************************************)
EXTENDS RunLock, TLAPS

\* What makes the two properties inductive: a process id is used once; no one
\* holds the lock while a process acquires it; a process that writes its id
\* writes it into the file that has the name.
LockInv ==
    /\ \A p \in Process : pc[p] # "idle" => pid[p] # NoPid
    /\ \A p, q \in Process : p # q /\ pid[p] = pid[q] => pid[p] = NoPid
    /\ \A p \in Process : Acquiring(p) =>
          \A q \in Process \ {p} : ~Acquiring(q) /\ pc[q] # "run"
    /\ \A p \in Process : pc[p] = "write" => file = [by |-> p, text |-> NoPid]

Inv == TypeOK /\ LockInv /\ HolderNamed

\* At first no process runs and there is no file.
LEMMA InvInit == Init => Inv
  BY PidAssumption, AccidentsAssumption
  DEF Init, Inv, TypeOK, LockInv, HolderNamed, Acquiring

\* A file with a creator and an id is a file.
LEMMA FileExists ==
  ASSUME NEW p \in Process, NEW n \in Pid \cup {NoPid}
  PROVE  /\ [by |-> p, text |-> n] \in [by : Process, text : Pid \cup {NoPid}]
         /\ [by |-> p, text |-> n] # NoFile
  BY PidAssumption

\* Starting a process gives it an id no other process has.
LEMMA InvStart ==
  ASSUME Inv, NEW p \in Process, Start(p)
  PROVE  Inv'
<1>1. PICK n \in Pid \ Used : pid' = [pid EXCEPT ![p] = n]
  BY DEF Start
<1>2. pc[p] = "idle" /\ UNCHANGED <<file, pc, foreign, accidents>>
  BY DEF Start, Inv, LockInv
<1>3. n \in Pid /\ \A q \in Process : pid[q] # n
  BY <1>1 DEF Used
<1>4. TypeOK'
  BY <1>1, <1>2, <1>3 DEF Inv, TypeOK
<1>5. HolderNamed'
  BY <1>1, <1>2 DEF Inv, TypeOK, HolderNamed
<1>6. LockInv'
  BY <1>1, <1>2, <1>3 DEF Inv, TypeOK, LockInv, Acquiring
<1> QED
  BY <1>4, <1>5, <1>6 DEF Inv

\* Reading the file: no one can hold the lock when acquire goes on.
LEMMA InvRead ==
  ASSUME Inv, NEW p \in Process, Read(p), Serial
  PROVE  Inv'
<1>1. pc' \in {[pc EXCEPT ![p] = "create"], [pc EXCEPT ![p] = "remove"]}
      /\ pid[p] # NoPid /\ pc[p] = "idle"
      /\ UNCHANGED <<file, pid, foreign, accidents>>
  BY DEF Read
<1>2. \A q \in Process \ {p} : ~Acquiring(q)
  BY DEF Serial
<1>3. \A q \in Process \ {p} : pc[q] # "run"
  <2> SUFFICES ASSUME NEW q \in Process \ {p}, pc[q] = "run"
               PROVE  FALSE
    OBVIOUS
  <2>1. file = [by |-> q, text |-> pid[q]] /\ pid[q] \in Pid
    BY DEF Inv, HolderNamed, LockInv, TypeOK
  <2>2. file # NoFile /\ file.text = pid[q]
    BY <2>1, FileExists
  <2>3. pid[q] # NoPid /\ pid[q] # pid[p]
    BY <1>1 DEF Inv, LockInv
  <2>4. Alive(pid[q])
    BY DEF Alive, Used
  <2> QED
    BY <2>2, <2>3, <2>4 DEF Read
<1>4. TypeOK'
  BY <1>1 DEF Inv, TypeOK
<1>5. HolderNamed'
  BY <1>1 DEF Inv, TypeOK, HolderNamed
<1>6. LockInv'
  BY <1>1, <1>2, <1>3 DEF Inv, TypeOK, LockInv, Acquiring
<1> QED
  BY <1>4, <1>5, <1>6 DEF Inv

\* Removing the file: it is no holder's.
LEMMA InvRemove ==
  ASSUME Inv, NEW p \in Process, Remove(p)
  PROVE  Inv'
<1>1. \A q \in Process \ {p} : pc[q] # "run" /\ pc[q] # "write"
  BY DEF Inv, LockInv, Remove, Acquiring
<1>2. pc' \in {[pc EXCEPT ![p] = "create"], [pc EXCEPT ![p] = "idle"]}
      /\ pc[p] = "remove" /\ file' = NoFile
      /\ UNCHANGED <<pid, foreign, accidents>>
  BY DEF Remove
<1>3. TypeOK'
  BY <1>2 DEF Inv, TypeOK
<1>4. HolderNamed'
  BY <1>1, <1>2 DEF Inv, TypeOK, HolderNamed
<1>5. LockInv'
  BY <1>1, <1>2 DEF Inv, TypeOK, LockInv, Acquiring
<1> QED
  BY <1>3, <1>4, <1>5 DEF Inv

\* Creating the file: it holds no id yet.
LEMMA InvCreate ==
  ASSUME Inv, NEW p \in Process, Create(p)
  PROVE  Inv'
<1>1. \A q \in Process \ {p} : pc[q] # "run" /\ ~Acquiring(q)
  BY DEF Inv, LockInv, Create, Acquiring
<1>2. CASE file = NoFile
  <2>1. pc' = [pc EXCEPT ![p] = "write"] /\ pc[p] = "create"
        /\ file' = [by |-> p, text |-> NoPid]
        /\ UNCHANGED <<pid, foreign, accidents>>
    BY <1>2 DEF Create
  <2>2. TypeOK'
    BY <2>1 DEF Inv, TypeOK
  <2>3. HolderNamed' /\ LockInv'
    BY <1>1, <2>1 DEF Inv, TypeOK, LockInv, HolderNamed, Acquiring
  <2> QED
    BY <2>2, <2>3 DEF Inv
<1>3. CASE file # NoFile
  <2>1. pc' = [pc EXCEPT ![p] = "idle"] /\ pc[p] = "create"
        /\ UNCHANGED <<file, pid, foreign, accidents>>
    BY <1>3 DEF Create
  <2>2. TypeOK'
    BY <2>1 DEF Inv, TypeOK
  <2>3. HolderNamed' /\ LockInv'
    BY <1>1, <2>1 DEF Inv, TypeOK, LockInv, HolderNamed, Acquiring
  <2> QED
    BY <2>2, <2>3 DEF Inv
<1> QED
  BY <1>2, <1>3

\* Writing the id: the file is still the one this process created.
LEMMA InvWrite ==
  ASSUME Inv, NEW p \in Process, Write(p)
  PROVE  Inv'
<1>1. pc[p] = "write" /\ file = [by |-> p, text |-> NoPid]
  BY DEF Write, Inv, LockInv
<1>2. file # NoFile /\ file.by = p
  BY <1>1, FileExists
<1>3. /\ file' = [by |-> p, text |-> pid[p]]
      /\ pc' = [pc EXCEPT ![p] = "run"]
      /\ UNCHANGED <<pid, foreign, accidents>>
  BY <1>1, <1>2 DEF Write
<1>4. \A q \in Process \ {p} : pc[q] # "run" /\ ~Acquiring(q)
  BY <1>1 DEF Inv, LockInv, Acquiring
<1>5. TypeOK'
  BY <1>3 DEF Inv, TypeOK
<1>6. HolderNamed' /\ LockInv'
  BY <1>1, <1>3, <1>4 DEF Inv, TypeOK, LockInv, HolderNamed, Acquiring
<1> QED
  BY <1>5, <1>6 DEF Inv

\* A holder is alone, so its Drop removes its own file.
LEMMA InvRelease ==
  ASSUME Inv, NEW p \in Process, Release(p)
  PROVE  Inv'
<1>1. \A q \in Process \ {p} : pc[q] # "run" /\ ~Acquiring(q)
  <2> SUFFICES ASSUME NEW q \in Process \ {p}
               PROVE  pc[q] # "run" /\ ~Acquiring(q)
    OBVIOUS
  <2>1. ~Acquiring(q)
    BY DEF Release, Inv, LockInv
  <2>2. file.by = p
    BY DEF Release, Inv, HolderNamed
  <2>3. pc[q] # "run"
    BY <2>2 DEF Inv, HolderNamed
  <2> QED
    BY <2>1, <2>3
<1>2. /\ pc' = [pc EXCEPT ![p] = "idle"]
      /\ file' = NoFile
      /\ UNCHANGED <<pid, foreign, accidents>>
  BY DEF Release
<1>3. TypeOK'
  BY <1>2 DEF Inv, TypeOK
<1>4. HolderNamed' /\ LockInv'
  BY <1>1, <1>2 DEF Inv, TypeOK, LockInv, HolderNamed, Acquiring
<1> QED
  BY <1>3, <1>4 DEF Inv

\* A process that ends, or fails to write its id, leaves the file alone.
LEMMA InvLeave ==
  ASSUME Inv, NEW p \in Process, Die(p) \/ WriteFails(p)
  PROVE  Inv'
<1>1. /\ pc' = [pc EXCEPT ![p] = "idle"]
      /\ pid' \in {pid, [pid EXCEPT ![p] = NoPid]}
      /\ accidents < MaxAccidents /\ accidents' = accidents + 1
      /\ UNCHANGED <<file, foreign>>
  BY DEF Die, WriteFails
<1>2. TypeOK'
  BY <1>1, AccidentsAssumption DEF Inv, TypeOK
<1>3. HolderNamed' /\ LockInv'
  BY <1>1 DEF Inv, TypeOK, LockInv, HolderNamed, Acquiring
<1> QED
  BY <1>2, <1>3 DEF Inv

\* Every step without overlap keeps the invariant.
LEMMA InvStep == Inv /\ [Next /\ Serial]_vars => Inv'
<1> SUFFICES ASSUME Inv, [Next /\ Serial]_vars
             PROVE  Inv'
  OBVIOUS
<1>1. ASSUME NEW p \in Process, ProcessStep(p), Serial
      PROVE  Inv'
  BY <1>1, InvStart, InvRead, InvRemove, InvCreate, InvWrite, InvRelease
  DEF ProcessStep
<1>2. ASSUME NEW p \in Process, Die(p) \/ WriteFails(p)
      PROVE  Inv'
  BY <1>2, InvLeave
<1>3. CASE ForeignStart \/ ForeignExit
  <2>1. /\ foreign' \subseteq Pid
        /\ accidents' \in 0 .. MaxAccidents
        /\ UNCHANGED <<file, pid, pc>>
    BY <1>3, AccidentsAssumption
    DEF ForeignStart, ForeignExit, Inv, TypeOK
  <2> QED
    BY <2>1 DEF Inv, TypeOK, LockInv, HolderNamed, Acquiring
<1>4. CASE UNCHANGED vars
  BY <1>4 DEF vars, Inv, TypeOK, LockInv, HolderNamed, Acquiring
<1> QED
  BY <1>1, <1>2, <1>3, <1>4 DEF Next

\* The invariant holds of every run whose acquisitions do not overlap.
THEOREM LockInvariant == SerialSpec => []Inv
<1>1. Init => Inv
  BY InvInit
<1>2. Inv /\ [Next /\ Serial]_vars => Inv'
  BY InvStep
<1> QED
  BY <1>1, <1>2, PTL DEF SerialSpec

\* Every holder is named by the lock file, for any number of processes and any
\* reuse of process ids.
THEOREM HolderIsNamed == SerialSpec => []HolderNamed
  BY LockInvariant, PTL DEF Inv

\* At most one live process holds the lock (ingest.rs:358-390), as long as no
\* process begins to acquire it while another does.
THEOREM SerialExclusion == SerialSpec => []MutualExclusion
<1>1. Inv => MutualExclusion
  <2> SUFFICES ASSUME Inv, NEW p \in Process, NEW q \in Process,
                      pc[p] = "run", pc[q] = "run"
               PROVE  p = q
    BY DEF MutualExclusion
  <2>1. file.by = p /\ file.by = q
    BY DEF Inv, HolderNamed
  <2> QED
    BY <2>1
<1> QED
  BY <1>1, LockInvariant, PTL
=============================================================================
