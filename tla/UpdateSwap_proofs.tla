------------------------- MODULE UpdateSwap_proofs -------------------------
(***************************************************************************)
(* Overlapping updates never lose the executable they replace.             *)
(***************************************************************************)
EXTENDS UpdateSwap, TLAPS

\* Whoever holds the missing executable keeps it: an update that has moved the
\* target away has it in its backup, and one that is stranded never moves
\* anything again.
SwapInv ==
    /\ TypeOK
    /\ \A u \in Update : pc[u] \in {"place", "back"} => backup[u] # None
    /\ \A u \in stranded : pc[u] \in {"away", "end"} /\ backup[u] # None
    /\ ExecutableKept

\* A step of one update that leaves target and backups alone, and strands the
\* update if it held the executable.
LEMMA SwapStays ==
  ASSUME SwapInv, NEW u \in Update, UNCHANGED <<target, backup>>,
         staged' \in [Update -> Update \cup {None}], i' \in [Update -> Nat],
         NEW next \in {"away", "back", "end"}, pc' = [pc EXCEPT ![u] = next],
         next = "back" => pc[u] = "place" /\ stranded' = stranded,
         stranded' = stranded
           \/ (stranded' = stranded \cup {u} /\ pc[u] \in {"place", "back"}),
         pc[u] \in {"place", "back"} /\ next # "back" => u \in stranded'
  PROVE  SwapInv'
<1>1. TypeOK'
  BY DEF SwapInv, TypeOK
<1>2. pc'[u] = next /\ \A v \in Update \ {u} : pc'[v] = pc[v]
  BY DEF SwapInv, TypeOK
<1>3. \A v \in Update : pc'[v] \in {"place", "back"} => backup'[v] # None
  BY <1>2 DEF SwapInv
<1>4. \A v \in stranded' : pc'[v] \in {"away", "end"} /\ backup'[v] # None
  BY <1>2 DEF SwapInv, TypeOK
<1>5. ExecutableKept'
  <2> SUFFICES ASSUME target = None
               PROVE  \E w \in Update :
                         backup[w] # None /\ (pc'[w] \in {"place", "back"} \/ w \in stranded')
    BY DEF ExecutableKept
  <2>1. PICK w \in Update : backup[w] # None /\ (pc[w] \in {"place", "back"} \/ w \in stranded)
    BY DEF SwapInv, ExecutableKept
  <2>2. stranded \subseteq stranded'
    OBVIOUS
  <2>3. CASE w = u
    BY <1>2, <2>1, <2>2, <2>3
  <2>4. CASE w # u
    BY <1>2, <2>1, <2>2, <2>4
  <2> QED
    BY <2>3, <2>4
<1> QED
  BY <1>1, <1>3, <1>4, <1>5 DEF SwapInv

LEMMA AgainGoes ==
  ASSUME TypeOK, NEW u \in Update, Again(u)
  PROVE  /\ \E next \in {"away", "end"} : pc' = [pc EXCEPT ![u] = next]
         /\ i' \in [Update -> Nat]
  BY DEF TypeOK, Again, Goes

LEMMA SwapNext ==
  ASSUME SwapInv, [Next]_vars
  PROVE  SwapInv'
<1>1. CASE UNCHANGED vars
  BY <1>1 DEF vars, SwapInv, TypeOK, ExecutableKept
<1>2. ASSUME NEW u \in Update, Stage(u) \/ MoveAwayFails(u) \/ PlaceFails(u)
                                 \/ MoveBackFails(u) \/ Killed(u)
      PROVE  SwapInv'
  <2>1. TypeOK
    BY DEF SwapInv
  <2>2. CASE Stage(u)
    <3>1. staged' \in [Update -> Update \cup {None}] /\ i' \in [Update -> Nat]
      BY <2>1, <2>2 DEF Stage, TypeOK
    <3>2. \E next \in {"away", "end"} : pc' = [pc EXCEPT ![u] = next]
      BY <2>2 DEF Stage, Goes
    <3> QED
      BY <2>2, <3>1, <3>2, SwapStays DEF Stage
  <2>3. CASE MoveAwayFails(u)
    BY <2>1, <2>3, AgainGoes, SwapStays DEF MoveAwayFails, TypeOK
  <2>4. CASE PlaceFails(u)
    BY <2>1, <2>4, SwapStays DEF PlaceFails, Goes, TypeOK
  <2>5. CASE MoveBackFails(u)
    BY <2>1, <2>5, AgainGoes, SwapStays DEF MoveBackFails, TypeOK
  <2>6. CASE Killed(u)
    BY <2>1, <2>6, SwapStays DEF Killed, Goes, TypeOK
  <2> QED
    BY <1>2, <2>2, <2>3, <2>4, <2>5, <2>6
<1>3. ASSUME NEW u \in Update, MoveAway(u)
      PROVE  SwapInv'
  <2>1. /\ target # None /\ backup[u] = None /\ pc[u] = "away"
        /\ backup' = [backup EXCEPT ![u] = target] /\ pc' = [pc EXCEPT ![u] = "place"]
        /\ target' = None /\ UNCHANGED <<staged, i, stranded>>
    BY <1>3 DEF MoveAway, Goes
  <2>2. TypeOK'
    BY <2>1 DEF SwapInv, TypeOK
  <2>3. /\ pc'[u] = "place" /\ backup'[u] # None
        /\ \A v \in Update \ {u} : pc'[v] = pc[v] /\ backup'[v] = backup[v]
    BY <2>1 DEF SwapInv, TypeOK
  <2>4. u \notin stranded
    BY <2>1 DEF SwapInv
  <2>5. ExecutableKept'
    BY <2>3 DEF ExecutableKept
  <2> QED
    BY <2>1, <2>2, <2>3, <2>4, <2>5 DEF SwapInv, TypeOK
<1>4. ASSUME NEW u \in Update, Place(u)
      PROVE  SwapInv'
  <2>1. /\ pc[u] = "place" /\ target' = staged[u] /\ target' # None
        /\ staged' = [staged EXCEPT ![u] = None] /\ pc' = [pc EXCEPT ![u] = "clean"]
        /\ UNCHANGED <<backup, i, stranded>>
    BY <1>4 DEF Place, Goes
  <2>2. TypeOK'
    BY <2>1 DEF SwapInv, TypeOK
  <2>3. pc'[u] = "clean" /\ \A v \in Update \ {u} : pc'[v] = pc[v]
    BY <2>1 DEF SwapInv, TypeOK
  <2>4. u \notin stranded
    BY <2>1 DEF SwapInv
  <2> QED
    BY <2>1, <2>2, <2>3, <2>4 DEF SwapInv, TypeOK, ExecutableKept
<1>5. ASSUME NEW u \in Update, MoveBack(u)
      PROVE  SwapInv'
  <2>1. /\ pc[u] = "back" /\ target' = backup[u] /\ backup' = [backup EXCEPT ![u] = None]
        /\ UNCHANGED <<staged, stranded>>
    BY <1>5 DEF MoveBack
  <2>2. PICK next \in {"away", "end"} : pc' = [pc EXCEPT ![u] = next] /\ i' \in [Update -> Nat]
    BY <1>5, AgainGoes DEF MoveBack, SwapInv
  <2>3. TypeOK'
    BY <2>1, <2>2 DEF SwapInv, TypeOK
  <2>4. /\ pc'[u] = next
        /\ \A v \in Update \ {u} : pc'[v] = pc[v] /\ backup'[v] = backup[v]
    BY <2>1, <2>2 DEF SwapInv, TypeOK
  <2>5. u \notin stranded /\ target' # None
    BY <2>1 DEF SwapInv
  <2> QED
    BY <2>1, <2>3, <2>4, <2>5 DEF SwapInv, TypeOK, ExecutableKept
<1>6. ASSUME NEW u \in Update, Clean(u)
      PROVE  SwapInv'
  <2>1. /\ pc[u] = "clean" /\ pc' = [pc EXCEPT ![u] = "end"]
        /\ backup' \in {backup, [backup EXCEPT ![u] = None]}
        /\ UNCHANGED <<target, staged, i, stranded>>
    BY <1>6 DEF Clean, Goes
  <2>2. TypeOK'
    BY <2>1 DEF SwapInv, TypeOK
  <2>3. /\ pc'[u] = "end"
        /\ \A v \in Update \ {u} : pc'[v] = pc[v] /\ backup'[v] = backup[v]
    BY <2>1 DEF SwapInv, TypeOK
  <2>4. u \notin stranded
    BY <2>1 DEF SwapInv
  <2>5. ExecutableKept'
    BY <2>1, <2>3, <2>4 DEF SwapInv, ExecutableKept
  <2> QED
    BY <2>1, <2>2, <2>3, <2>4, <2>5 DEF SwapInv, TypeOK
<1> QED
  BY <1>1, <1>2, <1>3, <1>4, <1>5, <1>6 DEF Next

\* "A failed swap keeps the original executable" (update-windows.ps1:36): if
\* the target is missing it is in a backup that nothing removes, of an update
\* that will put something in its place or was kept from it.
THEOREM SwapKeepsExecutable == Old # None => (Spec => []ExecutableKept)
<1>1. Old # None /\ Init => SwapInv
  BY DEF Init, SwapInv, TypeOK, ExecutableKept
<1>2. SwapInv /\ [Next]_vars => SwapInv'
  BY SwapNext
<1>3. SwapInv => ExecutableKept
  BY DEF SwapInv
<1> QED
  BY <1>1, <1>2, <1>3, PTL DEF Spec

=============================================================================
