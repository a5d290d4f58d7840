-------------------------- MODULE FutexLockProofs --------------------------
(***************************************************************************)
(* For any set of processes, the futex mutex excludes, loses no wake-up and *)
(* implements Mutex.                                                        *)
(***************************************************************************)
EXTENDS FutexLock, TLAPS

(* Mutual exclusion alone is not inductive: a process passes Get or Xchg by   *)
(* reading 0, so 0 has to mean that nobody is inside.                         *)
Safe == TypeOK /\ MutualExclusion /\ WordTellsOwnership /\ NoLostWakeup

(* futex_init leaves the lock free and nobody inside. *)
LEMMA SafeInit == Init => Safe
  BY DEF Init, Safe, TypeOK, MutualExclusion, WordTellsOwnership, NoLostWakeup, PCs

(* Every atomic operation of futex_get, futex_try and futex_release keeps the *)
(* word and the owner in agreement, at most one owner, and every sleeper       *)
(* covered by a wake-up to come.                                               *)
LEMMA SafeStep == Safe /\ [Next]_vars => Safe'
<1> SUFFICES ASSUME Safe, [Next]_vars PROVE Safe'
  OBVIOUS
<1> USE DEF Safe, TypeOK, MutualExclusion, WordTellsOwnership, NoLostWakeup, PCs, Goto
<1>1. ASSUME NEW p \in Procs, Get(p) PROVE Safe'
  BY <1>1 DEF Get
<1>2. ASSUME NEW p \in Procs, Try(p) PROVE Safe'
  BY <1>2 DEF Try
<1>3. ASSUME NEW p \in Procs, Interrupted(p) PROVE Safe'
  BY <1>3 DEF Interrupted
<1>4. ASSUME NEW p \in Procs, Xchg(p) PROVE Safe'
  BY <1>4 DEF Xchg
<1>5. ASSUME NEW p \in Procs, Wait(p) PROVE Safe'
  BY <1>5 DEF Wait
<1>6. ASSUME NEW p \in Procs, Release(p) PROVE Safe'
  BY <1>6 DEF Release
<1>7. ASSUME NEW p \in Procs, Wake(p) PROVE Safe'
  BY <1>7 DEF Wake
<1>8. CASE UNCHANGED vars
  BY <1>8 DEF vars
<1>9. QED
  BY <1>1, <1>2, <1>3, <1>4, <1>5, <1>6, <1>7, <1>8 DEF Next, Steps

(* The three safety invariants of the futex mutex, for every set of processes. *)
THEOREM FutexSafe == Spec => []Safe
  BY SafeInit, SafeStep, PTL DEF Spec

(* The futex word is 0, 1 or 2, and every process is at one of the points of   *)
(* futex_get, futex_try and futex_release.                                     *)
THEOREM FutexTypes == Spec => []TypeOK
<1>1. Safe => TypeOK
  BY DEF Safe
<1>2. QED
  BY <1>1, FutexSafe, PTL

(* The futex word is 0 exactly when nobody is between futex_get and the         *)
(* exchange of futex_release.                                                  *)
THEOREM FutexWordIsRight == Spec => []WordTellsOwnership
<1>1. Safe => WordTellsOwnership
  BY DEF Safe
<1>2. QED
  BY <1>1, FutexSafe, PTL

(* futex_get and futex_try never let two processes in at once. *)
THEOREM FutexMutualExclusion == Spec => []MutualExclusion
<1>1. Safe => MutualExclusion
  BY DEF Safe
<1>2. QED
  BY <1>1, FutexSafe, PTL

(* A process asleep in FUTEX_WAIT is never forgotten. *)
THEOREM FutexNoLostWakeup == Spec => []NoLostWakeup
<1>1. Safe => NoLostWakeup
  BY DEF Safe
<1>2. QED
  BY <1>1, FutexSafe, PTL

(* Every step of the futex mutex is an Acquire, a Release or a stutter of     *)
(* Mutex: the owner changes only when a process passes cmpxchg or             *)
(* get_and_set reading 0, and when the owner stores 0.                        *)
THEOREM FutexImplementsMutex == Spec => ImplementsMutex
<1>1. Init => M!Init
  BY DEF Init, M!Init, owner
<1>2. Safe /\ Safe' /\ [Next]_vars => [M!Next]_owner
  <2> SUFFICES ASSUME Safe, Safe', [Next]_vars PROVE [M!Next]_owner
    OBVIOUS
  <2> USE DEF Safe, TypeOK, MutualExclusion, WordTellsOwnership, PCs, Goto
  <2>1. \A p \in Procs : pc[p] = "cs" => owner = p
    BY DEF owner
  <2>2. (\A p \in Procs : pc[p] # "cs") => owner = NoProc
    BY DEF owner
  <2>3. \A p \in Procs : pc'[p] = "cs" => owner' = p
    BY DEF owner
  <2>4. (\A p \in Procs : pc'[p] # "cs") => owner' = NoProc
    BY DEF owner
  <2>5. ASSUME NEW p \in Procs, pc[p] # "cs", pc'[p] = "cs", lock = 0
        PROVE  M!Acquire(p)
    BY <2>2, <2>3, <2>5 DEF M!Acquire
  <2>6. ASSUME \A q \in Procs : (pc[q] = "cs") = (pc'[q] = "cs")
        PROVE  owner' = owner
    BY <2>6, <2>1, <2>2, <2>3, <2>4
  <2>7. ASSUME NEW p \in Procs, Get(p) PROVE [M!Next]_owner
    <3>1. CASE lock = 0
      BY <2>5, <2>7, <3>1 DEF Get, M!Next
    <3>2. CASE lock # 0
      BY <2>6, <2>7, <3>2 DEF Get
    <3> QED BY <3>1, <3>2
  <2>8. ASSUME NEW p \in Procs, Try(p) PROVE [M!Next]_owner
    BY <2>5, <2>8 DEF Try, M!Next
  <2>9. ASSUME NEW p \in Procs, Interrupted(p) PROVE [M!Next]_owner
    BY <2>6, <2>9 DEF Interrupted
  <2>10. ASSUME NEW p \in Procs, Xchg(p) PROVE [M!Next]_owner
    <3>1. CASE lock = 0
      BY <2>5, <2>10, <3>1 DEF Xchg, M!Next
    <3>2. CASE lock # 0
      BY <2>6, <2>10, <3>2 DEF Xchg
    <3> QED BY <3>1, <3>2
  <2>11. ASSUME NEW p \in Procs, Wait(p) PROVE [M!Next]_owner
    BY <2>6, <2>11 DEF Wait
  <2>12. ASSUME NEW p \in Procs, Release(p) PROVE [M!Next]_owner
    BY <2>1, <2>4, <2>12 DEF Release, M!Next, M!Release
  <2>13. ASSUME NEW p \in Procs, Wake(p) PROVE [M!Next]_owner
    BY <2>6, <2>13 DEF Wake
  <2>14. CASE UNCHANGED vars
    BY <2>14 DEF vars, owner
  <2>15. QED
    BY <2>7, <2>8, <2>9, <2>10, <2>11, <2>12, <2>13, <2>14 DEF Next, Steps
<1>3. QED
  BY <1>1, <1>2, FutexSafe, PTL DEF Spec, M!Spec, ImplementsMutex
=============================================================================
