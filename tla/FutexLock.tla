----------------------------- MODULE FutexLock -----------------------------
(***************************************************************************)
(* The futex mutex behind gen_lock_t on Linux (core/futexlock.h).           *)
(*                                                                         *)
(* One action per atomic memory operation or system call of futex_get,     *)
(* futex_try and futex_release, so that every interleaving of the          *)
(* processes at that grain is explored.  pc[p] is the next operation of p:  *)
(*   "out"    not using the lock                                            *)
(*   "xchg"   about to do atomic_get_and_set(lock, 2)                       *)
(*   "wait"   about to call FUTEX_WAIT                                      *)
(*   "asleep" inside FUTEX_WAIT                                             *)
(*   "cs"     owns the lock                                                 *)
(*   "wake"   has released the lock, about to call FUTEX_WAKE               *)
(***************************************************************************)
EXTENDS Naturals

CONSTANTS Procs, NoProc

ASSUME NoProcAssumption == NoProc \notin Procs

VARIABLES lock,  \* the futex word: 0 free, 1 locked, 2 locked with waiters
          pc

vars == <<lock, pc>>

PCs == {"out", "xchg", "wait", "asleep", "cs", "wake"}

TypeOK == /\ lock \in 0..2
          /\ pc \in [Procs -> PCs]

-----------------------------------------------------------------------------
(* futex_init *)
Init == lock = 0 /\ pc = [p \in Procs |-> "out"]

Goto(p, l) == pc' = [pc EXCEPT ![p] = l]

(* futex_get up to and including atomic_cmpxchg(lock, 0, 1).  The            *)
(* ADAPTIVE_WAIT retries of the cmpxchg on v = 1 change no shared state:     *)
(* they are this action taken later.                                         *)
Get(p) == /\ pc[p] = "out"
          /\ IF lock = 0
               THEN lock' = 1 /\ Goto(p, "cs")
               ELSE /\ lock' = lock
                    /\ Goto(p, IF lock = 2 THEN "wait" ELSE "xchg")

(* futex_try: the same cmpxchg, giving up when the lock is taken *)
Try(p) == /\ pc[p] = "out"
          /\ lock = 0
          /\ lock' = 1
          /\ Goto(p, "cs")

(* A variant of Xchg that takes the previous value 1 for a free lock. *)
XchgIgnoresOne(p) == /\ pc[p] = "xchg"
                     /\ lock' = 2
                     /\ Goto(p, IF lock = 2 THEN "wait" ELSE "cs")

(* A variant of Xchg that counts the waiters in the word (atomic_inc). *)
XchgCounts(p) == /\ pc[p] = "xchg"
                 /\ lock' = lock + 1
                 /\ Goto(p, IF lock = 0 THEN "cs" ELSE "wait")

(* A variant of Xchg that marks the lock with 1, forgetting the waiters. *)
XchgToOne(p) == /\ pc[p] = "xchg"
                /\ lock' = IF lock = 0 THEN 1 ELSE 2
                /\ Goto(p, IF lock = 0 THEN "cs" ELSE "wait")

(* v = atomic_get_and_set(lock, 2), the loop condition included *)
Xchg(p) == /\ pc[p] = "xchg"
           /\ lock' = 2
           /\ Goto(p, IF lock = 0 THEN "cs" ELSE "wait")

(* A variant of Wait that sleeps without comparing the word with 2. *)
WaitBlind(p) == /\ pc[p] = "wait"
                /\ Goto(p, "asleep")
                /\ UNCHANGED lock

(* sys_futex(FUTEX_WAIT, 2): the kernel sleeps only while the word is 2 *)
Wait(p) == /\ pc[p] = "wait"
           /\ Goto(p, IF lock = 2 THEN "asleep" ELSE "xchg")
           /\ UNCHANGED lock

(* FUTEX_WAIT returning without a wake-up (a signal: SIGALRM, SIGCHLD, ...) *)
Interrupted(p) == /\ pc[p] = "asleep"
                  /\ Goto(p, "xchg")
                  /\ UNCHANGED lock

(* A variant of Release that decrements the word, as a two-state lock would. *)
ReleaseDecrements(p) == /\ pc[p] = "cs"
                        /\ lock' = lock - 1
                        /\ Goto(p, IF lock = 2 THEN "wake" ELSE "out")

(* futex_release: v = atomic_get_and_set(lock, 0) *)
Release(p) == /\ pc[p] = "cs"
              /\ lock' = 0
              /\ Goto(p, IF lock = 2 THEN "wake" ELSE "out")

(* sys_futex(FUTEX_WAKE, 1): one sleeper, if there is any, is woken *)
Wake(p) == /\ pc[p] = "wake"
           /\ UNCHANGED lock
           /\ \/ \E q \in Procs : /\ pc[q] = "asleep"
                                  /\ pc' = [pc EXCEPT ![p] = "out", ![q] = "xchg"]
              \/ /\ \A q \in Procs : pc[q] # "asleep"
                 /\ Goto(p, "out")

Steps(p) == Xchg(p) \/ Wait(p) \/ Release(p) \/ Wake(p)

Next == \E p \in Procs : Get(p) \/ Try(p) \/ Interrupted(p) \/ Steps(p)

Spec == Init /\ [][Next]_vars

(* A process inside the lock code, or inside a critical section, runs on:    *)
(* the scheduler is fair and critical sections are finite.  Nobody has to     *)
(* ask for the lock, and nothing promises a signal to a sleeper.             *)
FairSpec == Spec /\ \A p \in Procs : WF_vars(Steps(p))

-----------------------------------------------------------------------------
(* futex_get/futex_try never let two processes in at once.                   *)
MutualExclusion == \A p, q \in Procs : pc[p] = "cs" /\ pc[q] = "cs" => p = q

(* The futex word is 0 exactly while nobody owns the lock: a free lock is     *)
(* always seen as free by the cmpxchg of futex_get and futex_try.             *)
WordTellsOwnership == lock # 0 <=> \E p \in Procs : pc[p] = "cs"

(* No wake-up is lost: while anyone sleeps, either the word is 2 (so that    *)
(* the release will wake somebody), or a wake-up or a woken process that     *)
(* will put the 2 back is on its way.                                        *)
NoLostWakeup == (\E p \in Procs : pc[p] = "asleep")
                   => lock = 2 \/ \E q \in Procs : pc[q] \in {"wake", "xchg"}

(* futex_get makes progress: while some process is inside futex_get, the lock *)
(* is again and again owned by someone.                                       *)
SomeoneGetsIt == (\E p \in Procs : pc[p] \in {"xchg", "wait", "asleep"})
                    ~> (\E p \in Procs : pc[p] = "cs")

-----------------------------------------------------------------------------
(* The futex lock implements Mutex: the owner is the process past futex_get. *)
owner == IF \E p \in Procs : pc[p] = "cs"
           THEN CHOOSE p \in Procs : pc[p] = "cs"
           ELSE NoProc

M == INSTANCE Mutex WITH Procs <- Procs, NoProc <- NoProc, owner <- owner

(* Every step of futex_get/try/release takes the lock, gives it back, or      *)
(* leaves the ownership alone.                                                *)
ImplementsMutex == M!Spec
=============================================================================
