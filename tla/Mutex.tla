------------------------------- MODULE Mutex -------------------------------
(***************************************************************************)
(* What every gen_lock_t promises to the rest of the server (core/locking.h:*)
(* lock_get, lock_release, lock_try): at most one process owns the lock,    *)
(* and only the owner gives it back.  FutexLock is shown to implement it.   *)
(***************************************************************************)
CONSTANTS Procs,   \* the server's worker processes
          NoProc   \* "nobody", the value of owner while the lock is free

VARIABLE owner

TypeOK == owner \in Procs \cup {NoProc}

Init == owner = NoProc

(* lock_get returning, or lock_try returning 0 *)
Acquire(p) == owner = NoProc /\ owner' = p

(* lock_release *)
Release(p) == owner = p /\ owner' = NoProc

Next == \E p \in Procs : Acquire(p) \/ Release(p)

Spec == Init /\ [][Next]_owner
=============================================================================
