------------------------------ MODULE TimerApi ------------------------------
(***************************************************************************)
(* What the core timers promise to the modules that use them                *)
(* (doc/tutorials/timers.txt): a timer is off, armed, or its handler is     *)
(* running in one of the timer processes; timer_del removes an armed timer,  *)
(* finds that there is nothing to remove, or waits for the handler to end.   *)
(* CoreTimer is shown to implement this; TmCell is built on it.              *)
(***************************************************************************)
CONSTANTS Timers, Procs,
          Runners,       \* the timer processes, a subset of Procs
          None

VARIABLES st,            \* "off", "armed" or the process that runs the handler
          deleting       \* for each process, the timer it is deleting

TypeOK == /\ st \in [Timers -> {"off", "armed"} \cup Runners]
          /\ deleting \in [Procs -> Timers \cup {None}]

Init == /\ st = [x \in Timers |-> "off"]
        /\ deleting = [p \in Procs |-> None]

Move(x, from, to) == st[x] = from /\ st' = [st EXCEPT ![x] = to]

(* timer_add returning 0 *)
Add(x) == Move(x, "off", "armed") /\ UNCHANGED deleting

(* a timer process takes the timer from its list and calls its handler *)
Fire(p, x) == Move(x, "armed", p) /\ UNCHANGED deleting

(* the handler returns an interval, or -1 for the one it had before *)
Rearm(p, x) == Move(x, p, "armed") /\ UNCHANGED deleting

(* the handler returns 0, or declares with timer_allow_del that it will *)
Done(p, x) == Move(x, p, "off") /\ UNCHANGED deleting

(* timer_del is called *)
Del(p, x) == /\ deleting[p] = None
             /\ deleting' = [deleting EXCEPT ![p] = x]
             /\ UNCHANGED st

Returns(p) == deleting' = [deleting EXCEPT ![p] = None]

(* timer_del returns 0 *)
Deleted(p) == deleting[p] # None /\ Move(deleting[p], "armed", "off") /\ Returns(p)

(* timer_del returns -1 *)
WasOff(p) == deleting[p] # None /\ st[deleting[p]] = "off" /\ Returns(p) /\ UNCHANGED st

(* timer_del returns -2: called from the handler itself *)
Itself(p) == deleting[p] # None /\ st[deleting[p]] = p /\ Returns(p) /\ UNCHANGED st

Next == \/ \E x \in Timers : Add(x)
        \/ \E p \in Runners, x \in Timers : Fire(p, x) \/ Rearm(p, x) \/ Done(p, x)
        \/ \E p \in Procs : Deleted(p) \/ WasOff(p) \/ Itself(p) \/ \E x \in Timers : Del(p, x)

Spec == Init /\ [][Next]_<<st, deleting>>
=============================================================================
