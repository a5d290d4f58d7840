----------------------------- MODULE CoreTimer -----------------------------
(***************************************************************************)
(* The core timers (core/timer.c, timer_funcs.h, timer.h): a timing wheel   *)
(* of three levels, walked by the main timer process, which runs the        *)
(* handlers of fast timers itself and hands the others over to the slow      *)
(* timer process through a ring of lists; any process may call timer_add    *)
(* and timer_del at any time.                                               *)
(*                                                                         *)
(* A list is a set here: tl[x].list names the one list x is linked into.     *)
(* The step that takes a lock also reads what the code reads first under    *)
(* it; the lock is held up to the step that gives it back, and values that  *)
(* the code reads without the lock are read in steps of their own.          *)
(***************************************************************************)
EXTENDS Integers, FiniteSets

CONSTANTS Timers, Workers,
          Fast,          \* the timers marked F_TIMER_FAST
          H0, H1, H2,    \* H0_ENTRIES, H1_ENTRIES and H2_ENTRIES
          SlowLists,     \* SLOW_LISTS_NO
          IdxMod,        \* 2^16, the range of the unsigned short t_idx and s_idx
          Deltas,        \* the intervals timers are added with
          FirstTick,     \* where *ticks starts (random() in init_timer)
          FirstIdx,      \* how many slow lists may have been handed over before (0 in init_timer)
          LastTick,      \* bound: the clock stops before this tick
          MaxLag,        \* bound: how far behind the main timer process may be
          None

TickMod == H0 * H1 * H2  \* 2^32, the range of ticks_t

ASSUME WheelAssumption ==
  /\ \A n \in {H0, H1, H2, SlowLists, IdxMod, MaxLag} : n \in Nat \ {0}
  /\ Deltas \subseteq 0..(TickMod - 1) /\ FirstTick \in 0..(TickMod - 1)
  /\ FirstIdx \subseteq 0..(IdxMod - 1) /\ IdxMod % SlowLists = 0
  /\ Fast \subseteq Timers

ASSUME NamesAssumption == /\ None \notin Timers \cup Workers \cup {"main", "slow"}
                          /\ Workers \cap {"main", "slow"} = {}

(* A timer added for fewer than H0 ticks while the main timer process is      *)
(* behind may land in a slot of h0 that is still to be walked, and fires H0    *)
(* ticks early; and ticks that wrap are compared as plain integers.  OnTime    *)
(* is about the wheel away from these two limits.                             *)
ASSUME LagAssumption == \A d \in Deltas : d + MaxLag <= H0 \/ d >= H0
ASSUME WrapAssumption == LastTick \in (FirstTick + 1)..(TickMod - 1)

VARIABLES ticks, prev_ticks,
          tl,               \* the timer_ln structures
          timer_lock, slow_timer_lock,       \* their owners
          running_timer, running_timer2,
          t_idx, s_idx,
          run_timer,        \* set by the clock signal, for the main timer process
          slow_sig,         \* SLOW_TIMER_SIG is pending
          proc,             \* main and slow: where they are, with which timer
          del               \* the timer_del calls in progress

clock == <<ticks, prev_ticks, run_timer>>
locks == <<timer_lock, slow_timer_lock>>
rest  == <<running_timer, running_timer2, t_idx, s_idx, slow_sig>>
vars  == <<clock, tl, locks, rest, proc, del>>

Procs == Workers \cup {"main", "slow"}

List(h, i) == [h |-> h, i |-> i]
NoList == List("none", 0)

(* detached: expire is not read again before _timer_add sets it *)
Detached(r) == [r EXCEPT !.list = NoList, !.expire = 0]

Expired == List("expired", 0)
SlowList(i) == List("slow", i % SlowLists)

linked(x) == tl[x].list # NoList
NoDel == [at |-> "no", tl |-> None]

OnList(l) == {x \in Timers : tl[x].list = l}

(* timer_init *)
Fresh(x) == [list |-> NoList, expire |-> 0, fast |-> x \in Fast,
             onSlow |-> FALSE, active |-> FALSE, slow_idx |-> 0]

Init == /\ ticks = FirstTick /\ prev_ticks = FirstTick
        /\ tl = [x \in Timers |-> Fresh(x)]
        /\ timer_lock = None /\ slow_timer_lock = None
        /\ running_timer = None /\ running_timer2 = None
        /\ t_idx \in FirstIdx /\ s_idx = t_idx
        /\ run_timer = FALSE /\ slow_sig = FALSE
        /\ proc = [p \in {"main", "slow"} |-> [at |-> "idle", tl |-> None, t |-> 0]]
        /\ del = [p \in Procs |-> NoDel]

-----------------------------------------------------------------------------
(* The wheel: pure functions of the timers s, a function like tl.           *)

(* _timer_dist_tl: the list of a timer that expires at e, in delta ticks *)
timer_dist_tl(e, delta) ==
  CASE delta = 0                       -> Expired
    [] delta > 0 /\ delta < H0         -> List("h0", e % H0)
    [] delta >= H0 /\ delta < H0 * H1  -> List("h1", (e % (H0 * H1)) \div H0)
    [] OTHER                           -> List("h2", e \div (H0 * H1))

(* timer_redist *)
timer_redist(s, t, h) ==
  [x \in Timers |->
     IF s[x].list = h
       THEN [s[x] EXCEPT !.list = timer_dist_tl(s[x].expire, (s[x].expire - t) % TickMod)]
       ELSE s[x]]

(* mutant: the current list of h1 is not redistributed *)
timer_run_NoRedist(s, t) ==
  [x \in Timers |-> IF s[x].list = List("h0", t % H0)
                      THEN [s[x] EXCEPT !.list = Expired] ELSE s[x]]

(* timer_run *)
timer_run(s, t) ==
  LET s2 == IF t % (H0 * H1) = 0
              THEN timer_redist(s, t, List("h2", t \div (H0 * H1))) ELSE s
      s1 == IF t % H0 = 0
              THEN timer_redist(s2, t, List("h1", (t % (H0 * H1)) \div H0)) ELSE s
  IN  [x \in Timers |-> IF s1[x].list = List("h0", t % H0)
                          THEN [s1[x] EXCEPT !.list = Expired] ELSE s1[x]]

(* _timer_add at time t *)
timer_add_at(x, t, delta) ==
  LET e == (t + delta) % TickMod
  IN  [tl EXCEPT ![x] = [@ EXCEPT !.onSlow = FALSE, !.slow_idx = 0, !.expire = e,
                                  !.list = timer_dist_tl(e, delta)]]

-----------------------------------------------------------------------------
(* sig_timer, the handler of SIGALRM in the main timer process, and the      *)
(* adjustment of *ticks to the real time, which is so many ticks at once.     *)
sig_timer ==
  /\ (ticks - prev_ticks) % TickMod < MaxLag
  /\ (ticks + 1) % TickMod # LastTick
  /\ ticks' = (ticks + 1) % TickMod
  /\ run_timer' = TRUE
  /\ UNCHANGED <<prev_ticks, tl, locks, rest, proc, del>>

(* timer_add_safe, including its error exits *)
timer_add(w, x, delta) ==
  /\ timer_lock = None
  /\ del[w].at = "no"
  /\ ~tl[x].active /\ ~linked(x)
  /\ tl' = [timer_add_at(x, ticks, delta) EXCEPT ![x].active = TRUE]
  /\ UNCHANGED <<clock, locks, rest, proc, del>>

(* No other process is in the middle of timer_del for x.  Who re-initializes  *)
(* a timer has to see to that: timer_del could otherwise detach the timer      *)
(* under the lock of the list it was on before.                               *)
NotBeingDeleted(p, x) == \A q \in Procs \ {p} : del[q].tl # x

(* timer_reinit by the process whose timer_del has removed the timer, so that *)
(* it can be added again                                                     *)
timer_reinit(w) ==
  /\ del[w].at = "removed" /\ NotBeingDeleted(w, del[w].tl)
  /\ tl' = [tl EXCEPT ![del[w].tl] = [@ EXCEPT !.onSlow = FALSE, !.active = FALSE]]
  /\ del' = [del EXCEPT ![w] = NoDel]
  /\ UNCHANGED <<clock, locks, rest, proc>>

(* timer_free, timer_alloc and timer_init: the memory of a timer nobody uses  *)
(* any more becomes a new timer                                              *)
timer_init(x) ==
  /\ tl[x].active /\ ~linked(x)
  /\ \A p \in {"main", "slow"} : proc[p].tl # x
  /\ \A p \in Procs : del[p].tl # x
  /\ tl' = [tl EXCEPT ![x] = Fresh(x)]
  /\ UNCHANGED <<clock, locks, rest, proc, del>>

-----------------------------------------------------------------------------
(* timer_del_safe.  Handlers call it too: a handler of the main timer process *)
(* for any timer, one of the slow process for its own.                       *)
MayDel(p, x) == \/ p \in Workers
                \/ p = "main" /\ proc[p].at \in {"f", "allowed"}
                \/ p = "slow" /\ proc[p].at \in {"f", "allowed"} /\ proc[p].tl = x

(* the test that selects the lock, with and without the lock *)
OnOldSlowList(x) == tl[x].onSlow /\ tl[x].slow_idx # t_idx

DelReturns(p) == del' = [del EXCEPT ![p] = NoDel]
DelGoto(p, at, x) == del' = [del EXCEPT ![p] = [at |-> at, tl |-> x]]

(* from the label "again" up to the taking of a lock *)
DelAgain(p, x) == \/ ~tl[x].active /\ DelReturns(p)
                  \/ tl[x].active /\ OnOldSlowList(x) /\ DelGoto(p, "slow", x)
                  \/ tl[x].active /\ ~OnOldSlowList(x) /\ DelGoto(p, "main", x)

timer_del(p, x) ==
  /\ del[p].at = "no" /\ MayDel(p, x)
  /\ DelAgain(p, x)
  /\ UNCHANGED <<clock, tl, locks, rest, proc>>

(* mutant: the list of the timer is not tested again under the lock *)
DelSlow_NoRecheck(p) ==
  LET x == del[p].tl
  IN  /\ del[p].at = "slow" /\ slow_timer_lock = None
      /\ \/ running_timer2 = x /\ p # "slow" /\ DelAgain(p, x) /\ UNCHANGED slow_timer_lock
         \/ running_timer2 = x /\ p = "slow" /\ DelReturns(p) /\ UNCHANGED slow_timer_lock
         \/ running_timer2 # x /\ DelGoto(p, "slowrm", x) /\ slow_timer_lock' = p
      /\ UNCHANGED <<clock, tl, timer_lock, rest, proc>>

(* the tests under the slow timer's lock; waiting for a handler is sched_yield *)
(* and another try                                                           *)
DelSlow(p) ==
  LET x == del[p].tl
  IN  /\ del[p].at = "slow" /\ slow_timer_lock = None
      /\ \/ /\ ~OnOldSlowList(x) \/ (running_timer2 = x /\ p # "slow")
            /\ DelAgain(p, x) /\ UNCHANGED slow_timer_lock
         \/ /\ OnOldSlowList(x) /\ running_timer2 = x /\ p = "slow"
            /\ DelReturns(p) /\ UNCHANGED slow_timer_lock
         \/ /\ OnOldSlowList(x) /\ running_timer2 # x
            /\ DelGoto(p, "slowrm", x) /\ slow_timer_lock' = p
      /\ UNCHANGED <<clock, tl, timer_lock, rest, proc>>

(* mutant: the list of the timer is not tested again under the lock *)
DelMain_NoRecheck(p) ==
  LET x == del[p].tl
  IN  /\ del[p].at = "main" /\ timer_lock = None
      /\ \/ running_timer = x /\ p # "main" /\ DelAgain(p, x) /\ UNCHANGED timer_lock
         \/ running_timer = x /\ p = "main" /\ DelReturns(p) /\ UNCHANGED timer_lock
         \/ running_timer # x /\ DelGoto(p, "mainrm", x) /\ timer_lock' = p
      /\ UNCHANGED <<clock, tl, slow_timer_lock, rest, proc>>

(* the same under the main timer's lock *)
DelMain(p) ==
  LET x == del[p].tl
  IN  /\ del[p].at = "main" /\ timer_lock = None
      /\ \/ /\ OnOldSlowList(x) \/ (running_timer = x /\ p # "main")
            /\ DelAgain(p, x) /\ UNCHANGED timer_lock
         \/ /\ ~OnOldSlowList(x) /\ running_timer = x /\ p = "main"
            /\ DelReturns(p) /\ UNCHANGED timer_lock
         \/ /\ ~OnOldSlowList(x) /\ running_timer # x
            /\ DelGoto(p, "mainrm", x) /\ timer_lock' = p
      /\ UNCHANGED <<clock, tl, slow_timer_lock, rest, proc>>

(* the timer is detached, if it is linked, and the lock given back *)
DelDetach(p) ==
  LET x == del[p].tl
  IN  /\ del[p].at \in {"slowrm", "mainrm"}
      /\ tl' = [tl EXCEPT ![x] = Detached(@)]
      /\ IF linked(x) /\ p \in Workers THEN DelGoto(p, "removed", x) ELSE DelReturns(p)
      /\ IF del[p].at = "slowrm"
           THEN slow_timer_lock' = None /\ UNCHANGED timer_lock
           ELSE timer_lock' = None /\ UNCHANGED slow_timer_lock
      /\ UNCHANGED <<clock, rest, proc>>

-----------------------------------------------------------------------------
(* The handlers.  f returns 0, or an interval; one that has called            *)
(* timer_allow_del returns 0.                                                *)
At(p, at) == proc[p].at = at
Goto(p, at) == proc' = [proc EXCEPT ![p].at = at]
SetRunning(p, x) == IF p = "main" THEN running_timer' = x /\ UNCHANGED running_timer2
                                  ELSE running_timer2' = x /\ UNCHANGED running_timer

timer_allow_del(p) ==
  /\ At(p, "f") /\ del[p].at = "no"
  /\ SetRunning(p, None)
  /\ Goto(p, "allowed")
  /\ UNCHANGED <<clock, tl, locks, t_idx, s_idx, slow_sig, del>>

(* timer_reinit from the handler, as in modules/timer: others may add it now *)
HandlerReinit(p) ==
  /\ At(p, "allowed") /\ del[p].at = "no" /\ NotBeingDeleted(p, proc[p].tl)
  /\ tl' = [tl EXCEPT ![proc[p].tl] = [@ EXCEPT !.onSlow = FALSE, !.active = FALSE]]
  /\ Goto(p, "ended")
  /\ UNCHANGED <<clock, locks, rest, del>>

(* f returns 0: UNSET_RUNNING, before the lock is taken again *)
ReturnsZero(p) ==
  /\ proc[p].at \in {"f", "allowed", "ended"} /\ del[p].at = "no"
  /\ SetRunning(p, None)
  /\ proc' = [proc EXCEPT ![p] = [@ EXCEPT !.at = "relock", !.tl = None]]
  /\ UNCHANGED <<clock, tl, locks, t_idx, s_idx, slow_sig, del>>

(* mutant: the timer is no longer marked as running when f has returned *)
ReturnsInterval_Unset(p) ==
  /\ At(p, "f") /\ del[p].at = "no"
  /\ SetRunning(p, None)
  /\ Goto(p, "readd")
  /\ UNCHANGED <<clock, tl, locks, t_idx, s_idx, slow_sig, del>>

(* f returns an interval; tm's handler may also have cleared F_TIMER_FAST *)
ReturnsInterval(p) ==
  /\ At(p, "f") /\ del[p].at = "no"
  /\ \E fast \in {tl[proc[p].tl].fast, FALSE} : tl' = [tl EXCEPT ![proc[p].tl].fast = fast]
  /\ Goto(p, "readd")
  /\ UNCHANGED <<clock, locks, rest, del>>

-----------------------------------------------------------------------------
(* The main timer process: timer_main, timer_handler, timer_list_expire.     *)

(* timer_main after pause(), and timer_handler up to the lock *)
timer_main ==
  /\ At("main", "idle") /\ run_timer
  /\ run_timer' = FALSE
  /\ Goto("main", "lock")
  /\ UNCHANGED <<ticks, prev_ticks, tl, locks, rest, del>>

(* The top of the loop of timer_handler, when the wheel was walked up to prev:  *)
(* the ticks are compared as plain integers.                                 *)
WalkOn(prev) ==
  LET ahead == prev < ticks
  IN  /\ prev_ticks' = IF ahead THEN prev ELSE (ticks - 1) % TickMod
      /\ proc' = [proc EXCEPT !["main"] =
                    [@ EXCEPT !.at = IF ahead THEN "walk" ELSE "expire", !.t = ticks]]

timer_handler ==
  /\ At("main", "lock") /\ timer_lock = None
  /\ timer_lock' = "main"
  /\ WalkOn(prev_ticks)
  /\ UNCHANGED <<ticks, run_timer, tl, slow_timer_lock, rest, del>>

(* timer_run for one of the missed ticks; after the last of them the ticks     *)
(* are read again                                                            *)
MissedTick ==
  LET t == (prev_ticks + 1) % TickMod
  IN  /\ At("main", "walk")
      /\ tl' = timer_run(tl, t)
      /\ \/ t # proc["main"].t /\ prev_ticks' = t /\ UNCHANGED proc
         \/ t = proc["main"].t /\ t = ticks /\ prev_ticks' = t /\ Goto("main", "expire")
         \/ t = proc["main"].t /\ t # ticks /\ WalkOn(t)
      /\ UNCHANGED <<ticks, run_timer, locks, rest, del>>

(* timer_list_expire, a fast timer *)
ExpireFast(x) ==
  /\ At("main", "expire") /\ tl[x].list = Expired /\ tl[x].fast
  /\ tl' = [tl EXCEPT ![x] = Detached(@)]
  /\ SetRunning("main", x)
  /\ timer_lock' = None
  /\ proc' = [proc EXCEPT !["main"] = [@ EXCEPT !.at = "f", !.tl = x]]
  /\ UNCHANGED <<clock, slow_timer_lock, t_idx, s_idx, slow_sig, del>>

(* mutant: the ring is indexed without SLOW_LISTS_MASK *)
ExpireSlow_NoMask(x) ==
  /\ At("main", "expire") /\ tl[x].list = Expired /\ ~tl[x].fast
  /\ tl' = [tl EXCEPT ![x] = [@ EXCEPT !.list = List("slow", t_idx), !.onSlow = TRUE,
                                       !.slow_idx = t_idx]]
  /\ UNCHANGED <<clock, locks, rest, proc, del>>

(* timer_list_expire, a slow timer *)
ExpireSlow(x) ==
  /\ At("main", "expire") /\ tl[x].list = Expired /\ ~tl[x].fast
  /\ tl' = [tl EXCEPT ![x] = [@ EXCEPT !.list = SlowList(t_idx), !.onSlow = TRUE,
                                       !.slow_idx = t_idx]]
  /\ UNCHANGED <<clock, locks, rest, proc, del>>

(* f has returned 0 *)
MainRelock ==
  /\ At("main", "relock") /\ timer_lock = None
  /\ timer_lock' = "main"
  /\ Goto("main", "expire")
  /\ UNCHANGED <<clock, tl, slow_timer_lock, rest, del>>

(* f has returned an interval: the timer is added again, at the time that     *)
(* timer_list_expire was called with                                         *)
MainReadd ==
  /\ At("main", "readd") /\ timer_lock = None
  /\ timer_lock' = "main"
  /\ \E d \in Deltas \ {0} : tl' = timer_add_at(proc["main"].tl, proc["main"].t, d)
  /\ SetRunning("main", None)
  /\ proc' = [proc EXCEPT !["main"] = [@ EXCEPT !.at = "expire", !.tl = None]]
  /\ UNCHANGED <<clock, slow_timer_lock, t_idx, s_idx, slow_sig, del>>

(* mutant: no test for a full ring *)
HandOver_Full ==
  /\ At("main", "expire") /\ OnList(Expired) = {}
  /\ IF OnList(SlowList(t_idx)) = {}
       THEN UNCHANGED <<t_idx, slow_sig>>
       ELSE slow_sig' = TRUE /\ t_idx' = (t_idx + 1) % IdxMod
  /\ timer_lock' = None
  /\ proc' = [proc EXCEPT !["main"] = [@ EXCEPT !.at = "idle", !.t = 0]]
  /\ UNCHANGED <<clock, tl, slow_timer_lock, running_timer, running_timer2, s_idx, del>>

(* the rest of timer_handler: the distance of the indexes is the difference of *)
(* two unsigned shorts as an int, converted to an unsigned int                *)
HandOver ==
  /\ At("main", "expire") /\ OnList(Expired) = {}
  /\ IF OnList(SlowList(t_idx)) = {}
       THEN UNCHANGED <<t_idx, slow_sig>>
       ELSE /\ slow_sig' = TRUE
            /\ t_idx' = IF t_idx >= s_idx /\ t_idx - s_idx < SlowLists - 1
                          THEN (t_idx + 1) % IdxMod ELSE t_idx
  /\ timer_lock' = None
  /\ proc' = [proc EXCEPT !["main"] = [@ EXCEPT !.at = "idle", !.t = 0]]
  /\ UNCHANGED <<clock, tl, slow_timer_lock, running_timer, running_timer2, s_idx, del>>

-----------------------------------------------------------------------------
(* The slow timer process: slow_timer_main.                                  *)

SlowWakes ==
  /\ At("slow", "idle") /\ slow_sig /\ slow_timer_lock = None
  /\ slow_sig' = FALSE
  /\ slow_timer_lock' = "slow"
  /\ Goto("slow", "scan")
  /\ UNCHANGED <<clock, tl, timer_lock, running_timer, running_timer2, t_idx, s_idx, del>>

SlowRuns(x) ==
  /\ At("slow", "scan") /\ s_idx # t_idx /\ tl[x].list = SlowList(s_idx)
  /\ tl' = [tl EXCEPT ![x] = Detached(@)]
  /\ SetRunning("slow", x)
  /\ slow_timer_lock' = None
  /\ proc' = [proc EXCEPT !["slow"] = [@ EXCEPT !.at = "f", !.tl = x]]
  /\ UNCHANGED <<clock, timer_lock, t_idx, s_idx, slow_sig, del>>

SlowNextList ==
  /\ At("slow", "scan") /\ s_idx # t_idx /\ OnList(SlowList(s_idx)) = {}
  /\ s_idx' = (s_idx + 1) % IdxMod
  /\ UNCHANGED <<clock, tl, locks, running_timer, running_timer2, t_idx, slow_sig, proc, del>>

SlowEnds ==
  /\ At("slow", "scan") /\ s_idx = t_idx
  /\ slow_timer_lock' = None
  /\ Goto("slow", "idle")
  /\ UNCHANGED <<clock, tl, timer_lock, rest, del>>

(* f has returned 0 *)
SlowRelock ==
  /\ At("slow", "relock") /\ slow_timer_lock = None
  /\ slow_timer_lock' = "slow"
  /\ Goto("slow", "scan")
  /\ UNCHANGED <<clock, tl, timer_lock, rest, del>>

(* f has returned an interval: back to the main lists ... *)
SlowReadd ==
  /\ At("slow", "readd") /\ timer_lock = None
  /\ \E d \in Deltas \ {0} : tl' = timer_add_at(proc["slow"].tl, ticks, d)
  /\ Goto("slow", "readded")
  /\ UNCHANGED <<clock, locks, rest, del>>

(* ... and then UNSET_RUNNING_SLOW *)
SlowReadded ==
  /\ At("slow", "readded") /\ slow_timer_lock = None
  /\ slow_timer_lock' = "slow"
  /\ SetRunning("slow", None)
  /\ proc' = [proc EXCEPT !["slow"] = [@ EXCEPT !.at = "scan", !.tl = None]]
  /\ UNCHANGED <<clock, tl, timer_lock, t_idx, s_idx, slow_sig, del>>

-----------------------------------------------------------------------------
Handler(p) == timer_allow_del(p) \/ HandlerReinit(p) \/ ReturnsZero(p) \/ ReturnsInterval(p)
DelSteps(p) == DelSlow(p) \/ DelMain(p) \/ DelDetach(p)
MainSteps == \/ timer_main \/ timer_handler \/ MissedTick \/ MainRelock \/ MainReadd \/ HandOver
             \/ \E x \in Timers : ExpireFast(x) \/ ExpireSlow(x)
SlowSteps == \/ SlowWakes \/ SlowNextList \/ SlowEnds \/ SlowRelock \/ SlowReadd \/ SlowReadded
             \/ \E x \in Timers : SlowRuns(x)

Next == \/ sig_timer \/ MainSteps \/ SlowSteps
        \/ \E p \in {"main", "slow"} : Handler(p)
        \/ \E p \in Procs : DelSteps(p) \/ \E x \in Timers : timer_del(p, x)
        \/ \E w \in Workers : timer_reinit(w)
        \/ \E w \in Workers, x \in Timers, d \in Deltas : timer_add(w, x, d)
        \/ \E x \in Timers : timer_init(x)

Spec == Init /\ [][Next]_vars

-----------------------------------------------------------------------------
Lists == {NoList, Expired} \cup [h : {"h0"}, i : 0..(H0 - 1)] \cup [h : {"h1"}, i : 0..(H1 - 1)]
         \cup [h : {"h2"}, i : 0..(H2 - 1)] \cup [h : {"slow"}, i : 0..(SlowLists - 1)]

TimerRec == [list : Lists, expire : 0..(TickMod - 1), fast : BOOLEAN, onSlow : BOOLEAN,
             active : BOOLEAN, slow_idx : 0..(IdxMod - 1)]
ProcRec == [at : {"idle", "lock", "walk", "expire", "scan", "f", "allowed", "ended", "relock",
                  "readd", "readded"},
            tl : Timers \cup {None}, t : 0..(TickMod - 1)]
DelRec == [at : {"no", "slow", "main", "slowrm", "mainrm", "removed"}, tl : Timers \cup {None}]

TypeOK ==
  /\ {ticks, prev_ticks} \subseteq 0..(TickMod - 1)
  /\ tl \in [Timers -> TimerRec]
  /\ {timer_lock, slow_timer_lock} \subseteq Procs \cup {None}
  /\ {running_timer, running_timer2} \subseteq Timers \cup {None}
  /\ {t_idx, s_idx} \subseteq 0..(IdxMod - 1)
  /\ {run_timer, slow_sig} \subseteq BOOLEAN
  /\ proc \in [{"main", "slow"} -> ProcRec]
  /\ del \in [Procs -> DelRec]

(* The handler of x is executing in p, and has not said that it is done.      *)
RunsIn(p, x) == proc[p].tl = x /\ proc[p].at \in {"f", "readd"}
Running(x) == RunsIn("main", x) \/ RunsIn("slow", x)

(* timer_del waits: once it has found that it need not wait, in either of     *)
(* its two branches, the handler is in neither of the two timer processes.    *)
DelWaits == \A p \in Procs : del[p].at \in {"slowrm", "mainrm"} => ~Running(del[p].tl)

(* Whoever detaches a timer holds the lock of the list it is on: a slow list  *)
(* belongs to the main timer's lock while it is the one being filled, to the   *)
(* slow timer's lock afterwards, and all other lists to the main timer's.     *)
ListsAreGuarded ==
  \A p \in Procs : LET l == tl[del[p].tl].list
                       handedOver == l.h = "slow" /\ l # SlowList(t_idx)
                   IN  /\ del[p].at = "slowrm" /\ l # NoList => handedOver
                       /\ del[p].at = "mainrm" => ~handedOver

(* The ring of slow lists is not overrun: what is linked into a slow list      *)
(* carries the index it was put there with, the slow process has still to come  *)
(* to that index, and no two of the indexes still to come are the same list.    *)
RingIsConsistent ==
  /\ (t_idx - s_idx) % IdxMod < SlowLists
  /\ \A x \in Timers : tl[x].list.h = "slow" =>
       /\ tl[x].onSlow /\ tl[x].list = SlowList(tl[x].slow_idx)
       /\ (tl[x].slow_idx - s_idx) % IdxMod <= (t_idx - s_idx) % IdxMod

(* A timer leaves the wheel when it expires, neither before nor after.        *)
NotYet(e, t) == (e - t) % TickMod \in 1..(TickMod \div 2 - 1)
OnTime == \A x \in Timers :
            /\ tl[x].list.h \in {"h0", "h1", "h2"} => NotYet(tl[x].expire, prev_ticks)
            /\ tl[x].list.h \in {"expired", "slow"} => ~NotYet(tl[x].expire, ticks)

-----------------------------------------------------------------------------
(* CoreTimer implements TimerApi.                                            *)
st == [x \in Timers |-> CASE RunsIn("main", x) -> "main"
                          [] RunsIn("slow", x) -> "slow"
                          [] linked(x)         -> "armed"
                          [] OTHER             -> "off"]

deleting == [p \in Procs |-> IF del[p].at = "removed" THEN None ELSE del[p].tl]

Api == INSTANCE TimerApi WITH Runners <- {"main", "slow"}, st <- st, deleting <- deleting

(* Every step of the timer processes, of timer_add and of timer_del is a step  *)
(* of the timers as timers.txt describes them, or changes nothing there; in     *)
(* particular timer_del returns to nobody but the handler itself while the      *)
(* handler is running.                                                         *)
ImplementsTimerApi == Api!Spec
=============================================================================
