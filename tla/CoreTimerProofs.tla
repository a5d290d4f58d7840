-------------------------- MODULE CoreTimerProofs --------------------------
(***************************************************************************)
(* timer_del of the core timers never interferes with a running handler,    *)
(* always holds the lock of the list it takes a timer from, and CoreTimer    *)
(* implements TimerApi: for any number of timers and processes, any sizes of  *)
(* the wheel and of the ring of slow lists.                                  *)
(***************************************************************************)
EXTENDS CoreTimer, TLAPS

MainAts == {"idle", "lock", "walk", "expire", "f", "allowed", "ended", "relock", "readd"}
SlowAts == {"idle", "scan", "f", "allowed", "ended", "relock", "readd", "readded"}
WithTimer == {"f", "allowed", "ended", "readd", "readded"}

(* The timer processes: who has a timer in hand, and who says that it runs.  *)
ProcInv ==
  /\ proc["main"].at \in MainAts /\ proc["slow"].at \in SlowAts
  /\ \A p \in {"main", "slow"} : proc[p].tl # None <=> proc[p].at \in WithTimer
  /\ running_timer = IF proc["main"].at \in {"f", "readd"} THEN proc["main"].tl ELSE None
  /\ running_timer2 = IF proc["slow"].at \in {"f", "readd", "readded"}
                        THEN proc["slow"].tl ELSE None

(* The two locks: their holders in the timer processes and in timer_del.     *)
LockInv ==
  /\ proc["main"].at \in {"walk", "expire"} => timer_lock = "main"
  /\ proc["slow"].at = "scan" => slow_timer_lock = "slow"
  /\ \A p \in Procs : /\ del[p].at = "mainrm" => timer_lock = p
                      /\ del[p].at = "slowrm" => slow_timer_lock = p

(* x is in the hands of p, which has not said that others may take it.        *)
Busy(p, x) == proc[p].tl = x /\ proc[p].at \in {"f", "allowed", "readd"}

(* The flags of a timer tell where it is: the choice of the lock in timer_del  *)
(* depends on them.                                                          *)
Wheel == {"h0", "h1", "h2", "expired"}
FlagInv(x) ==
  /\ linked(x) => tl[x].active
  /\ tl[x].list.h \in Wheel => ~tl[x].onSlow
  /\ \A p \in {"main", "slow"} : Busy(p, x) => tl[x].active /\ ~linked(x)
  /\ ~(Busy("main", x) /\ Busy("slow", x))
  /\ RunsIn("main", x) => ~tl[x].onSlow
  /\ RunsIn("slow", x) => tl[x].onSlow /\ tl[x].slow_idx = s_idx

(* While the slow process works on a list, the main process fills another.    *)
SlowInv == proc["slow"].at \in SlowAts \ {"idle", "scan"} => s_idx # t_idx

(* The calls of timer_del in progress.                                       *)
DelInv(p) ==
  LET x == del[p].tl
  IN  /\ del[p].at = "no" <=> x = None
      /\ del[p].at # "no" => tl[x].active
      /\ del[p].at # "no" /\ p \in {"main", "slow"} =>
           proc[p].at \in {"f", "allowed"} /\ del[p].at # "removed"
      /\ del[p].at # "no" /\ p = "slow" => proc[p].tl = x
      /\ del[p].at \in {"slowrm", "mainrm"} => ~Running(x)
      /\ del[p].at = "slowrm" /\ linked(x) => tl[x].list.h = "slow" /\ tl[x].slow_idx # t_idx
      /\ del[p].at = "mainrm" /\ tl[x].list.h = "slow" => tl[x].slow_idx = t_idx
      /\ del[p].at = "removed" => ~linked(x) /\ ~Busy("main", x) /\ ~Busy("slow", x)

(* The inductive invariant.                                                  *)
DelSafe == /\ TypeOK /\ RingIsConsistent
           /\ ProcInv /\ LockInv /\ SlowInv
           /\ \A x \in Timers : FlagInv(x)
           /\ \A p \in Procs : DelInv(p)

-----------------------------------------------------------------------------
(* Arithmetic of the wheel and of the ring.                                  *)

LEMMA Sizes ==
  /\ H0 \in Nat \ {0} /\ H1 \in Nat \ {0} /\ H2 \in Nat \ {0}
  /\ H0 * H1 \in Nat \ {0} /\ TickMod \in Nat \ {0} /\ TickMod = (H0 * H1) * H2
  /\ SlowLists \in Nat \ {0} /\ IdxMod \in Nat \ {0} /\ MaxLag \in Nat \ {0}
<1>1. /\ H0 \in Nat \ {0} /\ H1 \in Nat \ {0} /\ H2 \in Nat \ {0}
      /\ SlowLists \in Nat \ {0} /\ IdxMod \in Nat \ {0} /\ MaxLag \in Nat \ {0}
  BY WheelAssumption, Zenon
<1>2. \A n, m \in Nat \ {0} : n * m \in Nat \ {0}
  OBVIOUS
<1>3. H0 * H1 \in Nat \ {0}
  BY <1>1, <1>2, Zenon
<1>4. (H0 * H1) * H2 \in Nat \ {0}
  BY <1>1, <1>2, <1>3, Zenon
<1> QED
  BY <1>1, <1>3, <1>4, Zenon DEF TickMod

LEMMA ModRange ==
  ASSUME NEW a \in Int, NEW n \in Nat \ {0}
  PROVE  a % n \in 0..(n - 1)
OBVIOUS

LEMMA Ranges ==
  /\ \A t \in 0..(TickMod - 1) : /\ (t + 1) % TickMod \in 0..(TickMod - 1)
                                 /\ (t - 1) % TickMod \in 0..(TickMod - 1)
  /\ \A i \in 0..(IdxMod - 1) : (i + 1) % IdxMod \in 0..(IdxMod - 1)
BY Sizes, ModRange

LEMMA RingRange ==
  \A i, j \in 0..(IdxMod - 1) : (i - j) % IdxMod \in 0..(IdxMod - 1)
BY Sizes, ModRange

LEMMA DivRange ==
  ASSUME NEW n \in Nat \ {0}, NEW m \in Nat \ {0}, NEW e \in 0..(n * m - 1)
  PROVE  e \div n \in 0..(m - 1)
OBVIOUS

(* The distance of two unsigned numbers.                                     *)
LEMMA Distance ==
  ASSUME NEW m \in Nat \ {0}, NEW a \in 0..(m - 1), NEW b \in 0..(m - 1)
  PROVE  (a - b) % m = IF a >= b THEN a - b ELSE a - b + m
OBVIOUS

(* The distance when the end, or the start, moves on. *)
LEMMA EndMoves ==
  ASSUME NEW m \in Nat \ {0}, NEW a \in 0..(m - 1), NEW b \in 0..(m - 1), (a - b) % m < m - 1
  PROVE  (((a + 1) % m) - b) % m = ((a - b) % m) + 1
<1> DEFINE c == (a + 1) % m
<1>1. c \in 0..(m - 1) /\ c = IF a = m - 1 THEN 0 ELSE a + 1
  OBVIOUS
<1> HIDE DEF c
<1>2. /\ (c - b) % m = IF c >= b THEN c - b ELSE c - b + m
      /\ (a - b) % m = IF a >= b THEN a - b ELSE a - b + m
  BY <1>1, Distance, Zenon
<1>3. (c - b) % m = ((a - b) % m) + 1
  BY <1>1, <1>2
<1> QED
  BY <1>3, Zenon DEF c

LEMMA StartMoves ==
  ASSUME NEW m \in Nat \ {0}, NEW a \in 0..(m - 1), NEW b \in 0..(m - 1), a # b
  PROVE  (a - ((b + 1) % m)) % m = ((a - b) % m) - 1
<1> DEFINE c == (b + 1) % m
<1>1. c \in 0..(m - 1) /\ c = IF b = m - 1 THEN 0 ELSE b + 1
  OBVIOUS
<1> HIDE DEF c
<1>2. /\ (a - c) % m = IF a >= c THEN a - c ELSE a - c + m
      /\ (a - b) % m = IF a >= b THEN a - b ELSE a - b + m
  BY <1>1, Distance, Zenon
<1>3. (a - c) % m = ((a - b) % m) - 1
  BY <1>1, <1>2
<1> QED
  BY <1>3, Zenon DEF c

(* Multiples of n less than n apart are equal.                               *)
LEMMA Multiples ==
  ASSUME NEW n \in Nat \ {0}, NEW i \in Int, n * i < n, n * i > -n
  PROVE  i = 0
OBVIOUS

LEMMA SameRest ==
  ASSUME NEW n \in Nat \ {0}, NEW a \in Int, NEW b \in Int, a % n = b % n
  PROVE  \E i \in Int : a - b = n * i
<1>1. a = n * (a \div n) + (a % n) /\ b = n * (b \div n) + (b % n)
  OBVIOUS
<1>2. (a \div n) - (b \div n) \in Int /\ a - b = n * ((a \div n) - (b \div n))
  BY <1>1
<1> QED
  BY <1>2, Zenon

(* The ring is not longer than the range of its indexes. *)
LEMMA RingFits ==
  SlowLists <= IdxMod
<1>1. SlowLists \in Nat \ {0} /\ IdxMod \in Nat \ {0} /\ IdxMod % SlowLists = 0
  BY Sizes, WheelAssumption, Zenon
<1>2. \A n, m \in Nat \ {0} : m % n = 0 => n <= m
  OBVIOUS
<1> QED
  BY <1>1, <1>2, Zenon

(* Two indexes less than a turn of the ring apart are different lists.        *)
LEMMA RingLists ==
  ASSUME NEW a \in 0..(IdxMod - 1), NEW b \in 0..(IdxMod - 1), NEW s \in 0..(IdxMod - 1),
         (a - s) % IdxMod < SlowLists, (b - s) % IdxMod < SlowLists,
         SlowList(a) = SlowList(b)
  PROVE  a = b
<1>1. SlowLists \in Nat \ {0} /\ IdxMod \in Nat \ {0}
  BY Sizes, Zenon
<1>2. PICK k \in Int : IdxMod = SlowLists * k
  <2>1. IdxMod % SlowLists = 0 % SlowLists /\ IdxMod \in Int /\ 0 \in Int
    BY <1>1, WheelAssumption
  <2>2. PICK i \in Int : IdxMod - 0 = SlowLists * i
    BY <1>1, <2>1, SameRest, Zenon
  <2> QED
    BY <1>1, <2>2
<1>3. a % SlowLists = b % SlowLists
  BY Zenon DEF SlowList, List
<1>4. PICK j \in Int : a - b = SlowLists * j
  <2>1. a \in Int /\ b \in Int
    BY <1>1
  <2> QED
    BY <1>1, <1>3, <2>1, SameRest, Zenon
<1>5. /\ (a - s) % IdxMod = IF a >= s THEN a - s ELSE a - s + IdxMod
      /\ (b - s) % IdxMod = IF b >= s THEN b - s ELSE b - s + IdxMod
  BY <1>1, Distance, Zenon
<1>6. PICK i \in {j, j + k, j - k} : ((a - s) % IdxMod) - ((b - s) % IdxMod) = SlowLists * i
  <2>1. SlowLists * (j + k) = a - b + IdxMod /\ SlowLists * (j - k) = a - b - IdxMod
    BY <1>1, <1>2, <1>4
  <2> QED
    BY <1>1, <1>4, <1>5, <2>1
<1>7. SlowLists * i < SlowLists /\ SlowLists * i > -SlowLists
  <2>1. (a - s) % IdxMod \in 0..(SlowLists - 1) /\ (b - s) % IdxMod \in 0..(SlowLists - 1)
    BY <1>1, <1>5
  <2> DEFINE u == (a - s) % IdxMod
             v == (b - s) % IdxMod
  <2>2. u \in 0..(SlowLists - 1) /\ v \in 0..(SlowLists - 1) /\ u - v = SlowLists * i
    BY <1>6, <2>1, Zenon
  <2> HIDE DEF u, v
  <2>3. u - v < SlowLists /\ u - v > -SlowLists
    BY <1>1, <2>2
  <2> QED
    BY <2>2, <2>3, Zenon
<1>8. i = 0
  BY <1>1, <1>2, <1>4, <1>6, <1>7, Multiples
<1> QED
  BY <1>1, <1>5, <1>6, <1>8

-----------------------------------------------------------------------------
(* The lists.                                                                *)

LEMMA ListHeads ==
  /\ NoList.h = "none" /\ Expired.h = "expired"
  /\ \A i : SlowList(i).h = "slow"
  /\ \A l \in Lists : l # NoList <=> l.h \in Wheel \cup {"slow"}
BY DEF Lists, NoList, Expired, SlowList, List, Wheel

LEMMA ListTypes ==
  /\ NoList \in Lists /\ Expired \in Lists
  /\ \A i \in 0..(IdxMod - 1) : SlowList(i) \in Lists
<1>1. \A i \in 0..(IdxMod - 1) : i % SlowLists \in 0..(SlowLists - 1)
  BY Sizes, ModRange
<1> QED
  BY <1>1, Zenon DEF Lists, SlowList, List

(* The slots of the wheel that belong to a tick. *)
LEMMA Slots ==
  ASSUME NEW e \in 0..(TickMod - 1)
  PROVE  /\ List("h0", e % H0) \in Lists /\ List("h0", e % H0).h \in Wheel
         /\ LET l == List("h1", (e % (H0 * H1)) \div H0) IN l \in Lists /\ l.h \in Wheel
         /\ LET l == List("h2", e \div (H0 * H1)) IN l \in Lists /\ l.h \in Wheel
<1>1. e % H0 \in 0..(H0 - 1)
  BY Sizes, ModRange
<1>2. (e % (H0 * H1)) \div H0 \in 0..(H1 - 1)
  <2>1. e \in Int
    BY Sizes
  <2>2. e % (H0 * H1) \in 0..(H0 * H1 - 1)
    BY Sizes, <2>1, ModRange, Zenon
  <2> QED
    BY Sizes, <2>2, DivRange, Zenon
<1>3. e \div (H0 * H1) \in 0..(H2 - 1)
  BY Sizes, DivRange, Zenon
<1>4. \A i \in 0..(H0 - 1) : List("h0", i) \in Lists /\ List("h0", i).h \in Wheel
  BY Zenon DEF Lists, List, Wheel
<1>5. \A i \in 0..(H1 - 1) : List("h1", i) \in Lists /\ List("h1", i).h \in Wheel
  BY Zenon DEF Lists, List, Wheel
<1>6. \A i \in 0..(H2 - 1) : List("h2", i) \in Lists /\ List("h2", i).h \in Wheel
  BY Zenon DEF Lists, List, Wheel
<1> QED
  BY <1>1, <1>2, <1>3, <1>4, <1>5, <1>6, Zenon

(* _timer_dist_tl: one of the lists of the wheel. *)
LEMMA DistTl ==
  ASSUME NEW e \in 0..(TickMod - 1), NEW delta \in Nat
  PROVE  timer_dist_tl(e, delta) \in Lists /\ timer_dist_tl(e, delta).h \in Wheel
<1>1. Expired \in Lists /\ Expired.h \in Wheel
  BY ListTypes, ListHeads, Zenon DEF Wheel
<1> DEFINE b == List("h0", e % H0)
           c == List("h1", (e % (H0 * H1)) \div H0)
           d == List("h2", e \div (H0 * H1))
<1>2. timer_dist_tl(e, delta) \in {Expired, b, c, d}
  BY Zenon DEF timer_dist_tl
<1> QED
  BY <1>1, <1>2, Slots, Zenon

(* _timer_add: what it makes of a timer r. *)
AddAt(r, t, delta) == LET e == (t + delta) % TickMod
                      IN  [r EXCEPT !.onSlow = FALSE, !.slow_idx = 0, !.expire = e,
                                    !.list = timer_dist_tl(e, delta)]

LEMMA AddedRec ==
  ASSUME NEW r \in TimerRec, NEW t \in 0..(TickMod - 1), NEW d \in Deltas
  PROVE  /\ AddAt(r, t, d) \in TimerRec /\ AddAt(r, t, d).list.h \in Wheel
         /\ ~AddAt(r, t, d).onSlow /\ AddAt(r, t, d).active = r.active
<1> DEFINE e == (t + d) % TickMod
           l == timer_dist_tl(e, d)
<1>1. d \in Nat /\ TickMod \in Nat \ {0}
  BY Sizes, WheelAssumption
<1>2. e \in 0..(TickMod - 1)
  BY <1>1, ModRange
<1>3. l \in Lists /\ l.h \in Wheel
  BY <1>1, <1>2, DistTl, Zenon
<1> HIDE DEF e, l
<1>4. LET n == [r EXCEPT !.onSlow = FALSE, !.slow_idx = 0, !.expire = e, !.list = l]
      IN  n \in TimerRec /\ n.list = l /\ ~n.onSlow /\ n.active = r.active
  <2>1. 0 \in 0..(IdxMod - 1)
    BY Sizes
  <2> QED
    BY <1>2, <1>3, <2>1, Zenon DEF TimerRec
<1> QED
  BY <1>3, <1>4, Zenon DEF AddAt, e, l

(* What may happen to a timer in the wheel when the wheel is walked: it moves  *)
(* on in the wheel.                                                          *)
Moved(r, s) == /\ s = [r EXCEPT !.list = s.list] /\ s.list \in Lists
               /\ IF r.list.h \in Wheel THEN s.list.h \in Wheel ELSE s.list = r.list

LEMMA MovedTwice ==
  ASSUME NEW q \in TimerRec, NEW r \in TimerRec, NEW s \in TimerRec, Moved(q, r), Moved(r, s)
  PROVE  Moved(q, s)
BY Zenon DEF Moved, TimerRec

LEMMA Redist ==
  ASSUME NEW s \in [Timers -> TimerRec], NEW t \in Int, NEW h \in Lists, h.h \in Wheel
  PROVE  /\ timer_redist(s, t, h) \in [Timers -> TimerRec]
         /\ \A x \in Timers : Moved(s[x], timer_redist(s, t, h)[x])
<1>1. ASSUME NEW x \in Timers
      PROVE  LET n == [s[x] EXCEPT !.list = timer_dist_tl(s[x].expire, (s[x].expire - t) % TickMod)]
             IN  n \in TimerRec /\ (s[x].list = h => Moved(s[x], n))
  <2>1. (s[x].expire - t) % TickMod \in Nat /\ s[x].expire \in 0..(TickMod - 1)
    BY Sizes, ModRange DEF TimerRec
  <2> DEFINE l == timer_dist_tl(s[x].expire, (s[x].expire - t) % TickMod)
  <2>2. l \in Lists /\ l.h \in Wheel
    BY <2>1, DistTl, Zenon
  <2> HIDE DEF l
  <2>3. [s[x] EXCEPT !.list = l] \in TimerRec
    BY <2>2, Zenon DEF TimerRec
  <2>4. [s[x] EXCEPT !.list = l].list = l
    BY Zenon DEF TimerRec
  <2>5. s[x].list = h => Moved(s[x], [s[x] EXCEPT !.list = l])
    BY <2>2, <2>4, Zenon DEF Moved
  <2> QED
    BY <2>3, <2>5, Zenon DEF l
<1>2. \A x \in Timers : Moved(s[x], s[x])
  BY Zenon DEF Moved, TimerRec
<1> QED
  BY <1>1, <1>2, Zenon DEF timer_redist

(* timer_run: the timers of the wheel stay in the wheel, or expire. *)
LEMMA TimerRun ==
  ASSUME NEW s \in [Timers -> TimerRec], NEW t \in 0..(TickMod - 1)
  PROVE  /\ timer_run(s, t) \in [Timers -> TimerRec]
         /\ \A x \in Timers : Moved(s[x], timer_run(s, t)[x])
<1> DEFINE Fine(f) == f \in [Timers -> TimerRec] /\ \A x \in Timers : Moved(s[x], f[x])
           h2 == List("h2", t \div (H0 * H1))
           h1 == List("h1", (t % (H0 * H1)) \div H0)
           h0 == List("h0", t % H0)
<1>1. /\ h0 \in Lists /\ h0.h \in Wheel /\ h1 \in Lists /\ h1.h \in Wheel
      /\ h2 \in Lists /\ h2.h \in Wheel
  BY Slots, Zenon
<1>2. Fine(s)
  BY Zenon DEF Moved, TimerRec
<1>3. ASSUME NEW f, Fine(f), NEW h \in Lists, h.h \in Wheel
      PROVE  Fine(timer_redist(f, t, h))
  <2>1. t \in Int
    BY Sizes
  <2> DEFINE g == timer_redist(f, t, h)
  <2>2. g \in [Timers -> TimerRec] /\ \A x \in Timers : Moved(f[x], g[x])
    BY <1>3, <2>1, Redist, Zenon
  <2> HIDE DEF g
  <2>3. ASSUME NEW x \in Timers PROVE Moved(s[x], g[x])
    BY <1>3, <2>2, MovedTwice, Zenon
  <2> QED
    BY <2>2, <2>3, Zenon DEF g
<1> DEFINE s2 == IF t % (H0 * H1) = 0 THEN timer_redist(s, t, h2) ELSE s
           s1 == IF t % H0 = 0 THEN timer_redist(s2, t, h1) ELSE s
           out == [x \in Timers |-> IF s1[x].list = h0 THEN [s1[x] EXCEPT !.list = Expired]
                                    ELSE s1[x]]
<1>4. timer_run(s, t) = out
  BY Zenon DEF timer_run
<1> HIDE DEF h2, h1, Fine
<1>5. Fine(s2)
  BY <1>1, <1>2, <1>3, Zenon
<1> HIDE DEF s2
<1>6. Fine(s1)
  BY <1>1, <1>2, <1>3, <1>5, Zenon
<1> HIDE DEF s1
<1>7. ASSUME NEW x \in Timers, s1[x].list = h0
      PROVE  LET n == [s1[x] EXCEPT !.list = Expired] IN n \in TimerRec /\ Moved(s1[x], n)
  <2>1. s1[x] \in TimerRec
    BY <1>6, Zenon DEF Fine
  <2>2. Expired \in Lists /\ Expired.h \in Wheel
    BY ListTypes, ListHeads, Zenon DEF Wheel
  <2> HIDE DEF h0
  <2> QED
    BY <1>1, <1>7, <2>1, <2>2, Zenon DEF Moved, TimerRec
<1>8. out \in [Timers -> TimerRec]
  BY <1>6, <1>7, Zenon DEF Fine
<1>9. ASSUME NEW x \in Timers PROVE Moved(s[x], out[x])
  <2>1. s1[x] \in TimerRec /\ Moved(s[x], s1[x]) /\ s[x] \in TimerRec
    BY <1>6, Zenon DEF Fine
  <2> QED
    BY <1>7, <2>1, MovedTwice, Zenon
<1> QED
  BY <1>4, <1>8, <1>9, Zenon

-----------------------------------------------------------------------------
(* The steps of the timer processes that leave the lists alone.               *)

LEMMA Stutters ==
  DelSafe /\ UNCHANGED vars => DelSafe'
BY DEF DelSafe, vars, clock, locks, rest, TypeOK, RingIsConsistent, ProcInv, LockInv, SlowInv,
       FlagInv, DelInv, Busy, Running, RunsIn, linked

LEMMA Types ==
  ASSUME DelSafe
  PROVE  /\ proc \in [{"main", "slow"} -> ProcRec] /\ tl \in [Timers -> TimerRec]
         /\ del \in [Procs -> DelRec]
         /\ {ticks, prev_ticks} \subseteq 0..(TickMod - 1) /\ {t_idx, s_idx} \subseteq 0..(IdxMod - 1)
BY Zenon DEF DelSafe, TypeOK

LEMMA RingStays ==
  ASSUME RingIsConsistent, UNCHANGED <<t_idx, s_idx>>,
         \A x \in Timers : tl'[x].list.h = "slow" => tl'[x] = tl[x]
  PROVE  RingIsConsistent'
BY Zenon DEF RingIsConsistent

(* What the flags and the list of y tell timer_del stays the same.            *)
SameTimer(y) == /\ tl'[y].active = tl[y].active /\ tl'[y].onSlow = tl[y].onSlow
                /\ tl'[y].slow_idx = tl[y].slow_idx
                /\ tl'[y].list.h \in Wheel <=> tl[y].list.h \in Wheel
                /\ tl'[y].list.h = "slow" <=> tl[y].list.h = "slow"
                /\ linked(y)' <=> linked(y)

LEMMA SameTimers ==
  ASSUME NEW y, tl'[y] = tl[y]
  PROVE  SameTimer(y)
BY Zenon DEF SameTimer, linked

(* y is untouched: it is in nobody's hands who did not have it before.        *)
Untouched(y) == /\ SameTimer(y)
                /\ \A p \in {"main", "slow"} : /\ Busy(p, y)' => Busy(p, y)
                                               /\ RunsIn(p, y)' => RunsIn(p, y)

LEMMA FlagsStay ==
  ASSUME DelSafe, NEW y \in Timers, Untouched(y), RunsIn("slow", y) => s_idx' = s_idx
  PROVE  FlagInv(y)'
BY Zenon DEF DelSafe, FlagInv, Untouched, SameTimer

LEMMA DelInvStays ==
  ASSUME DelSafe, NEW q \in Procs, del'[q] = del[q], t_idx' = t_idx,
         del[q].at # "no" /\ q \in {"main", "slow"} => proc'[q] = proc[q],
         \A x \in Timers : del[q].tl = x => Untouched(x)
  PROVE  DelInv(q)'
<1>1. CASE del[q].at = "no"
  BY <1>1, Zenon DEF DelSafe, DelInv
<1>2. CASE del[q].at # "no"
  <2>1. PICK x \in Timers : x = del[q].tl
    BY <1>2, Types, Zenon DEF DelSafe, DelInv, DelRec
  <2>2. DelInv(q) /\ Untouched(x) /\ del'[q].tl = x
    BY <2>1, Zenon DEF DelSafe
  <2> QED
    BY <1>2, <2>1, <2>2 DEF DelInv, Untouched, SameTimer, Running
<1> QED
  BY <1>1, <1>2, Zenon

(* A timer process moves, and takes no timer. *)
LEMMA ProcMoves ==
  ASSUME DelSafe, NEW p \in {"main", "slow"}, UNCHANGED <<del, t_idx>>,
         \A y \in Timers : SameTimer(y),
         \A q \in {"main", "slow"} \ {p} : proc'[q] = proc[q],
         proc'[p].at \in {"f", "allowed", "readd"} => proc[p].at = "f" /\ proc'[p].tl = proc[p].tl,
         s_idx' = s_idx \/ proc["slow"].at \notin {"f", "readd"},
         del[p].at = "no" \/ proc[p].at \notin {"f", "allowed"}
  PROVE  (\A y \in Timers : FlagInv(y)') /\ (\A q \in Procs : DelInv(q)')
<1>1. ASSUME NEW y \in Timers PROVE Untouched(y)
  BY Zenon DEF Untouched, Busy, RunsIn
<1>2. ASSUME NEW y \in Timers PROVE FlagInv(y)'
  BY <1>1, FlagsStay, Zenon DEF RunsIn
<1>3. ASSUME NEW q \in Procs PROVE DelInv(q)'
  <2>1. del[q].at # "no" /\ q \in {"main", "slow"} => proc'[q] = proc[q]
    BY Zenon DEF DelSafe, DelInv, Procs
  <2> QED
    BY <1>1, <2>1, DelInvStays, Zenon
<1> QED
  BY <1>2, <1>3, Zenon

(* sig_timer: only the clock. *)
LEMMA SigTimer ==
  DelSafe /\ sig_timer => DelSafe'
<1> SUFFICES ASSUME DelSafe, sig_timer PROVE DelSafe'
  BY Zenon
<1>1. ticks' \in 0..(TickMod - 1) /\ run_timer' \in BOOLEAN
  BY Types, Ranges, Zenon DEF sig_timer
<1>2. UNCHANGED <<prev_ticks, tl, locks, rest, proc, del>>
  BY Zenon DEF sig_timer
<1> QED
  BY <1>1, <1>2 DEF DelSafe, locks, rest, TypeOK, RingIsConsistent, ProcInv, LockInv, SlowInv,
                    FlagInv, DelInv, Busy, Running, RunsIn, linked

(* timer_main: no timer in hand. *)
LEMMA TimerMain ==
  DelSafe /\ timer_main => DelSafe'
<1> SUFFICES ASSUME DelSafe, timer_main PROVE DelSafe'
  OBVIOUS
<1>1. /\ UNCHANGED <<tl, del, t_idx, s_idx, ticks, prev_ticks, slow_sig, timer_lock, slow_timer_lock, running_timer, running_timer2>>
      /\ run_timer' = FALSE /\ proc["main"].at = "idle"
  BY Zenon DEF timer_main, At, Goto, locks, rest
<1>2. /\ proc' \in [{"main", "slow"} -> ProcRec]
      /\ proc'["main"].at = "lock" /\ proc'["main"].tl = proc["main"].tl /\ proc'["slow"] = proc["slow"]
  BY Types, Zenon DEF timer_main, At, Goto, locks, rest, ProcRec
<1>3. TypeOK'
  BY <1>1, <1>2, Zenon DEF DelSafe, TypeOK, Procs
<1>4. ProcInv'
  BY <1>1, <1>2, Zenon DEF DelSafe, ProcInv, MainAts, SlowAts, WithTimer
<1>5. LockInv'
  BY <1>1, <1>2, NamesAssumption, Zenon DEF DelSafe, LockInv, Procs
<1>6. RingIsConsistent'
  BY <1>1, RingStays, Zenon DEF DelSafe
<1>7. SlowInv'
  BY <1>1, <1>2, Zenon DEF DelSafe, SlowInv, SlowAts
<1>8. (\A y \in Timers : FlagInv(y)') /\ (\A q \in Procs : DelInv(q)')
  BY <1>1, <1>2, SameTimers, ProcMoves, Zenon
<1> QED
  BY <1>3, <1>4, <1>5, <1>6, <1>7, <1>8, Zenon DEF DelSafe

(* timer_handler takes the main lock, which is free. *)
LEMMA TimerHandler ==
  DelSafe /\ timer_handler => DelSafe'
<1> SUFFICES ASSUME DelSafe, timer_handler PROVE DelSafe'
  OBVIOUS
<1>1. /\ UNCHANGED <<tl, del, t_idx, s_idx, ticks, run_timer, slow_sig, slow_timer_lock, running_timer, running_timer2>>
      /\ timer_lock = None /\ timer_lock' = "main" /\ proc["main"].at = "lock"
      /\ prev_ticks' \in {prev_ticks, (ticks - 1) % TickMod}
  BY Zenon DEF timer_handler, WalkOn, At, rest
<1>2. /\ proc' \in [{"main", "slow"} -> ProcRec]
      /\ proc'["main"].at \in {"walk", "expire"} /\ proc'["main"].tl = proc["main"].tl /\ proc'["slow"] = proc["slow"]
  BY Types, Ranges, Zenon DEF timer_handler, WalkOn, At, rest, ProcRec
<1>3. TypeOK'
  BY <1>1, <1>2, Ranges, Zenon DEF DelSafe, TypeOK, Procs
<1>4. ProcInv'
  BY <1>1, <1>2, Zenon DEF DelSafe, ProcInv, MainAts, SlowAts, WithTimer
<1>5. LockInv'
  BY <1>1, <1>2, NamesAssumption, Zenon DEF DelSafe, LockInv, Procs
<1>6. RingIsConsistent'
  BY <1>1, RingStays, Zenon DEF DelSafe
<1>7. SlowInv'
  BY <1>1, <1>2, Zenon DEF DelSafe, SlowInv, SlowAts
<1>8. (\A y \in Timers : FlagInv(y)') /\ (\A q \in Procs : DelInv(q)')
  BY <1>1, <1>2, SameTimers, ProcMoves, Zenon
<1> QED
  BY <1>3, <1>4, <1>5, <1>6, <1>7, <1>8 DEF DelSafe

(* timer_allow_del: the timer no longer runs, and stays unlinked. *)
LEMMA AllowDel ==
  ASSUME NEW p \in {"main", "slow"}
  PROVE  DelSafe /\ timer_allow_del(p) => DelSafe'
<1> SUFFICES ASSUME DelSafe, timer_allow_del(p) PROVE DelSafe'
  BY Zenon
<1>1. /\ UNCHANGED <<tl, del, t_idx, s_idx, ticks, prev_ticks, run_timer, slow_sig, timer_lock, slow_timer_lock>>
      /\ running_timer' = IF p = "main" THEN None ELSE running_timer
      /\ running_timer2' = IF p = "slow" THEN None ELSE running_timer2
      /\ proc[p].at = "f" /\ del[p].at = "no"
  BY Zenon DEF timer_allow_del, At, Goto, SetRunning, locks, clock
<1>2. /\ proc' \in [{"main", "slow"} -> ProcRec]
      /\ proc'[p].at = "allowed" /\ proc'[p].tl = proc[p].tl
      /\ \A q \in {"main", "slow"} \ {p} : proc'[q] = proc[q]
  BY Types, Zenon DEF timer_allow_del, At, Goto, SetRunning, locks, clock, ProcRec
<1>3. TypeOK'
  BY <1>1, <1>2, Zenon DEF DelSafe, TypeOK, Procs
<1>4. ProcInv'
  BY <1>1, <1>2 DEF DelSafe, ProcInv, MainAts, SlowAts, WithTimer
<1>5. LockInv'
  BY <1>1, <1>2, NamesAssumption, Zenon DEF DelSafe, LockInv, Procs
<1>6. RingIsConsistent'
  BY <1>1, RingStays, Zenon DEF DelSafe
<1>7. SlowInv'
  BY <1>1, <1>2, Zenon DEF DelSafe, SlowInv, SlowAts
<1>8. (\A y \in Timers : FlagInv(y)') /\ (\A q \in Procs : DelInv(q)')
  BY <1>1, <1>2, SameTimers, ProcMoves, Zenon
<1> QED
  BY <1>3, <1>4, <1>5, <1>6, <1>7, <1>8, Zenon DEF DelSafe

(* f returns 0: nobody in the timer processes has the timer any more. *)
LEMMA Returns0 ==
  ASSUME NEW p \in {"main", "slow"}
  PROVE  DelSafe /\ ReturnsZero(p) => DelSafe'
<1> SUFFICES ASSUME DelSafe, ReturnsZero(p) PROVE DelSafe'
  OBVIOUS
<1>1. /\ UNCHANGED <<tl, del, t_idx, s_idx, ticks, prev_ticks, run_timer, slow_sig, timer_lock, slow_timer_lock>>
      /\ running_timer' = IF p = "main" THEN None ELSE running_timer
      /\ running_timer2' = IF p = "slow" THEN None ELSE running_timer2
      /\ proc[p].at \in {"f", "allowed", "ended"} /\ del[p].at = "no"
  BY Zenon DEF ReturnsZero, SetRunning, locks, clock
<1>2. /\ proc' \in [{"main", "slow"} -> ProcRec]
      /\ proc'[p].at = "relock" /\ proc'[p].tl = None
      /\ \A q \in {"main", "slow"} \ {p} : proc'[q] = proc[q]
  BY Types, Zenon DEF ReturnsZero, SetRunning, locks, clock, ProcRec
<1>3. TypeOK'
  BY <1>1, <1>2, Zenon DEF DelSafe, TypeOK, Procs
<1>4. ProcInv'
  BY <1>1, <1>2 DEF DelSafe, ProcInv, MainAts, SlowAts, WithTimer
<1>5. LockInv'
  BY <1>1, <1>2, NamesAssumption, Zenon DEF DelSafe, LockInv, Procs
<1>6. RingIsConsistent'
  BY <1>1, RingStays, Zenon DEF DelSafe
<1>7. SlowInv'
  BY <1>1, <1>2, Zenon DEF DelSafe, SlowInv, SlowAts
<1>8. (\A y \in Timers : FlagInv(y)') /\ (\A q \in Procs : DelInv(q)')
  BY <1>1, <1>2, SameTimers, ProcMoves, Zenon
<1> QED
  BY <1>3, <1>4, <1>5, <1>6, <1>7, <1>8 DEF DelSafe

(* After a handler, timer_list_expire takes the main lock again. *)
LEMMA MainLocks ==
  DelSafe /\ MainRelock => DelSafe'
<1> SUFFICES ASSUME DelSafe, MainRelock PROVE DelSafe'
  OBVIOUS
<1>1. /\ UNCHANGED <<tl, del, t_idx, s_idx, ticks, prev_ticks, run_timer, slow_sig, slow_timer_lock, running_timer, running_timer2>>
      /\ timer_lock = None /\ timer_lock' = "main" /\ proc["main"].at = "relock"
  BY Zenon DEF MainRelock, At, Goto, clock, rest
<1>2. /\ proc' \in [{"main", "slow"} -> ProcRec]
      /\ proc'["main"].at = "expire" /\ proc'["main"].tl = proc["main"].tl /\ proc'["slow"] = proc["slow"]
  BY Types, Zenon DEF MainRelock, At, Goto, clock, rest, ProcRec
<1>3. TypeOK'
  BY <1>1, <1>2, Zenon DEF DelSafe, TypeOK, Procs
<1>4. ProcInv'
  BY <1>1, <1>2, Zenon DEF DelSafe, ProcInv, MainAts, SlowAts, WithTimer
<1>5. LockInv'
  BY <1>1, <1>2, NamesAssumption, Zenon DEF DelSafe, LockInv, Procs
<1>6. RingIsConsistent'
  BY <1>1, RingStays, Zenon DEF DelSafe
<1>7. SlowInv'
  BY <1>1, <1>2, Zenon DEF DelSafe, SlowInv, SlowAts
<1>8. (\A y \in Timers : FlagInv(y)') /\ (\A q \in Procs : DelInv(q)')
  BY <1>1, <1>2, SameTimers, ProcMoves, Zenon
<1> QED
  BY <1>3, <1>4, <1>5, <1>6, <1>7, <1>8 DEF DelSafe

(* After a handler, slow_timer_main takes the slow lock again. *)
LEMMA SlowLocks ==
  DelSafe /\ SlowRelock => DelSafe'
<1> SUFFICES ASSUME DelSafe, SlowRelock PROVE DelSafe'
  OBVIOUS
<1>1. /\ UNCHANGED <<tl, del, t_idx, s_idx, ticks, prev_ticks, run_timer, slow_sig, timer_lock, running_timer, running_timer2>>
      /\ slow_timer_lock = None /\ slow_timer_lock' = "slow" /\ proc["slow"].at = "relock"
  BY Zenon DEF SlowRelock, At, Goto, clock, rest
<1>2. /\ proc' \in [{"main", "slow"} -> ProcRec]
      /\ proc'["slow"].at = "scan" /\ proc'["slow"].tl = proc["slow"].tl /\ proc'["main"] = proc["main"]
  BY Types, Zenon DEF SlowRelock, At, Goto, clock, rest, ProcRec
<1>3. TypeOK'
  BY <1>1, <1>2, Zenon DEF DelSafe, TypeOK, Procs
<1>4. ProcInv'
  BY <1>1, <1>2, Zenon DEF DelSafe, ProcInv, MainAts, SlowAts, WithTimer
<1>5. LockInv'
  BY <1>1, <1>2, NamesAssumption, Zenon DEF DelSafe, LockInv, Procs
<1>6. RingIsConsistent'
  BY <1>1, RingStays, Zenon DEF DelSafe
<1>7. SlowInv'
  BY <1>1, <1>2, Zenon DEF DelSafe, SlowInv, SlowAts
<1>8. (\A y \in Timers : FlagInv(y)') /\ (\A q \in Procs : DelInv(q)')
  BY <1>1, <1>2, SameTimers, ProcMoves, Zenon
<1> QED
  BY <1>3, <1>4, <1>5, <1>6, <1>7, <1>8 DEF DelSafe

(* slow_timer_main takes the slow lock on SLOW_TIMER_SIG. *)
LEMMA SlowStarts ==
  DelSafe /\ SlowWakes => DelSafe'
<1> SUFFICES ASSUME DelSafe, SlowWakes PROVE DelSafe'
  OBVIOUS
<1>1. /\ UNCHANGED <<tl, del, t_idx, s_idx, ticks, prev_ticks, run_timer, timer_lock, running_timer, running_timer2>>
      /\ slow_timer_lock = None /\ slow_timer_lock' = "slow" /\ proc["slow"].at = "idle"
      /\ slow_sig' = FALSE
  BY Zenon DEF SlowWakes, At, Goto, clock
<1>2. /\ proc' \in [{"main", "slow"} -> ProcRec]
      /\ proc'["slow"].at = "scan" /\ proc'["slow"].tl = proc["slow"].tl /\ proc'["main"] = proc["main"]
  BY Types, Zenon DEF SlowWakes, At, Goto, clock, ProcRec
<1>3. TypeOK'
  BY <1>1, <1>2, Zenon DEF DelSafe, TypeOK, Procs
<1>4. ProcInv'
  BY <1>1, <1>2, Zenon DEF DelSafe, ProcInv, MainAts, SlowAts, WithTimer
<1>5. LockInv'
  BY <1>1, <1>2, NamesAssumption, Zenon DEF DelSafe, LockInv, Procs
<1>6. RingIsConsistent'
  BY <1>1, RingStays, Zenon DEF DelSafe
<1>7. SlowInv'
  BY <1>1, <1>2, Zenon DEF DelSafe, SlowInv, SlowAts
<1>8. (\A y \in Timers : FlagInv(y)') /\ (\A q \in Procs : DelInv(q)')
  BY <1>1, <1>2, SameTimers, ProcMoves, Zenon
<1> QED
  BY <1>3, <1>4, <1>5, <1>6, <1>7, <1>8 DEF DelSafe

(* slow_timer_main has come to the list that is being filled. *)
LEMMA SlowStops ==
  DelSafe /\ SlowEnds => DelSafe'
<1> SUFFICES ASSUME DelSafe, SlowEnds PROVE DelSafe'
  OBVIOUS
<1>1. /\ UNCHANGED <<tl, del, t_idx, s_idx, ticks, prev_ticks, run_timer, slow_sig, timer_lock, running_timer, running_timer2>>
      /\ slow_timer_lock' = None /\ proc["slow"].at = "scan"
  BY Zenon DEF SlowEnds, At, Goto, clock, rest
<1>2. /\ proc' \in [{"main", "slow"} -> ProcRec]
      /\ proc'["slow"].at = "idle" /\ proc'["slow"].tl = proc["slow"].tl /\ proc'["main"] = proc["main"]
  BY Types, Zenon DEF SlowEnds, At, Goto, clock, rest, ProcRec
<1>3. TypeOK'
  BY <1>1, <1>2, Zenon DEF DelSafe, TypeOK, Procs
<1>4. ProcInv'
  BY <1>1, <1>2, Zenon DEF DelSafe, ProcInv, MainAts, SlowAts, WithTimer
<1>5. LockInv'
  BY <1>1, <1>2, NamesAssumption, Zenon DEF DelSafe, LockInv, Procs, DelInv
<1>6. RingIsConsistent'
  BY <1>1, RingStays, Zenon DEF DelSafe
<1>7. SlowInv'
  BY <1>1, <1>2, Zenon DEF DelSafe, SlowInv, SlowAts
<1>8. (\A y \in Timers : FlagInv(y)') /\ (\A q \in Procs : DelInv(q)')
  BY <1>1, <1>2, SameTimers, ProcMoves, Zenon
<1> QED
  BY <1>3, <1>4, <1>5, <1>6, <1>7, <1>8 DEF DelSafe

(* UNSET_RUNNING_SLOW after the timer is back in the wheel. *)
LEMMA SlowUnsets ==
  DelSafe /\ SlowReadded => DelSafe'
<1> SUFFICES ASSUME DelSafe, SlowReadded PROVE DelSafe'
  OBVIOUS
<1>1. /\ UNCHANGED <<tl, del, t_idx, s_idx, ticks, prev_ticks, run_timer, slow_sig, timer_lock, running_timer>>
      /\ slow_timer_lock = None /\ slow_timer_lock' = "slow" /\ proc["slow"].at = "readded"
      /\ running_timer2' = None
  BY Zenon DEF SlowReadded, At, SetRunning, clock
<1>2. /\ proc' \in [{"main", "slow"} -> ProcRec]
      /\ proc'["slow"].at = "scan" /\ proc'["slow"].tl = None /\ proc'["main"] = proc["main"]
  BY Types, Zenon DEF SlowReadded, At, SetRunning, clock, ProcRec
<1>3. TypeOK'
  BY <1>1, <1>2, Zenon DEF DelSafe, TypeOK, Procs
<1>4. ProcInv'
  BY <1>1, <1>2, Zenon DEF DelSafe, ProcInv, MainAts, SlowAts, WithTimer
<1>5. LockInv'
  BY <1>1, <1>2, NamesAssumption, Zenon DEF DelSafe, LockInv, Procs
<1>6. RingIsConsistent'
  BY <1>1, RingStays, Zenon DEF DelSafe
<1>7. SlowInv'
  BY <1>1, <1>2, Zenon DEF DelSafe, SlowInv, SlowAts
<1>8. (\A y \in Timers : FlagInv(y)') /\ (\A q \in Procs : DelInv(q)')
  BY <1>1, <1>2, SameTimers, ProcMoves, Zenon
<1> QED
  BY <1>3, <1>4, <1>5, <1>6, <1>7, <1>8 DEF DelSafe

(* slow_timer_main goes on to the next list of the ring, the current one being empty. *)
LEMMA NextList ==
  DelSafe /\ SlowNextList => DelSafe'
<1> SUFFICES ASSUME DelSafe, SlowNextList PROVE DelSafe'
  OBVIOUS
<1>1. /\ UNCHANGED <<tl, del, t_idx, ticks, prev_ticks, run_timer, slow_sig, timer_lock, slow_timer_lock, running_timer, running_timer2>>
      /\ s_idx' = (s_idx + 1) % IdxMod /\ s_idx # t_idx
      /\ OnList(SlowList(s_idx)) = {} /\ proc["slow"].at = "scan" /\ proc' = proc
  BY Zenon DEF SlowNextList, At, locks, clock
<1>2. /\ proc' \in [{"main", "slow"} -> ProcRec]
      /\ proc'["slow"].at = "scan" /\ proc'["main"] = proc["main"]
  BY Types, Ranges, Zenon DEF SlowNextList, At, locks, clock, ProcRec
<1>3. TypeOK'
  BY <1>1, <1>2, Ranges, Zenon DEF DelSafe, TypeOK, Procs
<1>4. ProcInv'
  BY <1>1, <1>2, Zenon DEF DelSafe, ProcInv, MainAts, SlowAts, WithTimer
<1>5. LockInv'
  BY <1>1, <1>2, NamesAssumption, Zenon DEF DelSafe, LockInv, Procs
<1>6. RingIsConsistent'
  <2>1. {t_idx, s_idx} \subseteq 0..(IdxMod - 1) /\ IdxMod \in Nat \ {0}
    BY Sizes, Types, Zenon
  <2>2. (t_idx - s_idx') % IdxMod = ((t_idx - s_idx) % IdxMod) - 1
    BY <1>1, <2>1, StartMoves, Zenon
  <2>3. ASSUME NEW x \in Timers, tl[x].list.h = "slow"
        PROVE  (tl[x].slow_idx - s_idx') % IdxMod = ((tl[x].slow_idx - s_idx) % IdxMod) - 1
    <3>1. tl[x].slow_idx \in 0..(IdxMod - 1)
      BY Types, Zenon DEF TimerRec
    <3>2. tl[x].slow_idx # s_idx
      BY <1>1, <2>3, Zenon DEF DelSafe, RingIsConsistent, OnList
    <3> QED
      BY <1>1, <2>1, <3>1, <3>2, StartMoves, Zenon
  <2>4. (t_idx - s_idx) % IdxMod \in Int
    BY <2>1
  <2>5. \A x \in Timers : (tl[x].slow_idx - s_idx) % IdxMod \in Int
    BY <2>1, Types DEF TimerRec
  <2> QED
    BY Sizes, <1>1, <2>2, <2>3, <2>4, <2>5 DEF DelSafe, RingIsConsistent
<1>7. SlowInv'
  BY <1>1, <1>2, Zenon DEF DelSafe, SlowInv, SlowAts
<1>8. (\A y \in Timers : FlagInv(y)') /\ (\A q \in Procs : DelInv(q)')
  BY <1>1, <1>2, SameTimers, ProcMoves, Zenon
<1> QED
  BY <1>3, <1>4, <1>5, <1>6, <1>7, <1>8 DEF DelSafe

-----------------------------------------------------------------------------
(* The steps that change a timer: tl'[x] is r, the other timers stay.          *)

(* Only x is touched. *)
LEMMA OneTouched ==
  ASSUME DelSafe, NEW x \in Timers, UNCHANGED <<t_idx, s_idx>>,
         \A y \in Timers \ {x} : Untouched(y), FlagInv(x)',
         \A q \in Procs : del[q].tl # x =>
            /\ del'[q] = del[q]
            /\ del[q].at # "no" /\ q \in {"main", "slow"} => proc'[q] = proc[q],
         \A q \in Procs : del[q].tl = x => DelInv(q)'
  PROVE  (\A y \in Timers : FlagInv(y)') /\ (\A q \in Procs : DelInv(q)')
<1>1. ASSUME NEW y \in Timers PROVE FlagInv(y)'
  BY FlagsStay, Zenon
<1>2. ASSUME NEW q \in Procs PROVE DelInv(q)'
  BY DelInvStays, Zenon
<1> QED
  BY <1>1, <1>2, Zenon

(* timer_del for x before it has decided anything. *)
LEMMA DelUndecided ==
  ASSUME DelSafe, NEW q \in Procs, NEW x \in Timers, del[q].tl = x, del'[q] = del[q],
         del[q].at \in {"slow", "main"}, tl'[x].active,
         q \in {"main", "slow"} => proc'[q] = proc[q]
  PROVE  DelInv(q)'
BY NamesAssumption, Zenon DEF DelSafe, DelInv

(* While a timer process works on a list with the lock of the list, no         *)
(* timer_del has decided about the timers of the list.                        *)
LEMMA LockedOut ==
  ASSUME DelSafe, NEW q \in Procs, NEW x \in Timers, del[q].tl = x, linked(x),
         \/ proc["main"].at = "expire" /\ tl[x].list.h = "expired"
         \/ proc["slow"].at = "scan" /\ tl[x].list.h = "slow" /\ tl[x].slow_idx # t_idx
  PROVE  /\ del[q].at \in {"slow", "main"}
         /\ q \in {"main", "slow"} => proc[q].at \in {"f", "allowed"}
<1>1. del[q] \in DelRec /\ DelInv(q) /\ x # None
  BY Types, NamesAssumption, Zenon DEF DelSafe
<1>2. del[q].at \notin {"no", "removed"}
  BY <1>1, Zenon DEF DelInv
<1>3. CASE proc["main"].at = "expire" /\ tl[x].list.h = "expired"
  <2>1. timer_lock = "main" /\ (del[q].at = "mainrm" => timer_lock = q)
    BY <1>3, Zenon DEF DelSafe, LockInv
  <2> QED
    BY <1>1, <1>2, <1>3, <2>1, Zenon DEF DelInv, DelRec
<1>4. CASE proc["slow"].at = "scan" /\ tl[x].list.h = "slow" /\ tl[x].slow_idx # t_idx
  <2>1. slow_timer_lock = "slow" /\ (del[q].at = "slowrm" => slow_timer_lock = q)
    BY <1>4, Zenon DEF DelSafe, LockInv
  <2> QED
    BY <1>1, <1>2, <1>4, <2>1, Zenon DEF DelInv, DelRec
<1> QED
  BY <1>3, <1>4, Zenon

(* timer_init of a timer that nobody uses. *)
LEMMA InitsTimer ==
  ASSUME NEW x \in Timers
  PROVE  DelSafe /\ timer_init(x) => DelSafe'
<1> SUFFICES ASSUME DelSafe, timer_init(x) PROVE DelSafe'
  BY Zenon
<1>1. /\ UNCHANGED <<del, t_idx, s_idx, ticks, prev_ticks, run_timer, slow_sig, timer_lock, slow_timer_lock, running_timer, running_timer2>>
      /\ ~linked(x) /\ (\A q \in Procs : del[q].tl # x)
      /\ (\A q \in {"main", "slow"} : proc[q].tl # x)
  BY Zenon DEF timer_init, locks, rest, clock
<1> DEFINE r == Fresh(x)
<1>2. r \in TimerRec /\ r.list = NoList /\ r.list.h = "none"
  BY Sizes, ListTypes, ListHeads DEF Fresh, TimerRec
<1>3. /\ tl' \in [Timers -> TimerRec] /\ tl'[x] = r
      /\ \A y \in Timers \ {x} : tl'[y] = tl[y]
  BY <1>2, Types, Zenon DEF timer_init, locks, rest, clock, Fresh
<1> HIDE DEF r
<1>4. /\ proc' \in [{"main", "slow"} -> ProcRec]
      /\ proc' = proc
  BY Types, Zenon DEF timer_init, locks, rest, clock, ProcRec
<1>5. TypeOK'
  BY <1>1, <1>3, <1>4, Zenon DEF DelSafe, TypeOK, Procs
<1>6. ProcInv'
  BY <1>1, <1>4, NamesAssumption, Zenon DEF DelSafe, ProcInv, MainAts, SlowAts, WithTimer
<1>7. LockInv'
  BY <1>1, <1>4, NamesAssumption, Zenon DEF DelSafe, LockInv, Procs
<1>8. RingIsConsistent'
  BY <1>1, <1>2, <1>3, RingStays, Zenon DEF DelSafe
<1>9. SlowInv'
  BY <1>1, <1>4, Zenon DEF DelSafe, SlowInv, SlowAts
<1>10. \A y \in Timers \ {x} : Untouched(y)
  BY <1>1, <1>3, <1>4, SameTimers, Zenon DEF Untouched, Busy, RunsIn
<1>11. FlagInv(x)'
  BY <1>1, <1>2, <1>3, <1>4, ListHeads, Zenon DEF DelSafe, FlagInv, Busy, RunsIn, linked, Wheel
<1>12. ASSUME NEW q \in Procs, del[q].tl = x PROVE DelInv(q)'
  BY <1>1, <1>12, Zenon
<1>13. ASSUME NEW q \in Procs, del[q].tl # x
       PROVE  /\ del'[q] = del[q]
              /\ del[q].at # "no" /\ q \in {"main", "slow"} => proc'[q] = proc[q]
  BY <1>1, <1>4, <1>13, Zenon DEF DelSafe, DelInv
<1>14. (\A y \in Timers : FlagInv(y)') /\ (\A q \in Procs : DelInv(q)')
  BY <1>1, <1>10, <1>11, <1>12, <1>13, OneTouched, Zenon
<1> QED
  BY <1>5, <1>6, <1>7, <1>8, <1>9, <1>14, Zenon DEF DelSafe

(* timer_add of a timer that is off. *)
LEMMA AddsTimer ==
  ASSUME NEW w \in Workers, NEW x \in Timers, NEW d \in Deltas
  PROVE  DelSafe /\ timer_add(w, x, d) => DelSafe'
<1> SUFFICES ASSUME DelSafe, timer_add(w, x, d) PROVE DelSafe'
  BY Zenon
<1>1. /\ UNCHANGED <<del, t_idx, s_idx, ticks, prev_ticks, run_timer, slow_sig, timer_lock, slow_timer_lock, running_timer, running_timer2>>
      /\ ~linked(x) /\ ~tl[x].active
  BY Zenon DEF timer_add, locks, rest, clock
<1> DEFINE r == [AddAt(tl[x], ticks, d) EXCEPT !.active = TRUE]
<1>2. r \in TimerRec /\ r.list.h \in Wheel /\ r.list.h # "slow" /\ ~r.onSlow /\ r.active
  <2>1. tl[x] \in TimerRec /\ ticks \in 0..(TickMod - 1)
    BY Types, Zenon
  <2>2. AddAt(tl[x], ticks, d) \in TimerRec /\ AddAt(tl[x], ticks, d).list.h \in Wheel
    BY <2>1, AddedRec, Zenon
  <2>3. ~AddAt(tl[x], ticks, d).onSlow
    BY <2>1, AddedRec, Zenon
  <2> QED
    BY <2>2, <2>3, Zenon DEF TimerRec, Wheel
<1>3. /\ tl' \in [Timers -> TimerRec] /\ tl'[x] = r
      /\ \A y \in Timers \ {x} : tl'[y] = tl[y]
  BY <1>2, Types, Zenon DEF timer_add, locks, rest, clock, timer_add_at, AddAt
<1> HIDE DEF r
<1>4. /\ proc' \in [{"main", "slow"} -> ProcRec]
      /\ proc' = proc
  BY Types, Zenon DEF timer_add, locks, rest, clock, ProcRec
<1>5. TypeOK'
  BY <1>1, <1>3, <1>4, Zenon DEF DelSafe, TypeOK, Procs
<1>6. ProcInv'
  BY <1>1, <1>4, NamesAssumption, Zenon DEF DelSafe, ProcInv, MainAts, SlowAts, WithTimer
<1>7. LockInv'
  BY <1>1, <1>4, NamesAssumption, Zenon DEF DelSafe, LockInv, Procs
<1>8. RingIsConsistent'
  BY <1>1, <1>2, <1>3, RingStays, Zenon DEF DelSafe
<1>9. SlowInv'
  BY <1>1, <1>4, Zenon DEF DelSafe, SlowInv, SlowAts
<1>10. \A y \in Timers \ {x} : Untouched(y)
  BY <1>1, <1>3, <1>4, SameTimers, Zenon DEF Untouched, Busy, RunsIn
<1>11. FlagInv(x)'
  BY <1>1, <1>2, <1>3, <1>4, ListHeads, Zenon DEF DelSafe, FlagInv, Busy, RunsIn, linked, Wheel
<1>12. ASSUME NEW q \in Procs, del[q].tl = x PROVE DelInv(q)'
  BY <1>1, <1>12, NamesAssumption, Zenon DEF DelSafe, DelInv
<1>13. ASSUME NEW q \in Procs, del[q].tl # x
       PROVE  /\ del'[q] = del[q]
              /\ del[q].at # "no" /\ q \in {"main", "slow"} => proc'[q] = proc[q]
  BY <1>1, <1>4, <1>13, Zenon DEF DelSafe, DelInv
<1>14. (\A y \in Timers : FlagInv(y)') /\ (\A q \in Procs : DelInv(q)')
  BY <1>1, <1>10, <1>11, <1>12, <1>13, OneTouched, Zenon
<1> QED
  BY <1>5, <1>6, <1>7, <1>8, <1>9, <1>14, Zenon DEF DelSafe

(* timer_reinit after timer_del. *)
LEMMA ReinitsTimer ==
  ASSUME NEW w \in Workers
  PROVE  DelSafe /\ timer_reinit(w) => DelSafe'
<1> SUFFICES ASSUME DelSafe, timer_reinit(w) PROVE DelSafe'
  OBVIOUS
<1>0. PICK x \in Timers : x = del[w].tl /\ ~linked(x) /\ ~Busy("main", x) /\ ~Busy("slow", x)
  BY Types, Zenon DEF timer_reinit, DelSafe, DelInv, DelRec, Procs
<1>1. /\ UNCHANGED <<t_idx, s_idx, ticks, prev_ticks, run_timer, slow_sig, timer_lock, slow_timer_lock, running_timer, running_timer2>>
      /\ w \in Procs /\ del[w].at = "removed" /\ del' = [del EXCEPT ![w] = NoDel]
      /\ (\A q \in Procs \ {w} : del[q].tl # del[w].tl)
  BY Zenon DEF timer_reinit, NotBeingDeleted, Procs, locks, rest, clock
<1> DEFINE r == [tl[x] EXCEPT !.onSlow = FALSE, !.active = FALSE]
<1>2. r \in TimerRec /\ ~r.onSlow /\ r.list = NoList /\ r.list.h = "none"
  <2>1. tl[x] \in TimerRec /\ tl[x].list = NoList
    BY <1>0, Types, Zenon DEF linked
  <2>2. r \in TimerRec /\ ~r.onSlow /\ r.list = tl[x].list
    BY <2>1, Zenon DEF TimerRec
  <2> QED
    BY <2>1, <2>2, ListHeads, Zenon
<1>3. /\ tl' \in [Timers -> TimerRec] /\ tl'[x] = r
      /\ \A y \in Timers \ {x} : tl'[y] = tl[y]
  BY <1>2, Types, <1>0, Zenon DEF timer_reinit, NotBeingDeleted, Procs, locks, rest, clock
<1> HIDE DEF r
<1>4. /\ proc' \in [{"main", "slow"} -> ProcRec]
      /\ proc' = proc /\ del' \in [Procs -> DelRec]
      /\ del'[w] = NoDel /\ (\A q \in Procs \ {w} : del'[q] = del[q])
  BY Types, <1>0, Zenon DEF timer_reinit, NotBeingDeleted, Procs, locks, rest, clock, ProcRec, DelRec, NoDel
<1>5. TypeOK'
  BY <1>1, <1>3, <1>4, Zenon DEF DelSafe, TypeOK, Procs
<1>6. ProcInv'
  BY <1>1, <1>4, NamesAssumption, Zenon DEF DelSafe, ProcInv, MainAts, SlowAts, WithTimer
<1>7. LockInv'
  BY <1>1, <1>4, NamesAssumption, Zenon DEF DelSafe, LockInv, Procs, NoDel
<1>8. RingIsConsistent'
  BY <1>1, <1>2, <1>3, RingStays, Zenon DEF DelSafe
<1>9. SlowInv'
  BY <1>1, <1>4, Zenon DEF DelSafe, SlowInv, SlowAts
<1>10. \A y \in Timers \ {x} : Untouched(y)
  BY <1>1, <1>3, <1>4, SameTimers, Zenon DEF Untouched, Busy, RunsIn
<1>11. FlagInv(x)'
  BY <1>0, <1>2, <1>3, <1>4, ListHeads, Zenon DEF FlagInv, Busy, RunsIn, linked, Wheel
<1>12. ASSUME NEW q \in Procs, del[q].tl = x PROVE DelInv(q)'
  BY <1>0, <1>1, <1>4, <1>12, Zenon DEF DelInv, NoDel
<1>13. ASSUME NEW q \in Procs, del[q].tl # x
       PROVE  /\ del'[q] = del[q]
              /\ del[q].at # "no" /\ q \in {"main", "slow"} => proc'[q] = proc[q]
  BY <1>1, <1>4, <1>13, <1>0, Zenon DEF NoDel
<1>14. (\A y \in Timers : FlagInv(y)') /\ (\A q \in Procs : DelInv(q)')
  BY <1>1, <1>10, <1>11, <1>12, <1>13, OneTouched, Zenon
<1> QED
  BY <1>5, <1>6, <1>7, <1>8, <1>9, <1>14, Zenon DEF DelSafe

(* timer_reinit from the handler that has called timer_allow_del. *)
LEMMA HandlerReinits ==
  ASSUME NEW p \in {"main", "slow"}
  PROVE  DelSafe /\ HandlerReinit(p) => DelSafe'
<1> SUFFICES ASSUME DelSafe, HandlerReinit(p) PROVE DelSafe'
  OBVIOUS
<1>0. PICK x \in Timers : x = proc[p].tl /\ tl[x].active /\ ~linked(x)
  BY Types, Zenon DEF HandlerReinit, At, DelSafe, ProcInv, ProcRec, WithTimer, FlagInv, Busy
<1>1. /\ UNCHANGED <<del, t_idx, s_idx, ticks, prev_ticks, run_timer, slow_sig, timer_lock, slow_timer_lock, running_timer, running_timer2>>
      /\ proc[p].at = "allowed" /\ del[p].at = "no"
      /\ (\A q \in Procs \ {p} : del[q].tl # proc[p].tl)
  BY Zenon DEF HandlerReinit, NotBeingDeleted, At, Goto, locks, rest, clock
<1> DEFINE r == [tl[x] EXCEPT !.onSlow = FALSE, !.active = FALSE]
<1>2. r \in TimerRec /\ ~r.onSlow /\ r.list = NoList /\ r.list.h = "none"
  <2>1. tl[x] \in TimerRec /\ tl[x].list = NoList
    BY <1>0, Types, Zenon DEF linked
  <2>2. r \in TimerRec /\ ~r.onSlow /\ r.list = tl[x].list
    BY <2>1, Zenon DEF TimerRec
  <2> QED
    BY <2>1, <2>2, ListHeads, Zenon
<1>3. /\ tl' \in [Timers -> TimerRec] /\ tl'[x] = r
      /\ \A y \in Timers \ {x} : tl'[y] = tl[y]
  BY <1>2, Types, <1>0, Zenon DEF HandlerReinit, NotBeingDeleted, At, Goto, locks, rest, clock
<1> HIDE DEF r
<1>4. /\ proc' \in [{"main", "slow"} -> ProcRec]
      /\ proc'[p].at = "ended" /\ proc'[p].tl = x
      /\ \A q \in {"main", "slow"} \ {p} : proc'[q] = proc[q]
  BY Types, <1>0, Zenon DEF HandlerReinit, NotBeingDeleted, At, Goto, locks, rest, clock, ProcRec
<1>5. TypeOK'
  BY <1>1, <1>3, <1>4, Zenon DEF DelSafe, TypeOK, Procs
<1>6. ProcInv'
  BY <1>1, <1>4, NamesAssumption DEF DelSafe, ProcInv, MainAts, SlowAts, WithTimer
<1>7. LockInv'
  BY <1>1, <1>4, NamesAssumption, Zenon DEF DelSafe, LockInv, Procs
<1>8. RingIsConsistent'
  BY <1>1, <1>2, <1>3, RingStays, Zenon DEF DelSafe
<1>9. SlowInv'
  BY <1>1, <1>4, Zenon DEF DelSafe, SlowInv, SlowAts
<1>10. \A y \in Timers \ {x} : Untouched(y)
  BY <1>1, <1>3, <1>4, SameTimers, Zenon DEF Untouched, Busy, RunsIn
<1>11. FlagInv(x)'
  BY <1>0, <1>1, <1>2, <1>3, <1>4, ListHeads DEF DelSafe, FlagInv, Busy, RunsIn, linked, Wheel
<1>12. ASSUME NEW q \in Procs, del[q].tl = x PROVE DelInv(q)'
  BY <1>0, <1>1, <1>12, NamesAssumption, Zenon DEF DelSafe, DelInv
<1>13. ASSUME NEW q \in Procs, del[q].tl # x
       PROVE  /\ del'[q] = del[q]
              /\ del[q].at # "no" /\ q \in {"main", "slow"} => proc'[q] = proc[q]
  BY <1>1, <1>4, <1>13, Zenon DEF DelSafe, DelInv
<1>14. (\A y \in Timers : FlagInv(y)') /\ (\A q \in Procs : DelInv(q)')
  BY <1>1, <1>10, <1>11, <1>12, <1>13, OneTouched, Zenon
<1> QED
  BY <1>5, <1>6, <1>7, <1>8, <1>9, <1>14, Zenon DEF DelSafe

(* f returns an interval: the timer is still marked as running. *)
LEMMA ReturnsAgain ==
  ASSUME NEW p \in {"main", "slow"}
  PROVE  DelSafe /\ ReturnsInterval(p) => DelSafe'
<1> SUFFICES ASSUME DelSafe, ReturnsInterval(p) PROVE DelSafe'
  OBVIOUS
<1>1. /\ UNCHANGED <<del, t_idx, s_idx, ticks, prev_ticks, run_timer, slow_sig, timer_lock,
                      slow_timer_lock, running_timer, running_timer2>>
      /\ proc[p].at = "f" /\ del[p].at = "no"
  BY Zenon DEF ReturnsInterval, At, locks, rest, clock
<1>2. /\ proc' \in [{"main", "slow"} -> ProcRec]
      /\ proc'[p].at = "readd" /\ proc'[p].tl = proc[p].tl
      /\ \A q \in {"main", "slow"} \ {p} : proc'[q] = proc[q]
  BY Types DEF ReturnsInterval, Goto, ProcRec
<1>3. PICK x \in Timers, f \in BOOLEAN : tl' = [tl EXCEPT ![x].fast = f]
  <2>1. proc[p].tl \in Timers
    BY <1>1, Types, Zenon DEF DelSafe, ProcInv, ProcRec, WithTimer
  <2>2. tl[proc[p].tl].fast \in BOOLEAN
    BY <2>1, Types, Zenon DEF TimerRec
  <2> QED
    BY <2>1, <2>2, Zenon DEF ReturnsInterval
<1>4. /\ tl' \in [Timers -> TimerRec]
      /\ \A y \in Timers : /\ tl'[y].list = tl[y].list /\ tl'[y].active = tl[y].active
                           /\ tl'[y].onSlow = tl[y].onSlow /\ tl'[y].slow_idx = tl[y].slow_idx
  BY <1>3, Types DEF TimerRec
<1>5. TypeOK'
  BY <1>1, <1>2, <1>4, Zenon DEF DelSafe, TypeOK
<1>6. ProcInv'
  <2>1. CASE p = "main"
    BY <1>1, <1>2, <2>1 DEF DelSafe, ProcInv, MainAts, WithTimer
  <2>2. CASE p = "slow"
    BY <1>1, <1>2, <2>2, Zenon DEF DelSafe, ProcInv, SlowAts, WithTimer
  <2> QED
    BY <2>1, <2>2, Zenon
<1>7. LockInv' /\ SlowInv'
  BY <1>1, <1>2, Zenon DEF DelSafe, LockInv, SlowInv, SlowAts
<1>8. RingIsConsistent'
  BY <1>1, <1>4, Zenon DEF DelSafe, RingIsConsistent
<1>9. \A y \in Timers : SameTimer(y)
  BY <1>4, Zenon DEF SameTimer, linked
<1>10. (\A y \in Timers : FlagInv(y)') /\ (\A q \in Procs : DelInv(q)')
  BY <1>1, <1>2, <1>9, ProcMoves, Zenon
<1> QED
  BY <1>5, <1>6, <1>7, <1>8, <1>10, Zenon DEF DelSafe

(* timer_list_expire: the timer goes back to the wheel, in one step with UNSET_RUNNING. *)
LEMMA MainReadds ==
  DelSafe /\ MainReadd => DelSafe'
<1> SUFFICES ASSUME DelSafe, MainReadd PROVE DelSafe'
  OBVIOUS
<1>0. PICK x \in Timers : x = proc["main"].tl /\ tl[x].active /\ ~linked(x) /\ ~Busy("slow", x)
  BY Types, Zenon DEF MainReadd, At, DelSafe, ProcInv, ProcRec, WithTimer, FlagInv, Busy
<1>d. PICK d \in Deltas : tl' = timer_add_at(x, proc["main"].t, d)
  BY <1>0, Zenon DEF MainReadd
<1>1. /\ UNCHANGED <<del, t_idx, s_idx, ticks, prev_ticks, run_timer, slow_sig, slow_timer_lock, running_timer2>>
      /\ timer_lock = None /\ timer_lock' = "main" /\ running_timer' = None
      /\ proc["main"].at = "readd"
  BY Zenon DEF MainReadd, At, SetRunning, clock
<1> DEFINE r == AddAt(tl[x], proc["main"].t, d)
<1>2. /\ r \in TimerRec /\ r.list.h \in Wheel /\ r.list.h \notin {"slow", "none"}
      /\ ~r.onSlow /\ r.active
  <2>1. tl[x] \in TimerRec /\ proc["main"].t \in 0..(TickMod - 1)
    BY Types, Zenon DEF ProcRec
  <2>2. r \in TimerRec /\ r.list.h \in Wheel /\ ~r.onSlow /\ r.active
    BY <1>0, <2>1, AddedRec, Zenon
  <2> QED
    BY <2>2, Zenon DEF Wheel
<1>3. /\ tl' \in [Timers -> TimerRec] /\ tl'[x] = r
      /\ \A y \in Timers \ {x} : tl'[y] = tl[y]
  BY <1>2, Types, <1>0, <1>d, Zenon DEF MainReadd, At, SetRunning, clock, timer_add_at, AddAt
<1> HIDE DEF r
<1>4. /\ proc' \in [{"main", "slow"} -> ProcRec]
      /\ proc'["main"].at = "expire" /\ proc'["main"].tl = None /\ proc'["slow"] = proc["slow"]
  BY Types, <1>0, <1>d, Zenon DEF MainReadd, At, SetRunning, clock, ProcRec
<1>5. TypeOK'
  BY <1>1, <1>3, <1>4, Zenon DEF DelSafe, TypeOK, Procs
<1>6. ProcInv'
  BY <1>1, <1>4, <1>0, NamesAssumption, Zenon DEF DelSafe, ProcInv, MainAts, SlowAts, WithTimer
<1>7. LockInv'
  BY <1>1, <1>4, NamesAssumption, Zenon DEF DelSafe, LockInv, Procs
<1>8. RingIsConsistent'
  BY <1>1, <1>2, <1>3, RingStays, Zenon DEF DelSafe
<1>9. SlowInv'
  BY <1>1, <1>4, Zenon DEF DelSafe, SlowInv, SlowAts
<1>10. \A y \in Timers \ {x} : Untouched(y)
  BY <1>1, <1>3, <1>4, SameTimers, Zenon DEF Untouched, Busy, RunsIn
<1>11. FlagInv(x)'
  <2>1. linked(x)' /\ ~Busy("main", x)' /\ ~Busy("slow", x)'
    BY <1>0, <1>1, <1>2, <1>3, <1>4, ListHeads, Zenon DEF linked, Busy
  <2> QED
    BY <1>2, <1>3, <2>1, Zenon DEF FlagInv, Busy, RunsIn
<1>12. ASSUME NEW q \in Procs, del[q].tl = x PROVE DelInv(q)'
  <2>1. Running(x) /\ Busy("main", x)
    BY <1>0, <1>1, Zenon DEF Running, RunsIn, Busy
  <2>2. del[q].at \in {"slow", "main"} /\ q # "main"
    BY <1>1, <1>12, <2>1, NamesAssumption, Types, Zenon DEF DelSafe, DelInv, DelRec
  <2> QED
    BY <1>1, <1>2, <1>3, <1>4, <1>12, <2>2, DelUndecided, Zenon
<1>13. ASSUME NEW q \in Procs, del[q].tl # x
       PROVE  /\ del'[q] = del[q]
              /\ del[q].at # "no" /\ q \in {"main", "slow"} => proc'[q] = proc[q]
  BY <1>1, <1>4, <1>13, Zenon DEF DelSafe, DelInv
<1>14. (\A y \in Timers : FlagInv(y)') /\ (\A q \in Procs : DelInv(q)')
  BY <1>1, <1>10, <1>11, <1>12, <1>13, OneTouched, Zenon
<1> QED
  BY <1>5, <1>6, <1>7, <1>8, <1>9, <1>14, Zenon DEF DelSafe

(* slow_timer_main: the timer goes back to the wheel, and is still marked as running. *)
LEMMA SlowReadds ==
  DelSafe /\ SlowReadd => DelSafe'
<1> SUFFICES ASSUME DelSafe, SlowReadd PROVE DelSafe'
  OBVIOUS
<1>0. PICK x \in Timers : x = proc["slow"].tl /\ tl[x].active /\ ~linked(x) /\ ~Busy("main", x)
  BY Types, Zenon DEF SlowReadd, At, DelSafe, ProcInv, ProcRec, WithTimer, FlagInv, Busy
<1>d. PICK d \in Deltas : tl' = timer_add_at(x, ticks, d)
  BY <1>0, Zenon DEF SlowReadd
<1>1. /\ UNCHANGED <<del, t_idx, s_idx, ticks, prev_ticks, run_timer, slow_sig, timer_lock, slow_timer_lock, running_timer, running_timer2>>
      /\ proc["slow"].at = "readd"
  BY Zenon DEF SlowReadd, At, Goto, locks, rest, clock
<1> DEFINE r == AddAt(tl[x], ticks, d)
<1>2. /\ r \in TimerRec /\ r.list.h \in Wheel /\ r.list.h \notin {"slow", "none"}
      /\ ~r.onSlow /\ r.active
  <2>1. tl[x] \in TimerRec /\ ticks \in 0..(TickMod - 1)
    BY Types, Zenon DEF ProcRec
  <2>2. r \in TimerRec /\ r.list.h \in Wheel /\ ~r.onSlow /\ r.active
    BY <1>0, <2>1, AddedRec, Zenon
  <2> QED
    BY <2>2, Zenon DEF Wheel
<1>3. /\ tl' \in [Timers -> TimerRec] /\ tl'[x] = r
      /\ \A y \in Timers \ {x} : tl'[y] = tl[y]
  BY <1>2, Types, <1>0, <1>d, Zenon DEF SlowReadd, At, Goto, locks, rest, clock, timer_add_at, AddAt
<1> HIDE DEF r
<1>4. /\ proc' \in [{"main", "slow"} -> ProcRec]
      /\ proc'["slow"].at = "readded" /\ proc'["slow"].tl = x /\ proc'["main"] = proc["main"]
  BY Types, <1>0, <1>d, Zenon DEF SlowReadd, At, Goto, locks, rest, clock, ProcRec
<1>5. TypeOK'
  BY <1>1, <1>3, <1>4, Zenon DEF DelSafe, TypeOK, Procs
<1>6. ProcInv'
  BY <1>1, <1>4, <1>0, NamesAssumption, Zenon DEF DelSafe, ProcInv, MainAts, SlowAts, WithTimer
<1>7. LockInv'
  BY <1>1, <1>4, NamesAssumption, Zenon DEF DelSafe, LockInv, Procs
<1>8. RingIsConsistent'
  BY <1>1, <1>2, <1>3, RingStays, Zenon DEF DelSafe
<1>9. SlowInv'
  BY <1>1, <1>4, Zenon DEF DelSafe, SlowInv, SlowAts
<1>10. \A y \in Timers \ {x} : Untouched(y)
  BY <1>1, <1>3, <1>4, SameTimers, Zenon DEF Untouched, Busy, RunsIn
<1>11. FlagInv(x)'
  <2>1. linked(x)' /\ ~Busy("main", x)' /\ ~Busy("slow", x)'
    BY <1>0, <1>1, <1>2, <1>3, <1>4, ListHeads, Zenon DEF linked, Busy
  <2> QED
    BY <1>2, <1>3, <2>1 DEF FlagInv, Busy, RunsIn
<1>12. ASSUME NEW q \in Procs, del[q].tl = x PROVE DelInv(q)'
  <2>1. Running(x) /\ Busy("slow", x)
    BY <1>0, <1>1, Zenon DEF Running, RunsIn, Busy
  <2>2. del[q].at \in {"slow", "main"} /\ q # "slow"
    BY <1>1, <1>12, <2>1, NamesAssumption, Types, Zenon DEF DelSafe, DelInv, DelRec
  <2> QED
    BY <1>1, <1>2, <1>3, <1>4, <1>12, <2>2, DelUndecided, Zenon
<1>13. ASSUME NEW q \in Procs, del[q].tl # x
       PROVE  /\ del'[q] = del[q]
              /\ del[q].at # "no" /\ q \in {"main", "slow"} => proc'[q] = proc[q]
  BY <1>1, <1>4, <1>13, Zenon DEF DelSafe, DelInv
<1>14. (\A y \in Timers : FlagInv(y)') /\ (\A q \in Procs : DelInv(q)')
  BY <1>1, <1>10, <1>11, <1>12, <1>13, OneTouched, Zenon
<1> QED
  BY <1>5, <1>6, <1>7, <1>8, <1>9, <1>14 DEF DelSafe

(* timer_list_expire: a fast timer leaves the wheel and its handler is called. *)
LEMMA FiresFast ==
  ASSUME NEW x \in Timers
  PROVE  DelSafe /\ ExpireFast(x) => DelSafe'
<1> SUFFICES ASSUME DelSafe, ExpireFast(x) PROVE DelSafe'
  OBVIOUS
<1>1. /\ UNCHANGED <<del, t_idx, s_idx, ticks, prev_ticks, run_timer, slow_sig, slow_timer_lock, running_timer2>>
      /\ timer_lock' = None /\ running_timer' = x /\ proc["main"].at = "expire"
  BY Zenon DEF ExpireFast, At, SetRunning, clock
<1> DEFINE r == Detached(tl[x])
<1>2. /\ r \in TimerRec /\ r.list = NoList /\ r.list.h = "none" /\ r.active /\ ~r.onSlow
      /\ tl[x].list.h = "expired" /\ linked(x)
  <2>1. tl[x] \in TimerRec /\ tl[x].list.h = "expired" /\ linked(x)
    BY Types, ListHeads, Zenon DEF ExpireFast, linked
  <2>2. tl[x].active /\ ~tl[x].onSlow
    BY <2>1, Zenon DEF DelSafe, FlagInv, Wheel
  <2>3. 0 \in 0..(TickMod - 1) /\ NoList \in Lists
    BY Sizes, ListTypes
  <2>4. r \in TimerRec /\ r.list = NoList /\ r.active = tl[x].active /\ r.onSlow = tl[x].onSlow
    BY <2>1, <2>3, Zenon DEF TimerRec, Detached
  <2> QED
    BY <2>1, <2>2, <2>4, ListHeads, Zenon
<1>3. /\ tl' \in [Timers -> TimerRec] /\ tl'[x] = r
      /\ \A y \in Timers \ {x} : tl'[y] = tl[y]
  BY <1>2, Types, Zenon DEF ExpireFast, At, SetRunning, clock
<1> HIDE DEF r
<1>4. /\ proc' \in [{"main", "slow"} -> ProcRec]
      /\ proc'["main"].at = "f" /\ proc'["main"].tl = x /\ proc'["slow"] = proc["slow"]
  BY Types, Zenon DEF ExpireFast, At, SetRunning, clock, ProcRec
<1>5. TypeOK'
  BY <1>1, <1>3, <1>4, Zenon DEF DelSafe, TypeOK, Procs
<1>6. ProcInv'
  BY <1>1, <1>4, NamesAssumption, Zenon DEF DelSafe, ProcInv, MainAts, SlowAts, WithTimer
<1>7. LockInv'
  BY <1>1, <1>4, NamesAssumption, Zenon DEF DelSafe, LockInv, Procs, DelInv
<1>8. RingIsConsistent'
  BY <1>1, <1>2, <1>3, RingStays, Zenon DEF DelSafe
<1>9. SlowInv'
  BY <1>1, <1>4, Zenon DEF DelSafe, SlowInv, SlowAts
<1>10. \A y \in Timers \ {x} : Untouched(y)
  BY <1>1, <1>3, <1>4, SameTimers, Zenon DEF Untouched, Busy, RunsIn
<1>11. FlagInv(x)'
  <2>1. ~linked(x)' /\ ~Busy("slow", x)'
    BY <1>1, <1>2, <1>3, <1>4 DEF DelSafe, FlagInv, linked, Busy
  <2> QED
    BY <1>1, <1>2, <1>3, <1>4, <2>1, Zenon DEF FlagInv, Busy, RunsIn, Wheel
<1>12. ASSUME NEW q \in Procs, del[q].tl = x PROVE DelInv(q)'
  <2>1. del[q].at \in {"slow", "main"} /\ (q \in {"main", "slow"} => proc'[q] = proc[q])
    BY <1>1, <1>2, <1>4, <1>12, LockedOut, Zenon
  <2> QED
    BY <1>1, <1>2, <1>3, <1>12, <2>1, DelUndecided, Zenon
<1>13. ASSUME NEW q \in Procs, del[q].tl # x
       PROVE  /\ del'[q] = del[q]
              /\ del[q].at # "no" /\ q \in {"main", "slow"} => proc'[q] = proc[q]
  BY <1>1, <1>4, <1>13, Zenon DEF DelSafe, DelInv
<1>14. (\A y \in Timers : FlagInv(y)') /\ (\A q \in Procs : DelInv(q)')
  BY <1>1, <1>10, <1>11, <1>12, <1>13, OneTouched, Zenon
<1> QED
  BY <1>5, <1>6, <1>7, <1>8, <1>9, <1>14 DEF DelSafe

(* timer_list_expire: a slow timer moves from the wheel to the slow list that is being filled. *)
LEMMA ExpiresSlow ==
  ASSUME NEW x \in Timers
  PROVE  DelSafe /\ ExpireSlow(x) => DelSafe'
<1> SUFFICES ASSUME DelSafe, ExpireSlow(x) PROVE DelSafe'
  OBVIOUS
<1>1. /\ UNCHANGED <<del, t_idx, s_idx, ticks, prev_ticks, run_timer, slow_sig, timer_lock, slow_timer_lock, running_timer, running_timer2>>
      /\ proc["main"].at = "expire"
  BY Zenon DEF ExpireSlow, At, locks, rest, clock
<1> DEFINE r == [tl[x] EXCEPT !.list = SlowList(t_idx), !.onSlow = TRUE, !.slow_idx = t_idx]
<1>2. /\ r \in TimerRec /\ r.list = SlowList(t_idx) /\ r.list.h = "slow" /\ r.active /\ r.onSlow
      /\ r.slow_idx = t_idx /\ tl[x].list.h = "expired" /\ linked(x)
  <2>1. tl[x] \in TimerRec /\ tl[x].list.h = "expired" /\ linked(x)
    BY Types, ListHeads, Zenon DEF ExpireSlow, linked
  <2>2. tl[x].active /\ ~tl[x].onSlow
    BY <2>1 DEF DelSafe, FlagInv, Wheel
  <2>3. t_idx \in 0..(IdxMod - 1) /\ SlowList(t_idx) \in Lists
    BY Types, ListTypes, Zenon
  <2>4. /\ r \in TimerRec /\ r.list = SlowList(t_idx) /\ r.active = tl[x].active /\ r.onSlow
        /\ r.slow_idx = t_idx
    BY <2>1, <2>3, Zenon DEF TimerRec
  <2> QED
    BY <2>1, <2>2, <2>4, ListHeads, Zenon
<1>3. /\ tl' \in [Timers -> TimerRec] /\ tl'[x] = r
      /\ \A y \in Timers \ {x} : tl'[y] = tl[y]
  BY <1>2, Types, Zenon DEF ExpireSlow, At, locks, rest, clock
<1> HIDE DEF r
<1>4. /\ proc' \in [{"main", "slow"} -> ProcRec]
      /\ proc' = proc
  BY Types, Zenon DEF ExpireSlow, At, locks, rest, clock, ProcRec
<1>5. TypeOK'
  BY <1>1, <1>3, <1>4, Zenon DEF DelSafe, TypeOK, Procs
<1>6. ProcInv'
  BY <1>1, <1>4, NamesAssumption, Zenon DEF DelSafe, ProcInv, MainAts, SlowAts, WithTimer
<1>7. LockInv'
  BY <1>1, <1>4, NamesAssumption, Zenon DEF DelSafe, LockInv, Procs
<1>8. RingIsConsistent'
  <2>1. (t_idx - s_idx) % IdxMod \in Int
    BY Types, RingRange
  <2>2. /\ (t_idx - s_idx) % IdxMod < SlowLists
        /\ \A y \in Timers \ {x} : tl[y].list.h = "slow" =>
             /\ tl[y].onSlow /\ tl[y].list = SlowList(tl[y].slow_idx)
             /\ (tl[y].slow_idx - s_idx) % IdxMod <= (t_idx - s_idx) % IdxMod
    BY Zenon DEF DelSafe, RingIsConsistent
  <2> QED
    BY <1>1, <1>2, <1>3, <2>1, <2>2 DEF RingIsConsistent
<1>9. SlowInv'
  BY <1>1, <1>4, Zenon DEF DelSafe, SlowInv, SlowAts
<1>10. \A y \in Timers \ {x} : Untouched(y)
  BY <1>1, <1>3, <1>4, SameTimers, Zenon DEF Untouched, Busy, RunsIn
<1>11. FlagInv(x)'
  <2>1. linked(x)' /\ ~Busy("main", x)' /\ ~Busy("slow", x)'
    BY <1>1, <1>2, <1>3, <1>4, ListHeads, Zenon DEF DelSafe, FlagInv, linked, Busy
  <2> QED
    BY <1>2, <1>3, <2>1, Zenon DEF FlagInv, Busy, RunsIn, Wheel
<1>12. ASSUME NEW q \in Procs, del[q].tl = x PROVE DelInv(q)'
  <2>1. del[q].at \in {"slow", "main"} /\ (q \in {"main", "slow"} => proc'[q] = proc[q])
    BY <1>1, <1>2, <1>4, <1>12, LockedOut, Zenon
  <2> QED
    BY <1>1, <1>2, <1>3, <1>12, <2>1, DelUndecided, Zenon
<1>13. ASSUME NEW q \in Procs, del[q].tl # x
       PROVE  /\ del'[q] = del[q]
              /\ del[q].at # "no" /\ q \in {"main", "slow"} => proc'[q] = proc[q]
  BY <1>1, <1>4, <1>13, Zenon DEF DelSafe, DelInv
<1>14. (\A y \in Timers : FlagInv(y)') /\ (\A q \in Procs : DelInv(q)')
  BY <1>1, <1>10, <1>11, <1>12, <1>13, OneTouched, Zenon
<1> QED
  BY <1>5, <1>6, <1>7, <1>8, <1>9, <1>14 DEF DelSafe

(* slow_timer_main: a timer leaves the slow list and its handler is called. *)
LEMMA SlowFires ==
  ASSUME NEW x \in Timers
  PROVE  DelSafe /\ SlowRuns(x) => DelSafe'
<1> SUFFICES ASSUME DelSafe, SlowRuns(x) PROVE DelSafe'
  OBVIOUS
<1>1. /\ UNCHANGED <<del, t_idx, s_idx, ticks, prev_ticks, run_timer, slow_sig, timer_lock, running_timer>>
      /\ slow_timer_lock' = None /\ running_timer2' = x /\ proc["slow"].at = "scan"
      /\ s_idx # t_idx
  BY Zenon DEF SlowRuns, At, SetRunning, clock
<1> DEFINE r == Detached(tl[x])
<1>2. /\ r \in TimerRec /\ r.list = NoList /\ r.list.h = "none" /\ r.active /\ r.onSlow
      /\ r.slow_idx = s_idx /\ tl[x].list.h = "slow" /\ linked(x) /\ tl[x].slow_idx = s_idx
  <2>1. tl[x] \in TimerRec /\ tl[x].list.h = "slow" /\ linked(x) /\ tl[x].list = SlowList(s_idx)
    BY Types, ListHeads, Zenon DEF SlowRuns, linked
  <2>2. tl[x].active /\ tl[x].onSlow
    BY <2>1, Zenon DEF DelSafe, FlagInv, RingIsConsistent
  <2>3. tl[x].slow_idx = s_idx
    <3>1. /\ {tl[x].slow_idx, s_idx, t_idx} \subseteq 0..(IdxMod - 1)
          /\ SlowList(tl[x].slow_idx) = SlowList(s_idx)
          /\ (tl[x].slow_idx - s_idx) % IdxMod <= (t_idx - s_idx) % IdxMod
          /\ (t_idx - s_idx) % IdxMod < SlowLists
      BY <2>1, Types, Zenon DEF DelSafe, TimerRec, RingIsConsistent
    <3>2. SlowLists \in Nat \ {0} /\ IdxMod \in Nat \ {0} /\ s_idx - s_idx = 0
      BY Sizes, Types
    <3>3. (s_idx - s_idx) % IdxMod < SlowLists
      BY <3>2
    <3>4. (tl[x].slow_idx - s_idx) % IdxMod < SlowLists
      BY <3>1, <3>2, RingRange
    <3> QED
      BY <3>1, <3>3, <3>4, RingLists, Zenon
  <2>4. 0 \in 0..(TickMod - 1) /\ NoList \in Lists
    BY Sizes, ListTypes
  <2>5. /\ r \in TimerRec /\ r.list = NoList /\ r.active = tl[x].active /\ r.onSlow = tl[x].onSlow
        /\ r.slow_idx = tl[x].slow_idx
    BY <2>1, <2>4, Zenon DEF TimerRec, Detached
  <2> QED
    BY <2>1, <2>2, <2>3, <2>5, ListHeads, Zenon
<1>3. /\ tl' \in [Timers -> TimerRec] /\ tl'[x] = r
      /\ \A y \in Timers \ {x} : tl'[y] = tl[y]
  BY <1>2, Types, Zenon DEF SlowRuns, At, SetRunning, clock
<1> HIDE DEF r
<1>4. /\ proc' \in [{"main", "slow"} -> ProcRec]
      /\ proc'["slow"].at = "f" /\ proc'["slow"].tl = x /\ proc'["main"] = proc["main"]
  BY Types, Zenon DEF SlowRuns, At, SetRunning, clock, ProcRec
<1>5. TypeOK'
  BY <1>1, <1>3, <1>4, Zenon DEF DelSafe, TypeOK, Procs
<1>6. ProcInv'
  BY <1>1, <1>4, NamesAssumption, Zenon DEF DelSafe, ProcInv, MainAts, SlowAts, WithTimer
<1>7. LockInv'
  BY <1>1, <1>4, NamesAssumption DEF DelSafe, LockInv, Procs, DelInv
<1>8. RingIsConsistent'
  BY <1>1, <1>2, <1>3, RingStays, Zenon DEF DelSafe
<1>9. SlowInv'
  BY <1>1, <1>4, Zenon DEF DelSafe, SlowInv, SlowAts
<1>10. \A y \in Timers \ {x} : Untouched(y)
  BY <1>1, <1>3, <1>4, SameTimers DEF Untouched, Busy, RunsIn
<1>11. FlagInv(x)'
  <2>1. ~linked(x)' /\ ~Busy("main", x)'
    BY <1>1, <1>2, <1>3, <1>4 DEF DelSafe, FlagInv, linked, Busy
  <2> QED
    BY <1>1, <1>2, <1>3, <1>4, <2>1, Zenon DEF FlagInv, Busy, RunsIn, Wheel
<1>12. ASSUME NEW q \in Procs, del[q].tl = x PROVE DelInv(q)'
  <2>1. del[q].at \in {"slow", "main"} /\ (q \in {"main", "slow"} => proc'[q] = proc[q])
    BY <1>1, <1>2, <1>4, <1>12, LockedOut, Zenon
  <2> QED
    BY <1>1, <1>2, <1>3, <1>12, <2>1, DelUndecided, Zenon
<1>13. ASSUME NEW q \in Procs, del[q].tl # x
       PROVE  /\ del'[q] = del[q]
              /\ del[q].at # "no" /\ q \in {"main", "slow"} => proc'[q] = proc[q]
  BY <1>1, <1>4, <1>13, Zenon DEF DelSafe, DelInv
<1>14. (\A y \in Timers : FlagInv(y)') /\ (\A q \in Procs : DelInv(q)')
  BY <1>1, <1>10, <1>11, <1>12, <1>13, OneTouched, Zenon
<1> QED
  BY <1>5, <1>6, <1>7, <1>8, <1>9, <1>14 DEF DelSafe

(* timer_del: the timer leaves its list, and the lock is given back. *)
LEMMA Detaches ==
  ASSUME NEW p \in Procs
  PROVE  DelSafe /\ DelDetach(p) => DelSafe'
<1> SUFFICES ASSUME DelSafe, DelDetach(p) PROVE DelSafe'
  BY Zenon
<1>0. PICK x \in Timers : x = del[p].tl
  BY Types, Zenon DEF DelDetach, DelSafe, DelInv, DelRec
<1>d. PICK d \in {NoDel, [at |-> "removed", tl |-> x]} :
        /\ del' = [del EXCEPT ![p] = d]
        /\ d # NoDel => linked(x) /\ p \in Workers
  BY <1>0, Zenon DEF DelDetach, DelGoto, DelReturns
<1>1. /\ UNCHANGED <<t_idx, s_idx, ticks, prev_ticks, run_timer, slow_sig, running_timer, running_timer2>>
      /\ timer_lock' = IF del[p].at = "mainrm" THEN None ELSE timer_lock
      /\ slow_timer_lock' = IF del[p].at = "slowrm" THEN None ELSE slow_timer_lock
      /\ del[p].at \in {"slowrm", "mainrm"} /\ proc' = proc
  BY Zenon DEF DelDetach, DelGoto, DelReturns, rest, clock
<1> DEFINE r == Detached(tl[x])
<1>2. /\ r \in TimerRec /\ r.list = NoList /\ r.list.h = "none" /\ r.active = tl[x].active
      /\ r.onSlow = tl[x].onSlow /\ r.slow_idx = tl[x].slow_idx
  <2>1. tl[x] \in TimerRec /\ 0 \in 0..(TickMod - 1) /\ NoList \in Lists
    BY Types, Sizes, ListTypes
  <2>2. /\ r \in TimerRec /\ r.list = NoList /\ r.active = tl[x].active
        /\ r.onSlow = tl[x].onSlow /\ r.slow_idx = tl[x].slow_idx
    BY <2>1, Zenon DEF TimerRec, Detached
  <2> QED
    BY <2>2, ListHeads, Zenon
<1>3. /\ tl' \in [Timers -> TimerRec] /\ tl'[x] = r
      /\ \A y \in Timers \ {x} : tl'[y] = tl[y]
  BY <1>2, Types, <1>0, <1>d, Zenon DEF DelDetach, DelGoto, DelReturns, rest, clock
<1> HIDE DEF r
<1>4. /\ proc' \in [{"main", "slow"} -> ProcRec]
      /\ proc' = proc /\ del' \in [Procs -> DelRec]
      /\ del'[p] = d /\ (\A q \in Procs \ {p} : del'[q] = del[q])
  BY Types, <1>0, <1>d DEF DelDetach, DelGoto, DelReturns, rest, clock, ProcRec, DelRec, NoDel
<1>5. TypeOK'
  BY <1>1, <1>3, <1>4, Zenon DEF DelSafe, TypeOK, Procs
<1>6. ProcInv'
  BY <1>1, <1>4, NamesAssumption, Zenon DEF DelSafe, ProcInv, MainAts, SlowAts, WithTimer
<1>7. LockInv'
  BY <1>1, <1>4, NamesAssumption DEF DelSafe, LockInv, Procs, DelInv, NoDel
<1>8. RingIsConsistent'
  BY <1>1, <1>2, <1>3, RingStays, Zenon DEF DelSafe
<1>9. SlowInv'
  BY <1>1, <1>4, Zenon DEF DelSafe, SlowInv, SlowAts
<1>10. \A y \in Timers \ {x} : Untouched(y)
  BY <1>1, <1>3, <1>4, SameTimers, Zenon DEF Untouched, Busy, RunsIn
<1>11. FlagInv(x)'
  <2>1. /\ ~linked(x)'
        /\ \A q \in {"main", "slow"} : (Busy(q, x)' <=> Busy(q, x)) /\ (RunsIn(q, x)' <=> RunsIn(q, x))
    BY <1>2, <1>3, <1>4, Zenon DEF linked, Busy, RunsIn
  <2>2. FlagInv(x)
    BY Zenon DEF DelSafe
  <2> QED
    BY <1>1, <1>2, <1>3, <2>1, <2>2, Zenon DEF FlagInv, Wheel
<1>12. ASSUME NEW q \in Procs, del[q].tl = x PROVE DelInv(q)'
  <2>1. DelInv(q) /\ x # None
    BY NamesAssumption, Zenon DEF DelSafe
  <2>2. CASE q # p
    <3>1. del'[q] = del[q]
      BY <1>4, <2>2, Zenon
    <3> QED
      BY <1>1, <1>2, <1>3, <1>4, <1>12, <2>1, <3>1, Zenon DEF DelInv, Busy, Running, RunsIn, linked
  <2>3. CASE q = p /\ d = NoDel
    BY <1>4, <2>3 DEF DelInv, NoDel
  <2>4. CASE q = p /\ d # NoDel
    <3>1. del'[q].at = "removed" /\ del'[q].tl = x /\ p \notin {"main", "slow"}
      BY <1>d, <1>4, <2>4, NamesAssumption
    <3>2. ~Busy("main", x) /\ ~Busy("slow", x) /\ tl[x].active
      BY <1>d, <2>4, Zenon DEF DelSafe, FlagInv
    <3> QED
      BY <1>2, <1>3, <1>4, <2>1, <2>4, <3>1, <3>2, Zenon DEF DelInv, Busy, linked
  <2> QED
    BY <2>2, <2>3, <2>4, Zenon
<1>13. ASSUME NEW q \in Procs, del[q].tl # x
       PROVE  /\ del'[q] = del[q]
              /\ del[q].at # "no" /\ q \in {"main", "slow"} => proc'[q] = proc[q]
  BY <1>1, <1>4, <1>13, <1>0, Zenon DEF NoDel
<1>14. (\A y \in Timers : FlagInv(y)') /\ (\A q \in Procs : DelInv(q)')
  BY <1>1, <1>10, <1>11, <1>12, <1>13, OneTouched, Zenon
<1> QED
  BY <1>5, <1>6, <1>7, <1>8, <1>9, <1>14, Zenon DEF DelSafe

-----------------------------------------------------------------------------
(* The walk of the wheel, the ring, and the tests of timer_del.               *)

(* timer_run for a missed tick: timers stay in the wheel, or expire. *)
LEMMA TickMovesTimers ==
  ASSUME DelSafe, MissedTick
  PROVE  /\ tl' \in [Timers -> TimerRec]
         /\ \A x \in Timers : SameTimer(x) /\ (tl'[x].list.h = "slow" => tl'[x].list = tl[x].list)
<1> DEFINE t == (prev_ticks + 1) % TickMod
<1>1. tl' \in [Timers -> TimerRec] /\ \A x \in Timers : Moved(tl[x], tl'[x])
  <2>1. tl \in [Timers -> TimerRec] /\ t \in 0..(TickMod - 1)
    BY Ranges, Types, Zenon
  <2>2. tl' = timer_run(tl, t)
    BY Zenon DEF MissedTick
  <2> HIDE DEF t
  <2> QED
    BY <2>1, <2>2, TimerRun, Zenon
<1>2. ASSUME NEW x \in Timers
      PROVE  /\ tl'[x].active = tl[x].active /\ tl'[x].onSlow = tl[x].onSlow
             /\ tl'[x].slow_idx = tl[x].slow_idx
  BY <1>1, Types DEF Moved, TimerRec
<1>3. ASSUME NEW x \in Timers
      PROVE  /\ tl[x].list.h \in Wheel <=> tl'[x].list.h \in Wheel
             /\ tl[x].list.h \notin Wheel => tl'[x].list = tl[x].list
  BY <1>1, Zenon DEF Moved
<1>4. ASSUME NEW x \in Timers
      PROVE  /\ linked(x)' <=> linked(x)
             /\ tl'[x].list.h = "slow" <=> tl[x].list.h = "slow"
             /\ tl'[x].list.h = "slow" => tl'[x].list = tl[x].list
  BY <1>3, ListHeads, Zenon DEF linked, Wheel
<1> QED
  BY <1>1, <1>2, <1>3, <1>4, Zenon DEF SameTimer

(* ... and the main process goes on with the walk, or ends it. *)
LEMMA TickMovesMain ==
  ASSUME DelSafe, MissedTick
  PROVE  /\ proc["main"].at = "walk" /\ proc' \in [{"main", "slow"} -> ProcRec]
         /\ proc'["main"].at \in {"walk", "expire"} /\ proc'["main"].tl = proc["main"].tl
         /\ proc'["slow"] = proc["slow"]
<1>1. \E a \in {"walk", "expire"}, n \in 0..(TickMod - 1) :
         proc' = [proc EXCEPT !["main"] = [@ EXCEPT !.at = a, !.t = n]]
  <2>1. proc["main"] = [proc["main"] EXCEPT !.at = "walk", !.t = proc["main"].t]
    BY Zenon DEF MissedTick, At, DelSafe, TypeOK, ProcRec
  <2>2. [proc["main"] EXCEPT !.at = "expire"]
          = [proc["main"] EXCEPT !.at = "expire", !.t = proc["main"].t]
    BY Zenon DEF DelSafe, TypeOK, ProcRec
  <2>3. /\ proc = [proc EXCEPT !["main"] = [@ EXCEPT !.at = "walk", !.t = proc["main"].t]]
        /\ [proc EXCEPT !["main"].at = "expire"]
             = [proc EXCEPT !["main"] = [@ EXCEPT !.at = "expire", !.t = proc["main"].t]]
    BY <2>1, <2>2, Zenon DEF DelSafe, TypeOK
  <2>4. ticks \in 0..(TickMod - 1) /\ proc["main"].t \in 0..(TickMod - 1)
    BY Zenon DEF DelSafe, TypeOK, ProcRec
  <2> QED
    BY <2>3, <2>4, Zenon DEF MissedTick, Goto, WalkOn
<1>2. /\ proc' \in [{"main", "slow"} -> ProcRec]
      /\ proc'["main"].at \in {"walk", "expire"} /\ proc'["main"].tl = proc["main"].tl
      /\ proc'["slow"] = proc["slow"]
  <2>1. PICK a \in {"walk", "expire"}, n \in 0..(TickMod - 1) :
           proc' = [proc EXCEPT !["main"] = [@ EXCEPT !.at = a, !.t = n]]
    BY <1>1, Zenon
  <2>2. proc \in [{"main", "slow"} -> ProcRec]
    BY Zenon DEF DelSafe, TypeOK
  <2>3. /\ proc'["main"] = [proc["main"] EXCEPT !.at = a, !.t = n]
        /\ proc'["slow"] = proc["slow"] /\ DOMAIN proc' = {"main", "slow"}
        /\ proc' = [p \in {"main", "slow"} |-> proc'[p]]
    BY <2>1, <2>2, Zenon
  <2>4. /\ proc'["main"] \in ProcRec /\ proc'["main"].at = a
        /\ proc'["main"].tl = proc["main"].tl
    BY <2>2, <2>3, Zenon DEF ProcRec
  <2> QED
    BY <2>2, <2>3, <2>4, Zenon
<1> QED
  BY <1>2, Zenon DEF MissedTick, At

LEMMA WalksWheel ==
  DelSafe /\ MissedTick => DelSafe'
<1> SUFFICES ASSUME DelSafe, MissedTick PROVE DelSafe'
  OBVIOUS
<1>1. /\ prev_ticks' \in 0..(TickMod - 1)
      /\ UNCHANGED <<ticks, run_timer, timer_lock, slow_timer_lock, running_timer, running_timer2,
                     t_idx, s_idx, slow_sig, del>>
  BY Ranges, Types, Zenon DEF MissedTick, WalkOn, locks, rest
<1>2. /\ proc["main"].at = "walk" /\ proc' \in [{"main", "slow"} -> ProcRec]
      /\ proc'["main"].at \in {"walk", "expire"} /\ proc'["main"].tl = proc["main"].tl
      /\ proc'["slow"] = proc["slow"]
  BY TickMovesMain, Zenon
<1>3. TypeOK'
  BY <1>1, <1>2, TickMovesTimers, Zenon DEF DelSafe, TypeOK
<1>4. RingIsConsistent'
  BY <1>1, TickMovesTimers, Zenon DEF DelSafe, RingIsConsistent, SameTimer
<1>5. ProcInv'
  BY <1>1, <1>2, Zenon DEF DelSafe, ProcInv, MainAts, WithTimer
<1>6. LockInv' /\ SlowInv'
  BY <1>1, <1>2, Zenon DEF DelSafe, LockInv, SlowInv
<1>7. (\A y \in Timers : FlagInv(y)') /\ (\A q \in Procs : DelInv(q)')
  BY <1>1, <1>2, TickMovesTimers, ProcMoves, Zenon
<1> QED
  BY <1>3, <1>4, <1>5, <1>6, <1>7, Zenon DEF DelSafe

(* The end of timer_handler: the next slow list is one that no timer is on. *)
LEMMA HandsOver ==
  DelSafe /\ HandOver => DelSafe'
<1> SUFFICES ASSUME DelSafe, HandOver PROVE DelSafe'
  OBVIOUS
<1>1. /\ UNCHANGED <<tl, del, ticks, prev_ticks, run_timer, slow_timer_lock, running_timer,
                     running_timer2, s_idx>>
      /\ timer_lock' = None /\ slow_sig' \in {slow_sig, TRUE} /\ proc["main"].at = "expire"
      /\ t_idx' # t_idx =>
           t_idx' = (t_idx + 1) % IdxMod /\ t_idx >= s_idx /\ t_idx - s_idx < SlowLists - 1
  BY Zenon DEF HandOver, At, clock
<1>2. /\ proc' \in [{"main", "slow"} -> ProcRec]
      /\ proc'["main"].at = "idle" /\ proc'["main"].tl = proc["main"].tl /\ proc'["slow"] = proc["slow"]
  <2>1. 0 \in 0..(TickMod - 1)
    BY Sizes
  <2> QED
    BY <2>1, Types, Zenon DEF HandOver, At, ProcRec
<1>3. t_idx' # t_idx => /\ (t_idx - s_idx) % IdxMod < SlowLists - 1
                        /\ (t_idx' - s_idx) % IdxMod = ((t_idx - s_idx) % IdxMod) + 1
  <2> SUFFICES ASSUME t_idx' # t_idx
               PROVE  /\ (t_idx - s_idx) % IdxMod < SlowLists - 1
                      /\ (t_idx' - s_idx) % IdxMod = ((t_idx - s_idx) % IdxMod) + 1
    BY Zenon
  <2>1. /\ {t_idx, s_idx} \subseteq 0..(IdxMod - 1) /\ IdxMod \in Nat \ {0}
        /\ SlowLists \in Nat \ {0} /\ SlowLists <= IdxMod
    BY Types, Sizes, RingFits, Zenon
  <2>2. (t_idx - s_idx) % IdxMod < SlowLists - 1
    BY <1>1, <2>1, Distance, Zenon
  <2>3. (t_idx - s_idx) % IdxMod < IdxMod - 1
    BY <2>1, <2>2, RingRange
  <2> QED
    BY <1>1, <2>1, <2>2, <2>3, EndMoves, Zenon
<1>4. t_idx' \in 0..(IdxMod - 1)
  BY <1>1, Types, Ranges, Zenon
<1>5. TypeOK'
  BY <1>1, <1>2, <1>4, Zenon DEF DelSafe, TypeOK
<1>6. RingIsConsistent'
  <2>1. /\ (t_idx - s_idx) % IdxMod \in Int /\ (t_idx' - s_idx) % IdxMod \in Int /\ SlowLists \in Int
        /\ \A x \in Timers : (tl[x].slow_idx - s_idx) % IdxMod \in Int
    BY <1>4, Types, RingRange, Sizes DEF TimerRec
  <2> QED
    BY <1>1, <1>3, <2>1 DEF DelSafe, RingIsConsistent
<1>7. SlowInv'
  <2>1. s_idx # t_idx => s_idx # t_idx'
    <3>1. (s_idx - s_idx) % IdxMod = 0 /\ (t_idx - s_idx) % IdxMod \in Nat
      BY Types, Sizes, RingRange
    <3> QED
      BY <1>3, <3>1
  <2> QED
    BY <1>1, <1>2, <2>1, Zenon DEF DelSafe, SlowInv
<1>8. ProcInv'
  BY <1>1, <1>2, Zenon DEF DelSafe, ProcInv, MainAts, WithTimer
<1>9. \A q \in Procs : del[q].at # "mainrm"
  BY <1>1, Zenon DEF DelSafe, LockInv, DelInv
<1>10. LockInv'
  BY <1>1, <1>2, <1>9, Zenon DEF DelSafe, LockInv
<1>11. ASSUME NEW y \in Timers PROVE Untouched(y)
  BY <1>1, <1>2, SameTimers, Zenon DEF Untouched, Busy, RunsIn
<1>12. ASSUME NEW y \in Timers PROVE FlagInv(y)'
  BY <1>1, <1>11, FlagsStay, Zenon
<1>13. ASSUME NEW q \in Procs PROVE DelInv(q)'
  <2>1. DelInv(q) /\ del'[q] = del[q] /\ del[q].at # "mainrm"
    BY <1>1, <1>9, Zenon DEF DelSafe
  <2>2. CASE del[q].at = "no"
    BY <2>1, <2>2, Zenon DEF DelInv
  <2>3. CASE del[q].at # "no"
    <3>1. PICK x \in Timers : x = del[q].tl
      BY <2>1, <2>3, Types, Zenon DEF DelInv, DelRec
    <3>2. del[q].at = "slowrm" /\ linked(x) => tl[x].slow_idx # t_idx'
      <4> SUFFICES ASSUME del[q].at = "slowrm", linked(x)
                   PROVE  tl[x].slow_idx # t_idx'
        BY Zenon
      <4>1. tl[x].list.h = "slow" /\ tl[x].slow_idx # t_idx /\ tl[x].slow_idx \in 0..(IdxMod - 1)
        BY <2>1, <3>1, Types, Zenon DEF DelInv, TimerRec
      <4>2. (tl[x].slow_idx - s_idx) % IdxMod <= (t_idx - s_idx) % IdxMod
        BY <4>1, Zenon DEF DelSafe, RingIsConsistent
      <4>3. (tl[x].slow_idx - s_idx) % IdxMod \in Int /\ (t_idx - s_idx) % IdxMod \in Int
        BY <4>1, Types, Sizes, RingRange
      <4> QED
        BY <1>3, <4>1, <4>2, <4>3
    <3>3. q \in {"main", "slow"} => proc'[q] = proc[q]
      BY <1>1, <1>2, <2>1, <2>3, Zenon DEF DelInv
    <3> QED
      BY <1>1, <1>11, <2>1, <2>3, <3>1, <3>2, <3>3, Zenon DEF DelInv, Untouched, SameTimer, Running, linked
  <2> QED
    BY <2>2, <2>3, Zenon
<1> QED
  BY <1>5, <1>6, <1>7, <1>8, <1>10, <1>12, <1>13, Zenon DEF DelSafe

(* What the tests of timer_del may do: return, go to one of the two locks, or  *)
(* keep one of them because the timer is on a list of that lock and does not    *)
(* run in the process of that lock.                                           *)
DelTests(p, x) ==
  \/ DelReturns(p) /\ UNCHANGED locks
  \/ \E a \in {"slow", "main"} : DelGoto(p, a, x) /\ UNCHANGED locks
  \/ /\ DelGoto(p, "slowrm", x) /\ OnOldSlowList(x) /\ running_timer2 # x
     /\ slow_timer_lock = None /\ slow_timer_lock' = p /\ UNCHANGED timer_lock
  \/ /\ DelGoto(p, "mainrm", x) /\ ~OnOldSlowList(x) /\ running_timer # x
     /\ timer_lock = None /\ timer_lock' = p /\ UNCHANGED slow_timer_lock

(* When timer_del decides to remove a timer, its handler runs in neither of    *)
(* the timer processes: the lock that was chosen by the flags is the right one. *)
LEMMA DelMoves ==
  ASSUME NEW p \in Procs, NEW x \in Timers, DelSafe, tl[x].active, MayDel(p, x), DelTests(p, x),
         UNCHANGED <<clock, tl, rest, proc>>
  PROVE  DelSafe'
<1>1. PICK a \in {"no", "slow", "main", "slowrm", "mainrm"} :
        /\ IF a = "no" THEN DelReturns(p) ELSE DelGoto(p, a, x)
        /\ IF a = "slowrm"
             THEN /\ slow_timer_lock = None /\ slow_timer_lock' = p
                  /\ OnOldSlowList(x) /\ running_timer2 # x
             ELSE slow_timer_lock' = slow_timer_lock
        /\ IF a = "mainrm"
             THEN timer_lock = None /\ timer_lock' = p /\ ~OnOldSlowList(x) /\ running_timer # x
             ELSE timer_lock' = timer_lock
  BY Zenon DEF DelTests, locks
<1>2. /\ del' \in [Procs -> DelRec] /\ \A q \in Procs \ {p} : del'[q] = del[q]
      /\ del'[p].at = a /\ del'[p].tl = IF a = "no" THEN None ELSE x
  BY <1>1, Types DEF DelReturns, DelGoto, NoDel, DelRec
<1>3. UNCHANGED <<tl, proc, ticks, prev_ticks, run_timer, running_timer, running_timer2, t_idx, s_idx,
                  slow_sig>>
  BY Zenon DEF clock, rest
<1>4. TypeOK'
  BY <1>1, <1>2, <1>3, Zenon DEF DelSafe, TypeOK
<1>5. RingIsConsistent' /\ SlowInv' /\ ProcInv'
  BY <1>3, Zenon DEF DelSafe, RingIsConsistent, SlowInv, ProcInv
<1>6. LockInv'
  BY <1>1, <1>2, <1>3, NamesAssumption DEF DelSafe, LockInv, Procs
<1>7. ASSUME NEW y \in Timers PROVE Untouched(y) /\ FlagInv(y)'
  <2>1. Untouched(y)
    BY <1>3, SameTimers, Zenon DEF Untouched, Busy, RunsIn
  <2> QED
    BY <1>3, <2>1, FlagsStay, Zenon
<1>8. ASSUME NEW q \in Procs PROVE DelInv(q)'
  <2>1. CASE q # p
    BY <1>2, <1>3, <1>7, <2>1, DelInvStays, Zenon
  <2>2. CASE q = p
    <3>1. FlagInv(x) /\ ProcInv /\ SlowInv /\ RingIsConsistent /\ x # None
      BY NamesAssumption, Zenon DEF DelSafe
    <3>2. ~(a = "slowrm" /\ Running(x))
      BY <1>1, <3>1, Zenon DEF Running, RunsIn, FlagInv, OnOldSlowList, ProcInv
    <3>3. ~(a = "mainrm" /\ Running(x))
      BY <1>1, <3>1, Zenon DEF Running, RunsIn, FlagInv, OnOldSlowList, ProcInv, SlowInv, SlowAts
    <3>4. a = "slowrm" /\ linked(x) => tl[x].list.h = "slow" /\ tl[x].slow_idx # t_idx
      <4>1. linked(x) => tl[x].list.h \in Wheel \cup {"slow"}
        BY ListHeads, Types, Zenon DEF linked, TimerRec
      <4> QED
        BY <1>1, <3>1, <4>1, Zenon DEF FlagInv, OnOldSlowList
    <3>5. a = "mainrm" /\ tl[x].list.h = "slow" => tl[x].slow_idx = t_idx
      BY <1>1, <3>1, Zenon DEF OnOldSlowList, RingIsConsistent
    <3>6. p \in {"main", "slow"} => proc[p].at \in {"f", "allowed"} /\ (p = "slow" => proc[p].tl = x)
      BY NamesAssumption, Zenon DEF MayDel
    <3>7. del'[q].at = a /\ del'[q].tl = IF a = "no" THEN None ELSE x
      BY <1>2, <2>2, Zenon
    <3>8. (Running(x)' <=> Running(x)) /\ (linked(x)' <=> linked(x))
      BY <1>3, Zenon DEF Running, RunsIn, linked
    <3> QED
      BY <1>3, <2>2, <3>1, <3>2, <3>3, <3>4, <3>5, <3>6, <3>7, <3>8, Zenon DEF DelInv
  <2> QED
    BY <2>1, <2>2, Zenon
<1> QED
  BY <1>4, <1>5, <1>6, <1>7, <1>8, Zenon DEF DelSafe

LEMMA AgainTests ==
  ASSUME NEW p, NEW x, DelAgain(p, x), UNCHANGED locks
  PROVE  DelTests(p, x)
BY Zenon DEF DelAgain, DelTests

(* timer_del up to the taking of a lock. *)
LEMMA DelStarts ==
  ASSUME NEW p \in Procs, NEW x \in Timers
  PROVE  DelSafe /\ timer_del(p, x) => DelSafe'
<1> SUFFICES ASSUME DelSafe, timer_del(p, x) PROVE DelSafe'
  BY Zenon
<1>1. CASE tl[x].active
  BY <1>1, AgainTests, DelMoves, Zenon DEF timer_del
<1>2. CASE ~tl[x].active
  <2>1. UNCHANGED vars
    <3>1. del[p] = NoDel /\ del \in [Procs -> DelRec]
      BY Zenon DEF timer_del, DelSafe, DelInv, TypeOK, DelRec, NoDel
    <3>2. del' = [del EXCEPT ![p] = NoDel]
      BY <1>2, Zenon DEF timer_del, DelAgain, DelReturns
    <3>3. del' = del
      BY <3>1, <3>2, Zenon
    <3> QED
      BY <3>3, Zenon DEF timer_del, vars
  <2> QED
    BY <2>1, Stutters, Zenon
<1> QED
  BY <1>1, <1>2, Zenon

(* timer_del is in progress: its caller may do so. *)
LEMMA DelInProgress ==
  ASSUME NEW p \in Procs, DelSafe, del[p].at # "no"
  PROVE  del[p].tl \in Timers /\ tl[del[p].tl].active /\ MayDel(p, del[p].tl)
BY Zenon DEF DelSafe, DelInv, TypeOK, DelRec, MayDel, Procs

(* timer_del with the slow lock. *)
LEMMA DelTestsSlow ==
  ASSUME NEW p \in Procs
  PROVE  DelSafe /\ DelSlow(p) => DelSafe'
<1> SUFFICES ASSUME DelSafe, DelSlow(p) PROVE DelSafe'
  OBVIOUS
<1>1. DelTests(p, del[p].tl)
  BY AgainTests, Zenon DEF DelSlow, DelTests, locks
<1> QED
  BY <1>1, DelInProgress, DelMoves, Zenon DEF DelSlow

(* timer_del with the main lock. *)
LEMMA DelTestsMain ==
  ASSUME NEW p \in Procs
  PROVE  DelSafe /\ DelMain(p) => DelSafe'
<1> SUFFICES ASSUME DelSafe, DelMain(p) PROVE DelSafe'
  OBVIOUS
<1>1. DelTests(p, del[p].tl)
  BY AgainTests, Zenon DEF DelMain, DelTests, locks
<1> QED
  BY <1>1, DelInProgress, DelMoves, Zenon DEF DelMain

-----------------------------------------------------------------------------
(* The safety of timer_del.                                                  *)

LEMMA DelSafeInit == Init => DelSafe
<1> SUFFICES ASSUME Init PROVE DelSafe
  BY Zenon
<1> USE DEF Init, NoDel
<1>1. \A x \in Timers : Fresh(x) \in TimerRec /\ Fresh(x).list = NoList
  BY Sizes, ListTypes DEF Fresh, TimerRec
<1>2. TypeOK
  <2>1. FirstTick \in 0..(TickMod - 1) /\ t_idx \in 0..(IdxMod - 1) /\ 0 \in 0..(TickMod - 1)
    BY Sizes, WheelAssumption
  <2> QED
    BY <1>1, <2>1, Zenon DEF TypeOK, ProcRec, DelRec
<1>3. RingIsConsistent
  <2>1. (t_idx - s_idx) % IdxMod < SlowLists
    BY Sizes, WheelAssumption
  <2> QED
    BY <1>1, <2>1, ListHeads, Zenon DEF RingIsConsistent
<1>4. ProcInv /\ LockInv /\ SlowInv
  BY Zenon DEF ProcInv, LockInv, SlowInv, MainAts, SlowAts, WithTimer
<1>5. ASSUME NEW x \in Timers PROVE FlagInv(x)
  BY <1>1, ListHeads, Zenon DEF FlagInv, linked, Busy, RunsIn, Wheel
<1>6. ASSUME NEW p \in Procs PROVE DelInv(p)
  BY Zenon DEF DelInv
<1> QED
  BY <1>2, <1>3, <1>4, <1>5, <1>6, Zenon DEF DelSafe

LEMMA DelSafeNext == DelSafe /\ [Next]_vars => DelSafe'
<1> SUFFICES ASSUME DelSafe, [Next]_vars PROVE DelSafe'
  BY Zenon
<1>1. CASE UNCHANGED vars
  BY <1>1, Stutters, Zenon
<1>2. CASE sig_timer
  BY <1>2, SigTimer, Zenon
<1>3. CASE MainSteps
  BY Zenon, <1>3, TimerMain, TimerHandler, WalksWheel, MainLocks, MainReadds, HandsOver, FiresFast,
     ExpiresSlow DEF MainSteps
<1>4. CASE SlowSteps
  BY <1>4, SlowStarts, NextList, SlowStops, SlowLocks, SlowReadds, SlowUnsets, SlowFires, Zenon
     DEF SlowSteps
<1>5. ASSUME NEW p \in {"main", "slow"}, Handler(p) PROVE DelSafe'
  BY <1>5, AllowDel, HandlerReinits, Returns0, ReturnsAgain, Zenon DEF Handler
<1>6. ASSUME NEW p \in Procs, DelSteps(p) PROVE DelSafe'
  BY <1>6, DelTestsSlow, DelTestsMain, Detaches, Zenon DEF DelSteps
<1>7. ASSUME NEW p \in Procs, NEW x \in Timers, timer_del(p, x) PROVE DelSafe'
  BY <1>7, DelStarts, Zenon
<1>8. ASSUME NEW w \in Workers, timer_reinit(w) PROVE DelSafe'
  BY <1>8, ReinitsTimer, Zenon
<1>9. ASSUME NEW w \in Workers, NEW x \in Timers, NEW d \in Deltas, timer_add(w, x, d)
      PROVE  DelSafe'
  BY <1>9, AddsTimer, Zenon
<1>10. ASSUME NEW x \in Timers, timer_init(x) PROVE DelSafe'
  BY <1>10, InitsTimer
<1> QED
  BY <1>1, <1>2, <1>3, <1>4, <1>5, <1>6, <1>7, <1>8, <1>9, <1>10, Zenon DEF Next

(* The inductive invariant holds: the flags of a timer, the two locks and the  *)
(* ring of slow lists tell timer_del the truth.                               *)
THEOREM Safety == Spec => []DelSafe
<1> QED
  BY DelSafeInit, DelSafeNext, PTL DEF Spec

(* Ticks, indexes, flags and owners of locks keep their types. *)
THEOREM TypeCorrect == Spec => []TypeOK
<1>1. DelSafe => TypeOK
  BY Zenon DEF DelSafe
<1> QED
  BY Safety, <1>1, PTL

(* When timer_del_safe has found that it need not wait for the handler, the    *)
(* handler is in neither of the two timer processes.                          *)
THEOREM DelNeverMissesHandler == Spec => []DelWaits
<1>1. DelSafe => DelWaits
  BY Zenon DEF DelSafe, DelInv, DelWaits
<1> QED
  BY Safety, <1>1, PTL

(* The slow process is never overtaken in the ring by timer_handler, and every  *)
(* timer on a slow list is found under the index it carries.                  *)
THEOREM RingNeverOverrun == Spec => []RingIsConsistent
<1>1. DelSafe => RingIsConsistent
  BY Zenon DEF DelSafe
<1> QED
  BY Safety, <1>1, PTL

(* timer_del_safe detaches a timer from a list only under the lock that guards  *)
(* the list: the two tests of the flags, before and under the lock, are enough. *)
THEOREM DelHoldsTheLock == Spec => []ListsAreGuarded
<1>1. ASSUME DelSafe, NEW p \in Procs, del[p].at \in {"slowrm", "mainrm"}
      PROVE  LET l == tl[del[p].tl].list
                 handedOver == l.h = "slow" /\ l # SlowList(t_idx)
             IN  /\ del[p].at = "slowrm" /\ l # NoList => handedOver
                 /\ del[p].at = "mainrm" => ~handedOver
  <2> DEFINE x == del[p].tl
             i == tl[x].slow_idx
  <2>1. x \in Timers /\ DelInv(p) /\ RingIsConsistent /\ i \in 0..(IdxMod - 1)
    BY <1>1, Zenon DEF DelSafe, DelInv, TypeOK, DelRec, TimerRec
  <2>2. CASE del[p].at = "mainrm"
    BY <2>1, <2>2, Zenon DEF DelInv, RingIsConsistent
  <2>3. CASE del[p].at = "slowrm" /\ linked(x)
    <3>1. tl[x].list.h = "slow" /\ i # t_idx /\ tl[x].list = SlowList(i)
      BY <2>1, <2>3, Zenon DEF DelInv, RingIsConsistent
    <3>2. {t_idx, s_idx} \subseteq 0..(IdxMod - 1) /\ (t_idx - s_idx) % IdxMod < SlowLists
      BY <1>1, Zenon DEF DelSafe, TypeOK, RingIsConsistent
    <3>3. (i - s_idx) % IdxMod < SlowLists
      <4>1. (i - s_idx) % IdxMod <= (t_idx - s_idx) % IdxMod
        BY <2>1, <3>1, Zenon DEF RingIsConsistent
      <4>2. {(i - s_idx) % IdxMod, (t_idx - s_idx) % IdxMod} \subseteq 0..(IdxMod - 1)
        BY <2>1, <3>2, RingRange, Zenon
      <4>3. IdxMod \in Int /\ SlowLists \in Int
        BY Sizes
      <4> HIDE DEF i
      <4> QED
        BY <3>2, <4>1, <4>2, <4>3
    <3>4. SlowList(i) # SlowList(t_idx)
      BY <2>1, <3>1, <3>2, <3>3, RingLists, Zenon
    <3> QED
      BY <2>3, <3>1, <3>4, Zenon
  <2> QED
    BY <1>1, <2>2, <2>3, Zenon DEF linked
<1>2. DelSafe => ListsAreGuarded
  BY <1>1, Zenon DEF ListsAreGuarded
<1> QED
  BY Safety, <1>2, PTL

-----------------------------------------------------------------------------
(* CoreTimer implements TimerApi, step by step.                              *)

Status(x) == IF RunsIn("main", x) THEN "main"
             ELSE IF RunsIn("slow", x) THEN "slow" ELSE IF linked(x) THEN "armed" ELSE "off"

StIsStatus == st = [x \in Timers |-> Status(x)]

LEMMA StStatus == DelSafe => StIsStatus
<1> SUFFICES ASSUME DelSafe, NEW x \in Timers PROVE st[x] = Status(x)
  BY Zenon DEF st, StIsStatus
<1>1. ~(RunsIn("main", x) /\ RunsIn("slow", x))
  BY Zenon DEF DelSafe, FlagInv, Busy, RunsIn
<1>2. RunsIn("main", x) \/ RunsIn("slow", x) => ~linked(x)
  BY Zenon DEF DelSafe, FlagInv, Busy, RunsIn
<1> QED
  BY <1>1, <1>2, Zenon DEF st, Status

LEMMA StStatusNext == DelSafe' => StIsStatus'
BY StStatus, PTL

LEMMA OneMoves ==
  ASSUME NEW x \in Timers, DelSafe, DelSafe', \A y \in Timers \ {x} : Status(y)' = Status(y)
  PROVE  st[x] = Status(x) /\ st' = [st EXCEPT ![x] = Status(x)']
BY StStatus, StStatusNext, Zenon DEF StIsStatus

LEMMA NoneMoves ==
  ASSUME DelSafe, DelSafe', \A y \in Timers : Status(y)' = Status(y)
  PROVE  st' = st
BY StStatus, StStatusNext, Zenon DEF StIsStatus

(* A step of one timer process between two handlers, by which no timer is     *)
(* linked or detached.                                                       *)
LEMMA Quiet ==
  ASSUME DelSafe, DelSafe', NEW p \in {"main", "slow"}, del' = del,
         \A q \in {"main", "slow"} \ {p} : proc'[q] = proc[q],
         proc[p].at \notin {"f", "readd"}, proc'[p].at \notin {"f", "readd"},
         \A y \in Timers : linked(y)' <=> linked(y)
  PROVE  UNCHANGED <<st, deleting>>
<1>1. \A y \in Timers : Status(y)' = Status(y)
  BY Zenon DEF Status, RunsIn
<1> QED
  BY <1>1, NoneMoves, Zenon DEF deleting

(* _timer_add links the timer, and no other. *)
LEMMA ReaddLinks ==
  ASSUME DelSafe, NEW x \in Timers, NEW t \in 0..(TickMod - 1), NEW d \in Deltas,
         \/ tl' = timer_add_at(x, t, d)
         \/ tl' = [timer_add_at(x, t, d) EXCEPT ![x].active = TRUE]
  PROVE  linked(x)' /\ \A y \in Timers \ {x} : linked(y)' <=> linked(y)
<1>1. tl \in [Timers -> TimerRec] /\ tl[x] \in TimerRec
  BY Zenon DEF DelSafe, TypeOK
<1>2. AddAt(tl[x], t, d) \in TimerRec /\ AddAt(tl[x], t, d).list.h \in Wheel
  BY <1>1, AddedRec, Zenon
<1>3. timer_add_at(x, t, d) = [tl EXCEPT ![x] = AddAt(tl[x], t, d)]
  BY <1>1, Zenon DEF timer_add_at, AddAt
<1>4. tl'[x].list = AddAt(tl[x], t, d).list
  BY <1>1, <1>2, <1>3 DEF TimerRec
<1>5. \A y \in Timers \ {x} : tl'[y] = tl[y]
  BY <1>1, <1>2, <1>3, Zenon
<1> QED
  BY <1>2, <1>4, <1>5, ListHeads, Zenon DEF linked, Wheel

LEMMA MainApi ==
  ASSUME DelSafe, DelSafe', MainSteps
  PROVE  [Api!Next]_<<st, deleting>>
<1> USE DEF At, Goto, clock, locks, rest
<1>1. proc \in [{"main", "slow"} -> ProcRec] /\ proc' \in [{"main", "slow"} -> ProcRec]
  BY Zenon DEF DelSafe, TypeOK
<1> DEFINE Between == /\ proc["main"].at \notin {"f", "readd"} /\ proc'["main"].at \notin {"f", "readd"}
                      /\ proc'["slow"] = proc["slow"] /\ del' = del
<1>2. CASE timer_main
  <2>1. Between /\ tl' = tl
    BY <1>1, <1>2, Zenon DEF timer_main, ProcRec
  <2> QED
    BY <2>1, Quiet, Zenon DEF linked
<1>3. CASE timer_handler
  <2>1. Between /\ tl' = tl
    BY <1>1, <1>3, Zenon DEF timer_handler, WalkOn, ProcRec
  <2> QED
    BY <2>1, Quiet DEF linked
<1>4. CASE MissedTick
  <2>1. Between
    BY <1>4, TickMovesMain, Zenon DEF MissedTick
  <2> QED
    BY <1>4, <2>1, Quiet, TickMovesTimers, Zenon DEF SameTimer
<1>5. CASE MainRelock
  <2>1. Between /\ tl' = tl
    BY <1>1, <1>5, Zenon DEF MainRelock, ProcRec
  <2> QED
    BY <2>1, Quiet DEF linked
<1>6. CASE HandOver
  <2>1. Between /\ tl' = tl
    BY <1>1, <1>6, Zenon DEF HandOver, ProcRec
  <2> QED
    BY <2>1, Quiet DEF linked
<1>7. ASSUME NEW x \in Timers, ExpireSlow(x) PROVE UNCHANGED <<st, deleting>>
  <2>1. proc' = proc /\ del' = del /\ proc["main"].at = "expire"
    BY <1>7, Zenon DEF ExpireSlow
  <2>2. \A y \in Timers : linked(y)' <=> linked(y)
    BY <1>7, ListHeads DEF ExpireSlow, linked, DelSafe, TypeOK, TimerRec
  <2> QED
    BY <2>1, <2>2, Quiet, Zenon
<1>8. ASSUME NEW x \in Timers, ExpireFast(x) PROVE Api!Fire("main", x)
  <2>1. /\ proc["main"].at = "expire" /\ proc'["main"].at = "f" /\ proc'["main"].tl = x
        /\ proc'["slow"] = proc["slow"] /\ del' = del
    BY <1>1, <1>8, Zenon DEF ExpireFast, ProcRec
  <2>2. linked(x) /\ \A y \in Timers \ {x} : linked(y)' <=> linked(y)
    BY <1>8, ListHeads, Zenon DEF ExpireFast, linked, DelSafe, TypeOK
  <2>3. Status(x) = "armed" /\ Status(x)' = "main"
    BY <2>1, <2>2, Zenon DEF Status, RunsIn, DelSafe, FlagInv, Busy
  <2>4. ASSUME NEW y \in Timers \ {x} PROVE Status(y)' = Status(y)
    BY <2>1, <2>2, Zenon DEF Status, RunsIn
  <2> QED
    BY <2>1, <2>3, <2>4, OneMoves, Zenon DEF Api!Fire, Api!Move, deleting
<1>9. CASE MainReadd
  <2>1. /\ proc["main"].at = "readd" /\ proc'["main"].at = "expire"
        /\ proc'["slow"] = proc["slow"] /\ del' = del
    BY <1>1, <1>9, Zenon DEF MainReadd, ProcRec
  <2>2. PICK x \in Timers : x = proc["main"].tl
    BY <2>1, Zenon DEF DelSafe, TypeOK, ProcRec, ProcInv, WithTimer
  <2>3. linked(x)' /\ \A y \in Timers \ {x} : linked(y)' <=> linked(y)
    <3>1. PICK d \in Deltas : tl' = timer_add_at(x, proc["main"].t, d)
      BY <1>9, <2>2, Zenon DEF MainReadd
    <3> QED
      BY <1>1, <2>2, <3>1, ReaddLinks, Zenon DEF ProcRec
  <2>4. Status(x) = "main" /\ Status(x)' = "armed"
    BY <2>1, <2>2, <2>3, Zenon DEF Status, RunsIn, DelSafe, FlagInv, Busy
  <2>5. ASSUME NEW y \in Timers \ {x} PROVE Status(y)' = Status(y)
    BY <2>1, <2>2, <2>3, Zenon DEF Status, RunsIn
  <2>6. Api!Rearm("main", x)
    BY <2>1, <2>2, <2>4, <2>5, OneMoves, Zenon DEF Api!Rearm, Api!Move, deleting
  <2> QED
    BY <2>2, <2>6, Zenon DEF Api!Next
<1> QED
  BY <1>2, <1>3, <1>4, <1>5, <1>6, <1>7, <1>8, <1>9, Zenon DEF MainSteps, Api!Next

LEMMA SlowApi ==
  ASSUME DelSafe, DelSafe', SlowSteps
  PROVE  [Api!Next]_<<st, deleting>>
<1> USE DEF At, Goto, clock, locks, rest
<1>1. proc \in [{"main", "slow"} -> ProcRec] /\ proc' \in [{"main", "slow"} -> ProcRec]
  BY DEF DelSafe, TypeOK
<1> DEFINE Between == /\ proc["slow"].at \notin {"f", "readd"} /\ proc'["slow"].at \notin {"f", "readd"}
                      /\ proc'["main"] = proc["main"] /\ del' = del
<1>2. CASE SlowWakes
  <2>1. Between /\ tl' = tl
    BY <1>1, <1>2, Zenon DEF SlowWakes, ProcRec
  <2> QED
    BY <2>1, Quiet, Zenon DEF linked
<1>3. CASE SlowNextList
  <2>1. Between /\ tl' = tl
    BY <1>1, <1>3, Zenon DEF SlowNextList, ProcRec
  <2> QED
    BY <2>1, Quiet DEF linked
<1>4. CASE SlowEnds
  <2>1. Between /\ tl' = tl
    BY <1>1, <1>4, Zenon DEF SlowEnds, ProcRec
  <2> QED
    BY <2>1, Quiet DEF linked
<1>5. CASE SlowRelock
  <2>1. Between /\ tl' = tl
    BY <1>1, <1>5, Zenon DEF SlowRelock, ProcRec
  <2> QED
    BY <2>1, Quiet DEF linked
<1>6. CASE SlowReadded
  <2>1. Between /\ tl' = tl
    BY <1>1, <1>6, Zenon DEF SlowReadded, ProcRec
  <2> QED
    BY <2>1, Quiet DEF linked
<1>7. ASSUME NEW x \in Timers, SlowRuns(x) PROVE Api!Fire("slow", x)
  <2>1. /\ proc["slow"].at = "scan" /\ proc'["slow"].at = "f" /\ proc'["slow"].tl = x
        /\ proc'["main"] = proc["main"] /\ del' = del
    BY <1>1, <1>7, Zenon DEF SlowRuns, ProcRec
  <2>2. linked(x) /\ \A y \in Timers \ {x} : linked(y)' <=> linked(y)
    BY <1>7, ListHeads, Zenon DEF SlowRuns, linked, DelSafe, TypeOK
  <2>3. Status(x) = "armed" /\ Status(x)' = "slow"
    BY <2>1, <2>2, Zenon DEF Status, RunsIn, DelSafe, FlagInv, Busy
  <2>4. ASSUME NEW y \in Timers \ {x} PROVE Status(y)' = Status(y)
    BY <2>1, <2>2, Zenon DEF Status, RunsIn
  <2> QED
    BY <2>1, <2>3, <2>4, OneMoves, Zenon DEF Api!Fire, Api!Move, deleting
<1>8. CASE SlowReadd
  <2>1. /\ proc["slow"].at = "readd" /\ proc'["slow"].at = "readded"
        /\ proc'["main"] = proc["main"] /\ del' = del
    BY <1>1, <1>8, Zenon DEF SlowReadd, ProcRec
  <2>2. PICK x \in Timers : x = proc["slow"].tl
    BY <2>1, Zenon DEF DelSafe, TypeOK, ProcRec, ProcInv, WithTimer
  <2>3. linked(x)' /\ \A y \in Timers \ {x} : linked(y)' <=> linked(y)
    <3>1. PICK d \in Deltas : tl' = timer_add_at(x, ticks, d)
      BY <1>8, <2>2, Zenon DEF SlowReadd
    <3> QED
      BY <2>2, <3>1, ReaddLinks, Zenon DEF DelSafe, TypeOK
  <2>4. Status(x) = "slow" /\ Status(x)' = "armed"
    BY <2>1, <2>2, <2>3, Zenon DEF Status, RunsIn, DelSafe, FlagInv, Busy
  <2>5. ASSUME NEW y \in Timers \ {x} PROVE Status(y)' = Status(y)
    BY <2>1, <2>2, <2>3, Zenon DEF Status, RunsIn
  <2>6. Api!Rearm("slow", x)
    BY <2>1, <2>2, <2>4, <2>5, OneMoves, Zenon DEF Api!Rearm, Api!Move, deleting
  <2> QED
    BY <2>2, <2>6, Zenon DEF Api!Next
<1> QED
  BY <1>2, <1>3, <1>4, <1>5, <1>6, <1>7, <1>8, Zenon DEF SlowSteps, Api!Next

(* The handler is done: it returns 0, or calls timer_allow_del. *)
LEMMA HandlerDone ==
  ASSUME DelSafe, DelSafe', NEW p \in {"main", "slow"}, tl' = tl, del' = del,
         proc[p].at = "f", proc'[p].at \notin {"f", "readd"},
         \A q \in {"main", "slow"} \ {p} : proc'[q] = proc[q]
  PROVE  Api!Next
<1>1. PICK x \in Timers : x = proc[p].tl
  BY Zenon DEF DelSafe, TypeOK, ProcRec, ProcInv, WithTimer
<1>2. Status(x) = p
  BY <1>1, Zenon DEF Status, RunsIn, DelSafe, FlagInv, Busy
<1>3. Status(x)' = "off"
  BY <1>1 DEF Status, RunsIn, linked, DelSafe, FlagInv, Busy
<1>4. ASSUME NEW y \in Timers \ {x} PROVE Status(y)' = Status(y)
  BY <1>1, Zenon DEF Status, RunsIn, linked
<1>5. Api!Done(p, x)
  BY <1>2, <1>3, <1>4, OneMoves, Zenon DEF Api!Done, Api!Move, deleting
<1> QED
  BY <1>5, Zenon DEF Api!Next

LEMMA HandlerApi ==
  ASSUME DelSafe, DelSafe', NEW p \in {"main", "slow"}, Handler(p)
  PROVE  [Api!Next]_<<st, deleting>>
<1> USE DEF At, Goto, clock, locks, rest
<1>1. proc \in [{"main", "slow"} -> ProcRec] /\ proc' \in [{"main", "slow"} -> ProcRec]
  BY Zenon DEF DelSafe, TypeOK
<1>2. CASE timer_allow_del(p)
  <2>1. /\ proc[p].at = "f" /\ proc'[p].at = "allowed" /\ tl' = tl /\ del' = del
        /\ \A q \in {"main", "slow"} \ {p} : proc'[q] = proc[q]
    BY <1>1, <1>2, Zenon DEF timer_allow_del, ProcRec
  <2> QED
    BY <2>1, HandlerDone, Zenon
<1>3. CASE HandlerReinit(p)
  <2>1. /\ proc[p].at = "allowed" /\ proc'[p].at = "ended" /\ del' = del
        /\ \A q \in {"main", "slow"} \ {p} : proc'[q] = proc[q]
    BY <1>1, <1>3, Zenon DEF HandlerReinit, ProcRec
  <2>2. \A y \in Timers : linked(y)' <=> linked(y)
    BY <1>3, Zenon DEF HandlerReinit, linked, DelSafe, TypeOK, TimerRec
  <2> QED
    BY <2>1, <2>2, Quiet, Zenon
<1>4. CASE ReturnsZero(p)
  <2>1. /\ proc[p].at \in {"f", "allowed", "ended"} /\ proc'[p].at = "relock" /\ tl' = tl /\ del' = del
        /\ \A q \in {"main", "slow"} \ {p} : proc'[q] = proc[q]
    BY <1>1, <1>4, Zenon DEF ReturnsZero, ProcRec
  <2> QED
    BY <2>1, HandlerDone, Quiet, Zenon DEF linked
<1>5. CASE ReturnsInterval(p)
  <2>1. /\ proc[p].at = "f" /\ proc'[p].at = "readd" /\ proc'[p].tl = proc[p].tl /\ del' = del
        /\ \A q \in {"main", "slow"} \ {p} : proc'[q] = proc[q]
    BY <1>1, <1>5, Zenon DEF ReturnsInterval, ProcRec
  <2>2. \A y \in Timers : linked(y)' <=> linked(y)
    BY <1>5 DEF ReturnsInterval, linked, DelSafe, TypeOK, TimerRec
  <2>3. \A y \in Timers : Status(y)' = Status(y)
    BY <2>1, <2>2, Zenon DEF Status, RunsIn
  <2> QED
    BY <2>1, <2>3, NoneMoves, Zenon DEF deleting
<1> QED
  BY <1>2, <1>3, <1>4, <1>5, Zenon DEF Handler

(* timer_del as TimerApi sees it.                                            *)
LEMMA DelSees ==
  ASSUME NEW p \in Procs, NEW d, \A q \in Procs \ {p} : del'[q] = del[q], del'[p] = d
  PROVE  /\ deleting[p] = IF del[p].at = "removed" THEN None ELSE del[p].tl
         /\ deleting' = [deleting EXCEPT ![p] = IF d.at = "removed" THEN None ELSE d.tl]
BY Zenon DEF deleting

LEMMA DelStays ==
  ASSUME NEW p \in Procs, \A q \in Procs \ {p} : del'[q] = del[q], del'[p].tl = del[p].tl,
         del[p].at # "removed", del'[p].at # "removed"
  PROVE  deleting' = deleting
BY Zenon DEF deleting

LEMMA SameStatus ==
  ASSUME DelSafe, DelSafe', proc' = proc, \A y \in Timers : linked(y)' <=> linked(y)
  PROVE  st' = st
<1>1. \A y \in Timers : Status(y)' = Status(y)
  BY Zenon DEF Status, RunsIn
<1> QED
  BY <1>1, NoneMoves, Zenon

(* The tests of timer_del, under either lock: it returns to the handler of the *)
(* timer itself, or goes on.                                                 *)
LEMMA TestsApi ==
  ASSUME DelSafe, DelSafe', NEW p \in Procs, del[p].at \in {"slow", "main"}, tl' = tl, proc' = proc,
         \/ DelAgain(p, del[p].tl)
         \/ DelReturns(p) /\ p = "slow" /\ running_timer2 = del[p].tl
         \/ DelReturns(p) /\ p = "main" /\ running_timer = del[p].tl
         \/ \E a \in {"slowrm", "mainrm"} : DelGoto(p, a, del[p].tl)
  PROVE  [Api!Next]_<<st, deleting>>
<1>1. PICK x \in Timers : x = del[p].tl /\ tl[x].active
  BY DelInProgress, Zenon
<1>2. del \in [Procs -> DelRec] /\ del[p].at # "removed" /\ x # None
  BY NamesAssumption, Zenon DEF DelSafe, TypeOK
<1>3. st' = st
  BY SameStatus, Zenon DEF linked
<1>4. CASE \E a \in {"slow", "main", "slowrm", "mainrm"} : DelGoto(p, a, x)
  <2>1. PICK a \in {"slow", "main", "slowrm", "mainrm"} : del' = [del EXCEPT ![p] = [at |-> a, tl |-> x]]
    BY <1>4, Zenon DEF DelGoto
  <2>2. deleting' = deleting
    BY <1>1, <1>2, <2>1, DelStays, Zenon
  <2> QED
    BY <1>3, <2>2, Zenon
<1>5. CASE /\ DelReturns(p)
           /\ (p = "slow" /\ running_timer2 = x) \/ (p = "main" /\ running_timer = x)
  <2>1. del'[p] = NoDel /\ \A q \in Procs \ {p} : del'[q] = del[q]
    BY <1>2, <1>5, Zenon DEF DelReturns
  <2>2. deleting[p] = x /\ deleting' = [deleting EXCEPT ![p] = None]
    BY <1>1, <1>2, <2>1, DelSees DEF NoDel
  <2>3. p \in {"main", "slow"} /\ RunsIn(p, x)
    <3>1. DelInv(p) /\ ProcInv
      BY Zenon DEF DelSafe
    <3> QED
      BY <1>1, <1>2, <1>5, <3>1, Zenon DEF DelInv, ProcInv, RunsIn
  <2>4. st[x] = p
    <3>1. FlagInv(x)
      BY Zenon DEF DelSafe
    <3>2. Status(x) = p
      BY <2>3, <3>1, Zenon DEF Status, FlagInv, Busy, RunsIn
    <3> QED
      BY <3>2, StStatus, Zenon DEF StIsStatus
  <2>5. Api!Itself(p)
    BY <1>2, <1>3, <2>2, <2>4, Zenon DEF Api!Itself, Api!Returns
  <2> QED
    BY <2>5, Zenon DEF Api!Next
<1>6. DelAgain(p, x) => \E a \in {"slow", "main"} : DelGoto(p, a, x)
  BY <1>1, Zenon DEF DelAgain
<1> QED
  BY <1>1, <1>4, <1>5, <1>6, Zenon

(* timer_del detaches the timer, or finds that it is on no list. *)
LEMMA DetachApi ==
  ASSUME DelSafe, DelSafe', NEW p \in Procs, DelDetach(p)
  PROVE  Api!Next
<1>1. PICK x \in Timers : x = del[p].tl
  BY DelInProgress, Zenon DEF DelDetach
<1>2. /\ del \in [Procs -> DelRec] /\ del[p].at # "removed" /\ x # None /\ proc' = proc
      /\ tl \in [Timers -> TimerRec] /\ tl' = [tl EXCEPT ![x] = Detached(@)]
  BY <1>1, NamesAssumption, Zenon DEF DelSafe, TypeOK, DelDetach
<1>3. deleting[p] = x /\ deleting' = [deleting EXCEPT ![p] = None]
  <2>1. PICK d \in {NoDel, [at |-> "removed", tl |-> x]} : del' = [del EXCEPT ![p] = d]
    BY <1>1, Zenon DEF DelDetach, DelGoto, DelReturns
  <2>2. del'[p] = d /\ \A q \in Procs \ {p} : del'[q] = del[q]
    BY <1>2, <2>1, Zenon
  <2>3. (IF d.at = "removed" THEN None ELSE d.tl) = None
    BY DEF NoDel
  <2> QED
    BY <1>1, <1>2, <2>2, <2>3, DelSees
<1>4. ~Running(x) /\ ~linked(x)' /\ \A y \in Timers \ {x} : linked(y)' <=> linked(y)
  <2>1. ~Running(x)
    BY <1>1, Zenon DEF DelDetach, DelSafe, DelInv
  <2>2. tl'[x].list = NoList /\ \A y \in Timers \ {x} : tl'[y] = tl[y]
    BY <1>2, Zenon DEF Detached, TimerRec
  <2> QED
    BY <2>1, <2>2, Zenon DEF linked
<1>5. st[x] = Status(x) /\ st' = [st EXCEPT ![x] = Status(x)']
  <2>1. ASSUME NEW y \in Timers \ {x} PROVE Status(y)' = Status(y)
    BY <1>2, <1>4, Zenon DEF Status, RunsIn
  <2> QED
    BY <2>1, OneMoves, Zenon
<1>6. Status(x)' = "off" /\ Status(x) = IF linked(x) THEN "armed" ELSE "off"
  BY <1>2, <1>4, Zenon DEF Status, Running, RunsIn
<1>7. CASE linked(x)
  <2>1. Api!Deleted(p)
    BY <1>2, <1>3, <1>5, <1>6, <1>7, Zenon DEF Api!Deleted, Api!Move, Api!Returns
  <2> QED
    BY <2>1, Zenon DEF Api!Next
<1>8. CASE ~linked(x)
  <2>1. st' = st
    BY <1>5, <1>6, <1>8, StStatus, Zenon DEF StIsStatus
  <2>2. Api!WasOff(p)
    BY <1>2, <1>3, <1>5, <1>6, <1>8, <2>1, Zenon DEF Api!WasOff, Api!Returns
  <2> QED
    BY <2>2, Zenon DEF Api!Next
<1> QED
  BY <1>7, <1>8, Zenon

LEMMA DelApi ==
  ASSUME DelSafe, DelSafe', NEW p \in Procs,
         DelSteps(p) \/ \E x \in Timers : timer_del(p, x)
  PROVE  [Api!Next]_<<st, deleting>>
<1>1. CASE DelSlow(p)
  BY <1>1, TestsApi, Zenon DEF DelSlow
<1>2. CASE DelMain(p)
  BY <1>2, TestsApi, Zenon DEF DelMain
<1>3. CASE DelDetach(p)
  BY <1>3, DetachApi, Zenon
<1>4. ASSUME NEW x \in Timers, timer_del(p, x) PROVE [Api!Next]_<<st, deleting>>
  <2>1. /\ del \in [Procs -> DelRec] /\ del[p].at = "no" /\ del[p].tl = None
        /\ st' = st
    BY <1>4, SameStatus, Zenon DEF DelSafe, TypeOK, DelInv, timer_del, linked
  <2>2. PICK d \in {NoDel, [at |-> "slow", tl |-> x], [at |-> "main", tl |-> x]} :
          del' = [del EXCEPT ![p] = d]
    BY <1>4, Zenon DEF timer_del, DelAgain, DelReturns, DelGoto
  <2>3. del'[p] = d /\ \A q \in Procs \ {p} : del'[q] = del[q]
    BY <2>1, <2>2, Zenon
  <2>4. CASE d = NoDel
    BY <2>1, <2>3, <2>4, DelStays DEF NoDel
  <2>5. CASE d # NoDel
    <3>1. d.tl = x /\ d.at # "removed"
      BY <2>5
    <3>2. Api!Del(p, x)
      BY <2>1, <2>3, <3>1, DelSees, Zenon DEF Api!Del
    <3> QED
      BY <3>2, Zenon DEF Api!Next
  <2> QED
    BY <2>4, <2>5, Zenon
<1> QED
  BY <1>1, <1>2, <1>3, <1>4, Zenon DEF DelSteps

(* timer_add, timer_reinit and timer_init. *)
LEMMA OtherApi ==
  ASSUME DelSafe, DelSafe',
         \/ \E w \in Workers, x \in Timers, d \in Deltas : timer_add(w, x, d)
         \/ \E x \in Timers : timer_init(x)
         \/ \E w \in Workers : timer_reinit(w)
  PROVE  [Api!Next]_<<st, deleting>>
<1> USE DEF clock, locks, rest
<1>1. ASSUME NEW w \in Workers, NEW x \in Timers, NEW d \in Deltas, timer_add(w, x, d)
      PROVE  Api!Add(x)
  <2>1. proc' = proc /\ del' = del /\ ~linked(x) /\ ~tl[x].active
    BY <1>1, Zenon DEF timer_add
  <2>2. linked(x)' /\ \A y \in Timers \ {x} : linked(y)' <=> linked(y)
    BY <1>1, ReaddLinks, Zenon DEF timer_add, DelSafe, TypeOK
  <2>3. Status(x) = "off" /\ Status(x)' = "armed"
    BY <2>1, <2>2, Zenon DEF Status, RunsIn, DelSafe, FlagInv, Busy
  <2>4. ASSUME NEW y \in Timers \ {x} PROVE Status(y)' = Status(y)
    BY <2>1, <2>2, Zenon DEF Status, RunsIn
  <2> QED
    BY <2>1, <2>3, <2>4, OneMoves, Zenon DEF Api!Add, Api!Move, deleting
<1>2. ASSUME NEW x \in Timers, timer_init(x) PROVE UNCHANGED <<st, deleting>>
  <2>1. \A y \in Timers : linked(y)' <=> linked(y)
    BY <1>2, Zenon DEF timer_init, linked, Fresh, DelSafe, TypeOK
  <2> QED
    BY <1>2, <2>1, SameStatus, Zenon DEF timer_init, deleting
<1>3. ASSUME NEW w \in Workers, timer_reinit(w) PROVE UNCHANGED <<st, deleting>>
  <2>1. /\ w \in Procs /\ del \in [Procs -> DelRec] /\ tl \in [Timers -> TimerRec] /\ proc' = proc
        /\ del[w].at = "removed" /\ del' = [del EXCEPT ![w] = NoDel]
    BY <1>3, Zenon DEF timer_reinit, DelSafe, TypeOK, Procs
  <2>2. \A y \in Timers : linked(y)' <=> linked(y)
    <3>1. PICK x \in Timers : x = del[w].tl
      BY <2>1, Zenon DEF DelSafe, DelInv, TypeOK, DelRec
    <3>2. tl' = [tl EXCEPT ![x] = [tl[x] EXCEPT !.onSlow = FALSE, !.active = FALSE]]
      BY <1>3, <2>1, <3>1, Zenon DEF timer_reinit
    <3>3. tl'[x].list = tl[x].list /\ \A y \in Timers \ {x} : tl'[y] = tl[y]
      BY <2>1, <3>2, Zenon DEF TimerRec
    <3> QED
      BY <3>3, Zenon DEF linked
  <2>3. deleting' = deleting
    BY <2>1, Zenon DEF deleting, NoDel
  <2> QED
    BY <2>1, <2>2, <2>3, SameStatus, Zenon
<1> QED
  BY <1>1, <1>2, <1>3, Zenon DEF Api!Next

(* CoreTimer implements TimerApi: timer_add arms, a timer process takes an     *)
(* armed timer and runs its handler, and timer_del returns 0 for an armed       *)
(* timer, -1 for one that is off, and to nobody but the handler itself while    *)
(* the handler is running.                                                    *)
THEOREM TimersKeepThePromise == Spec => ImplementsTimerApi
<1>1. Init => Api!Init
  <2> SUFFICES ASSUME Init PROVE Api!Init
    OBVIOUS
  <2>1. \A x \in Timers : Status(x) = "off"
    BY Zenon DEF Init, Status, RunsIn, linked, Fresh
  <2> QED
    BY <2>1, DelSafeInit, StStatus, Zenon DEF Api!Init, StIsStatus, Init, deleting, NoDel
<1>2. DelSafe /\ DelSafe' /\ [Next]_vars => [Api!Next]_<<st, deleting>>
  <2> SUFFICES ASSUME DelSafe, DelSafe', [Next]_vars PROVE [Api!Next]_<<st, deleting>>
    BY Zenon
  <2>1. CASE sig_timer \/ UNCHANGED vars
    <3>1. UNCHANGED <<tl, proc, del>>
      BY <2>1, Zenon DEF sig_timer, vars
    <3> QED
      BY <3>1, SameStatus, Zenon DEF linked, deleting
  <2> QED
    BY <2>1, MainApi, SlowApi, HandlerApi, DelApi, OtherApi, Zenon DEF Next
<1> QED
  BY <1>1, <1>2, Safety, PTL DEF Spec, ImplementsTimerApi, Api!Spec
=============================================================================
