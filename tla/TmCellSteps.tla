---------------------------- MODULE TmCellSteps ----------------------------
(***************************************************************************)
(* What the steps of TmCell do, for any number of workers and of lookups:  *)
(* the programs the processes run, who holds the REPLY lock, which handler *)
(* runs each timer, and what a step does to the timers, to the buffers'    *)
(* deletion and to the references. TmCellInv and TmCellProofs build on it. *)
(***************************************************************************)
EXTENDS TmCell, TLAPS

OpRec == [op : Ops, rb : Timers \cup {None}]

(* The steps of s, those after the first one, those before the last one, and  *)
(* the last one.                                                            *)
Els(s) == {s[i] : i \in 1..Len(s)}
Later(s) == {s[i] : i \in 2..Len(s)}
Early(s) == {s[i] : i \in 1..(Len(s) - 1)}
Last(s) == s[Len(s)]

(* Steps on a buffer; steps that are only ever the next one to do; what a     *)
(* worker does before it gives its reference back, what a handler of the       *)
(* final response does, and what wait_handler does before its last step.      *)
BufOps == {"stop", "timer_del", "set_fr_retr", "timer_add", "activate", "retr_buf_handler"}
HeadOps == {"lock", "lock_unlock", "provisional", "cancel_branch", "timer_del", "timer_add",
            "activate", "retr_buf_handler", "timeout"}
WorkOps == {"lock", "lock_unlock", "unlock", "stop", "timer_del", "set_fr_retr", "timer_add",
            "activate", "put_on_wait", "relay", "provisional", "cancel_branch"}
FinalOps == {"put_on_wait", "timeout", "set_fr_retr", "timer_add", "activate"}
WaitOps == {"stop", "timer_del", "unlock_hash"}

-----------------------------------------------------------------------------
(* The inductive invariant.                                                  *)

(* Every program is of one of five kinds: that of a worker, and in the timer    *)
(* processes a retransmission, one that waits for the REPLY lock before its     *)
(* timer is armed again, a final response, and wait_handler.                   *)
Plain(s) == /\ \A e \in Els(s) : e.op \in BufOps => e.rb \in Bufs
            /\ \A e \in Later(s) : e.op \notin HeadOps
Work(s) == s # << >> => /\ Last(s).op \in {"unref", "free"}
                        /\ \A e \in Early(s) : e.op \in WorkOps
Retr(s) == s # << >> /\ Later(s) = {} /\ Head(s).op = "retr_buf_handler"
Again(s) == /\ s # << >> /\ Last(s) = Op("rearm", "rpl")
            /\ \A e \in Early(s) : e.op = "lock_unlock"
Final(s) == \A e \in Els(s) : e.op \in FinalOps /\ (e.op = "timeout" => Later(s) = {})
Waiting(s) == /\ s # << >>
              /\ \/ Last(s).op \in {"wait_handler", "rearm"} /\ Last(s).rb = "wait"
                 \/ Last(s).op \in {"unref_free", "free"}
              /\ \A e \in Early(s) : e.op \in WaitOps
Program(p, s) == /\ Plain(s)
                 /\ p \in Workers => Work(s)
                 /\ p \in Runners => Retr(s) \/ Again(s) \/ Final(s) \/ (p = "main" /\ Waiting(s))
ShapeInv == /\ todo \in [Procs -> Seq(OpRec)]
            /\ \A p \in Procs : Program(p, todo[p])

(* The critical sections of reply_received.                                  *)
Section(b) == <<Op(IF b = "req" THEN "relay" ELSE "unlock", None), Op("unref", None)>>
LockOps == {"lock", "relay", "unlock"}
Entering(s) == \E b \in {"req", "cnl"} : s = <<Op("lock", None), Op("stop", b)>> \o Section(b)
Inside(s) == \E b \in {"req", "cnl"} : \/ \E o \in {"stop", "timer_del"} : s = <<Op(o, b)>> \o Section(b)
                                       \/ s = Section(b)
LockInv == \A p \in Procs : IF reply_lock = p THEN Inside(todo[p])
                            ELSE Entering(todo[p]) \/ \A e \in Els(todo[p]) : e.op \notin LockOps

(* Who runs which handler, and what timer_del and t_active have to do with it.  *)
Handles(s, x) == /\ s # << >>
                 /\ \/ Last(s).op \in {"retr_buf_handler", "rearm", "wait_handler"} /\ Last(s).rb = x
                    \/ x = "wait" /\ Last(s).op \in {"unref_free", "free"}
Does(p, o) == ~Idle(p) /\ Head(todo[p]).op = o
RunInv == mem = "live" => \A r \in Runners, x \in Timers : st[x] = r <=> Handles(todo[r], x)
WaitInv == mem = "live" => ("wait" \in added <=> st["wait"] # "off")
DelInv == \A p \in Procs : deleting[p] = IF Does(p, "timer_del") THEN Buf(p) ELSE None
ActInv == /\ \A b \in Bufs : rb[b].t_active => b \in added
          /\ \A p \in Procs : Does(p, "activate") => Buf(p) \in added
ApartInv == HandlersApart /\ mem = "live" /\ st["wait"] = "main" =>
              Idle("slow") \/ \E b \in Bufs : st[b] = "slow"

(* What wait_handler has done to the references when it gives that of the     *)
(* table back, and which timers it has stopped when it frees the cell.          *)
RefInv == mem = "live" =>
            /\ EndsWith("main", "unref_free") \/ EndsWith("main", "free") => ~hash
            /\ EndsWith("main", "unref_free") => unlinked \/ ref_count <= 1
            /\ ~unlinked => /\ EndsWith("main", "free") => ref_count = 0
                            /\ \A w \in Workers : ~EndsWith(w, "free")
Stops(p, b) == \E e \in Els(todo[p]) : e.op \in {"stop", "timer_del"} /\ e.rb = b
FreeInv == HandlersApart /\ mem = "live" /\ ~unlinked /\ EndsWith("main", "free") =>
             \A b \in Bufs : st[b] = "off" \/ Stops("main", b)

(* Who will put the transaction on wait.                                      *)
AddsReq(e) == e.op \in {"set_fr_retr", "timer_add"} /\ e.rb = "req"
ReqInv == \A p \in Procs : /\ \A e \in Later(todo[p]) : ~AddsReq(e)
                           /\ \A e \in Els(todo[p]) : AddsReq(e) => p = Creator /\ "req" \notin added
Has(p, O) == \E e \in Els(todo[p]) : e.op \in O
Pending(p) == Has(p, {"put_on_wait", "relay", "timeout"})
PendInv == mem = "live" =>
             \/ "wait" \in added
             \/ /\ \A p \in Procs : Stops(p, "req") => Pending(p)
                /\ status >= 200 => \E p \in Procs : Has(p, {"put_on_wait"})
                /\ \/ \E p \in Procs : Pending(p)
                   \/ /\ ~rb["req"].del
                      /\ st["req"] # "off" \/ \E p \in Procs : ~Idle(p) /\ AddsReq(Head(todo[p]))
-----------------------------------------------------------------------------
(* Sequences of steps.                                                       *)

(* r is s without its first step, or with o in its place.                     *)
Popped(s, r) == /\ Els(r) = Later(s) /\ (r = << >> <=> Later(s) = {})
                /\ r # << >> => /\ Last(r) = Last(s) /\ Head(r) \in Later(s)
                                /\ Early(r) \subseteq Early(s) /\ Later(r) \subseteq Later(s)
Swapped(s, o, r) == /\ r # << >> /\ Head(r) = o /\ Later(r) = Later(s) /\ Els(r) = {o} \cup Later(s)
                    /\ Later(s) = {} => Last(r) = o /\ Early(r) = {}
                    /\ Later(s) # {} => Last(r) = Last(s) /\ Early(r) \subseteq {o} \cup Early(s)

LEMMA SeqParts ==
  ASSUME NEW s \in Seq(OpRec), s # << >>
  PROVE  /\ Head(s) \in OpRec /\ Last(s) \in OpRec /\ Els(s) \subseteq OpRec
         /\ Els(s) = {Head(s)} \cup Later(s) /\ Els(s) = Early(s) \cup {Last(s)}
         /\ Later(s) = {} => Last(s) = Head(s) /\ Early(s) = {}
         /\ Later(s) # {} => Head(s) \in Early(s) /\ Last(s) \in Later(s)
<1>1. /\ Len(s) \in Nat \ {0} /\ Head(s) = s[1] /\ \A i \in 1..Len(s) : s[i] \in OpRec
  OBVIOUS
<1>2. Els(s) = {Head(s)} \cup Later(s)
  BY <1>1 DEF Els, Later
<1>3. Els(s) = Early(s) \cup {Last(s)}
  BY <1>1 DEF Els, Early, Last
<1>4. Later(s) = {} <=> Len(s) = 1
  <2>1. Len(s) # 1 => 2 \in 2..Len(s)
    BY <1>1
  <2> QED
    BY <1>1, <2>1, SMTT(30) DEF Later
<1>5. Later(s) = {} => Last(s) = Head(s) /\ Early(s) = {}
  BY <1>1, <1>4 DEF Early, Last
<1>6. Later(s) # {} => Head(s) \in Early(s) /\ Last(s) \in Later(s)
  BY <1>1, <1>4 DEF Early, Last, Later
<1>7. Head(s) \in OpRec /\ Last(s) \in OpRec /\ Els(s) \subseteq OpRec
  BY <1>1 DEF Last, Els
<1> QED
  BY <1>2, <1>3, <1>5, <1>6, <1>7

LEMMA EmptyParts ==
  Els(<< >>) = {} /\ Later(<< >>) = {} /\ Early(<< >>) = {}
BY DEF Els, Later, Early

LEMMA Pop ==
  ASSUME NEW s \in Seq(OpRec), s # << >>
  PROVE  << >> \o Tail(s) = Tail(s) /\ Tail(s) \in Seq(OpRec) /\ Popped(s, Tail(s))
<1> DEFINE r == Tail(s)
<1>1. /\ Len(s) \in Nat \ {0} /\ r \in Seq(OpRec) /\ Len(r) = Len(s) - 1
      /\ \A i \in 1..Len(r) : r[i] = s[i + 1]
      /\ \A i \in 2..Len(s) : s[i] = r[i - 1]
  OBVIOUS
<1> HIDE DEF r
<1>2. r = << >> <=> Len(r) = 0
  <2> SUFFICES ASSUME NEW t \in Seq(OpRec) PROVE t = << >> <=> Len(t) = 0
    BY <1>1
  <2> QED
    OBVIOUS
<1>3. Els(r) = Later(s)
  <2>1. \A i \in 1..Len(r) : i + 1 \in 2..Len(s)
    BY <1>1
  <2>2. \A i \in 2..Len(s) : i - 1 \in 1..Len(r)
    BY <1>1
  <2> QED
    BY <1>1, <2>1, <2>2 DEF Els, Later
<1>4. r = << >> <=> Later(s) = {}
  <2>1. Len(s) # 1 => 2 \in 2..Len(s)
    BY <1>1
  <2> QED
    BY <1>1, <1>2, <2>1, SMTT(30) DEF Later
<1>5. ASSUME r # << >>
      PROVE  /\ Last(r) = Last(s) /\ Head(r) \in Later(s)
             /\ Early(r) \subseteq Early(s) /\ Later(r) \subseteq Later(s)
  <2>1. Len(r) \in Nat \ {0} /\ Head(r) = r[1] /\ Len(s) = Len(r) + 1
    BY <1>1, <1>2, <1>5
  <2>2. Last(r) = Last(s)
    BY <1>1, <2>1 DEF Last
  <2>3. Early(r) \subseteq Early(s)
    <3>1. \A i \in 1..(Len(r) - 1) : i + 1 \in 1..(Len(s) - 1) /\ r[i] = s[i + 1]
      BY <1>1, <2>1
    <3> QED
      BY <3>1 DEF Early
  <2>4. Later(r) \subseteq Later(s) /\ Head(r) \in Later(s)
    <3>1. \A i \in 1..Len(r) : i + 1 \in 2..Len(s) /\ r[i] = s[i + 1]
      BY <1>1, <2>1
    <3>2. 1 \in 1..Len(r) /\ 2..Len(r) \subseteq 1..Len(r)
      BY <2>1
    <3> QED
      BY <2>1, <3>1, <3>2 DEF Later
  <2> QED
    BY <2>2, <2>3, <2>4
<1> QED
  BY <1>1, <1>3, <1>4, <1>5 DEF Popped, r

LEMMA Swap ==
  ASSUME NEW s \in Seq(OpRec), s # << >>, NEW o \in OpRec
  PROVE  <<o>> \o Tail(s) \in Seq(OpRec) /\ Swapped(s, o, <<o>> \o Tail(s))
<1> DEFINE r == <<o>> \o Tail(s)
<1>1. /\ Len(s) \in Nat \ {0} /\ r \in Seq(OpRec) /\ Len(r) = Len(s) /\ r # << >>
      /\ Head(r) = o /\ r[1] = o /\ \A i \in 2..Len(s) : r[i] = s[i]
  OBVIOUS
<1> HIDE DEF r
<1>2. Later(r) = Later(s)
  BY <1>1 DEF Later
<1>3. Els(r) = {o} \cup Later(s)
  BY <1>1, <1>2, SeqParts
<1>4. Later(s) = {} => Last(r) = o /\ Early(r) = {}
  BY <1>1, <1>2, SeqParts
<1>5. Later(s) # {} => Last(r) = Last(s) /\ Early(r) \subseteq {o} \cup Early(s)
  <2>1. Later(s) # {} => Len(s) \in 2..Len(s)
    BY <1>1 DEF Later
  <2>2. \A i \in 1..(Len(r) - 1) : r[i] = o \/ (r[i] = s[i] /\ i \in 1..(Len(s) - 1))
    BY <1>1
  <2> QED
    BY <1>1, <2>1, <2>2 DEF Last, Early
<1> QED
  BY <1>1, <1>2, <1>3, <1>4, <1>5 DEF Swapped, r

(* Concatenations of tuples.                                                 *)
LEMMA Cat11 ==
  ASSUME NEW a, NEW b
  PROVE  <<a>> \o <<b>> = <<a, b>>
<1> DEFINE S == {a, b}
           s == <<a>> \o <<b>>
           t == <<a, b>>
<1>1. s \in Seq(S) /\ Len(s) = 2 /\ s[1] = a /\ s[2] = b
  OBVIOUS
<1>2. t \in Seq(S) /\ Len(t) = 2 /\ t[1] = a /\ t[2] = b
  OBVIOUS
<1> HIDE DEF S, s, t
<1>3. s = t
  BY <1>1, <1>2
<1> QED
  BY <1>3 DEF s, t

LEMMA Cat21 ==
  ASSUME NEW a, NEW b, NEW c
  PROVE  <<a, b>> \o <<c>> = <<a, b, c>>
<1> DEFINE S == {a, b, c}
           s == <<a, b>> \o <<c>>
           t == <<a, b, c>>
<1>1. s \in Seq(S) /\ Len(s) = 3 /\ s[1] = a /\ s[2] = b /\ s[3] = c
  OBVIOUS
<1>2. t \in Seq(S) /\ Len(t) = 3 /\ t[1] = a /\ t[2] = b /\ t[3] = c
  OBVIOUS
<1> HIDE DEF S, s, t
<1>3. s = t
  BY <1>1, <1>2
<1> QED
  BY <1>3 DEF s, t

LEMMA Cat31 ==
  ASSUME NEW a, NEW b, NEW c, NEW d
  PROVE  <<a, b, c>> \o <<d>> = <<a, b, c, d>>
<1> DEFINE S == {a, b, c, d}
           s == <<a, b, c>> \o <<d>>
           t == <<a, b, c, d>>
<1>1. s \in Seq(S) /\ Len(s) = 4 /\ s[1] = a /\ s[2] = b /\ s[3] = c /\ s[4] = d
  OBVIOUS
<1>2. t \in Seq(S) /\ Len(t) = 4 /\ t[1] = a /\ t[2] = b /\ t[3] = c /\ t[4] = d
  OBVIOUS
<1> HIDE DEF S, s, t
<1>3. s = t
  BY <1>1, <1>2
<1> QED
  BY <1>3 DEF s, t

LEMMA Cat41 ==
  ASSUME NEW a, NEW b, NEW c, NEW d, NEW e
  PROVE  <<a, b, c, d>> \o <<e>> = <<a, b, c, d, e>>
<1> DEFINE S == {a, b, c, d, e}
           s == <<a, b, c, d>> \o <<e>>
           t == <<a, b, c, d, e>>
<1>1. s \in Seq(S) /\ Len(s) = 5 /\ s[1] = a /\ s[2] = b /\ s[3] = c /\ s[4] = d /\ s[5] = e
  OBVIOUS
<1>2. t \in Seq(S) /\ Len(t) = 5 /\ t[1] = a /\ t[2] = b /\ t[3] = c /\ t[4] = d /\ t[5] = e
  OBVIOUS
<1> HIDE DEF S, s, t
<1>3. s = t
  BY <1>1, <1>2
<1> QED
  BY <1>3 DEF s, t

LEMMA Cat12 ==
  ASSUME NEW a, NEW b, NEW c
  PROVE  <<a>> \o <<b, c>> = <<a, b, c>>
<1> DEFINE S == {a, b, c}
           s == <<a>> \o <<b, c>>
           t == <<a, b, c>>
<1>1. s \in Seq(S) /\ Len(s) = 3 /\ s[1] = a /\ s[2] = b /\ s[3] = c
  OBVIOUS
<1>2. t \in Seq(S) /\ Len(t) = 3 /\ t[1] = a /\ t[2] = b /\ t[3] = c
  OBVIOUS
<1> HIDE DEF S, s, t
<1>3. s = t
  BY <1>1, <1>2
<1> QED
  BY <1>3 DEF s, t

LEMMA Cat22 ==
  ASSUME NEW a, NEW b, NEW c, NEW d
  PROVE  <<a, b>> \o <<c, d>> = <<a, b, c, d>>
<1> DEFINE S == {a, b, c, d}
           s == <<a, b>> \o <<c, d>>
           t == <<a, b, c, d>>
<1>1. s \in Seq(S) /\ Len(s) = 4 /\ s[1] = a /\ s[2] = b /\ s[3] = c /\ s[4] = d
  OBVIOUS
<1>2. t \in Seq(S) /\ Len(t) = 4 /\ t[1] = a /\ t[2] = b /\ t[3] = c /\ t[4] = d
  OBVIOUS
<1> HIDE DEF S, s, t
<1>3. s = t
  BY <1>1, <1>2
<1> QED
  BY <1>3 DEF s, t

LEMMA Cat111 ==
  ASSUME NEW a, NEW b, NEW c
  PROVE  (<<a>> \o <<b>>) \o <<c>> = <<a, b, c>>
<1>1. <<a>> \o <<b>> = <<a, b>>
  BY Cat11, Zenon
<1>2. <<a, b>> \o <<c>> = <<a, b, c>>
  BY Cat21, Zenon
<1> QED
  BY <1>1, <1>2, Zenon

LEMMA Cat1111 ==
  ASSUME NEW a, NEW b, NEW c, NEW d
  PROVE  ((<<a>> \o <<b>>) \o <<c>>) \o <<d>> = <<a, b, c, d>>
<1>1. (<<a>> \o <<b>>) \o <<c>> = <<a, b, c>>
  BY Cat111, Zenon
<1>2. <<a, b, c>> \o <<d>> = <<a, b, c, d>>
  BY Cat31, Zenon
<1> QED
  BY <1>1, <1>2, Zenon

LEMMA CatEmpty ==
  ASSUME NEW s \in Seq(OpRec)
  PROVE  << >> \o s = s /\ s \o << >> = s
OBVIOUS

(* What there is in a tuple.                                                 *)
Is1(s, a) == /\ s # << >> /\ Head(s) = a /\ Last(s) = a
         /\ Els(s) = {a} /\ Early(s) = {} /\ Later(s) = {}

LEMMA One ==
  ASSUME NEW a
  PROVE  Is1(<<a>>, a) /\ (a \in OpRec => <<a>> \in Seq(OpRec))
<1> DEFINE s == <<a>>
<1>1. Len(s) = 1 /\ s[1] = a /\ s # << >> /\ Head(s) = a
  OBVIOUS
<1>2. a \in OpRec => s \in Seq(OpRec)
  OBVIOUS
<1> HIDE DEF s
<1>3. Els(s) = {a}
  BY <1>1, SMT DEF Els
<1>4. Early(s) = {}
  BY <1>1, SMT DEF Early
<1>5. Later(s) = {}
  BY <1>1, SMT DEF Later
<1>6. Last(s) = a
  BY <1>1, Zenon DEF Last
<1> QED
  BY <1>1, <1>2, <1>3, <1>4, <1>5, <1>6, Zenon DEF Is1, s

Is2(s, a, b) == /\ s # << >> /\ Head(s) = a /\ Last(s) = b
         /\ Els(s) = {a, b} /\ Early(s) = {a} /\ Later(s) = {b}

LEMMA Two ==
  ASSUME NEW a, NEW b
  PROVE  Is2(<<a, b>>, a, b) /\ (a \in OpRec /\ b \in OpRec => <<a, b>> \in Seq(OpRec))
<1> DEFINE s == <<a, b>>
<1>1. Len(s) = 2 /\ s[1] = a /\ s[2] = b /\ s # << >> /\ Head(s) = a
  OBVIOUS
<1>2. a \in OpRec /\ b \in OpRec => s \in Seq(OpRec)
  OBVIOUS
<1> HIDE DEF s
<1>3. Els(s) = {a, b}
  BY <1>1, SMT DEF Els
<1>4. Early(s) = {a}
  BY <1>1, SMT DEF Early
<1>5. Later(s) = {b}
  BY <1>1, SMT DEF Later
<1>6. Last(s) = b
  BY <1>1, Zenon DEF Last
<1> QED
  BY <1>1, <1>2, <1>3, <1>4, <1>5, <1>6, Zenon DEF Is2, s

Is3(s, a, b, c) == /\ s # << >> /\ Head(s) = a /\ Last(s) = c
         /\ Els(s) = {a, b, c} /\ Early(s) = {a, b} /\ Later(s) = {b, c}

LEMMA Three ==
  ASSUME NEW a, NEW b, NEW c
  PROVE  Is3(<<a, b, c>>, a, b, c) /\ (a \in OpRec /\ b \in OpRec /\ c \in OpRec => <<a, b, c>> \in Seq(OpRec))
<1> DEFINE s == <<a, b, c>>
<1>1. Len(s) = 3 /\ s[1] = a /\ s[2] = b /\ s[3] = c /\ s # << >> /\ Head(s) = a
  OBVIOUS
<1>2. a \in OpRec /\ b \in OpRec /\ c \in OpRec => s \in Seq(OpRec)
  OBVIOUS
<1> HIDE DEF s
<1>3. Els(s) = {a, b, c}
  BY <1>1, SMT DEF Els
<1>4. Early(s) = {a, b}
  BY <1>1, SMT DEF Early
<1>5. Later(s) = {b, c}
  BY <1>1, SMT DEF Later
<1>6. Last(s) = c
  BY <1>1, Zenon DEF Last
<1> QED
  BY <1>1, <1>2, <1>3, <1>4, <1>5, <1>6, Zenon DEF Is3, s

Is4(s, a, b, c, d) == /\ s # << >> /\ Head(s) = a /\ Last(s) = d
         /\ Els(s) = {a, b, c, d} /\ Early(s) = {a, b, c} /\ Later(s) = {b, c, d}

LEMMA Four ==
  ASSUME NEW a, NEW b, NEW c, NEW d
  PROVE  Is4(<<a, b, c, d>>, a, b, c, d) /\ (a \in OpRec /\ b \in OpRec /\ c \in OpRec /\ d \in OpRec => <<a, b, c, d>> \in Seq(OpRec))
<1> DEFINE s == <<a, b, c, d>>
<1>1. Len(s) = 4 /\ s[1] = a /\ s[2] = b /\ s[3] = c /\ s[4] = d /\ s # << >> /\ Head(s) = a
  OBVIOUS
<1>2. a \in OpRec /\ b \in OpRec /\ c \in OpRec /\ d \in OpRec => s \in Seq(OpRec)
  OBVIOUS
<1> HIDE DEF s
<1>3. Els(s) = {a, b, c, d}
  BY <1>1, SMT DEF Els
<1>4. Early(s) = {a, b, c}
  BY <1>1, SMT DEF Early
<1>5. Later(s) = {b, c, d}
  BY <1>1, SMT DEF Later
<1>6. Last(s) = d
  BY <1>1, Zenon DEF Last
<1> QED
  BY <1>1, <1>2, <1>3, <1>4, <1>5, <1>6, Zenon DEF Is4, s

Is5(s, a, b, c, d, e) == /\ s # << >> /\ Head(s) = a /\ Last(s) = e
         /\ Els(s) = {a, b, c, d, e} /\ Early(s) = {a, b, c, d} /\ Later(s) = {b, c, d, e}

LEMMA Five ==
  ASSUME NEW a, NEW b, NEW c, NEW d, NEW e
  PROVE  Is5(<<a, b, c, d, e>>, a, b, c, d, e) /\ (a \in OpRec /\ b \in OpRec /\ c \in OpRec /\ d \in OpRec /\ e \in OpRec => <<a, b, c, d, e>> \in Seq(OpRec))
<1> DEFINE s == <<a, b, c, d, e>>
<1>1. Len(s) = 5 /\ s[1] = a /\ s[2] = b /\ s[3] = c /\ s[4] = d /\ s[5] = e /\ s # << >> /\ Head(s) = a
  OBVIOUS
<1>2. a \in OpRec /\ b \in OpRec /\ c \in OpRec /\ d \in OpRec /\ e \in OpRec => s \in Seq(OpRec)
  OBVIOUS
<1> HIDE DEF s
<1>3. Els(s) = {a, b, c, d, e}
  BY <1>1, SMT DEF Els
<1>4. Early(s) = {a, b, c, d}
  BY <1>1, SMT DEF Early
<1>5. Later(s) = {b, c, d, e}
  BY <1>1, SMT DEF Later
<1>6. Last(s) = e
  BY <1>1, Zenon DEF Last
<1> QED
  BY <1>1, <1>2, <1>3, <1>4, <1>5, <1>6, Zenon DEF Is5, s

LEMMA Tails ==
  /\ \A a : Tail(<<a>>) = << >>
  /\ \A a, b : Tail(<<a, b>>) = <<b>>
  /\ \A a, b, c : Tail(<<a, b, c>>) = <<b, c>>
  /\ \A a, b, c, d : Tail(<<a, b, c, d>>) = <<b, c, d>>
OBVIOUS

(* The records of the steps.                                                 *)
LEMMA Steps ==
  /\ \A o, b : Op(o, b).op = o /\ Op(o, b).rb = b
  /\ \A o \in Ops, b \in Timers \cup {None} : Op(o, b) \in OpRec
BY DEF Op, OpRec

-----------------------------------------------------------------------------
(* What a step does to the program of its process.                            *)

Others(p) == todo' \in [Procs -> Seq(OpRec)] /\ \A q \in Procs : q # p => todo'[q] = todo[q]
Pops(p) == Others(p) /\ todo'[p] = Tail(todo[p]) /\ Popped(todo[p], todo'[p])
Swaps(p, o) == Others(p) /\ todo'[p] = <<o>> \o Tail(todo[p]) /\ Swapped(todo[p], o, todo'[p])
Sets(p, s) == Others(p) /\ todo'[p] = s

LEMMA ThenPops ==
  ASSUME ShapeInv, NEW p \in Procs, ~Idle(p), Then(p, << >>)
  PROVE  Pops(p)
<1>1. todo[p] \in Seq(OpRec) /\ todo[p] # << >> /\ todo' = [todo EXCEPT ![p] = << >> \o Tail(todo[p])]
  BY Zenon DEF ShapeInv, Idle, Then
<1>2. /\ << >> \o Tail(todo[p]) = Tail(todo[p]) /\ Tail(todo[p]) \in Seq(OpRec)
      /\ Popped(todo[p], Tail(todo[p]))
  BY <1>1, Pop, Zenon
<1>3. todo' = [todo EXCEPT ![p] = Tail(todo[p])]
  BY <1>1, <1>2, Zenon
<1>4. Others(p) /\ todo'[p] = Tail(todo[p])
  BY <1>2, <1>3, Zenon DEF Others, ShapeInv
<1> QED
  BY <1>2, <1>4, Zenon DEF Pops

LEMMA ThenSwaps ==
  ASSUME ShapeInv, NEW p \in Procs, ~Idle(p), NEW o \in OpRec, Then(p, <<o>>)
  PROVE  Swaps(p, o)
<1>1. todo[p] \in Seq(OpRec) /\ todo[p] # << >> /\ todo' = [todo EXCEPT ![p] = <<o>> \o Tail(todo[p])]
  BY Zenon DEF ShapeInv, Idle, Then
<1>2. <<o>> \o Tail(todo[p]) \in Seq(OpRec) /\ Swapped(todo[p], o, <<o>> \o Tail(todo[p]))
  BY <1>1, Swap, Zenon
<1>3. Others(p) /\ todo'[p] = <<o>> \o Tail(todo[p])
  BY <1>1, <1>2, Zenon DEF Others, ShapeInv
<1> QED
  BY <1>2, <1>3, Zenon DEF Swaps

LEMMA ThenSets ==
  ASSUME ShapeInv, NEW p \in Procs, ~Idle(p), Later(todo[p]) = {}, NEW s \in Seq(OpRec), Then(p, s)
  PROVE  Sets(p, s)
<1>1. todo[p] \in Seq(OpRec) /\ todo[p] # << >> /\ todo' = [todo EXCEPT ![p] = s \o Tail(todo[p])]
  BY Zenon DEF ShapeInv, Idle, Then
<1>2. Tail(todo[p]) = << >>
  BY <1>1, Pop, Zenon DEF Popped
<1>3. s \o Tail(todo[p]) = s
  BY <1>2, CatEmpty, Zenon
<1>4. todo' = [todo EXCEPT ![p] = s]
  BY <1>1, <1>3, Zenon
<1> QED
  BY <1>4, Zenon DEF Sets, Others, ShapeInv

LEMMA SetSets ==
  ASSUME ShapeInv, NEW p \in Procs, NEW s \in Seq(OpRec), todo' = [todo EXCEPT ![p] = s]
  PROVE  Sets(p, s)
BY Zenon DEF Sets, Others, ShapeInv

(* Which process does a step, and what follows it.                            *)
LEMMA Who ==
  ASSUME ShapeInv, NEW p \in Procs, ~Idle(p), NEW o, Head(todo[p]).op = o
  PROVE  /\ o \in BufOps => Buf(p) \in Bufs
         /\ o = "unref" => p \in Workers /\ Later(todo[p]) = {}
         /\ o = "free" => (p \in Workers \/ p = "main") /\ Later(todo[p]) = {}
         /\ o \in {"lock", "unlock", "relay", "provisional", "cancel_branch"} =>
              p \in Workers /\ Later(todo[p]) # {}
         /\ o \in {"stop", "timer_del"} =>
              (p \in Workers \/ (p = "main" /\ Waiting(todo[p]))) /\ Later(todo[p]) # {}
         /\ o = "retr_buf_handler" => p \in Runners /\ Later(todo[p]) = {}
         /\ o = "rearm" => /\ p \in Runners /\ Later(todo[p]) = {}
                           /\ Buf(p) = "rpl" \/ (Buf(p) = "wait" /\ p = "main")
         /\ o = "timeout" => p \in Runners /\ Later(todo[p]) = {}
         /\ o \in {"wait_handler", "unref_free"} => p = "main" /\ Later(todo[p]) = {}
         /\ o = "wait_handler" => Buf(p) = "wait"
         /\ o = "unlock_hash" => p = "main" /\ Later(todo[p]) # {}
         /\ o = "lock_unlock" => Later(todo[p]) # {}
         /\ o \in {"set_fr_retr", "timer_add", "activate", "put_on_wait"} =>
              \/ p \in Workers /\ Later(todo[p]) # {}
              \/ p \in Runners /\ Final(todo[p])
<1> DEFINE s == todo[p]
<1>1. s \in Seq(OpRec) /\ s # << >> /\ Program(p, s)
  BY Zenon DEF ShapeInv, Idle
<1>2. /\ Els(s) = {Head(s)} \cup Later(s)
      /\ Later(s) = {} => Last(s) = Head(s) /\ Early(s) = {}
      /\ Later(s) # {} => Head(s) \in Early(s) /\ Last(s) \in Later(s)
  BY <1>1, SeqParts, Zenon
<1>3. p \in Workers \/ p \in Runners
  BY Zenon DEF Procs
<1>4. Buf(p) = Head(s).rb /\ Head(s).op = o
  BY Zenon DEF Buf
<1>5. o \in BufOps => Buf(p) \in Bufs
  BY <1>1, <1>2, <1>4, Zenon DEF Program, Plain
<1>10. CASE p \in Workers
  <2>0. p \notin Runners
    BY <1>10, NamesAssumption, Zenon DEF Runners
  <2>1. CASE Later(s) = {}
    <3>1. o \in {"unref", "free"}
      BY <1>1, <1>2, <1>4, <1>10, <2>1, Zenon DEF Program, Work
    <3> QED
      BY <1>5, <1>10, <2>1, <3>1, Zenon
  <2>2. CASE Later(s) # {}
    <3>1. o \in WorkOps
      BY <1>1, <1>2, <1>4, <1>10, <2>2, Zenon DEF Program, Work
    <3> QED
      BY <1>5, <1>10, <2>2, <3>1, Zenon DEF WorkOps
  <2> QED
    BY <2>1, <2>2, Zenon
<1>11. CASE p \in Runners
  <2>1. CASE Retr(s)
    <3>1. o = "retr_buf_handler" /\ Later(s) = {}
      BY <1>4, <2>1, Zenon DEF Retr
    <3> QED
      BY <1>5, <1>11, <3>1, Zenon
  <2>2. CASE Again(s)
    <3>1. Last(s).op = "rearm" /\ Last(s).rb = "rpl"
      BY <2>2, SMT DEF Again, Op
    <3>2. (o = "lock_unlock" /\ Later(s) # {}) \/ (o = "rearm" /\ Later(s) = {} /\ Buf(p) = "rpl")
      BY <1>2, <1>4, <2>2, <3>1, Zenon DEF Again
    <3> QED
      BY <1>5, <1>11, <3>2, Zenon
  <2>3. CASE Final(s)
    <3>1. o \in FinalOps /\ (o = "timeout" => Later(s) = {})
      BY <1>2, <1>4, <2>3, Zenon DEF Final
    <3> QED
      BY <1>5, <1>11, <2>3, <3>1, Zenon DEF FinalOps
  <2>4. CASE p = "main" /\ Waiting(s)
    <3>1. \/ o \in {"wait_handler", "rearm"} /\ Later(s) = {} /\ Buf(p) = "wait"
          \/ o \in {"unref_free", "free"} /\ Later(s) = {}
          \/ o \in WaitOps /\ Later(s) # {}
      BY <1>2, <1>4, <2>4, Zenon DEF Waiting
    <3> QED
      BY <1>5, <1>11, <2>4, <3>1, Zenon DEF WaitOps
  <2> QED
    BY <1>1, <1>11, <2>1, <2>2, <2>3, <2>4, Zenon DEF Program
<1> QED
  BY <1>3, <1>10, <1>11, Zenon

(* The programs that the steps put in place.                                  *)
Freeing == <<Op("stop", "rpl"), Op("stop", "req"), Op("stop", "cnl"), Op("free", None)>>
Unlinking == <<Op("stop", "rpl"), Op("stop", "req"), Op("stop", "cnl"), Op("unlock_hash", None),
               Op("rearm", "wait")>>
Relaying(s) == s \in {<<Op("set_fr_retr", "rpl"), Op("put_on_wait", None), Op("stop", "req"), Op("unref", None)>>,
                      <<Op("put_on_wait", None), Op("stop", "req"), Op("unref", None)>>}
FakeReply(s) == s \in {<<Op("set_fr_retr", "rpl"), Op("set_fr_retr", "cnl"), Op("put_on_wait", None)>>,
                       <<Op("set_fr_retr", "rpl"), Op("put_on_wait", None)>>}

LEMMA OpsIn ==
  /\ Op("stop", "rpl") \in OpRec /\ Op("stop", "req") \in OpRec /\ Op("stop", "cnl") \in OpRec
  /\ Op("free", None) \in OpRec /\ Op("unlock_hash", None) \in OpRec /\ Op("rearm", "wait") \in OpRec
  /\ Op("rearm", "rpl") \in OpRec /\ Op("set_fr_retr", "rpl") \in OpRec /\ Op("set_fr_retr", "cnl") \in OpRec
  /\ Op("set_fr_retr", "req") \in OpRec /\ Op("put_on_wait", None) \in OpRec /\ Op("unref", None) \in OpRec
  /\ Op("lock", None) \in OpRec /\ Op("relay", None) \in OpRec /\ Op("unlock", None) \in OpRec
  /\ Op("provisional", None) \in OpRec /\ Op("cancel_branch", None) \in OpRec
  /\ Op("lock_unlock", None) \in OpRec /\ Op("timeout", None) \in OpRec /\ Op("unref_free", None) \in OpRec
  /\ Op("wait_handler", "wait") \in OpRec
  /\ \A b \in Bufs : /\ Op("timer_del", b) \in OpRec /\ Op("timer_add", b) \in OpRec
                     /\ Op("activate", b) \in OpRec /\ Op("retr_buf_handler", b) \in OpRec
<1>1. /\ "rpl" \in Timers \cup {None} /\ "req" \in Timers \cup {None} /\ "cnl" \in Timers \cup {None}
      /\ "wait" \in Timers \cup {None} /\ None \in Timers \cup {None}
      /\ \A b \in Bufs : b \in Timers \cup {None}
  BY Zenon DEF Timers, Bufs
<1>2. /\ "stop" \in Ops /\ "free" \in Ops /\ "unlock_hash" \in Ops /\ "rearm" \in Ops /\ "set_fr_retr" \in Ops
      /\ "put_on_wait" \in Ops /\ "unref" \in Ops /\ "lock" \in Ops /\ "relay" \in Ops /\ "unlock" \in Ops
      /\ "provisional" \in Ops /\ "cancel_branch" \in Ops /\ "lock_unlock" \in Ops /\ "timeout" \in Ops
      /\ "unref_free" \in Ops /\ "wait_handler" \in Ops /\ "timer_del" \in Ops /\ "timer_add" \in Ops
      /\ "activate" \in Ops /\ "retr_buf_handler" \in Ops
  BY Zenon DEF Ops
<1> QED
  BY <1>1, <1>2, Steps, Zenon

LEMMA Programs ==
  /\ unlink_timers \o Do("free") = Freeing /\ << >> \o Do("free") = <<Op("free", None)>>
  /\ (unlink_timers \o Do("unlock_hash")) \o <<Op("rearm", "wait")>> = Unlinking
  /\ t_retransmit_reply \o <<Op("rearm", "rpl")>> = <<Op("lock_unlock", None), Op("rearm", "rpl")>>
  /\ cleanup_localcancel_timers \o <<Op("wait_handler", "wait")>> =
       <<Op("stop", "cnl"), Op("wait_handler", "wait")>>
<1>1. unlink_timers = <<Op("stop", "rpl"), Op("stop", "req"), Op("stop", "cnl")>>
  BY Cat111, Zenon DEF unlink_timers, stop_rb_timers, cleanup_localcancel_timers
<1>2. /\ unlink_timers \o Do("free") = Freeing
      /\ unlink_timers \o Do("unlock_hash") = <<Op("stop", "rpl"), Op("stop", "req"), Op("stop", "cnl"),
                                                Op("unlock_hash", None)>>
  BY <1>1, Cat31, Zenon DEF Freeing, Do
<1>3. (unlink_timers \o Do("unlock_hash")) \o <<Op("rearm", "wait")>> = Unlinking
  BY <1>2, Cat41, Zenon DEF Unlinking
<1>4. t_retransmit_reply \o <<Op("rearm", "rpl")>> = <<Op("lock_unlock", None), Op("rearm", "rpl")>>
  BY Cat11, Zenon DEF t_retransmit_reply, Do
<1>5. cleanup_localcancel_timers \o <<Op("wait_handler", "wait")>> =
        <<Op("stop", "cnl"), Op("wait_handler", "wait")>>
  BY Cat11, Zenon DEF cleanup_localcancel_timers, stop_rb_timers
<1>6. << >> \o Do("free") = <<Op("free", None)>>
  BY OpsIn, One, CatEmpty, Zenon DEF Do
<1> QED
  BY <1>2, <1>3, <1>4, <1>5, <1>6, Zenon

LEMMA ProgramsIn ==
  /\ Freeing \in Seq(OpRec) /\ Unlinking \in Seq(OpRec)
  /\ \A s : Relaying(s) \/ FakeReply(s) => s \in Seq(OpRec)
<1>1. Freeing \in Seq(OpRec) /\ Unlinking \in Seq(OpRec)
  BY OpsIn, Four, Five, Zenon DEF Freeing, Unlinking
<1>2. ASSUME NEW s, Relaying(s) PROVE s \in Seq(OpRec)
  <2>1. CASE s = <<Op("set_fr_retr", "rpl"), Op("put_on_wait", None), Op("stop", "req"), Op("unref", None)>>
    BY <2>1, OpsIn, Four, Zenon
  <2>2. CASE s = <<Op("put_on_wait", None), Op("stop", "req"), Op("unref", None)>>
    BY <2>2, OpsIn, Three, Zenon
  <2> QED
    BY <1>2, <2>1, <2>2, Zenon DEF Relaying
<1>3. ASSUME NEW s, FakeReply(s) PROVE s \in Seq(OpRec)
  <2>1. CASE s = <<Op("set_fr_retr", "rpl"), Op("set_fr_retr", "cnl"), Op("put_on_wait", None)>>
    BY <2>1, OpsIn, Three, Zenon
  <2>2. CASE s = <<Op("set_fr_retr", "rpl"), Op("put_on_wait", None)>>
    BY <2>2, OpsIn, Two, Zenon
  <2> QED
    BY <1>3, <2>1, <2>2, Zenon DEF FakeReply
<1> QED
  BY <1>1, <1>2, <1>3, Zenon

(* The worker's programs.                                                    *)
Job(s) == \/ \E b \in {"req", "cnl"} : s = <<Op("lock", None), Op("stop", b)>> \o Section(b)
          \/ \E o \in {"provisional", "lock_unlock", "cancel_branch"} : s = <<Op(o, None), Op("unref", None)>>
          \/ s = <<Op("stop", "rpl"), Op("stop", "req"), Op("put_on_wait", None), Op("unref", None)>>

LEMMA SectionParts ==
  /\ Section("req") = <<Op("relay", None), Op("unref", None)>>
  /\ Section("cnl") = <<Op("unlock", None), Op("unref", None)>>
  /\ \A b \in {"req", "cnl"} : \A o \in {"stop", "timer_del"} :
       /\ <<Op("lock", None), Op("stop", b)>> \o Section(b) =
            <<Op("lock", None), Op("stop", b), Section(b)[1], Op("unref", None)>>
       /\ <<Op(o, b)>> \o Section(b) = <<Op(o, b), Section(b)[1], Op("unref", None)>>
       /\ Section(b)[1] \in {Op("relay", None), Op("unlock", None)}
       /\ Section(b) = <<Section(b)[1], Op("unref", None)>>
<1>1. /\ Section("req") = <<Op("relay", None), Op("unref", None)>>
      /\ Section("cnl") = <<Op("unlock", None), Op("unref", None)>>
  BY Zenon DEF Section
<1>2. Section("req")[1] = Op("relay", None) /\ Section("cnl")[1] = Op("unlock", None)
  BY <1>1
<1>3. ASSUME NEW b \in {"req", "cnl"}, NEW o \in {"stop", "timer_del"}
      PROVE  /\ <<Op("lock", None), Op("stop", b)>> \o Section(b) =
                  <<Op("lock", None), Op("stop", b), Section(b)[1], Op("unref", None)>>
             /\ <<Op(o, b)>> \o Section(b) = <<Op(o, b), Section(b)[1], Op("unref", None)>>
             /\ Section(b)[1] \in {Op("relay", None), Op("unlock", None)}
             /\ Section(b) = <<Section(b)[1], Op("unref", None)>>
  <2>1. Section(b) = <<Section(b)[1], Op("unref", None)>> /\ Section(b)[1] \in {Op("relay", None), Op("unlock", None)}
    BY <1>1, <1>2, Zenon
  <2> DEFINE x == Section(b)[1]
  <2> HIDE DEF x
  <2>3. /\ <<Op(o, b)>> \o <<x, Op("unref", None)>> = <<Op(o, b), x, Op("unref", None)>>
        /\ <<Op("lock", None), Op("stop", b)>> \o <<x, Op("unref", None)>> =
             <<Op("lock", None), Op("stop", b), x, Op("unref", None)>>
    BY Cat12, Cat22, Zenon
  <2> QED
    BY <2>1, <2>3, Zenon DEF x
<1> QED
  BY <1>1, <1>3, Zenon

LEMMA JobsAre ==
  ASSUME NEW s \in Jobs
  PROVE  Job(s) /\ s \in Seq(OpRec)
<1>1. Job(s)
  <2>1. CASE s = reply_received("final")
    <3>1. s = ((<<Op("lock", None)>> \o <<Op("stop", "req")>>) \o <<Op("relay", None)>>) \o <<Op("unref", None)>>
      BY <2>1, Zenon DEF reply_received, Do, stop_rb_timers
    <3>2. s = <<Op("lock", None), Op("stop", "req"), Op("relay", None), Op("unref", None)>>
      BY <3>1, Cat1111, Zenon
    <3>3. <<Op("lock", None), Op("stop", "req")>> \o <<Op("relay", None), Op("unref", None)>> =
            <<Op("lock", None), Op("stop", "req"), Op("relay", None), Op("unref", None)>>
      BY Cat22, Zenon
    <3> QED
      BY <3>2, <3>3, SectionParts, Zenon DEF Job
  <2>2. CASE s = reply_received("provisional")
    <3>1. s = <<Op("provisional", None)>> \o <<Op("unref", None)>>
      BY <2>2, Zenon DEF reply_received, Do
    <3> QED
      BY <3>1, Cat11, Zenon DEF Job
  <2>3. CASE s = reply_received("cancel")
    <3>1. s = ((<<Op("lock", None)>> \o <<Op("stop", "cnl")>>) \o <<Op("unlock", None)>>) \o <<Op("unref", None)>>
      BY <2>3, Zenon DEF reply_received, Do, stop_rb_timers
    <3>2. s = <<Op("lock", None), Op("stop", "cnl"), Op("unlock", None), Op("unref", None)>>
      BY <3>1, Cat1111, Zenon
    <3>3. <<Op("lock", None), Op("stop", "cnl")>> \o <<Op("unlock", None), Op("unref", None)>> =
            <<Op("lock", None), Op("stop", "cnl"), Op("unlock", None), Op("unref", None)>>
      BY Cat22, Zenon
    <3> QED
      BY <3>2, <3>3, SectionParts, Zenon DEF Job
  <2>4. CASE s = t_release_transaction \o Do("unref")
    <3>1. s = ((<<Op("stop", "rpl")>> \o <<Op("stop", "req")>>) \o <<Op("put_on_wait", None)>>) \o <<Op("unref", None)>>
      BY <2>4, Zenon DEF t_release_transaction, cleanup_uac_timers, Do, stop_rb_timers
    <3> QED
      BY <3>1, Cat1111, ZenonT(40) DEF Job
  <2>5. CASE s = t_retransmit_reply \o Do("unref")
    BY <2>5, Cat11, Zenon DEF Job, t_retransmit_reply, Do
  <2>6. CASE s = Do("cancel_branch") \o Do("unref")
    BY <2>6, Cat11, Zenon DEF Job, Do
  <2> QED
    BY <2>1, <2>2, <2>3, <2>4, <2>5, <2>6, Zenon DEF Jobs
<1>2. s \in Seq(OpRec)
  <2>1. \A b \in {"req", "cnl"} : Section(b)[1] \in OpRec /\ Op("stop", b) \in OpRec
    BY SectionParts, OpsIn, Zenon
  <2>2. CASE \E b \in {"req", "cnl"} : s = <<Op("lock", None), Op("stop", b)>> \o Section(b)
    <3>1. PICK b \in {"req", "cnl"} : s = <<Op("lock", None), Op("stop", b)>> \o Section(b)
      BY <2>2
    <3>2. s = <<Op("lock", None), Op("stop", b), Section(b)[1], Op("unref", None)>>
      BY <3>1, SectionParts, Zenon
    <3> QED
      BY <2>1, <3>2, OpsIn, Four, Zenon
  <2>3. CASE \E o \in {"provisional", "lock_unlock", "cancel_branch"} : s = <<Op(o, None), Op("unref", None)>>
    <3>1. PICK o \in {"provisional", "lock_unlock", "cancel_branch"} : s = <<Op(o, None), Op("unref", None)>>
      BY <2>3
    <3>2. Op(o, None) \in OpRec
      BY OpsIn, Zenon
    <3> QED
      BY <3>1, <3>2, OpsIn, Two, Zenon
  <2>4. CASE s = <<Op("stop", "rpl"), Op("stop", "req"), Op("put_on_wait", None), Op("unref", None)>>
    BY <2>4, OpsIn, Four, Zenon
  <2> QED
    BY <1>1, <2>2, <2>3, <2>4, Zenon DEF Job
<1> QED
  BY <1>1, <1>2

-----------------------------------------------------------------------------
(* What the actions do to the programs.                                       *)

LEMMA PopSteps ==
  ASSUME ShapeInv, NEW p \in Procs,
         \/ Lock(p) \/ LockUnlock(p) \/ Unlock(p) \/ timer_del(p) \/ Activate(p) \/ put_on_wait(p)
         \/ RelayProvisional(p) \/ free_cell(p) \/ TestDel(p) \/ Rearm(p) \/ UnlockHash(p)
  PROVE  Pops(p)
<1>1. ~Idle(p) /\ Then(p, << >>)
  BY Zenon DEF Lock, LockUnlock, Unlock, timer_del, Activate, put_on_wait, RelayProvisional, free_cell,
               TestDel, Rearm, UnlockHash, At
<1> QED
  BY <1>1, ThenPops, Zenon

LEMMA StopStep ==
  ASSUME ShapeInv, NEW p \in Procs, Stop(p)
  PROVE  /\ Buf(p) \in Bufs
         /\ IF rb[Buf(p)].t_active /\ Buf(p) \in added THEN Swaps(p, Op("timer_del", Buf(p))) ELSE Pops(p)
<1>1. ~Idle(p) /\ Head(todo[p]).op = "stop"
  BY Zenon DEF Stop, At
<1>2. Buf(p) \in Bufs
  BY <1>1, Who, Zenon DEF BufOps
<1>3. Then(p, IF rb[Buf(p)].t_active /\ Buf(p) \in added THEN <<Op("timer_del", Buf(p))>> ELSE << >>)
  BY Zenon DEF Stop
<1>4. Op("timer_del", Buf(p)) \in OpRec
  BY <1>2, OpsIn, Zenon
<1> QED
  BY <1>1, <1>2, <1>3, <1>4, ThenPops, ThenSwaps, Zenon

LEMMA TestAddStep ==
  ASSUME ShapeInv, NEW p \in Procs, TestAdd(p)
  PROVE  /\ Buf(p) \in Bufs
         /\ IF rb[Buf(p)].del THEN Pops(p) ELSE Swaps(p, Op("timer_add", Buf(p)))
<1>1. ~Idle(p) /\ Head(todo[p]).op = "set_fr_retr"
  BY Zenon DEF TestAdd, At
<1>2. Buf(p) \in Bufs
  BY <1>1, Who, Zenon DEF BufOps
<1>3. Then(p, IF rb[Buf(p)].del THEN << >> ELSE <<Op("timer_add", Buf(p))>>)
  BY Zenon DEF TestAdd
<1>4. Op("timer_add", Buf(p)) \in OpRec
  BY <1>2, OpsIn, Zenon
<1> QED
  BY <1>1, <1>2, <1>3, <1>4, ThenPops, ThenSwaps, Zenon

LEMMA AddRetrStep ==
  ASSUME ShapeInv, NEW p \in Procs, AddRetr(p)
  PROVE  /\ Buf(p) \in Bufs
         /\ IF Buf(p) \in added THEN Pops(p) ELSE Swaps(p, Op("activate", Buf(p)))
<1>1. ~Idle(p) /\ Head(todo[p]).op = "timer_add"
  BY Zenon DEF AddRetr, At
<1>2. Buf(p) \in Bufs
  BY <1>1, Who, Zenon DEF BufOps
<1>3. Then(p, IF Buf(p) \in added THEN << >> ELSE <<Op("activate", Buf(p))>>)
  BY Zenon DEF AddRetr
<1>4. Op("activate", Buf(p)) \in OpRec
  BY <1>2, OpsIn, Zenon
<1> QED
  BY <1>1, <1>2, <1>3, <1>4, ThenPops, ThenSwaps, Zenon

LEMMA CancelStep ==
  ASSUME ShapeInv, NEW p \in Procs, cancel_branch(p)
  PROVE  Pops(p) \/ Swaps(p, Op("set_fr_retr", "cnl"))
<1>1. ~Idle(p) /\ Then(p, IF prepare_cancel_branch THEN <<Op("set_fr_retr", "cnl")>> ELSE << >>)
  BY Zenon DEF cancel_branch, At, set_fr_retr
<1> QED
  BY <1>1, OpsIn, ThenPops, ThenSwaps, Zenon

(* The critical sections, step by step.                                       *)
LEMMA EnterParts ==
  ASSUME NEW s, Entering(s)
  PROVE  s # << >> /\ Head(s).op = "lock" /\ Inside(Tail(s))
<1>1. PICK b \in {"req", "cnl"} : s = <<Op("lock", None), Op("stop", b)>> \o Section(b)
  BY Zenon DEF Entering
<1> DEFINE x == Section(b)[1]
<1>2. /\ s = <<Op("lock", None), Op("stop", b), x, Op("unref", None)>>
      /\ <<Op("stop", b)>> \o Section(b) = <<Op("stop", b), x, Op("unref", None)>>
  BY <1>1, SectionParts, Zenon
<1> HIDE DEF x
<1>3. /\ s # << >> /\ Head(s) = Op("lock", None)
      /\ Tail(s) = <<Op("stop", b), x, Op("unref", None)>>
  BY <1>2, SMT
<1>4. Inside(Tail(s))
  BY <1>2, <1>3, Zenon DEF Inside
<1> QED
  BY <1>3, <1>4, Steps, Zenon

LEMMA InsideParts ==
  ASSUME NEW s, Inside(s)
  PROVE  /\ s # << >>
         /\ \/ /\ Head(s).op \in {"stop", "timer_del"} /\ Head(s).rb \in {"req", "cnl"} /\ Inside(Tail(s))
               /\ Inside(<<Op("timer_del", Head(s).rb)>> \o Tail(s))
            \/ Head(s).op = "relay" /\ s = <<Op("relay", None), Op("unref", None)>>
            \/ Head(s).op = "unlock" /\ s = <<Op("unlock", None), Op("unref", None)>>
<1>1. PICK b \in {"req", "cnl"} : \/ \E o \in {"stop", "timer_del"} : s = <<Op(o, b)>> \o Section(b)
                                  \/ s = Section(b)
  BY Zenon DEF Inside
<1>2. CASE \E o \in {"stop", "timer_del"} : s = <<Op(o, b)>> \o Section(b)
  <2>1. PICK o \in {"stop", "timer_del"} : s = <<Op(o, b)>> \o Section(b)
    BY <1>2
  <2> DEFINE x == Section(b)[1]
  <2>2. s = <<Op(o, b), x, Op("unref", None)>> /\ Section(b) = <<x, Op("unref", None)>>
    BY <2>1, SectionParts, Zenon
  <2> HIDE DEF x
  <2>3. s # << >> /\ Head(s) = Op(o, b) /\ Tail(s) = <<x, Op("unref", None)>>
    BY <2>2, SMT
  <2>4. Tail(s) = Section(b)
    BY <2>2, <2>3, Zenon
  <2>5. Head(s).op = o /\ Head(s).rb = b
    BY <2>3, SMT DEF Op
  <2> QED
    BY <2>3, <2>4, <2>5, Zenon DEF Inside
<1>3. CASE s = Section(b)
  <2>1. CASE b = "req"
    <3>1. s = <<Op("relay", None), Op("unref", None)>>
      BY <1>3, <2>1, SectionParts, Zenon
    <3>2. s # << >> /\ Head(s) = Op("relay", None)
      BY <3>1, SMT
    <3> QED
      BY <3>1, <3>2, Steps, Zenon
  <2>2. CASE b = "cnl"
    <3>1. s = <<Op("unlock", None), Op("unref", None)>>
      BY <1>3, <2>2, SectionParts, Zenon
    <3>2. s # << >> /\ Head(s) = Op("unlock", None)
      BY <3>1, SMT
    <3> QED
      BY <3>1, <3>2, Steps, Zenon
  <2> QED
    BY <2>1, <2>2, Zenon
<1> QED
  BY <1>1, <1>2, <1>3, Zenon

LEMMA RelayStep ==
  ASSUME ShapeInv, LockInv, NEW p \in Procs, RelayReply(p)
  PROVE  /\ p \in Workers /\ reply_lock = p /\ todo[p] = <<Op("relay", None), Op("unref", None)>>
         /\ IF Completes THEN \E s : Relaying(s) /\ Sets(p, s) ELSE Sets(p, <<Op("unref", None)>>)
<1>1. ~Idle(p) /\ Head(todo[p]).op = "relay"
  BY Zenon DEF RelayReply, At
<1>2. todo[p] \in Seq(OpRec) /\ todo[p] # << >> /\ Els(todo[p]) = {Head(todo[p])} \cup Later(todo[p])
  BY <1>1, SeqParts, Zenon DEF ShapeInv, Idle
<1>3. Inside(todo[p]) /\ reply_lock = p
  BY <1>1, <1>2, EnterParts, Zenon DEF LockInv, LockOps
<1>4. todo[p] = <<Op("relay", None), Op("unref", None)>>
  BY <1>1, <1>3, InsideParts, Zenon
<1>5. Tail(todo[p]) = <<Op("unref", None)>>
  BY <1>4, Tails, Zenon
<1>6. PICK code \in {200, 408} :
        Then(p, IF Completes THEN (start_final_repl_retr(code) \o Do("put_on_wait")) \o cleanup_uac_timers ELSE << >>)
  BY ZenonT(40) DEF RelayReply
<1>7. CASE ~Completes
  <2>1. todo' = [todo EXCEPT ![p] = << >> \o <<Op("unref", None)>>]
    BY <1>5, <1>6, <1>7, Zenon DEF Then
  <2>2. <<Op("unref", None)>> \in Seq(OpRec)
    BY OpsIn, One, Zenon
  <2>3. << >> \o <<Op("unref", None)>> = <<Op("unref", None)>>
    BY <2>2, CatEmpty, Zenon
  <2>4. Sets(p, <<Op("unref", None)>>)
    BY <2>1, <2>2, <2>3, SetSets, Zenon
  <2> QED
    BY <1>1, <1>3, <1>4, <1>7, <2>4, Who, ZenonT(40)
<1>8. CASE Completes
  <2> DEFINE r == (start_final_repl_retr(code) \o Do("put_on_wait")) \o cleanup_uac_timers
  <2>1. todo' = [todo EXCEPT ![p] = r \o <<Op("unref", None)>>]
    BY <1>5, <1>6, <1>8, Zenon DEF Then
  <2>2. Relaying(r \o <<Op("unref", None)>>)
    <3>1. CASE code = 200
      <4>1. start_final_repl_retr(code) = << >>
        BY <3>1 DEF start_final_repl_retr
      <4>2. << >> \o <<Op("put_on_wait", None)>> = <<Op("put_on_wait", None)>>
        <5>1. <<Op("put_on_wait", None)>> \in Seq(OpRec)
          BY OpsIn, One, Zenon
        <5> QED
          BY <5>1, CatEmpty, Zenon
      <4>3. r = <<Op("put_on_wait", None)>> \o <<Op("stop", "req")>>
        BY <4>1, <4>2, Zenon DEF Do, cleanup_uac_timers, stop_rb_timers
      <4>4. r \o <<Op("unref", None)>> = <<Op("put_on_wait", None), Op("stop", "req"), Op("unref", None)>>
        BY <4>3, Cat111, Zenon
      <4> QED
        BY <4>4, Zenon DEF Relaying
    <3>2. CASE code = 408
      <4>1. start_final_repl_retr(code) = <<Op("set_fr_retr", "rpl")>>
        BY <3>2 DEF start_final_repl_retr, set_fr_retr
      <4>2. r = (<<Op("set_fr_retr", "rpl")>> \o <<Op("put_on_wait", None)>>) \o <<Op("stop", "req")>>
        BY <4>1, Zenon DEF Do, cleanup_uac_timers, stop_rb_timers
      <4>3. ((<<Op("set_fr_retr", "rpl")>> \o <<Op("put_on_wait", None)>>) \o <<Op("stop", "req")>>)
              \o <<Op("unref", None)>> =
            <<Op("set_fr_retr", "rpl"), Op("put_on_wait", None), Op("stop", "req"), Op("unref", None)>>
        BY Cat1111, Zenon
      <4> QED
        BY <4>2, <4>3, Zenon DEF Relaying
    <3> QED
      BY <3>1, <3>2, Zenon
  <2> HIDE DEF r
  <2>3. Sets(p, r \o <<Op("unref", None)>>)
    BY <2>1, <2>2, ProgramsIn, SetSets, Zenon
  <2> QED
    BY <1>1, <1>3, <1>4, <1>8, <2>2, <2>3, Who, ZenonT(40)
<1> QED
  BY <1>7, <1>8, Zenon

LEMMA UnrefStep ==
  ASSUME ShapeInv, NEW p \in Procs, Unref(p)
  PROVE  p \in Workers /\ Sets(p, IF ref_count = 1 THEN Freeing ELSE << >>)
<1>1. ~Idle(p) /\ Head(todo[p]).op = "unref"
  BY Zenon DEF Unref, At
<1>2. Then(p, IF ref_count = 1 THEN Freeing ELSE << >>)
  BY Programs, Zenon DEF Unref
<1>3. p \in Workers /\ Later(todo[p]) = {}
  BY <1>1, Who, Zenon
<1>4. (IF ref_count = 1 THEN Freeing ELSE << >>) \in Seq(OpRec)
  BY ProgramsIn
<1> QED
  BY <1>1, <1>2, <1>3, <1>4, ThenSets, Zenon

LEMMA RetransmitStep ==
  ASSUME ShapeInv, NEW p \in Procs, Retransmit(p)
  PROVE  /\ p \in Runners /\ Later(todo[p]) = {} /\ Buf(p) \in Bufs
         /\ IF Buf(p) = "rpl" THEN Sets(p, <<Op("lock_unlock", None), Op("rearm", "rpl")>>) ELSE Pops(p)
<1>1. ~Idle(p) /\ Head(todo[p]).op = "retr_buf_handler"
  BY Zenon DEF Retransmit, At
<1>2. p \in Runners /\ Later(todo[p]) = {} /\ Buf(p) \in Bufs
  BY <1>1, Who, Zenon DEF BufOps
<1>3. CASE Buf(p) = "rpl"
  <2>1. Then(p, <<Op("lock_unlock", None), Op("rearm", "rpl")>>)
    BY <1>3, Programs, Zenon DEF Retransmit
  <2>2. <<Op("lock_unlock", None), Op("rearm", "rpl")>> \in Seq(OpRec)
    BY OpsIn, Two, Zenon
  <2>3. Sets(p, <<Op("lock_unlock", None), Op("rearm", "rpl")>>)
    BY <1>1, <1>2, <2>1, <2>2, ThenSets, Zenon
  <2> QED
    BY <1>2, <1>3, <2>3, Zenon
<1>4. CASE Buf(p) # "rpl"
  <2>1. Pops(p)
    BY <1>1, <1>4, ThenPops, Zenon DEF Retransmit
  <2> QED
    BY <1>2, <1>4, <2>1, Zenon
<1> QED
  BY <1>3, <1>4, Zenon

LEMMA FinalStep ==
  ASSUME ShapeInv, NEW p \in Procs, FinalResponse(p)
  PROVE  /\ p \in Runners /\ Later(todo[p]) = {} /\ Buf(p) \in Bufs
         /\ Buf(p) = "cnl" => Sets(p, << >>)
         /\ Buf(p) = "rpl" => Sets(p, <<Op("put_on_wait", None)>>)
         /\ Buf(p) = "req" => Sets(p, <<Op("timeout", None)>>)
<1>1. ~Idle(p) /\ Head(todo[p]).op = "retr_buf_handler"
  BY Zenon DEF FinalResponse, At
<1>2. p \in Runners /\ Later(todo[p]) = {} /\ Buf(p) \in Bufs
  BY <1>1, Who, Zenon DEF BufOps
<1>3. Then(p, CASE Buf(p) = "cnl" -> << >>
                [] Buf(p) = "rpl" -> <<Op("put_on_wait", None)>>
                [] Buf(p) = "req" -> <<Op("timeout", None)>>)
  BY Zenon DEF FinalResponse, Do
<1>4. /\ Buf(p) = "cnl" => Then(p, << >>)
      /\ Buf(p) = "rpl" => Then(p, <<Op("put_on_wait", None)>>)
      /\ Buf(p) = "req" => Then(p, <<Op("timeout", None)>>)
  BY <1>3, SMT
<1>5. << >> \in Seq(OpRec) /\ <<Op("put_on_wait", None)>> \in Seq(OpRec) /\ <<Op("timeout", None)>> \in Seq(OpRec)
  BY OpsIn, One
<1>6. Buf(p) = "cnl" => Sets(p, << >>)
  BY <1>1, <1>2, <1>4, <1>5, ThenSets, Zenon
<1>7. Buf(p) = "rpl" => Sets(p, <<Op("put_on_wait", None)>>)
  BY <1>1, <1>2, <1>4, <1>5, ThenSets, Zenon
<1>8. Buf(p) = "req" => Sets(p, <<Op("timeout", None)>>)
  BY <1>1, <1>2, <1>4, <1>5, ThenSets, Zenon
<1> QED
  BY <1>2, <1>6, <1>7, <1>8, Zenon

LEMMA TimeoutStep ==
  ASSUME ShapeInv, NEW p \in Procs, Timeout(p)
  PROVE  /\ p \in Runners
         /\ \/ UNCHANGED status /\ Sets(p, <<Op("put_on_wait", None)>>)
            \/ Completes /\ status' = 408 /\ \E s : FakeReply(s) /\ Sets(p, s)
            \/ ~Completes /\ UNCHANGED status /\ (Sets(p, << >>) \/ Sets(p, <<Op("set_fr_retr", "cnl")>>))
<1>1. ~Idle(p) /\ Head(todo[p]).op = "timeout"
  BY Zenon DEF Timeout, At
<1>2. p \in Runners /\ Later(todo[p]) = {}
  BY <1>1, Who, Zenon
<1>3. /\ << >> \in Seq(OpRec) /\ <<Op("put_on_wait", None)>> \in Seq(OpRec)
      /\ <<Op("set_fr_retr", "cnl")>> \in Seq(OpRec) /\ <<Op("set_fr_retr", "rpl")>> \in Seq(OpRec)
  BY OpsIn, One
<1>4. CASE last_received = 0 /\ UNCHANGED reply /\ Then(p, Do("put_on_wait"))
  <2>1. Sets(p, <<Op("put_on_wait", None)>>)
    BY <1>1, <1>2, <1>3, <1>4, ThenSets, Zenon DEF Do
  <2> QED
    BY <1>2, <1>4, <2>1, Zenon DEF reply
<1> DEFINE A == IF Completes THEN start_final_repl_retr(408) ELSE << >>
           B == IF prepare_cancel_branch THEN set_fr_retr("cnl") ELSE << >>
           C == IF Completes THEN Do("put_on_wait") ELSE << >>
           r == (A \o B) \o C
<1>5. CASE Stores(408) /\ Then(p, r)
  <2>0. status' = IF Completes THEN 408 ELSE status
    BY <1>5, Zenon DEF Stores
  <2>1. CASE Completes
    <3>1. A = <<Op("set_fr_retr", "rpl")>> /\ C = <<Op("put_on_wait", None)>>
      BY <2>1 DEF start_final_repl_retr, set_fr_retr, Do
    <3>2. FakeReply(r)
      <4>1. CASE prepare_cancel_branch
        <5>1. B = <<Op("set_fr_retr", "cnl")>>
          BY <4>1, Zenon DEF set_fr_retr
        <5> HIDE DEF A, B, C
        <5>2. r = (<<Op("set_fr_retr", "rpl")>> \o <<Op("set_fr_retr", "cnl")>>) \o <<Op("put_on_wait", None)>>
          BY <3>1, <5>1, Zenon
        <5>3. (<<Op("set_fr_retr", "rpl")>> \o <<Op("set_fr_retr", "cnl")>>) \o <<Op("put_on_wait", None)>>
                = <<Op("set_fr_retr", "rpl"), Op("set_fr_retr", "cnl"), Op("put_on_wait", None)>>
          BY Cat111, Zenon
        <5> QED
          BY <5>2, <5>3, Zenon DEF FakeReply
      <4>2. CASE ~prepare_cancel_branch
        <5>1. B = << >>
          BY <4>2, Zenon
        <5> HIDE DEF A, B, C
        <5>2. A \o B = <<Op("set_fr_retr", "rpl")>>
          BY <1>3, <3>1, <5>1, CatEmpty, Zenon
        <5>3. <<Op("set_fr_retr", "rpl")>> \o <<Op("put_on_wait", None)>> =
              <<Op("set_fr_retr", "rpl"), Op("put_on_wait", None)>>
          BY Cat11, Zenon
        <5> QED
          BY <3>1, <5>2, <5>3, Zenon DEF FakeReply
      <4> QED
        BY <4>1, <4>2, Zenon
    <3> HIDE DEF r
    <3>3. Sets(p, r)
      BY <1>1, <1>2, <1>5, <3>2, ProgramsIn, ThenSets, Zenon
    <3> QED
      BY <1>2, <2>0, <2>1, <3>2, <3>3, Zenon
  <2>2. CASE ~Completes
    <3>1. A = << >> /\ C = << >> /\ (B = << >> \/ B = <<Op("set_fr_retr", "cnl")>>)
      BY <2>2, Zenon DEF set_fr_retr
    <3> HIDE DEF A, B, C
    <3>2. r = B /\ B \in Seq(OpRec)
      BY <1>3, <3>1, CatEmpty, Zenon
    <3> HIDE DEF r
    <3>3. Sets(p, B)
      BY <1>1, <1>2, <1>5, <3>2, ThenSets, Zenon
    <3> QED
      BY <1>2, <2>0, <2>2, <3>1, <3>3, Zenon
  <2> QED
    BY <2>1, <2>2, Zenon
<1> QED
  BY <1>4, <1>5, Zenon DEF Timeout

LEMMA WaitStep ==
  ASSUME ShapeInv, wait_handler
  PROVE  /\ "main" \in Procs /\ Later(todo["main"]) = {} /\ Last(todo["main"]) = Head(todo["main"])
         /\ \/ ref_count > 1 /\ UNCHANGED <<hash, unlinked>> /\ Sets("main", <<Op("rearm", "wait")>>)
            \/ ref_count > 1 /\ hash' = FALSE /\ UNCHANGED unlinked /\ Sets("main", Unlinking)
            \/ /\ unlinked' = TRUE /\ UNCHANGED hash /\ ~hash
               /\ Sets("main", <<Op("unref_free", None)>>)
            \/ /\ ref_count <= 1 /\ hash' = FALSE /\ UNCHANGED unlinked
               /\ Sets("main", <<Op("unref_free", None)>>)
<1>0. "main" \in Procs
  BY Zenon DEF Procs, Runners
<1>1. ~Idle("main") /\ Head(todo["main"]).op = "wait_handler"
  BY Zenon DEF wait_handler, At
<1>2. Later(todo["main"]) = {} /\ Last(todo["main"]) = Head(todo["main"])
  <2>1. Later(todo["main"]) = {}
    BY <1>0, <1>1, Who, Zenon
  <2> QED
    BY <1>0, <1>1, <2>1, SeqParts, Zenon DEF ShapeInv, Idle
<1>3. <<Op("rearm", "wait")>> \in Seq(OpRec) /\ Unlinking \in Seq(OpRec) /\ <<Op("unref_free", None)>> \in Seq(OpRec)
  BY OpsIn, One, ProgramsIn, Zenon
<1>4. \/ ref_count > 1 /\ UNCHANGED <<hash, unlinked>> /\ Then("main", <<Op("rearm", "wait")>>)
      \/ ref_count > 1 /\ hash' = FALSE /\ UNCHANGED unlinked /\ Then("main", Unlinking)
      \/ unlinked' = TRUE /\ UNCHANGED hash /\ ~hash /\ Then("main", <<Op("unref_free", None)>>)
      \/ ref_count <= 1 /\ hash' = FALSE /\ UNCHANGED unlinked /\ Then("main", <<Op("unref_free", None)>>)
  BY Programs, Zenon DEF wait_handler, Do
<1>5. \A s \in Seq(OpRec) : Then("main", s) => Sets("main", s)
  BY <1>0, <1>1, <1>2, ThenSets, Zenon
<1> QED
  BY <1>0, <1>2, <1>3, <1>4, <1>5, Zenon

LEMMA UnrefFreeStep ==
  ASSUME ShapeInv, NEW p \in Procs, UnrefFree(p), ref_count \in Nat, ref_count >= 1,
         unlinked \/ ref_count <= 1
  PROVE  /\ p = "main" /\ Later(todo[p]) = {} /\ Last(todo[p]) = Head(todo[p])
         /\ Head(todo[p]).op = "unref_free"
         /\ \/ ref_count = 1 /\ Sets(p, Freeing)
            \/ unlinked /\ (Sets(p, Freeing) \/ Sets(p, <<Op("free", None)>>))
<1>1. ~Idle(p) /\ Head(todo[p]).op = "unref_free"
  BY Zenon DEF UnrefFree, At
<1>2. p = "main" /\ Later(todo[p]) = {}
  BY <1>1, Who, Zenon
<1>3. Last(todo[p]) = Head(todo[p])
  BY <1>1, <1>2, SeqParts, Zenon DEF ShapeInv, Idle
<1>4. Freeing \in Seq(OpRec) /\ <<Op("free", None)>> \in Seq(OpRec)
  BY OpsIn, One, ProgramsIn, Zenon
<1> DEFINE B == (IF \E b \in Bufs : st[b] = "armed" THEN unlink_timers ELSE << >>) \o Do("free")
           A == unlink_timers \o Do("free")
<1>5. Then(p, CASE ref_count = 1 -> A [] ref_count > 1 /\ unlinked -> B)
  BY Zenon DEF UnrefFree
<1>6. A = Freeing /\ (B = Freeing \/ B = <<Op("free", None)>>)
  BY Programs, Zenon
<1> HIDE DEF A, B
<1>7. ref_count = 1 \/ (ref_count > 1 /\ unlinked)
  BY SMT
<1>8. (ref_count = 1 /\ Then(p, A)) \/ (unlinked /\ (Then(p, A) \/ Then(p, B)))
  BY <1>5, <1>7, SMT
<1>9. \A s \in Seq(OpRec) : Then(p, s) => Sets(p, s)
  BY <1>1, <1>2, ThenSets, Zenon
<1> QED
  BY <1>1, <1>2, <1>3, <1>4, <1>6, <1>8, <1>9, Zenon

LEMMA OtherSteps ==
  ASSUME ShapeInv
  PROVE  /\ \A p \in Workers : Lookup(p) => \E s : Job(s) /\ Sets(p, s)
         /\ \A p \in Runners, b \in Bufs : FireRetr(p, b) => Sets(p, <<Op("retr_buf_handler", b)>>)
         /\ FireWait => Sets("main", <<Op("stop", "cnl"), Op("wait_handler", "wait")>>)
<1>1. ASSUME NEW p \in Workers, Lookup(p) PROVE \E s : Job(s) /\ Sets(p, s)
  <2>1. PICK s \in Jobs : todo' = [todo EXCEPT ![p] = s]
    BY <1>1, Zenon DEF Lookup
  <2>2. p \in Procs
    BY Zenon DEF Procs
  <2>3. Job(s) /\ s \in Seq(OpRec)
    BY JobsAre, Zenon
  <2> QED
    BY <2>1, <2>2, <2>3, SetSets, Zenon
<1>2. ASSUME NEW p \in Runners, NEW b \in Bufs, FireRetr(p, b) PROVE Sets(p, <<Op("retr_buf_handler", b)>>)
  <2>1. <<Op("retr_buf_handler", b)>> \in Seq(OpRec) /\ p \in Procs
    BY OpsIn, One, Zenon DEF Procs
  <2> QED
    BY <1>2, <2>1, SetSets, Zenon DEF FireRetr
<1>3. ASSUME FireWait PROVE Sets("main", <<Op("stop", "cnl"), Op("wait_handler", "wait")>>)
  <2>1. todo' = [todo EXCEPT !["main"] = <<Op("stop", "cnl"), Op("wait_handler", "wait")>>] /\ "main" \in Procs
    BY <1>3, Programs, Zenon DEF FireWait, Procs, Runners
  <2>2. <<Op("stop", "cnl"), Op("wait_handler", "wait")>> \in Seq(OpRec)
    BY OpsIn, Two, Zenon
  <2> QED
    BY <2>1, <2>2, SetSets, Zenon
<1> QED
  BY <1>1, <1>2, <1>3, Zenon

-----------------------------------------------------------------------------
(* The programs stay of their kinds.                                          *)

LEMMA PopProgram ==
  ASSUME NEW p \in Procs, NEW s \in Seq(OpRec), s # << >>, NEW r, Program(p, s), Popped(s, r)
  PROVE  Program(p, r)
<1>1. /\ Els(s) = {Head(s)} \cup Later(s)
      /\ Later(s) # {} => Head(s) \in Early(s) /\ Last(s) \in Later(s)
  BY SeqParts, Zenon
<1>2. CASE r = << >>
  BY <1>2, EmptyParts, Zenon DEF Program, Plain, Work, Final
<1>3. CASE r # << >>
  <2>1. /\ Els(r) = Later(s) /\ Later(s) # {} /\ Last(r) = Last(s)
        /\ Early(r) \subseteq Early(s) /\ Later(r) \subseteq Later(s)
    BY <1>3, Zenon DEF Popped
  <2>2. Plain(r) /\ (p \in Workers => Work(r))
    BY <1>1, <1>3, <2>1, Zenon DEF Program, Plain, Work
  <2>3. Retr(s) => FALSE
    BY <2>1, Zenon DEF Retr
  <2>4. Again(s) => Again(r)
    BY <1>3, <2>1, Zenon DEF Again
  <2>5. Final(s) => Final(r)
    BY <1>1, <2>1, Zenon DEF Final
  <2>6. Waiting(s) => Waiting(r)
    BY <1>3, <2>1, Zenon DEF Waiting
  <2> QED
    BY <2>2, <2>3, <2>4, <2>5, <2>6, Zenon DEF Program
<1> QED
  BY <1>2, <1>3, Zenon

LEMMA SwapProgram ==
  ASSUME NEW p \in Procs, NEW s \in Seq(OpRec), s # << >>, NEW o \in OpRec, NEW r, Program(p, s), Swapped(s, o, r),
         o.op \in BufOps => o.rb \in Bufs, o.op \notin {"timeout", "lock_unlock"},
         p \in Workers => Head(s).op \in WorkOps /\ o.op \in WorkOps,
         p \in Runners => \/ Final(s) /\ o.op \in FinalOps
                          \/ p = "main" /\ Waiting(s) /\ Later(s) # {} /\ o.op \in WaitOps
  PROVE  Program(p, r)
<1>1. /\ Els(s) = {Head(s)} \cup Later(s)
      /\ Later(s) = {} => Last(s) = Head(s)
  BY SeqParts, Zenon
<1>2. Plain(r)
  BY <1>1, Zenon DEF Swapped, Program, Plain
<1>3. p \in Workers => Work(r)
  <2> SUFFICES ASSUME p \in Workers PROVE Work(r)
    OBVIOUS
  <2>1. Work(s) /\ Head(s).op \in WorkOps /\ o.op \in WorkOps
    BY Zenon DEF Program
  <2>2. Later(s) # {}
    BY <1>1, <2>1, Zenon DEF Work, WorkOps
  <2> QED
    BY <2>1, <2>2, Zenon DEF Work, Swapped
<1>4. Final(s) /\ o.op \in FinalOps => Final(r)
  BY <1>1, Zenon DEF Final, Swapped
<1>5. Waiting(s) /\ Later(s) # {} /\ o.op \in WaitOps => Waiting(r)
  BY Zenon DEF Waiting, Swapped
<1> QED
  BY <1>2, <1>3, <1>4, <1>5, Zenon DEF Program

LEMMA KeepShape ==
  ASSUME ShapeInv, NEW p \in Procs, Others(p), Program(p, todo'[p])
  PROVE  ShapeInv'
<1>1. \A q \in Procs : Program(q, todo'[q])
  BY Zenon DEF ShapeInv, Others
<1>2. todo' \in [Procs -> Seq(OpRec)]
  BY Zenon DEF Others
<1> QED
  BY <1>1, <1>2, Zenon DEF ShapeInv

LEMMA PopShape ==
  ASSUME ShapeInv, NEW p \in Procs, ~Idle(p), Pops(p)
  PROVE  ShapeInv'
<1>1. todo[p] \in Seq(OpRec) /\ todo[p] # << >> /\ Program(p, todo[p])
  BY Zenon DEF ShapeInv, Idle
<1>2. Program(p, todo'[p])
  BY <1>1, PopProgram, Zenon DEF Pops
<1> QED
  BY <1>2, KeepShape, Zenon DEF Pops

LEMMA SwapShape ==
  ASSUME ShapeInv, NEW p \in Procs, ~Idle(p), NEW o \in OpRec, Swaps(p, o),
         o.op \in BufOps => o.rb \in Bufs, o.op \notin {"timeout", "lock_unlock"},
         p \in Workers => Head(todo[p]).op \in WorkOps /\ o.op \in WorkOps,
         p \in Runners => \/ Final(todo[p]) /\ o.op \in FinalOps
                          \/ p = "main" /\ Waiting(todo[p]) /\ Later(todo[p]) # {} /\ o.op \in WaitOps
  PROVE  ShapeInv'
<1>1. todo[p] \in Seq(OpRec) /\ todo[p] # << >> /\ Program(p, todo[p])
  BY Zenon DEF ShapeInv, Idle
<1>2. Program(p, todo'[p])
  BY <1>1, SwapProgram, Zenon DEF Swaps
<1> QED
  BY <1>2, KeepShape, Zenon DEF Swaps

LEMMA SetShape ==
  ASSUME ShapeInv, NEW p \in Procs, NEW s, Sets(p, s), Program(p, s)
  PROVE  ShapeInv'
BY KeepShape, Zenon DEF Sets

(* The programs that the steps put in place are of these kinds.                *)
LEMMA FreeingWork ==
  Plain(<<Op("stop", "rpl"), Op("stop", "req"), Op("stop", "cnl"), Op("free", None)>>) /\ Work(<<Op("stop", "rpl"), Op("stop", "req"), Op("stop", "cnl"), Op("free", None)>>)
<1> DEFINE s == <<Op("stop", "rpl"), Op("stop", "req"), Op("stop", "cnl"), Op("free", None)>>
<1>1. Is4(s, Op("stop", "rpl"), Op("stop", "req"), Op("stop", "cnl"), Op("free", None))
  BY Four, Zenon
<1> HIDE DEF s
<1>2. Plain(s)
  BY <1>1, SMT DEF Is4, Plain, BufOps, Bufs, HeadOps, Op
<1>3. Work(s)
  BY <1>1, SMT DEF Is4, Work, WorkOps, Op
<1> QED
  BY <1>2, <1>3, Zenon DEF s

LEMMA FreeingWaits ==
  Plain(<<Op("stop", "rpl"), Op("stop", "req"), Op("stop", "cnl"), Op("free", None)>>) /\ Waiting(<<Op("stop", "rpl"), Op("stop", "req"), Op("stop", "cnl"), Op("free", None)>>)
<1> DEFINE s == <<Op("stop", "rpl"), Op("stop", "req"), Op("stop", "cnl"), Op("free", None)>>
<1>1. Is4(s, Op("stop", "rpl"), Op("stop", "req"), Op("stop", "cnl"), Op("free", None))
  BY Four, Zenon
<1> HIDE DEF s
<1>2. Plain(s)
  BY <1>1, SMT DEF Is4, Plain, BufOps, Bufs, HeadOps, Op
<1>3. Waiting(s)
  BY <1>1, SMT DEF Is4, Waiting, WaitOps, Op
<1> QED
  BY <1>2, <1>3, Zenon DEF s

LEMMA UnlinkingWaits ==
  Plain(<<Op("stop", "rpl"), Op("stop", "req"), Op("stop", "cnl"), Op("unlock_hash", None), Op("rearm", "wait")>>) /\ Waiting(<<Op("stop", "rpl"), Op("stop", "req"), Op("stop", "cnl"), Op("unlock_hash", None), Op("rearm", "wait")>>)
<1> DEFINE s == <<Op("stop", "rpl"), Op("stop", "req"), Op("stop", "cnl"), Op("unlock_hash", None), Op("rearm", "wait")>>
<1>1. Is5(s, Op("stop", "rpl"), Op("stop", "req"), Op("stop", "cnl"), Op("unlock_hash", None), Op("rearm", "wait"))
  BY Five, Zenon
<1> HIDE DEF s
<1>2. Plain(s)
  BY <1>1, SMT DEF Is5, Plain, BufOps, Bufs, HeadOps, Op
<1>3. Waiting(s)
  BY <1>1, SMT DEF Is5, Waiting, WaitOps, Op
<1> QED
  BY <1>2, <1>3, Zenon DEF s

LEMMA Relaying4 ==
  Plain(<<Op("set_fr_retr", "rpl"), Op("put_on_wait", None), Op("stop", "req"), Op("unref", None)>>) /\ Work(<<Op("set_fr_retr", "rpl"), Op("put_on_wait", None), Op("stop", "req"), Op("unref", None)>>)
<1> DEFINE s == <<Op("set_fr_retr", "rpl"), Op("put_on_wait", None), Op("stop", "req"), Op("unref", None)>>
<1>1. Is4(s, Op("set_fr_retr", "rpl"), Op("put_on_wait", None), Op("stop", "req"), Op("unref", None))
  BY Four, Zenon
<1> HIDE DEF s
<1>2. Plain(s)
  BY <1>1, SMT DEF Is4, Plain, BufOps, Bufs, HeadOps, Op
<1>3. Work(s)
  BY <1>1, SMT DEF Is4, Work, WorkOps, Op
<1> QED
  BY <1>2, <1>3, Zenon DEF s

LEMMA Relaying3 ==
  Plain(<<Op("put_on_wait", None), Op("stop", "req"), Op("unref", None)>>) /\ Work(<<Op("put_on_wait", None), Op("stop", "req"), Op("unref", None)>>)
<1> DEFINE s == <<Op("put_on_wait", None), Op("stop", "req"), Op("unref", None)>>
<1>1. Is3(s, Op("put_on_wait", None), Op("stop", "req"), Op("unref", None))
  BY Three, Zenon
<1> HIDE DEF s
<1>2. Plain(s)
  BY <1>1, SMT DEF Is3, Plain, BufOps, Bufs, HeadOps, Op
<1>3. Work(s)
  BY <1>1, SMT DEF Is3, Work, WorkOps, Op
<1> QED
  BY <1>2, <1>3, Zenon DEF s

LEMMA UnrefWork ==
  Plain(<<Op("unref", None)>>) /\ Work(<<Op("unref", None)>>)
<1> DEFINE s == <<Op("unref", None)>>
<1>1. Is1(s, Op("unref", None))
  BY One, Zenon
<1> HIDE DEF s
<1>2. Plain(s)
  BY <1>1, SMT DEF Is1, Plain, BufOps, Bufs, HeadOps, Op
<1>3. Work(s)
  BY <1>1, SMT DEF Is1, Work, WorkOps, Op
<1> QED
  BY <1>2, <1>3, Zenon DEF s

LEMMA Fake3 ==
  Plain(<<Op("set_fr_retr", "rpl"), Op("set_fr_retr", "cnl"), Op("put_on_wait", None)>>) /\ Final(<<Op("set_fr_retr", "rpl"), Op("set_fr_retr", "cnl"), Op("put_on_wait", None)>>)
<1> DEFINE s == <<Op("set_fr_retr", "rpl"), Op("set_fr_retr", "cnl"), Op("put_on_wait", None)>>
<1>1. Is3(s, Op("set_fr_retr", "rpl"), Op("set_fr_retr", "cnl"), Op("put_on_wait", None))
  BY Three, Zenon
<1> HIDE DEF s
<1>2. Plain(s)
  BY <1>1, SMT DEF Is3, Plain, BufOps, Bufs, HeadOps, Op
<1>3. Final(s)
  BY <1>1, SMT DEF Is3, Final, FinalOps, Op
<1> QED
  BY <1>2, <1>3, Zenon DEF s

LEMMA Fake2 ==
  Plain(<<Op("set_fr_retr", "rpl"), Op("put_on_wait", None)>>) /\ Final(<<Op("set_fr_retr", "rpl"), Op("put_on_wait", None)>>)
<1> DEFINE s == <<Op("set_fr_retr", "rpl"), Op("put_on_wait", None)>>
<1>1. Is2(s, Op("set_fr_retr", "rpl"), Op("put_on_wait", None))
  BY Two, Zenon
<1> HIDE DEF s
<1>2. Plain(s)
  BY <1>1, SMT DEF Is2, Plain, BufOps, Bufs, HeadOps, Op
<1>3. Final(s)
  BY <1>1, SMT DEF Is2, Final, FinalOps, Op
<1> QED
  BY <1>2, <1>3, Zenon DEF s

LEMMA Release ==
  Plain(<<Op("stop", "rpl"), Op("stop", "req"), Op("put_on_wait", None), Op("unref", None)>>) /\ Work(<<Op("stop", "rpl"), Op("stop", "req"), Op("put_on_wait", None), Op("unref", None)>>)
<1> DEFINE s == <<Op("stop", "rpl"), Op("stop", "req"), Op("put_on_wait", None), Op("unref", None)>>
<1>1. Is4(s, Op("stop", "rpl"), Op("stop", "req"), Op("put_on_wait", None), Op("unref", None))
  BY Four, Zenon
<1> HIDE DEF s
<1>2. Plain(s)
  BY <1>1, SMT DEF Is4, Plain, BufOps, Bufs, HeadOps, Op
<1>3. Work(s)
  BY <1>1, SMT DEF Is4, Work, WorkOps, Op
<1> QED
  BY <1>2, <1>3, Zenon DEF s

LEMMA Section4 ==
  ASSUME NEW b \in {"req", "cnl"}, NEW x \in {Op("relay", None), Op("unlock", None)}
  PROVE  Plain(<<Op("lock", None), Op("stop", b), x, Op("unref", None)>>) /\ Work(<<Op("lock", None), Op("stop", b), x, Op("unref", None)>>)
<1> DEFINE s == <<Op("lock", None), Op("stop", b), x, Op("unref", None)>>
<1>1. Is4(s, Op("lock", None), Op("stop", b), x, Op("unref", None))
  BY Four, Zenon
<1> HIDE DEF s
<1>2. Plain(s)
  BY <1>1, SMT DEF Is4, Plain, BufOps, Bufs, HeadOps, Op
<1>3. Work(s)
  BY <1>1, SMT DEF Is4, Work, WorkOps, Op
<1> QED
  BY <1>2, <1>3, Zenon DEF s

LEMMA Small2 ==
  ASSUME NEW o \in {"provisional", "lock_unlock", "cancel_branch"}
  PROVE  Plain(<<Op(o, None), Op("unref", None)>>) /\ Work(<<Op(o, None), Op("unref", None)>>)
<1> DEFINE s == <<Op(o, None), Op("unref", None)>>
<1>1. Is2(s, Op(o, None), Op("unref", None))
  BY Two, Zenon
<1> HIDE DEF s
<1>2. Plain(s)
  BY <1>1, SMT DEF Is2, Plain, BufOps, Bufs, HeadOps, Op
<1>3. Work(s)
  BY <1>1, SMT DEF Is2, Work, WorkOps, Op
<1> QED
  BY <1>2, <1>3, Zenon DEF s

LEMMA AgainTwo ==
  Plain(<<Op("lock_unlock", None), Op("rearm", "rpl")>>) /\ Again(<<Op("lock_unlock", None), Op("rearm", "rpl")>>)
<1> DEFINE s == <<Op("lock_unlock", None), Op("rearm", "rpl")>>
<1>1. Is2(s, Op("lock_unlock", None), Op("rearm", "rpl"))
  BY Two, Zenon
<1> HIDE DEF s
<1>2. Plain(s)
  BY <1>1, SMT DEF Is2, Plain, BufOps, Bufs, HeadOps, Op
<1>3. Again(s)
  BY <1>1, SMT DEF Is2, Again, Op
<1> QED
  BY <1>2, <1>3, Zenon DEF s

LEMMA FinalOne ==
  ASSUME NEW x \in {Op("put_on_wait", None), Op("timeout", None), Op("set_fr_retr", "cnl")}
  PROVE  Plain(<<x>>) /\ Final(<<x>>)
<1> DEFINE s == <<x>>
<1>1. Is1(s, x)
  BY One, Zenon
<1> HIDE DEF s
<1>2. Plain(s)
  BY <1>1, SMT DEF Is1, Plain, BufOps, Bufs, HeadOps, Op
<1>3. Final(s)
  BY <1>1, SMT DEF Is1, Final, FinalOps, Op
<1> QED
  BY <1>2, <1>3, Zenon DEF s

LEMMA RetrOne ==
  ASSUME NEW b \in Bufs
  PROVE  Plain(<<Op("retr_buf_handler", b)>>) /\ Retr(<<Op("retr_buf_handler", b)>>)
<1> DEFINE s == <<Op("retr_buf_handler", b)>>
<1>1. Is1(s, Op("retr_buf_handler", b))
  BY One, Zenon
<1> HIDE DEF s
<1>2. Plain(s)
  BY <1>1, SMT DEF Is1, Plain, BufOps, Bufs, HeadOps, Op
<1>3. Retr(s)
  BY <1>1, SMT DEF Is1, Retr, Op
<1> QED
  BY <1>2, <1>3, Zenon DEF s

LEMMA WaitOne ==
  ASSUME NEW x \in {Op("rearm", "wait"), Op("unref_free", None), Op("free", None)}
  PROVE  Plain(<<x>>) /\ Waiting(<<x>>)
<1> DEFINE s == <<x>>
<1>1. Is1(s, x)
  BY One, Zenon
<1> HIDE DEF s
<1>2. Plain(s)
  BY <1>1, SMT DEF Is1, Plain, BufOps, Bufs, HeadOps, Op
<1>3. Waiting(s)
  BY <1>1, SMT DEF Is1, Waiting, WaitOps, Op
<1> QED
  BY <1>2, <1>3, Zenon DEF s

LEMMA WaitTwo ==
  Plain(<<Op("stop", "cnl"), Op("wait_handler", "wait")>>) /\ Waiting(<<Op("stop", "cnl"), Op("wait_handler", "wait")>>)
<1> DEFINE s == <<Op("stop", "cnl"), Op("wait_handler", "wait")>>
<1>1. Is2(s, Op("stop", "cnl"), Op("wait_handler", "wait"))
  BY Two, Zenon
<1> HIDE DEF s
<1>2. Plain(s)
  BY <1>1, SMT DEF Is2, Plain, BufOps, Bufs, HeadOps, Op
<1>3. Waiting(s)
  BY <1>1, SMT DEF Is2, Waiting, WaitOps, Op
<1> QED
  BY <1>2, <1>3, Zenon DEF s

LEMMA NothingLeft ==
  Plain(<< >>) /\ Work(<< >>) /\ Final(<< >>)
BY EmptyParts, Zenon DEF Plain, Work, Final

LEMMA KindFits ==
  ASSUME NEW p \in Procs, NEW s, Plain(s)
  PROVE  /\ p \in Workers /\ Work(s) => Program(p, s)
         /\ p \in Runners /\ (Retr(s) \/ Again(s) \/ Final(s)) => Program(p, s)
         /\ p = "main" /\ Waiting(s) => Program(p, s)
<1>1. ~(p \in Workers /\ p \in Runners) /\ "main" \notin Workers
  BY NamesAssumption, Zenon DEF Runners
<1> QED
  BY <1>1, Zenon DEF Program

LEMMA JobWorks ==
  ASSUME NEW s, Job(s)
  PROVE  Plain(s) /\ Work(s)
<1>1. CASE \E b \in {"req", "cnl"} : s = <<Op("lock", None), Op("stop", b)>> \o Section(b)
  <2>1. PICK b \in {"req", "cnl"} : s = <<Op("lock", None), Op("stop", b)>> \o Section(b)
    BY <1>1
  <2>2. s = <<Op("lock", None), Op("stop", b), Section(b)[1], Op("unref", None)>>
    BY <2>1, SectionParts, Zenon
  <2>3. Section(b)[1] \in {Op("relay", None), Op("unlock", None)}
    BY SectionParts, Zenon
  <2> QED
    BY <2>2, <2>3, Section4, Zenon
<1>2. CASE \E o \in {"provisional", "lock_unlock", "cancel_branch"} : s = <<Op(o, None), Op("unref", None)>>
  BY <1>2, Small2, Zenon
<1>3. CASE s = <<Op("stop", "rpl"), Op("stop", "req"), Op("put_on_wait", None), Op("unref", None)>>
  BY <1>3, Release, Zenon
<1> QED
  BY <1>1, <1>2, <1>3, Zenon DEF Job

LEMMA RelayWorks ==
  ASSUME NEW s, Relaying(s)
  PROVE  Plain(s) /\ Work(s)
BY Relaying4, Relaying3, Zenon DEF Relaying

LEMMA FakeIsFinal ==
  ASSUME NEW s, FakeReply(s)
  PROVE  Plain(s) /\ Final(s)
BY Fake3, Fake2, Zenon DEF FakeReply

(* The last reference is given back by wait_handler, unless it has set unlinked. *)
LastRef == At("main", "unref_free") => ref_count \in Nat /\ ref_count >= 1 /\ (unlinked \/ ref_count <= 1)

LEMMA Disjoint ==
  /\ \A p \in Workers : p \in Procs /\ p \notin Runners /\ p # "main" /\ p # "slow"
  /\ \A p \in Runners : p \in Procs /\ p \notin Workers
  /\ "main" \in Runners /\ "slow" \in Runners /\ "main" # "slow" /\ None \notin Procs
  /\ \A p \in Procs : p \in Workers \/ p \in Runners
BY NamesAssumption, Zenon DEF Procs, Runners

LEMMA StepShape ==
  ASSUME ShapeInv, LockInv, LastRef, NEW p \in Procs, Step(p)
  PROVE  ShapeInv'
<1>1. ASSUME \/ Lock(p) \/ LockUnlock(p) \/ Unlock(p) \/ timer_del(p) \/ Activate(p) \/ put_on_wait(p)
             \/ RelayProvisional(p) \/ free_cell(p) \/ TestDel(p) \/ Rearm(p) \/ UnlockHash(p)
      PROVE  ShapeInv'
  <2>1. ~Idle(p)
    BY <1>1, Zenon DEF Lock, LockUnlock, Unlock, timer_del, Activate, put_on_wait, RelayProvisional, free_cell,
                       TestDel, Rearm, UnlockHash, At
  <2> QED
    BY <1>1, <2>1, PopSteps, PopShape, Zenon
<1>2. ASSUME Stop(p) PROVE ShapeInv'
  <2>1. ~Idle(p) /\ Head(todo[p]).op = "stop"
    BY <1>2, Zenon DEF Stop, At
  <2>2. Buf(p) \in Bufs /\ (Pops(p) \/ Swaps(p, Op("timer_del", Buf(p))))
    BY <1>2, StopStep, Zenon
  <2>3. Later(todo[p]) # {} /\ (p \in Workers \/ (p = "main" /\ Waiting(todo[p])))
    BY <2>1, Who, Zenon
  <2>4. Op("timer_del", Buf(p)) \in OpRec
    BY <2>2, OpsIn, Zenon
  <2>5. Op("timer_del", Buf(p)).op = "timer_del" /\ Op("timer_del", Buf(p)).rb = Buf(p)
    BY Steps, Zenon
  <2>6. p \in Workers => p \notin Runners
    BY Disjoint, Zenon
  <2>7. Swaps(p, Op("timer_del", Buf(p))) => ShapeInv'
    BY <2>1, <2>2, <2>3, <2>4, <2>5, <2>6, SwapShape, Zenon DEF WorkOps, WaitOps
  <2> QED
    BY <2>1, <2>2, <2>7, PopShape, Zenon
<1>3. ASSUME NEW o \in {"timer_add", "activate"}, ~Idle(p), Head(todo[p]).op \in {"set_fr_retr", "timer_add"},
             Buf(p) \in Bufs, Pops(p) \/ Swaps(p, Op(o, Buf(p)))
      PROVE  ShapeInv'
  <2>1. (p \in Workers /\ p \notin Runners) \/ (p \in Runners /\ p \notin Workers /\ Final(todo[p]))
    BY <1>3, Who, Disjoint, Zenon
  <2>2. Op(o, Buf(p)) \in OpRec
    BY <1>3, OpsIn, Zenon
  <2>3. Op(o, Buf(p)).op = o /\ Op(o, Buf(p)).rb = Buf(p)
    BY Steps, Zenon
  <2>4. Swaps(p, Op(o, Buf(p))) => ShapeInv'
    BY <1>3, <2>1, <2>2, <2>3, SwapShape, Zenon DEF WorkOps, FinalOps
  <2> QED
    BY <1>3, <2>4, PopShape, Zenon
<1>4. ASSUME TestAdd(p) PROVE ShapeInv'
  BY <1>3, <1>4, TestAddStep, Zenon DEF TestAdd, At
<1>5. ASSUME AddRetr(p) PROVE ShapeInv'
  BY <1>3, <1>5, AddRetrStep, Zenon DEF AddRetr, At
<1>6. ASSUME cancel_branch(p) PROVE ShapeInv'
  <2>1. ~Idle(p) /\ Head(todo[p]).op = "cancel_branch"
    BY <1>6, Zenon DEF cancel_branch, At
  <2>2. p \in Workers /\ p \notin Runners
    BY <2>1, Who, Disjoint, Zenon
  <2>3. Op("set_fr_retr", "cnl").op = "set_fr_retr" /\ Op("set_fr_retr", "cnl").rb = "cnl"
    BY Steps, Zenon
  <2>4. Swaps(p, Op("set_fr_retr", "cnl")) => ShapeInv'
    BY <2>1, <2>2, <2>3, OpsIn, SwapShape, Zenon DEF WorkOps, Bufs
  <2> QED
    BY <1>6, <2>1, <2>4, CancelStep, PopShape, Zenon
<1>7. ASSUME RelayReply(p) PROVE ShapeInv'
  <2>1. PICK s : Sets(p, s) /\ p \in Workers /\ (Relaying(s) \/ s = <<Op("unref", None)>>)
    BY <1>7, RelayStep, Zenon
  <2>2. Plain(s) /\ Work(s)
    BY <2>1, RelayWorks, UnrefWork, Zenon
  <2> QED
    BY <2>1, <2>2, KindFits, SetShape, Zenon
<1>8. ASSUME Unref(p) PROVE ShapeInv'
  <2>1. PICK s : Sets(p, s) /\ p \in Workers /\ (s = Freeing \/ s = << >>)
    BY <1>8, UnrefStep, Zenon
  <2>2. Plain(s) /\ Work(s)
    BY <2>1, FreeingWork, NothingLeft, Zenon DEF Freeing
  <2> QED
    BY <2>1, <2>2, KindFits, SetShape, Zenon
<1>9. ASSUME Retransmit(p) PROVE ShapeInv'
  <2>1. ~Idle(p) /\ p \in Runners
    BY <1>9, RetransmitStep, Zenon DEF Retransmit, At
  <2>2. Pops(p) \/ Sets(p, <<Op("lock_unlock", None), Op("rearm", "rpl")>>)
    BY <1>9, RetransmitStep, Zenon
  <2> QED
    BY <2>1, <2>2, PopShape, AgainTwo, KindFits, SetShape, Zenon
<1>10. ASSUME FinalResponse(p) PROVE ShapeInv'
  <2>1. PICK s : Sets(p, s) /\ p \in Runners
                 /\ (s = << >> \/ \E x \in {Op("put_on_wait", None), Op("timeout", None)} : s = <<x>>)
    BY <1>10, FinalStep, Zenon DEF Bufs
  <2>2. Plain(s) /\ Final(s)
    BY <2>1, FinalOne, NothingLeft, Zenon
  <2> QED
    BY <2>1, <2>2, KindFits, SetShape, Zenon
<1>11. ASSUME Timeout(p) PROVE ShapeInv'
  <2>1. PICK s : Sets(p, s) /\ p \in Runners
                 /\ (s = << >> \/ FakeReply(s) \/ \E x \in {Op("put_on_wait", None), Op("set_fr_retr", "cnl")} : s = <<x>>)
    BY <1>11, TimeoutStep, Zenon
  <2>2. Plain(s) /\ Final(s)
    BY <2>1, FinalOne, FakeIsFinal, NothingLeft, Zenon
  <2> QED
    BY <2>1, <2>2, KindFits, SetShape, Zenon
<1>12. ASSUME UnrefFree(p) PROVE ShapeInv'
  <2>1. At(p, "unref_free") /\ p = "main"
    <3>1. At(p, "unref_free")
      BY <1>12, Zenon DEF UnrefFree
    <3> QED
      BY <3>1, Who, Zenon DEF At
  <2>2. PICK s : Sets(p, s) /\ (s = Freeing \/ s = <<Op("free", None)>>)
    BY <1>12, <2>1, UnrefFreeStep, Zenon DEF LastRef
  <2>3. Plain(s) /\ Waiting(s)
    BY <2>2, FreeingWaits, WaitOne, Zenon DEF Freeing
  <2> QED
    BY <2>1, <2>2, <2>3, KindFits, SetShape, Zenon
<1> QED
  BY <1>1, <1>2, <1>4, <1>5, <1>6, <1>7, <1>8, <1>9, <1>10, <1>11, <1>12, Zenon DEF Step

LEMMA NextShape ==
  ASSUME ShapeInv, LockInv, LastRef, [Next]_vars
  PROVE  ShapeInv'
<1>1. ASSUME NEW w \in Workers, Lookup(w) PROVE ShapeInv'
  <2>1. PICK s : Job(s) /\ Sets(w, s)
    BY <1>1, OtherSteps, Zenon
  <2>2. Plain(s) /\ Work(s) /\ w \in Procs
    BY <2>1, JobWorks, Zenon DEF Procs
  <2> QED
    BY <2>1, <2>2, KindFits, SetShape, Zenon
<1>2. ASSUME NEW p \in Runners, NEW b \in Bufs, FireRetr(p, b) PROVE ShapeInv'
  <2>1. Sets(p, <<Op("retr_buf_handler", b)>>) /\ p \in Procs
    BY <1>2, OtherSteps, Zenon DEF Procs
  <2> QED
    BY <2>1, RetrOne, KindFits, SetShape, Zenon
<1>3. ASSUME FireWait PROVE ShapeInv'
  <2>1. Sets("main", <<Op("stop", "cnl"), Op("wait_handler", "wait")>>)
    BY <1>3, OtherSteps, Zenon
  <2> QED
    BY <2>1, WaitTwo, KindFits, SetShape, Disjoint, Zenon
<1>4. ASSUME wait_handler PROVE ShapeInv'
  <2>1. PICK s : Sets("main", s)
                 /\ (s = Unlinking \/ \E x \in {Op("rearm", "wait"), Op("unref_free", None)} : s = <<x>>)
    BY <1>4, WaitStep, Zenon
  <2>2. Plain(s) /\ Waiting(s)
    BY <2>1, UnlinkingWaits, WaitOne, Zenon DEF Unlinking
  <2> QED
    BY <2>1, <2>2, KindFits, SetShape, Disjoint, Zenon
<1>5. ASSUME UNCHANGED vars PROVE ShapeInv'
  BY <1>5, Zenon DEF ShapeInv, vars
<1> QED
  BY <1>1, <1>2, <1>3, <1>4, <1>5, StepShape, Zenon DEF Next, Gone

-----------------------------------------------------------------------------
(* The REPLY lock.                                                           *)

NoLock(s) == \A e \in Els(s) : e.op \notin LockOps
Locking(p) == IF reply_lock = p THEN Inside(todo[p]) ELSE Entering(todo[p]) \/ NoLock(todo[p])

LEMMA Simple ==
  /\ NoLock(<< >>) /\ NoLock(Freeing) /\ NoLock(<<Op("unref", None)>>)
  /\ \A s : Relaying(s) => NoLock(s)
  /\ \A s : Job(s) => Entering(s) \/ NoLock(s)
<1>1. NoLock(<< >>)
  BY EmptyParts, Zenon DEF NoLock
<1>2. NoLock(Freeing)
  <2>1. Is4(Freeing, Op("stop", "rpl"), Op("stop", "req"), Op("stop", "cnl"), Op("free", None))
    BY Four, Zenon DEF Freeing
  <2> QED
    BY <2>1, SMT DEF Is4, NoLock, LockOps, Op
<1>3. NoLock(<<Op("unref", None)>>)
  <2>1. Is1(<<Op("unref", None)>>, Op("unref", None))
    BY One, Zenon
  <2> QED
    BY <2>1, SMT DEF Is1, NoLock, LockOps, Op
<1>4. ASSUME NEW s, Relaying(s) PROVE NoLock(s)
  <2>1. \/ Is4(s, Op("set_fr_retr", "rpl"), Op("put_on_wait", None), Op("stop", "req"), Op("unref", None))
        \/ Is3(s, Op("put_on_wait", None), Op("stop", "req"), Op("unref", None))
    BY <1>4, Three, Four, Zenon DEF Relaying
  <2> QED
    BY <2>1, SMT DEF Is3, Is4, NoLock, LockOps, Op
<1>5. ASSUME NEW s, Job(s) PROVE Entering(s) \/ NoLock(s)
  <2>1. \/ Entering(s)
        \/ \E o \in {"provisional", "lock_unlock", "cancel_branch"} : Is2(s, Op(o, None), Op("unref", None))
        \/ Is4(s, Op("stop", "rpl"), Op("stop", "req"), Op("put_on_wait", None), Op("unref", None))
    BY <1>5, Two, Four, Zenon DEF Job, Entering
  <2> QED
    BY <2>1, SMT DEF Is2, Is4, NoLock, LockOps, Op
<1> QED
  BY <1>1, <1>2, <1>3, <1>4, <1>5, Zenon

(* The timer processes never hold the lock over a step.                        *)
Lockless == \A p \in Runners : NoLock(todo[p])
LEMMA RunnersLockless ==
  ShapeInv => Lockless
<1> SUFFICES ASSUME ShapeInv, NEW p \in Runners PROVE NoLock(todo[p])
  BY Zenon DEF Lockless
<1>1. Program(p, todo[p]) /\ todo[p] \in Seq(OpRec)
  BY Zenon DEF ShapeInv, Procs
<1>2. CASE todo[p] = << >>
  BY <1>2, Simple, Zenon
<1>3. CASE todo[p] # << >>
  <2>1. /\ Els(todo[p]) = {Head(todo[p])} \cup Later(todo[p])
        /\ Els(todo[p]) = Early(todo[p]) \cup {Last(todo[p])}
    BY <1>1, <1>3, SeqParts, Zenon
  <2>2. CASE Retr(todo[p])
    BY <2>1, <2>2, Zenon DEF Retr, NoLock, LockOps
  <2>3. CASE Again(todo[p])
    <3>1. Last(todo[p]).op = "rearm"
      BY <2>3, SMT DEF Again, Op
    <3> QED
      BY <2>1, <2>3, <3>1, Zenon DEF Again, NoLock, LockOps
  <2>4. CASE Final(todo[p])
    BY <2>1, <2>4, Zenon DEF Final, FinalOps, NoLock, LockOps
  <2>5. CASE Waiting(todo[p])
    BY <2>1, <2>5, Zenon DEF Waiting, WaitOps, NoLock, LockOps
  <2> QED
    BY <1>1, <2>2, <2>3, <2>4, <2>5, Zenon DEF Program
<1> QED
  BY <1>2, <1>3, Zenon

LEMMA LockHolder ==
  ASSUME ShapeInv, LockInv, NEW p \in Procs, reply_lock = p
  PROVE  p \in Workers /\ ~Idle(p) /\ Head(todo[p]).op \in {"stop", "timer_del", "relay", "unlock"}
<1>1. Inside(todo[p])
  BY Zenon DEF LockInv
<1>2. todo[p] # << >> /\ Head(todo[p]).op \in {"stop", "timer_del", "relay", "unlock"}
  BY <1>1, InsideParts, Zenon
<1>3. p \in Runners => FALSE
  <2>1. PICK b \in {"req", "cnl"} : \/ \E o \in {"stop", "timer_del"} : todo[p] = <<Op(o, b)>> \o Section(b)
                                    \/ todo[p] = Section(b)
    BY <1>1, Zenon DEF Inside
  <2> DEFINE x == Section(b)[1]
  <2>2. x = Op("relay", None) \/ x = Op("unlock", None)
    BY SectionParts, Zenon
  <2>3. \/ \E o \in {"stop", "timer_del"} : todo[p] = <<Op(o, b), x, Op("unref", None)>>
        \/ todo[p] = <<x, Op("unref", None)>>
    BY <2>1, SectionParts, Zenon
  <2> HIDE DEF x
  <2>4. x \in Els(todo[p])
    <3>1. ASSUME NEW o, todo[p] = <<Op(o, b), x, Op("unref", None)>> PROVE x \in Els(todo[p])
      <4>1. Is3(todo[p], Op(o, b), x, Op("unref", None))
        BY <3>1, Three, Zenon
      <4> QED
        BY <4>1, Zenon DEF Is3
    <3>2. ASSUME todo[p] = <<x, Op("unref", None)>> PROVE x \in Els(todo[p])
      <4>1. Is2(todo[p], x, Op("unref", None))
        BY <3>2, Two, Zenon
      <4> QED
        BY <4>1, Zenon DEF Is2
    <3> QED
      BY <2>3, <3>1, <3>2, Zenon
  <2>5. x.op \in LockOps
    BY <2>2, SMT DEF Op, LockOps
  <2> QED
    BY <2>4, <2>5, RunnersLockless, Zenon DEF NoLock, Lockless
<1> QED
  BY <1>2, <1>3, Disjoint, Zenon DEF Idle

LEMMA KeepLock ==
  ASSUME ShapeInv, ShapeInv', LockInv, NEW p \in Procs, Others(p), reply_lock' = reply_lock,
         p \in Workers => Locking(p)'
  PROVE  LockInv'
<1>1. ASSUME NEW q \in Procs PROVE Locking(q)'
  <2>1. CASE q # p
    <3>1. todo'[q] = todo[q]
      BY <2>1, Zenon DEF Others
    <3>2. Locking(q)
      BY Zenon DEF LockInv, Locking, NoLock
    <3> QED
      BY <3>1, <3>2, Zenon DEF Locking, NoLock
  <2>2. CASE q = p /\ p \in Workers
    BY <2>2, Zenon
  <2>3. CASE q = p /\ p \in Runners
    <3>1. NoLock(todo[p])'
      <4>1. Lockless'
        BY RunnersLockless, PTL
      <4> QED
        BY <2>3, <4>1, Zenon DEF Lockless
    <3>2. reply_lock # p
      BY <2>3, LockHolder, Disjoint, Zenon
    <3> QED
      BY <2>3, <3>1, <3>2, Zenon DEF Locking
  <2> QED
    BY <2>1, <2>2, <2>3, Disjoint, Zenon
<1> QED
  BY <1>1, Zenon DEF LockInv, Locking, NoLock

LEMMA StepLock ==
  ASSUME ShapeInv, ShapeInv', LockInv, NEW p \in Procs, Step(p)
  PROVE  LockInv'
<1>1. /\ ~Idle(p) /\ todo[p] \in Seq(OpRec) /\ todo[p] # << >>
      /\ Els(todo[p]) = {Head(todo[p])} \cup Later(todo[p])
  <2>1. ~Idle(p)
    BY Zenon DEF Step, Lock, LockUnlock, Unlock, Stop, timer_del, TestAdd, AddRetr, Activate, put_on_wait, RelayReply,
                 RelayProvisional, cancel_branch, Unref, free_cell, TestDel, Retransmit, Rearm, FinalResponse,
                 Timeout, UnlockHash, UnrefFree, At
  <2>2. todo[p] \in Seq(OpRec) /\ todo[p] # << >>
    BY <2>1, Zenon DEF ShapeInv, Idle
  <2> QED
    BY <2>1, <2>2, SeqParts, Zenon
<1>2. Locking(p)
  BY Zenon DEF LockInv, Locking, NoLock
(* a step that leaves the lock alone *)
<1>3. ASSUME Pops(p), reply_lock' = reply_lock, Head(todo[p]).op \notin LockOps PROVE LockInv'
  <2>1. CASE reply_lock = p
    <3>1. Inside(Tail(todo[p]))
      BY <1>2, <1>3, <2>1, InsideParts, Zenon DEF Locking, LockOps
    <3>2. Locking(p)'
      BY <1>3, <2>1, <3>1, Zenon DEF Locking, Pops
    <3> QED
      BY <1>3, <3>2, KeepLock, Zenon DEF Pops
  <2>2. CASE reply_lock # p
    <3>1. NoLock(todo[p])
      BY <1>2, <1>3, <2>2, EnterParts, Zenon DEF Locking, LockOps
    <3>2. Locking(p)'
      BY <1>1, <1>3, <2>2, <3>1, Zenon DEF Locking, NoLock, Pops, Popped
    <3> QED
      BY <1>3, <3>2, KeepLock, Zenon DEF Pops
  <2> QED
    BY <2>1, <2>2, Zenon
<1>4. ASSUME NEW o, o.op \notin LockOps, Swaps(p, o), reply_lock' = reply_lock, Head(todo[p]).op \notin LockOps,
             Head(todo[p]).op \in {"stop", "timer_del"} => o = Op("timer_del", Buf(p))
      PROVE  LockInv'
  <2>1. CASE reply_lock = p
    <3>1. Inside(<<o>> \o Tail(todo[p]))
      BY <1>2, <1>4, <2>1, InsideParts, Zenon DEF Locking, LockOps, Buf
    <3>2. Locking(p)'
      BY <1>4, <2>1, <3>1, Zenon DEF Locking, Swaps
    <3> QED
      BY <1>4, <3>2, KeepLock, Zenon DEF Swaps
  <2>2. CASE reply_lock # p
    <3>1. NoLock(todo[p])
      BY <1>2, <1>4, <2>2, EnterParts, Zenon DEF Locking, LockOps
    <3>2. Locking(p)'
      BY <1>1, <1>4, <2>2, <3>1, Zenon DEF Locking, NoLock, Swaps, Swapped
    <3> QED
      BY <1>4, <3>2, KeepLock, Zenon DEF Swaps
  <2> QED
    BY <2>1, <2>2, Zenon
<1>5. ASSUME Others(p), p \in Runners, reply_lock' = reply_lock PROVE LockInv'
  BY <1>5, KeepLock, Disjoint, Zenon
(* the actions *)
<1>6. ASSUME \/ LockUnlock(p) \/ timer_del(p) \/ Activate(p) \/ put_on_wait(p)
             \/ RelayProvisional(p) \/ free_cell(p) \/ TestDel(p) \/ Rearm(p) \/ UnlockHash(p)
      PROVE  LockInv'
  <2>1. reply_lock' = reply_lock /\ Head(todo[p]).op \notin LockOps
    BY <1>6, Zenon DEF LockUnlock, timer_del, Activate, put_on_wait, RelayProvisional, free_cell,
                       TestDel, Rearm, UnlockHash, At, LockOps, cell
  <2> QED
    BY <1>3, <1>6, <2>1, PopSteps, Zenon
<1>7. ASSUME Stop(p) PROVE LockInv'
  <2>1. reply_lock' = reply_lock /\ Head(todo[p]).op = "stop"
    BY <1>7, Zenon DEF Stop, At, cell
  <2>2. Op("timer_del", Buf(p)).op = "timer_del"
    BY Steps, Zenon
  <2> QED
    BY <1>3, <1>4, <1>7, <2>1, <2>2, StopStep, Zenon DEF LockOps
<1>8. ASSUME TestAdd(p) PROVE LockInv'
  <2>1. reply_lock' = reply_lock /\ Head(todo[p]).op = "set_fr_retr"
    BY <1>8, Zenon DEF TestAdd, At, cell
  <2>2. Op("timer_add", Buf(p)).op = "timer_add"
    BY Steps, Zenon
  <2> QED
    BY <1>3, <1>4, <1>8, <2>1, <2>2, TestAddStep, Zenon DEF LockOps
<1>9. ASSUME AddRetr(p) PROVE LockInv'
  <2>1. reply_lock' = reply_lock /\ Head(todo[p]).op = "timer_add"
    BY <1>9, Zenon DEF AddRetr, At, cell
  <2>2. Op("activate", Buf(p)).op = "activate"
    BY Steps, Zenon
  <2> QED
    BY <1>3, <1>4, <1>9, <2>1, <2>2, AddRetrStep, Zenon DEF LockOps
<1>10. ASSUME cancel_branch(p) PROVE LockInv'
  <2>1. reply_lock' = reply_lock /\ Head(todo[p]).op = "cancel_branch"
    BY <1>10, Zenon DEF cancel_branch, At
  <2>2. Op("set_fr_retr", "cnl").op = "set_fr_retr"
    BY Steps, Zenon
  <2> QED
    BY <1>3, <1>4, <1>10, <2>1, <2>2, CancelStep, Zenon DEF LockOps
<1>11. ASSUME Retransmit(p) \/ FinalResponse(p) \/ Timeout(p) PROVE LockInv'
  <2>1. reply_lock' = reply_lock
    BY <1>11, Zenon DEF Retransmit, FinalResponse, Timeout, cell
  <2>2. p \in Runners /\ Others(p)
    <3>1. Retransmit(p) => p \in Runners /\ Others(p)
      BY RetransmitStep, Zenon DEF Pops, Sets
    <3>2. FinalResponse(p) => p \in Runners /\ Others(p)
      BY FinalStep, Zenon DEF Sets, Bufs
    <3>3. Timeout(p) => p \in Runners /\ Others(p)
      BY TimeoutStep, Zenon DEF Sets
    <3> QED
      BY <1>11, <3>1, <3>2, <3>3, Zenon
  <2> QED
    BY <1>5, <2>1, <2>2, Zenon
<1>12. ASSUME UnrefFree(p) PROVE LockInv'
  <2>1. reply_lock' = reply_lock /\ Head(todo[p]).op = "unref_free" /\ \E s : Then(p, s)
    BY <1>12, Zenon DEF UnrefFree, At
  <2>2. p \in Runners
    BY <1>1, <2>1, Who, Disjoint, Zenon
  <2>3. Others(p)
    BY <2>1, Zenon DEF ShapeInv, Then, Others
  <2> QED
    BY <1>5, <2>1, <2>2, <2>3, Zenon
<1>13. ASSUME Unref(p) PROVE LockInv'
  <2>1. reply_lock' = reply_lock /\ Head(todo[p]).op = "unref"
    BY <1>13, Zenon DEF Unref, At
  <2>2. reply_lock # p
    BY <2>1, LockHolder, Zenon
  <2>3. Others(p) /\ NoLock(todo'[p])
    BY <1>13, UnrefStep, Simple, Zenon DEF Sets
  <2>4. Locking(p)'
    BY <2>1, <2>2, <2>3, Zenon DEF Locking, NoLock
  <2> QED
    BY <2>1, <2>3, <2>4, KeepLock, Zenon
<1>14. ASSUME Lock(p) PROVE LockInv'
  <2>1. reply_lock = None /\ reply_lock' = p /\ Head(todo[p]).op = "lock" /\ Pops(p)
    BY <1>14, PopSteps, Zenon DEF Lock, At
  <2>2. reply_lock # p
    BY <2>1, Disjoint, Zenon
  <2>3. Entering(todo[p])
    BY <1>1, <1>2, <2>1, <2>2, Zenon DEF Locking, NoLock, LockOps
  <2>4. Inside(todo'[p])
    BY <2>1, <2>3, EnterParts, Zenon DEF Pops
  <2>5. ASSUME NEW q \in Procs, q # p
        PROVE  reply_lock' # q /\ (Entering(todo'[q]) \/ \A e \in Els(todo'[q]) : e.op \notin LockOps)
    <3>1. todo'[q] = todo[q] /\ reply_lock # q
      BY <2>1, <2>5, Disjoint, Zenon DEF Pops, Others
    <3> QED
      BY <2>1, <2>5, <3>1, Zenon DEF LockInv
  <2> QED
    BY <2>1, <2>4, <2>5, Zenon DEF LockInv
<1>15. ASSUME Unlock(p) \/ RelayReply(p) PROVE LockInv'
  <2>1. reply_lock' = None /\ Head(todo[p]).op \in {"unlock", "relay"}
    BY <1>15, Zenon DEF Unlock, RelayReply, At
  <2>2. reply_lock = p
    BY <1>1, <1>2, <2>1, EnterParts, Zenon DEF Locking, NoLock, LockOps
  <2>3. Others(p) /\ NoLock(todo'[p])
    <3>1. CASE Unlock(p)
      <4>1. Pops(p) /\ Head(todo[p]).op = "unlock"
        BY <3>1, PopSteps, Zenon DEF Unlock, At
      <4>2. todo[p] = <<Op("unlock", None), Op("unref", None)>>
        BY <1>2, <2>2, <4>1, InsideParts, Zenon DEF Locking
      <4>3. todo'[p] = <<Op("unref", None)>>
        BY <4>1, <4>2, Tails, Zenon DEF Pops
      <4> QED
        BY <4>1, <4>3, Simple, Zenon DEF Pops
    <3>2. CASE RelayReply(p)
      BY <3>2, RelayStep, Simple, Zenon DEF Sets
    <3> QED
      BY <1>15, <3>1, <3>2, Zenon
  <2>4. ASSUME NEW q \in Procs
        PROVE  reply_lock' # q /\ (Entering(todo'[q]) \/ \A e \in Els(todo'[q]) : e.op \notin LockOps)
    <3>1. reply_lock' # q
      BY <2>1, Disjoint, Zenon
    <3>2. CASE q = p
      BY <2>3, <3>1, <3>2, Zenon DEF NoLock
    <3>3. CASE q # p
      BY <2>2, <2>3, <3>1, <3>3, Zenon DEF Others, LockInv
    <3> QED
      BY <3>2, <3>3, Zenon
  <2> QED
    BY <2>4, Zenon DEF LockInv
<1> QED
  BY <1>6, <1>7, <1>8, <1>9, <1>10, <1>11, <1>12, <1>13, <1>14, <1>15, Zenon DEF Step

LEMMA NextLock ==
  ASSUME ShapeInv, ShapeInv', LockInv, [Next]_vars
  PROVE  LockInv'
<1>1. ASSUME NEW w \in Workers, Lookup(w) PROVE LockInv'
  <2>1. reply_lock' = reply_lock /\ Idle(w) /\ w \in Procs
    BY <1>1, Zenon DEF Lookup, Procs
  <2>2. reply_lock # w
    BY <2>1, LockHolder, Zenon
  <2>3. Others(w) /\ (Entering(todo'[w]) \/ NoLock(todo'[w]))
    BY <1>1, OtherSteps, Simple, Zenon DEF Sets
  <2>4. Locking(w)'
    BY <2>1, <2>2, <2>3, Zenon DEF Locking, NoLock
  <2> QED
    BY <2>1, <2>3, <2>4, KeepLock, Zenon
<1>2. ASSUME NEW p \in Runners, Others(p), reply_lock' = reply_lock PROVE LockInv'
  BY <1>2, KeepLock, Disjoint, Zenon
<1>3. ASSUME NEW p \in Runners, NEW b \in Bufs, FireRetr(p, b) PROVE LockInv'
  BY <1>2, <1>3, OtherSteps, Zenon DEF FireRetr, Sets, cell
<1>4. ASSUME FireWait PROVE LockInv'
  BY <1>2, <1>4, OtherSteps, Disjoint, Zenon DEF FireWait, Sets, cell
<1>5. ASSUME wait_handler PROVE LockInv'
  <2>1. Others("main")
    BY <1>5, WaitStep, Zenon DEF Sets
  <2> QED
    BY <1>2, <1>5, <2>1, Disjoint, Zenon DEF wait_handler
<1>6. ASSUME UNCHANGED vars PROVE LockInv'
  BY <1>6, Zenon DEF LockInv, vars, cell
<1> QED
  BY <1>1, <1>3, <1>4, <1>5, <1>6, StepLock, Zenon DEF Next, Gone

-----------------------------------------------------------------------------
(* The handlers that run.                                                     *)

HandlesNone(s) == \A x \in Timers : ~Handles(s, x)
HandlesOnly(s, y) == \A x \in Timers : Handles(s, x) <=> x = y

LEMMA HandlesWhat ==
  ASSUME NEW s \in Seq(OpRec)
  PROVE  /\ Final(s) => HandlesNone(s)
         /\ Retr(s) => HandlesOnly(s, Head(s).rb)
         /\ Again(s) => HandlesOnly(s, "rpl")
         /\ Waiting(s) => HandlesOnly(s, "wait")
<1>1. CASE s = << >>
  BY <1>1, Zenon DEF HandlesNone, Handles, Retr, Again, Waiting
<1>2. CASE s # << >>
  <2>1. Els(s) = Early(s) \cup {Last(s)} /\ (Later(s) = {} => Last(s) = Head(s))
    BY <1>2, SeqParts, Zenon
  <2>2. Final(s) => HandlesNone(s)
    BY <2>1, Zenon DEF Final, FinalOps, HandlesNone, Handles
  <2>3. Retr(s) => HandlesOnly(s, Head(s).rb)
    BY <1>2, <2>1, Zenon DEF Retr, HandlesOnly, Handles
  <2>4. Again(s) => HandlesOnly(s, "rpl")
    <3>1. Again(s) => Last(s).op = "rearm" /\ Last(s).rb = "rpl"
      BY SMT DEF Again, Op
    <3> QED
      BY <1>2, <3>1, Zenon DEF HandlesOnly, Handles
  <2>5. Waiting(s) => HandlesOnly(s, "wait")
    BY <1>2, Zenon DEF Waiting, HandlesOnly, Handles
  <2> QED
    BY <2>2, <2>3, <2>4, <2>5, Zenon
<1> QED
  BY <1>1, <1>2, Zenon

LEMMA StepOthers ==
  ASSUME ShapeInv, ShapeInv', NEW p \in Procs, Step(p)
  PROVE  Others(p) /\ ~Idle(p) /\ mem = "live"
<1>1. ~Idle(p) /\ mem = "live"
  BY Zenon DEF Step, Lock, LockUnlock, Unlock, Stop, timer_del, TestAdd, AddRetr, Activate, put_on_wait, RelayReply,
               RelayProvisional, cancel_branch, Unref, free_cell, TestDel, Retransmit, Rearm, FinalResponse,
               Timeout, UnlockHash, UnrefFree, At
<1>2. Timeout(p) \/ \E s : Then(p, s)
  <2>1. CASE \/ Lock(p) \/ LockUnlock(p) \/ Unlock(p) \/ timer_del(p) \/ Activate(p) \/ put_on_wait(p)
             \/ RelayProvisional(p) \/ free_cell(p) \/ TestDel(p) \/ Rearm(p) \/ UnlockHash(p)
    BY <2>1, Zenon DEF Lock, LockUnlock, Unlock, timer_del, Activate, put_on_wait, RelayProvisional, free_cell,
                       TestDel, Rearm, UnlockHash
  <2>2. CASE Stop(p) \/ TestAdd(p) \/ AddRetr(p) \/ RelayReply(p) \/ cancel_branch(p) \/ Unref(p)
    BY <2>2, Zenon DEF Stop, TestAdd, AddRetr, RelayReply, cancel_branch, Unref
  <2>3. CASE Retransmit(p) \/ FinalResponse(p) \/ UnrefFree(p)
    BY <2>3, Zenon DEF Retransmit, FinalResponse, UnrefFree
  <2> QED
    BY <2>1, <2>2, <2>3, Zenon DEF Step
<1>3. \A q \in Procs : q # p => todo'[q] = todo[q]
  <2>1. CASE Timeout(p)
    BY <2>1, TimeoutStep, Zenon DEF Sets, Others
  <2>2. CASE \E s : Then(p, s)
    BY <2>2, Zenon DEF Then, ShapeInv
  <2> QED
    BY <1>2, <2>1, <2>2, Zenon
<1> QED
  BY <1>1, <1>3, Zenon DEF Others, ShapeInv

(* the steps with which a handler ends, or is about to *)
Quiet(p) == \/ Lock(p) \/ LockUnlock(p) \/ Unlock(p) \/ Stop(p) \/ timer_del(p) \/ TestAdd(p) \/ AddRetr(p)
            \/ Activate(p) \/ put_on_wait(p) \/ RelayReply(p) \/ RelayProvisional(p) \/ cancel_branch(p)
            \/ Unref(p) \/ Timeout(p) \/ UnlockHash(p) \/ UnrefFree(p)

RunSame == \A x \in Timers, r \in Runners : st'[x] = r <=> st[x] = r

LEMMA QuietSt ==
  ASSUME TypeOK, NEW p \in Procs, Quiet(p)
  PROVE  RunSame /\ mem' = mem
<1>1. mem' = mem
  BY Zenon DEF Quiet, Lock, LockUnlock, Unlock, Stop, timer_del, TestAdd, AddRetr, Activate, put_on_wait, RelayReply,
               RelayProvisional, cancel_branch, Unref, Timeout, UnlockHash, UnrefFree, cell
<1>2. \/ st' = st
      \/ \E x : Timer!Move(x, "armed", "off") \/ Timer!Move(x, "off", "armed")
  BY Zenon DEF Quiet, Lock, LockUnlock, Unlock, Stop, timer_del, TestAdd, AddRetr, Activate, put_on_wait, RelayReply,
               RelayProvisional, cancel_branch, Unref, Timeout, UnlockHash, UnrefFree, timers, timer_add,
               Timer!Del, Timer!Deleted, Timer!WasOff, Timer!Add
<1>3. ASSUME NEW x, Timer!Move(x, "armed", "off") \/ Timer!Move(x, "off", "armed") PROVE RunSame
  <2>1. st \in [Timers -> {"off", "armed"} \cup Runners]
    BY Zenon DEF TypeOK, Timer!TypeOK
  <2>2. ASSUME NEW y \in Timers, NEW r \in Runners PROVE st'[y] = r <=> st[y] = r
    BY <1>3, <2>1, Zenon DEF Timer!Move, Runners
  <2> QED
    BY <2>2, Zenon DEF RunSame
<1> QED
  BY <1>1, <1>2, <1>3, Zenon DEF RunSame

LEMMA QuietHandles ==
  ASSUME ShapeInv, ShapeInv', LockInv, LastRef, NEW p \in Runners, Quiet(p)
  PROVE  \A x \in Timers : Handles(todo'[p], x) <=> Handles(todo[p], x)
<1>0. p \in Procs /\ p \notin Workers
  BY Disjoint, Zenon
<1>1. /\ todo[p] \in Seq(OpRec) /\ todo[p] # << >> /\ Program(p, todo[p])
      /\ todo'[p] \in Seq(OpRec) /\ Program(p, todo'[p])
  <2>1. ~Idle(p)
    BY Zenon DEF Quiet, Lock, LockUnlock, Unlock, Stop, timer_del, TestAdd, AddRetr, Activate, put_on_wait, RelayReply,
                 RelayProvisional, cancel_branch, Unref, Timeout, UnlockHash, UnrefFree, At
  <2> QED
    BY <1>0, <2>1, Zenon DEF ShapeInv, Idle
<1>2. ASSUME Final(todo[p]), Final(todo'[p]) PROVE \A x \in Timers : Handles(todo'[p], x) <=> Handles(todo[p], x)
  BY <1>1, <1>2, HandlesWhat, Zenon DEF HandlesNone
<1>3. ASSUME Waiting(todo[p]), Waiting(todo'[p]) PROVE \A x \in Timers : Handles(todo'[p], x) <=> Handles(todo[p], x)
  BY <1>1, <1>3, HandlesWhat, Zenon DEF HandlesOnly
<1>4. ASSUME Later(todo[p]) # {}, Pops(p) \/ \E o : Swaps(p, o)
      PROVE  \A x \in Timers : Handles(todo'[p], x) <=> Handles(todo[p], x)
  <2>1. todo'[p] # << >> /\ Last(todo'[p]) = Last(todo[p])
    BY <1>4, Zenon DEF Pops, Popped, Swaps, Swapped
  <2> QED
    BY <1>1, <2>1, Zenon DEF Handles
<1>5. ASSUME Final(todo[p]), Pops(p) PROVE Final(todo'[p])
  <2>1. Els(todo[p]) = {Head(todo[p])} \cup Later(todo[p])
    BY <1>1, SeqParts, Zenon
  <2>2. Els(todo'[p]) = Later(todo[p])
    BY <1>5, Zenon DEF Pops, Popped
  <2> QED
    BY <1>5, <2>1, <2>2, Zenon DEF Final
<1>6. ASSUME NEW o, Final(todo[p]), Swaps(p, o), o.op \in FinalOps, o.op # "timeout" PROVE Final(todo'[p])
  <2>1. Els(todo[p]) = {Head(todo[p])} \cup Later(todo[p])
    BY <1>1, SeqParts, Zenon
  <2>2. Els(todo'[p]) = {o} \cup Later(todo[p]) /\ Later(todo'[p]) = Later(todo[p])
    BY <1>6, Zenon DEF Swaps, Swapped
  <2> QED
    BY <1>6, <2>1, <2>2, Zenon DEF Final
<1> DEFINE o == Head(todo[p]).op
           Same == \A x \in Timers : Handles(todo'[p], x) <=> Handles(todo[p], x)
<1>7. /\ ~(o \in {"lock", "unlock", "relay", "provisional", "cancel_branch", "unref"})
      /\ o \in {"stop", "timer_del", "lock_unlock", "unlock_hash"} => Later(todo[p]) # {}
      /\ o \in {"set_fr_retr", "timer_add", "activate", "put_on_wait"} => Final(todo[p])
  BY <1>0, <1>1, Who, ZenonT(40) DEF Idle
<1>8. ASSUME LockUnlock(p) \/ timer_del(p) \/ UnlockHash(p) PROVE Same
  <2>1. Pops(p) /\ o \in {"timer_del", "lock_unlock", "unlock_hash"}
    BY <1>0, <1>8, PopSteps, Zenon DEF LockUnlock, timer_del, UnlockHash, At
  <2> QED
    BY <1>4, <1>7, <2>1, Zenon
<1>9. ASSUME Stop(p) PROVE Same
  <2>1. o = "stop" /\ (Pops(p) \/ \E x : Swaps(p, x))
    BY <1>0, <1>9, StopStep, Zenon DEF Stop, At
  <2> QED
    BY <1>4, <1>7, <2>1, Zenon
<1>10. ASSUME Activate(p) \/ put_on_wait(p) PROVE Same
  <2>1. Pops(p) /\ o \in {"activate", "put_on_wait"}
    BY <1>0, <1>10, PopSteps, Zenon DEF Activate, put_on_wait, At
  <2> QED
    BY <1>2, <1>5, <1>7, <2>1, Zenon
<1>11. ASSUME TestAdd(p) PROVE Same
  <2>1. o = "set_fr_retr" /\ (Pops(p) \/ Swaps(p, Op("timer_add", Buf(p))))
    BY <1>0, <1>11, TestAddStep, Zenon DEF TestAdd, At
  <2>2. Op("timer_add", Buf(p)).op = "timer_add"
    BY Steps, Zenon
  <2> QED
    BY <1>2, <1>5, <1>6, <1>7, <2>1, <2>2, Zenon DEF FinalOps
<1>12. ASSUME AddRetr(p) PROVE Same
  <2>1. o = "timer_add" /\ (Pops(p) \/ Swaps(p, Op("activate", Buf(p))))
    BY <1>0, <1>12, AddRetrStep, Zenon DEF AddRetr, At
  <2>2. Op("activate", Buf(p)).op = "activate"
    BY Steps, Zenon
  <2> QED
    BY <1>2, <1>5, <1>6, <1>7, <2>1, <2>2, Zenon DEF FinalOps
<1>13. ASSUME Timeout(p) PROVE Same
  <2>1. Final(todo[p])
    <3>1. o = "timeout"
      BY <1>13, Zenon DEF Timeout, At
    <3>2. Later(todo[p]) = {} /\ Els(todo[p]) = {Head(todo[p])} \cup Later(todo[p])
      BY <1>0, <1>1, <3>1, Who, SeqParts, Zenon DEF Idle
    <3> QED
      BY <3>1, <3>2, Zenon DEF Final, FinalOps
  <2>2. Final(todo'[p])
    <3>1. PICK s : Sets(p, s) /\ (s = << >> \/ FakeReply(s)
                                   \/ \E x \in {Op("put_on_wait", None), Op("set_fr_retr", "cnl")} : s = <<x>>)
      BY <1>0, <1>13, TimeoutStep, Zenon
    <3>2. Final(s)
      BY <3>1, FinalOne, FakeIsFinal, NothingLeft, Zenon
    <3> QED
      BY <3>1, <3>2, Zenon DEF Sets
  <2> QED
    BY <1>2, <2>1, <2>2, Zenon
<1>14. ASSUME UnrefFree(p) PROVE Same
  <2>1. At(p, "unref_free") /\ p = "main"
    <3>1. At(p, "unref_free")
      BY <1>14, Zenon DEF UnrefFree
    <3> QED
      BY <1>0, <3>1, Who, Zenon DEF At
  <2>2. /\ Later(todo[p]) = {} /\ Last(todo[p]) = Head(todo[p]) /\ Head(todo[p]).op = "unref_free"
        /\ Sets(p, Freeing) \/ Sets(p, <<Op("free", None)>>)
    BY <1>0, <1>14, <2>1, UnrefFreeStep, Zenon DEF LastRef
  <2>3. Waiting(todo'[p])
    BY <2>2, FreeingWaits, WaitOne, Zenon DEF Sets, Freeing
  <2>4. Waiting(todo[p])
    <3>1. Early(todo[p]) = {}
      BY <1>1, <2>2, SeqParts, Zenon
    <3> QED
      BY <1>1, <2>2, <3>1, Zenon DEF Waiting
  <2> QED
    BY <1>3, <2>3, <2>4, Zenon
<1>15. ~(Lock(p) \/ Unlock(p) \/ RelayReply(p) \/ RelayProvisional(p) \/ cancel_branch(p) \/ Unref(p))
  BY <1>7, Zenon DEF Lock, Unlock, RelayReply, RelayProvisional, cancel_branch, Unref, At
<1> QED
  BY <1>8, <1>9, <1>10, <1>11, <1>12, <1>13, <1>14, <1>15, Zenon DEF Quiet

LEMMA StepRun ==
  ASSUME TypeOK, ShapeInv, ShapeInv', LockInv, LastRef, RunInv, NEW p \in Procs, Step(p)
  PROVE  RunInv'
<1> SUFFICES ASSUME mem' = "live" PROVE \A r \in Runners, x \in Timers : st'[x] = r <=> Handles(todo'[r], x)
  BY Zenon DEF RunInv, Handles
<1>1. /\ Others(p) /\ ~Idle(p) /\ mem = "live"
      /\ \A r \in Runners, x \in Timers : st[x] = r <=> Handles(todo[r], x)
      /\ \A r \in Runners : r \in Procs
  BY StepOthers, Disjoint, Zenon DEF RunInv
<1>2. CASE Quiet(p)
  <2>1. RunSame
    BY <1>2, QuietSt, Zenon
  <2>2. ASSUME NEW r \in Runners, NEW x \in Timers PROVE Handles(todo'[r], x) <=> Handles(todo[r], x)
    <3>1. CASE r = p
      BY <1>2, <3>1, QuietHandles, Zenon
    <3>2. CASE r # p
      BY <1>1, <3>2, Zenon DEF Others
    <3> QED
      BY <3>1, <3>2, Zenon
  <2> QED
    BY <1>1, <2>1, <2>2, Zenon DEF RunSame
<1>3. st \in [Timers -> {"off", "armed"} \cup Runners] /\ Timers = Bufs \cup {"wait"}
  BY Zenon DEF TypeOK, Timer!TypeOK, Timers
<1>4. ASSUME p \in Runners, NEW b \in Timers, NEW to \in {"off", "armed"}, Timer!Move(b, p, to), HandlesNone(todo'[p]),
             HandlesOnly(todo[p], b)
      PROVE  \A r \in Runners, x \in Timers : st'[x] = r <=> Handles(todo'[r], x)
  <2> SUFFICES ASSUME NEW r \in Runners, NEW x \in Timers PROVE st'[x] = r <=> Handles(todo'[r], x)
    OBVIOUS
  <2>1. st'[x] = IF x = b THEN to ELSE st[x]
    BY <1>3, <1>4, Zenon DEF Timer!Move
  <2>2. st[b] = p
    BY <1>4, Zenon DEF Timer!Move
  <2>3. CASE r = p
    BY <1>1, <1>4, <2>1, <2>3, Zenon DEF HandlesNone, HandlesOnly, Runners
  <2>4. CASE r # p
    <3>1. todo'[r] = todo[r]
      BY <1>1, <2>4, Zenon DEF Others
    <3> QED
      BY <1>1, <1>4, <2>1, <2>2, <2>4, <3>1, Zenon DEF Runners
  <2> QED
    BY <2>3, <2>4, Zenon
<1>5. todo[p] \in Seq(OpRec) /\ todo[p] # << >> /\ Program(p, todo[p]) /\ todo'[p] \in Seq(OpRec)
  BY <1>1, Zenon DEF ShapeInv, Idle, Others
<1>6. HandlesNone(<< >>)
  BY Zenon DEF HandlesNone, Handles
<1>7. ASSUME Later(todo[p]) = {}, Pops(p) PROVE todo'[p] = << >>
  BY <1>7, Zenon DEF Pops, Popped
<1>8. ASSUME Head(todo[p]).op = "retr_buf_handler"
      PROVE  p \in Runners /\ Later(todo[p]) = {} /\ Buf(p) \in Bufs /\ HandlesOnly(todo[p], Buf(p))
  <2>1. p \in Runners /\ Later(todo[p]) = {} /\ Buf(p) \in Bufs
    BY <1>1, <1>8, Who, Zenon DEF BufOps
  <2>2. Retr(todo[p])
    BY <1>5, <1>8, <2>1, Zenon DEF Retr
  <2> QED
    BY <1>5, <2>1, <2>2, HandlesWhat, Zenon DEF Buf
<1>9. CASE TestDel(p)
  <2>1. Head(todo[p]).op = "retr_buf_handler" /\ Timer!Move(Buf(p), p, "off") /\ Pops(p)
    BY <1>9, PopSteps, Zenon DEF TestDel, At, Timer!Done
  <2> QED
    BY <1>3, <1>4, <1>6, <1>7, <1>8, <2>1, Zenon
<1>10. CASE FinalResponse(p)
  <2>1. Head(todo[p]).op = "retr_buf_handler" /\ Timer!Move(Buf(p), p, "off")
    BY <1>10, Zenon DEF FinalResponse, At, Timer!Done
  <2>2. PICK s : Sets(p, s) /\ (s = << >> \/ \E x \in {Op("put_on_wait", None), Op("timeout", None)} : s = <<x>>)
    BY <1>10, FinalStep, Zenon DEF Bufs
  <2>3. Final(s)
    BY <2>2, FinalOne, NothingLeft, Zenon
  <2>4. HandlesNone(todo'[p])
    BY <1>5, <2>2, <2>3, HandlesWhat, Zenon DEF Sets
  <2> QED
    BY <1>3, <1>4, <1>8, <2>1, <2>4, Zenon
<1>11. CASE Retransmit(p)
  <2>1. Head(todo[p]).op = "retr_buf_handler"
    BY <1>11, Zenon DEF Retransmit, At
  <2>2. CASE Buf(p) = "rpl"
    <3>1. todo'[p] = <<Op("lock_unlock", None), Op("rearm", "rpl")>> /\ st' = st
      BY <1>11, <2>2, RetransmitStep, Zenon DEF Retransmit, timers, Sets
    <3>2. HandlesOnly(todo'[p], "rpl")
      BY <1>5, <3>1, AgainTwo, HandlesWhat, Zenon
    <3>3. HandlesOnly(todo[p], "rpl")
      BY <1>8, <2>1, <2>2, Zenon
    <3>4. ASSUME NEW r \in Runners, NEW x \in Timers PROVE st'[x] = r <=> Handles(todo'[r], x)
      <4>1. CASE r = p
        BY <1>1, <3>1, <3>2, <3>3, <4>1, Zenon DEF HandlesOnly
      <4>2. CASE r # p
        BY <1>1, <3>1, <4>2, Zenon DEF Others
      <4> QED
        BY <4>1, <4>2, Zenon
    <3> QED
      BY <3>4
  <2>3. CASE Buf(p) # "rpl"
    <3>1. Timer!Move(Buf(p), p, "armed") /\ Pops(p)
      BY <1>11, <2>3, RetransmitStep, Zenon DEF Retransmit, Timer!Rearm
    <3> QED
      BY <1>3, <1>4, <1>6, <1>7, <1>8, <2>1, <3>1, Zenon
  <2> QED
    BY <2>2, <2>3, Zenon
<1>12. CASE Rearm(p)
  <2>1. Head(todo[p]).op = "rearm" /\ Timer!Move(Buf(p), p, "armed") /\ Pops(p)
    BY <1>12, PopSteps, Zenon DEF Rearm, At, Timer!Rearm
  <2>2. p \in Runners /\ Later(todo[p]) = {} /\ Buf(p) \in {"rpl", "wait"}
    BY <1>1, <2>1, Who, Zenon
  <2>3. Last(todo[p]) = Head(todo[p])
    BY <1>5, <2>2, SeqParts, Zenon
  <2>4. HandlesOnly(todo[p], Buf(p))
    BY <1>5, <2>1, <2>2, <2>3, Zenon DEF HandlesOnly, Handles, Buf
  <2>5. Buf(p) \in Timers
    BY <2>2, Zenon DEF Timers, Bufs
  <2> QED
    BY <1>4, <1>6, <1>7, <2>1, <2>2, <2>4, <2>5, Zenon
<1>13. CASE free_cell(p)
  BY <1>13, Zenon DEF free_cell
<1> QED
  BY <1>2, <1>9, <1>10, <1>11, <1>12, <1>13, Zenon DEF Step, Quiet

LEMMA NextRun ==
  ASSUME TypeOK, ShapeInv, ShapeInv', LockInv, LastRef, RunInv, [Next]_vars
  PROVE  RunInv'
<1>1. ASSUME NEW p \in Procs, Step(p) PROVE RunInv'
  BY <1>1, StepRun, Zenon
<1>2. st \in [Timers -> {"off", "armed"} \cup Runners] /\ Timers = Bufs \cup {"wait"}
  BY Zenon DEF TypeOK, Timer!TypeOK, Timers
<1>3. ASSUME NEW w \in Workers, Lookup(w) PROVE RunInv'
  <2>1. Others(w) /\ st' = st /\ mem' = mem
    BY <1>3, OtherSteps, Zenon DEF Lookup, Sets, timers
  <2>2. \A r \in Runners : todo'[r] = todo[r]
    BY <2>1, Disjoint, Zenon DEF Others
  <2> QED
    BY <2>1, <2>2, Zenon DEF RunInv
<1>4. ASSUME NEW p \in Runners, NEW b \in Timers, mem = "live", mem' = mem, Timer!Move(b, "armed", p), Idle(p), Others(p),
             HandlesOnly(todo'[p], b)
      PROVE  RunInv'
  <2> SUFFICES ASSUME NEW r \in Runners, NEW x \in Timers PROVE st'[x] = r <=> Handles(todo'[r], x)
    BY Zenon DEF RunInv
  <2>1. st'[x] = (IF x = b THEN p ELSE st[x]) /\ st[b] = "armed"
    BY <1>2, <1>4, Zenon DEF Timer!Move
  <2>2. st[x] # p
    BY <1>4, Zenon DEF RunInv, Handles, Idle
  <2>3. CASE r = p
    BY <1>4, <2>1, <2>2, <2>3, Zenon DEF HandlesOnly
  <2>4. CASE r # p
    <3>1. todo'[r] = todo[r]
      BY <1>4, <2>4, Disjoint, Zenon DEF Others
    <3>2. st'[x] = r <=> st[x] = r
      BY <2>1, <2>4, Zenon DEF Runners
    <3> QED
      BY <1>4, <3>1, <3>2, Zenon DEF RunInv
  <2> QED
    BY <2>3, <2>4, Zenon
<1>5. ASSUME NEW p \in Runners, NEW b \in Bufs, FireRetr(p, b) PROVE RunInv'
  <2>1. mem = "live" /\ mem' = mem /\ Timer!Move(b, "armed", p) /\ Idle(p)
    BY <1>5, Zenon DEF FireRetr, Timer!Fire, cell
  <2>2. Sets(p, <<Op("retr_buf_handler", b)>>)
    BY <1>5, OtherSteps, Zenon
  <2>3. HandlesOnly(todo'[p], b)
    <3>1. Retr(todo'[p]) /\ todo'[p] \in Seq(OpRec)
      BY <2>2, RetrOne, Disjoint, Zenon DEF Sets, Others
    <3>2. Is1(todo'[p], Op("retr_buf_handler", b))
      BY <2>2, One, Zenon DEF Sets
    <3>3. Head(todo'[p]).rb = b
      BY <3>2, SMT DEF Is1, Op
    <3> QED
      BY <3>1, <3>3, HandlesWhat, Zenon
  <2> QED
    BY <1>2, <1>4, <2>1, <2>2, <2>3, Zenon DEF Sets
<1>6. ASSUME FireWait PROVE RunInv'
  <2>1. mem = "live" /\ mem' = mem /\ Timer!Move("wait", "armed", "main") /\ Idle("main")
    BY <1>6, Zenon DEF FireWait, Timer!Fire, cell
  <2>2. Sets("main", <<Op("stop", "cnl"), Op("wait_handler", "wait")>>)
    BY <1>6, OtherSteps, Zenon
  <2>3. HandlesOnly(todo'["main"], "wait")
    BY <2>2, WaitTwo, HandlesWhat, Disjoint, Zenon DEF Sets, Others
  <2> QED
    BY <1>2, <1>4, <2>1, <2>2, <2>3, Disjoint, Zenon DEF Sets
<1>7. ASSUME wait_handler PROVE RunInv'
  <2>1. st' = st /\ mem' = mem /\ mem = "live" /\ ~Idle("main") /\ Head(todo["main"]).op = "wait_handler"
    BY <1>7, Zenon DEF wait_handler, timers, At
  <2>2. PICK s : Sets("main", s)
                 /\ (s = Unlinking \/ \E x \in {Op("rearm", "wait"), Op("unref_free", None)} : s = <<x>>)
    BY <1>7, WaitStep, Zenon
  <2>3. Waiting(s) /\ todo'["main"] = s /\ s \in Seq(OpRec)
    BY <2>2, UnlinkingWaits, WaitOne, Disjoint, Zenon DEF Unlinking, Sets, Others
  <2>4. HandlesOnly(todo'["main"], "wait")
    BY <2>3, HandlesWhat, Zenon
  <2>5. HandlesOnly(todo["main"], "wait")
    <3>1. Last(todo["main"]) = Head(todo["main"]) /\ Buf("main") = "wait" /\ "main" \in Procs
      BY <1>7, <2>1, WaitStep, Who, Zenon
    <3> QED
      BY <2>1, <3>1, Zenon DEF HandlesOnly, Handles, Buf, Idle
  <2>6. ASSUME NEW r \in Runners, NEW x \in Timers PROVE st'[x] = r <=> Handles(todo'[r], x)
    <3>1. CASE r = "main"
      BY <2>1, <2>4, <2>5, <3>1, Zenon DEF HandlesOnly, RunInv
    <3>2. CASE r # "main"
      <4>1. todo'[r] = todo[r]
        BY <2>2, <3>2, Disjoint, Zenon DEF Sets, Others
      <4> QED
        BY <2>1, <4>1, Zenon DEF RunInv
    <3> QED
      BY <3>1, <3>2, Zenon
  <2> QED
    BY <2>6, Zenon DEF RunInv
<1>8. ASSUME UNCHANGED vars PROVE RunInv'
  <2>1. mem' = mem /\ st' = st /\ todo' = todo
    BY <1>8, Zenon DEF vars, cell, timers
  <2> QED
    BY <2>1, Zenon DEF RunInv
<1> QED
  BY <1>1, <1>3, <1>5, <1>6, <1>7, <1>8, Zenon DEF Next, Gone

-----------------------------------------------------------------------------
(* The steps that come first.                                                 *)

New(s) == \/ s = << >> \/ s = Freeing \/ s = Unlinking \/ s = <<Op("lock_unlock", None), Op("rearm", "rpl")>>
          \/ s = <<Op("stop", "cnl"), Op("wait_handler", "wait")>>
          \/ Relaying(s) \/ FakeReply(s) \/ Job(s)
          \/ \E x \in {Op("unref", None), Op("put_on_wait", None), Op("timeout", None), Op("set_fr_retr", "cnl"),
                       Op("rearm", "wait"), Op("unref_free", None), Op("free", None)} : s = <<x>>
          \/ \E b \in Bufs : s = <<Op("retr_buf_handler", b)>>
LaterOps == {"timer_del", "activate", "timer_add"}

LEMMA NewParts ==
  ASSUME NEW s, New(s)
  PROVE  /\ \A e \in Els(s) : e.op \notin LaterOps /\ ~AddsReq(e)
         /\ s # << >> => Head(s).op \notin LaterOps
<1>1. CASE s = << >>
  BY <1>1, EmptyParts, Zenon
<1>2. CASE s = Freeing
  <2>1. Is4(s, Op("stop", "rpl"), Op("stop", "req"), Op("stop", "cnl"), Op("free", None))
    BY <1>2, Four, Zenon DEF Freeing
  <2> QED
    BY <2>1, SMT DEF Is4, AddsReq, LaterOps, Op
<1>3. CASE s = Unlinking
  <2>1. Is5(s, Op("stop", "rpl"), Op("stop", "req"), Op("stop", "cnl"), Op("unlock_hash", None), Op("rearm", "wait"))
    BY <1>3, Five, Zenon DEF Unlinking
  <2> QED
    BY <2>1, SMT DEF Is5, AddsReq, LaterOps, Op
<1>4. CASE s = <<Op("lock_unlock", None), Op("rearm", "rpl")>> \/ s = <<Op("stop", "cnl"), Op("wait_handler", "wait")>>
  <2>1. Is2(s, Op("lock_unlock", None), Op("rearm", "rpl")) \/ Is2(s, Op("stop", "cnl"), Op("wait_handler", "wait"))
    BY <1>4, Two, Zenon
  <2> QED
    BY <2>1, SMT DEF Is2, AddsReq, LaterOps, Op
<1>5. CASE Relaying(s)
  <2>1. \/ Is4(s, Op("set_fr_retr", "rpl"), Op("put_on_wait", None), Op("stop", "req"), Op("unref", None))
        \/ Is3(s, Op("put_on_wait", None), Op("stop", "req"), Op("unref", None))
    BY <1>5, Three, Four, Zenon DEF Relaying
  <2> QED
    BY <2>1, SMT DEF Is3, Is4, AddsReq, LaterOps, Op
<1>6. CASE FakeReply(s)
  <2>1. \/ Is3(s, Op("set_fr_retr", "rpl"), Op("set_fr_retr", "cnl"), Op("put_on_wait", None))
        \/ Is2(s, Op("set_fr_retr", "rpl"), Op("put_on_wait", None))
    BY <1>6, Two, Three, Zenon DEF FakeReply
  <2> QED
    BY <2>1, SMT DEF Is2, Is3, AddsReq, LaterOps, Op
<1>7. CASE Job(s)
  <2>1. CASE \E b \in {"req", "cnl"} : s = <<Op("lock", None), Op("stop", b)>> \o Section(b)
    <3>1. PICK b \in {"req", "cnl"} : s = <<Op("lock", None), Op("stop", b)>> \o Section(b)
      BY <2>1
    <3> DEFINE x == Section(b)[1]
    <3>2. s = <<Op("lock", None), Op("stop", b), x, Op("unref", None)>> /\ x \in {Op("relay", None), Op("unlock", None)}
      BY <3>1, SectionParts, Zenon
    <3> HIDE DEF x
    <3>3. Is4(s, Op("lock", None), Op("stop", b), x, Op("unref", None))
      BY <3>2, Four, Zenon
    <3> QED
      BY <3>2, <3>3, SMT DEF Is4, AddsReq, LaterOps, Op
  <2>2. CASE \E o \in {"provisional", "lock_unlock", "cancel_branch"} : s = <<Op(o, None), Op("unref", None)>>
    <3>1. PICK o \in {"provisional", "lock_unlock", "cancel_branch"} : s = <<Op(o, None), Op("unref", None)>>
      BY <2>2
    <3>2. Is2(s, Op(o, None), Op("unref", None))
      BY <3>1, Two, Zenon
    <3> QED
      BY <3>2, SMT DEF Is2, AddsReq, LaterOps, Op
  <2>3. CASE s = <<Op("stop", "rpl"), Op("stop", "req"), Op("put_on_wait", None), Op("unref", None)>>
    <3>1. Is4(s, Op("stop", "rpl"), Op("stop", "req"), Op("put_on_wait", None), Op("unref", None))
      BY <2>3, Four, Zenon
    <3> QED
      BY <3>1, SMT DEF Is4, AddsReq, LaterOps, Op
  <2> QED
    BY <1>7, <2>1, <2>2, <2>3, Zenon DEF Job
<1>8. ASSUME NEW x \in {Op("unref", None), Op("put_on_wait", None), Op("timeout", None), Op("set_fr_retr", "cnl"),
                        Op("rearm", "wait"), Op("unref_free", None), Op("free", None)}, s = <<x>>
      PROVE  /\ \A e \in Els(s) : e.op \notin LaterOps /\ ~AddsReq(e)
             /\ s # << >> => Head(s).op \notin LaterOps
  <2>1. Is1(s, x)
    BY <1>8, One, Zenon
  <2> QED
    BY <2>1, SMT DEF Is1, AddsReq, LaterOps, Op
<1>9. ASSUME NEW b \in Bufs, s = <<Op("retr_buf_handler", b)>>
      PROVE  /\ \A e \in Els(s) : e.op \notin LaterOps /\ ~AddsReq(e)
             /\ s # << >> => Head(s).op \notin LaterOps
  <2>1. Is1(s, Op("retr_buf_handler", b))
    BY <1>9, One, Zenon
  <2> QED
    BY <2>1, SMT DEF Is1, AddsReq, LaterOps, Op
<1> QED
  BY <1>1, <1>2, <1>3, <1>4, <1>5, <1>6, <1>7, <1>8, <1>9, Zenon DEF New

(* a step that goes on, or begins with something new, and the other ones *)
Plainly(p) == (~Idle(p) /\ Pops(p)) \/ \E s : New(s) /\ Sets(p, s)
Swapping(p) == \/ Stop(p) /\ rb[Buf(p)].t_active /\ Buf(p) \in added /\ Swaps(p, Op("timer_del", Buf(p)))
               \/ TestAdd(p) /\ ~rb[Buf(p)].del /\ Swaps(p, Op("timer_add", Buf(p)))
               \/ AddRetr(p) /\ Buf(p) \notin added /\ Swaps(p, Op("activate", Buf(p)))
               \/ cancel_branch(p) /\ Swaps(p, Op("set_fr_retr", "cnl"))

LEMMA StepMoves ==
  ASSUME ShapeInv, ShapeInv', LockInv, LastRef, NEW p \in Procs, Step(p)
  PROVE  Plainly(p) \/ Swapping(p)
<1>0. ~Idle(p)
  BY StepOthers, Zenon
<1>1. CASE \/ Lock(p) \/ LockUnlock(p) \/ Unlock(p) \/ timer_del(p) \/ Activate(p) \/ put_on_wait(p)
           \/ RelayProvisional(p) \/ free_cell(p) \/ TestDel(p) \/ Rearm(p) \/ UnlockHash(p)
  BY <1>0, <1>1, PopSteps, Zenon DEF Plainly
<1>2. CASE Stop(p)
  BY <1>0, <1>2, StopStep, Zenon DEF Plainly, Swapping
<1>3. CASE TestAdd(p)
  BY <1>0, <1>3, TestAddStep, Zenon DEF Plainly, Swapping
<1>4. CASE AddRetr(p)
  BY <1>0, <1>4, AddRetrStep, Zenon DEF Plainly, Swapping
<1>5. CASE cancel_branch(p)
  BY <1>0, <1>5, CancelStep, Zenon DEF Plainly, Swapping
<1>6. CASE RelayReply(p)
  <2>1. PICK s : Sets(p, s) /\ (Relaying(s) \/ s = <<Op("unref", None)>>)
    BY <1>6, RelayStep, Zenon
  <2>2. New(s)
    BY <2>1, Zenon DEF New
  <2> QED
    BY <2>1, <2>2, Zenon DEF Plainly
<1>7. CASE Unref(p)
  <2>1. PICK s : Sets(p, s) /\ (s = Freeing \/ s = << >>)
    BY <1>7, UnrefStep, Zenon
  <2>2. New(s)
    BY <2>1, Zenon DEF New
  <2> QED
    BY <2>1, <2>2, Zenon DEF Plainly
<1>8. CASE Retransmit(p)
  <2>1. Pops(p) \/ Sets(p, <<Op("lock_unlock", None), Op("rearm", "rpl")>>)
    BY <1>8, RetransmitStep, Zenon
  <2>2. New(<<Op("lock_unlock", None), Op("rearm", "rpl")>>)
    BY Zenon DEF New
  <2> QED
    BY <1>0, <2>1, <2>2, Zenon DEF Plainly
<1>9. CASE FinalResponse(p)
  <2>1. PICK s : Sets(p, s) /\ (s = << >> \/ \E x \in {Op("put_on_wait", None), Op("timeout", None)} : s = <<x>>)
    BY <1>9, FinalStep, Zenon DEF Bufs
  <2>2. New(s)
    BY <2>1, Zenon DEF New
  <2> QED
    BY <2>1, <2>2, Zenon DEF Plainly
<1>10. CASE Timeout(p)
  <2>1. PICK s : Sets(p, s) /\ (s = << >> \/ FakeReply(s)
                                \/ \E x \in {Op("put_on_wait", None), Op("set_fr_retr", "cnl")} : s = <<x>>)
    BY <1>10, TimeoutStep, Zenon
  <2>2. New(s)
    BY <2>1, Zenon DEF New
  <2> QED
    BY <2>1, <2>2, Zenon DEF Plainly
<1>11. CASE UnrefFree(p)
  <2>1. At(p, "unref_free") /\ p = "main"
    <3>1. At(p, "unref_free")
      BY <1>11, Zenon DEF UnrefFree
    <3> QED
      BY <3>1, Who, Zenon DEF At
  <2>2. PICK s : Sets(p, s) /\ (s = Freeing \/ s = <<Op("free", None)>>)
    BY <1>11, <2>1, UnrefFreeStep, Zenon DEF LastRef
  <2>3. New(s)
    BY <2>2, Zenon DEF New
  <2> QED
    BY <2>2, <2>3, Zenon DEF Plainly
<1> QED
  BY <1>1, <1>2, <1>3, <1>4, <1>5, <1>6, <1>7, <1>8, <1>9, <1>10, <1>11, Zenon DEF Step

LEMMA OthersMove ==
  ASSUME ShapeInv
  PROVE  /\ \A p \in Workers : Lookup(p) => Plainly(p)
         /\ \A p \in Runners, b \in Bufs : FireRetr(p, b) => Plainly(p)
         /\ FireWait => Plainly("main")
         /\ wait_handler => Plainly("main")
<1>1. ASSUME NEW p \in Workers, Lookup(p) PROVE Plainly(p)
  <2>1. PICK s : Job(s) /\ Sets(p, s)
    BY <1>1, OtherSteps, Zenon
  <2>2. New(s)
    BY <2>1, Zenon DEF New
  <2> QED
    BY <2>1, <2>2, Zenon DEF Plainly
<1>2. ASSUME NEW p \in Runners, NEW b \in Bufs, FireRetr(p, b) PROVE Plainly(p)
  <2>1. Sets(p, <<Op("retr_buf_handler", b)>>) /\ New(<<Op("retr_buf_handler", b)>>)
    BY <1>2, OtherSteps, Zenon DEF New
  <2> QED
    BY <2>1, Zenon DEF Plainly
<1>3. ASSUME FireWait PROVE Plainly("main")
  <2>1. /\ Sets("main", <<Op("stop", "cnl"), Op("wait_handler", "wait")>>)
        /\ New(<<Op("stop", "cnl"), Op("wait_handler", "wait")>>)
    BY <1>3, OtherSteps, Zenon DEF New
  <2> QED
    BY <2>1, Zenon DEF Plainly
<1>4. ASSUME wait_handler PROVE Plainly("main")
  <2>1. PICK s : Sets("main", s)
                 /\ (s = Unlinking \/ \E x \in {Op("rearm", "wait"), Op("unref_free", None)} : s = <<x>>)
    BY <1>4, WaitStep, Zenon
  <2>2. New(s)
    BY <2>1, Zenon DEF New
  <2> QED
    BY <2>1, <2>2, Zenon DEF Plainly
<1> QED
  BY <1>1, <1>2, <1>3, <1>4, Zenon

LEMMA PlainlyFresh ==
  ASSUME ShapeInv, NEW p \in Procs, Plainly(p)
  PROVE  /\ Others(p)
         /\ todo'[p] # << >> => Head(todo'[p]).op \notin LaterOps
         /\ ~Does(p, "timer_del")' /\ ~Does(p, "activate")'
<1>1. ASSUME todo'[p] # << >> PROVE Head(todo'[p]).op \notin LaterOps
  <2>1. CASE ~Idle(p) /\ Pops(p)
    <3>1. Head(todo'[p]) \in Later(todo[p])
      BY <1>1, <2>1, Zenon DEF Pops, Popped
    <3>2. Plain(todo[p])
      BY Zenon DEF ShapeInv, Program
    <3> QED
      BY <3>1, <3>2, Zenon DEF Plain, HeadOps, LaterOps
  <2>2. ASSUME NEW s, New(s), Sets(p, s) PROVE Head(todo'[p]).op \notin LaterOps
    BY <1>1, <2>2, NewParts, Zenon DEF Sets
  <2> QED
    BY <2>1, <2>2, Zenon DEF Plainly
<1>2. Others(p)
  BY Zenon DEF Plainly, Pops, Sets
<1> QED
  BY <1>1, <1>2, Zenon DEF Does, Idle, LaterOps

-----------------------------------------------------------------------------
(* What a step of p does to the timers.                                       *)

Other(p) == ~Does(p, "timer_del") /\ ~Does(p, "activate")
Fresh(p) == ~Does(p, "timer_del")' /\ ~Does(p, "activate")'
Inactive(b) == rb'[b].t_active = FALSE /\ \A c \in Bufs : c # b => rb'[c] = rb[c]

Calm(p) == Other(p) /\ Fresh(p) /\ mem' = mem /\ rb' = rb /\ added' = added /\ st' = st /\ deleting' = deleting
Skips(p) == /\ Other(p) /\ Fresh(p) /\ mem' = mem /\ added' = added /\ st' = st /\ deleting' = deleting
            /\ Buf(p) \in Bufs /\ Inactive(Buf(p)) /\ ~(rb[Buf(p)].t_active /\ Buf(p) \in added)
StartsDel(p) == /\ Other(p) /\ Does(p, "timer_del")' /\ ~Does(p, "activate")' /\ Buf(p)' = Buf(p)
                /\ mem' = mem /\ added' = added /\ st' = st /\ deleting' = [deleting EXCEPT ![p] = Buf(p)]
                /\ Buf(p) \in Bufs /\ Inactive(Buf(p))
Deletes(p) == /\ Does(p, "timer_del") /\ Fresh(p) /\ mem' = mem /\ rb' = rb /\ added' = added
              /\ deleting' = [deleting EXCEPT ![p] = None] /\ deleting[p] \in Bufs
              /\ \A x \in Timers : st'[x] = IF x = deleting[p] THEN "off" ELSE st[x]
Adds(p) == /\ Other(p) /\ ~Does(p, "timer_del")' /\ Does(p, "activate")' /\ Buf(p)' = Buf(p)
           /\ Buf(p) \in Bufs /\ Buf(p) \notin added /\ added' = added \cup {Buf(p)}
           /\ mem' = mem /\ rb' = rb /\ deleting' = deleting /\ Timer!Move(Buf(p), "off", "armed")
Activates(p) == /\ Does(p, "activate") /\ Fresh(p) /\ mem' = mem /\ added' = added /\ st' = st /\ deleting' = deleting
                /\ Buf(p) \in Bufs /\ rb'[Buf(p)].t_active = TRUE /\ \A c \in Bufs : c # Buf(p) => rb'[c] = rb[c]
PutsOnWait(p) == /\ Other(p) /\ Fresh(p) /\ mem' = mem /\ rb' = rb /\ deleting' = deleting
                 /\ "wait" \notin added /\ added' = added \cup {"wait"} /\ Timer!Move("wait", "off", "armed")
MovesOn(p, x, from, to) == /\ p \in Runners /\ x \in Timers /\ Other(p) /\ Fresh(p) /\ mem' = mem
                           /\ added' = added /\ deleting' = deleting /\ Timer!Move(x, from, to)
Fires(p) == rb' = rb /\ \E x \in Timers : MovesOn(p, x, "armed", p)
Rearms(p) == rb' = rb /\ \E x \in Timers : MovesOn(p, x, p, "armed")
Ends(p) == Buf(p) \in Bufs /\ MovesOn(p, Buf(p), p, "off") /\ Inactive(Buf(p))
Frees(p) == Other(p) /\ Fresh(p) /\ mem' = "freed" /\ rb' = rb /\ added' = added /\ deleting' = deleting

Effect(p) == \/ Calm(p) \/ Skips(p) \/ StartsDel(p) \/ Deletes(p) \/ Adds(p) \/ Activates(p) \/ PutsOnWait(p)
             \/ Fires(p) \/ Rearms(p) \/ Ends(p) \/ Frees(p)

LEMMA SwapFresh ==
  ASSUME NEW p \in Procs, NEW b, Swaps(p, Op("timer_add", b)) \/ Swaps(p, Op("set_fr_retr", b))
  PROVE  Fresh(p)
<1>1. Head(todo'[p]) \in {Op("timer_add", b), Op("set_fr_retr", b)}
  BY Zenon DEF Swaps, Swapped
<1>2. Head(todo'[p]).op \notin {"timer_del", "activate"}
  BY <1>1, SMT DEF Op
<1> QED
  BY <1>2, Zenon DEF Fresh, Does

LEMMA StepEffect ==
  ASSUME TypeOK, ShapeInv, ShapeInv', LockInv, LastRef, DelInv, NEW p \in Procs, Step(p)
  PROVE  Effect(p)
<1>1. rb \in [Bufs -> [del : BOOLEAN, t_active : BOOLEAN]] /\ deleting \in [Procs -> Timers \cup {None}]
  BY Zenon DEF TypeOK, Timer!TypeOK
<1>2. Plainly(p) => Fresh(p)
  BY PlainlyFresh, Zenon DEF Fresh
<1>3. ASSUME NEW o, Head(todo[p]).op = o, o \notin {"timer_del", "activate"} PROVE Other(p)
  BY <1>3, Zenon DEF Other, Does
<1>4. CASE Lock(p) \/ LockUnlock(p) \/ Unlock(p) \/ RelayProvisional(p) \/ UnlockHash(p)
  <2>1. Fresh(p)
    <3>1. ~Idle(p) /\ Pops(p)
      BY <1>4, PopSteps, Zenon DEF Lock, LockUnlock, Unlock, RelayProvisional, UnlockHash, At
    <3> QED
      BY <1>2, <3>1, Zenon DEF Plainly
  <2>2. mem' = mem /\ rb' = rb /\ added' = added /\ st' = st /\ deleting' = deleting
    BY <1>4, Zenon DEF Lock, LockUnlock, Unlock, RelayProvisional, UnlockHash, cell, timers
  <2>3. Other(p)
    BY <1>3, <1>4, Zenon DEF Lock, LockUnlock, Unlock, RelayProvisional, UnlockHash, At
  <2> QED
    BY <2>1, <2>2, <2>3, Zenon DEF Calm, Effect
<1>5. CASE TestAdd(p)
  <2>1. Fresh(p)
    <3>1. ~Idle(p) /\ (Pops(p) \/ Swaps(p, Op("timer_add", Buf(p))))
      BY <1>5, TestAddStep, Zenon DEF TestAdd, At
    <3>2. Swaps(p, Op("timer_add", Buf(p))) => Fresh(p)
      BY SwapFresh, Zenon
    <3> QED
      BY <1>2, <3>1, <3>2, Zenon DEF Plainly
  <2>2. mem' = mem /\ rb' = rb /\ added' = added /\ st' = st /\ deleting' = deleting
    BY <1>5, Zenon DEF TestAdd, cell, timers
  <2>3. Other(p)
    BY <1>3, <1>5, Zenon DEF TestAdd, At
  <2> QED
    BY <2>1, <2>2, <2>3, Zenon DEF Calm, Effect
<1>6. CASE cancel_branch(p)
  <2>1. Fresh(p)
    <3>1. ~Idle(p) /\ (Pops(p) \/ Swaps(p, Op("set_fr_retr", "cnl")))
      BY <1>6, CancelStep, Zenon DEF cancel_branch, At
    <3>2. Swaps(p, Op("set_fr_retr", "cnl")) => Fresh(p)
      BY SwapFresh, Zenon
    <3> QED
      BY <1>2, <3>1, <3>2, Zenon DEF Plainly
  <2>2. mem' = mem /\ rb' = rb /\ added' = added /\ st' = st /\ deleting' = deleting
    BY <1>6, Zenon DEF cancel_branch, cell, timers
  <2>3. Other(p)
    BY <1>3, <1>6, Zenon DEF cancel_branch, At
  <2> QED
    BY <2>1, <2>2, <2>3, Zenon DEF Calm, Effect
<1>7. CASE RelayReply(p) \/ Unref(p) \/ Timeout(p) \/ UnrefFree(p)
  <2>1. Fresh(p)
    <3>1. Plainly(p) \/ Swapping(p)
      BY StepMoves, Zenon
    <3>2. ~Swapping(p)
      <4>1. ~(At(p, "stop") \/ At(p, "set_fr_retr") \/ At(p, "timer_add") \/ At(p, "cancel_branch"))
        BY <1>7, Zenon DEF RelayReply, Unref, Timeout, UnrefFree, At
      <4> QED
        BY <4>1, Zenon DEF Swapping, Stop, TestAdd, AddRetr, cancel_branch
    <3> QED
      BY <1>2, <3>1, <3>2, Zenon
  <2>2. mem' = mem /\ rb' = rb /\ added' = added /\ st' = st /\ deleting' = deleting
    BY <1>7, Zenon DEF RelayReply, Unref, Timeout, UnrefFree, cell, timers
  <2>3. Other(p)
    <3>1. Head(todo[p]).op \in {"relay", "unref", "timeout", "unref_free"}
      BY <1>7, Zenon DEF RelayReply, Unref, Timeout, UnrefFree, At
    <3> QED
      BY <1>3, <3>1, Zenon
  <2> QED
    BY <2>1, <2>2, <2>3, Zenon DEF Calm, Effect
<1>8. CASE Stop(p)
  <2>1. Other(p) /\ ~Idle(p)
    BY <1>3, <1>8, Zenon DEF Stop, At
  <2>2. mem' = mem /\ added' = added /\ Buf(p) \in Bufs
    BY <1>8, StopStep, Zenon DEF Stop, cell
  <2>3. Inactive(Buf(p))
    <3>1. PICK del : rb' = [rb EXCEPT ![Buf(p)] = [del |-> del, t_active |-> FALSE]]
      BY <1>8, Zenon DEF Stop
    <3>2. rb'[Buf(p)] = [del |-> del, t_active |-> FALSE] /\ \A c \in Bufs : c # Buf(p) => rb'[c] = rb[c]
      BY <1>1, <2>2, <3>1, Zenon
    <3>3. rb'[Buf(p)].t_active = FALSE
      BY <3>2, SMT
    <3> QED
      BY <3>2, <3>3, Zenon DEF Inactive
  <2>4. CASE rb[Buf(p)].t_active /\ Buf(p) \in added
    <3>1. Swaps(p, Op("timer_del", Buf(p))) /\ st' = st /\ deleting' = [deleting EXCEPT ![p] = Buf(p)]
      BY <1>8, <2>4, StopStep, Zenon DEF Stop, Timer!Del
    <3>2. todo'[p] # << >> /\ Head(todo'[p]) = Op("timer_del", Buf(p))
      BY <3>1, Zenon DEF Swaps, Swapped
    <3>3. Head(todo'[p]).op = "timer_del" /\ Head(todo'[p]).rb = Buf(p)
      BY <3>2, SMT DEF Op
    <3>4. Does(p, "timer_del")' /\ ~Does(p, "activate")' /\ Buf(p)' = Buf(p)
      BY <3>2, <3>3, Zenon DEF Does, Idle, Buf
    <3> QED
      BY <2>1, <2>2, <2>3, <3>1, <3>4, Zenon DEF StartsDel, Effect
  <2>5. CASE ~(rb[Buf(p)].t_active /\ Buf(p) \in added)
    <3>1. Pops(p) /\ st' = st /\ deleting' = deleting
      BY <1>8, <2>5, StopStep, Zenon DEF Stop, timers
    <3>2. Fresh(p)
      BY <1>2, <2>1, <3>1, Zenon DEF Plainly
    <3> QED
      BY <2>1, <2>2, <2>3, <2>5, <3>1, <3>2, Zenon DEF Skips, Effect
  <2> QED
    BY <2>4, <2>5, Zenon
<1>9. CASE timer_del(p)
  <2>1. Does(p, "timer_del") /\ mem' = mem /\ rb' = rb /\ added' = added
    BY <1>9, Zenon DEF timer_del, At, Does, cell
  <2>2. Pops(p) /\ ~Idle(p)
    BY <1>9, PopSteps, Zenon DEF timer_del, At
  <2>3. Fresh(p)
    BY <1>2, <2>2, Zenon DEF Plainly
  <2>4. deleting[p] \in Bufs
    <3>1. Buf(p) \in Bufs
      BY <2>1, <2>2, Who, Zenon DEF Does, BufOps
    <3> QED
      BY <2>1, <3>1, Zenon DEF DelInv
  <2>5. deleting' = [deleting EXCEPT ![p] = None]
    BY <1>9, Zenon DEF timer_del, Timer!Deleted, Timer!WasOff, Timer!Returns
  <2>6. \A x \in Timers : st'[x] = IF x = deleting[p] THEN "off" ELSE st[x]
    <3>1. st \in [Timers -> {"off", "armed"} \cup Runners]
      BY Zenon DEF TypeOK, Timer!TypeOK
    <3>2. CASE Timer!Deleted(p)
      BY <3>1, <3>2, Zenon DEF Timer!Deleted, Timer!Move
    <3>3. CASE Timer!WasOff(p)
      BY <3>1, <3>3, Zenon DEF Timer!WasOff
    <3> QED
      BY <1>9, <3>2, <3>3, Zenon DEF timer_del
  <2> QED
    BY <2>1, <2>3, <2>4, <2>5, <2>6, Zenon DEF Deletes, Effect
<1>10. CASE AddRetr(p)
  <2>1. Other(p) /\ ~Idle(p) /\ mem' = mem /\ rb' = rb
    BY <1>3, <1>10, Zenon DEF AddRetr, At, cell
  <2>2. CASE Buf(p) \in added
    <3>1. Pops(p) /\ added' = added /\ st' = st /\ deleting' = deleting
      BY <1>10, <2>2, AddRetrStep, Zenon DEF AddRetr, timer_add, timers
    <3>2. Fresh(p)
      BY <1>2, <2>1, <3>1, Zenon DEF Plainly
    <3> QED
      BY <2>1, <3>1, <3>2, Zenon DEF Calm, Effect
  <2>3. CASE Buf(p) \notin added
    <3>1. /\ Swaps(p, Op("activate", Buf(p))) /\ added' = added \cup {Buf(p)} /\ deleting' = deleting
          /\ Timer!Move(Buf(p), "off", "armed") /\ Buf(p) \in Bufs
      BY <1>10, <2>3, AddRetrStep, Zenon DEF AddRetr, timer_add, Timer!Add
    <3>2. todo'[p] # << >> /\ Head(todo'[p]) = Op("activate", Buf(p))
      BY <3>1, Zenon DEF Swaps, Swapped
    <3>3. Head(todo'[p]).op = "activate" /\ Head(todo'[p]).rb = Buf(p)
      BY <3>2, SMT DEF Op
    <3>4. Does(p, "activate")' /\ ~Does(p, "timer_del")' /\ Buf(p)' = Buf(p)
      BY <3>2, <3>3, Zenon DEF Does, Idle, Buf
    <3> QED
      BY <2>1, <2>3, <3>1, <3>4, Zenon DEF Adds, Effect
  <2> QED
    BY <2>2, <2>3, Zenon
<1>11. CASE Activate(p)
  <2>1. Does(p, "activate") /\ mem' = mem /\ added' = added /\ st' = st /\ deleting' = deleting
    BY <1>11, Zenon DEF Activate, At, Does, cell, timers
  <2>2. Pops(p) /\ ~Idle(p)
    BY <1>11, PopSteps, Zenon DEF Activate, At
  <2>3. Fresh(p)
    BY <1>2, <2>2, Zenon DEF Plainly
  <2>4. Buf(p) \in Bufs
    BY <2>1, <2>2, Who, Zenon DEF Does, BufOps
  <2>5. rb'[Buf(p)].t_active = TRUE /\ \A c \in Bufs : c # Buf(p) => rb'[c] = rb[c]
    <3>1. rb' = [rb EXCEPT ![Buf(p)].t_active = TRUE]
      BY <1>11, Zenon DEF Activate
    <3> QED
      BY <1>1, <2>4, <3>1, SMT
  <2> QED
    BY <2>1, <2>3, <2>4, <2>5, Zenon DEF Activates, Effect
<1>12. CASE put_on_wait(p)
  <2>1. Other(p) /\ ~Idle(p) /\ mem' = mem /\ rb' = rb /\ Pops(p)
    BY <1>3, <1>12, PopSteps, Zenon DEF put_on_wait, At, cell
  <2>2. Fresh(p)
    BY <1>2, <2>1, Zenon DEF Plainly
  <2>3. CASE "wait" \in added
    <3>1. added' = added /\ st' = st /\ deleting' = deleting
      BY <1>12, <2>3, Zenon DEF put_on_wait, timer_add, timers
    <3> QED
      BY <2>1, <2>2, <3>1, Zenon DEF Calm, Effect
  <2>4. CASE "wait" \notin added
    <3>1. added' = added \cup {"wait"} /\ Timer!Move("wait", "off", "armed") /\ deleting' = deleting
      BY <1>12, <2>4, Zenon DEF put_on_wait, timer_add, Timer!Add
    <3> QED
      BY <2>1, <2>2, <2>4, <3>1, Zenon DEF PutsOnWait, Effect
  <2> QED
    BY <2>3, <2>4, Zenon
<1>13. CASE free_cell(p)
  <2>1. Other(p) /\ ~Idle(p) /\ mem' = "freed" /\ rb' = rb /\ Pops(p) /\ added' = added
    BY <1>3, <1>13, PopSteps, Zenon DEF free_cell, At
  <2>2. deleting' = deleting
    BY <1>13, Zenon DEF free_cell, timers, Timer!Done
  <2>3. Fresh(p)
    BY <1>2, <2>1, Zenon DEF Plainly
  <2> QED
    BY <2>1, <2>2, <2>3, Zenon DEF Frees, Effect
<1>14. CASE TestDel(p) \/ FinalResponse(p)
  <2>1. Head(todo[p]).op = "retr_buf_handler" /\ ~Idle(p) /\ mem' = mem /\ added' = added
    BY <1>14, Zenon DEF TestDel, FinalResponse, At, cell
  <2>2. p \in Runners /\ Buf(p) \in Bufs /\ Buf(p) \in Timers
    BY <2>1, Who, Zenon DEF BufOps, Timers
  <2>3. Timer!Move(Buf(p), p, "off") /\ deleting' = deleting
    BY <1>14, Zenon DEF TestDel, FinalResponse, Timer!Done
  <2>4. Inactive(Buf(p))
    <3>1. rb' = [rb EXCEPT ![Buf(p)].t_active = FALSE]
      BY <1>14, Zenon DEF TestDel, FinalResponse
    <3> QED
      BY <1>1, <2>2, <3>1, SMT DEF Inactive
  <2>5. Fresh(p)
    <3>1. CASE TestDel(p)
      BY <1>2, <2>1, <3>1, PopSteps, Zenon DEF Plainly
    <3>2. CASE FinalResponse(p)
      <4>1. ~Swapping(p)
        BY <2>1, Zenon DEF Swapping, Stop, TestAdd, AddRetr, cancel_branch, At
      <4> QED
        BY <1>2, <4>1, StepMoves, Zenon
    <3> QED
      BY <1>14, <3>1, <3>2, Zenon
  <2> QED
    BY <1>3, <2>1, <2>2, <2>3, <2>4, <2>5, Zenon DEF Ends, MovesOn, Effect
<1>15. CASE Retransmit(p)
  <2>1. Other(p) /\ ~Idle(p) /\ mem' = mem /\ added' = added /\ rb' = rb /\ p \in Runners /\ Buf(p) \in Bufs
    BY <1>3, <1>15, RetransmitStep, Zenon DEF Retransmit, At, cell
  <2>2. Fresh(p)
    <3>1. ~Swapping(p)
      BY <1>15, Zenon DEF Retransmit, Swapping, Stop, TestAdd, AddRetr, cancel_branch, At
    <3> QED
      BY <1>2, <3>1, StepMoves, Zenon
  <2>3. CASE Buf(p) = "rpl"
    <3>1. st' = st /\ deleting' = deleting
      BY <1>15, <2>3, Zenon DEF Retransmit, timers
    <3> QED
      BY <2>1, <2>2, <3>1, Zenon DEF Calm, Effect
  <2>4. CASE Buf(p) # "rpl"
    <3>1. Timer!Move(Buf(p), p, "armed") /\ deleting' = deleting /\ Buf(p) \in Timers
      BY <1>15, <2>1, <2>4, Zenon DEF Retransmit, Timer!Rearm, Timers
    <3> QED
      BY <2>1, <2>2, <3>1, Zenon DEF MovesOn, Rearms, Effect
  <2> QED
    BY <2>3, <2>4, Zenon
<1>16. CASE Rearm(p)
  <2>1. /\ Other(p) /\ ~Idle(p) /\ mem' = mem /\ added' = added /\ rb' = rb /\ Head(todo[p]).op = "rearm"
        /\ Timer!Move(Buf(p), p, "armed") /\ deleting' = deleting /\ Pops(p)
    BY <1>3, <1>16, PopSteps, Zenon DEF Rearm, At, cell, Timer!Rearm
  <2>2. Fresh(p)
    BY <1>2, <2>1, Zenon DEF Plainly
  <2>3. p \in Runners /\ Buf(p) \in Timers
    BY <2>1, Who, Zenon DEF Timers, Bufs
  <2> QED
    BY <2>1, <2>2, <2>3, Zenon DEF MovesOn, Rearms, Effect
<1> QED
  BY <1>4, <1>5, <1>6, <1>7, <1>8, <1>9, <1>10, <1>11, <1>12, <1>13, <1>14, <1>15, <1>16, Zenon DEF Step

LEMMA NextEffect ==
  ASSUME TypeOK, ShapeInv, ShapeInv', LockInv, LastRef, DelInv, [Next]_vars
  PROVE  UNCHANGED vars \/ \E p \in Procs : mem = "live" /\ Others(p) /\ Effect(p)
<1>1. ASSUME NEW p \in Procs, Step(p) PROVE mem = "live" /\ Others(p) /\ Effect(p)
  BY <1>1, StepEffect, StepOthers, Zenon
<1>2. ASSUME NEW p \in Procs, Plainly(p), Idle(p) PROVE Others(p) /\ Other(p) /\ Fresh(p)
  BY <1>2, PlainlyFresh, Zenon DEF Fresh, Other, Does
<1>3. ASSUME NEW p \in Workers, Lookup(p) PROVE p \in Procs /\ mem = "live" /\ Others(p) /\ Effect(p)
  <2>1. mem = "live" /\ Idle(p) /\ mem' = mem /\ rb' = rb /\ added' = added /\ st' = st /\ deleting' = deleting
    BY <1>3, Zenon DEF Lookup, timers
  <2>2. p \in Procs /\ Plainly(p)
    BY <1>3, OthersMove, Disjoint, Zenon
  <2> QED
    BY <1>2, <2>1, <2>2, Zenon DEF Calm, Effect
<1>4. ASSUME NEW p \in Runners, NEW b \in Bufs, FireRetr(p, b)
      PROVE  p \in Procs /\ mem = "live" /\ Others(p) /\ Effect(p)
  <2>1. /\ mem = "live" /\ Idle(p) /\ mem' = mem /\ rb' = rb /\ added' = added /\ deleting' = deleting
        /\ Timer!Move(b, "armed", p) /\ b \in Timers
    BY <1>4, Zenon DEF FireRetr, cell, Timer!Fire, Timers
  <2>2. p \in Procs /\ Plainly(p)
    BY <1>4, OthersMove, Disjoint, Zenon
  <2> QED
    BY <1>2, <2>1, <2>2, Zenon DEF Fires, MovesOn, Effect
<1>5. ASSUME FireWait PROVE "main" \in Procs /\ mem = "live" /\ Others("main") /\ Effect("main")
  <2>1. /\ mem = "live" /\ Idle("main") /\ mem' = mem /\ rb' = rb /\ added' = added /\ deleting' = deleting
        /\ Timer!Move("wait", "armed", "main") /\ "wait" \in Timers /\ "main" \in Runners
    BY <1>5, Disjoint, Zenon DEF FireWait, cell, Timer!Fire, Timers
  <2>2. "main" \in Procs /\ Plainly("main")
    BY <1>5, OthersMove, Disjoint, Zenon
  <2> QED
    BY <1>2, <2>1, <2>2, Zenon DEF Fires, MovesOn, Effect
<1>6. ASSUME wait_handler PROVE "main" \in Procs /\ mem = "live" /\ Others("main") /\ Effect("main")
  <2>1. /\ mem = "live" /\ mem' = mem /\ rb' = rb /\ added' = added /\ st' = st /\ deleting' = deleting
        /\ Head(todo["main"]).op = "wait_handler"
    BY <1>6, Zenon DEF wait_handler, timers, At
  <2>2. "main" \in Procs /\ Plainly("main") /\ Other("main")
    BY <1>6, <2>1, OthersMove, Disjoint, Zenon DEF Other, Does
  <2>3. Others("main") /\ Fresh("main")
    BY <2>2, PlainlyFresh, Zenon DEF Fresh
  <2> QED
    BY <2>1, <2>2, <2>3, Zenon DEF Calm, Effect
<1> QED
  BY <1>1, <1>3, <1>4, <1>5, <1>6, Zenon DEF Next, Gone

LEMMA EffectDel ==
  ASSUME TypeOK, DelInv, NEW p \in Procs, Others(p), Effect(p)
  PROVE  DelInv'
<1>1. deleting \in [Procs -> Timers \cup {None}]
  BY Zenon DEF TypeOK, Timer!TypeOK
<1>2. \A q \in Procs : q # p => ((Does(q, "timer_del")' <=> Does(q, "timer_del")) /\ Buf(q)' = Buf(q))
  BY Zenon DEF Others, Does, Idle, Buf
<1>3. CASE StartsDel(p)
  <2>1. \A q \in Procs : deleting'[q] = IF q = p THEN Buf(p) ELSE deleting[q]
    BY <1>1, <1>3, Zenon DEF StartsDel
  <2> QED
    BY <1>2, <1>3, <2>1, Zenon DEF StartsDel, DelInv
<1>4. CASE Deletes(p)
  <2>1. \A q \in Procs : deleting'[q] = IF q = p THEN None ELSE deleting[q]
    BY <1>1, <1>4, Zenon DEF Deletes
  <2> QED
    BY <1>2, <1>4, <2>1, ZenonT(40) DEF Deletes, Fresh, DelInv
<1>5. ASSUME deleting' = deleting, ~Does(p, "timer_del"), ~Does(p, "timer_del")' PROVE DelInv'
  BY <1>2, <1>5, Zenon DEF DelInv
<1>6. CASE Activates(p)
  BY <1>5, <1>6, Zenon DEF Activates, Fresh, Does
<1>7. CASE Calm(p) \/ Skips(p) \/ Adds(p) \/ PutsOnWait(p) \/ Frees(p)
  BY <1>5, <1>7, Zenon DEF Calm, Skips, Adds, PutsOnWait, Frees, Fresh, Other
<1>8. CASE Fires(p) \/ Rearms(p) \/ Ends(p)
  BY <1>5, <1>8, Zenon DEF Fires, Rearms, Ends, MovesOn, Fresh, Other
<1> QED
  BY <1>3, <1>4, <1>6, <1>7, <1>8, Zenon DEF Effect

LEMMA EffectAct ==
  ASSUME TypeOK, ActInv, NEW p \in Procs, Others(p), Effect(p)
  PROVE  ActInv'
<1>1. \A q \in Procs : q # p => ((Does(q, "activate")' <=> Does(q, "activate")) /\ Buf(q)' = Buf(q))
  BY Zenon DEF Others, Does, Idle, Buf
<1>2. ASSUME \A b \in added : b \in added', \A b \in Bufs : rb'[b].t_active => rb[b].t_active \/ b \in added',
             Does(p, "activate")' => Buf(p)' \in added'
      PROVE  ActInv'
  BY <1>1, <1>2, Zenon DEF ActInv
<1>3. Inactive(Buf(p)) => \A b \in Bufs : rb'[b].t_active => rb[b].t_active
  BY Zenon DEF Inactive
<1>4. CASE Calm(p) \/ Frees(p) \/ Deletes(p) \/ PutsOnWait(p) \/ Fires(p) \/ Rearms(p)
  BY <1>2, <1>4, Zenon DEF Calm, Frees, Deletes, PutsOnWait, Fires, Rearms, MovesOn, Fresh
<1>5. CASE Skips(p) \/ StartsDel(p) \/ Ends(p)
  BY <1>2, <1>3, <1>5, Zenon DEF Skips, StartsDel, Ends, MovesOn, Fresh
<1>6. CASE Adds(p)
  BY <1>2, <1>6, Zenon DEF Adds
<1>7. CASE Activates(p)
  <2>1. Buf(p) \in added
    BY <1>7, Zenon DEF Activates, ActInv
  <2> QED
    BY <1>2, <1>7, <2>1, Zenon DEF Activates, Fresh
<1> QED
  BY <1>4, <1>5, <1>6, <1>7, Zenon DEF Effect

LEMMA EffectWait ==
  ASSUME TypeOK, WaitInv, NEW p \in Procs, mem = "live", Effect(p)
  PROVE  WaitInv'
<1>1. /\ st \in [Timers -> {"off", "armed"} \cup Runners] /\ "wait" \in Timers /\ "wait" \notin Bufs
      /\ "off" \notin Runners
  BY Zenon DEF TypeOK, Timer!TypeOK, Timers, Bufs, Runners
<1>2. ASSUME ("wait" \in added' <=> "wait" \in added), (st'["wait"] = "off" <=> st["wait"] = "off") PROVE WaitInv'
  BY <1>2, Zenon DEF WaitInv
<1>3. CASE Calm(p) \/ Skips(p) \/ StartsDel(p) \/ Activates(p)
  BY <1>2, <1>3, Zenon DEF Calm, Skips, StartsDel, Activates
<1>4. CASE Deletes(p)
  BY <1>1, <1>2, <1>4, Zenon DEF Deletes
<1>5. CASE Adds(p)
  <2>1. Buf(p) # "wait"
    BY <1>1, <1>5, Zenon DEF Adds
  <2>2. "wait" \in added' <=> "wait" \in added
    BY <1>5, <2>1, Zenon DEF Adds
  <2>3. st'["wait"] = st["wait"]
    BY <1>1, <1>5, <2>1, Zenon DEF Adds, Timer!Move
  <2> QED
    BY <1>2, <2>2, <2>3, Zenon
<1>6. CASE PutsOnWait(p)
  <2>1. "wait" \in added' /\ st'["wait"] = "armed"
    BY <1>1, <1>6, Zenon DEF PutsOnWait, Timer!Move
  <2> QED
    BY <2>1, Zenon DEF WaitInv
<1>7. CASE Fires(p) \/ Rearms(p)
  <2>1. PICK x \in Timers : MovesOn(p, x, "armed", p) \/ MovesOn(p, x, p, "armed")
    BY <1>7, Zenon DEF Fires, Rearms
  <2>2. st'["wait"] = "off" <=> st["wait"] = "off"
    BY <1>1, <2>1, Zenon DEF MovesOn, Timer!Move
  <2> QED
    BY <1>2, <2>1, <2>2, Zenon DEF MovesOn
<1>8. CASE Ends(p)
  <2>1. st'["wait"] = st["wait"]
    BY <1>1, <1>8, Zenon DEF Ends, MovesOn, Timer!Move
  <2> QED
    BY <1>2, <1>8, <2>1, Zenon DEF Ends, MovesOn
<1>9. CASE Frees(p)
  BY <1>9, Zenon DEF Frees, WaitInv
<1> QED
  BY <1>3, <1>4, <1>5, <1>6, <1>7, <1>8, <1>9, Zenon DEF Effect

LEMMA EffectArmed ==
  ASSUME TypeOK, DelInv, ActInv, ArmedIsKnown, NEW p \in Procs, mem = "live", Others(p), Effect(p)
  PROVE  ArmedIsKnown'
<1> DEFINE Knows(q, b) == deleting[q] = b \/ (Does(q, "activate") /\ Buf(q) = b)
<1>0. ArmedIsKnown <=> \A b \in Bufs : st[b] # "off" /\ ~rb[b].t_active => \E q \in Procs : Knows(q, b)
  BY Zenon DEF ArmedIsKnown, At, Does
<1>1. CASE mem' # "live"
  BY <1>1, Zenon DEF ArmedIsKnown
<1>2. CASE mem' = "live"
  <2> SUFFICES ASSUME NEW b \in Bufs, st'[b] # "off", ~rb'[b].t_active
               PROVE  \E q \in Procs : deleting'[q] = b \/ (Does(q, "activate")' /\ Buf(q)' = b)
    BY <1>2, Zenon DEF ArmedIsKnown, At, Does
  <2>0. b \in Timers /\ b # None /\ b # "wait"
    BY NamesAssumption, Zenon DEF Timers, Bufs
  <2>1. /\ st \in [Timers -> {"off", "armed"} \cup Runners] /\ deleting \in [Procs -> Timers \cup {None}]
        /\ "off" \notin Runners
    BY Zenon DEF TypeOK, Timer!TypeOK, Runners
  <2>2. \A q \in Procs : q # p => ((Does(q, "activate")' <=> Does(q, "activate")) /\ Buf(q)' = Buf(q))
    BY Zenon DEF Others, Does, Idle, Buf
  <2> DEFINE Known == \E q \in Procs : deleting'[q] = b \/ (Does(q, "activate")' /\ Buf(q)' = b)
  <2>3. ASSUME st[b] # "off", ~rb[b].t_active, \A q \in Procs : deleting[q] = b => deleting'[q] = b,
               Does(p, "activate") => Buf(p) # b
        PROVE  Known
    <3>1. PICK q \in Procs : Knows(q, b)
      BY <1>0, <2>3, Zenon
    <3> QED
      BY <2>2, <2>3, <3>1, Zenon
  <2>4. ASSUME deleting' = deleting, st[b] # "off", ~rb[b].t_active, Other(p) PROVE Known
    BY <2>3, <2>4, Zenon DEF Other
  <2>5. CASE Calm(p)
    BY <2>4, <2>5, Zenon DEF Calm
  <2>6. CASE Skips(p)
    <3>1. ~rb[b].t_active
      BY <2>6, Zenon DEF Skips, Inactive, ActInv
    <3> QED
      BY <2>4, <2>6, <3>1, Zenon DEF Skips
  <2>7. CASE StartsDel(p)
    <3>1. deleting'[p] = Buf(p) /\ \A q \in Procs : q # p => deleting'[q] = deleting[q]
      BY <2>1, <2>7, Zenon DEF StartsDel
    <3>2. deleting[p] = None
      BY <2>7, Zenon DEF StartsDel, Other, DelInv
    <3>3. CASE Buf(p) = b
      BY <3>1, <3>3, Zenon
    <3>4. CASE Buf(p) # b
      <4>1. ~rb[b].t_active /\ st[b] # "off"
        BY <2>7, <3>4, Zenon DEF StartsDel, Inactive
      <4> QED
        BY <2>0, <2>3, <2>7, <3>1, <3>2, <4>1, Zenon DEF StartsDel, Other
    <3> QED
      BY <3>3, <3>4, Zenon
  <2>8. CASE Deletes(p)
    <3>1. b # deleting[p] /\ st[b] # "off" /\ ~rb[b].t_active
      BY <2>0, <2>8, Zenon DEF Deletes
    <3>2. \A q \in Procs : deleting[q] = b => deleting'[q] = b
      BY <2>1, <2>8, <3>1, Zenon DEF Deletes
    <3>3. ~Does(p, "activate")
      BY <2>8, Zenon DEF Deletes, Does
    <3> QED
      BY <2>3, <3>1, <3>2, <3>3, Zenon
  <2>9. CASE Adds(p)
    <3>1. CASE Buf(p) = b
      BY <2>9, <3>1, Zenon DEF Adds
    <3>2. CASE Buf(p) # b
      <4>1. st'[b] = st[b]
        BY <2>0, <2>1, <2>9, <3>2, Zenon DEF Adds, Timer!Move
      <4> QED
        BY <2>4, <2>9, <4>1, Zenon DEF Adds
    <3> QED
      BY <3>1, <3>2, Zenon
  <2>10. CASE Activates(p)
    <3>1. Buf(p) # b
      BY <2>10, Zenon DEF Activates
    <3> QED
      BY <2>3, <2>10, <3>1, Zenon DEF Activates
  <2>11. CASE PutsOnWait(p)
    <3>1. st'[b] = st[b]
      BY <2>0, <2>1, <2>11, Zenon DEF PutsOnWait, Timer!Move
    <3> QED
      BY <2>4, <2>11, <3>1, Zenon DEF PutsOnWait
  <2>12. CASE Fires(p) \/ Rearms(p)
    <3>1. PICK x \in Timers : MovesOn(p, x, "armed", p) \/ MovesOn(p, x, p, "armed")
      BY <2>12, Zenon DEF Fires, Rearms
    <3>2. st[b] # "off"
      BY <2>0, <2>1, <3>1, Zenon DEF MovesOn, Timer!Move
    <3> QED
      BY <2>4, <2>12, <3>1, <3>2, Zenon DEF MovesOn, Fires, Rearms
  <2>13. CASE Ends(p)
    <3>1. st'[b] = (IF b = Buf(p) THEN "off" ELSE st[b]) /\ Buf(p) \in Bufs
      BY <2>0, <2>1, <2>13, Zenon DEF Ends, MovesOn, Timer!Move
    <3>2. b # Buf(p)
      BY <3>1, Zenon
    <3> QED
      BY <2>4, <2>13, <3>1, <3>2, Zenon DEF Ends, MovesOn, Inactive
  <2>14. CASE Frees(p)
    BY <1>2, <2>14, Zenon DEF Frees
  <2> QED
    BY <2>5, <2>6, <2>7, <2>8, <2>9, <2>10, <2>11, <2>12, <2>13, <2>14, Zenon DEF Effect
<1> QED
  BY <1>1, <1>2, Zenon

TimerInv == DelInv /\ ActInv /\ WaitInv /\ ArmedIsKnown

LEMMA NextTimer ==
  ASSUME TypeOK, ShapeInv, ShapeInv', LockInv, LastRef, TimerInv, [Next]_vars
  PROVE  TimerInv'
<1>1. DelInv /\ ActInv /\ WaitInv /\ ArmedIsKnown
  BY Zenon DEF TimerInv
<1>2. ASSUME NEW p \in Procs, mem = "live", Others(p), Effect(p) PROVE TimerInv'
  BY <1>1, <1>2, EffectDel, EffectAct, EffectWait, EffectArmed, Zenon DEF TimerInv
<1>3. ASSUME UNCHANGED vars PROVE TimerInv'
  <2>1. mem' = mem /\ st' = st /\ deleting' = deleting /\ todo' = todo /\ rb' = rb /\ added' = added
    BY <1>3, Zenon DEF vars, cell, timers
  <2>2. DelInv' /\ ActInv'
    BY <1>1, <2>1, Zenon DEF DelInv, ActInv, Does, Idle, Buf
  <2>3. WaitInv' /\ ArmedIsKnown'
    BY <1>1, <2>1, Zenon DEF WaitInv, ArmedIsKnown, At, Idle, Buf
  <2> QED
    BY <2>2, <2>3, Zenon DEF TimerInv
<1> QED
  BY <1>1, <1>2, <1>3, NextEffect, Zenon

-----------------------------------------------------------------------------
(* The references.                                                            *)

EndOps == {"unref", "free", "unref_free"}
SameEnds(p) == \A o \in EndOps : EndsWith(p, o)' <=> EndsWith(p, o)

LEMMA LastOps ==
  /\ Freeing # << >> /\ Last(Freeing).op = "free"
  /\ Unlinking # << >> /\ Last(Unlinking).op = "rearm"
  /\ \A s : Relaying(s) => s # << >> /\ Last(s).op = "unref"
  /\ \A s : Job(s) => s # << >> /\ Last(s).op = "unref"
  /\ \A o, b : <<Op(o, b)>> # << >> /\ Last(<<Op(o, b)>>).op = o
  /\ Last(<<Op("relay", None), Op("unref", None)>>).op = "unref"
  /\ Last(<<Op("lock_unlock", None), Op("rearm", "rpl")>>).op = "rearm"
  /\ Last(<<Op("stop", "cnl"), Op("wait_handler", "wait")>>).op = "wait_handler"
<1>1. Freeing # << >> /\ Last(Freeing).op = "free"
  <2>1. Is4(Freeing, Op("stop", "rpl"), Op("stop", "req"), Op("stop", "cnl"), Op("free", None))
    BY Four, Zenon DEF Freeing
  <2> QED
    BY <2>1, SMT DEF Is4, Op
<1>2. Unlinking # << >> /\ Last(Unlinking).op = "rearm"
  <2>1. Is5(Unlinking, Op("stop", "rpl"), Op("stop", "req"), Op("stop", "cnl"), Op("unlock_hash", None),
                       Op("rearm", "wait"))
    BY Five, Zenon DEF Unlinking
  <2> QED
    BY <2>1, SMT DEF Is5, Op
<1>3. ASSUME NEW s, Relaying(s) PROVE s # << >> /\ Last(s).op = "unref"
  <2>1. \/ Is4(s, Op("set_fr_retr", "rpl"), Op("put_on_wait", None), Op("stop", "req"), Op("unref", None))
        \/ Is3(s, Op("put_on_wait", None), Op("stop", "req"), Op("unref", None))
    BY <1>3, Three, Four, Zenon DEF Relaying
  <2> QED
    BY <2>1, SMT DEF Is3, Is4, Op
<1>4. ASSUME NEW s, Job(s) PROVE s # << >> /\ Last(s).op = "unref"
  <2>1. CASE \E b \in {"req", "cnl"} : s = <<Op("lock", None), Op("stop", b)>> \o Section(b)
    <3>1. PICK b \in {"req", "cnl"} : s = <<Op("lock", None), Op("stop", b)>> \o Section(b)
      BY <2>1, SMTT(30)
    <3> DEFINE x == Section(b)[1]
    <3>2. s = <<Op("lock", None), Op("stop", b), x, Op("unref", None)>>
      BY <3>1, SectionParts, Zenon
    <3> HIDE DEF x
    <3>3. Is4(s, Op("lock", None), Op("stop", b), x, Op("unref", None))
      BY <3>2, Four, Zenon
    <3> QED
      BY <3>3, SMT DEF Is4, Op
  <2>2. CASE \E o \in {"provisional", "lock_unlock", "cancel_branch"} : s = <<Op(o, None), Op("unref", None)>>
    <3>1. PICK o \in {"provisional", "lock_unlock", "cancel_branch"} : s = <<Op(o, None), Op("unref", None)>>
      BY <2>2
    <3>2. Is2(s, Op(o, None), Op("unref", None))
      BY <3>1, Two, Zenon
    <3> QED
      BY <3>2, SMT DEF Is2, Op
  <2>3. CASE s = <<Op("stop", "rpl"), Op("stop", "req"), Op("put_on_wait", None), Op("unref", None)>>
    <3>1. Is4(s, Op("stop", "rpl"), Op("stop", "req"), Op("put_on_wait", None), Op("unref", None))
      BY <2>3, Four, Zenon
    <3> QED
      BY <3>1, SMT DEF Is4, Op
  <2> QED
    BY <1>4, <2>1, <2>2, <2>3, Zenon DEF Job
<1>5. ASSUME NEW o, NEW b PROVE <<Op(o, b)>> # << >> /\ Last(<<Op(o, b)>>).op = o
  <2> DEFINE s == <<Op(o, b)>>
  <2>1. Is1(s, Op(o, b))
    BY One, Zenon
  <2> HIDE DEF s
  <2>2. s # << >> /\ Last(s).op = o
    BY <2>1, SMT DEF Is1, Op
  <2> QED
    BY <2>2 DEF s
<1>6. ASSUME NEW x, NEW c, NEW d
      PROVE  Last(<<x, Op(c, d)>>).op = c
  <2> DEFINE s == <<x, Op(c, d)>>
  <2>1. Is2(s, x, Op(c, d))
    BY Two, Zenon
  <2> HIDE DEF s
  <2>2. Last(s).op = c
    BY <2>1, SMT DEF Is2, Op
  <2> QED
    BY <2>2 DEF s
<1>7. Last(<<Op("relay", None), Op("unref", None)>>).op = "unref"
  BY <1>6
<1>8. Last(<<Op("lock_unlock", None), Op("rearm", "rpl")>>).op = "rearm"
  BY <1>6
<1>9. Last(<<Op("stop", "cnl"), Op("wait_handler", "wait")>>).op = "wait_handler"
  BY <1>6
<1> QED
  BY <1>1, <1>2, <1>3, <1>4, <1>5, <1>7, <1>8, <1>9, Zenon

LEMMA StepEnds ==
  ASSUME ShapeInv, ShapeInv', LockInv, NEW p \in Procs, Step(p), ~Unref(p), ~free_cell(p), ~UnrefFree(p)
  PROVE  SameEnds(p)
<1> DEFINE o == Head(todo[p]).op
<1>0. ~Idle(p)
  BY StepOthers, Zenon
<1>1. todo[p] \in Seq(OpRec) /\ todo[p] # << >> /\ todo'[p] \in Seq(OpRec)
  BY <1>0, Zenon DEF ShapeInv, Idle
<1>2. ASSUME Later(todo[p]) # {}, Pops(p) \/ \E x : Swaps(p, x) PROVE SameEnds(p)
  <2>1. todo'[p] # << >> /\ Last(todo'[p]) = Last(todo[p])
    BY <1>2, Zenon DEF Pops, Popped, Swaps, Swapped
  <2> QED
    BY <1>1, <2>1, Zenon DEF SameEnds, EndsWith, Idle, Last
<1>3. ASSUME todo[p] = << >> \/ Last(todo[p]).op \notin EndOps, todo'[p] = << >> \/ Last(todo'[p]).op \notin EndOps
      PROVE  SameEnds(p)
  BY <1>3, Zenon DEF SameEnds, EndsWith, Idle, Last
<1>4. ASSUME NEW s \in Seq(OpRec), Final(s) PROVE s = << >> \/ Last(s).op \notin EndOps
  <2>1. s # << >> => Last(s) \in Els(s)
    BY SeqParts, Zenon
  <2> QED
    BY <1>4, <2>1, Zenon DEF Final, FinalOps, EndOps
<1>5. ASSUME Final(todo[p]), Final(todo'[p]) PROVE SameEnds(p)
  BY <1>1, <1>3, <1>4, <1>5, Zenon
<1>6. Later(todo[p]) = {} => Last(todo[p]) = Head(todo[p])
  BY <1>1, SeqParts, Zenon
<1>7. ASSUME p \in Runners, Final(todo[p]), Pops(p) \/ \E x : Swaps(p, x) /\ x.op \in FinalOps /\ x.op # "timeout"
      PROVE  Final(todo'[p])
  <2>1. Els(todo[p]) = {Head(todo[p])} \cup Later(todo[p])
    BY <1>1, SeqParts, Zenon
  <2>2. CASE Pops(p)
    BY <1>7, <2>1, <2>2, Zenon DEF Pops, Popped, Final
  <2>3. ASSUME NEW x, Swaps(p, x), x.op \in FinalOps, x.op # "timeout" PROVE Final(todo'[p])
    BY <1>7, <2>1, <2>3, Zenon DEF Swaps, Swapped, Final
  <2> QED
    BY <1>7, <2>2, <2>3, Zenon
<1>8. CASE Lock(p) \/ LockUnlock(p) \/ Unlock(p) \/ timer_del(p) \/ RelayProvisional(p) \/ UnlockHash(p)
  <2>1. o \in {"lock", "lock_unlock", "unlock", "timer_del", "provisional", "unlock_hash"} /\ Pops(p)
    BY <1>8, PopSteps, Zenon DEF Lock, LockUnlock, Unlock, timer_del, RelayProvisional, UnlockHash, At
  <2>2. Later(todo[p]) # {}
    BY <1>0, <2>1, Who, Zenon
  <2> QED
    BY <1>2, <2>1, <2>2, Zenon
<1>9. CASE Stop(p)
  <2>1. o = "stop" /\ (Pops(p) \/ \E x : Swaps(p, x))
    BY <1>9, StopStep, Zenon DEF Stop, At
  <2>2. Later(todo[p]) # {}
    BY <1>0, <2>1, Who, Zenon
  <2> QED
    BY <1>2, <2>1, <2>2, Zenon
<1>10. CASE cancel_branch(p)
  <2>1. o = "cancel_branch" /\ (Pops(p) \/ \E x : Swaps(p, x))
    BY <1>10, CancelStep, Zenon DEF cancel_branch, At
  <2>2. Later(todo[p]) # {}
    BY <1>0, <2>1, Who, Zenon
  <2> QED
    BY <1>2, <2>1, <2>2, Zenon
<1>11. CASE TestAdd(p) \/ AddRetr(p) \/ Activate(p) \/ put_on_wait(p)
  <2>1. o \in {"set_fr_retr", "timer_add", "activate", "put_on_wait"}
    BY <1>11, Zenon DEF TestAdd, AddRetr, Activate, put_on_wait, At
  <2>2. Pops(p) \/ \E x : Swaps(p, x) /\ x.op \in FinalOps /\ x.op # "timeout"
    <3>1. Pops(p) \/ Swaps(p, Op("timer_add", Buf(p))) \/ Swaps(p, Op("activate", Buf(p)))
      BY <1>11, PopSteps, TestAddStep, AddRetrStep, Zenon
    <3>2. Op("timer_add", Buf(p)).op = "timer_add" /\ Op("activate", Buf(p)).op = "activate"
      BY Steps, Zenon
    <3> QED
      BY <3>1, <3>2, Zenon DEF FinalOps
  <2>3. (p \in Workers /\ Later(todo[p]) # {}) \/ (p \in Runners /\ Final(todo[p]))
    BY <1>0, <2>1, Who, Zenon
  <2> QED
    BY <1>2, <1>5, <1>7, <2>2, <2>3, Zenon
<1>12. CASE RelayReply(p)
  <2>1. todo[p] = <<Op("relay", None), Op("unref", None)>>
    BY <1>12, RelayStep, Zenon
  <2>2. PICK s : todo'[p] = s /\ (Relaying(s) \/ s = <<Op("unref", None)>>)
    BY <1>12, RelayStep, Zenon DEF Sets
  <2>3. Last(todo[p]).op = "unref"
    <3>1. Last(<<Op("relay", None), Op("unref", None)>>).op = "unref"
      BY LastOps, Zenon
    <3> QED
      BY <2>1, <3>1, Zenon
  <2>4. todo'[p] # << >> /\ Last(todo'[p]).op = "unref"
    <3>1. <<Op("unref", None)>> # << >> /\ Last(<<Op("unref", None)>>).op = "unref"
      BY LastOps, Zenon
    <3>2. Relaying(s) => s # << >> /\ Last(s).op = "unref"
      BY LastOps, Zenon
    <3> QED
      BY <2>2, <3>1, <3>2, Zenon
  <2> QED
    BY <1>1, <2>3, <2>4, Zenon DEF SameEnds, EndsWith, Idle, Last
<1>13. CASE TestDel(p) \/ Retransmit(p) \/ FinalResponse(p)
  <2>1. o = "retr_buf_handler"
    BY <1>13, Zenon DEF TestDel, Retransmit, FinalResponse, At
  <2>2. p \in Runners /\ Later(todo[p]) = {}
    BY <1>0, <2>1, Who, Zenon
  <2>3. Last(todo[p]).op \notin EndOps
    BY <1>6, <2>1, <2>2, Zenon DEF EndOps
  <2>4. todo'[p] = << >> \/ Last(todo'[p]).op \notin EndOps
    <3>1. CASE TestDel(p)
      BY <2>2, <3>1, PopSteps, Zenon DEF Pops, Popped
    <3>2. CASE Retransmit(p)
      <4>1. Last(<<Op("lock_unlock", None), Op("rearm", "rpl")>>).op = "rearm"
        BY LastOps, Zenon
      <4>2. todo'[p] = << >> \/ todo'[p] = <<Op("lock_unlock", None), Op("rearm", "rpl")>>
        BY <2>2, <3>2, RetransmitStep, Zenon DEF Pops, Popped, Sets
      <4> QED
        BY <4>1, <4>2, Zenon DEF EndOps
    <3>3. CASE FinalResponse(p)
      <4>1. Last(<<Op("put_on_wait", None)>>).op = "put_on_wait" /\ Last(<<Op("timeout", None)>>).op = "timeout"
        BY LastOps, Zenon
      <4>2. todo'[p] = << >> \/ todo'[p] = <<Op("put_on_wait", None)>> \/ todo'[p] = <<Op("timeout", None)>>
        BY <3>3, FinalStep, Zenon DEF Bufs, Sets
      <4> QED
        BY <4>1, <4>2, Zenon DEF EndOps
    <3> QED
      BY <1>13, <3>1, <3>2, <3>3, Zenon
  <2> QED
    BY <1>3, <2>3, <2>4, Zenon
<1>14. CASE Rearm(p)
  <2>1. o = "rearm" /\ Pops(p)
    BY <1>14, PopSteps, Zenon DEF Rearm, At
  <2>2. Later(todo[p]) = {}
    BY <1>0, <2>1, Who, Zenon
  <2>3. todo'[p] = << >> /\ Last(todo[p]).op = "rearm"
    BY <1>6, <2>1, <2>2, Zenon DEF Pops, Popped
  <2> QED
    BY <1>3, <2>3, Zenon DEF EndOps
<1>15. CASE Timeout(p)
  <2>1. o = "timeout"
    BY <1>15, Zenon DEF Timeout, At
  <2>2. Last(todo[p]).op = "timeout"
    BY <1>0, <1>6, <2>1, Who, Zenon
  <2>3. PICK s : Sets(p, s) /\ (s = << >> \/ FakeReply(s)
                                \/ \E x \in {Op("put_on_wait", None), Op("set_fr_retr", "cnl")} : s = <<x>>)
    BY <1>15, TimeoutStep, Zenon
  <2>4. Final(s)
    BY <2>3, FinalOne, FakeIsFinal, NothingLeft, Zenon
  <2>5. Final(todo'[p])
    BY <2>3, <2>4, Zenon DEF Sets
  <2> QED
    BY <1>1, <1>3, <1>4, <2>2, <2>5, Zenon DEF EndOps
<1> QED
  BY <1>8, <1>9, <1>10, <1>11, <1>12, <1>13, <1>14, <1>15, Zenon DEF Step

=============================================================================
