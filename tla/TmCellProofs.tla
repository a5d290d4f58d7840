---------------------------- MODULE TmCellProofs ----------------------------
(***************************************************************************)
(* Proofs about TmCell, for any number of workers and of lookups: the      *)
(* references are counted, timer_del never waits for a handler that waits  *)
(* for the REPLY lock, a running timer can always be stopped, the cell is  *)
(* freed only when nothing uses it, and it is never forgotten.             *)
(***************************************************************************)
EXTENDS TmCellInv, FiniteSetTheorems

(* PendInv, of the programs *)
PendBody == /\ \A p \in Procs : StopsReq(todo[p]) => Pends(todo[p])
            /\ status >= 200 => \E p \in Procs : Waits(todo[p])
            /\ Goes \/ \E p \in Procs : Pends(todo[p])

LEMMA PendMeans ==
  TypeOK => (PendInv <=> (mem = "live" => "wait" \in added \/ PendBody))
<1> SUFFICES ASSUME TypeOK PROVE PendInv <=> (mem = "live" => "wait" \in added \/ PendBody)
  OBVIOUS
<1>1. \A p : /\ Stops(p, "req") <=> StopsReq(todo[p])
             /\ Pending(p) <=> Pends(todo[p])
             /\ Has(p, {"put_on_wait"}) <=> Waits(todo[p])
  BY Zenon DEF Stops, StopsReq, Pending, Pends, PendOps, Has, Waits
<1>2. ~rb["req"].del <=> rb["req"].del = FALSE
  <2>0. rb \in [Bufs -> RbRec] /\ "req" \in Bufs
    BY Zenon DEF TypeOK, RbRec, Bufs
  <2>1. rb["req"] \in RbRec
    BY <2>0, Zenon
  <2>2. rb["req"].del \in BOOLEAN
    BY <2>1, SMT DEF RbRec
  <2> QED
    BY <2>2, Zenon
<1> QED
  BY <1>1, <1>2, Zenon DEF PendInv, PendBody, Goes

LEMMA NextPend ==
  ASSUME TypeOK, TypeOK', ShapeInv, ShapeInv', LockInv, RunInv, TimerInv, RefsInv, ReqInv, PendInv, [Next]_vars
  PROVE  PendInv'
<1>0. (PendInv <=> (mem = "live" => "wait" \in added \/ PendBody))'
  BY PendMeans, PTL
<1> SUFFICES ASSUME mem' = "live", "wait" \notin added' PROVE PendBody'
  BY <1>0, Zenon
<1>1. CASE UNCHANGED vars
  <2>1. mem' = mem /\ added' = added /\ status' = status /\ rb' = rb /\ st' = st /\ todo' = todo
    BY <1>1, Zenon DEF vars, cell, reply, timers
  <2>2. PendBody
    BY <2>1, PendMeans, Zenon
  <2> QED
    BY <2>1, <2>2, Zenon DEF PendBody, Goes, Idle
<1>2. CASE ~UNCHANGED vars
  <2>1. NotYet
    <3>1. LastRef
      BY RefsGiveLast, Zenon
    <3>2. mem = "live"
      BY <1>2, <3>1, NextRefEffect, Zenon
    <3>3. "wait" \notin added
      BY NextAdded, Zenon
    <3> QED
      BY <3>2, <3>3, Zenon DEF NotYet
  <2>2. PendBody
    BY <2>1, PendMeans, Zenon DEF NotYet
  <2>3. PICK p \in Procs : Others(p) /\ PendEffect(p)
    BY <1>2, <2>1, NextPends, Zenon DEF TimerInv
  <2>4. \A q \in Procs : q # p => todo'[q] = todo[q]
    BY <2>3, Zenon DEF Others
  <2>5. \A s : Waits(s) => Pends(s)
    BY Zenon DEF Waits, Pends, PendOps
  <2>6. \A q \in Procs : StopsReq(todo'[q]) => Pends(todo'[q])
    BY <2>2, <2>3, <2>4, <2>5, Zenon DEF PendBody, PendEffect, Keeps, Relieved
  <2>7. status' >= 200 => \E q \in Procs : Waits(todo'[q])
    <3>1. CASE Keeps(p)
      BY <2>2, <2>4, <3>1, Zenon DEF PendBody, Keeps
    <3>2. CASE Relieved(p)
      BY <2>2, <2>4, <3>2, Zenon DEF PendBody, Relieved
    <3>3. CASE Waits(todo'[p])
      BY <3>3, Zenon
    <3> QED
      BY <2>3, <3>1, <3>2, <3>3, Zenon DEF PendEffect
  <2>8. ASSUME NEW q \in Procs, Pends(todo[q]) PROVE \E r \in Procs : Pends(todo'[r])
    <3>1. CASE Keeps(p)
      BY <2>4, <2>8, <3>1, Zenon DEF Keeps
    <3>2. CASE Relieved(p)
      BY <2>2, <2>4, <2>5, <3>2, Zenon DEF PendBody, Relieved
    <3>3. CASE Waits(todo'[p])
      BY <2>5, <3>3, Zenon
    <3> QED
      BY <2>3, <3>1, <3>2, <3>3, Zenon DEF PendEffect
  <2>9. ASSUME \A q \in Procs : ~Pends(todo'[q]) PROVE Goes'
    <3>1. \A q \in Procs : ~Pends(todo[q])
      BY <2>8, <2>9, Zenon
    <3>2. Goes /\ \A q \in Procs : ~StopsReq(todo[q])
      BY <2>2, <3>1, Zenon DEF PendBody
    <3> QED
      BY <2>1, <2>9, <3>2, NextGoes, Zenon DEF TimerInv
  <2> QED
    BY <2>6, <2>7, <2>9, Zenon DEF PendBody
<1> QED
  BY <1>1, <1>2, Zenon

-----------------------------------------------------------------------------
(* All of it.                                                                *)

Inv == /\ TypeOK /\ ShapeInv /\ LockInv /\ RunInv /\ TimerInv /\ RefsInv
       /\ ApartInv /\ FreeInv /\ FreedInv /\ ReqInv /\ PendInv

LEMMA NextInv ==
  Inv /\ [Next]_vars => Inv'
<1> SUFFICES ASSUME Inv, [Next]_vars PROVE Inv'
  OBVIOUS
<1>1. /\ TypeOK /\ ShapeInv /\ LockInv /\ RunInv /\ TimerInv /\ RefsInv
      /\ ApartInv /\ FreeInv /\ FreedInv /\ ReqInv /\ PendInv
  BY Zenon DEF Inv
<1>2. LastRef
  BY <1>1, RefsGiveLast, Zenon
<1>3. ShapeInv'
  BY <1>1, <1>2, NextShape, Zenon
<1>4. LockInv'
  BY <1>1, <1>3, NextLock, Zenon
<1>5. RunInv' /\ TimerInv' /\ RefsInv'
  BY <1>1, <1>2, <1>3, NextRun, NextTimer, NextRefs, Zenon
<1>6. TypeOK'
  BY <1>1, <1>3, <1>5, NextTypes, Zenon
<1>7. ApartInv' /\ FreeInv' /\ FreedInv'
  BY <1>1, <1>2, <1>3, <1>5, NextApart, NextFree, NextFreed, Zenon
<1>8. ReqInv' /\ PendInv'
  BY <1>1, <1>2, <1>3, <1>6, NextReq, NextPend, Zenon
<1> QED
  BY <1>3, <1>4, <1>5, <1>6, <1>7, <1>8, Zenon DEF Inv

(* what the creator has to do at first *)
Created == <<Op("set_fr_retr", "req"), Op("unref", None)>>

LEMMA CreatedIs ==
  /\ set_fr_retr("req") \o Do("unref") = Created /\ Created \in Seq(OpRec)
  /\ Is2(Created, Op("set_fr_retr", "req"), Op("unref", None))
  /\ Plain(Created) /\ Work(Created)
<1>1. set_fr_retr("req") \o Do("unref") = Created
  BY Cat11, Zenon DEF set_fr_retr, Do, Created
<1>2. Created \in Seq(OpRec) /\ Is2(Created, Op("set_fr_retr", "req"), Op("unref", None))
  BY Two, OpsIn, Zenon DEF Created
<1>3. Plain(Created)
  BY <1>2, SMT DEF Is2, Plain, BufOps, Bufs, HeadOps, Op
<1>4. Work(Created)
  BY <1>2, SMT DEF Is2, Work, WorkOps, Op
<1> QED
  BY <1>1, <1>2, <1>3, <1>4, Zenon

LEMMA InitInv ==
  ASSUME Counting, Init
  PROVE  Inv
<1>1. /\ mem = "live" /\ hash = TRUE /\ hash_lock = None /\ reply_lock = None /\ ref_count = 2 /\ unlinked = FALSE
      /\ status = 0 /\ last_received \in {0, 180} /\ cancelled = FALSE /\ added = {} /\ lookups = 0
      /\ rb = [b \in Bufs |-> [del |-> FALSE, t_active |-> FALSE]]
      /\ st = [x \in Timers |-> "off"] /\ deleting = [p \in Procs |-> None]
  BY Zenon DEF Init, Timer!Init
<1>2. todo = [p \in Procs |-> IF p = Creator THEN Created ELSE << >>]
  BY CreatedIs, Zenon DEF Init
<1>3. Creator \in Workers /\ Creator \in Procs /\ Creator \notin Runners /\ "main" \in Procs /\ "main" # Creator
  BY CellAssumption, Disjoint, Zenon
<1>4. /\ todo[Creator] = Created /\ \A p \in Procs : p # Creator => todo[p] = << >>
      /\ todo \in [Procs -> Seq(OpRec)]
  BY <1>2, <1>3, CreatedIs, SMT
<1>5. /\ Created # << >> /\ Head(Created).op = "set_fr_retr" /\ Head(Created).rb = "req" /\ Last(Created).op = "unref"
      /\ \A e \in Els(Created) : e.op \in {"set_fr_retr", "unref"}
      /\ \A e \in Later(Created) : e.op = "unref"
  BY CreatedIs, SMT DEF Is2, Op
<1>6. \A p \in Procs : p = Creator \/ Idle(p)
  BY <1>4, Zenon DEF Idle
<1>7. \A p \in Procs : \A o : EndsWith(p, o) => p = Creator /\ o = "unref"
  BY <1>4, <1>5, <1>6, Zenon DEF EndsWith, Last
<1>8. \A p \in Procs : \A o : Does(p, o) => o = "set_fr_retr"
  BY <1>4, <1>5, <1>6, Zenon DEF Does
<1>9. \A b \in Bufs : rb[b] = [del |-> FALSE, t_active |-> FALSE] /\ st[b] = "off"
  BY <1>1, Zenon DEF Timers
<1>10. \A b \in Bufs : rb[b].del = FALSE /\ rb[b].t_active = FALSE
  BY <1>9, SMT
<1>11. st["wait"] = "off" /\ \A x \in Timers : st[x] = "off"
  BY <1>1, Zenon DEF Timers
<1>12. Refs = {Creator} /\ Cardinality(Refs) = 1
  <2>1. EndsWith(Creator, "unref")
    BY <1>4, <1>5, Zenon DEF EndsWith, Idle, Last
  <2>2. Refs = {Creator}
    BY <1>3, <1>7, <2>1, Disjoint, Zenon DEF Refs
  <2> QED
    <3>1. Cardinality({} \cup {Creator}) = 0 + 1 /\ {} \cup {Creator} = {Creator}
      BY <1>3, Zenon DEF Counting
    <3> QED
      BY <2>2, <3>1, SMT
<1>13. TypeOK
  <2>1. ref_count \in 0..(Cardinality(Workers) + 1)
    <3>1. Refs \in SUBSET Workers
      BY Zenon DEF Refs
    <3>2. Cardinality(Refs) <= Cardinality(Workers) /\ Cardinality(Workers) \in Nat
      BY <3>1, Zenon DEF Counting
    <3> QED
      BY <1>1, <1>12, <3>2, SMT
  <2>2. rb \in [Bufs -> [del : BOOLEAN, t_active : BOOLEAN]]
    <3>1. [del |-> FALSE, t_active |-> FALSE] \in [del : BOOLEAN, t_active : BOOLEAN]
      BY Zenon
    <3> QED
      BY <1>1, <3>1, Zenon
  <2>3. Timer!TypeOK
    BY <1>1, Zenon DEF Timer!TypeOK
  <2>4. mem \in {"live", "freed"} /\ {hash, unlinked, cancelled} \subseteq BOOLEAN
        /\ {hash_lock, reply_lock} \subseteq Procs \cup {None}
    BY <1>1, Zenon
  <2>5. status \in {0, 200, 408} /\ last_received \in {0, 180, 200, 408} /\ lookups \in 0..MaxLookups
    BY <1>1, CellAssumption, SMT
  <2> QED
    BY <1>1, <1>4, <2>1, <2>2, <2>3, <2>4, <2>5, Zenon DEF TypeOK, OpRec
<1>14. ShapeInv
  <2>1. ASSUME NEW p \in Procs PROVE Program(p, todo[p])
    BY <1>3, <1>4, CreatedIs, NothingLeft, Zenon DEF Program
  <2> QED
    BY <1>4, <2>1, Zenon DEF ShapeInv
<1>15. LockInv
  <2>1. \A p \in Procs : reply_lock # p
    BY <1>1, Disjoint, Zenon
  <2>2. \A p \in Procs : \A e \in Els(todo[p]) : e.op \notin LockOps
    BY <1>4, <1>5, EmptyParts, Zenon DEF LockOps
  <2> QED
    BY <2>1, <2>2, Zenon DEF LockInv
<1>16. RunInv
  <2>1. ASSUME NEW r \in Runners, NEW x \in Timers PROVE st[x] # r /\ ~Handles(todo[r], x)
    BY <1>3, <1>4, <1>11, Disjoint, Zenon DEF Handles, Runners
  <2> QED
    BY <2>1, Zenon DEF RunInv
<1>17. TimerInv
  <2>1. DelInv
    <3>1. \A p \in Procs : deleting[p] = None /\ ~Does(p, "timer_del")
      BY <1>1, <1>8, Zenon
    <3> QED
      BY <3>1, Zenon DEF DelInv
  <2>2. ActInv
    BY <1>8, <1>10, Zenon DEF ActInv
  <2>3. WaitInv /\ ArmedIsKnown
    BY <1>1, <1>9, <1>11, Zenon DEF WaitInv, ArmedIsKnown
  <2> QED
    BY <2>1, <2>2, <2>3, Zenon DEF TimerInv
<1>18. RefsInv
  <2>1. RefInv
    <3>1. "main" \in Procs /\ \A w \in Workers : w \in Procs
      BY Disjoint, Zenon
    <3>2. ~EndsWith("main", "unref_free") /\ ~EndsWith("main", "free") /\ \A w \in Workers : ~EndsWith(w, "free")
      <4>1. \A p \in Procs : ~EndsWith(p, "unref_free")
        BY <1>7, SMT
      <4>2. \A p \in Procs : ~EndsWith(p, "free")
        BY <1>7, SMT
      <4> QED
        BY <3>1, <4>1, <4>2, Zenon
    <3> QED
      BY <3>2, Zenon DEF RefInv
  <2>2. CountsReferences
    <3>1. ~EndsWith("main", "free") /\ ref_count = Cardinality(Refs) + 1
      BY <1>1, <1>3, <1>7, <1>12, SMT
    <3> QED
      BY <3>1, Zenon DEF CountsReferences, Refs
  <2> QED
    BY <2>1, <2>2, Zenon DEF RefsInv
<1>19. ApartInv /\ FreeInv /\ FreedInv
  BY <1>1, <1>9, <1>11, Zenon DEF ApartInv, FreeInv, FreedInv, FreedIsUnused
<1>20. ReqInv
  <2>1. ASSUME NEW p \in Procs, NEW e \in Els(todo[p]), AddsReq(e) PROVE p = Creator /\ "req" \notin added
    BY <1>1, <1>4, <2>1, EmptyParts, Zenon
  <2>2. ASSUME NEW p \in Procs, NEW e \in Later(todo[p]) PROVE ~AddsReq(e)
    BY <1>4, <1>5, <2>2, EmptyParts, Zenon DEF AddsReq
  <2> QED
    BY <2>1, <2>2, Zenon DEF ReqInv
<1>21. PendInv
  <2>1. Goes
    BY <1>3, <1>4, <1>5, <1>10, Zenon DEF Goes, AddsReq, Idle, Bufs
  <2>2. \A p \in Procs : ~StopsReq(todo[p])
    BY <1>4, <1>5, EmptyParts, Zenon DEF StopsReq
  <2>3. ~(status >= 200)
    BY <1>1, SMT
  <2>4. PendBody
    BY <2>1, <2>2, <2>3, Zenon DEF PendBody
  <2> QED
    BY <1>13, <2>4, PendMeans, Zenon
<1> QED
  BY <1>13, <1>14, <1>15, <1>16, <1>17, <1>18, <1>19, <1>20, <1>21, Zenon DEF Inv

LEMMA InvDeadlock ==
  Inv => NoDelDeadlock
<1> SUFFICES ASSUME TypeOK, ShapeInv, LockInv, RunInv, NEW p \in Procs, NEW q \in Procs,
                    reply_lock = p, p # q, At(p, "timer_del"), WaitsForLock(q), st[Buf(p)] = q
             PROVE  FALSE
  BY Zenon DEF Inv, NoDelDeadlock
<1>1. mem = "live" /\ ~Idle(p) /\ Head(todo[p]).op = "timer_del"
  BY Zenon DEF At
<1>2. Buf(p) \in {"req", "cnl"}
  <2>1. Inside(todo[p])
    BY Zenon DEF LockInv
  <2> QED
    BY <1>1, <2>1, InsideParts, Zenon DEF Buf
<1>3. Buf(p) \in Timers /\ Buf(p) # "rpl" /\ Buf(p) # "wait"
  BY <1>2, Zenon DEF Timers, Bufs
<1>4. q \in Runners
  <2>1. st \in [Timers -> {"off", "armed"} \cup Runners]
    BY Zenon DEF TypeOK, Timer!TypeOK
  <2>2. q = "off" \/ q = "armed" \/ q \in Runners
    BY <1>3, <2>1, Zenon
  <2> QED
    BY <2>2, NamesAssumption, Zenon DEF Procs, Runners
<1>5. Handles(todo[q], Buf(p)) /\ todo[q] \in Seq(OpRec) /\ Program(q, todo[q])
  BY <1>1, <1>3, <1>4, Zenon DEF RunInv, ShapeInv
<1>6. Retr(todo[q])
  BY <1>3, <1>4, <1>5, HandlesWhat, Zenon DEF Program, HandlesNone, HandlesOnly
<1> QED
  BY <1>6, Zenon DEF Retr, WaitsForLock, At

LEMMA InvForgotten ==
  Inv => NeverForgotten
<1> SUFFICES ASSUME TypeOK, RunInv, WaitInv, PendInv, mem = "live", \A p \in Procs : Idle(p)
             PROVE  st["wait"] = "armed" \/ (st["req"] = "armed" /\ ~rb["req"].del)
  BY Zenon DEF Inv, TimerInv, NeverForgotten
<1>1. ASSUME NEW x \in Timers, st[x] # "off" PROVE st[x] = "armed"
  <2>0. st \in [Timers -> {"off", "armed"} \cup Runners]
    BY Zenon DEF TypeOK, Timer!TypeOK
  <2>1. st[x] \in {"off", "armed"} \cup Runners
    BY <2>0, Zenon
  <2>2. st[x] \notin Runners
    BY Disjoint, Zenon DEF RunInv, Handles, Idle
  <2> QED
    BY <1>1, <2>1, <2>2, Zenon
<1>2. "wait" \in Timers /\ "req" \in Timers
  BY Zenon DEF Timers, Bufs
<1>3. CASE "wait" \in added
  BY <1>1, <1>2, <1>3, Zenon DEF WaitInv
<1>4. CASE "wait" \notin added
  <2>1. \A p \in Procs : ~Pending(p)
    BY EmptyParts, Zenon DEF Pending, Has, Idle
  <2>2. ~rb["req"].del /\ st["req"] # "off"
    BY <1>4, <2>1, Zenon DEF PendInv
  <2> QED
    BY <1>1, <1>2, <2>2, Zenon
<1> QED
  BY <1>3, <1>4, Zenon

(* The workers are finitely many, so they can be counted.                      *)
LEMMA CountingHolds ==
  Counting
<1>1. IsFiniteSet(Workers) /\ Cardinality(Workers) \in Nat /\ Cardinality({}) = 0
  BY NamesAssumption, FS_CardinalityType, FS_EmptySet
<1>2. ASSUME NEW S \in SUBSET Workers
      PROVE  /\ Cardinality(S) \in Nat /\ Cardinality(S) <= Cardinality(Workers)
             /\ \A x \in S : Cardinality(S) >= 1 /\ Cardinality(S \ {x}) = Cardinality(S) - 1
             /\ \A x \in Workers \ S : Cardinality(S \cup {x}) = Cardinality(S) + 1
  <2>1. IsFiniteSet(S) /\ Cardinality(S) <= Cardinality(Workers)
    BY <1>1, FS_Subset, Zenon
  <2>2. Cardinality(S) \in Nat
    BY <2>1, FS_CardinalityType, Zenon
  <2>3. ASSUME NEW x \in S PROVE Cardinality(S) >= 1 /\ Cardinality(S \ {x}) = Cardinality(S) - 1
    <3>1. Cardinality(S) # 0
      BY <2>1, <2>3, FS_EmptySet, Zenon
    <3>2. Cardinality(S \ {x}) = Cardinality(S) - 1
      BY <2>1, <2>3, FS_RemoveElement, Zenon
    <3> QED
      BY <2>2, <3>1, <3>2, SMT
  <2>4. ASSUME NEW x \in Workers \ S PROVE Cardinality(S \cup {x}) = Cardinality(S) + 1
    BY <2>1, <2>4, FS_AddElement, Zenon
  <2> QED
    BY <2>1, <2>2, <2>3, <2>4, Zenon
<1> QED
  BY <1>1, <1>2, Zenon DEF Counting

(* The invariant holds: every program is that of a worker, of a final         *)
(* response, of a retransmission or of wait_handler, one process is in the      *)
(* REPLY lock, the timers are in the state that the programs of their           *)
(* processes say, and the references are those of the programs.                *)
THEOREM CellInvariant == Spec => []Inv
<1>1. Init => Inv
  BY CountingHolds, InitInv
<1>2. Inv /\ [Next]_vars => Inv'
  BY NextInv
<1> QED
  BY <1>1, <1>2, PTL DEF Spec

(* Every field of the cell keeps its type; ref_count stays between 0 and the      *)
(* number of the workers and the hash table (REF, UNREF).                        *)
THEOREM TypesKept == Spec => []TypeOK
<1>1. Inv => TypeOK
  BY Zenon DEF Inv
<1> QED
  BY <1>1, CellInvariant, PTL

(* REF, UNREF and UNREF_FREE keep in ref_count exactly the references that are   *)
(* held.                                                                      *)
THEOREM ReferencesCounted == Spec => []CountsReferences
<1>1. Inv => CountsReferences
  BY Zenon DEF Inv, RefsInv
<1> QED
  BY <1>1, CellInvariant, PTL

(* stop_rb_timers in the REPLY lock of reply_received never waits in timer_del    *)
(* for a handler that waits for that lock.                                      *)
THEOREM TimerDelNeverDeadlocks == Spec => []NoDelDeadlock
BY InvDeadlock, CellInvariant, PTL

(* A timer of a buffer that runs is one that stop_rb_timers finds (t_active), or  *)
(* _set_fr_retr or another stop_rb_timers is at it.                              *)
THEOREM RunningTimersAreKnown == Spec => []ArmedIsKnown
<1>1. Inv => ArmedIsKnown
  BY Zenon DEF Inv, TimerInv
<1> QED
  BY <1>1, CellInvariant, PTL

(* A transaction that no process is busy with has an armed timer that goes on      *)
(* with it: that of put_on_wait, or that of the request, which _set_fr_retr has     *)
(* armed and no stop_rb_timers has marked.                                        *)
THEOREM TransactionsEnd == Spec => []NeverForgotten
BY InvForgotten, CellInvariant, PTL

(* free_cell frees a cell only when all its timers are off and no process is      *)
(* busy with it.  Excepted are cells that wait_handler has unlinked past their     *)
(* lifetime; assumed is that a final response handler does not meet wait_handler. *)
THEOREM FreedWhenUnused == ASSUME HandlersApart PROVE Spec => []FreedIsUnused
<1>1. Inv => FreedIsUnused
  BY Zenon DEF Inv, FreedInv
<1> QED
  BY <1>1, CellInvariant, PTL
=============================================================================
