----------------------------- MODULE TmCellInv -----------------------------
(***************************************************************************)
(* The invariants of TmCell that every step preserves: the references are  *)
(* counted, the types are kept, the cell is freed only when nothing uses it, *)
(* and a cell in the table always has something that will end it.          *)
(***************************************************************************)
EXTENDS TmCellSteps

(* What a step does to the references.                                        *)
RefKeeps(p) == SameEnds(p) /\ mem' = mem /\ ref_count' = ref_count /\ hash' = hash /\ unlinked' = unlinked
RefGives(p) == /\ p \in Workers /\ EndsWith(p, "unref") /\ ~EndsWith(p, "unref")' /\ mem' = mem
               /\ EndsWith(p, "free")' => ref_count = 1
               /\ ref_count' = ref_count - 1 /\ hash' = hash /\ unlinked' = unlinked
RefTakes(p) == /\ p \in Workers /\ ~EndsWith(p, "unref") /\ EndsWith(p, "unref")' /\ ~EndsWith(p, "free")'
               /\ mem' = mem /\ ref_count' = ref_count + 1 /\ hash = TRUE /\ hash' = hash /\ unlinked' = unlinked
RefWaits(p) == /\ p = "main" /\ ~EndsWith(p, "free") /\ ~EndsWith(p, "free")' /\ mem' = mem
               /\ ref_count' = ref_count
               /\ unlinked => unlinked'
               /\ EndsWith(p, "unref_free")' => ~hash' /\ (unlinked' \/ ref_count <= 1)
RefEnds(p) == /\ p = "main" /\ EndsWith(p, "unref_free") /\ ~EndsWith(p, "free") /\ EndsWith(p, "free")'
              /\ ~EndsWith(p, "unref_free")' /\ mem' = mem
              /\ ref_count' = ref_count - 1 /\ hash' = hash /\ unlinked' = unlinked
RefEffect(p) == RefKeeps(p) \/ RefGives(p) \/ RefTakes(p) \/ RefWaits(p) \/ RefEnds(p) \/ mem' = "freed"

LEMMA NextRefEffect ==
  ASSUME ShapeInv, ShapeInv', LockInv, LastRef, [Next]_vars
  PROVE  UNCHANGED vars \/ \E p \in Procs : mem = "live" /\ Others(p) /\ RefEffect(p)
<1>1. ASSUME NEW p \in Procs, Step(p) PROVE mem = "live" /\ Others(p) /\ RefEffect(p)
  <2>1. mem = "live" /\ Others(p) /\ ~Idle(p)
    BY <1>1, StepOthers, Zenon
  <2>2. todo[p] \in Seq(OpRec) /\ todo[p] # << >> /\ (Later(todo[p]) = {} => Last(todo[p]) = Head(todo[p]))
    <3>1. todo[p] \in Seq(OpRec) /\ todo[p] # << >>
      BY <2>1, Zenon DEF ShapeInv, Idle
    <3> QED
      BY <3>1, SeqParts, Zenon
  <2>3. CASE Unref(p)
    <3>1. /\ p \in Workers /\ Sets(p, IF ref_count = 1 THEN Freeing ELSE << >>)
          /\ Head(todo[p]).op = "unref" /\ ref_count' = ref_count - 1
          /\ mem' = mem /\ hash' = hash /\ unlinked' = unlinked
      BY <2>3, UnrefStep, Zenon DEF Unref, At
    <3>2. EndsWith(p, "unref")
      BY <2>1, <2>2, <3>1, Who, Zenon DEF EndsWith, Idle, Last
    <3>3. todo'[p] = (IF ref_count = 1 THEN Freeing ELSE << >>)
      BY <3>1, Zenon DEF Sets
    <3>4. ~EndsWith(p, "unref")' /\ (EndsWith(p, "free")' => ref_count = 1)
      BY <3>3, LastOps, Zenon DEF EndsWith, Idle, Last
    <3> QED
      BY <2>1, <3>1, <3>2, <3>4, Zenon DEF RefGives, RefEffect
  <2>4. CASE free_cell(p)
    BY <2>1, <2>4, Zenon DEF free_cell, RefEffect
  <2>5. CASE UnrefFree(p)
    <3>1. At(p, "unref_free") /\ p = "main"
      <4>1. At(p, "unref_free")
        BY <2>5, Zenon DEF UnrefFree
      <4> QED
        BY <4>1, Who, Zenon DEF At
    <3>2. /\ Last(todo[p]) = Head(todo[p]) /\ Head(todo[p]).op = "unref_free"
          /\ Sets(p, Freeing) \/ Sets(p, <<Op("free", None)>>)
      BY <2>5, <3>1, UnrefFreeStep, Zenon DEF LastRef
    <3>3. ref_count' = ref_count - 1 /\ mem' = mem /\ hash' = hash /\ unlinked' = unlinked
      BY <2>5, Zenon DEF UnrefFree
    <3>4. EndsWith(p, "unref_free") /\ ~EndsWith(p, "free")
      BY <2>2, <3>2, Zenon DEF EndsWith, Idle, Last
    <3>5. Last(<<Op("free", None)>>).op = "free" /\ <<Op("free", None)>> # << >>
      BY LastOps, Zenon
    <3>6. todo'[p] # << >> /\ Last(todo'[p]).op = "free"
      BY <3>2, <3>5, LastOps, Zenon DEF Sets
    <3>7. EndsWith(p, "free")' /\ ~EndsWith(p, "unref_free")'
      BY <3>6, Zenon DEF EndsWith, Idle, Last
    <3> QED
      BY <2>1, <3>1, <3>3, <3>4, <3>7, Zenon DEF RefEnds, RefEffect
  <2>6. CASE ~Unref(p) /\ ~free_cell(p) /\ ~UnrefFree(p)
    <3>1. SameEnds(p)
      BY <1>1, <2>6, StepEnds, Zenon
    <3>2. mem' = mem /\ ref_count' = ref_count /\ hash' = hash /\ unlinked' = unlinked
      <4>1. CASE Lock(p) \/ LockUnlock(p) \/ Unlock(p) \/ Stop(p) \/ timer_del(p) \/ TestAdd(p) \/ AddRetr(p)
        BY <4>1, Zenon DEF Lock, LockUnlock, Unlock, Stop, timer_del, TestAdd, AddRetr, cell
      <4>2. CASE Activate(p) \/ put_on_wait(p) \/ RelayReply(p) \/ RelayProvisional(p) \/ cancel_branch(p)
        BY <4>2, Zenon DEF Activate, put_on_wait, RelayReply, RelayProvisional, cancel_branch, cell
      <4>3. CASE TestDel(p) \/ Retransmit(p) \/ Rearm(p) \/ FinalResponse(p) \/ Timeout(p) \/ UnlockHash(p)
        BY <4>3, Zenon DEF TestDel, Retransmit, Rearm, FinalResponse, Timeout, UnlockHash, cell
      <4> QED
        BY <1>1, <2>6, <4>1, <4>2, <4>3, Zenon DEF Step
    <3> QED
      BY <2>1, <3>1, <3>2, Zenon DEF RefKeeps, RefEffect
  <2> QED
    BY <2>3, <2>4, <2>5, <2>6, Zenon
<1>2. ASSUME NEW w \in Workers, Lookup(w) PROVE w \in Procs /\ mem = "live" /\ Others(w) /\ RefEffect(w)
  <2>1. /\ mem = "live" /\ Idle(w) /\ hash /\ ref_count' = ref_count + 1 /\ mem' = mem /\ hash' = hash
        /\ unlinked' = unlinked /\ w \in Procs
    BY <1>2, Disjoint, Zenon DEF Lookup
  <2>2. PICK s : Job(s) /\ Sets(w, s)
    BY <1>2, OtherSteps, Zenon
  <2>3. EndsWith(w, "unref")' /\ ~EndsWith(w, "free")'
    BY <2>2, LastOps, Zenon DEF Sets, EndsWith, Idle, Last
  <2> QED
    BY <2>1, <2>2, <2>3, Zenon DEF RefTakes, RefEffect, Sets, EndsWith
<1>3. ASSUME NEW p \in Procs, Idle(p), NEW s, Sets(p, s), Last(s).op \notin EndOps PROVE SameEnds(p)
  BY <1>3, Zenon DEF SameEnds, Sets, EndsWith, Idle, Last
<1>4. ASSUME NEW p \in Runners, NEW b \in Bufs, FireRetr(p, b)
      PROVE  p \in Procs /\ mem = "live" /\ Others(p) /\ RefEffect(p)
  <2>1. /\ mem = "live" /\ Idle(p) /\ ref_count' = ref_count /\ mem' = mem /\ hash' = hash /\ unlinked' = unlinked
        /\ p \in Procs
    BY <1>4, Disjoint, Zenon DEF FireRetr, cell
  <2>2. Sets(p, <<Op("retr_buf_handler", b)>>)
    BY <1>4, OtherSteps, Zenon
  <2>3. Last(<<Op("retr_buf_handler", b)>>).op = "retr_buf_handler"
    BY LastOps, Zenon
  <2>4. SameEnds(p)
    BY <1>3, <2>1, <2>2, <2>3, Zenon DEF EndOps
  <2> QED
    BY <2>1, <2>2, <2>4, Zenon DEF RefKeeps, RefEffect, Sets
<1>5. ASSUME FireWait PROVE "main" \in Procs /\ mem = "live" /\ Others("main") /\ RefEffect("main")
  <2>1. /\ mem = "live" /\ Idle("main") /\ ref_count' = ref_count /\ mem' = mem /\ hash' = hash
        /\ unlinked' = unlinked /\ "main" \in Procs
    BY <1>5, Disjoint, Zenon DEF FireWait, cell
  <2>2. Sets("main", <<Op("stop", "cnl"), Op("wait_handler", "wait")>>)
    BY <1>5, OtherSteps, Zenon
  <2>3. Last(<<Op("stop", "cnl"), Op("wait_handler", "wait")>>).op = "wait_handler"
    BY LastOps, Zenon
  <2>4. SameEnds("main")
    BY <1>3, <2>1, <2>2, <2>3, Zenon DEF EndOps
  <2> QED
    BY <2>1, <2>2, <2>4, Zenon DEF RefKeeps, RefEffect, Sets
<1>6. ASSUME wait_handler PROVE "main" \in Procs /\ mem = "live" /\ Others("main") /\ RefEffect("main")
  <2>1. /\ mem = "live" /\ ~Idle("main") /\ Head(todo["main"]).op = "wait_handler" /\ mem' = mem
        /\ ref_count' = ref_count
    BY <1>6, Zenon DEF wait_handler, At
  <2>2. ~EndsWith("main", "free")
    BY <1>6, <2>1, WaitStep, Zenon DEF EndsWith, Last
  <2>3. Last(<<Op("unref_free", None)>>).op = "unref_free" /\ Last(<<Op("rearm", "wait")>>).op = "rearm"
    BY LastOps, Zenon
  <2>4. CASE \/ ref_count > 1 /\ UNCHANGED <<hash, unlinked>> /\ Sets("main", <<Op("rearm", "wait")>>)
             \/ ref_count > 1 /\ hash' = FALSE /\ UNCHANGED unlinked /\ Sets("main", Unlinking)
    <3>1. Last(todo'["main"]).op = "rearm" /\ Others("main")
      BY <2>3, <2>4, LastOps, Zenon DEF Sets
    <3>2. ~EndsWith("main", "free")' /\ ~EndsWith("main", "unref_free")'
      BY <3>1, Zenon DEF EndsWith, Last
    <3>3. unlinked' = unlinked /\ "main" \in Procs
      BY <2>4, Disjoint, Zenon
    <3>4. RefWaits("main")
      BY <2>1, <2>2, <3>2, <3>3, Zenon DEF RefWaits
    <3> QED
      BY <2>1, <3>1, <3>3, <3>4, Zenon DEF RefEffect
  <2>5. CASE \/ unlinked' = TRUE /\ UNCHANGED hash /\ ~hash /\ Sets("main", <<Op("unref_free", None)>>)
             \/ ref_count <= 1 /\ hash' = FALSE /\ UNCHANGED unlinked /\ Sets("main", <<Op("unref_free", None)>>)
    <3>1. Last(todo'["main"]).op = "unref_free" /\ Others("main")
      BY <2>3, <2>5, Zenon DEF Sets
    <3>2. ~EndsWith("main", "free")'
      BY <3>1, Zenon DEF EndsWith, Last
    <3>3. ~hash' /\ (unlinked' \/ ref_count <= 1) /\ (unlinked => unlinked') /\ "main" \in Procs
      BY <2>5, Disjoint, SMT
    <3>4. RefWaits("main")
      BY <2>1, <2>2, <3>2, <3>3, Zenon DEF RefWaits
    <3> QED
      BY <2>1, <3>1, <3>3, <3>4, Zenon DEF RefEffect
  <2> QED
    BY <1>6, <2>4, <2>5, WaitStep, Zenon
<1> QED
  BY <1>1, <1>2, <1>4, <1>5, <1>6, Zenon DEF Next, Gone

(* What it is to count workers.  FiniteSetTheorems has these facts.           *)
Counting == /\ Cardinality(Workers) \in Nat /\ Cardinality({}) = 0
            /\ \A S \in SUBSET Workers :
                 /\ Cardinality(S) \in Nat /\ Cardinality(S) <= Cardinality(Workers)
                 /\ \A x \in S : Cardinality(S) >= 1 /\ Cardinality(S \ {x}) = Cardinality(S) - 1
                 /\ \A x \in Workers \ S : Cardinality(S \cup {x}) = Cardinality(S) + 1
RefsInv == Counting /\ RefInv /\ CountsReferences
Refs == {w \in Workers : EndsWith(w, "unref")}

LEMMA RefsFinite ==
  ASSUME Counting
  PROVE  /\ Refs \in SUBSET Workers /\ Cardinality(Refs) \in Nat
         /\ \A w \in Refs : Cardinality(Refs) >= 1
<1>1. Refs \in SUBSET Workers
  BY Zenon DEF Refs
<1> QED
  BY <1>1, Zenon DEF Counting

LEMMA RefsGiveLast ==
  ASSUME ShapeInv, RefsInv
  PROVE  LastRef
<1> SUFFICES ASSUME At("main", "unref_free")
             PROVE  ref_count \in Nat /\ ref_count >= 1 /\ (unlinked \/ ref_count <= 1)
  BY Zenon DEF LastRef
<1>1. mem = "live" /\ ~Idle("main") /\ Head(todo["main"]).op = "unref_free" /\ "main" \in Procs
  BY Disjoint, Zenon DEF At
<1>2. Last(todo["main"]) = Head(todo["main"])
  <2>1. todo["main"] \in Seq(OpRec) /\ todo["main"] # << >> /\ Later(todo["main"]) = {}
    BY <1>1, Who, Zenon DEF ShapeInv, Idle
  <2> QED
    BY <2>1, SeqParts, Zenon
<1>3. EndsWith("main", "unref_free") /\ ~EndsWith("main", "free")
  BY <1>1, <1>2, Zenon DEF EndsWith, Last
<1>4. ref_count = Cardinality(Refs) + 1
  BY <1>1, <1>3, Zenon DEF RefsInv, CountsReferences, Refs
<1>5. Cardinality(Refs) \in Nat
  BY RefsFinite, Zenon DEF RefsInv
<1>6. ref_count \in Nat /\ ref_count >= 1
  BY <1>4, <1>5, SMT
<1>7. unlinked \/ ref_count <= 1
  BY <1>1, <1>3, Zenon DEF RefsInv, RefInv
<1> QED
  BY <1>6, <1>7, Zenon

LEMMA NextRefs ==
  ASSUME ShapeInv, ShapeInv', LockInv, RefsInv, [Next]_vars
  PROVE  RefsInv'
<1>0. LastRef
  BY RefsGiveLast, Zenon
<1>1. CASE UNCHANGED vars
  <2>1. mem' = mem /\ hash' = hash /\ unlinked' = unlinked /\ ref_count' = ref_count /\ todo' = todo
    BY <1>1, Zenon DEF vars, cell
  <2>2. \A p, o : EndsWith(p, o)' <=> EndsWith(p, o)
    BY <2>1, Zenon DEF EndsWith, Idle
  <2>3. Refs' = Refs
    BY <2>2, Zenon DEF Refs
  <2>4. CountsReferences <=> mem = "live" => ref_count = Cardinality(Refs) + (IF EndsWith("main", "free") THEN 0 ELSE 1)
    BY Zenon DEF CountsReferences, Refs
  <2>5. CountsReferences'
    BY <2>1, <2>2, <2>3, <2>4, Zenon DEF CountsReferences, RefsInv, Refs
  <2>6. RefInv'
    BY <2>1, <2>2, Zenon DEF RefInv, RefsInv
  <2> QED
    BY <2>5, <2>6, Zenon DEF RefsInv, Counting
<1>2. ASSUME NEW p \in Procs, mem = "live", Others(p), RefEffect(p) PROVE RefsInv'
  <2> DEFINE Table == IF EndsWith("main", "free") THEN 0 ELSE 1
             Goal == /\ ref_count' = Cardinality(Refs') + Table'
                     /\ EndsWith("main", "unref_free")' \/ EndsWith("main", "free")' => ~hash'
                     /\ EndsWith("main", "unref_free")' => unlinked' \/ ref_count' <= 1
                     /\ ~unlinked' => /\ EndsWith("main", "free")' => ref_count' = 0
                                      /\ \A w \in Workers : ~EndsWith(w, "free")'
  <2>1. /\ ref_count = Cardinality(Refs) + Table /\ Table \in {0, 1}
        /\ EndsWith("main", "unref_free") \/ EndsWith("main", "free") => ~hash
        /\ EndsWith("main", "unref_free") => unlinked \/ ref_count <= 1
        /\ ~unlinked => /\ EndsWith("main", "free") => ref_count = 0
                        /\ \A w \in Workers : ~EndsWith(w, "free")
    BY <1>2, Zenon DEF RefsInv, RefInv, CountsReferences, Refs
  <2>2. Goal => RefsInv'
    BY Zenon DEF RefsInv, RefInv, CountsReferences, Refs, Counting
  <2>3. \A q \in Procs : \A o : q # p => (EndsWith(q, o)' <=> EndsWith(q, o))
    BY <1>2, Zenon DEF Others, EndsWith, Idle
  <2>4. \A w \in Workers : w \in Procs /\ w # "main"
    BY Disjoint, Zenon
  <2>5. "main" \in Procs
    BY Disjoint, Zenon
  <2>6. Refs \in SUBSET Workers /\ Cardinality(Refs) \in Nat /\ (\A w \in Refs : Cardinality(Refs) >= 1)
    BY RefsFinite, Zenon DEF RefsInv
  <2>7. CASE RefKeeps(p)
    <3>1. \A q \in Procs, o \in EndOps : EndsWith(q, o)' <=> EndsWith(q, o)
      BY <2>3, <2>7, Zenon DEF RefKeeps, SameEnds
    <3>2. Refs' = Refs
      BY <2>4, <3>1, Zenon DEF Refs, EndOps
    <3>3. Table' = Table /\ ref_count' = ref_count /\ hash' = hash /\ unlinked' = unlinked
      BY <2>5, <2>7, <3>1, Zenon DEF RefKeeps, EndOps
    <3>4. Goal
      BY <2>1, <2>4, <2>5, <3>1, <3>2, <3>3, Zenon DEF EndOps
    <3> QED
      BY <2>2, <3>4, Zenon
  <2>8. CASE RefGives(p)
    <3>1. /\ p \in Workers /\ p # "main" /\ EndsWith(p, "unref") /\ ~EndsWith(p, "unref")'
          /\ EndsWith(p, "free")' => ref_count = 1
          /\ ref_count' = ref_count - 1 /\ hash' = hash /\ unlinked' = unlinked
      BY <2>4, <2>8, Zenon DEF RefGives
    <3>2. p \in Refs
      BY <3>1, Zenon DEF Refs
    <3>3. Refs' = Refs \ {p}
      BY <2>3, <2>4, <3>1, Zenon DEF Refs
    <3>4. Cardinality(Refs') = Cardinality(Refs) - 1
      BY <2>6, <3>2, <3>3, Zenon DEF RefsInv, Counting
    <3>5. /\ EndsWith("main", "free")' <=> EndsWith("main", "free")
          /\ EndsWith("main", "unref_free")' <=> EndsWith("main", "unref_free")
      BY <2>3, <2>5, <3>1, Zenon
    <3>6. Table' = Table
      BY <3>5, Zenon
    <3>7. ~unlinked => ~EndsWith("main", "free")
      BY <2>1, <2>6, <3>2, SMT
    <3>8. ~unlinked => ref_count # 1
      BY <2>1, <2>6, <3>2, <3>7, SMT
    <3>9. ref_count' = Cardinality(Refs') + Table' /\ (ref_count <= 1 => ref_count' <= 1)
      BY <2>1, <2>6, <3>1, <3>4, <3>6, SMT
    <3>10. \A w \in Workers : EndsWith(w, "free")' => EndsWith(w, "free") \/ ref_count = 1
      BY <2>3, <2>4, <3>1, Zenon
    <3>11. Goal
      BY <2>1, <3>1, <3>5, <3>7, <3>8, <3>9, <3>10, Zenon
    <3> QED
      BY <2>2, <3>11, Zenon
  <2>9. CASE RefTakes(p)
    <3>1. /\ p \in Workers /\ p # "main" /\ ~EndsWith(p, "unref") /\ EndsWith(p, "unref")' /\ ~EndsWith(p, "free")'
          /\ ref_count' = ref_count + 1 /\ hash /\ hash' = hash /\ unlinked' = unlinked
      BY <2>4, <2>9, Zenon DEF RefTakes
    <3>2. p \notin Refs
      BY <3>1, Zenon DEF Refs
    <3>3. Refs' = Refs \cup {p}
      BY <2>3, <2>4, <3>1, Zenon DEF Refs
    <3>4. Cardinality(Refs') = Cardinality(Refs) + 1
      BY <2>6, <3>1, <3>2, <3>3, Zenon DEF RefsInv, Counting
    <3>5. /\ EndsWith("main", "free")' <=> EndsWith("main", "free")
          /\ EndsWith("main", "unref_free")' <=> EndsWith("main", "unref_free")
      BY <2>3, <2>5, <3>1, Zenon
    <3>6. Table' = Table
      BY <3>5, Zenon
    <3>7. ~EndsWith("main", "free") /\ ~EndsWith("main", "unref_free")
      BY <2>1, <3>1, Zenon
    <3>8. ref_count' = Cardinality(Refs') + Table'
      BY <2>1, <2>6, <3>1, <3>4, <3>6, SMT
    <3>9. \A w \in Workers : EndsWith(w, "free")' => EndsWith(w, "free")
      BY <2>3, <2>4, <3>1, Zenon
    <3>10. Goal
      BY <2>1, <3>1, <3>5, <3>7, <3>8, <3>9, Zenon
    <3> QED
      BY <2>2, <3>10, Zenon
  <2>10. CASE RefWaits(p)
    <3>1. /\ p = "main" /\ ~EndsWith(p, "free") /\ ~EndsWith(p, "free")'
          /\ ref_count' = ref_count
          /\ unlinked => unlinked'
          /\ EndsWith(p, "unref_free")' => ~hash' /\ (unlinked' \/ ref_count <= 1)
      BY <2>10, Zenon DEF RefWaits
    <3>2. \A w \in Workers : \A o : EndsWith(w, o)' <=> EndsWith(w, o)
      BY <2>3, <2>4, <3>1, Zenon
    <3>3. Refs' = Refs /\ Table' = Table
      BY <3>1, <3>2, Zenon DEF Refs
    <3>4. Goal
      BY <2>1, <3>1, <3>2, <3>3, Zenon
    <3> QED
      BY <2>2, <3>4, Zenon
  <2>11. CASE RefEnds(p)
    <3>1. /\ p = "main" /\ EndsWith(p, "unref_free") /\ ~EndsWith(p, "free") /\ EndsWith(p, "free")'
          /\ ~EndsWith(p, "unref_free")' /\ ref_count' = ref_count - 1 /\ hash' = hash /\ unlinked' = unlinked
      BY <2>11, Zenon DEF RefEnds
    <3>2. \A w \in Workers : \A o : EndsWith(w, o)' <=> EndsWith(w, o)
      BY <2>3, <2>4, <3>1, Zenon
    <3>3. Refs' = Refs /\ Table' = 0 /\ Table = 1
      BY <3>1, <3>2, Zenon DEF Refs
    <3>4. ref_count' = Cardinality(Refs') + Table' /\ (~unlinked => ref_count' = 0)
      <4>1. ref_count' = Cardinality(Refs)
        BY <2>1, <2>6, <3>1, <3>3, SMT
      <4>2. ref_count <= 1 => Cardinality(Refs) = 0
        BY <2>1, <2>6, <3>3, SMT
      <4>3. ref_count' = Cardinality(Refs') + Table'
        BY <2>6, <3>3, <4>1, SMT
      <4>4. ~unlinked => ref_count <= 1
        BY <2>1, <3>1, Zenon
      <4> QED
        BY <4>1, <4>2, <4>3, <4>4, Zenon
    <3>5. Goal
      BY <2>1, <3>1, <3>2, <3>4, Zenon
    <3> QED
      BY <2>2, <3>5, Zenon
  <2>12. CASE mem' = "freed"
    BY <2>12, Zenon DEF RefsInv, RefInv, CountsReferences, Counting
  <2> QED
    BY <1>2, <2>7, <2>8, <2>9, <2>10, <2>11, <2>12, Zenon DEF RefEffect
<1> QED
  BY <1>0, <1>1, <1>2, NextRefEffect, Zenon

-----------------------------------------------------------------------------
(* Types.                                                                     *)

LEMMA TypeTimers ==
  ASSUME TypeOK, ShapeInv, ShapeInv', [Next]_vars
  PROVE  Timer!TypeOK' /\ added' \subseteq Timers
<1> DEFINE S == {"off", "armed"} \cup Runners
           D == Timers \cup {None}
           Sts == st' = st \/ \E x : \E to \in S : st' = [st EXCEPT ![x] = to]
           Dels == deleting' = deleting \/ \E q : \E x \in D : deleting' = [deleting EXCEPT ![q] = x]
           Adds1 == added' = added \/ \E x \in Timers : added' = added \cup {x}
<1>1. st \in [Timers -> S] /\ deleting \in [Procs -> D] /\ added \subseteq Timers
  BY Zenon DEF TypeOK, Timer!TypeOK
<1>2. ASSUME Sts, Dels, Adds1 PROVE Timer!TypeOK' /\ added' \subseteq Timers
  <2>1. st' \in [Timers -> S]
    BY <1>1, <1>2, Zenon
  <2>2. deleting' \in [Procs -> D]
    BY <1>1, <1>2, Zenon
  <2>3. added' \subseteq Timers
    BY <1>1, <1>2, Zenon
  <2> QED
    BY <2>1, <2>2, <2>3, Zenon DEF Timer!TypeOK
<1>3. ASSUME UNCHANGED timers, added' = added PROVE Sts /\ Dels /\ Adds1
  BY <1>3, Zenon DEF timers
<1>4. ASSUME NEW p \in Procs, Step(p) PROVE Sts /\ Dels /\ Adds1
  <2>1. CASE \/ Lock(p) \/ LockUnlock(p) \/ Unlock(p) \/ TestAdd(p) \/ Activate(p) \/ RelayReply(p)
             \/ RelayProvisional(p) \/ cancel_branch(p) \/ Unref(p) \/ Timeout(p) \/ UnlockHash(p) \/ UnrefFree(p)
    <3>1. UNCHANGED timers /\ added' = added
      BY <2>1, Zenon DEF Lock, LockUnlock, Unlock, TestAdd, Activate, RelayReply, RelayProvisional, cancel_branch,
                         Unref, Timeout, UnlockHash, UnrefFree
    <3> QED
      BY <1>3, <3>1
  <2>2. CASE Stop(p)
    <3>1. UNCHANGED timers \/ (st' = st /\ deleting' = [deleting EXCEPT ![p] = Buf(p)])
      BY <2>2, Zenon DEF Stop, Timer!Del
    <3>2. added' = added /\ Buf(p) \in D
      BY <2>2, StopStep, Zenon DEF Stop, Timers
    <3> QED
      BY <1>3, <3>1, <3>2, Zenon
  <2>3. CASE timer_del(p)
    <3>1. added' = added /\ deleting' = [deleting EXCEPT ![p] = None]
      BY <2>3, Zenon DEF timer_del, Timer!Deleted, Timer!WasOff, Timer!Returns
    <3>2. Sts
      BY <2>3, Zenon DEF timer_del, Timer!Deleted, Timer!WasOff, Timer!Move
    <3> QED
      BY <3>1, <3>2, Zenon
  <2>4. ASSUME NEW x \in Timers, timer_add(x) PROVE Sts /\ Dels /\ Adds1
    BY <1>3, <2>4, Zenon DEF timer_add, Timer!Add, Timer!Move
  <2>5. CASE AddRetr(p)
    BY <2>4, <2>5, AddRetrStep, Zenon DEF AddRetr, Timers
  <2>6. CASE put_on_wait(p)
    BY <2>4, <2>6, Zenon DEF put_on_wait, Timers
  <2>7. CASE free_cell(p) \/ TestDel(p) \/ FinalResponse(p)
    BY <1>3, <2>7, Zenon DEF free_cell, TestDel, FinalResponse, Timer!Done, Timer!Move
  <2>8. CASE Retransmit(p) \/ Rearm(p)
    BY <1>3, <2>8, Zenon DEF Retransmit, Rearm, Timer!Rearm, Timer!Move
  <2> QED
    BY <1>4, <2>1, <2>2, <2>3, <2>5, <2>6, <2>7, <2>8, Zenon DEF Step
<1>5. ASSUME NEW w \in Workers, Lookup(w) PROVE Sts /\ Dels /\ Adds1
  BY <1>3, <1>5, Zenon DEF Lookup
<1>6. ASSUME wait_handler PROVE Sts /\ Dels /\ Adds1
  BY <1>3, <1>6, Zenon DEF wait_handler
<1>7. ASSUME NEW p \in Runners, NEW b \in Bufs, FireRetr(p, b) PROVE Sts /\ Dels /\ Adds1
  BY <1>7, Zenon DEF FireRetr, Timer!Fire, Timer!Move
<1>8. ASSUME FireWait PROVE Sts /\ Dels /\ Adds1
  BY <1>8, Disjoint, Zenon DEF FireWait, Timer!Fire, Timer!Move
<1>9. ASSUME UNCHANGED vars PROVE Sts /\ Dels /\ Adds1
  BY <1>3, <1>9, Zenon DEF vars
<1> HIDE DEF Sts, Dels, Adds1
<1> QED
  BY <1>2, <1>4, <1>5, <1>6, <1>7, <1>8, <1>9, Zenon DEF Next, Gone

RbRec == [del : BOOLEAN, t_active : BOOLEAN]

LEMMA TypeBufs ==
  ASSUME TypeOK, ShapeInv, [Next]_vars
  PROVE  rb' \in [Bufs -> RbRec]
<1>1. rb \in [Bufs -> RbRec]
  BY Zenon DEF TypeOK, RbRec
<1>4. ASSUME NEW b, NEW v \in BOOLEAN PROVE [rb EXCEPT ![b].t_active = v] \in [Bufs -> RbRec]
  <2>1. ASSUME NEW r \in RbRec PROVE [r EXCEPT !.t_active = v] \in RbRec
    BY Zenon DEF RbRec
  <2>2. CASE b \in Bufs
    BY <1>1, <2>1, <2>2, Zenon
  <2>3. CASE b \notin Bufs
    BY <1>1, <2>3, Zenon
  <2> QED
    BY <2>2, <2>3, Zenon
<1>2. ASSUME NEW p \in Procs, Step(p) PROVE rb' \in [Bufs -> RbRec]
  <2>1. CASE Stop(p)
    <3>1. PICK del \in {TRUE, rb[Buf(p)].del} : rb' = [rb EXCEPT ![Buf(p)] = [del |-> del, t_active |-> FALSE]]
      BY <2>1, Zenon DEF Stop
    <3>2. Buf(p) \in Bufs
      BY <2>1, StopStep, Zenon
    <3>3. rb[Buf(p)].del \in BOOLEAN
      BY <1>1, <3>2, SMT DEF RbRec
    <3>4. del \in BOOLEAN
      BY <3>3, Zenon
    <3>5. [del |-> del, t_active |-> FALSE] \in RbRec
      BY <3>4, Zenon DEF RbRec
    <3> QED
      BY <1>1, <3>1, <3>5, Zenon
  <2>2. CASE Activate(p)
    <3>1. rb' = [rb EXCEPT ![Buf(p)].t_active = TRUE]
      BY <2>2, Zenon DEF Activate
    <3> QED
      BY <1>1, <1>4, <3>1, Zenon
  <2>3. CASE TestDel(p) \/ FinalResponse(p)
    <3>1. rb' = [rb EXCEPT ![Buf(p)].t_active = FALSE]
      BY <2>3, Zenon DEF TestDel, FinalResponse
    <3> QED
      BY <1>1, <1>4, <3>1, Zenon
  <2>4. CASE ~Stop(p) /\ ~Activate(p) /\ ~TestDel(p) /\ ~FinalResponse(p)
    <3>1. rb' = rb
      BY <1>2, <2>4, Zenon DEF Step, Lock, LockUnlock, Unlock, timer_del, TestAdd, AddRetr, put_on_wait, RelayReply,
               RelayProvisional, cancel_branch, Unref, free_cell, Retransmit, Rearm, Timeout, UnlockHash, UnrefFree
    <3> QED
      BY <1>1, <3>1, Zenon
  <2> QED
    BY <2>1, <2>2, <2>3, <2>4, Zenon
<1>3. ASSUME \/ \E w \in Workers : Lookup(w)
             \/ \E p \in Runners, b \in Bufs : FireRetr(p, b)
             \/ FireWait \/ wait_handler \/ UNCHANGED vars
      PROVE  rb' \in [Bufs -> RbRec]
  <2>1. rb' = rb
    BY <1>3, Zenon DEF Lookup, FireRetr, FireWait, wait_handler, vars
  <2> QED
    BY <1>1, <2>1, Zenon
<1> QED
  BY <1>2, <1>3, Zenon DEF Next, Gone

(* the other fields of the cell *)
Mems == {"live", "freed"}
Flags == BOOLEAN
Statuses == {0, 200, 408}
Codes == {0, 180, 200, 408}
Holders == Procs \cup {None}
HashTypes == hash \in Flags /\ unlinked \in Flags /\ hash_lock \in Holders
ReplyTypes == cancelled \in Flags /\ status \in Statuses /\ last_received \in Codes
CellTypes == mem \in Mems /\ HashTypes /\ ReplyTypes /\ reply_lock \in Holders /\ lookups \in 0..MaxLookups

LEMMA TypeCell ==
  ASSUME TypeOK, ShapeInv, [Next]_vars
  PROVE  CellTypes'
<1>1. CellTypes
  BY Zenon DEF TypeOK, CellTypes, HashTypes, ReplyTypes, Mems, Flags, Statuses, Codes, Holders
<1>2. /\ "freed" \in Mems /\ TRUE \in Flags /\ FALSE \in Flags /\ None \in Holders
      /\ \A p \in Procs : p \in Holders
      /\ 200 \in Statuses /\ 408 \in Statuses /\ 180 \in Codes /\ 200 \in Codes /\ 408 \in Codes
  BY ZenonT(40) DEF Mems, Flags, Statuses, Codes, Holders
<1>3. ASSUME UNCHANGED reply PROVE ReplyTypes'
  BY <1>1, <1>3, Zenon DEF CellTypes, ReplyTypes, reply
<1>4. ASSUME UNCHANGED cell, lookups' = lookups PROVE CellTypes'
  <2>1. /\ mem' = mem /\ hash' = hash /\ hash_lock' = hash_lock /\ reply_lock' = reply_lock /\ unlinked' = unlinked
        /\ status' = status /\ last_received' = last_received /\ cancelled' = cancelled
    BY <1>4, Zenon DEF cell, reply
  <2> QED
    BY <1>1, <1>4, <2>1, Zenon DEF CellTypes, HashTypes, ReplyTypes
<1>5. ASSUME NEW p \in Procs, Step(p) PROVE CellTypes'
  <2>1. CASE \/ LockUnlock(p) \/ Stop(p) \/ timer_del(p) \/ TestAdd(p) \/ AddRetr(p) \/ Activate(p) \/ put_on_wait(p)
             \/ TestDel(p) \/ Retransmit(p) \/ Rearm(p) \/ FinalResponse(p)
    BY <1>4, <2>1, Zenon DEF LockUnlock, Stop, timer_del, TestAdd, AddRetr, Activate, put_on_wait, TestDel,
                             Retransmit, Rearm, FinalResponse
  <2>2. CASE Lock(p) \/ Unlock(p) \/ Unref(p) \/ free_cell(p) \/ UnlockHash(p) \/ UnrefFree(p)
    <3>1. /\ mem' \in {mem, "freed"} /\ reply_lock' \in {reply_lock, p, None}
          /\ hash' = hash /\ unlinked' = unlinked /\ hash_lock' \in {hash_lock, None}
          /\ UNCHANGED reply /\ lookups' = lookups
      <4>1. CASE Lock(p) \/ Unlock(p)
        BY <4>1, Zenon DEF Lock, Unlock
      <4>2. CASE Unref(p) \/ free_cell(p)
        BY <4>2, Zenon DEF Unref, free_cell
      <4>3. CASE UnlockHash(p) \/ UnrefFree(p)
        BY <4>3, Zenon DEF UnlockHash, UnrefFree
      <4> QED
        BY <2>2, <4>1, <4>2, <4>3, Zenon
    <3>2. mem' \in Mems /\ reply_lock' \in Holders /\ hash_lock' \in Holders
      BY <1>1, <1>2, <3>1, Zenon DEF CellTypes, HashTypes
    <3> QED
      BY <1>1, <1>3, <3>1, <3>2, Zenon DEF CellTypes, HashTypes
  <2>3. ASSUME NEW code \in {200, 408}, Stores(code)
        PROVE  status' \in Statuses /\ last_received' \in Codes
    <3>1. code \in Statuses /\ code \in Codes
      BY SMT DEF Statuses, Codes
    <3> QED
      BY <1>1, <2>3, <3>1, Zenon DEF Stores, CellTypes, ReplyTypes
  <2>4. CASE RelayReply(p)
    <3>1. \E code \in {200, 408} : Stores(code)
      BY <2>4, Zenon DEF RelayReply
    <3>2. /\ reply_lock' = None /\ mem' = mem /\ hash' = hash /\ hash_lock' = hash_lock /\ unlinked' = unlinked
          /\ cancelled' = cancelled /\ lookups' = lookups
      BY <2>4, Zenon DEF RelayReply
    <3> QED
      BY <1>1, <1>2, <2>3, <3>1, <3>2, Zenon DEF CellTypes, HashTypes, ReplyTypes
  <2>5. CASE RelayProvisional(p)
    <3>1. /\ mem' = mem /\ hash' = hash /\ hash_lock' = hash_lock /\ reply_lock' = reply_lock /\ unlinked' = unlinked
          /\ status' = status /\ cancelled' = cancelled /\ lookups' = lookups /\ last_received' \in {180, last_received}
      BY <2>5, Zenon DEF RelayProvisional
    <3> QED
      BY <1>1, <1>2, <3>1, Zenon DEF CellTypes, HashTypes, ReplyTypes
  <2>6. CASE cancel_branch(p)
    <3>1. /\ mem' = mem /\ hash' = hash /\ hash_lock' = hash_lock /\ reply_lock' = reply_lock /\ unlinked' = unlinked
          /\ status' = status /\ last_received' = last_received /\ lookups' = lookups /\ cancelled' \in Flags
      BY <2>6, Zenon DEF cancel_branch, Flags
    <3> QED
      BY <1>1, <1>2, <3>1, Zenon DEF CellTypes, HashTypes, ReplyTypes
  <2>7. CASE Timeout(p)
    <3>1. /\ mem' = mem /\ hash' = hash /\ hash_lock' = hash_lock /\ reply_lock' = reply_lock /\ unlinked' = unlinked
          /\ lookups' = lookups
      BY <2>7, Zenon DEF Timeout
    <3>2. UNCHANGED reply \/ (Stores(408) /\ cancelled' \in Flags)
      BY <2>7, Zenon DEF Timeout, Flags
    <3>3. ReplyTypes'
      BY <1>3, <2>3, <3>2, Zenon DEF ReplyTypes
    <3> QED
      BY <1>1, <3>1, <3>3, Zenon DEF CellTypes, HashTypes
  <2> QED
    BY <1>5, <2>1, <2>2, <2>4, <2>5, <2>6, <2>7, Zenon DEF Step
<1>6. ASSUME NEW w \in Workers, Lookup(w) PROVE CellTypes'
  <2>1. /\ mem' = mem /\ hash' = hash /\ hash_lock' = hash_lock /\ reply_lock' = reply_lock /\ unlinked' = unlinked
        /\ status' = status /\ cancelled' = cancelled /\ last_received' = last_received
        /\ lookups < MaxLookups /\ lookups' = lookups + 1
    BY <1>6, Zenon DEF Lookup, reply
  <2>2. lookups' \in 0..MaxLookups
    BY <1>1, <2>1, CellAssumption, SMT DEF CellTypes
  <2> QED
    BY <1>1, <2>1, <2>2, Zenon DEF CellTypes, HashTypes, ReplyTypes
<1>7. ASSUME wait_handler PROVE CellTypes'
  <2>1. /\ mem' = mem /\ reply_lock' = reply_lock /\ UNCHANGED reply /\ lookups' = lookups
        /\ hash' \in {hash, FALSE} /\ unlinked' \in {unlinked, TRUE} /\ hash_lock' \in {hash_lock, "main"}
    BY <1>7, Zenon DEF wait_handler
  <2>2. hash' \in Flags /\ unlinked' \in Flags /\ hash_lock' \in Holders
    BY <1>1, <1>2, <2>1, Disjoint, Zenon DEF CellTypes, HashTypes
  <2> QED
    BY <1>1, <1>3, <2>1, <2>2, Zenon DEF CellTypes, HashTypes
<1>8. ASSUME (\E p \in Runners, b \in Bufs : FireRetr(p, b)) \/ FireWait \/ UNCHANGED vars PROVE CellTypes'
  BY <1>4, <1>8, Zenon DEF FireRetr, FireWait, vars
<1> QED
  BY <1>5, <1>6, <1>7, <1>8, Zenon DEF Next, Gone

LEMMA NextTypes ==
  ASSUME TypeOK, ShapeInv, ShapeInv', LockInv, RefsInv, RefsInv', [Next]_vars
  PROVE  TypeOK'
<1>1. CellTypes' /\ rb' \in [Bufs -> RbRec] /\ Timer!TypeOK' /\ added' \subseteq Timers
  BY TypeCell, TypeBufs, TypeTimers, Zenon
<1>2. todo' \in [Procs -> Seq(OpRec)]
  BY Zenon DEF ShapeInv
<1>3. ref_count' \in 0..(Cardinality(Workers) + 1)
  <2>1. Cardinality(Workers) \in Nat /\ Cardinality(Refs') \in Nat /\ Cardinality(Refs') <= Cardinality(Workers)
    <3>1. Refs' \in SUBSET Workers
      BY Zenon DEF Refs
    <3> QED
      BY <3>1, Zenon DEF RefsInv, Counting
  <2>2. CASE mem' = "live"
    <3>1. ref_count' = Cardinality(Refs') \/ ref_count' = Cardinality(Refs') + 1
      <4>1. ref_count' = Cardinality(Refs') + (IF EndsWith("main", "free")' THEN 0 ELSE 1)
        BY <2>2, Zenon DEF RefsInv, CountsReferences, Refs
      <4> QED
        BY <2>1, <4>1, SMT
    <3> QED
      BY <2>1, <3>1, SMT
  <2>3. CASE mem' # "live"
    <3>1. ref_count' = ref_count
      <4>1. LastRef
        BY RefsGiveLast, Zenon
      <4>2. CASE UNCHANGED vars
        BY <4>2, Zenon DEF vars, cell
      <4>3. ASSUME NEW p \in Procs, Step(p) PROVE ref_count' = ref_count
        <5>1. mem = "live"
          BY <4>3, StepOthers, Zenon
        <5>2. free_cell(p)
          BY <2>3, <4>3, <5>1, QuietSt, Zenon DEF Step, Quiet, TestDel, Retransmit, Rearm, FinalResponse, cell
        <5> QED
          BY <5>2, Zenon DEF free_cell
      <4>4. ASSUME \/ \E w \in Workers : Lookup(w)
                   \/ \E p \in Runners, b \in Bufs : FireRetr(p, b)
                   \/ FireWait \/ wait_handler
            PROVE  FALSE
        <5>1. mem = "live" /\ mem' = mem
          BY <4>4, Zenon DEF Lookup, FireRetr, FireWait, wait_handler, At, cell
        <5> QED
          BY <2>3, <5>1, Zenon
      <4> QED
        BY <4>2, <4>3, <4>4, Zenon DEF Next, Gone
    <3> QED
      BY <3>1, Zenon DEF TypeOK
  <2> QED
    BY <2>2, <2>3, Zenon
<1>4. /\ {hash, unlinked, cancelled}' \subseteq BOOLEAN
      /\ {hash_lock, reply_lock}' \subseteq Procs \cup {None}
  BY <1>1, Zenon DEF CellTypes, HashTypes, ReplyTypes, Flags, Holders
<1> QED
  BY <1>1, <1>2, <1>3, <1>4, ZenonT(40) DEF TypeOK, CellTypes, ReplyTypes, Mems, Statuses, Codes, RbRec, OpRec


-----------------------------------------------------------------------------
(* The cell is freed when nothing uses it.                                    *)

LEMMA NextApart ==
  ASSUME TypeOK, ShapeInv, ShapeInv', LockInv, LastRef, RunInv, RunInv', ApartInv, [Next]_vars
  PROVE  ApartInv'
<1> DEFINE Goal == \E b \in Bufs : st'[b] = "slow"
<1> SUFFICES ASSUME HandlersApart, mem' = "live", st'["wait"] = "main", todo'["slow"] # << >> PROVE Goal
  BY Zenon DEF ApartInv, Idle
<1>1. /\ "main" \in Runners /\ "slow" \in Runners /\ "slow" \in Procs /\ "main" # "slow"
      /\ Timers = Bufs \cup {"wait"} /\ "wait" \notin Bufs /\ st \in [Timers -> {"off", "armed"} \cup Runners]
  BY Disjoint, Zenon DEF Timers, Bufs, TypeOK, Timer!TypeOK
<1>2. ASSUME NEW b \in Bufs, Handles(todo'["slow"], b) PROVE Goal
  BY <1>1, <1>2, Zenon DEF RunInv
<1>3. ASSUME mem = "live", st["wait"] = "main", todo["slow"] # << >>
      PROVE  \E b \in Bufs : Handles(todo["slow"], b)
  BY <1>1, <1>3, Zenon DEF ApartInv, RunInv, Idle
<1>4. ASSUME mem = "live", st["wait"] = "main", todo'["slow"] = todo["slow"] PROVE Goal
  BY <1>2, <1>3, <1>4, Zenon
<1>5. ASSUME NEW p \in Procs, Step(p) PROVE Goal
  <2>1. mem = "live" /\ ~Idle(p) /\ Others(p)
    BY <1>5, StepOthers, Zenon
  <2>2. st["wait"] = "main"
    <3>1. CASE Quiet(p)
      BY <1>1, <3>1, QuietSt, Zenon DEF RunSame
    <3>2. CASE TestDel(p) \/ Retransmit(p) \/ Rearm(p) \/ FinalResponse(p)
      <4>1. st' = st \/ \E x : \E to \in {"off", "armed"} : st' = [st EXCEPT ![x] = to]
        BY <3>2, Zenon DEF TestDel, Retransmit, Rearm, FinalResponse, Timer!Done, Timer!Rearm, Timer!Move, timers
      <4> QED
        BY <1>1, <4>1, Zenon
    <3>3. ~free_cell(p)
      BY Zenon DEF free_cell
    <3> QED
      BY <1>5, <3>1, <3>2, <3>3, Zenon DEF Step, Quiet
  <2>3. CASE p # "slow"
    BY <1>1, <1>4, <2>1, <2>2, <2>3, Zenon DEF Others
  <2>4. CASE p = "slow"
    <3>1. PICK b \in Bufs : Handles(todo[p], b)
      BY <1>3, <2>1, <2>2, <2>4, Zenon DEF Idle
    <3>2. CASE Quiet(p)
      BY <1>1, <1>2, <2>4, <3>1, <3>2, QuietHandles, Zenon
    <3>3. CASE TestDel(p) \/ Rearm(p)
      <4>1. Pops(p) /\ Head(todo[p]).op \in {"retr_buf_handler", "rearm"}
        BY <3>3, PopSteps, Zenon DEF TestDel, Rearm, At
      <4>2. Later(todo[p]) = {}
        BY <2>1, <4>1, Who, Zenon
      <4> QED
        BY <2>4, <4>1, <4>2, Zenon DEF Pops, Popped
    <3>4. CASE Retransmit(p)
      <4>1. todo'[p] = <<Op("lock_unlock", None), Op("rearm", "rpl")>>
        BY <2>4, <3>4, RetransmitStep, Zenon DEF Pops, Popped, Sets
      <4>2. Again(todo'[p]) /\ todo'[p] \in Seq(OpRec)
        BY <2>1, <4>1, AgainTwo, Zenon DEF Others
      <4>3. Handles(todo'[p], "rpl") /\ "rpl" \in Bufs
        BY <4>2, HandlesWhat, Zenon DEF HandlesOnly, Timers, Bufs
      <4> QED
        BY <1>2, <2>4, <4>3, Zenon
    <3>5. ~FinalResponse(p) /\ ~free_cell(p)
      BY <2>2, Zenon DEF FinalResponse, free_cell
    <3> QED
      BY <1>5, <3>2, <3>3, <3>4, <3>5, Zenon DEF Step, Quiet
  <2> QED
    BY <2>3, <2>4, Zenon
<1>6. ASSUME NEW w \in Workers, Lookup(w) PROVE Goal
  <2>1. Others(w) /\ st' = st /\ mem' = mem
    BY <1>6, OtherSteps, Zenon DEF Lookup, Sets, timers
  <2> QED
    BY <1>1, <1>4, <2>1, Disjoint, Zenon DEF Others
<1>7. ASSUME NEW p \in Runners, NEW b \in Bufs, FireRetr(p, b) PROVE Goal
  <2>1. mem = "live" /\ todo[p] = << >> /\ st' = [st EXCEPT ![b] = p]
    BY <1>7, Zenon DEF FireRetr, Timer!Fire, Timer!Move, Idle
  <2>2. CASE p = "slow"
    BY <1>1, <2>1, <2>2, Zenon
  <2>3. CASE p = "main"
    <3>1. st["wait"] = "main"
      BY <1>1, <2>1, Zenon
    <3>2. Handles(todo[p], "wait")
      BY <1>1, <2>1, <2>3, <3>1, Zenon DEF RunInv
    <3> QED
      BY <2>1, <3>2, Zenon DEF Handles
  <2> QED
    BY <2>2, <2>3, Zenon DEF Runners
<1>8. ASSUME FireWait PROVE Goal
  <2>1. /\ ~FinalHandler("slow") /\ st["wait"] = "armed" /\ st' = [st EXCEPT !["wait"] = "main"]
        /\ Sets("main", <<Op("stop", "cnl"), Op("wait_handler", "wait")>>)
    BY <1>8, OtherSteps, Zenon DEF FireWait, Timer!Fire, Timer!Move
  <2>2. todo["slow"] # << >>
    BY <1>1, <2>1, Zenon DEF Sets, Others
  <2>3. PICK x \in Timers : st[x] = "slow"
    BY <2>1, <2>2, Zenon DEF FinalHandler, Idle
  <2>4. x \in Bufs
    BY <1>1, <2>1, <2>3, Zenon
  <2> QED
    BY <1>1, <2>1, <2>3, <2>4, Zenon
<1>9. ASSUME wait_handler PROVE Goal
  <2>1. mem = "live" /\ st' = st /\ \E s : Sets("main", s)
    BY <1>9, WaitStep, Zenon DEF wait_handler, timers, At
  <2> QED
    BY <1>1, <1>4, <2>1, Zenon DEF Sets, Others
<1>10. ASSUME UNCHANGED vars PROVE Goal
  <2>1. mem' = mem /\ st' = st /\ todo' = todo
    BY <1>10, Zenon DEF vars, cell, timers
  <2> QED
    BY <1>4, <2>1, Zenon
<1> QED
  BY <1>5, <1>6, <1>7, <1>8, <1>9, <1>10, Zenon DEF Next, Gone

(* wait_handler is about to free the cell, nobody else having a reference *)
Last1 == mem = "live" /\ ~unlinked /\ EndsWith("main", "free")

LEMMA LastAlone ==
  ASSUME TypeOK, ShapeInv, RunInv, RefsInv, ApartInv, Last1
  PROVE  /\ ~hash /\ \A w \in Workers : Idle(w)
         /\ Waiting(todo["main"]) /\ Handles(todo["main"], "wait")
         /\ HandlersApart /\ ~Idle("slow") => \E b \in Bufs : st[b] = "slow" /\ Handles(todo["slow"], b)
<1>1. ref_count = 0 /\ ~hash /\ \A w \in Workers : ~EndsWith(w, "free")
  BY Zenon DEF RefsInv, RefInv, Last1
<1>2. \A w \in Workers : ~EndsWith(w, "unref")
  <2>1. ref_count = Cardinality(Refs) + 0
    BY Zenon DEF RefsInv, CountsReferences, Last1, Refs
  <2>2. Cardinality(Refs) \in Nat /\ \A w \in Refs : Cardinality(Refs) >= 1
    BY RefsFinite, Zenon DEF RefsInv
  <2>3. ~\E w \in Workers : w \in Refs
    BY <1>1, <2>1, <2>2, SMT
  <2> QED
    BY <2>3, Zenon DEF Refs
<1>3. ASSUME NEW w \in Workers PROVE Idle(w)
  <2>1. Work(todo[w])
    BY Disjoint, Zenon DEF ShapeInv, Program
  <2> QED
    BY <1>1, <1>2, <2>1, Zenon DEF Work, EndsWith, Idle, Last
<1> DEFINE s == todo["main"]
<1>4. s # << >> /\ Last(s).op = "free" /\ s \in Seq(OpRec) /\ Program("main", s) /\ "main" \in Runners
  BY Disjoint, Zenon DEF Last1, EndsWith, Idle, Last, ShapeInv
<1>5. Handles(s, "wait")
  BY <1>4, Zenon DEF Handles
<1>6. Waiting(s)
  <2>1. /\ Els(s) = Early(s) \cup {Last(s)}
        /\ Later(s) = {} => Last(s) = Head(s)
    BY <1>4, SeqParts, Zenon
  <2>2. ~Retr(s) /\ ~Final(s)
    BY <1>4, <2>1, Zenon DEF Retr, Final, FinalOps
  <2>3. ~Again(s)
    <3>1. Op("rearm", "rpl").op = "rearm"
      BY Steps, Zenon
    <3> QED
      BY <1>4, <3>1, Zenon DEF Again
  <2> QED
    BY <1>4, <2>2, <2>3, Zenon DEF Program
<1>7. ASSUME HandlersApart, ~Idle("slow") PROVE \E b \in Bufs : st[b] = "slow" /\ Handles(todo["slow"], b)
  <2>1. st["wait"] = "main"
    BY <1>4, <1>5, Zenon DEF RunInv, Last1, Timers
  <2>2. PICK b \in Bufs : st[b] = "slow"
    BY <1>7, <2>1, Zenon DEF ApartInv, Last1
  <2> QED
    BY <2>2, Disjoint, Zenon DEF RunInv, Last1, Timers
<1> QED
  BY <1>1, <1>3, <1>5, <1>6, <1>7, Zenon

LEMMA StepOff ==
  ASSUME TypeOK, NEW p \in Procs, Step(p), Head(todo[p]).op \notin {"timer_add", "put_on_wait"},
         NEW b \in Timers, st[b] = "off"
  PROVE  st'[b] = "off"
<1>1. st \in [Timers -> {"off", "armed"} \cup Runners] /\ p # "off"
  BY NamesAssumption, ZenonT(40) DEF TypeOK, Timer!TypeOK, Procs, Runners
<1>2. ASSUME NEW x, NEW from, NEW to, from # "off", Timer!Move(x, from, to) PROVE st'[b] = "off"
  BY <1>1, <1>2, Zenon DEF Timer!Move
<1>3. CASE \/ Lock(p) \/ LockUnlock(p) \/ Unlock(p) \/ Stop(p) \/ TestAdd(p) \/ Activate(p) \/ RelayReply(p)
           \/ RelayProvisional(p) \/ cancel_branch(p) \/ Unref(p) \/ Timeout(p) \/ UnlockHash(p) \/ UnrefFree(p)
  <2>1. st' = st
    BY <1>3, Zenon DEF Lock, LockUnlock, Unlock, Stop, TestAdd, Activate, RelayReply, RelayProvisional, cancel_branch,
                       Unref, Timeout, UnlockHash, UnrefFree, timers, Timer!Del
  <2> QED
    BY <2>1, Zenon
<1>4. CASE timer_del(p)
  BY <1>2, <1>4, Zenon DEF timer_del, Timer!Deleted, Timer!WasOff
<1>5. CASE TestDel(p) \/ Retransmit(p) \/ Rearm(p) \/ FinalResponse(p) \/ free_cell(p)
  <2>1. st' = st \/ \E x, to : Timer!Move(x, p, to)
    BY <1>5, Zenon DEF TestDel, Retransmit, Rearm, FinalResponse, free_cell, Timer!Done, Timer!Rearm, timers
  <2> QED
    BY <1>1, <1>2, <2>1, Zenon
<1>6. ~AddRetr(p) /\ ~put_on_wait(p)
  BY Zenon DEF AddRetr, put_on_wait, At
<1> QED
  BY <1>3, <1>4, <1>5, <1>6, Zenon DEF Step

LEMMA NextFree ==
  ASSUME TypeOK, ShapeInv, ShapeInv', LockInv, LastRef, RunInv, TimerInv, RefsInv, ApartInv, FreeInv, [Next]_vars
  PROVE  FreeInv'
<1> SUFFICES ASSUME HandlersApart, mem' = "live", ~unlinked', EndsWith("main", "free")', NEW b \in Bufs
             PROVE  st'[b] = "off" \/ Stops("main", b)'
  BY Zenon DEF FreeInv
<1>1. /\ "main" \in Procs /\ "main" \in Runners /\ "main" \notin Workers /\ "slow" \in Procs /\ "slow" \in Runners
      /\ "slow" \notin Workers /\ "slow" # "main" /\ b \in Timers /\ b # None
      /\ todo'["main"] # << >> /\ Last(todo'["main"]).op = "free"
  BY Disjoint, NamesAssumption, Zenon DEF Timers, Bufs, EndsWith, Idle, Last
<1>2. Last1 => st[b] = "off" \/ Stops("main", b)
  BY Zenon DEF Last1, FreeInv
<1>3. ASSUME todo'["main"] = todo["main"], mem = "live", unlinked' = unlinked PROVE Last1
  BY <1>1, <1>3, Zenon DEF Last1, EndsWith, Idle, Last
<1>4. ASSUME todo'["main"] = todo["main"], Stops("main", b) PROVE Stops("main", b)'
  BY <1>4, Zenon DEF Stops
<1>5. ASSUME NEW p \in Runners, NEW c, Final(todo[p]), Handles(todo[p], c), c \in Timers PROVE FALSE
  BY <1>5, HandlesWhat, Disjoint, Zenon DEF HandlesNone, ShapeInv
<1>6. ASSUME NEW p \in Procs, Step(p) PROVE st'[b] = "off" \/ Stops("main", b)'
  <2> DEFINE o == Head(todo[p]).op
  <2>1. mem = "live" /\ ~Idle(p) /\ Others(p)
    BY <1>6, StepOthers, Zenon
  <2>2. unlinked' = unlinked
    BY <1>6, Zenon DEF Step, Lock, LockUnlock, Unlock, Stop, timer_del, TestAdd, AddRetr, Activate, put_on_wait,
             RelayReply, RelayProvisional, cancel_branch, Unref, free_cell, TestDel, Retransmit, Rearm, FinalResponse,
             Timeout, UnlockHash, UnrefFree, cell
  <2>3. CASE p # "main"
    <3>1. todo'["main"] = todo["main"] /\ Last1
      BY <1>1, <1>3, <2>1, <2>2, <2>3, Zenon DEF Others
    <3>2. p = "slow"
      BY <2>1, <2>3, <3>1, LastAlone, Disjoint, Zenon DEF Runners
    <3>3. PICK c \in Bufs : Handles(todo[p], c)
      BY <2>1, <3>1, <3>2, LastAlone, Zenon
    <3>4. o \notin {"timer_add", "put_on_wait"}
      BY <1>1, <1>5, <2>1, <3>2, <3>3, Who, Zenon DEF Timers
    <3>5. st[b] = "off" => st'[b] = "off"
      BY <1>1, <1>6, <3>4, StepOff, Zenon
    <3> QED
      BY <1>2, <1>4, <3>1, <3>5, Zenon
  <2>4. CASE p = "main" /\ UnrefFree(p)
    <3>0. ref_count \in Nat /\ ref_count >= 1 /\ ref_count <= 1 /\ ~unlinked
      <4>1. At("main", "unref_free")
        BY <2>4, Zenon DEF UnrefFree
      <4>2. ~unlinked
        BY <2>2, Zenon
      <4> QED
        BY <4>1, <4>2, Zenon DEF LastRef
    <3>1. Sets(p, Freeing)
      BY <2>4, <3>0, UnrefFreeStep, Zenon
    <3>2. Is4(Freeing, Op("stop", "rpl"), Op("stop", "req"), Op("stop", "cnl"), Op("free", None))
      BY Four, Zenon DEF Freeing
    <3>3. PICK e \in Els(Freeing) : e.op = "stop" /\ e.rb = b
      BY <3>2, Steps, ZenonT(40) DEF Is4, Bufs
    <3> QED
      BY <2>4, <3>1, <3>3, Zenon DEF Sets, Stops
  <2>5. CASE p = "main" /\ ~UnrefFree(p)
    <3>1. ~Unref(p) /\ ~free_cell(p)
      BY <1>1, <2>5, UnrefStep, Zenon DEF free_cell
    <3>2. Last1
      BY <1>6, <2>1, <2>2, <2>5, <3>1, StepEnds, Zenon DEF SameEnds, EndOps, Last1
    <3>3. /\ Waiting(todo[p]) /\ Handles(todo[p], "wait") /\ \A w \in Workers : Idle(w)
          /\ todo[p] \in Seq(OpRec) /\ todo[p] # << >>
      BY <2>1, <2>5, <3>2, LastAlone, Zenon DEF ShapeInv, Idle
    <3>4. o \notin {"timer_add", "put_on_wait"}
      BY <1>1, <1>5, <2>1, <2>5, <3>3, Who, Zenon DEF Timers
    <3>5. CASE st[b] = "off"
      BY <1>1, <1>6, <3>4, <3>5, StepOff, Zenon
    <3>6. CASE Stops(p, b)
      <4>1. PICK e \in Els(todo[p]) : e.op \in {"stop", "timer_del"} /\ e.rb = b
        BY <3>6, Zenon DEF Stops
      <4>2. /\ Els(todo[p]) = {Head(todo[p])} \cup Later(todo[p])
            /\ Later(todo[p]) # {} => Head(todo[p]) \in Early(todo[p])
        BY <3>3, SeqParts, Zenon
      <4>3. Later(todo[p]) # {}
        BY <2>1, <4>1, <4>2, Who, ZenonT(40)
      <4>4. o \in WaitOps
        BY <3>3, <4>2, <4>3, Zenon DEF Waiting
      <4>5. Stop(p) \/ timer_del(p) \/ UnlockHash(p)
        BY <1>6, <4>4, Zenon DEF Step, Lock, LockUnlock, Unlock, TestAdd, AddRetr, Activate, put_on_wait, RelayReply,
                 RelayProvisional, cancel_branch, Unref, free_cell, TestDel, Retransmit, Rearm, FinalResponse,
                 Timeout, UnrefFree, At, WaitOps
      <4>6. Pops(p) \/ (Stop(p) /\ Swaps(p, Op("timer_del", Buf(p))))
        BY <4>5, PopSteps, StopStep, Zenon
      <4>7. CASE e \in Later(todo[p])
        <5>1. e \in Els(todo'[p])
          BY <4>6, <4>7, Zenon DEF Pops, Popped, Swaps, Swapped
        <5> QED
          BY <2>5, <4>1, <5>1, Zenon DEF Stops
      <4>8. CASE e = Head(todo[p])
        <5>1. Buf(p) = b /\ o \in {"stop", "timer_del"}
          BY <4>1, <4>8, Zenon DEF Buf
        <5>2. CASE Stop(p) /\ Swaps(p, Op("timer_del", Buf(p)))
          <6>1. Op("timer_del", b) \in Els(todo'[p])
            BY <5>1, <5>2, Zenon DEF Swaps, Swapped
          <6>2. Op("timer_del", b).op = "timer_del" /\ Op("timer_del", b).rb = b
            BY Steps, Zenon
          <6> QED
            BY <2>5, <6>1, <6>2, Zenon DEF Stops
        <5>3. CASE timer_del(p)
          <6>1. deleting[p] = b /\ st \in [Timers -> {"off", "armed"} \cup Runners]
            BY <2>1, <5>1, <5>3, Zenon DEF TimerInv, DelInv, Does, timer_del, At, TypeOK, Timer!TypeOK
          <6> QED
            BY <1>1, <5>3, <6>1, Zenon DEF timer_del, Timer!Deleted, Timer!WasOff, Timer!Move
        <5>4. CASE Stop(p) /\ ~(rb[b].t_active /\ b \in added)
          <6>1. ~rb[b].t_active
            BY <5>4, Zenon DEF TimerInv, ActInv
          <6>2. o = "stop"
            BY <5>4, Zenon DEF Stop, At
          <6>3. ASSUME NEW q \in Procs PROVE deleting[q] # b /\ ~(At(q, "activate") /\ Buf(q) = b)
            <7>1. ~Does(q, "timer_del") /\ ~Does(q, "activate")
              <8>1. CASE q \in Workers
                BY <3>3, <8>1, Zenon DEF Does
              <8>2. CASE q = "main"
                BY <2>5, <6>2, <8>2, Zenon DEF Does
              <8>3. CASE q = "slow"
                <9>1. ~Idle(q) => \E c \in Bufs : Handles(todo[q], c)
                  BY <3>2, <8>3, LastAlone, Zenon
                <9>2. Does(q, "timer_del") => FALSE
                  BY <1>1, <8>3, Who, Zenon DEF Does
                <9>3. Does(q, "activate") => FALSE
                  BY <1>1, <1>5, <8>3, <9>1, Who, Zenon DEF Does, Timers
                <9> QED
                  BY <9>2, <9>3, Zenon
              <8> QED
                BY <8>1, <8>2, <8>3, Disjoint, Zenon DEF Runners
            <7> QED
              BY <1>1, <7>1, Zenon DEF TimerInv, DelInv, Does, At
          <6>4. st[b] = "off"
            BY <2>1, <6>1, <6>3, Zenon DEF TimerInv, ArmedIsKnown
          <6> QED
            BY <3>5, <6>4, Zenon
        <5> QED
          BY <4>5, <5>1, <5>2, <5>3, <5>4, StopStep, Zenon DEF UnlockHash, At
      <4> QED
        BY <4>1, <4>2, <4>7, <4>8, Zenon
    <3> QED
      BY <1>2, <2>5, <3>2, <3>5, <3>6, Zenon
  <2> QED
    BY <2>3, <2>4, <2>5, Zenon
<1>7. ASSUME NEW w \in Workers, Lookup(w) PROVE FALSE
  <2>1. Others(w) /\ mem = "live" /\ unlinked' = unlinked /\ hash
    BY <1>7, OtherSteps, Zenon DEF Lookup, Sets
  <2> QED
    BY <1>1, <1>3, <1>7, <2>1, LastAlone, Zenon DEF Others
<1>8. ASSUME NEW p \in Runners, NEW c \in Bufs, FireRetr(p, c) PROVE st'[b] = "off" \/ Stops("main", b)'
  <2>1. Sets(p, <<Op("retr_buf_handler", c)>>) /\ mem = "live" /\ unlinked' = unlinked /\ st[c] = "armed"
        /\ st' = [st EXCEPT ![c] = p]
    BY <1>8, OtherSteps, Zenon DEF FireRetr, Timer!Fire, Timer!Move, cell
  <2>2. Last(<<Op("retr_buf_handler", c)>>).op = "retr_buf_handler"
    BY LastOps, Zenon
  <2>3. p # "main"
    BY <1>1, <2>1, <2>2, Zenon DEF Sets
  <2>4. todo'["main"] = todo["main"]
    BY <1>1, <2>1, <2>3, Zenon DEF Sets, Others
  <2>5. st[b] = "off" => st'[b] = "off"
    <3>1. ASSUME st[b] = "off" PROVE st'[b] = st[b]
      <4>1. st \in [Timers -> {"off", "armed"} \cup Runners] /\ b # c
        BY <2>1, <3>1, Zenon DEF TypeOK, Timer!TypeOK
      <4> QED
        BY <1>1, <2>1, <4>1, Zenon
    <3> QED
      BY <3>1, Zenon
  <2> QED
    BY <1>2, <1>3, <1>4, <2>1, <2>4, <2>5, Zenon
<1>9. ~FireWait
  <2>1. Last(<<Op("stop", "cnl"), Op("wait_handler", "wait")>>).op = "wait_handler"
    BY LastOps, Zenon
  <2> QED
    BY <1>1, <2>1, OtherSteps, Zenon DEF Sets
<1>10. ~wait_handler
  <2>1. Last(Unlinking).op = "rearm" /\ Last(<<Op("rearm", "wait")>>).op = "rearm"
        /\ Last(<<Op("unref_free", None)>>).op = "unref_free"
    BY LastOps, Zenon
  <2> QED
    BY <1>1, <2>1, WaitStep, Zenon DEF Sets
<1>11. ASSUME UNCHANGED vars PROVE st'[b] = "off" \/ Stops("main", b)'
  <2>1. mem' = mem /\ unlinked' = unlinked /\ st' = st /\ todo' = todo
    BY <1>11, Zenon DEF vars, cell, timers
  <2> QED
    BY <1>2, <1>3, <1>4, <2>1, Zenon
<1> QED
  BY <1>6, <1>7, <1>8, <1>9, <1>10, <1>11, Zenon DEF Next, Gone

FreedInv == HandlersApart => FreedIsUnused

LEMMA NextFreed ==
  ASSUME TypeOK, ShapeInv, ShapeInv', RunInv, RefsInv, ApartInv, FreeInv, FreedInv, [Next]_vars
  PROVE  FreedInv'
<1> SUFFICES ASSUME HandlersApart, mem' = "freed", ~unlinked'
             PROVE  (\A x \in Timers : st'[x] = "off") /\ (\A p \in Procs : todo'[p] = << >>)
  BY Zenon DEF FreedInv, FreedIsUnused, Idle
<1>1. ASSUME UNCHANGED vars PROVE (\A x \in Timers : st'[x] = "off") /\ (\A p \in Procs : todo'[p] = << >>)
  <2>1. mem' = mem /\ unlinked' = unlinked /\ st' = st /\ todo' = todo
    BY <1>1, Zenon DEF vars, cell, timers
  <2> QED
    BY <2>1, Zenon DEF FreedInv, FreedIsUnused, Idle
<1>2. ASSUME NEW p \in Procs, Step(p) PROVE (\A x \in Timers : st'[x] = "off") /\ (\A q \in Procs : todo'[q] = << >>)
  <2>1. mem = "live" /\ ~Idle(p) /\ Others(p)
    BY <1>2, StepOthers, Zenon
  <2>2. free_cell(p)
    BY <1>2, <2>1, QuietSt, Zenon DEF Step, Quiet, TestDel, Retransmit, Rearm, FinalResponse, cell
  <2>3. Head(todo[p]).op = "free" /\ unlinked' = unlinked /\ Pops(p)
    BY <2>2, PopSteps, Zenon DEF free_cell, At
  <2>4. (p \in Workers \/ p = "main") /\ Later(todo[p]) = {}
    BY <2>1, <2>3, Who, Zenon
  <2>5. Last(todo[p]) = Head(todo[p]) /\ Els(todo[p]) = {Head(todo[p])}
    BY <2>1, <2>4, SeqParts, Zenon DEF ShapeInv, Idle
  <2>6. EndsWith(p, "free")
    BY <2>1, <2>3, <2>5, Zenon DEF EndsWith, Last
  <2>7. p = "main"
    BY <2>1, <2>3, <2>4, <2>6, Zenon DEF RefsInv, RefInv
  <2>8. Last1
    BY <2>1, <2>3, <2>6, <2>7, Zenon DEF Last1
  <2>9. \A b \in Bufs : st[b] = "off"
    BY <2>3, <2>5, <2>7, <2>8, Zenon DEF FreeInv, Last1, Stops
  <2>10. \A q \in Procs : q # p => Idle(q)
    <3>1. \A w \in Workers : Idle(w)
      BY <2>8, LastAlone, Zenon
    <3>2. Idle("slow")
      BY <2>8, <2>9, LastAlone, Zenon
    <3> QED
      BY <2>7, <3>1, <3>2, Disjoint, Zenon DEF Runners
  <2>11. todo'[p] = << >>
    BY <2>3, <2>4, Zenon DEF Pops, Popped
  <2>12. \A x \in Timers : st'[x] = "off"
    <3>1. st' = [st EXCEPT !["wait"] = "off"] /\ st \in [Timers -> {"off", "armed"} \cup Runners]
      BY <2>2, <2>7, Zenon DEF free_cell, Timer!Done, Timer!Move, TypeOK, Timer!TypeOK
    <3>2. \A x \in Timers : x \in Bufs \/ x = "wait"
      BY Zenon DEF Timers
    <3> QED
      BY <2>9, <3>1, <3>2, Zenon
  <2> QED
    BY <2>1, <2>10, <2>11, <2>12, Zenon DEF Others, Idle
<1>3. ASSUME \/ \E w \in Workers : Lookup(w)
             \/ \E p \in Runners, b \in Bufs : FireRetr(p, b)
             \/ FireWait \/ wait_handler
      PROVE  FALSE
  <2>1. mem = "live" /\ mem' = mem
    BY <1>3, Zenon DEF Lookup, FireRetr, FireWait, wait_handler, At, cell
  <2> QED
    BY <2>1, Zenon
<1> QED
  BY <1>1, <1>2, <1>3, Zenon DEF Next, Gone

-----------------------------------------------------------------------------
(* The transaction is not forgotten.                                          *)

LEMMA NextAdded ==
  ASSUME [Next]_vars
  PROVE  \/ added' = added /\ ~\E p \in Procs : put_on_wait(p)
         \/ added' = added \cup {"wait"}
         \/ \E p \in Procs : AddRetr(p) /\ added' = added \cup {Buf(p)}
<1>1. ASSUME NEW p \in Procs, AddRetr(p) PROVE added' = added \cup {Buf(p)}
  BY <1>1, Zenon DEF AddRetr, timer_add
<1>2. ASSUME NEW p \in Procs, put_on_wait(p) PROVE added' = added \cup {"wait"}
  BY <1>2, Zenon DEF put_on_wait, timer_add
<1>3. ASSUME NEW p \in Procs, Step(p), ~AddRetr(p), ~put_on_wait(p) PROVE added' = added
  BY <1>3, Zenon DEF Step, Lock, LockUnlock, Unlock, Stop, timer_del, TestAdd, Activate, RelayReply, RelayProvisional,
           cancel_branch, Unref, free_cell, TestDel, Retransmit, Rearm, FinalResponse, Timeout, UnlockHash, UnrefFree
<1>4. ASSUME \/ \E w \in Workers : Lookup(w)
             \/ \E p \in Runners, b \in Bufs : FireRetr(p, b)
             \/ FireWait \/ wait_handler \/ UNCHANGED vars
      PROVE  added' = added
  BY <1>4, Zenon DEF Lookup, FireRetr, FireWait, wait_handler, vars
<1> QED
  BY <1>1, <1>2, <1>3, <1>4, Zenon DEF Next, Gone

LEMMA NextMoves ==
  ASSUME ShapeInv, ShapeInv', LockInv, LastRef, [Next]_vars
  PROVE  UNCHANGED vars \/ \E p \in Procs : Others(p) /\ (Plainly(p) \/ Swapping(p))
<1>1. ASSUME NEW p \in Procs, Step(p) PROVE Others(p) /\ (Plainly(p) \/ Swapping(p))
  BY <1>1, StepOthers, StepMoves, Zenon
<1>2. ASSUME NEW p \in Procs, Plainly(p) PROVE Others(p)
  BY <1>2, PlainlyFresh, Zenon
<1> QED
  BY <1>1, <1>2, OthersMove, Disjoint, Zenon DEF Next, Gone

LEMMA NextReq ==
  ASSUME ShapeInv, ShapeInv', LockInv, LastRef, ReqInv, [Next]_vars
  PROVE  ReqInv'
<1> DEFINE Good(q, s, a) == /\ \A e \in Later(s) : ~AddsReq(e)
                            /\ \A e \in Els(s) : AddsReq(e) => q = Creator /\ "req" \notin a
<1>1. \A q \in Procs : Good(q, todo[q], added)
  BY Zenon DEF ReqInv
<1> SUFFICES ASSUME NEW q \in Procs PROVE Good(q, todo'[q], added')
  BY Zenon DEF ReqInv
<1>2. CASE UNCHANGED vars
  <2>1. todo' = todo /\ added' = added
    BY <1>2, Zenon DEF vars
  <2> QED
    BY <1>1, <2>1, Zenon
<1>3. ASSUME NEW p \in Procs, Others(p), Plainly(p) \/ Swapping(p) PROVE Good(q, todo'[q], added')
  <2>1. CASE q = p
    <3>1. todo'[p] \in Seq(OpRec) /\ (todo'[p] = << >> => Later(todo'[p]) = {})
      BY <1>3, EmptyParts, Zenon DEF Others
    <3>2. todo'[p] # << >> => Els(todo'[p]) = {Head(todo'[p])} \cup Later(todo'[p])
      BY <3>1, SeqParts, Zenon
    <3>3. ASSUME \A e \in Els(todo'[p]) : ~AddsReq(e) PROVE Good(q, todo'[q], added')
      BY <2>1, <3>1, <3>2, <3>3, Zenon
    <3>4. CASE Plainly(p)
      <4>1. CASE Pops(p)
        BY <1>1, <3>3, <4>1, Zenon DEF Pops, Popped
      <4>2. ASSUME NEW s, New(s), Sets(p, s) PROVE \A e \in Els(todo'[p]) : ~AddsReq(e)
        BY <4>2, NewParts, Zenon DEF Sets
      <4> QED
        BY <3>3, <3>4, <4>1, <4>2, Zenon DEF Plainly
    <3>5. ASSUME NEW o, Swaps(p, o), ~AddsReq(o) PROVE Good(q, todo'[q], added')
      BY <1>1, <3>3, <3>5, Zenon DEF Swaps, Swapped
    <3>6. \A b : ~AddsReq(Op("timer_del", b)) /\ ~AddsReq(Op("activate", b)) /\ ~AddsReq(Op("set_fr_retr", "cnl"))
      BY Steps, Zenon DEF AddsReq
    <3>7. ASSUME TestAdd(p), Swaps(p, Op("timer_add", Buf(p))), AddsReq(Op("timer_add", Buf(p)))
          PROVE  Good(q, todo'[q], added')
      <4>1. Buf(p) = "req" /\ Head(todo[p]).op = "set_fr_retr" /\ added' = added /\ todo[p] # << >>
        BY <3>7, Steps, Zenon DEF AddsReq, TestAdd, At, Idle
      <4>2. AddsReq(Head(todo[p])) /\ Head(todo[p]) \in Els(todo[p])
        BY <4>1, SeqParts, Zenon DEF AddsReq, Buf, ShapeInv
      <4>3. p = Creator /\ "req" \notin added
        BY <1>1, <4>2, Zenon
      <4> QED
        BY <1>1, <2>1, <3>7, <4>1, <4>3, Zenon DEF Swaps, Swapped
    <3> QED
      BY <1>3, <3>4, <3>5, <3>6, <3>7, Zenon DEF Swapping
  <2>2. CASE q # p
    <3>1. todo'[q] = todo[q]
      BY <1>3, <2>2, Zenon DEF Others
    <3>2. ASSUME NEW e \in Els(todo[q]), AddsReq(e) PROVE "req" \notin added'
      <4>1. q = Creator /\ "req" \notin added
        BY <1>1, <3>2, Zenon
      <4>2. ASSUME NEW r \in Procs, AddRetr(r), Buf(r) = "req" PROVE FALSE
        <5>1. ~Idle(r) /\ Head(todo[r]).op = "timer_add" /\ Others(r)
          BY <4>2, StepOthers, Zenon DEF AddRetr, At, Step
        <5>2. AddsReq(Head(todo[r])) /\ Head(todo[r]) \in Els(todo[r])
          BY <4>2, <5>1, SeqParts, Zenon DEF AddsReq, Buf, ShapeInv, Idle
        <5>3. r = q
          BY <1>1, <4>1, <5>2, Zenon
        <5>4. todo'[r] # todo[r]
          <6>1. Swaps(r, Op("activate", Buf(r)))
            BY <4>1, <4>2, AddRetrStep, Zenon
          <6>2. Head(todo'[r]).op = "activate"
            BY <6>1, Steps, Zenon DEF Swaps, Swapped
          <6> QED
            BY <5>1, <6>2, Zenon
        <5> QED
          BY <3>1, <5>3, <5>4, Zenon
      <4>3. \/ added' = added \/ added' = added \cup {"wait"}
            \/ \E r \in Procs : AddRetr(r) /\ added' = added \cup {Buf(r)}
        BY NextAdded, Zenon
      <4>4. ASSUME NEW x, x # "req", added' = added \cup {x} PROVE "req" \notin added'
        BY <4>1, <4>4, Zenon
      <4>5. ASSUME NEW r \in Procs, AddRetr(r), added' = added \cup {Buf(r)} PROVE "req" \notin added'
        BY <4>2, <4>4, <4>5, Zenon
      <4>6. CASE added' = added \cup {"wait"}
        BY <4>4, <4>6, SMT
      <4> QED
        BY <4>1, <4>3, <4>5, <4>6, Zenon
    <3> QED
      BY <1>1, <3>1, <3>2, Zenon
  <2> QED
    BY <2>1, <2>2, Zenon
<1> QED
  BY <1>2, <1>3, NextMoves, Zenon

(* What a step does to the intention to put the transaction on wait.          *)
PendOps == {"put_on_wait", "relay", "timeout"}
Pends(s) == \E e \in Els(s) : e.op \in PendOps
Waits(s) == \E e \in Els(s) : e.op = "put_on_wait"
StopsReq(s) == \E e \in Els(s) : e.op \in {"stop", "timer_del"} /\ e.rb = "req"
Keeps(p) == /\ status' = status /\ (Pends(todo[p]) => Pends(todo'[p])) /\ (Waits(todo[p]) => Waits(todo'[p]))
            /\ StopsReq(todo'[p]) => StopsReq(todo[p]) \/ Pends(todo'[p])
Relieved(p) == status' = status /\ status >= 200 /\ ~Waits(todo[p]) /\ ~StopsReq(todo'[p])
PendEffect(p) == Keeps(p) \/ Relieved(p) \/ Waits(todo'[p])

LEMMA NewPends ==
  /\ \A s : Job(s) /\ StopsReq(s) => Pends(s)
  /\ \A s : Relaying(s) \/ FakeReply(s) => Waits(s)
  /\ \A o, b : /\ o = "put_on_wait" => Waits(<<Op(o, b)>>)
               /\ o \notin {"stop", "timer_del"} => ~StopsReq(<<Op(o, b)>>)
  /\ ~StopsReq(<<Op("lock_unlock", None), Op("rearm", "rpl")>>)
  /\ ~Waits(<<Op("relay", None), Op("unref", None)>>)
  /\ ~StopsReq(<< >>)
<1>1. ASSUME NEW s, Job(s), StopsReq(s) PROVE Pends(s)
  <2>1. CASE \E b \in {"req", "cnl"} : s = <<Op("lock", None), Op("stop", b)>> \o Section(b)
    <3>1. PICK b \in {"req", "cnl"} : s = <<Op("lock", None), Op("stop", b)>> \o Section(b)
      BY <2>1
    <3> DEFINE x == Section(b)[1]
    <3>2. s = <<Op("lock", None), Op("stop", b), x, Op("unref", None)>> /\ x \in {Op("relay", None), Op("unlock", None)}
      BY <3>1, SectionParts, Zenon
    <3>3. b = "req" => x = Op("relay", None)
      <4>1. Section("req") = <<Op("relay", None), Op("unref", None)>>
        BY SectionParts, Zenon
      <4> QED
        BY <4>1, SMT
    <3> HIDE DEF x
    <3>4. Is4(s, Op("lock", None), Op("stop", b), x, Op("unref", None))
      BY <3>2, Four, Zenon
    <3> QED
      BY <1>1, <3>2, <3>3, <3>4, SMT DEF Is4, StopsReq, Pends, PendOps, Op
  <2>2. CASE \E o \in {"provisional", "lock_unlock", "cancel_branch"} : s = <<Op(o, None), Op("unref", None)>>
    <3>1. PICK o \in {"provisional", "lock_unlock", "cancel_branch"} : s = <<Op(o, None), Op("unref", None)>>
      BY <2>2
    <3>2. Els(s) = {Op(o, None), Op("unref", None)}
      BY <3>1, Two, Zenon DEF Is2
    <3> QED
      BY <1>1, <3>2, SMT DEF StopsReq, Op
  <2>3. CASE s = <<Op("stop", "rpl"), Op("stop", "req"), Op("put_on_wait", None), Op("unref", None)>>
    <3>1. Is4(s, Op("stop", "rpl"), Op("stop", "req"), Op("put_on_wait", None), Op("unref", None))
      BY <2>3, Four, Zenon
    <3> QED
      BY <3>1, SMT DEF Is4, Pends, PendOps, Op
  <2> QED
    BY <1>1, <2>1, <2>2, <2>3, Zenon DEF Job
<1>2. ASSUME NEW s, Relaying(s) \/ FakeReply(s) PROVE Waits(s)
  <2>1. Op("put_on_wait", None) \in Els(s)
    <3>1. \/ Is4(s, Op("set_fr_retr", "rpl"), Op("put_on_wait", None), Op("stop", "req"), Op("unref", None))
          \/ Is3(s, Op("put_on_wait", None), Op("stop", "req"), Op("unref", None))
          \/ Is3(s, Op("set_fr_retr", "rpl"), Op("set_fr_retr", "cnl"), Op("put_on_wait", None))
          \/ Is2(s, Op("set_fr_retr", "rpl"), Op("put_on_wait", None))
      BY <1>2, Two, Three, Four, Zenon DEF Relaying, FakeReply
    <3> QED
      BY <3>1, Zenon DEF Is2, Is3, Is4
  <2> QED
    BY <2>1, Steps, Zenon DEF Waits
<1>3. ASSUME NEW o, NEW b
      PROVE  /\ o = "put_on_wait" => Waits(<<Op(o, b)>>)
             /\ o \notin {"stop", "timer_del"} => ~StopsReq(<<Op(o, b)>>)
  <2> DEFINE s == <<Op(o, b)>>
  <2>1. Is1(s, Op(o, b))
    BY One, Zenon
  <2> HIDE DEF s
  <2>2. (o = "put_on_wait" => Waits(s)) /\ (o \notin {"stop", "timer_del"} => ~StopsReq(s))
    BY <2>1, SMT DEF Is1, Waits, StopsReq, Op
  <2> QED
    BY <2>2 DEF s
<1>4. ~StopsReq(<<Op("lock_unlock", None), Op("rearm", "rpl")>>)
  <2> DEFINE s == <<Op("lock_unlock", None), Op("rearm", "rpl")>>
  <2>1. Is2(s, Op("lock_unlock", None), Op("rearm", "rpl"))
    BY Two, Zenon
  <2> HIDE DEF s
  <2>2. ~StopsReq(s)
    BY <2>1, SMT DEF Is2, StopsReq, Op
  <2> QED
    BY <2>2 DEF s
<1>5. ~Waits(<<Op("relay", None), Op("unref", None)>>)
  <2> DEFINE s == <<Op("relay", None), Op("unref", None)>>
  <2>1. Is2(s, Op("relay", None), Op("unref", None))
    BY Two, Zenon
  <2> HIDE DEF s
  <2>2. ~Waits(s)
    BY <2>1, SMT DEF Is2, Waits, Op
  <2> QED
    BY <2>2 DEF s
<1>6. ~StopsReq(<< >>)
  BY EmptyParts, Zenon DEF StopsReq
<1> QED
  BY <1>1, <1>2, <1>3, <1>4, <1>5, <1>6, Zenon

LEMMA StepPends ==
  ASSUME TypeOK, ShapeInv, ShapeInv', LockInv, NEW p \in Procs, Step(p), ~put_on_wait(p), ~UnrefFree(p), ~free_cell(p),
         Unref(p) => ref_count # 1
  PROVE  PendEffect(p)
<1> DEFINE o == Head(todo[p]).op
<1>1. ~Idle(p) /\ todo[p] \in Seq(OpRec) /\ todo[p] # << >>
  BY StepOthers, Zenon DEF ShapeInv, Idle
<1>2. /\ Els(todo[p]) = {Head(todo[p])} \cup Later(todo[p])
      /\ Later(todo[p]) = {} => Els(todo[p]) = {Head(todo[p])}
  BY <1>1, SeqParts, Zenon
<1>3. ASSUME status' = status, o \notin PendOps, Pops(p) PROVE Keeps(p)
  BY <1>2, <1>3, Zenon DEF Pops, Popped, Keeps, Pends, Waits, StopsReq, PendOps
<1>4. ASSUME NEW c, NEW b, status' = status, o \notin PendOps, Swaps(p, Op(c, b)),
             c \in {"stop", "timer_del"} /\ b = "req" => o \in {"stop", "timer_del"} /\ Buf(p) = "req"
      PROVE  Keeps(p)
  <2>1. Els(todo'[p]) = {Op(c, b)} \cup Later(todo[p]) /\ Op(c, b).op = c /\ Op(c, b).rb = b
    BY <1>4, Steps, Zenon DEF Swaps, Swapped
  <2>2. (Pends(todo[p]) => Pends(todo'[p])) /\ (Waits(todo[p]) => Waits(todo'[p]))
    BY <1>2, <1>4, <2>1, Zenon DEF Pends, Waits, PendOps
  <2>3. StopsReq(todo'[p]) => StopsReq(todo[p])
    BY <1>2, <1>4, <2>1, Zenon DEF StopsReq, Buf
  <2> QED
    BY <1>4, <2>2, <2>3, Zenon DEF Keeps
<1>5. ASSUME Later(todo[p]) = {}, o \notin PendOps, status' = status, ~StopsReq(todo'[p]) PROVE Keeps(p)
  BY <1>2, <1>5, Zenon DEF Keeps, Pends, Waits, PendOps
<1>6. status \in {0, 200, 408} /\ (~Completes => status >= 200)
  BY SMT DEF TypeOK, Completes
<1>7. CASE \/ Lock(p) \/ LockUnlock(p) \/ Unlock(p) \/ timer_del(p) \/ Activate(p) \/ RelayProvisional(p)
           \/ TestDel(p) \/ Rearm(p) \/ UnlockHash(p)
  <2>1. Pops(p)
    BY <1>7, PopSteps, Zenon
  <2>2. status' = status
    BY <1>7, Zenon DEF Lock, LockUnlock, Unlock, timer_del, Activate, RelayProvisional, TestDel, Rearm, UnlockHash,
                       cell, reply
  <2>3. o \in {"lock", "lock_unlock", "unlock", "timer_del", "activate", "provisional", "retr_buf_handler", "rearm",
               "unlock_hash"}
    BY <1>7, Zenon DEF Lock, LockUnlock, Unlock, timer_del, Activate, RelayProvisional, TestDel, Rearm, UnlockHash, At
  <2>4. o \notin PendOps
    BY <2>3, Zenon DEF PendOps
  <2> QED
    BY <1>3, <2>1, <2>2, <2>4, Zenon DEF PendEffect
<1>8. CASE Stop(p) \/ TestAdd(p) \/ AddRetr(p) \/ cancel_branch(p)
  <2>1. status' = status
    BY <1>8, Zenon DEF Stop, TestAdd, AddRetr, cancel_branch, cell, reply
  <2>2. /\ o \in {"stop", "set_fr_retr", "timer_add", "cancel_branch"}
        /\ Stop(p) => o = "stop"
    BY <1>8, Zenon DEF Stop, TestAdd, AddRetr, cancel_branch, At
  <2>3. o \notin PendOps
    BY <2>2, Zenon DEF PendOps
  <2>4. \/ Pops(p) \/ (Stop(p) /\ Swaps(p, Op("timer_del", Buf(p))))
        \/ Swaps(p, Op("timer_add", Buf(p))) \/ Swaps(p, Op("activate", Buf(p))) \/ Swaps(p, Op("set_fr_retr", "cnl"))
    BY <1>8, StopStep, TestAddStep, AddRetrStep, CancelStep, Zenon
  <2> QED
    BY <1>3, <1>4, <2>1, <2>2, <2>3, <2>4, Zenon DEF PendEffect
<1>9. CASE RelayReply(p)
  <2>1. CASE Completes
    BY <1>9, <2>1, RelayStep, NewPends, Zenon DEF PendEffect, Sets
  <2>2. CASE ~Completes
    <3>1. todo[p] = <<Op("relay", None), Op("unref", None)>> /\ todo'[p] = <<Op("unref", None)>>
      BY <1>9, <2>2, RelayStep, Zenon DEF Sets
    <3>2. ~Waits(<<Op("relay", None), Op("unref", None)>>) /\ ~StopsReq(<<Op("unref", None)>>)
      BY NewPends, Zenon
    <3>3. status' = status
      BY <1>9, <2>2, Zenon DEF RelayReply, Stores
    <3> QED
      BY <1>6, <2>2, <3>1, <3>2, <3>3, ZenonT(40) DEF PendEffect, Relieved
  <2> QED
    BY <2>1, <2>2, Zenon
<1>10. CASE Unref(p)
  <2>1. Sets(p, << >>) /\ status' = status /\ o = "unref"
    BY <1>10, UnrefStep, Zenon DEF Unref, reply, At
  <2>2. Later(todo[p]) = {} /\ o \notin PendOps
    BY <1>1, <2>1, Who, Zenon DEF PendOps
  <2> QED
    BY <1>5, <2>1, <2>2, NewPends, Zenon DEF PendEffect, Sets
<1>11. CASE Retransmit(p) \/ FinalResponse(p)
  <2>1. status' = status /\ o = "retr_buf_handler"
    BY <1>11, Zenon DEF Retransmit, FinalResponse, cell, reply, At
  <2>2. Later(todo[p]) = {} /\ o \notin PendOps
    BY <1>1, <2>1, Who, Zenon DEF PendOps
  <2>3. \/ todo'[p] = << >> \/ todo'[p] = <<Op("lock_unlock", None), Op("rearm", "rpl")>>
        \/ todo'[p] = <<Op("put_on_wait", None)>> \/ todo'[p] = <<Op("timeout", None)>>
    BY <1>11, <2>2, RetransmitStep, FinalStep, Zenon DEF Pops, Popped, Sets, Bufs
  <2>4. ~StopsReq(<<Op("put_on_wait", None)>>) /\ ~StopsReq(<<Op("timeout", None)>>)
    BY NewPends, Zenon
  <2>5. ~StopsReq(todo'[p])
    BY <2>3, <2>4, NewPends, Zenon
  <2> QED
    BY <1>5, <2>1, <2>2, <2>5, Zenon DEF PendEffect
<1>12. CASE Timeout(p)
  <2>1. o = "timeout"
    BY <1>12, Zenon DEF Timeout, At
  <2>2. ~Waits(todo[p])
    BY <1>1, <1>2, <2>1, Who, Zenon DEF Waits
  <2>3. Waits(<<Op("put_on_wait", None)>>) /\ ~StopsReq(<<Op("set_fr_retr", "cnl")>>)
    BY NewPends, Zenon
  <2>4. CASE Sets(p, <<Op("put_on_wait", None)>>)
    BY <2>3, <2>4, Zenon DEF PendEffect, Sets
  <2>5. CASE \E s : FakeReply(s) /\ Sets(p, s)
    BY <2>5, NewPends, Zenon DEF PendEffect, Sets
  <2>6. CASE ~Completes /\ UNCHANGED status /\ (Sets(p, << >>) \/ Sets(p, <<Op("set_fr_retr", "cnl")>>))
    <3>1. ~StopsReq(<< >>)
      BY NewPends, Zenon
    <3>2. ~StopsReq(todo'[p])
      BY <2>3, <2>6, <3>1, Zenon DEF Sets
    <3> QED
      BY <1>6, <2>2, <2>6, <3>2, Zenon DEF PendEffect, Relieved
  <2> QED
    BY <1>12, <2>4, <2>5, <2>6, TimeoutStep, Zenon
<1> QED
  BY <1>7, <1>8, <1>9, <1>10, <1>11, <1>12, Zenon DEF Step

(* the transaction has not been put on wait, nor is it in this step *)
NotYet == mem = "live" /\ mem' = "live" /\ "wait" \notin added /\ "wait" \notin added'

LEMMA NextPends ==
  ASSUME TypeOK, ShapeInv, ShapeInv', LockInv, RunInv, WaitInv, RefsInv, NotYet, [Next]_vars
  PROVE  UNCHANGED vars \/ \E p \in Procs : Others(p) /\ PendEffect(p)
<1>1. "main" \in Procs /\ ~Handles(todo["main"], "wait") /\ st["wait"] = "off"
  <2>1. st["wait"] = "off"
    BY Zenon DEF WaitInv, NotYet
  <2> QED
    BY <2>1, Disjoint, Zenon DEF RunInv, NotYet, Timers, Runners
<1>2. ~EndsWith("main", "free")
  BY <1>1, Zenon DEF Handles, EndsWith, Idle, Last
<1>3. \A o : At("main", o) => o \notin {"wait_handler", "unref_free"}
  <2> SUFFICES ASSUME At("main", "wait_handler") \/ At("main", "unref_free") PROVE FALSE
    BY Zenon
  <2>1. ~Idle("main") /\ Head(todo["main"]).op \in {"wait_handler", "unref_free"} /\ todo["main"] # << >>
    BY Zenon DEF At, Idle
  <2>2. Later(todo["main"]) = {} /\ (Head(todo["main"]).op = "wait_handler" => Buf("main") = "wait")
    BY <1>1, <2>1, Who, Zenon
  <2>3. Last(todo["main"]) = Head(todo["main"])
    BY <1>1, <2>1, <2>2, SeqParts, Zenon DEF ShapeInv
  <2> QED
    BY <1>1, <2>1, <2>2, <2>3, Zenon DEF Handles, Buf
<1>4. ASSUME NEW p \in Procs, Step(p) PROVE Others(p) /\ PendEffect(p)
  <2>1. ~put_on_wait(p)
    BY Zenon DEF put_on_wait, timer_add, NotYet
  <2>2. ~free_cell(p)
    BY Zenon DEF free_cell, NotYet
  <2>3. ~UnrefFree(p)
    <3> SUFFICES ASSUME UnrefFree(p) PROVE FALSE
      OBVIOUS
    <3>1. At(p, "unref_free")
      BY Zenon DEF UnrefFree
    <3>2. p = "main"
      BY <3>1, Who, Zenon DEF At
    <3> QED
      BY <1>3, <3>1, <3>2, Zenon
  <2>4. ASSUME Unref(p) PROVE ref_count # 1
    <3>1. p \in Workers /\ ~Idle(p) /\ Head(todo[p]).op = "unref"
      BY <2>4, UnrefStep, Zenon DEF Unref, At
    <3>2. Last(todo[p]) = Head(todo[p])
      BY <3>1, Who, SeqParts, Zenon DEF ShapeInv, Idle
    <3>3. p \in Refs
      BY <3>1, <3>2, Zenon DEF Refs, EndsWith, Last
    <3>4. ref_count = Cardinality(Refs) + 1
      BY <1>2, Zenon DEF RefsInv, CountsReferences, NotYet, Refs
    <3>5. Cardinality(Refs) \in Nat /\ Cardinality(Refs) >= 1
      BY <3>3, RefsFinite, Zenon DEF RefsInv
    <3> QED
      BY <3>4, <3>5, SMT
  <2> QED
    BY <1>4, <2>1, <2>2, <2>3, <2>4, StepOthers, StepPends, Zenon
<1>5. ASSUME NEW p \in Procs, todo[p] = << >>, status' = status, StopsReq(todo'[p]) => Pends(todo'[p])
      PROVE  PendEffect(p)
  BY <1>5, EmptyParts, Zenon DEF PendEffect, Keeps, Pends, Waits
<1>6. ASSUME NEW w \in Workers, Lookup(w) PROVE w \in Procs /\ Others(w) /\ PendEffect(w)
  <2>1. w \in Procs /\ todo[w] = << >> /\ status' = status
    BY <1>6, Disjoint, Zenon DEF Lookup, Idle, reply
  <2>2. PICK s : Job(s) /\ Sets(w, s)
    BY <1>6, OtherSteps, Zenon
  <2> QED
    BY <1>5, <2>1, <2>2, NewPends, Zenon DEF Sets
<1>7. ASSUME NEW p \in Runners, NEW b \in Bufs, FireRetr(p, b) PROVE p \in Procs /\ Others(p) /\ PendEffect(p)
  <2>1. p \in Procs /\ todo[p] = << >> /\ status' = status
    BY <1>7, Disjoint, Zenon DEF FireRetr, Idle, cell, reply
  <2>2. Sets(p, <<Op("retr_buf_handler", b)>>)
    BY <1>7, OtherSteps, Zenon
  <2>3. ~StopsReq(<<Op("retr_buf_handler", b)>>)
    BY NewPends, Zenon
  <2>4. ~StopsReq(todo'[p]) /\ Others(p)
    BY <2>2, <2>3, Zenon DEF Sets
  <2> QED
    BY <1>5, <2>1, <2>4, Zenon
<1>8. ~FireWait /\ ~wait_handler
  BY <1>1, <1>3, Zenon DEF FireWait, wait_handler, Timer!Fire, Timer!Move
<1> QED
  BY <1>4, <1>6, <1>7, <1>8, Zenon DEF Next, Gone

(* ... and nobody is about to: the timer of the request goes on.             *)
Goes == /\ rb["req"].del = FALSE
        /\ st["req"] # "off" \/ \E p \in Procs : ~Idle(p) /\ AddsReq(Head(todo[p]))

LEMMA NextGoes ==
  ASSUME TypeOK, ShapeInv, ShapeInv', DelInv, ReqInv, NotYet, Goes,
         \A q \in Procs : ~StopsReq(todo[q]), \A q \in Procs : ~Pends(todo'[q]), [Next]_vars
  PROVE  Goes'
<1>1. /\ "req" \in Bufs /\ "req" \in Timers /\ st \in [Timers -> {"off", "armed"} \cup Runners]
      /\ rb \in [Bufs -> RbRec]
  BY Zenon DEF Timers, Bufs, TypeOK, Timer!TypeOK, RbRec
<1>2. ASSUME NEW p \in Procs, ~Idle(p), Head(todo[p]).op \in {"stop", "timer_del"} PROVE Buf(p) # "req"
  BY <1>2, SeqParts, Zenon DEF StopsReq, Buf, ShapeInv, Idle
<1>3. ASSUME NEW p \in Procs, Step(p) PROVE Goes'
  <2>1. Others(p) /\ ~Idle(p)
    BY <1>3, StepOthers, Zenon
  <2>2. rb'["req"].del = FALSE
    <3>1. rb["req"].del = FALSE
      BY Zenon DEF Goes
    <3>2. CASE Stop(p)
      <4>1. Buf(p) # "req" /\ \E r : rb' = [rb EXCEPT ![Buf(p)] = r]
        BY <1>2, <2>1, <3>2, Zenon DEF Stop, At
      <4> QED
        BY <1>1, <3>1, <4>1, Zenon
    <3>3. CASE Activate(p) \/ TestDel(p) \/ FinalResponse(p)
      <4>1. PICK v \in BOOLEAN : rb' = [rb EXCEPT ![Buf(p)].t_active = v]
        BY <3>3, Zenon DEF Activate, TestDel, FinalResponse
      <4>2. rb'["req"].del = rb["req"].del
        BY <1>1, <4>1, SMT DEF RbRec
      <4> QED
        BY <3>1, <4>2, Zenon
    <3>4. CASE ~Stop(p) /\ ~Activate(p) /\ ~TestDel(p) /\ ~FinalResponse(p)
      <4>1. rb' = rb
        BY <1>3, <3>4, Zenon DEF Step, Lock, LockUnlock, Unlock, timer_del, TestAdd, AddRetr, put_on_wait, RelayReply,
                 RelayProvisional, cancel_branch, Unref, free_cell, Retransmit, Rearm, Timeout, UnlockHash, UnrefFree
      <4> QED
        BY <3>1, <4>1, Zenon
    <3> QED
      BY <3>2, <3>3, <3>4, Zenon
  <2>3. ASSUME st["req"] # "off" PROVE st'["req"] # "off"
    <3>1. ASSUME NEW x, NEW from, NEW to, Timer!Move(x, from, to), x # "req" \/ to # "off" PROVE st'["req"] # "off"
      BY <1>1, <2>3, <3>1, Zenon DEF Timer!Move
    <3>2. CASE timer_del(p)
      <4>1. deleting[p] # "req"
        BY <1>2, <2>1, <3>2, Zenon DEF DelInv, Does, timer_del, At
      <4> QED
        BY <2>3, <3>1, <3>2, <4>1, Zenon DEF timer_del, Timer!Deleted, Timer!WasOff
    <3>3. CASE TestDel(p) \/ FinalResponse(p)
      <4>1. Timer!Move(Buf(p), p, "off")
        BY <3>3, Zenon DEF TestDel, FinalResponse, Timer!Done
      <4>2. Buf(p) # "req"
        <5>1. CASE TestDel(p)
          BY <5>1, Zenon DEF TestDel, Goes
        <5>2. CASE FinalResponse(p)
          <6>1. ASSUME Buf(p) = "req" PROVE FALSE
            <7>1. todo'[p] = <<Op("timeout", None)>>
              BY <5>2, <6>1, FinalStep, Zenon DEF Sets
            <7>2. Is1(todo'[p], Op("timeout", None))
              BY <7>1, One, Zenon
            <7>3. Op("timeout", None) \in Els(todo'[p]) /\ Op("timeout", None).op = "timeout"
              BY <7>2, Steps, Zenon DEF Is1
            <7> QED
              BY <7>3, Zenon DEF Pends, PendOps
          <6> QED
            BY <6>1
        <5> QED
          BY <3>3, <5>1, <5>2, Zenon
      <4> QED
        BY <3>1, <4>1, <4>2, Zenon
    <3>4. CASE Retransmit(p) \/ Rearm(p) \/ AddRetr(p) \/ put_on_wait(p)
      <4>1. st' = st \/ \E x, from : Timer!Move(x, from, "armed")
        BY <3>4, Zenon DEF Retransmit, Rearm, AddRetr, put_on_wait, timer_add, Timer!Rearm, Timer!Add, timers
      <4>2. "armed" # "off"
        OBVIOUS
      <4> QED
        BY <2>3, <3>1, <4>1, <4>2, Zenon
    <3>5. CASE \/ Lock(p) \/ LockUnlock(p) \/ Unlock(p) \/ Stop(p) \/ TestAdd(p) \/ Activate(p) \/ RelayReply(p)
               \/ RelayProvisional(p) \/ cancel_branch(p) \/ Unref(p) \/ Timeout(p) \/ UnlockHash(p) \/ UnrefFree(p)
      <4>1. st' = st
        BY <3>5, Zenon DEF Lock, LockUnlock, Unlock, Stop, TestAdd, Activate, RelayReply, RelayProvisional,
                 cancel_branch, Unref, Timeout, UnlockHash, UnrefFree, timers, Timer!Del
      <4> QED
        BY <2>3, <4>1, Zenon
    <3>6. ~free_cell(p)
      BY Zenon DEF free_cell, NotYet
    <3> QED
      BY <1>3, <3>2, <3>3, <3>4, <3>5, <3>6, Zenon DEF Step
  <2>4. ASSUME NEW q \in Procs, ~Idle(q), AddsReq(Head(todo[q]))
        PROVE  st'["req"] # "off" \/ (~Idle(q) /\ AddsReq(Head(todo[q])))'
    <3>1. CASE q # p
      BY <2>1, <2>4, <3>1, Zenon DEF Others, Idle
    <3>2. CASE q = p
      <4>1. Buf(p) = "req" /\ Head(todo[p]).op \in {"set_fr_retr", "timer_add"}
        BY <2>4, <3>2, Zenon DEF AddsReq, Buf
      <4>2. TestAdd(p) \/ AddRetr(p)
        BY <1>3, <4>1, ZenonT(40) DEF Step, Lock, LockUnlock, Unlock, Stop, timer_del, Activate, put_on_wait, RelayReply,
                 RelayProvisional, cancel_branch, Unref, free_cell, TestDel, Retransmit, Rearm, FinalResponse,
                 Timeout, UnlockHash, UnrefFree, At
      <4>3. CASE TestAdd(p)
        <5>1. Swaps(p, Op("timer_add", "req"))
          BY <4>1, <4>3, TestAddStep, Zenon DEF Goes
        <5>2. todo'[p] # << >> /\ Head(todo'[p]) = Op("timer_add", "req")
          BY <5>1, Zenon DEF Swaps, Swapped
        <5>3. AddsReq(Op("timer_add", "req"))
          BY Steps, Zenon DEF AddsReq
        <5> QED
          BY <3>2, <5>2, <5>3, Zenon DEF Idle, AddsReq
      <4>4. CASE AddRetr(p)
        <5>1. "req" \notin added
          <6>1. Head(todo[p]) \in Els(todo[p])
            BY <2>1, SeqParts, Zenon DEF ShapeInv, Idle
          <6> QED
            BY <2>4, <3>2, <6>1, Zenon DEF ReqInv
        <5>2. st' = [st EXCEPT !["req"] = "armed"]
          BY <4>1, <4>4, <5>1, Zenon DEF AddRetr, timer_add, Timer!Add, Timer!Move
        <5>3. st'["req"] = "armed"
          BY <1>1, <5>2, Zenon
        <5> QED
          BY <5>3
      <4> QED
        BY <4>2, <4>3, <4>4, Zenon
    <3> QED
      BY <3>1, <3>2, Zenon
  <2> QED
    BY <2>2, <2>3, <2>4, Zenon DEF Goes
<1>4. ASSUME NEW p \in Procs, Others(p), Idle(p), rb' = rb, st' = st \/ \E x, from : \E r \in Runners : Timer!Move(x, from, r)
      PROVE  Goes'
  <2>1. st["req"] # "off" => st'["req"] # "off"
    BY <1>1, <1>4, Zenon DEF Timer!Move, Runners
  <2>2. \A q \in Procs : ~Idle(q) => todo'[q] = todo[q]
    BY <1>4, Zenon DEF Others, Idle
  <2>3. (\E q \in Procs : ~Idle(q) /\ AddsReq(Head(todo[q]))) => (\E q \in Procs : ~Idle(q) /\ AddsReq(Head(todo[q])))'
    BY <2>2, Zenon DEF Idle, AddsReq
  <2> QED
    BY <1>4, <2>1, <2>3, Zenon DEF Goes
<1>5. ASSUME NEW w \in Workers, Lookup(w) PROVE Goes'
  <2>1. w \in Procs /\ Others(w) /\ Idle(w) /\ rb' = rb /\ st' = st
    BY <1>5, OtherSteps, Disjoint, Zenon DEF Lookup, Sets, timers
  <2> QED
    BY <1>4, <2>1, Zenon
<1>6. ASSUME NEW p \in Runners, NEW b \in Bufs, FireRetr(p, b) PROVE Goes'
  <2>1. p \in Procs /\ Others(p) /\ Idle(p) /\ rb' = rb /\ Timer!Move(b, "armed", p)
    BY <1>6, OtherSteps, Disjoint, Zenon DEF FireRetr, Sets, Timer!Fire
  <2> QED
    BY <1>4, <2>1, Zenon
<1>7. ASSUME FireWait PROVE Goes'
  <2>1. "main" \in Procs /\ "main" \in Runners /\ Others("main") /\ Idle("main") /\ rb' = rb
        /\ Timer!Move("wait", "armed", "main")
    BY <1>7, OtherSteps, Disjoint, Zenon DEF FireWait, Sets, Timer!Fire
  <2> QED
    BY <1>4, <2>1, Zenon
<1>8. ASSUME wait_handler PROVE Goes'
  <2>1. Others("main") /\ rb' = rb /\ st' = st /\ Head(todo["main"]).op = "wait_handler"
    BY <1>8, WaitStep, Zenon DEF wait_handler, Sets, timers, At
  <2>2. ASSUME NEW q \in Procs, ~Idle(q), AddsReq(Head(todo[q])) PROVE (~Idle(q) /\ AddsReq(Head(todo[q])))'
    <3>1. q # "main"
      BY <2>1, <2>2, Zenon DEF AddsReq
    <3> QED
      BY <2>1, <2>2, <3>1, Zenon DEF Others, Idle
  <2> QED
    BY <2>1, <2>2, Zenon DEF Goes
<1>9. ASSUME UNCHANGED vars PROVE Goes'
  <2>1. rb' = rb /\ st' = st /\ todo' = todo
    BY <1>9, Zenon DEF vars, timers
  <2> QED
    BY <2>1, Zenon DEF Goes, Idle
<1> QED
  BY <1>3, <1>5, <1>6, <1>7, <1>8, <1>9, Zenon DEF Next, Gone

=============================================================================
