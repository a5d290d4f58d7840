------------------------------- MODULE TmCell -------------------------------
(***************************************************************************)
(* The life of one transaction of tm (the cell of an INVITE): workers find  *)
(* it in the hash table and take references, its retransmission buffers     *)
(* have timers that hold no reference, and the wait timer frees it.          *)
(* (modules/tm: h_table.c, t_lookup.c, t_funcs.c, t_funcs.h, timer.c,       *)
(* timer.h, t_reply.c.)  The timers are those of TimerApi, which CoreTimer   *)
(* implements.                                                             *)
(*                                                                         *)
(* A handler is the sequence of the steps it has still to do, todo[p].  A    *)
(* step touches one field that other processes use, or takes or gives back   *)
(* one lock.  Which reply is relayed and what is sent is TmReply's matter.   *)
(***************************************************************************)
EXTENDS Integers, Sequences, FiniteSets

CONSTANTS Workers,
          Creator,       \* the worker that has just created the transaction
          MaxLookups,    \* bound: how often the transaction is looked up
          HandlersApart, \* a final response handler never meets wait_handler
          None

ASSUME CellAssumption == Creator \in Workers /\ MaxLookups \in Nat /\ HandlersApart \in BOOLEAN
ASSUME NamesAssumption == /\ IsFiniteSet(Workers) /\ Workers \cap {"main", "slow", "off", "armed"} = {}
                          /\ None \notin Workers \cup {"main", "slow", "req", "rpl", "cnl", "wait"}

(* uac[0].request, uas.response and uac[0].local_cancel, and the wait timer *)
Bufs == {"req", "rpl", "cnl"}
Timers == Bufs \cup {"wait"}
Runners == {"main", "slow"}
Procs == Workers \cup Runners

VARIABLES mem,           \* "live" or "freed"
          hash,          \* linked in the hash table
          hash_lock, reply_lock,
          ref_count,
          unlinked,      \* of wait_handler: to be freed although referenced
          status,        \* uas.status
          last_received, \* of uac[0]
          cancelled,     \* uac[0].local_cancel.buffer is taken
          rb,            \* of the buffers: F_RB_DEL_TIMER and t_active
          added,         \* the timers marked F_TIMER_ACTIVE
          st, deleting,  \* the timers, as in TimerApi
          todo,
          lookups

reply == <<status, last_received, cancelled>>
cell == <<mem, hash, hash_lock, reply_lock, ref_count, unlinked, reply>>
timers == <<st, deleting>>
vars == <<cell, rb, added, timers, todo, lookups>>

Timer == INSTANCE TimerApi WITH Timers <- Timers, Procs <- Procs, Runners <- Runners,
                                None <- None, st <- st, deleting <- deleting

Op(o, b) == [op |-> o, rb |-> b]
Do(o) == <<Op(o, None)>>

-----------------------------------------------------------------------------
(* What the functions have to do.                                           *)

stop_rb_timers(b) == <<Op("stop", b)>>
set_fr_retr(b) == <<Op("set_fr_retr", b)>>
cleanup_uac_timers == stop_rb_timers("req")
cleanup_localcancel_timers == stop_rb_timers("cnl")
(* a mutant: the timers of the branches are forgotten *)
unlink_timers_NoUac == stop_rb_timers("rpl") \o cleanup_localcancel_timers
unlink_timers == stop_rb_timers("rpl") \o stop_rb_timers("req") \o cleanup_localcancel_timers
t_release_transaction == stop_rb_timers("rpl") \o cleanup_uac_timers \o Do("put_on_wait")
t_retransmit_reply == Do("lock_unlock")

(* a negative reply is retransmitted *)
start_final_repl_retr(code) == IF code >= 300 THEN set_fr_retr("rpl") ELSE << >>

(* reply_received: of a final reply, a provisional one, one to our CANCEL *)
reply_received(kind) ==
  CASE kind = "final"       -> Do("lock") \o stop_rb_timers("req") \o Do("relay") \o Do("unref")
    [] kind = "provisional" -> Do("provisional") \o Do("unref")
    [] kind = "cancel"      -> Do("lock") \o stop_rb_timers("cnl") \o Do("unlock") \o Do("unref")

(* What a worker that has found the transaction does with it: an ACK is matched  *)
(* only once a negative reply was sent, a reply to the CANCEL only if there is   *)
(* one.                                                                      *)
Jobs == {reply_received(k) : k \in {"final", "provisional"} \cup (IF cancelled THEN {"cancel"} ELSE {})}
        \cup (IF status >= 300 THEN {t_release_transaction \o Do("unref")} ELSE {})
        \cup {t_retransmit_reply \o Do("unref"),             \* the request again
              Do("cancel_branch") \o Do("unref")}            \* CANCEL

(* The creator has sent the request and starts its timer; a provisional reply     *)
(* may have been faster.                                                       *)
Init == /\ mem = "live" /\ hash = TRUE /\ hash_lock = None /\ reply_lock = None
        /\ ref_count = 2 /\ unlinked = FALSE
        /\ status = 0 /\ last_received \in {0, 180} /\ cancelled = FALSE
        /\ rb = [b \in Bufs |-> [del |-> FALSE, t_active |-> FALSE]]
        /\ added = {}
        /\ Timer!Init
        /\ todo = [p \in Procs |-> IF p = Creator THEN set_fr_retr("req") \o Do("unref") ELSE << >>]
        /\ lookups = 0

Idle(p) == todo[p] = << >>
At(p, o) == mem = "live" /\ ~Idle(p) /\ Head(todo[p]).op = o
Buf(p) == Head(todo[p]).rb
Then(p, s) == todo' = [todo EXCEPT ![p] = s \o Tail(@)]

-----------------------------------------------------------------------------
(* The steps.                                                               *)

Lock(p) == /\ At(p, "lock") /\ reply_lock = None
           /\ reply_lock' = p /\ Then(p, << >>)
           /\ UNCHANGED <<mem, hash, hash_lock, ref_count, unlinked, reply, rb, added,
                          timers, lookups>>

(* a critical section that changes nothing else *)
LockUnlock(p) == /\ At(p, "lock_unlock") /\ reply_lock = None
                 /\ Then(p, << >>)
                 /\ UNCHANGED <<cell, rb, added, timers, lookups>>

Unlock(p) == /\ At(p, "unlock")
             /\ reply_lock' = None /\ Then(p, << >>)
             /\ UNCHANGED <<mem, hash, hash_lock, ref_count, unlinked, reply, rb, added,
                            timers, lookups>>

(* stop_rb_timers: F_RB_DEL_TIMER is set, but not atomically: _set_fr_retr sets       *)
(* F_RB_RETR_DISABLED in the same flags just before it tests them, and when it      *)
(* has read them but not yet written them back F_RB_DEL_TIMER is lost.  Then        *)
(* timer_del is called if the timer is active, and was ever added.  (What others     *)
(* do between the two could as well be done before, or after.)                      *)
Stop(p) ==
  LET b == Buf(p)
      Lost == \E q \in Procs \ {p} : At(q, "set_fr_retr") /\ Buf(q) = b
  IN  /\ At(p, "stop")
      /\ \E del \in {TRUE} \cup (IF Lost THEN {rb[b].del} ELSE {}) :
           rb' = [rb EXCEPT ![b] = [del |-> del, t_active |-> FALSE]]
      /\ IF rb[b].t_active /\ b \in added
           THEN Timer!Del(p, b) /\ Then(p, <<Op("timer_del", b)>>)
           ELSE UNCHANGED timers /\ Then(p, << >>)
      /\ UNCHANGED <<cell, added, lookups>>

timer_del(p) == /\ At(p, "timer_del")
                /\ Timer!Deleted(p) \/ Timer!WasOff(p)
                /\ Then(p, << >>)
                /\ UNCHANGED <<cell, rb, added, lookups>>

(* _set_fr_retr up to the test of F_RB_DEL_TIMER *)
TestAdd(p) ==
  /\ At(p, "set_fr_retr")
  /\ Then(p, IF rb[Buf(p)].del THEN << >> ELSE <<Op("timer_add", Buf(p))>>)
  /\ UNCHANGED <<cell, rb, added, timers, lookups>>

(* timer_add fails when the timer was added before *)
timer_add(x) == IF x \in added THEN UNCHANGED <<added, timers>>
                ELSE added' = added \cup {x} /\ Timer!Add(x)

(* a mutant: the result of timer_add is taken the wrong way round *)
AddRetr_Inverted(p) ==
  /\ At(p, "timer_add")
  /\ timer_add(Buf(p))
  /\ Then(p, IF Buf(p) \in added THEN <<Op("activate", Buf(p))>> ELSE << >>)
  /\ UNCHANGED <<cell, rb, lookups>>

AddRetr(p) ==
  /\ At(p, "timer_add")
  /\ timer_add(Buf(p))
  /\ Then(p, IF Buf(p) \in added THEN << >> ELSE <<Op("activate", Buf(p))>>)
  /\ UNCHANGED <<cell, rb, lookups>>

Activate(p) == /\ At(p, "activate")
               /\ rb' = [rb EXCEPT ![Buf(p)].t_active = TRUE] /\ Then(p, << >>)
               /\ UNCHANGED <<cell, added, timers, lookups>>

put_on_wait(p) == /\ At(p, "put_on_wait")
                  /\ timer_add("wait") /\ Then(p, << >>)
                  /\ UNCHANGED <<cell, rb, lookups>>

(* t_should_relay_response of a final reply; after a final one only a 2xx counts *)
Completes == status < 200
Stores(code) == /\ status' = IF Completes THEN code ELSE status
                /\ last_received' = IF Completes \/ code < 300 THEN code ELSE last_received

(* reply_received's call of relay_reply, and what it does when that completes     *)
(* the transaction                                                             *)
RelayReply(p) ==
  /\ At(p, "relay")
  /\ reply_lock' = None
  /\ \E code \in {200, 408} :
       /\ Stores(code)
       /\ Then(p, IF Completes THEN start_final_repl_retr(code) \o Do("put_on_wait") \o cleanup_uac_timers
                  ELSE << >>)
  /\ UNCHANGED <<mem, hash, hash_lock, ref_count, unlinked, cancelled, rb, added, timers, lookups>>

RelayProvisional(p) ==
  /\ At(p, "provisional") /\ reply_lock = None
  /\ last_received' = IF Completes THEN 180 ELSE last_received
  /\ Then(p, << >>)
  /\ UNCHANGED <<mem, hash, hash_lock, reply_lock, ref_count, unlinked, status, cancelled, rb,
                 added, timers, lookups>>

(* the buffer of the CANCEL is taken if there was a provisional reply and nobody  *)
(* else cancels                                                                *)
prepare_cancel_branch == last_received \in 100..199 /\ ~cancelled

cancel_branch(p) ==
  /\ At(p, "cancel_branch")
  /\ cancelled' = (cancelled \/ prepare_cancel_branch)
  /\ Then(p, IF prepare_cancel_branch THEN set_fr_retr("cnl") ELSE << >>)
  /\ UNCHANGED <<mem, hash, hash_lock, reply_lock, ref_count, unlinked, status, last_received, rb,
                 added, timers, lookups>>

(* UNREF *)
Unref(p) == /\ At(p, "unref")
            /\ ref_count' = ref_count - 1
            /\ Then(p, IF ref_count = 1 THEN unlink_timers \o Do("free") ELSE << >>)
            /\ UNCHANGED <<mem, hash, hash_lock, reply_lock, unlinked, reply, rb, added,
                           timers, lookups>>

(* free_cell; wait_handler then returns 0 *)
free_cell(p) == /\ At(p, "free")
                /\ mem' = "freed" /\ Then(p, << >>)
                /\ IF p = "main" THEN Timer!Done(p, "wait") ELSE UNCHANGED timers
                /\ UNCHANGED <<hash, hash_lock, reply_lock, ref_count, unlinked, reply, rb,
                               added, lookups>>

(* mutants: no reference is taken, or two *)
Lookup_NoRef(p) ==
  /\ mem = "live" /\ hash /\ hash_lock = None /\ Idle(p) /\ lookups < MaxLookups
  /\ ref_count' = ref_count
  /\ lookups' = lookups + 1
  /\ \E job \in Jobs : todo' = [todo EXCEPT ![p] = job]
  /\ UNCHANGED <<mem, hash, hash_lock, reply_lock, unlinked, reply, rb, added, timers>>

Lookup_TwoRefs(p) ==
  /\ mem = "live" /\ hash /\ hash_lock = None /\ Idle(p) /\ lookups < MaxLookups
  /\ ref_count' = ref_count + 2
  /\ lookups' = lookups + 1
  /\ \E job \in Jobs : todo' = [todo EXCEPT ![p] = job]
  /\ UNCHANGED <<mem, hash, hash_lock, reply_lock, unlinked, reply, rb, added, timers>>

(* A lookup for a reply, an ACK, a CANCEL or a retransmitted request; who     *)
(* does not find the transaction leaves it alone.                            *)
Lookup(p) ==
  /\ mem = "live" /\ hash /\ hash_lock = None /\ Idle(p) /\ lookups < MaxLookups
  /\ ref_count' = ref_count + 1
  /\ lookups' = lookups + 1
  /\ \E job \in Jobs : todo' = [todo EXCEPT ![p] = job]
  /\ UNCHANGED <<mem, hash, hash_lock, reply_lock, unlinked, reply, rb, added, timers>>

-----------------------------------------------------------------------------
(* retr_buf_handler, in the main or, once F_TIMER_FAST is cleared, in the     *)
(* slow timer process.                                                      *)
FireRetr(p, b) ==
  /\ mem = "live" /\ Idle(p)
  /\ Timer!Fire(p, b)
  /\ todo' = [todo EXCEPT ![p] = <<Op("retr_buf_handler", b)>>]
  /\ UNCHANGED <<cell, rb, added, lookups>>

(* F_RB_DEL_TIMER is set: 0 is returned *)
TestDel(p) == /\ At(p, "retr_buf_handler") /\ rb[Buf(p)].del
              /\ rb' = [rb EXCEPT ![Buf(p)].t_active = FALSE]
              /\ Timer!Done(p, Buf(p)) /\ Then(p, << >>)
              /\ UNCHANGED <<cell, added, lookups>>

(* retransmission_handler, sending with success: for the request and the CANCEL  *)
(* that touches nothing that is shared                                        *)
Retransmit(p) ==
  /\ At(p, "retr_buf_handler") /\ ~rb[Buf(p)].del
  /\ IF Buf(p) = "rpl"
       THEN Then(p, t_retransmit_reply \o <<Op("rearm", "rpl")>>) /\ UNCHANGED timers
       ELSE Then(p, << >>) /\ Timer!Rearm(p, Buf(p))
  /\ UNCHANGED <<cell, rb, added, lookups>>

Rearm(p) == /\ At(p, "rearm")
            /\ Timer!Rearm(p, Buf(p)) /\ Then(p, << >>)
            /\ UNCHANGED <<cell, rb, added, lookups>>

(* fr_expire is reached: timer_allow_del, then final_response_handler.  Nobody    *)
(* waits for it any more, and it holds no reference.  That wait_handler is not   *)
(* executed at the same time is a matter of the times at which their timers      *)
(* expire (seconds apart).                                                     *)
FinalHandler(p) == ~Idle(p) /\ \A x \in Timers : st[x] # p

(* a mutant: without timer_allow_del *)
FinalResponse_NoAllowDel(p) ==
  /\ At(p, "retr_buf_handler") /\ ~rb[Buf(p)].del
  /\ HandlersApart => st["wait"] # "main"
  /\ rb' = [rb EXCEPT ![Buf(p)].t_active = FALSE]
  /\ Then(p, CASE Buf(p) = "cnl" -> << >>
               [] Buf(p) = "rpl" -> Do("put_on_wait")
               [] Buf(p) = "req" -> Do("timeout"))
  /\ UNCHANGED <<cell, added, timers, lookups>>

FinalResponse(p) ==
  /\ At(p, "retr_buf_handler") /\ ~rb[Buf(p)].del
  /\ HandlersApart => st["wait"] # "main"
  /\ rb' = [rb EXCEPT ![Buf(p)].t_active = FALSE]
  /\ Timer!Done(p, Buf(p))
  /\ Then(p, CASE Buf(p) = "cnl" -> << >>
               [] Buf(p) = "rpl" -> Do("put_on_wait")
               [] Buf(p) = "req" -> Do("timeout"))
  /\ UNCHANGED <<cell, added, lookups>>

(* a mutant: a transaction that is dropped silently is not put on wait *)
Timeout_NoWait(p) ==
  /\ At(p, "timeout") /\ reply_lock = None
  /\ \/ /\ last_received = 0 /\ UNCHANGED reply
        /\ Then(p, << >>)
     \/ /\ Stores(408) /\ cancelled' = (cancelled \/ prepare_cancel_branch)
        /\ Then(p, (IF Completes THEN start_final_repl_retr(408) ELSE << >>)
                   \o (IF prepare_cancel_branch THEN set_fr_retr("cnl") ELSE << >>)
                   \o (IF Completes THEN Do("put_on_wait") ELSE << >>))
  /\ UNCHANGED <<mem, hash, hash_lock, reply_lock, ref_count, unlinked, rb, added, timers, lookups>>

(* final_response_handler in the REPLY lock: the transaction is dropped        *)
(* silently, or fake_reply relays a 408, cancels the branch and puts the        *)
(* transaction on wait itself                                                 *)
Timeout(p) ==
  /\ At(p, "timeout") /\ reply_lock = None
  /\ \/ /\ last_received = 0 /\ UNCHANGED reply
        /\ Then(p, Do("put_on_wait"))
     \/ /\ Stores(408) /\ cancelled' = (cancelled \/ prepare_cancel_branch)
        /\ Then(p, (IF Completes THEN start_final_repl_retr(408) ELSE << >>)
                   \o (IF prepare_cancel_branch THEN set_fr_retr("cnl") ELSE << >>)
                   \o (IF Completes THEN Do("put_on_wait") ELSE << >>))
  /\ UNCHANGED <<mem, hash, hash_lock, reply_lock, ref_count, unlinked, rb, added, timers, lookups>>

-----------------------------------------------------------------------------
(* wait_handler, in the main timer process.                                  *)

FireWait ==
  /\ mem = "live" /\ Idle("main")
  /\ HandlersApart => ~FinalHandler("slow")
  /\ Timer!Fire("main", "wait")
  /\ todo' = [todo EXCEPT !["main"] = cleanup_localcancel_timers \o <<Op("wait_handler", "wait")>>]
  /\ UNCHANGED <<cell, rb, added, lookups>>

(* in the hash lock, which is kept only while the timers are unlinked; once     *)
(* wait_start is TM_LIFETIME_LIMIT seconds ago the transaction is unlinked, and *)
(* freed after another turn                                                   *)
wait_handler ==
  LET again == <<Op("rearm", "wait")>>
  IN  /\ At("main", "wait_handler") /\ hash_lock = None
      /\ \/ /\ ref_count > 1 /\ hash
            /\ Then("main", again) /\ UNCHANGED <<hash, hash_lock, unlinked>>
         \/ /\ ref_count > 1 /\ hash
            /\ hash' = FALSE /\ hash_lock' = "main" /\ UNCHANGED unlinked
            /\ Then("main", unlink_timers \o Do("unlock_hash") \o again)
         \/ /\ ref_count > 1 /\ ~hash
            /\ unlinked' = TRUE /\ UNCHANGED <<hash, hash_lock>>
            /\ Then("main", Do("unref_free"))
         \/ /\ ref_count <= 1
            /\ hash' = FALSE /\ UNCHANGED <<hash_lock, unlinked>>
            /\ Then("main", Do("unref_free"))
      /\ UNCHANGED <<mem, reply_lock, ref_count, reply, rb, added, timers, lookups>>

UnlockHash(p) == /\ At(p, "unlock_hash")
                 /\ hash_lock' = None /\ Then(p, << >>)
                 /\ UNCHANGED <<mem, hash, reply_lock, ref_count, unlinked, reply, rb, added,
                                timers, lookups>>

(* UNREF_FREE.  References are taken in the hash lock: unless unlinked is set this  *)
(* is the last one, and t_stats_delayed_free is never called.                    *)
UnrefFree(p) ==
  /\ At(p, "unref_free")
  /\ ref_count' = ref_count - 1
  /\ Then(p, CASE ref_count = 1 -> unlink_timers \o Do("free")
               [] ref_count > 1 /\ unlinked ->
                    (IF \E b \in Bufs : st[b] = "armed" THEN unlink_timers ELSE << >>) \o Do("free"))
  /\ UNCHANGED <<mem, hash, hash_lock, reply_lock, unlinked, reply, rb, added, timers, lookups>>

-----------------------------------------------------------------------------
Step(p) == \/ Lock(p) \/ LockUnlock(p) \/ Unlock(p) \/ Stop(p) \/ timer_del(p)
           \/ TestAdd(p) \/ AddRetr(p) \/ Activate(p) \/ put_on_wait(p) \/ RelayReply(p)
           \/ RelayProvisional(p) \/ cancel_branch(p)
           \/ Unref(p) \/ free_cell(p) \/ TestDel(p) \/ Retransmit(p) \/ Rearm(p)
           \/ FinalResponse(p) \/ Timeout(p) \/ UnlockHash(p) \/ UnrefFree(p)

(* the memory is given back: nothing more happens to this transaction *)
Gone == mem = "freed" /\ UNCHANGED vars

Next == \/ \E p \in Procs : Step(p)
        \/ \E w \in Workers : Lookup(w)
        \/ \E p \in Runners, b \in Bufs : FireRetr(p, b)
        \/ FireWait \/ wait_handler \/ Gone

Spec == Init /\ [][Next]_vars

-----------------------------------------------------------------------------
Ops == {"lock", "lock_unlock", "unlock", "stop", "timer_del", "set_fr_retr", "timer_add", "activate",
        "put_on_wait", "relay", "provisional", "cancel_branch", "unref", "free", "retr_buf_handler", "rearm",
        "timeout", "wait_handler", "unlock_hash", "unref_free"}

TypeOK == /\ mem \in {"live", "freed"} /\ {hash, unlinked, cancelled} \subseteq BOOLEAN
          /\ status \in {0, 200, 408} /\ last_received \in {0, 180, 200, 408}
          /\ {hash_lock, reply_lock} \subseteq Procs \cup {None}
          /\ ref_count \in 0..(Cardinality(Workers) + 1)
          /\ rb \in [Bufs -> [del : BOOLEAN, t_active : BOOLEAN]]
          /\ added \subseteq Timers
          /\ Timer!TypeOK
          /\ todo \in [Procs -> Seq([op : Ops, rb : Timers \cup {None}])]
          /\ lookups \in 0..MaxLookups

(* When the cell is freed no timer in it is armed, none of its handlers runs     *)
(* and no worker uses it, unless wait_handler has given up on its references.   *)
FreedIsUnused ==
  mem = "freed" /\ ~unlinked => /\ \A x \in Timers : st[x] = "off"
                                /\ \A p \in Procs : Idle(p)

EndsWith(p, o) == ~Idle(p) /\ todo[p][Len(todo[p])].op = o

(* ref_count is the number of workers that have still to give their reference   *)
(* back, plus one for the table until wait_handler has given that up.           *)
CountsReferences ==
  mem = "live" => ref_count = Cardinality({w \in Workers : EndsWith(w, "unref")})
                              + (IF EndsWith("main", "free") THEN 0 ELSE 1)

WaitsForLock(q) == At(q, "lock") \/ At(q, "lock_unlock") \/ At(q, "provisional") \/ At(q, "timeout")

(* timer_del is called with the REPLY lock held; it never waits for a handler   *)
(* that in turn waits for the REPLY lock.                                      *)
NoDelDeadlock ==
  \A p, q \in Procs : reply_lock = p /\ p # q /\ At(p, "timer_del") /\ WaitsForLock(q)
                         => st[Buf(p)] # q

(* A timer that a stop_rb_timers would miss, since t_active is not set, although   *)
(* it is armed or its handler runs, is just being added or deleted.                *)
ArmedIsKnown ==
  \A b \in Bufs : mem = "live" /\ st[b] # "off" /\ ~rb[b].t_active =>
     \E p \in Procs : deleting[p] = b \/ (At(p, "activate") /\ Buf(p) = b)

(* A transaction that nobody is busy with is not forgotten: the wait timer is    *)
(* armed, which frees it, or that of the request, which puts it on wait.         *)
NeverForgotten ==
  mem = "live" /\ (\A p \in Procs : Idle(p)) =>
     st["wait"] = "armed" \/ (st["req"] = "armed" /\ ~rb["req"].del)
=============================================================================
