------------------------------ MODULE TmReply ------------------------------
(***************************************************************************)
(* Reply processing of one server transaction of the tm module: forking,   *)
(* the choice of the reply sent upstream, cancelling of branches, the final *)
(* response timers and the way to the wait state (modules/tm/t_reply.c,     *)
(* t_cancel.c/h, t_fwd.c, timer.c).                                         *)
(*                                                                          *)
(* Kamailio's workers are processes that share the transaction cell.  Each  *)
(* process p of the model runs a program pr[p].prog, the sequence of steps  *)
(* that the handler it is in has still to do.  A step is what the code does *)
(* under one acquisition of the REPLY lock, or one lock-free access to the  *)
(* shared state: lock-free steps of other processes fall between any two    *)
(* steps.  Branch 0 of the code is branch 1 here.                           *)
(***************************************************************************)
EXTENDS Integers, Sequences, FiniteSets

CONSTANTS
  Request,        \* the process that runs the request script
  Workers,        \* processes that receive replies
  Timers,         \* timer processes
  Cancelers,      \* processes that receive the CANCEL of the caller
  NoProc,         \* nobody holds the REPLY lock
  MaxBranches,    \* sr_dst_max_branches
  NInitial,       \* most destinations of the first t_relay()
  LocalCodes,     \* final codes the script may send itself with t_reply()
  ReplyCodes,     \* status codes the destinations answer with
  MaxReplies,     \* bound on the replies received
  Method,         \* "INVITE", "REGISTER" or "OTHER"
  CancelMethods,  \* cancel_b_method, set at run time: "fake" (0), "retr" (1), "force" (2)
  RelayMode,      \* reply_relay_mode
  FakedPrio,      \* faked_reply_prio
  Noisy,          \* noisy_ctimer
  FailureRoute,   \* what failure_route may do: "reply", "fork", "drop", "dropfork"
  DnsFailover,    \* use_dns_failover
  FailoverCodes,  \* 503 and failover_reply_codes
  SendFails,      \* may sending a request fail?
  MemFails        \* may storing or building a reply fail?

Procs == {Request} \cup Workers \cup Timers \cup Cancelers
Br == 1..MaxBranches

ASSUME ProcAssumption == /\ NoProc \notin Procs
                         /\ Request \notin Workers \cup Timers \cup Cancelers
ASSUME BranchAssumption == MaxBranches \in Nat \ {0} /\ NInitial \in Br
ASSUME CodeAssumption == /\ ReplyCodes \subseteq 100..699
                         /\ LocalCodes \subseteq 200..699
                         /\ FailoverCodes \subseteq 100..699
ASSUME CountAssumption == MaxReplies \in Nat /\ RelayMode \in {0, 1} /\ FakedPrio \in Nat
ASSUME OptionAssumption ==
  /\ CancelMethods \subseteq {"fake", "retr", "force"} /\ CancelMethods # {}
  /\ FailureRoute \subseteq {"reply", "fork", "drop", "dropfork"}

VARIABLES
  nout,      \* t->nr_of_outgoings
  uac,       \* t->uac[], see Uac
  uas,       \* t->uas and t->relayed_reply_branch, see Uas
  canceled,  \* T_CANCELED
  six,       \* T_6xx
  wait,      \* the wait timer was started (put_on_wait)
  lock,      \* holder of the REPLY lock
  pr,        \* the processes, see Proc
  sent,      \* final replies sent upstream: how often, counted to Many
  heard,     \* branches a reply was received on
  replies    \* number of replies received

tvars == <<nout, uac, uas, canceled, six, wait>>
vars == <<tvars, lock, pr, sent, heard, replies>>

-----------------------------------------------------------------------------
Invite == Method = "INVITE"
Is2xx(c) == c >= 200 /\ c < 300

Many == 2
Codes == 0..699
UpCodes == ReplyCodes \cup LocalCodes \cup {408, 487, 500}

(* struct ua_client: last_received; the stored reply (none, a clone, or      *)
(* FAKED_REPLY); local_cancel.buffer (0, BUSY_BUFFER, or a built CANCEL);    *)
(* F_RB_CANCELED; whether the request was sent; the final response timer.    *)
Uac == [last : Codes, reply : {"none", "real", "faked"},
        lc : {"free", "busy", "built"}, canc : BOOLEAN, out : BOOLEAN,
        fr : {"idle", "on", "off"}]

(* rb: relayed_reply_branch, 0 for none and -2 for a locally generated reply *)
Uas == [status : Codes, rb : Br \cup {0, -2}, retr : BOOLEAN]

StepNames == {"check", "add", "send", "failover", "dns_add", "relay", "repick",
              "repick_dropped", "unlock", "timeout", "give_up", "fake", "t_reply",
              "final_up", "send_up", "put_on_wait", "cleanup", "prepare", "mark",
              "cancel", "cancel_branch"}

(* The locals of a handler: its branch and status code, whether the reply is  *)
(* FAKED_REPLY, which caller relay_reply returns to, the cancel bitmap with   *)
(* the flags it will be used with (F_CANCEL_B_KILL, none, F_CANCEL_B_FORCE_C  *)
(* under the REPLY lock, or a cancel_b_method), and the branches that         *)
(* prepare_to_cancel has not looked at yet or that are still to be sent.      *)
Proc == [prog : Seq(StepNames), b : Br, code : Codes, faked : BOOLEAN,
         ctx : {"none", "reply", "timer", "fake"}, cb : SUBSET Br,
         how : {"none", "kill", "plain", "locked"} \cup CancelMethods, todo : SUBSET Br]

TypeOK == /\ nout \in 0..MaxBranches
          /\ uac \in [Br -> Uac]
          /\ uas \in Uas
          /\ canceled \in BOOLEAN /\ six \in BOOLEAN /\ wait \in BOOLEAN
          /\ lock \in Procs \cup {NoProc}
          /\ pr \in [Procs -> Proc]
          /\ sent \in [UpCodes -> 0..Many]
          /\ heard \in SUBSET Br
          /\ replies \in 0..MaxReplies

NoUac == [last |-> 0, reply |-> "none", lc |-> "free", canc |-> FALSE,
          out |-> FALSE, fr |-> "idle"]

Idle == [prog |-> <<>>, b |-> 1, code |-> 0, faked |-> FALSE, ctx |-> "none",
         cb |-> {}, how |-> "none", todo |-> {}]

(* t_newtran has created the transaction; the script either relays or replies *)
Init == /\ nout = 0
        /\ uac = [x \in Br |-> NoUac]
        /\ uas = [status |-> 0, rb |-> 0, retr |-> FALSE]
        /\ canceled = FALSE /\ six = FALSE /\ wait = FALSE
        /\ lock = NoProc
        /\ \/ pr = [p \in Procs |-> IF p = Request THEN [Idle EXCEPT !.prog = <<"check">>]
                                                   ELSE Idle]
           \/ \E c \in LocalCodes :
                pr = [p \in Procs |-> IF p = Request
                                        THEN [Idle EXCEPT !.prog = <<"t_reply">>, !.code = c]
                                        ELSE Idle]
        /\ sent = [c \in UpCodes |-> 0]
        /\ heard = {}
        /\ replies = 0

-----------------------------------------------------------------------------
At(p, s) == pr[p].prog # <<>> /\ Head(pr[p].prog) = s

(* p goes on with the locals r; a handler that is done drops its locals *)
Continue(p, r) == pr' = [pr EXCEPT ![p] = IF r.prog = <<>> THEN Idle ELSE r]
Pop(r) == [r EXCEPT !.prog = Tail(@)]
Now(r, s) == [r EXCEPT !.prog = <<s>> \o Tail(@)]

(* stop_rb_timers: F_RB_DEL_TIMER also keeps a later start_retr from starting *)
Stopped(u) == [u EXCEPT !.fr = "off"]

(* start_retr after a successful send *)
SentOut(u) == [u EXCEPT !.out = TRUE, !.fr = IF @ = "idle" THEN "on" ELSE @]

(* t_send_branch when the request could not be sent *)
Unsendable(u) == [u EXCEPT !.last = 408]

(* cleanup_uac_timers *)
AllStopped(u) == [x \in Br |-> IF x <= nout THEN Stopped(u[x]) ELSE u[x]]

(* mutant: a branch that rang counts as answered *)
CancelableUnrung(u, noreply) == u.last < 100 /\ noreply /\ u.lc = "free"

(* prepare_cancel_branch(t, x, noreply) would win the compare-and-exchange *)
Cancelable(u, noreply) == /\ u.last < 200
                          /\ noreply \/ u.last >= 100
                          /\ u.lc = "free"

(* mutant: the loop ends one branch early *)
ToCancelAllButLast(u) == {x \in 1..nout - 1 : Cancelable(u[x], TRUE)}

(* prepare_to_cancel, run under the REPLY lock *)
ToCancel(u) == {x \in 1..nout : Cancelable(u[x], TRUE)}
Busy(u, bm) == [x \in Br |-> IF x \in bm THEN [u[x] EXCEPT !.lc = "busy"] ELSE u[x]]

(* mutant: only local replies are retransmitted *)
RetransmittedLocal(s) == [s EXCEPT !.retr = @ \/ (Invite /\ s.rb = -2)]

(* start_final_repl_retr: negative and local final replies to an INVITE *)
Retransmitted(s) == [s EXCEPT !.retr = @ \/ /\ Invite
                                            /\ \/ s.status >= 300
                                               \/ s.rb = -2 /\ s.status >= 200]

Count(c) == IF c >= 200 THEN [sent EXCEPT ![c] = IF @ < Many THEN @ + 1 ELSE @] ELSE sent

-----------------------------------------------------------------------------
(* t_forward_nonack, run by the request script and by a failure route (under  *)
(* the REPLY lock, see RelayRoute), and the DNS failover of t_send_branch     *)

First(p, x) == x \in pr[p].todo /\ \A y \in pr[p].todo : x <= y

(* The sending is over when no branch is left.  The caller goes on; t_relay   *)
(* in the request script replies with the error when nothing was sent.        *)
Forwarding(p, r, u) ==
  Continue(p, CASE r.todo # {}                 -> r
                [] r.todo = {} /\ p # Request  -> Pop(r)
                [] r.todo = {} /\ p = Request  ->
                     IF \E y \in 1..nout : u[y].out
                       THEN Idle ELSE [Idle EXCEPT !.prog = <<"t_reply">>, !.code = 500])

(* The test of T_CANCELED, on entry and after every add_uac.  The branches    *)
(* added so far are not sent any more.                                        *)
CheckCanceled(p) ==
  /\ At(p, "check")
  /\ \/ /\ canceled
        /\ Continue(p, IF p = Request
                         THEN [Idle EXCEPT !.prog = <<"t_reply">>, !.code = 487]
                         ELSE Pop([pr[p] EXCEPT !.todo = {}]))
     \/ /\ ~canceled /\ nout < MaxBranches /\ Cardinality(pr[p].todo) < NInitial
        /\ Continue(p, Now(pr[p], "add"))
     \/ /\ ~canceled /\ pr[p].todo # {}
        /\ Continue(p, Now(pr[p], "send"))
  /\ UNCHANGED <<tvars, lock, sent, heard, replies>>

(* add_uac: the branch is published by the increment of nr_of_outgoings *)
Added(r) == IF nout < MaxBranches THEN [r EXCEPT !.todo = @ \cup {nout + 1}] ELSE r
Grow == nout' = IF nout < MaxBranches THEN nout + 1 ELSE nout

AddUac(p) ==
  /\ At(p, "add")
  /\ Grow
  /\ Continue(p, Now(Added(pr[p]), "check"))
  /\ UNCHANGED <<uac, uas, canceled, six, wait, lock, sent, heard, replies>>

(* t_send_branch: onsend_route, the blocklist or the network may refuse the    *)
(* request; the branch then counts as answered, or is failed over.            *)
SendBranch(p) ==
  /\ At(p, "send")
  /\ \E x \in pr[p].todo :
       /\ First(p, x)
       /\ \/ /\ uac' = [uac EXCEPT ![x] = SentOut(@)]
             /\ Forwarding(p, [pr[p] EXCEPT !.todo = @ \ {x}], uac')
          \/ /\ SendFails
             /\ uac' = [uac EXCEPT ![x] = Unsendable(@)]
             /\ IF DnsFailover THEN Continue(p, Now(pr[p], "failover"))
                               ELSE Forwarding(p, [pr[p] EXCEPT !.todo = @ \ {x}], uac')
  /\ UNCHANGED <<nout, uas, canceled, six, wait, lock, sent, heard, replies>>

(* T_DONT_FORK and uac_dont_fork *)
MayFailover(x) == ~canceled /\ ~six /\ uac[x].lc = "free"

(* mutant: the number of branches is not limited *)
FailoverUnlimited(p) ==
  /\ At(p, "failover") /\ lock \in {NoProc, p}
  /\ lock' = p /\ nout' = nout + 1
  /\ Continue(p, Now(pr[p], "dns_add"))
  /\ UNCHANGED <<uac, uas, canceled, six, wait, sent, heard, replies>>

(* add_uac_dns_fallback for the first branch of todo, up to add_uac: under    *)
(* the REPLY lock, which all but the request script hold already.  The        *)
(* destination may have no other address.                                     *)
Failover(p) ==
  /\ At(p, "failover") /\ lock \in {NoProc, p}
  /\ \E x \in pr[p].todo :
       /\ First(p, x)
       /\ \/ /\ MayFailover(x) /\ nout < MaxBranches
             /\ lock' = p
             /\ Continue(p, Now(pr[p], "dns_add"))
          \/ /\ lock' = lock
             /\ Forwarding(p, Now([pr[p] EXCEPT !.todo = @ \ {x}], "send"), uac)
  /\ UNCHANGED <<tvars, sent, heard, replies>>

(* its add_uac: the new branch takes the place of the old one *)
FailoverAdd(p) ==
  /\ At(p, "dns_add")
  /\ Grow
  /\ lock' = IF p = Request THEN NoProc ELSE lock
  /\ \E x \in pr[p].todo :
       /\ First(p, x)
       /\ Forwarding(p, Now(Added([pr[p] EXCEPT !.todo = @ \ {x}]), "send"), uac)
  /\ UNCHANGED <<uac, uas, canceled, six, wait, sent, heard, replies>>

-----------------------------------------------------------------------------
(* The reply picked among the branches (get_prio, t_pick_branch)              *)

ClassPrio == <<11000, 0, 3000, 4000, 5000, 1000>>
Prio4xx(xx) == IF xx \in {1, 7, 15, 20, 84} THEN xx ELSE 100 + xx

Prio(c, faked) ==
  (CASE c < 100  -> 32000 + c
     [] c >= 700 -> 10000 + c
     [] OTHER    -> ClassPrio[c \div 100]
                      + IF c \div 100 = 4 THEN Prio4xx(c % 100) ELSE c % 100)
  + IF faked THEN FakedPrio ELSE 0

(* "branches open yet": t_pick_branch returns -2 *)
OpenBranches(u, b) == {x \in 1..nout : x # b /\ u[x].last < 200}

(* mutant: a faked reply is taken for none *)
CandidatesReal(u, b) == {x \in 1..nout : x = b \/ u[x].reply = "real"}

(* The branches t_pick_branch may return when b has just received a reply.  A *)
(* branch whose request could not be sent has a final code and no reply.      *)
Candidates(u, b) == {x \in 1..nout : x = b \/ u[x].reply # "none"}
BranchPrio(u, x) == Prio(u[x].last, u[x].reply = "faked")

(* The loop of t_pick_branch: the incoming reply, not stored yet, and the     *)
(* stored ones; 0 stands for no branch, with the priority of status 0.        *)
Pick(u, b) ==
  LET prio(x) == IF x = 0 THEN Prio(0, FALSE) ELSE BranchPrio(u, x)
      best[x \in 0..nout] ==
        IF x = 0 THEN 0
        ELSE IF x \in Candidates(u, b) /\ prio(x) < prio(best[x - 1]) THEN x ELSE best[x - 1]
  IN  best[nout]

-----------------------------------------------------------------------------
(* relay_reply (with t_should_relay_response), entered by p with the REPLY     *)
(* lock held (see RelayLocked) and left with the lock released                *)

Relaying(p) == At(p, "relay")

InvThrough(c) == Is2xx(c) /\ Invite
LateRegister(c) == Method = "REGISTER" /\ c >= 300

(* a 2xx for an INVITE that was already answered *)
Pushed(p) == uas.status >= 200 /\ InvThrough(pr[p].code)

Discarded(p) ==
  \/ uas.status >= 200 /\ ~InvThrough(pr[p].code) /\ ~LateRegister(pr[p].code)
  \/ /\ uac[pr[p].b].last >= 200
     /\ ~(InvThrough(pr[p].code) /\ uac[pr[p].b].last < 300)

Deciding(p) == Relaying(p) /\ ~Pushed(p) /\ ~Discarded(p)

(* What remains to be done after the lock is released.  reply_received:       *)
(* send, put_on_wait, and then cleanup_uac_timers and cancel_uacs.            *)
(* fake_reply: send, cancel_branch, put_on_wait.  cancel_branch: send,        *)
(* put_on_wait, and back to the loop over the branches to cancel.             *)
UpSteps(completed, relayed, onwait) ==
  CASE ~relayed                        -> <<>>
    [] relayed /\ completed /\ onwait  -> <<"final_up", "put_on_wait">>
    [] relayed /\ completed /\ ~onwait -> <<"final_up">>
    [] relayed /\ ~completed           -> <<"send_up">>

CancelSteps(bm) == IF bm = {} THEN <<>> ELSE <<"cancel">>

(* mutant: nobody puts the transaction on wait *)
AfterForgets(ctx, completed, relayed, bm) ==
  UpSteps(completed, relayed, FALSE) \o CancelSteps(bm)
(* mutant: cancel_branch returns from the loop after a faked reply *)
AfterStops(ctx, completed, relayed, bm) ==
  UpSteps(completed, relayed, TRUE) \o IF ctx = "fake" THEN <<>> ELSE CancelSteps(bm)

After(ctx, completed, relayed, bm) ==
  IF ctx = "timer"
    THEN UpSteps(completed, relayed, FALSE) \o CancelSteps(bm)
           \o IF completed THEN <<"put_on_wait">> ELSE <<>>
    ELSE UpSteps(completed, relayed, TRUE)
           \o (IF ctx = "reply" /\ completed THEN <<"cleanup">> ELSE <<>>)
           \o CancelSteps(bm)

HowAfter(r, completed) == CASE r.ctx = "timer" -> {"plain"}
                            [] r.ctx = "fake"  -> {r.how}
                            [] OTHER           -> IF completed THEN {"kill"} ELSE CancelMethods

(* mutant: the bitmap is used for completed transactions only *)
ReturnForgets(p, completed, relayed, code, bm) ==
  /\ lock' = NoProc
  /\ \E how \in HowAfter(pr[p], completed) :
       Continue(p, [pr[p] EXCEPT !.prog = After(pr[p].ctx, completed, relayed, bm), !.code = code,
                                 !.how = how, !.cb = IF completed THEN bm ELSE {}])

(* relay_reply returns: UNLOCK_REPLIES, and p goes on *)
Return(p, completed, relayed, code, bm) ==
  /\ lock' = NoProc
  /\ \E how \in HowAfter(pr[p], completed) :
       Continue(p, [pr[p] EXCEPT !.prog = After(pr[p].ctx, completed, relayed, bm),
                                 !.how = how, !.code = code, !.cb = bm])

Received(p) == [uac EXCEPT ![pr[p].b].last = pr[p].code]
Stored(p, u) == [u EXCEPT ![pr[p].b].reply = IF pr[p].faked THEN "faked" ELSE "real"]

(* RPS_DISCARDED *)
RelayDiscard(p) ==
  /\ Relaying(p) /\ ~Pushed(p) /\ Discarded(p)
  /\ Return(p, FALSE, FALSE, pr[p].code, pr[p].cb)
  /\ UNCHANGED <<tvars, sent, heard, replies>>

(* RPS_PUSHED_AFTER_COMPLETION *)
RelayPushed(p) ==
  /\ Relaying(p) /\ Pushed(p)
  /\ uac' = Received(p)
  /\ uas' = IF RelayMode = 0 THEN [uas EXCEPT !.status = pr[p].code, !.rb = pr[p].b] ELSE uas
  /\ Return(p, FALSE, TRUE, pr[p].code, pr[p].cb)
  /\ UNCHANGED <<nout, canceled, six, wait, sent, heard, replies>>

(* RPS_PROVISIONAL; a 100 is not relayed *)
RelayProvisional(p) ==
  /\ Deciding(p) /\ pr[p].code < 200
  /\ uac' = Received(p)
  /\ uas' = IF pr[p].code = 100 THEN uas ELSE [uas EXCEPT !.status = pr[p].code, !.rb = pr[p].b]
  /\ Return(p, FALSE, pr[p].code # 100, pr[p].code, pr[p].cb)
  /\ UNCHANGED <<nout, canceled, six, wait, sent, heard, replies>>

(* RPS_COMPLETED by a 2xx: the other branches are marked for cancelling.      *)
(* reply_received uses the bitmap for INVITEs only.                           *)
RelayPositive(p) ==
  /\ Deciding(p) /\ Is2xx(pr[p].code)
  /\ LET bm == ToCancel(Received(p)) IN
       /\ uac' = Busy(Received(p), bm)
       /\ Return(p, TRUE, TRUE, pr[p].code, IF Invite THEN bm ELSE {})
  /\ uas' = [uas EXCEPT !.status = pr[p].code, !.rb = pr[p].b]
  /\ UNCHANGED <<nout, canceled, six, wait, sent, heard, replies>>

(* RPS_STORE: other branches are open; the first 6xx cancels them *)
RelayStore(p) ==
  /\ Deciding(p) /\ pr[p].code >= 300
  /\ OpenBranches(uac, pr[p].b) # {}
  /\ LET bm == IF pr[p].code >= 600 /\ ~six THEN ToCancel(Received(p)) ELSE {} IN
       /\ uac' = Busy(Stored(p, Received(p)), bm)
       /\ Return(p, FALSE, FALSE, pr[p].code, pr[p].cb \cup bm)
  /\ six' = (six \/ pr[p].code >= 600)
  /\ UNCHANGED <<nout, uas, canceled, wait, sent, heard, replies>>

(* The code of the reply built from branch x: a faked reply of a canceled     *)
(* transaction becomes a 487, and a real 503 becomes a 500.                   *)
RelayedCode(p, x) ==
  LET faked == IF x = pr[p].b THEN pr[p].faked ELSE uac[x].reply = "faked"
      code  == IF x = pr[p].b THEN pr[p].code ELSE uac[x].last
  IN  CASE faked /\ canceled       -> 487
        [] ~faked /\ code = 503    -> 500
        [] OTHER                   -> code

(* every branch has answered, and the failure route is run *)
LastAnswer(p) == /\ Deciding(p) /\ pr[p].code >= 300
                 /\ OpenBranches(uac, pr[p].b) = {}

(* what t_pick_branch finds after the failure route *)
Repicking(p) == At(p, "repick") /\ uas.status < 200
AllAnswered(p) == LastAnswer(p) \/ (Repicking(p) /\ OpenBranches(uac, pr[p].b) = {})

(* mutant: an answered transaction is answered again *)
RelayBestAgain(p) ==
  /\ AllAnswered(p)
  /\ six' = FALSE
  /\ uac' = Received(p)
  /\ \E x \in Candidates(Received(p), pr[p].b) :
       /\ x = Pick(Received(p), pr[p].b)
       /\ uas' = [uas EXCEPT !.status = RelayedCode(p, x), !.rb = x]
       /\ Return(p, TRUE, TRUE, RelayedCode(p, x), pr[p].cb)
  /\ UNCHANGED <<nout, canceled, wait, sent, heard, replies>>

(* RPS_COMPLETED by the best negative reply: no failure route, or one that    *)
(* neither replied nor opened a branch *)
RelayBest(p) ==
  /\ AllAnswered(p) /\ uas.status < 200
  /\ six' = FALSE
  /\ uac' = Received(p)
  /\ \E x \in Candidates(Received(p), pr[p].b) :
       /\ x = Pick(Received(p), pr[p].b)
       /\ uas' = [uas EXCEPT !.status = RelayedCode(p, x), !.rb = x]
       /\ Return(p, TRUE, TRUE, RelayedCode(p, x), pr[p].cb)
  /\ UNCHANGED <<nout, canceled, wait, sent, heard, replies>>

(* mutant: it is sent upstream *)
RelayLateSends(p) ==
  /\ LastAnswer(p) /\ uas.status >= 200
  /\ six' = FALSE
  /\ uac' = Received(p)
  /\ Return(p, TRUE, TRUE, pr[p].code, pr[p].cb)
  /\ UNCHANGED <<nout, uas, canceled, wait, sent, heard, replies>>

(* a late negative reply to a forked REGISTER is not sent upstream *)
RelayLate(p) ==
  /\ LastAnswer(p) /\ uas.status >= 200
  /\ six' = FALSE
  /\ uac' = Received(p)
  /\ Return(p, TRUE, FALSE, pr[p].code, pr[p].cb)
  /\ UNCHANGED <<nout, uas, canceled, wait, sent, heard, replies>>

(* prepare_to_cancel and cancel_uacs with F_CANCEL_B_KILL for one branch *)
Killed(u) == IF Invite /\ Cancelable(u, TRUE)
               THEN [u EXCEPT !.canc = TRUE, !.lc = IF u.last >= 100 THEN "built" ELSE "free"]
               ELSE u
AllKilled(u) == [x \in Br |-> IF x <= nout THEN Killed(Stopped(u[x])) ELSE u[x]]

(* t_reply_unsafe, under the REPLY lock of the caller: the reply is sent; it  *)
(* cannot be built; a final reply was sent before; or there is no memory for  *)
(* it once the status was set, and a branch of a request other than an INVITE *)
(* stays marked for cancelling.                                               *)
ReplyUnsafe(u, c) ==
  /\ wait' = TRUE
  /\ \/ /\ uas.status < 200
        /\ uas' = Retransmitted([uas EXCEPT !.status = c, !.rb = -2])
        /\ sent' = Count(c)
        /\ uac' = AllKilled(u)
     \/ /\ MemFails
        /\ UNCHANGED <<uas, sent>>
        /\ uac' = AllKilled(u)
     \/ /\ uas.status >= 200
        /\ UNCHANGED <<uas, sent>>
        /\ uac' = AllStopped(u)
     \/ /\ MemFails /\ uas.status < 200
        /\ uas' = [uas EXCEPT !.status = c] /\ UNCHANGED sent
        /\ uac' = IF Invite THEN AllKilled(u) ELSE Busy(AllStopped(u), ToCancel(u))

(* The failure route forwards to new destinations, or drops the replies that   *)
(* were collected, or both.  t_forward_nonack tests T_CANCELED first.         *)
RoutePrograms == [fork |-> <<"check", "repick">>, drop |-> <<"repick_dropped">>,
                  dropfork |-> <<"check", "repick_dropped">>]

RelayRoute(p) ==
  /\ LastAnswer(p) /\ uas.status < 200
  /\ six' = FALSE
  /\ uac' = Received(p)
  /\ \E act \in FailureRoute \ {"reply"} :
       /\ act # "drop" => nout < MaxBranches
       /\ Continue(p, [pr[p] EXCEPT !.prog = RoutePrograms[act], !.todo = {}])
  /\ UNCHANGED <<nout, uas, canceled, wait, lock, sent, heard, replies>>

(* the failure route replies itself *)
RelayRouteReply(p) ==
  /\ LastAnswer(p) /\ uas.status < 200 /\ "reply" \in FailureRoute
  /\ six' = FALSE
  /\ \E c \in LocalCodes : ReplyUnsafe(Received(p), c)
  /\ Continue(p, [pr[p] EXCEPT !.prog = <<"repick">>])
  /\ UNCHANGED <<nout, canceled, lock, heard, replies>>

(* mutant: the reply that was picked is sent as well *)
RelayRepliedSends(p) ==
  /\ At(p, "repick") /\ uas.status >= 200
  /\ Return(p, TRUE, TRUE, pr[p].code, pr[p].cb)
  /\ UNCHANGED <<tvars, sent, heard, replies>>

(* RPS_COMPLETED: "look if the callback perhaps replied transaction" *)
RelayReplied(p) ==
  /\ At(p, "repick") /\ uas.status >= 200
  /\ Return(p, TRUE, FALSE, pr[p].code, pr[p].cb)
  /\ UNCHANGED <<tvars, sent, heard, replies>>

(* RPS_STORE: the failure route has opened a branch *)
RelayForked(p) ==
  /\ Repicking(p) /\ OpenBranches(uac, pr[p].b) # {}
  /\ uac' = Stored(p, uac)
  /\ Return(p, FALSE, FALSE, pr[p].code, pr[p].cb)
  /\ UNCHANGED <<nout, uas, canceled, six, wait, sent, heard, replies>>

NoReplies(u) == [x \in Br |-> IF x <= nout THEN [u[x] EXCEPT !.reply = "none"] ELSE u[x]]

(* The replies were dropped: nothing to do while a branch is open             *)
(* (RPS_DISCARDED), else kill_transaction_unsafe replies with a 500.          *)
RelayDropped(p) ==
  /\ At(p, "repick_dropped")
  /\ \/ /\ OpenBranches(uac, pr[p].b) # {}
        /\ uac' = NoReplies(uac)
        /\ Return(p, FALSE, FALSE, pr[p].code, pr[p].cb)
        /\ UNCHANGED <<uas, sent, wait>>
     \/ /\ OpenBranches(uac, pr[p].b) = {}
        /\ ReplyUnsafe(NoReplies(uac), 500)
        /\ Return(p, TRUE, FALSE, pr[p].code, pr[p].cb)
  /\ UNCHANGED <<nout, canceled, six, heard, replies>>

(* RPS_ERROR: the reply cannot be stored or built; t_reply_unsafe(500) is run *)
(* and the cancel bitmap is cleared.  ErrorMarks are the branches that        *)
(* t_should_relay_response had already marked for cancelling.                 *)
ErrorMarks(p) ==
  IF \/ Deciding(p) /\ Is2xx(pr[p].code)
     \/ Deciding(p) /\ pr[p].code >= 600 /\ ~six /\ OpenBranches(uac, pr[p].b) # {}
    THEN ToCancel(Received(p)) ELSE {}

RelayError(p) ==
  /\ MemFails
  /\ \/ Relaying(p) /\ (Pushed(p) \/ ~Discarded(p)) /\ pr[p].code # 100
          /\ ~(LastAnswer(p) /\ uas.status >= 200)
     \/ Repicking(p)
  /\ six' = IF Deciding(p) /\ pr[p].code >= 300
              THEN OpenBranches(uac, pr[p].b) # {} /\ (six \/ pr[p].code >= 600) ELSE six
  /\ ReplyUnsafe(Busy(Received(p), ErrorMarks(p)), 500)
  /\ Return(p, FALSE, FALSE, pr[p].code, IF pr[p].ctx = "reply" THEN {} ELSE pr[p].cb)
  /\ UNCHANGED <<nout, canceled, heard, replies>>

Relay(p) == \/ RelayDiscard(p) \/ RelayPushed(p) \/ RelayProvisional(p)
            \/ RelayPositive(p) \/ RelayStore(p) \/ RelayBest(p) \/ RelayLate(p)
            \/ RelayRoute(p) \/ RelayRouteReply(p) \/ RelayReplied(p)
            \/ RelayForked(p) \/ RelayDropped(p) \/ RelayError(p)

-----------------------------------------------------------------------------
(* reply_received up to relay_reply *)

(* t_reply_matching has found the transaction, when it was perhaps not on wait *)
(* yet, and LOCK_REPLIES is obtained. With reply_matching=0 the lookup passes *)
(* over no reply; the default passes over late ones, which only removes steps. *)
Arrives(b, c) == /\ lock = NoProc
                 /\ uac[b].out
                 /\ replies < MaxReplies
                 /\ replies' = replies + 1
                 /\ heard' = heard \cup {b}

(* mutant: without LOCK_REPLIES *)
ToRelayUnlocked(p, b, c) == /\ lock' = lock
                            /\ Continue(p, [Idle EXCEPT !.prog = <<"relay">>, !.b = b,
                                                        !.code = c, !.ctx = "reply"])
(* on to relay_reply, with a DNS failover before *)
ToRelay(p, b, c) == /\ lock' = p
                    /\ Continue(p, IF DnsFailover /\ c \in FailoverCodes
                         THEN [Idle EXCEPT !.prog = <<"failover", "relay">>, !.b = b, !.code = c,
                                           !.ctx = "reply", !.todo = {b}]
                         ELSE [Idle EXCEPT !.prog = <<"relay">>, !.b = b, !.code = c,
                                           !.ctx = "reply"])

(* The negative answer of a canceled branch, upstream being answered already, *)
(* is acknowledged and that is all.                                           *)
OnlyAck(b, c) == Invite /\ c >= 300 /\ uas.status >= 200 /\ uac[b].canc

FinalReceived(p, b, c) ==
  /\ pr[p] = Idle /\ Arrives(b, c) /\ c >= 200
  /\ IF OnlyAck(b, c)
       THEN /\ uac' = [uac EXCEPT ![b] = Stopped(@)]
            /\ UNCHANGED <<lock, pr>>
       ELSE /\ uac' = [uac EXCEPT ![b] = Stopped(@)]
            /\ ToRelay(p, b, c)
  /\ UNCHANGED <<nout, uas, canceled, six, wait, sent>>

(* A provisional reply on a canceled branch triggers its CANCEL, unless one    *)
(* was built (it is sent again) or is being built by someone else.            *)
ProvisionalReceived(p, b, c) ==
  /\ pr[p] = Idle /\ Arrives(b, c) /\ c < 200
  /\ CASE ~uac[b].canc -> ToRelay(p, b, c) /\ UNCHANGED uac
       [] uac[b].canc /\ uac[b].lc # "free" -> UNCHANGED <<uac, lock, pr>>
       [] uac[b].canc /\ uac[b].lc = "free" ->
            /\ uac' = [uac EXCEPT ![b].lc = "busy"]
            /\ lock' = p
            /\ Continue(p, [Idle EXCEPT !.prog = <<"cancel_branch", "unlock">>, !.b = b,
                                        !.cb = {b}, !.how = "locked"])
  /\ UNCHANGED <<nout, uas, canceled, six, wait, sent>>

Unlock(p) == /\ At(p, "unlock")
             /\ lock' = NoProc
             /\ Continue(p, Pop(pr[p]))
             /\ UNCHANGED <<tvars, sent, heard, replies>>

-----------------------------------------------------------------------------
(* The timer process (retr_buf_handler, final_response_handler, fake_reply)   *)

FrExpire(p, b) ==
  /\ pr[p] = Idle
  /\ uac[b].fr = "on"
  /\ uac' = [uac EXCEPT ![b] = Stopped(@)]
  /\ Continue(p, [Idle EXCEPT !.prog = <<"timeout">>, !.b = b])
  /\ UNCHANGED <<nout, uas, canceled, six, wait, lock, sent, heard, replies>>

(* an unanswered INVITE that no script waits for may be dropped silently *)
Silent(b) == ~Noisy /\ Invite /\ nout = 1 /\ FailureRoute = {} /\ uac[b].last = 0

(* the head of fake_reply(t, b, c), up to relay_reply *)
TimedOut(b) == IF Invite /\ Cancelable(uac[b], FALSE) THEN {b} ELSE {}
GivenUp(b) == [Busy(uac, TimedOut(b)) EXCEPT ![b].canc = TRUE]
FakeReply(p, b, c) ==
  Continue(p, [Idle EXCEPT !.prog = <<"relay">>, !.b = b, !.code = c, !.faked = TRUE,
                           !.ctx = "timer", !.cb = TimedOut(b)])

Timeout(p) ==
  /\ At(p, "timeout") /\ lock = NoProc
  /\ IF Silent(pr[p].b)
       THEN /\ Continue(p, [Idle EXCEPT !.prog = <<"put_on_wait">>])
            /\ UNCHANGED <<uac, lock>>
       ELSE /\ lock' = p
            /\ IF DnsFailover /\ uac[pr[p].b].last = 0
                 THEN /\ Continue(p, [pr[p] EXCEPT !.prog = <<"failover", "give_up">>,
                                                   !.todo = {pr[p].b}])
                      /\ UNCHANGED uac
                 ELSE /\ FakeReply(p, pr[p].b, 408)
                      /\ uac' = GivenUp(pr[p].b)
  /\ UNCHANGED <<nout, uas, canceled, six, wait, sent, heard, replies>>

(* fake_reply(408) after the failover *)
GiveUp(p) ==
  /\ At(p, "give_up")
  /\ uac' = GivenUp(pr[p].b)
  /\ FakeReply(p, pr[p].b, 408)
  /\ UNCHANGED <<nout, uas, canceled, six, wait, lock, sent, heard, replies>>

(* retransmission_handler when the request cannot be sent again: fake_reply   *)
(* is called although the REPLY lock has not been taken                       *)
RetransmissionFails(p, b) ==
  /\ pr[p] = Idle
  /\ uac[b].fr = "on" /\ uac[b].last = 0
  /\ uac' = GivenUp(b)
  /\ FakeReply(p, b, 503)
  /\ UNCHANGED <<nout, uas, canceled, six, wait, lock, sent, heard, replies>>

-----------------------------------------------------------------------------
(* The steps after the lock was released *)

(* start_final_repl_retr and sending the final reply upstream *)
FinalUp(p) ==
  /\ At(p, "final_up")
  /\ uas' = Retransmitted(uas)
  /\ sent' = Count(pr[p].code)
  /\ Continue(p, Pop(pr[p]))
  /\ UNCHANGED <<nout, uac, canceled, six, wait, lock, heard, replies>>

(* sending a provisional or a late 2xx reply upstream *)
SendUp(p) ==
  /\ At(p, "send_up")
  /\ sent' = Count(pr[p].code)
  /\ Continue(p, Pop(pr[p]))
  /\ UNCHANGED <<tvars, lock, heard, replies>>

PutOnWait(p) ==
  /\ At(p, "put_on_wait")
  /\ wait' = TRUE
  /\ Continue(p, Pop(pr[p]))
  /\ UNCHANGED <<nout, uac, uas, canceled, six, lock, sent, heard, replies>>

(* cleanup_uac_timers *)
Cleanup(p) ==
  /\ At(p, "cleanup")
  /\ uac' = AllStopped(uac)
  /\ Continue(p, Pop(pr[p]))
  /\ UNCHANGED <<nout, uas, canceled, six, wait, lock, sent, heard, replies>>

(* mutant: whether the transaction was answered is not tested *)
TReplyAgain(p) ==
  /\ At(p, "t_reply") /\ lock = NoProc
  /\ uas' = [uas EXCEPT !.status = pr[p].code, !.rb = -2]
  /\ Continue(p, [pr[p] EXCEPT !.how = "kill", !.prog =
                     <<"cleanup", "prepare", "final_up", "put_on_wait">>])
  /\ UNCHANGED <<nout, uac, canceled, six, wait, lock, sent, heard, replies>>

(* t_reply: _reply_light up to the release of the lock.  The reply cannot be   *)
(* built; a final reply was sent before; there is no memory for it once the   *)
(* status was set; or it will be sent.                                        *)
TReply(p) ==
  /\ At(p, "t_reply")
  /\ \/ /\ MemFails
        /\ Continue(p, [pr[p] EXCEPT !.how = "kill", !.prog =
             IF Invite THEN <<"cleanup", "prepare", "put_on_wait">>
                       ELSE <<"cleanup", "put_on_wait">>])
        /\ UNCHANGED <<uac, uas>>
     \/ /\ lock = NoProc /\ uas.status >= 200
        /\ Continue(p, [pr[p] EXCEPT !.prog = <<"cleanup", "put_on_wait">>])
        /\ UNCHANGED <<uac, uas>>
     \/ /\ MemFails /\ lock = NoProc /\ uas.status < 200
        /\ uas' = [uas EXCEPT !.status = pr[p].code]
        /\ LET bm == ToCancel(uac) IN
             /\ uac' = Busy(uac, bm)
             /\ Continue(p, [pr[p] EXCEPT !.how = "kill", !.cb = IF Invite THEN bm ELSE {},
                                         !.prog = <<"cleanup", "cancel", "put_on_wait">>])
     \/ /\ lock = NoProc /\ uas.status < 200
        /\ uas' = [uas EXCEPT !.status = pr[p].code, !.rb = -2]
        /\ Continue(p, [pr[p] EXCEPT !.how = "kill", !.prog =
             IF Invite THEN <<"cleanup", "prepare", "final_up", "put_on_wait">>
                       ELSE <<"cleanup", "final_up", "put_on_wait">>])
        /\ UNCHANGED uac
  /\ UNCHANGED <<nout, canceled, six, wait, lock, sent, heard, replies>>

-----------------------------------------------------------------------------
(* Cancelling: e2e_cancel, prepare_to_cancel, cancel_uacs, cancel_branch      *)

E2ECancel(p) ==
  /\ pr[p] = Idle /\ Invite /\ ~canceled
  /\ canceled' = TRUE
  /\ \E how \in CancelMethods :
       Continue(p, [Idle EXCEPT !.prog = <<"prepare">>, !.code = 487, !.how = how])
  /\ UNCHANGED <<nout, uac, uas, six, wait, lock, sent, heard, replies>>

(* prepare_to_cancel reads the number of branches *)
Prepare(p) ==
  /\ At(p, "prepare")
  /\ Continue(p, [Now(pr[p], "mark") EXCEPT !.todo = 1..nout])
  /\ UNCHANGED <<tvars, lock, sent, heard, replies>>

(* prepare_cancel_branch on each of them.  The order is left open: another    *)
(* process may be at the same loop under the REPLY lock, in one step.         *)
MarkBranch(p) ==
  /\ At(p, "mark")
  /\ \E x \in pr[p].todo :
       LET won == Cancelable(uac[x], TRUE) IN
       /\ uac' = IF won THEN [uac EXCEPT ![x].lc = "busy"] ELSE uac
       /\ Continue(p, [pr[p] EXCEPT !.todo = @ \ {x}, !.cb = IF won THEN @ \cup {x} ELSE @])
  /\ UNCHANGED <<nout, uas, canceled, six, wait, lock, sent, heard, replies>>

(* with no branch to cancel, e2e_cancel answers the INVITE itself *)
MarkDone(p) ==
  /\ At(p, "mark") /\ pr[p].todo = {}
  /\ Continue(p, Now(pr[p], IF pr[p].how # "kill" /\ pr[p].cb = {} THEN "t_reply" ELSE "cancel"))
  /\ UNCHANGED <<tvars, lock, sent, heard, replies>>

(* the loop of cancel_uacs and e2e_cancel, and the entry of cancel_branch:    *)
(* F_RB_CANCELED, and with F_CANCEL_B_KILL no more timers                     *)
CancelNext(p) ==
  /\ At(p, "cancel")
  /\ IF pr[p].cb = {}
       THEN Continue(p, Pop(pr[p])) /\ UNCHANGED uac
       ELSE \E x \in pr[p].cb :
              /\ \A y \in pr[p].cb : x <= y
              /\ uac' = [uac EXCEPT ![x].canc = TRUE,
                                    ![x].fr = IF pr[p].how = "kill" THEN "off" ELSE @]
              /\ Continue(p, [Now(pr[p], "cancel_branch") EXCEPT !.b = x])
  /\ UNCHANGED <<nout, uas, canceled, six, wait, lock, sent, heard, replies>>

Forced(r) == r.how \in {"locked", "force"}
Faking(r) == r.how = "fake"

(* mutant: the timer of an unanswered branch is stopped without a faked reply *)
CancelBranchStops(p) ==
  /\ At(p, "cancel_branch")
  /\ uac' = [uac EXCEPT ![pr[p].b].lc = "free", ![pr[p].b].fr = "off"]
  /\ Continue(p, Now([pr[p] EXCEPT !.cb = @ \ {pr[p].b}], "cancel"))
  /\ UNCHANGED <<nout, uas, canceled, six, wait, lock, sent, heard, replies>>

(* the rest of cancel_branch: give up on an unanswered branch (with a faked   *)
(* 487 for it, if so configured), or build and send the CANCEL                *)
CancelBranch(p) ==
  /\ At(p, "cancel_branch")
  /\ LET b == pr[p].b
         r == [pr[p] EXCEPT !.cb = @ \ {b}]
         back == IF r.how = "locked" THEN Pop(r) ELSE Now(r, "cancel")
     IN  IF uac[b].last < 100 /\ ~Forced(r)
           THEN /\ uac' = [uac EXCEPT ![b].lc = "free",
                                      ![b].fr = IF Faking(r) THEN "off" ELSE @]
                /\ Continue(p, IF Faking(r) THEN Now(r, "fake") ELSE back)
           ELSE /\ uac' = [uac EXCEPT ![b].lc = "built"]
                /\ Continue(p, back)
  /\ UNCHANGED <<nout, uas, canceled, six, wait, lock, sent, heard, replies>>

(* LOCK_REPLIES and relay_reply(FAKED_REPLY, 487) inside cancel_branch *)
FakeCanceled(p) ==
  /\ At(p, "fake") /\ lock = NoProc
  /\ lock' = p
  /\ Continue(p, [pr[p] EXCEPT !.prog = <<"relay">>, !.code = 487, !.faked = TRUE,
                               !.ctx = "fake"])
  /\ UNCHANGED <<tvars, sent, heard, replies>>

-----------------------------------------------------------------------------
Step(p) == \/ CheckCanceled(p) \/ AddUac(p) \/ SendBranch(p)
           \/ Failover(p) \/ FailoverAdd(p)
           \/ Relay(p) \/ Unlock(p) \/ Timeout(p) \/ GiveUp(p)
           \/ FinalUp(p) \/ SendUp(p) \/ PutOnWait(p) \/ Cleanup(p) \/ TReply(p)
           \/ Prepare(p) \/ MarkBranch(p) \/ MarkDone(p)
           \/ CancelNext(p) \/ CancelBranch(p) \/ FakeCanceled(p)

(* the transaction is at rest until the wait timer removes it *)
Rest == (\A p \in Procs : pr[p] = Idle) /\ wait /\ UNCHANGED vars

Next == \/ \E p \in Procs : Step(p)
        \/ Rest
        \/ \E p \in Workers, b \in Br, c \in ReplyCodes :
             FinalReceived(p, b, c) \/ ProvisionalReceived(p, b, c)
        \/ \E p \in Timers, b \in Br : FrExpire(p, b)
        \/ \E p \in Cancelers : E2ECancel(p)

Spec == Init /\ [][Next]_vars

(* the same with retransmissions that fail *)
RetrSpec == Init /\ [][Next \/ \E p \in Timers, b \in Br : RetransmissionFails(p, b)]_vars

(* Processes run on, and the timer process runs every timer that is due.      *)
(* Nothing promises a reply or a CANCEL.                                      *)
FairSpec == /\ Spec
            /\ \A p \in Procs : WF_vars(Step(p))
            /\ \A b \in Br : WF_vars(\E p \in Timers : FrExpire(p, b))

-----------------------------------------------------------------------------
Final == {c \in UpCodes : c >= 200}
Negative == {c \in Final : ~InvThrough(c)}
Quiet == \A p \in Procs : pr[p] = Idle

(* relay_reply is entered by processes that hold the REPLY lock only.         *)
RelayLocked == \A p \in Procs : At(p, "relay") => lock = p

(* Upstream never gets two final replies, whoever generates them (relay_reply *)
(* by a worker, a timer or a canceller, t_reply by the script or e2e_cancel): *)
(* only the 2xx of an INVITE may follow another final reply.                  *)
OneFinalReply == \A c, d \in Negative : sent[c] > 0 /\ sent[d] > 0 => c = d /\ sent[c] = 1

(* t->uas.status, once final, stays (with reply_relay_mode=0 a later 2xx of   *)
(* an INVITE replaces it), and a transaction on wait stays there.             *)
FinalStays == [][/\ uas.status >= 200 => \/ uas'.status = uas.status
                                         \/ RelayMode = 0 /\ InvThrough(uas'.status)
                 /\ wait => wait']_vars

(* A branch marked "cancel in progress" (BUSY_BUFFER) is in the cancel bitmap *)
(* of exactly one process, which still has to run cancel_branch for it: no    *)
(* branch remains un-cancelable and no CANCEL is built twice.                 *)
CancelOwned == \A x \in Br :
  /\ uac[x].lc = "busy" => \E p \in Procs : x \in pr[p].cb
  /\ \A p \in Procs : x \in pr[p].cb => uac[x].lc = "busy"
  /\ \A p, q \in Procs : x \in pr[p].cb /\ x \in pr[q].cb => p = q

(* When everything has been processed and upstream is answered, a branch      *)
(* whose last recorded reply is provisional (last_received) has been sent a   *)
(* CANCEL, and no final response timer runs.                                  *)
NothingLeftRinging ==
  Quiet /\ Invite /\ uas.status >= 200 =>
    \A x \in 1..nout : /\ uac[x].last \in 100..199 => uac[x].lc = "built"
                       /\ uac[x].fr # "on"

(* No transaction stays behind: with nothing left to process it is on wait,   *)
(* or a final response timer will bring it there.                             *)
NotForgotten == Quiet => wait \/ \E x \in 1..nout : uac[x].fr = "on"

(* A negative final reply to an INVITE is being retransmitted once the        *)
(* processing of the transaction has come to rest.                            *)
NegativeIsRetransmitted == Quiet /\ Invite /\ uas.status >= 300 => uas.retr

(* The negative reply relayed upstream is the best one of all the branches    *)
(* that were sent, whoever stored, faked or received it: each has a final     *)
(* code, and none has a lower get_prio.  (For faked_reply_prio = 0, without   *)
(* t_drop_replies, and unless an error has put the transaction on wait.)      *)
BestIsRelayed ==
  [][uas.status < 200 /\ ~wait /\ uas'.status >= 300 /\ uas'.rb > 0 =>
       \A x \in 1..nout :
         /\ uac'[x].last >= 200
         /\ uac'[x].out => Prio(uac'[uas'.rb].last, FALSE) <= Prio(uac'[x].last, FALSE)]_vars

(* "mark transaction as canceled, so that no new message are forwarded": when *)
(* the request script and e2e_cancel are done, no request is sent on a branch *)
(* that was not canceled.                                                     *)
NothingForwardedAfterCancel ==
  [][canceled /\ pr[Request] = Idle /\ (\A p \in Cancelers : pr[p] = Idle) =>
       \A x \in Br : uac'[x].out => uac[x].out \/ uac'[x].canc]_vars

(* A branch that rang and was not answered has been sent a CANCEL, once the    *)
(* transaction is answered and everything has been processed: a provisional   *)
(* reply that finds a cancel in progress is left to the process that cancels. *)
RingingIsCanceled ==
  Quiet /\ Invite /\ uas.status >= 200 =>
    \A x \in heard : uac[x].last < 200 => uac[x].lc = "built"

(* Every transaction ends: it is put on wait.                                 *)
EndsOnWait == <>wait

(* The caller's CANCEL is answered with a final reply to the INVITE.          *)
CanceledIsAnswered == canceled ~> uas.status >= 200
=============================================================================
