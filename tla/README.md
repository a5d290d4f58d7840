# TLA+ specifications of Kamailio

Kamailio is a SIP server written in C. It runs as a set of UNIX processes
(UDP and TCP workers, timer processes, module processes) that share memory.
This directory keeps specifications of the parts whose correctness depends on
how those processes interleave, the model-checking configurations for TLC, and
proofs checked by TLAPS. File names below are relative to `src/src/`.

## 1. Inventory

| Part | Source | State it shares | Operations | What makes it hard |
|---|---|---|---|---|
| futex lock | `core/futexlock.h` | the lock word | get, try, release | lost wake-ups, interrupted sleeps |
| re-entrant locks | `modules/tm/t_reply.c` (`tm_reply_mutex_*`), `h_table.c` (`lock_hash`) | mutex, holder pid, level | lock, unlock | the pid is read without the lock |
| reply processing | `modules/tm/t_reply.c` | `struct cell`: status, branches, flags | `reply_received`, `relay_reply`, `t_reply`, failure route | several processes decide on one transaction; what was decided under the lock is done after it |
| forwarding | `modules/tm/t_fwd.c` | branches, `nr_of_outgoings` | `t_forward_nonack`, `add_uac`, `t_send_branch`, DNS failover, `e2e_cancel` | lock-free, concurrent with replies to branches already sent |
| cancelling | `modules/tm/t_cancel.c/h` | `local_cancel.buffer`, `F_RB_CANCELED` | `prepare_to_cancel`, `cancel_branch`, `cancel_uacs` | lock-free ownership by compare-and-exchange; the cancel may itself answer the transaction |
| tm timers | `modules/tm/timer.c/h` | retransmission buffers, wait timer | FR timeout, retransmission, `wait_handler` | set and stop race; late answers |
| transaction table | `modules/tm/h_table.c`, `t_lookup.c`, `t_funcs.c` | hash buckets, reference counts | create, look up, unref, unlink, free | lookup against removal, forced freeing |
| async continuation | `modules/tm/t_suspend.c` | blind branch, continue flags | suspend, continue, cancel | races with the FR timer |
| local transactions | `modules/tm/uac.c` | as above | `t_uac`, `local_reply` | |
| core timers | `core/timer.c`, `timer_proc.c` | timer lists, running timer | add, delete, expire, slow timer | deleting a running timer, 32-bit ticks |
| runtime configuration | `core/cfg/` | config blocks, callback list | commit, per-process update | reference counts walked without a lock |
| TCP connections | `core/tcp_main.c`, `tcp_read.c` | connection table, fds passed between processes | send, read, close, time out | hand-over and references |
| DNS cache | `core/dns_cache.c` | hash, LRU, memory limit | look up, add, expire | references, limits |
| dialog | `modules/dialog/` | dialog cells, timers | `next_state_dlg` from callbacks | order of events, references |
| user location | `modules/usrloc/` | contacts, database rows | insert, update, expire, sync | write-back and restarts |
| dmq | `modules/dmq/` | node lists of several servers | notify, merge, ping | unreliable delivery |
| parser, script interpreter, allocators, other modules | `core/parser`, `core/action.c`, `core/mem`, `modules/*` | none shared, or one lock | | sequential; not modelled |

`PROJECT.json` lists every part with its status, the hazards of the code with
the line where they bite and the properties that cover them, and the source
lines each definition stands for.

How the parts interact: a request worker creates the transaction (table),
forwards it (forwarding) and returns to its socket. From then on replies arrive
at other workers (reply processing), time passes in the timer processes
(tm timers on core timers), and the caller may send a CANCEL to yet another
worker (cancelling). All of them meet in one shared `struct cell`, under its
REPLY lock (a re-entrant lock over a futex lock) or with no lock at all. Every
path is meant to end in `put_on_wait`, after which the wait timer frees the cell.

## 2. Scope

The transaction layer is the heart of a SIP proxy, and where the shared state is
touched by the most processes. The modules follow it from the decisions on a
reply down to the lock and the timers it stands on:

1. `Mutex`, `FutexLock`: the lock and what it promises. Model-checked and proved.
2. `TmReply`: reply processing, forwarding, cancelling, FR timers. Model-checked;
   types, locking, the single answer and the ownership of cancels proved.
3. `TimerApi`, `CoreTimer`: what the core timers promise, and the timing wheel
   with its two processes, which keeps it. Model-checked and proved, but for the
   time at which a timer fires.
4. `TmCell`: the life of a transaction: table, references, retransmission
   buffers, wait timer, freeing; built on `TimerApi`. Model-checked and proved.

`TmReply` is about what is decided and sent, `TmCell` about when timers run and
memory is given back; each leaves the other's matter nondeterministic. Section 5
says what is proved and what only model-checked, section 7 what is left out, and
why.

## 3. Modules

### Mutex, FutexLock

`Mutex` is a lock with an owner. `FutexLock` has one action per atomic memory
operation or system call of `futex_get`, `futex_try` and `futex_release`; `pc[p]`
is the next one of process `p`, and the word `lock` is 0, 1 or 2 as in the code.
The kernel (FUTEX_WAIT compares and sleeps in one step, FUTEX_WAKE wakes at most
one, a signal may end a sleep) is modelled from how the code calls it. The
`ADAPTIVE_WAIT` retries change no shared state and are the same action taken
later. `FutexLock` instantiates `Mutex` with the owner being the process in the
critical section.

### TmReply

One server transaction, its branches and the processes that work on it.

State: `nout` is `nr_of_outgoings`; `uac[b]` holds of each branch what decisions
depend on (`last_received`, whether a reply is stored, the cancel buffer,
`F_RB_CANCELED`, whether the request went out, the FR timer); `uas` the status
sent upstream, `relayed_reply_branch` and whether the final reply is being
retransmitted; `canceled` and `six` are flags of the cell; `lock` is the holder
of the REPLY lock. `sent` counts the final replies sent upstream (up to 2) and
`heard` the branches a reply came from; both are observers.

Each process `p` executes a handler: `pr[p].prog` is the list of steps it has
left, the other fields are its local variables (branch, code, cancel bitmap and
so on). One step is what the code does under one acquisition of the REPLY lock,
or one lock-free access to shared state. Steps of other processes fall between
any two of them. The first step of `prog` is what the process does next:

| Step | Code |
|---|---|
| `check`, `add`, `send` | `t_forward_nonack`: test of `T_CANCELED`, `add_uac`, `t_send_branch`, by the request script or by a failure route |
| `failover`, `dns_add` | `add_uac_dns_fallback`: its tests, and its `add_uac`; the loop of its callers goes back to `send` |
| `relay` | `t_should_relay_response` and `relay_reply` up to the failure route or `UNLOCK_REPLIES`; one action for each outcome (`RelayDiscard`, `RelayPushed`, `RelayProvisional`, `RelayPositive`, `RelayStore`, `RelayBest`, `RelayLate`, `RelayRoute`, `RelayRouteReply`, `RelayError`) |
| `repick`, `repick_dropped` | the same after the failure route, which may have replied, forked, or dropped the replies (`RelayReplied`, `RelayForked`, `RelayBest`, `RelayDropped`, `RelayError`) |
| `final_up`, `send_up` | sending upstream; `start_final_repl_retr` |
| `put_on_wait`, `cleanup` | `put_on_wait`, `cleanup_uac_timers` |
| `timeout`, `give_up` | `final_response_handler` before and after the failover; `fake_reply` |
| `t_reply` | `_reply_light` |
| `prepare`, `mark` | `prepare_to_cancel`, branch by branch |
| `cancel`, `cancel_branch`, `fake` | `cancel_uacs`, `cancel_branch`, and the faked 487 inside it |
| `unlock` | the end of the cancel triggered by a provisional reply |

A failure route runs with the REPLY lock held, in several steps: the lock keeps
replies and timeouts out, but not a CANCEL, which takes no lock. The DNS failover is
started by a failed send, by a 503 (or another of `failover_reply_codes`) and by the
FR timer of an unanswered branch. The process holds the REPLY lock then, but for the
request script, which takes it from the test to the `add_uac`: although a comment in
`reply_received` (t_reply.c:2766) says that this code is outside of the lock, the lock
is taken at t_reply.c:2424 and held up to `relay_reply`. The new branch may fail to be
sent as well, and is failed over in turn. `_reply_light` and `relay_reply` have
their error exits (`MemFails`): no reply can be built, or there is no shared memory for
it once the status is set; the second may also happen inside `t_reply_unsafe`, which
is the error exit of `relay_reply`, and after a failure route has forked.

Handlers start with `FinalReceived`, `ProvisionalReceived` (a worker),
`FrExpire` (a timer process) and `E2ECancel` (a worker that got the CANCEL).
`RetransmissionFails` is part of `RetrSpec` only (see `tm_retr_fails`).

Configuration is constant: the method, `reply_relay_mode`, `faked_reply_prio`,
`noisy_ctimer`, DNS failover, what a failure route may do, whether sending and
memory may fail. `cancel_b_method` can change at run time, so it is chosen where
the code reads it.

The parameter `reply_matching` is 0 in the model: the lookup passes over no reply
of a transaction on wait. With the default, 1, `t_reply_matching` skips most late
replies, but it tests `t_on_wait` before it has the REPLY lock, so a reply found
before `put_on_wait` is still processed after it. The behaviours of the default
are a subset of those of the model: what holds here holds there. None of the
five violations needs a reply after `put_on_wait`: each remains when `Arrives` is
restricted to transactions that are not on wait.

Data is abstracted to status codes. The choice of the best reply is modelled in
full (`get_prio`, and `Pick` for the loop of `t_pick_branch` over the stored replies and
the incoming one, which is not stored yet), as is the rewriting of the code of the reply
(503 to 500, faked replies of a cancelled transaction to 487).

Not modelled in these functions: local transactions (`local_reply`), suspended
transactions and blind branches, end-to-end CANCELs that are relayed rather than
answered hop by hop, `T_DISABLE_6xx`, ACKs, aggregation of challenges,
retransmissions of requests and replies, replies dropped by an onreply route
(no state changes), a CANCEL that cannot be built, local provisional replies,
an `add_uac` that fails, a failure route that forks on a late REGISTER reply or that
drops the replies of the last forking only, `T_DISABLE_FAILOVER`, and
`failure_exec_mode=1`, with which a branch that cannot be sent waits for its timer.
The REPLY lock is taken in one step; that this is what
the code does is the subject of `FutexLock`.

### TimerApi, CoreTimer

`TimerApi` is `doc/tutorials/timers.txt` as a state machine: a timer is off, armed
or running in a timer process, and a `timer_del` in progress ends when it has
removed an armed timer, has found none, or was called by the handler itself.

`CoreTimer` is `core/timer.c`. `tl[x]` is a `timer_ln`: its list (`h0`, `h1`, `h2`,
`expired` or a slow list), `expire`, the flags and `slow_idx`. Lists are sets: the
order in which timers of one list fire is left open. `ticks` is moved by
`sig_timer` and followed by `prev_ticks`, modulo the size of the wheel.

| Actions | Code |
|---|---|
| `timer_add`, `timer_reinit`, `timer_init`, `timer_allow_del` | the functions of these names |
| `timer_del`, `DelSlow`, `DelMain`, `DelDetach` | `timer_del_safe`: the choice of the lock without a lock, the tests repeated under it, the removal |
| `timer_main`, `timer_handler`, `MissedTick`, `ExpireFast`, `ExpireSlow`, `MainRelock`, `MainReadd`, `HandOver` | the main timer process: the missed ticks, the expired list, a handler and its return, the ring of slow lists |
| `SlowWakes`, `SlowRuns`, `SlowNextList`, `SlowRelock`, `SlowReadd`, `SlowReadded`, `SlowEnds` | `slow_timer_main` |
| `ReturnsZero`, `ReturnsInterval`, `HandlerReinit` | what a handler may do |

The wheel itself (`timer_dist_tl`, `timer_redist`, `timer_run`) is a set of pure
functions. The two locks are held over several steps where the code holds them.
A handler of the main process may delete any timer, one of the slow process its
own: two timer processes that delete each other's running timers would wait for
each other for ever, a case the runs do not cover. The missed ticks are walked one by
one, with steps of other processes in between; `adjust_ticks`, which moves `*ticks`
as `sig_timer` does, is left out. A client that re-initializes a timer has to
know that nobody else is deleting it (`NotBeingDeleted`): the flags that `timer_del`
chooses the lock by are cleared.

`CoreTimer` implements `TimerApi` with a timer being armed when it is linked, and
running from the call of `f` to its return, or to `timer_allow_del`.

### TmCell

One INVITE transaction with one branch, from the moment its request was sent.
`mem`, `hash`, `ref_count`, `hash_lock` and `reply_lock` are the cell's; `status`,
`last_received` and `cancelled` are as much of the reply state as decides which
timers are started; `rb[b]` has `F_RB_DEL_TIMER` and `t_active` of the three
retransmission buffers (request, reply, local CANCEL), and `added` is
`F_TIMER_ACTIVE`. The timers are `TimerApi`'s variables, and change by its actions
only (`Timer!Add`, `Timer!Fire`, ...).

`todo[p]` is what process `p` has still to do. A worker that finds the cell
(`Lookup`, in the hash lock) processes a reply, a reply to the CANCEL, an ACK, a
CANCEL or the request again, and ends with `UNREF`. The timer processes run
`retr_buf_handler` and `wait_handler`, without a reference. `Stop` includes that
`flags |= F_RB_DEL_TIMER` may be lost against `_set_fr_retr`, which updates the
same word without atomic operations; the other updates of the flags are taken to
be atomic. `free_cell` has a branch for a cell that is still linked or on the wait timer
(h_table.c:141), left out: `CountsReferences` shows that it is not reached. A
retransmission that fails to be sent is left to `TmReply`.

`HandlersApart` says that a final response handler and `wait_handler` of the same
transaction are not executed at the same time: their timers are seconds apart
(see section 6).

## 4. Runs

| Run | Instance | Shows |
|---|---|---|
| `futex` | 4 processes | exclusion, no lost wake-up, progress, refinement of `Mutex` |
| `tm_fork` | INVITE, 2 workers, timer, 2 branches and a third from a failure route, codes 180 200 404 603, 3 replies | one final reply; cancels owned and done; retransmission; no forgotten transaction; relaying locked |
| `tm_cancel` | INVITE, worker, timer, CANCEL with each `cancel_b_method`, 2 branches, silent timeouts, `reply_relay_mode=0`, the script may reply 486 | the same against the caller's CANCEL; a final status stays |
| `tm_register` | REGISTER, 2 workers, failure route, failover, failing sends, no memory | types, one final reply, a final status that stays and the best reply relayed, with failing sends and failing memory |
| `tm_live` | INVITE with CANCEL, 2 branches, 2 replies, fair | every transaction ends on wait; a CANCEL leads to an answer |
| `core_timer` | a fast and a slow timer, a worker and both timer processes, wheel 2x2x4, ring of 2, ticks 3 to 7, lag 2 | deletion waits for the handler and holds the right lock; ring and wheel consistent; refinement of `TimerApi` |
| `tm_cell` | 2 workers, 2 lookups, both timer processes | the cell is freed when nobody uses it; references; no deadlock in `timer_del`; no timer lost; no transaction forgotten |
| `tm_retr_fails` | as `tm_fork` with failing retransmissions | violated: `relay_reply` without the lock |
| `tm_forgotten` | failing sends, fair | violated: a transaction that nothing ends |
| `tm_error` | memory fails | violated: branches marked for cancelling and never cancelled |
| `tm_failover` | DNS failover, forking failure route and CANCEL | violated: a cancelled INVITE is forwarded on |
| `tm_ringing` | a 180 during cancelling | violated: a ringing branch without CANCEL |

`tm_fork` and `tm_register` run in `MCTmReply`, which adds that the workers are
interchangeable: no definition and no property names one. The other runs have a single
worker, or need no reduction.

`BestIsRelayed` is about the stored replies of all branches: whichever process stored,
faked or received them, and although the incoming reply is compared before it is
stored, no branch that was sent has a reply with a lower `get_prio` than the one
relayed. It is stated for `faked_reply_prio=0`: `t_pick_branch` adds the
penalty to stored faked replies only, not to an incoming one.

The five violations are disagreements between the code and its own comments or
documentation. `PROJECT.json` quotes both sides under `findings`.

Bounds. Two workers and one timer process make every pair of concurrent handlers
possible (a request process, two workers and the timer in `tm_fork`). Two branches are needed for one to answer
while the other is open, the third for a branch opened by the failure route
or by failover. Three replies allow a provisional and a final reply on one
branch and a final reply on the other. The codes are one of each class that the
code tells apart; 503 (failover) is in `tm_register`, and `tm_cancel` has 180 and 200
beside the codes the server makes itself (with 603 it has twice the states, 1.2 million,
and holds as well). `Many` (2) is enough for
`sent`, because the properties ask whether a second reply is sent.

In `core_timer` the wheel is small (2x2x4) so that a timer added at tick 3 for four
ticks goes through all of `h2`, `h1` and `h0` before it expires at tick 7, with the
main timer process up to two ticks behind; an interval of two starts in `h1`. A
ring of two lists is full after one hand-over. `FirstIdx` starts its indexes at 2
or 3 of 4, values they have after as many earlier hand-overs: from 2 the ring gets
full, from 3 the index wraps first. One worker is
enough: other deletions come from the handlers. `LagAssumption` and
`WrapAssumption` name what `OnTime` needs. In `tm_cell` two lookups beside the
creator's own work let two workers and both timer processes be in the cell at
once, each worker a second time if the other does not come.

Deadlock is checked in `core_timer` and `tm_cell` without exception, but for a
freed cell (`Gone`). In `TmReply` it is checked, the transaction on wait being allowed to rest (`Rest`).
`tm_register` and `tm_forgotten` turn the check off: with `SendFails` the
transaction of the finding `tm_forgotten` really stops without being on wait.

Fairness. `FairSpec` of `FutexLock`: a process inside the lock code or a
critical section runs on (the scheduler is fair, critical sections are finite);
nobody has to ask for the lock and no signal is promised. `FairSpec` of
`TmReply`: every process goes on with its handler, and an FR timer that is
running is eventually run by a timer process (`core/timer.c` runs whatever is
due). No reply and no CANCEL is promised. Weak fairness of `Step(p)` is enough
although `p` may wait for the REPLY lock: with finitely many replies the
other holders run out.

`CoreTimer` and `TmCell` state no fairness: their properties are safety properties.
That a transaction is freed in the end is split into `NeverForgotten` (a cell
nobody is busy with has an armed timer that goes on with it) and the absence of
deadlock.

Every property of a passing run has a mutant: an operator named in
`PROJECT.json`, defined next to the definition it replaces and marked as such,
that changes the code as a plausible bug would and makes TLC report that property.

## 5. Proofs

All theorems hold for any set of processes, any number of branches and any
configuration allowed by the named assumptions of the modules: `NoProc` is no
process and the request script is none of the others, at least one branch, reply codes
within 100..699, options among those of the code; in `CoreTimer` a wheel and a ring of slow lists of any size, if only the size of the
ring divides the range of its index (`WheelAssumption`); in `TmCell` any finite set
of workers, whose names are not those of timers or timer processes
(`NamesAssumption`).

`FutexLockProofs`. `MutualExclusion` is not inductive: a process enters by reading
0, so 0 has to mean that nobody is inside (`WordTellsOwnership`). The invariant
`Safe` adds the types and `NoLostWakeup`. `FutexImplementsMutex` is the
refinement, step by step; `FutexTypes` and `FutexWordIsRight` are the other two
invariants of the run.

`TmReplyTypes` proves `TypeCorrect`, the type invariant of `TmReply`. The lemmas
`BranchTypes`, `ReturnType`, `ReplyUnsafeType` and so on say what each operator
returns; `ForwardShape` and `ForwardState` what the steps of a forwarding have in common
(`Onward`: the locals are kept, and the program goes on with another step of the
forwarding or with what follows it); then there is one step for each action.

It also proves `RelayIsLocked`. The inductive invariant `LockInv` is about
the programs of the processes. A process runs the handler that cancels under the lock
(`LockedProgs`), or decides on a reply, perhaps after a forwarding (`Decides`), and holds
the lock in both cases; or it is the request script at a forwarding (`Forwards`),
which holds the lock just before the `add_uac` of a failover; or its first step is any
other one and its later steps are of a set (`Later`) that contains none of those
(`Free`). It is needed because a process gets to `relay`, `repick` or `unlock` by
dropping the step before.

`TmReplyUpstream` proves `OneReplyUpstream` and `FinalStatusStays`. A negative final
reply is decided at one time (the status is set, under the lock) and counted as
sent at another (`final_up`, or `send_up` for a late 2xx). The invariant `UpInv`
says that an unanswered transaction (status below 200) has sent no negative
final reply and no process is about to; and that all processes about to send one
and all that was sent add up to at most one. That a program holds at most one
sending step (`Once`) is part of it. Memory and send failures are included: a reply
that could not be built after the status was set is one that is never sent
(`ReplyUnsafeOnce`, `TReplyKeepsUp`).

`TmReplyCancels` proves `CancelsAreOwned`, for INVITE and with memory for
the replies; without the latter it does not hold (`tm_error`). The invariant
`BitmapInv` says that a process whose bitmap is not empty has a step left that
uses it, that `cancel_branch` works on a branch in the bitmap, and that
`relay_reply`, also with a forwarding before it, is entered with a bitmap for negative
codes only, so that a 2xx never overwrites one. `Passes` describes what a step may do to a branch: it enters
the bitmap of the stepping process as its buffer becomes busy, and leaves it as the
buffer stops being busy. It rests on `LockInv`.

`CoreTimerProofs` proves `DelWaits`, `ListsAreGuarded`, `RingIsConsistent`, the types
and, on top of them, `ImplementsTimerApi`. `timer_del_safe` chooses the lock by flags
that it reads without a lock, so everything rests on the flags telling the truth.
The inductive invariant `DelSafe` has five parts beside the types and the ring:
`ProcInv` (which timer each timer process has in hand, and that `running_timer` and
`running_timer2` say so), `LockInv` (who holds the two locks), `FlagInv` (a linked timer
is active, one in the wheel is not marked as slow, one whose handler runs in the slow
process is marked and carries the index of the list being run), `SlowInv` (the main
process never fills the list that the slow one works on) and `DelInv` (a
`timer_del` past its second test has a timer that does not run and is on a list of the
lock it holds). For the refinement each action is shown to be one step of `TimerApi`
or a stutter: a hand-over between lists changes nothing, since a timer is armed
whichever list it is on. Neither `LagAssumption` nor `WrapAssumption` is used: they
concern only when a timer fires.

`TmCellProofs` proves all six invariants of `TmCell`, with `FreedIsUnused` under
`HandlersApart`. None is inductive. Their common invariant `Inv` is about what
every process has still to do:

- `ShapeInv`: each program is that of a worker, which ends in `UNREF`, or in a timer
  process a retransmission, a wait for the REPLY lock before the timer is armed again,
  a final response, or `wait_handler`. It also says which steps can only be the next.
- `LockInv`: the REPLY lock is held by exactly the process inside a critical section
  of `reply_received`, which stops a timer of the request or of the CANCEL.
- `RunInv`: a timer is running in a process just when that process's program ends by
  giving that timer up. `NoDelDeadlock` follows from the three: a handler that a
  `timer_del` waits for is before its `timer_allow_del`, and waits for no lock there.
- `TimerInv`: `deleting` and `t_active` agree with the programs and with
  `F_TIMER_ACTIVE`; the wait timer is added once and then never off.
- `RefsInv`: `ref_count` is the number of programs that end in `UNREF`, and one for the
  table; the table's is the last one when `wait_handler` gives it back.
- `ApartInv`, `FreeInv`: while `wait_handler` runs, the other process is idle or runs the
  handler of a timer that `wait_handler` will wait for; when it is about to free the cell,
  every timer is off or about to be stopped by it.
- `ReqInv`, `PendInv`: the timer of the request is added once, by the creator. As long as the
  transaction is not on wait, either some process has a step left that leads to
  `put_on_wait`, or the timer of the request is armed or about to be, and not marked
  as deleted; who stops that timer has such a step left; and once there is a final status
  some process is before `put_on_wait`.

The proof has first what a step does to the program of its process (one lemma for each
action), then for each part of `Inv` what a step does to the state that the part
reads (`NextEffect`, `NextRefEffect`, `NextAdded`, `NextPends`), then one lemma for each part
(`NextShape`, `NextLock`, ...).

TLC found the inductive invariants `LockInv`, `UpInv`, `BitmapInv`, `DelSafe` and `Inv`
to hold on the instances of the runs (of `TmReply` with two replies).

Only model-checked: the liveness properties (fairness is out of reach of the
prover), among them the progress of the futex lock; `NothingLeftRinging`,
`NotForgotten`, `NegativeIsRetransmitted` and `BestIsRelayed` of `TmReply`, which need an
invariant that ties the bitmaps, the branches and the status to one another; and `OnTime`
of `CoreTimer`, which needs the position of every timer in the wheel in nonlinear
arithmetic.

## 6. Limits of the code that the models show

None of these is a violation run; each is excluded by a named assumption or
condition, and appears when that is removed.

- Wrapping ticks. `timer_handler` compares `prev_ticks >= saved_ticks`, although
  `timers.txt` (4.8) asks that ticks are never compared directly. After the wrap
  the wheel is not walked for one round of the handler, and timers of the skipped
  slots wait for the wheel to come around. `WrapAssumption`; seen with `H0 = 4`,
  `FirstTick = 14`, `LastTick = 13`, `Deltas = {1, 2, 5}`, one fast timer.
- A late main timer process. A timer added for less than `H0` ticks, while the
  process is behind by enough, lands in a slot of `h0` that is walked before it
  is due, and fires early. `LagAssumption`; seen with `H0 = 2`, `H2 = 4`,
  `FirstTick = 2`, `Deltas = {1, 5}`. In the build `H0` is 16384 ticks.
- The distance of `t_idx` and `s_idx` is computed in `int`: when `t_idx` has wrapped
  and `s_idx` has not, the ring counts as full ("slow timer too slow") until the
  slow process has caught up. Harmless: `RingIsConsistent` holds.
- `timer_reinit` during another process's `timer_del` of the same timer would let
  that process detach it under the wrong lock. `NotBeingDeleted` is what a client
  has to ensure.
- `timer_allow_del` in `retr_buf_handler` is marked "[optional]". Without it a
  worker that stops the timer with the REPLY lock held and the handler that wants
  the lock wait for each other: it is the mutant of `NoDelDeadlock`.
- The final response handler has no reference and is, after `timer_allow_del`,
  waited for by nobody. With `HandlersApart = FALSE` `wait_handler` frees the cell
  under it. The comment before the call warns of it; what excludes it is the
  time between the two timers.
- The lifetime limit. A cell unlinked after `TM_LIFETIME_LIMIT` seconds is freed by
  `UNREF_FREE` while workers hold references, whose `UNREF` may free it again.
  `FreedIsUnused` is stated for cells that are not `unlinked`.
- CANCEL against a failure route that forks. The route adds a branch, `e2e_cancel` marks
  and cancels it (with `cancel_b_method=1` nothing is sent for an unanswered branch), and
  `t_forward_nonack` then finds `T_CANCELED` and does not send it. The branch has no reply
  and no timer, `t_pick_branch` takes it for open, and nothing ends the transaction.
  `tm_cancel` and `tm_live` have no failure route; `tm_live` with
  `FailureRoute = {"fork"}` violates `EndsOnWait`.
- `faked_reply_prio` is added to the priority of stored faked replies only, while
  `modules/tm/doc/params.xml` describes it for faked replies in general: with it, a faked reply
  that comes last may be relayed although a real one of another branch is better.

From reading `core/cfg/cfg_struct.h`, not from a model: in `cfg_update_local` a process
that drops the count of a callback item to 0 and is overtaken before `CFG_LOCK` by
one that moves on to that item, and frees the item before it, then finds the item
first in the list and frees it, although the other process is now at it.

## 7. Not modelled

- Re-entrant locks of tm. A process compares `reply_locker_pid` with its own pid
  without the lock; the comparison is true only if the process wrote the pid
  itself and has not unlocked since. The level is touched by the holder only.
  The models take the lock in one step.
- Async continuation and local transactions: `t_continue` runs a route under
  another lock and then reply processing again, `local_reply` is a second version of
  `relay_reply`. Both would multiply the relay actions of `TmReply`.
- Runtime configuration, TCP connections, DNS cache, dialog, user location, dmq and
  the other modules: components of their own, which the transaction layer uses only
  through results (a send fails, a parameter has a value) that are
  nondeterministic here. Their databases and networks are not in the repository.
- Parser, message construction, script interpreter, allocators: sequential code on
  text or raw memory. What a script may do, and that memory may run out, is
  nondeterminism of `TmReply`.
