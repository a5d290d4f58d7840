--------------------------- MODULE TmReplyCancels ---------------------------
(***************************************************************************)
(* Cancelling in TmReply, for any number of processes and branches: every   *)
(* branch with a cancel in progress is owned by one process, as long as     *)
(* memory suffices to build the replies.                                    *)
(***************************************************************************)
EXTENDS TmReplyTypes

(* The steps of a handler with branches in its bitmap lead to cancel_branch *)
NoCancel == StepNames \ {"relay", "repick", "repick_dropped", "fake", "mark", "cancel",
                         "cancel_branch"}
Empty == {"t_reply", "timeout", "unlock"}
BitmapOK(r) ==
  /\ r.prog \in Seq(NoCancel) => r.cb = {}
  /\ r.how = "locked" => r.cb \subseteq {r.b}
  /\ r.prog # <<>> => /\ Head(r.prog) = "cancel_branch" => r.b \in r.cb
                      /\ Head(r.prog) \in {"relay"} \cup ForwardSteps => r.cb = {} \/ r.code >= 300
                      /\ Head(r.prog) \in Empty => r.cb = {}
BitmapInv == \A p \in Procs : BitmapOK(pr[p])

-----------------------------------------------------------------------------
LEMMA NoCancelSeq ==
  ASSUME NEW g \in Seq(StepNames), g # <<>>
  PROVE  /\ Head(g) \in NoCancel /\ Tail(g) \in Seq(NoCancel) => g \in Seq(NoCancel)
         /\ g \in Seq(NoCancel) => Head(g) \in NoCancel
<1>1. ASSUME Head(g) \in NoCancel, Tail(g) \in Seq(NoCancel)
      PROVE  g \in Seq(NoCancel)
  <2>1. g = <<Head(g)>> \o Tail(g)
    OBVIOUS
  <2> QED
    BY <1>1, <2>1
<1> QED
  BY <1>1

LEMMA CancelSets ==
  /\ "cancel" \notin NoCancel /\ "relay" \notin NoCancel /\ "fake" \notin NoCancel
  /\ "mark" \notin NoCancel /\ "cancel_branch" \notin NoCancel
  /\ "repick" \notin NoCancel /\ "repick_dropped" \notin NoCancel
  /\ {"t_reply", "timeout", "final_up", "send_up", "put_on_wait",
      "cleanup", "prepare", "unlock", "give_up"} \subseteq NoCancel
  /\ ForwardSteps \subseteq NoCancel
  /\ \A s \in Later : s \notin Empty \cup ForwardSteps /\ s # "cancel_branch" /\ s # "relay"
  /\ Empty \cap ForwardSteps = {} /\ Empty \cap DecideSteps = {}
  /\ \A s \in DecideSteps : s \in NoCancel => s = "give_up"
BY DEF NoCancel, StepNames, Later, Empty, ForwardSteps, DecideSteps

(* A bitmap that is not empty is passed on with a step that uses it.          *)
LEMMA AfterCancels ==
  ASSUME NEW ctx, NEW completed \in BOOLEAN, NEW relayed \in BOOLEAN, NEW bm, bm # {}
  PROVE  After(ctx, completed, relayed, bm) \notin Seq(NoCancel)
<1>1. ASSUME NEW x \in Seq(Later), NEW y \in Seq(Later)
      PROVE  x \o <<"cancel">> \o y \notin Seq(NoCancel)
  <2>1. /\ Len(x) + 1 \in DOMAIN (x \o <<"cancel">> \o y)
        /\ (x \o <<"cancel">> \o y)[Len(x) + 1] = "cancel"
    BY <1>1
  <2> QED
    BY <2>1, CancelSets
<1>2. \A w \in BOOLEAN : UpSteps(completed, relayed, w) \in Seq(Later)
  <2> TAKE w \in BOOLEAN
  <2>1. CASE ~relayed
    BY <2>1 DEF UpSteps
  <2>2. CASE relayed /\ ~completed
    <3>1. UpSteps(completed, relayed, w) = <<"send_up">>
      BY <2>2 DEF UpSteps
    <3> QED
      BY <3>1 DEF Later
  <2>3. CASE relayed /\ completed /\ w
    <3>1. UpSteps(completed, relayed, w) = <<"final_up", "put_on_wait">>
      BY <2>3 DEF UpSteps
    <3> QED
      BY <3>1 DEF Later
  <2>4. CASE relayed /\ completed /\ ~w
    <3>1. UpSteps(completed, relayed, w) = <<"final_up">>
      BY <2>4 DEF UpSteps
    <3> QED
      BY <3>1 DEF Later
  <2> QED
    BY <2>1, <2>2, <2>3, <2>4
<1>3. CancelSteps(bm) = <<"cancel">>
  BY DEF CancelSteps
<1>4. /\ (IF completed THEN <<"put_on_wait">> ELSE <<>>) \in Seq(Later)
      /\ (IF ctx = "reply" /\ completed THEN <<"cleanup">> ELSE <<>>) \in Seq(Later)
  <2>1. <<"put_on_wait">> \in Seq(Later) /\ <<"cleanup">> \in Seq(Later) /\ <<>> \in Seq(Later)
    BY DEF Later
  <2> QED
    BY <2>1
<1>5. CASE ctx = "timer"
  BY <1>1, <1>2, <1>3, <1>4, <1>5, Zenon DEF After
<1>6. CASE ctx # "timer"
  <2>1. PICK a \in Seq(Later), c \in Seq(Later) :
          After(ctx, completed, relayed, bm) = a \o c \o <<"cancel">>
    BY <1>2, <1>3, <1>4, <1>6, Zenon DEF After
  <2>2. a \o c \in Seq(Later) /\ <<>> \in Seq(Later)
    OBVIOUS
  <2>3. (a \o c) \o <<"cancel">> = (a \o c) \o <<"cancel">> \o <<>>
    BY <2>2
  <2> QED
    BY <1>1, <2>1, <2>2, <2>3
<1> QED
  BY <1>5, <1>6

-----------------------------------------------------------------------------
(* A branch enters the bitmap of the stepping process when it becomes busy,   *)
(* and leaves it when it is no longer busy.                                   *)
Passes(old, new, u, v) ==
  \A x \in Br : \/ (x \in new <=> x \in old) /\ (v[x].lc = "busy" <=> u[x].lc = "busy")
                \/ x \in new /\ x \notin old /\ u[x].lc # "busy" /\ v[x].lc = "busy"
                \/ x \notin new /\ x \in old /\ v[x].lc # "busy"

LEMMA OwnFrame ==
  ASSUME TypeOK, BitmapInv, CancelOwned, NEW p \in Procs, NEW r, Continue(p, r),
         BitmapOK(r), Passes(pr[p].cb, r.cb, uac, uac')
  PROVE  BitmapInv' /\ CancelOwned'
<1>1. pr'[p] = IF r.prog = <<>> THEN Idle ELSE r
  BY DEF Continue, TypeOK
<1>2. \A q \in Procs : q # p => pr'[q] = pr[q]
  BY DEF Continue, TypeOK
<1>3. BitmapOK(Idle) /\ Idle.cb = {}
  BY DEF BitmapOK, Idle
<1>4. pr'[p].cb = r.cb
  <2>1. r.prog = <<>> => r.prog \in Seq(NoCancel)
    OBVIOUS
  <2>2. r.prog = <<>> => r.cb = {}
    BY <2>1 DEF BitmapOK
  <2> QED
    BY <1>1, <1>3, <2>2, Zenon
<1>5. BitmapInv'
  BY <1>1, <1>2, <1>3 DEF BitmapInv
<1>6. ASSUME NEW x \in Br
      PROVE  /\ uac'[x].lc = "busy" => \E q \in Procs : x \in pr'[q].cb
             /\ \A q \in Procs : x \in pr'[q].cb => uac'[x].lc = "busy"
             /\ \A q1, q2 \in Procs : x \in pr'[q1].cb /\ x \in pr'[q2].cb => q1 = q2
  <2>0. /\ uac[x].lc = "busy" => \E q \in Procs : x \in pr[q].cb
        /\ \A q \in Procs : x \in pr[q].cb => uac[x].lc = "busy"
        /\ \A q1, q2 \in Procs : x \in pr[q1].cb /\ x \in pr[q2].cb => q1 = q2
    BY DEF CancelOwned
  <2>1. CASE (x \in r.cb <=> x \in pr[p].cb) /\ (uac'[x].lc = "busy" <=> uac[x].lc = "busy")
    <3>1. \A q \in Procs : x \in pr'[q].cb <=> x \in pr[q].cb
      BY <1>2, <1>4, <2>1
    <3> QED
      BY <2>0, <2>1, <3>1
  <2>2. CASE x \in r.cb /\ x \notin pr[p].cb /\ uac[x].lc # "busy" /\ uac'[x].lc = "busy"
    <3>1. \A q \in Procs : x \in pr'[q].cb <=> q = p
      BY <1>2, <1>4, <2>0, <2>2
    <3> QED
      BY <2>2, <3>1
  <2>3. CASE x \notin r.cb /\ x \in pr[p].cb /\ uac'[x].lc # "busy"
    <3>1. \A q \in Procs : x \notin pr'[q].cb
      BY <1>2, <1>4, <2>0, <2>3
    <3> QED
      BY <2>3, <3>1
  <2> QED
    BY <2>1, <2>2, <2>3 DEF Passes
<1> QED
  BY <1>5, <1>6 DEF CancelOwned

(* What the updates of the branch table do to the cancels.                    *)
LEMMA KeepLc ==
  ASSUME NEW u \in [Br -> Uac], NEW x \in Br
  PROVE  /\ AllStopped(u)[x].lc = u[x].lc
         /\ NoReplies(u)[x].lc = u[x].lc
         /\ \A bm : Busy(u, bm)[x].lc = IF x \in bm THEN "busy" ELSE u[x].lc
         /\ AllKilled(u)[x].lc = "busy" <=> u[x].lc = "busy"
         /\ x \in ToCancel(u) => u[x].lc = "free"
<1>1. AllStopped(u)[x].lc = u[x].lc
  BY DEF AllStopped, Stopped, Uac
<1>2. NoReplies(u)[x].lc = u[x].lc
  BY DEF NoReplies, Uac
<1>4. \A bm : Busy(u, bm)[x].lc = IF x \in bm THEN "busy" ELSE u[x].lc
  BY DEF Busy, Uac
<1>5. AllKilled(u)[x].lc = "busy" <=> u[x].lc = "busy"
  <2>1. Stopped(u[x]) \in Uac /\ Stopped(u[x]).lc = u[x].lc
    BY DEF Stopped, Uac
  <2>2. ASSUME NEW v \in Uac PROVE Killed(v).lc = "busy" <=> v.lc = "busy"
    BY <2>2 DEF Killed, Cancelable, Uac
  <2>3. AllKilled(u)[x] = IF x <= nout THEN Killed(Stopped(u[x])) ELSE u[x]
    BY DEF AllKilled
  <2> QED
    BY <2>1, <2>2, <2>3
<1>6. x \in ToCancel(u) => u[x].lc = "free"
  BY DEF ToCancel, Cancelable
<1> QED
  BY <1>1, <1>2, <1>4, <1>5, <1>6

(* t_reply_unsafe cancels branches nobody else is cancelling.                 *)
LEMMA ReplyUnsafeLc ==
  ASSUME Invite, NEW u \in [Br -> Uac], NEW c, ReplyUnsafe(u, c), NEW x \in Br
  PROVE  uac'[x].lc = "busy" <=> u[x].lc = "busy"
<1>1. uac' = AllKilled(u) \/ uac' = AllStopped(u)
  BY Zenon DEF ReplyUnsafe
<1> QED
  BY <1>1, KeepLc

LEMMA RelayLc ==
  ASSUME TypeOK, NEW p \in Procs, NEW x \in Br
  PROVE  /\ Received(p)[x].lc = uac[x].lc
         /\ Stored(p, Received(p))[x].lc = uac[x].lc
         /\ Stored(p, uac)[x].lc = uac[x].lc
<1>1. uac \in [Br -> Uac] /\ pr[p].b \in Br
  BY RelayTypes DEF TypeOK
<1>2. Received(p)[x].lc = uac[x].lc
  BY <1>1 DEF Received, Uac
<1>3. \A u \in [Br -> Uac] : Stored(p, u)[x].lc = u[x].lc
  BY <1>1 DEF Stored, Uac
<1> QED
  BY <1>1, <1>2, <1>3, RelayTypes

(* relay_reply returns with the bitmap it was left with.                      *)
LEMMA ReturnOwned ==
  ASSUME TypeOK, NEW p \in Procs, pr[p].how # "locked",
         NEW completed \in BOOLEAN, NEW relayed \in BOOLEAN, NEW code, NEW bm,
         Return(p, completed, relayed, code, bm)
  PROVE  \E r : Continue(p, r) /\ BitmapOK(r) /\ r.cb = bm
<1>1. PICK how \in HowAfter(pr[p], completed) :
        Continue(p, [pr[p] EXCEPT !.prog = After(pr[p].ctx, completed, relayed, bm),
                                  !.how = how, !.code = code, !.cb = bm])
  BY Zenon DEF Return
<1> DEFINE r == [pr[p] EXCEPT !.prog = After(pr[p].ctx, completed, relayed, bm),
                              !.how = how, !.code = code, !.cb = bm]
<1>2. pr[p] \in Proc
  BY RelayTypes
<1>3. r.prog = After(pr[p].ctx, completed, relayed, bm) /\ r.cb = bm /\ r.how = how
  BY <1>2 DEF Proc
<1>4. how # "locked"
  BY HowFree
<1>5. Continue(p, r)
  BY <1>1
<1> HIDE DEF r
<1>6. r.prog \in Seq(Later)
  BY <1>3, AfterLater
<1>7. r.prog \in Seq(NoCancel) => r.cb = {}
  BY <1>3, AfterCancels
<1>8. BitmapOK(r)
  BY <1>3, <1>4, <1>6, <1>7, LaterSeq, CancelSets DEF BitmapOK
<1> QED
  BY <1>3, <1>5, <1>8

LEMMA RelayOwned ==
  ASSUME TypeOK, LockInv, BitmapInv, CancelOwned, Invite, ~MemFails, NEW p \in Procs, Relay(p)
  PROVE  BitmapInv' /\ CancelOwned'
<1>0. /\ uac \in [Br -> Uac] /\ Received(p) \in [Br -> Uac] /\ Stored(p, Received(p)) \in [Br -> Uac]
      /\ nout \in 0..MaxBranches /\ pr[p].code \in Int
  <2>1. pr[p].code \in Codes
    BY RelayTypes
  <2>2. Codes \subseteq Int
    BY DEF Codes
  <2> QED
    BY <2>1, <2>2, RelayTypes, Zenon DEF TypeOK
<1>1. pr[p].how # "locked" /\ pr[p] \in Proc
  BY RelayAt, AtDecides, RelayTypes
<1>a. ASSUME NEW completed \in BOOLEAN, NEW relayed \in BOOLEAN, NEW code, NEW bm,
             Return(p, completed, relayed, code, bm), Passes(pr[p].cb, bm, uac, uac')
      PROVE  BitmapInv' /\ CancelOwned'
  <2>1. PICK r : Continue(p, r) /\ BitmapOK(r) /\ r.cb = bm
    BY <1>1, <1>a, ReturnOwned
  <2> QED
    BY <1>a, <2>1, OwnFrame
<1>b. ASSUME \A x \in Br : uac'[x].lc = "busy" <=> uac[x].lc = "busy"
      PROVE  Passes(pr[p].cb, pr[p].cb, uac, uac')
  BY <1>b DEF Passes
<1>c. \A x \in pr[p].cb : uac[x].lc = "busy"
  BY RelayTypes DEF CancelOwned
<1>2. CASE RelayDiscard(p)
  <2>1. \A x \in Br : uac'[x].lc = uac[x].lc
    BY <1>2 DEF RelayDiscard, tvars
  <2> QED
    BY <1>2, <1>a, <1>b, <2>1, Zenon DEF RelayDiscard
<1>3. CASE RelayPushed(p)
  <2>1. \A x \in Br : uac'[x].lc = uac[x].lc
    BY <1>3, RelayLc DEF RelayPushed
  <2> QED
    BY <1>3, <1>a, <1>b, <2>1, Zenon DEF RelayPushed
<1>4. CASE RelayProvisional(p)
  <2>1. \A x \in Br : uac'[x].lc = uac[x].lc
    BY <1>4, RelayLc DEF RelayProvisional
  <2>2. Return(p, FALSE, pr[p].code # 100, pr[p].code, pr[p].cb)
    BY <1>4, Zenon DEF RelayProvisional
  <2>3. PICK relayed \in BOOLEAN : Return(p, FALSE, relayed, pr[p].code, pr[p].cb)
    BY <2>2, Zenon
  <2> QED
    BY <1>a, <1>b, <2>1, <2>3, Zenon
<1>5. CASE RelayPositive(p)
  <2> DEFINE bm == ToCancel(Received(p))
  <2>1. uac' = Busy(Received(p), bm) /\ Return(p, TRUE, TRUE, pr[p].code, bm)
    BY <1>5, ZenonT(40) DEF RelayPositive
  <2>2. pr[p].cb = {}
    BY <1>0, <1>5 DEF BitmapInv, BitmapOK, At, RelayPositive, Deciding, Relaying, Is2xx
  <2>3. \A x \in Br : /\ uac'[x].lc = IF x \in bm THEN "busy" ELSE uac[x].lc
                      /\ x \in bm => uac[x].lc = "free"
    BY <1>0, <2>1, KeepLc, RelayLc
  <2> HIDE DEF bm
  <2>4. Passes(pr[p].cb, bm, uac, uac')
    BY <2>2, <2>3 DEF Passes
  <2> QED
    BY <1>a, <2>1, <2>4, Zenon
<1>6. CASE RelayStore(p)
  <2> DEFINE bm == IF pr[p].code >= 600 /\ ~six THEN ToCancel(Received(p)) ELSE {}
  <2>1. uac' = Busy(Stored(p, Received(p)), bm) /\ Return(p, FALSE, FALSE, pr[p].code, pr[p].cb \cup bm)
    BY <1>6, Zenon DEF RelayStore
  <2>2. \A x \in Br : x \in bm => uac[x].lc = "free"
    BY <1>0, KeepLc, RelayLc
  <2> HIDE DEF bm
  <2>3. \A x \in Br : uac'[x].lc = IF x \in bm THEN "busy" ELSE uac[x].lc
    BY <1>0, <2>1, KeepLc, RelayLc
  <2>4. Passes(pr[p].cb, pr[p].cb \cup bm, uac, uac')
    BY <1>c, <2>2, <2>3 DEF Passes
  <2> QED
    BY <1>a, <2>1, <2>4, Zenon
<1>7. CASE RelayBest(p)
  <2>1. \A x \in Br : uac'[x].lc = uac[x].lc
    BY <1>7, RelayLc DEF RelayBest
  <2>2. \E c : Return(p, TRUE, TRUE, c, pr[p].cb)
    BY <1>7, Zenon DEF RelayBest
  <2> QED
    BY <1>a, <1>b, <2>1, <2>2, Zenon
<1>8. CASE RelayLate(p)
  <2>1. \A x \in Br : uac'[x].lc = uac[x].lc
    BY <1>8, RelayLc DEF RelayLate
  <2> QED
    BY <1>8, <1>a, <1>b, <2>1, Zenon DEF RelayLate
<1>d. ASSUME NEW r, Continue(p, r), BitmapOK(r), r.cb = pr[p].cb,
             \A x \in Br : uac'[x].lc = "busy" <=> uac[x].lc = "busy"
      PROVE  BitmapInv' /\ CancelOwned'
  BY <1>b, <1>d, OwnFrame
<1>9. CASE RelayRoute(p)
  <2>1. PICK act \in {"fork", "drop", "dropfork"} :
          Continue(p, [pr[p] EXCEPT !.prog = RoutePrograms[act], !.todo = {}])
    BY <1>9, OptionAssumption, Zenon DEF RelayRoute
  <2> DEFINE r == [pr[p] EXCEPT !.prog = RoutePrograms[act], !.todo = {}]
  <2>2. /\ r.prog = RoutePrograms[act] /\ r.cb = pr[p].cb /\ r.how = pr[p].how
        /\ r.code = pr[p].code
    BY <1>1 DEF Proc
  <2>3. RoutePrograms[act] \in {<<"check", "repick">>, <<"repick_dropped">>,
                                <<"check", "repick_dropped">>}
    BY DEF RoutePrograms
  <2>4. Continue(p, r) /\ uac' = Received(p) /\ pr[p].code >= 300
    BY <1>9, <2>1, Zenon DEF RelayRoute, LastAnswer
  <2> HIDE DEF r
  <2>5. ASSUME NEW g \in {<<"check", "repick">>, <<"repick_dropped">>,
                          <<"check", "repick_dropped">>}
        PROVE  g # <<>> /\ Head(g) \in {"check", "repick_dropped"} /\ g \notin Seq(NoCancel)
    <3>1. g # <<>> /\ Head(g) \in {"check", "repick_dropped"}
      BY <2>5
    <3>2. \E i \in DOMAIN g : g[i] \in {"repick", "repick_dropped"}
      BY <2>5
    <3> QED
      BY <3>1, <3>2, CancelSets
  <2>6. "check" \notin Empty /\ "repick_dropped" \notin Empty
    BY DEF Empty
  <2>7. BitmapOK(r)
    BY <1>1, <2>2, <2>3, <2>4, <2>5, <2>6, Zenon DEF BitmapOK
  <2>8. \A x \in Br : uac'[x].lc = uac[x].lc
    BY <2>4, RelayLc
  <2> QED
    BY <1>d, <2>2, <2>4, <2>7, <2>8, Zenon
<1>10. CASE RelayRouteReply(p)
  <2> DEFINE r == [pr[p] EXCEPT !.prog = <<"repick">>]
  <2>1. r.prog = <<"repick">> /\ r.cb = pr[p].cb /\ r.how = pr[p].how
    BY <1>1 DEF Proc
  <2>2. Continue(p, r) /\ \E c : ReplyUnsafe(Received(p), c)
    BY <1>10, Zenon DEF RelayRouteReply
  <2>3. \A x \in Br : uac'[x].lc = "busy" <=> uac[x].lc = "busy"
    BY <1>0, <2>2, ReplyUnsafeLc, RelayLc
  <2> HIDE DEF r
  <2>4. BitmapOK(r)
    BY <1>1, <2>1, CancelSets DEF BitmapOK, Empty, ForwardSteps
  <2> QED
    BY <1>d, <2>1, <2>2, <2>3, <2>4
<1>11. CASE RelayReplied(p)
  <2>1. \A x \in Br : uac'[x].lc = uac[x].lc
    BY <1>11 DEF RelayReplied, tvars
  <2> QED
    BY <1>11, <1>a, <1>b, <2>1, Zenon DEF RelayReplied
<1>12. CASE RelayForked(p)
  <2>1. \A x \in Br : uac'[x].lc = uac[x].lc
    BY <1>12, RelayLc, Zenon DEF RelayForked
  <2> QED
    BY <1>12, <1>a, <1>b, <2>1, Zenon DEF RelayForked
<1>13. CASE RelayDropped(p)
  <2>0. NoReplies(uac) \in [Br -> Uac]
    BY <1>0, BranchesTypes
  <2>1. uac' = NoReplies(uac) \/ ReplyUnsafe(NoReplies(uac), 500)
    BY <1>13, Zenon DEF RelayDropped
  <2>2. \A x \in Br : uac'[x].lc = "busy" <=> uac[x].lc = "busy"
    BY <1>0, <2>0, <2>1, ReplyUnsafeLc, KeepLc
  <2>3. \E completed \in BOOLEAN : Return(p, completed, FALSE, pr[p].code, pr[p].cb)
    BY <1>13, Zenon DEF RelayDropped
  <2> QED
    BY <1>a, <1>b, <2>2, <2>3, Zenon
<1> QED
  BY <1>2, <1>3, <1>4, <1>5, <1>6, <1>7, <1>8, <1>9, <1>10, <1>11, <1>12, <1>13, Zenon
    DEF Relay, RelayError

-----------------------------------------------------------------------------
(* Which locals keep the bitmap invariant                                     *)

LEMMA EmptyBitmap ==
  ASSUME NEW r, r.cb = {}, r.prog # <<>> => Head(r.prog) # "cancel_branch"
  PROVE  BitmapOK(r)
BY DEF BitmapOK

LEMMA UsedBitmap ==
  ASSUME NEW r, r.how # "locked", r.prog # <<>>, Head(r.prog) \in {"mark", "cancel", "fake"}
  PROVE  BitmapOK(r)
<1>1. r.prog \notin Seq(NoCancel)
  BY CancelSets
<1>2. Head(r.prog) \notin Empty \cup ForwardSteps
  BY DEF Empty, ForwardSteps
<1> QED
  BY <1>1, <1>2 DEF BitmapOK

(* A step that does not cancel leaves the bitmap to the steps that follow.    *)
LEMMA PoppedBitmap ==
  ASSUME TypeOK, LockInv, BitmapInv, NEW p \in Procs, NEW s \in NoCancel \cap FirstSteps, At(p, s)
  PROVE  BitmapOK(Pop(pr[p])) /\ Pop(pr[p]).cb = pr[p].cb
<1>1. pr[p] \in Proc /\ pr[p].prog \in Seq(StepNames) /\ pr[p].prog # <<>> /\ Head(pr[p].prog) = s
  BY RelayTypes DEF Proc, At
<1>2. Free(pr[p])
  BY AtFree, CancelSets
<1> DEFINE r == Pop(pr[p])
<1>3. r.prog = Tail(pr[p].prog) /\ r.cb = pr[p].cb /\ r.how = pr[p].how
  BY <1>1 DEF Pop, Proc
<1>4. r.prog # <<>> => Head(r.prog) \in Later
  BY <1>1, <1>2, PopFree
<1> HIDE DEF r
<1>5. r.prog \in Seq(NoCancel) => r.cb = {}
  BY <1>1, <1>3, NoCancelSeq DEF BitmapInv, BitmapOK
<1>6. r.how # "locked"
  BY <1>2, <1>3 DEF Free
<1>7. BitmapOK(r)
  BY <1>4, <1>5, <1>6, CancelSets DEF BitmapOK
<1> QED
  BY <1>3, <1>7 DEF r

-----------------------------------------------------------------------------
(* Forwarding passes the bitmap on.                                           *)
LEMMA ForwardOwned ==
  ASSUME TypeOK, LockInv, BitmapInv, CancelOwned, NEW p \in Procs, Forward(p)
  PROVE  BitmapInv' /\ CancelOwned'
<1>0. pr[p] \in Proc /\ BitmapOK(pr[p]) /\ \A x \in Br : uac'[x].lc = uac[x].lc
  BY ForwardState, RelayTypes DEF BitmapInv
<1>1. PICK r : Continue(p, r) /\ Onward(p, r)
  BY ForwardShape
<1>2. PICK s \in ForwardSteps : pr[p].prog # <<>> /\ Head(pr[p].prog) = s /\ At(p, s)
  BY ForwardState DEF At
<1>a. ASSUME BitmapOK(r), r.cb = pr[p].cb
      PROVE  BitmapInv' /\ CancelOwned'
  <2>1. Passes(pr[p].cb, r.cb, uac, uac')
    BY <1>0, <1>a DEF Passes
  <2> QED
    BY <1>1, <1>a, <2>1, OwnFrame
<1>3. pr[p].cb = {} \/ pr[p].code >= 300
  BY <1>0, <1>2, Zenon DEF BitmapOK
<1>4. CASE p = Request
  <2>1. pr[p].prog = <<s>> /\ pr[p].how = "none"
    BY <1>2, <1>4, AtForward, Zenon
  <2>2. <<s>> \in Seq(NoCancel)
    BY CancelSets
  <2>3. pr[p].cb = {}
    BY <1>0, <2>1, <2>2, Zenon DEF BitmapOK
  <2>4. CASE r.prog \in {<<>>, <<"t_reply">>} /\ r.cb = {}
    BY <1>a, <2>3, <2>4, EmptyBitmap
  <2>5. ASSUME Kept(r, pr[p]), NEW f \in ForwardSteps, r.prog = <<f>> \o Tail(pr[p].prog)
        PROVE  BitmapInv' /\ CancelOwned'
    <3>1. Tail(<<s>>) = <<>> /\ <<f>> \o <<>> = <<f>>
      OBVIOUS
    <3>2. r.prog = <<f>> /\ r.cb = {}
      BY <2>1, <2>3, <2>5, <3>1, Zenon DEF Kept
    <3>3. f # "cancel_branch"
      BY <2>5 DEF ForwardSteps
    <3>4. BitmapOK(r)
      BY <3>2, <3>3, EmptyBitmap
    <3> QED
      BY <1>a, <2>3, <3>2, <3>4
  <2> QED
    BY <1>1, <1>4, <2>4, <2>5 DEF Onward
<1>5. CASE p # Request
  <2>1. PICK d \in DecideSteps : pr[p].prog = <<s, d>>
    BY <1>2, <1>5, AtForward, Zenon
  <2>2. pr[p].how # "locked"
    BY <1>2, <1>5, AtForward, Zenon
  <2>3. d \in NoCancel => pr[p].cb = {}
    <3>1. d \in NoCancel => <<s, d>> \in Seq(NoCancel)
      BY CancelSets
    <3> QED
      BY <1>0, <2>1, <3>1, Zenon DEF BitmapOK
  <2>4. Tail(<<s, d>>) = <<d>>
    OBVIOUS
  <2>5. CASE Kept(r, pr[p]) /\ r.prog = <<d>>
    <3>1. r.prog \in Seq(NoCancel) => d \in NoCancel
      BY <2>5
    <3>2. r.prog # <<>> /\ Head(r.prog) = d
      BY <2>5
    <3>3. d \notin Empty /\ d # "cancel_branch"
      BY CancelSets DEF DecideSteps
    <3>4. BitmapOK(r)
      BY <1>3, <2>2, <2>3, <2>5, <3>1, <3>2, <3>3, Zenon DEF BitmapOK, Kept
    <3> QED
      BY <1>a, <2>5, <3>4 DEF Kept
  <2>6. ASSUME Kept(r, pr[p]), NEW f \in ForwardSteps, r.prog = <<f>> \o <<d>>
        PROVE  BitmapInv' /\ CancelOwned'
    <3>1. r.prog = <<f, d>>
      BY <2>6, PairProg DEF ForwardSteps, DecideSteps, StepNames
    <3>2. r.prog \in Seq(NoCancel) => d \in NoCancel
      BY <3>1
    <3>3. r.prog # <<>> /\ Head(r.prog) = f
      BY <3>1
    <3>4. f \notin Empty /\ f # "cancel_branch"
      BY <2>6, CancelSets DEF ForwardSteps
    <3>5. BitmapOK(r)
      BY <1>3, <2>2, <2>3, <2>6, <3>2, <3>3, <3>4, Zenon DEF BitmapOK, Kept
    <3> QED
      BY <1>a, <2>6, <3>5 DEF Kept
  <2> QED
    BY <1>1, <1>5, <2>1, <2>4, <2>5, <2>6, Zenon DEF Onward
<1> QED
  BY <1>4, <1>5

(* fake_reply marks the branch it gives up on, and no other.                  *)
LEMMA FakeReplyOwned ==
  ASSUME TypeOK, BitmapInv, CancelOwned, NEW p \in Procs, pr[p].cb = {}, NEW b \in Br,
         FakeReply(p, b, 408), uac' = GivenUp(b)
  PROVE  BitmapInv' /\ CancelOwned'
<1>0. uac \in [Br -> Uac] /\ nout \in 0..MaxBranches
  BY DEF TypeOK
<1> DEFINE r == [Idle EXCEPT !.prog = <<"relay">>, !.b = b, !.code = 408, !.faked = TRUE,
                             !.ctx = "timer", !.cb = TimedOut(b)]
<1>1. r.how # "locked" /\ r.prog = <<"relay">> /\ r.cb = TimedOut(b) /\ r.code = 408
  BY DEF Idle
<1>2. Continue(p, r)
  BY DEF FakeReply
<1> HIDE DEF r
<1>3. TimedOut(b) \subseteq Br /\ \A x \in TimedOut(b) : uac[x].lc = "free"
  BY DEF TimedOut, Cancelable
<1>4. \A x \in Br : GivenUp(b)[x].lc = IF x \in TimedOut(b) THEN "busy" ELSE uac[x].lc
  BY <1>0, KeepLc, BranchesTypes DEF GivenUp, Uac
<1>5. Passes(pr[p].cb, r.cb, uac, uac')
  BY <1>1, <1>3, <1>4 DEF Passes
<1>6. BitmapOK(r)
  BY <1>1, CancelSets DEF BitmapOK, Empty
<1> QED
  BY <1>2, <1>5, <1>6, OwnFrame

LEMMA StepOwned ==
  ASSUME TypeOK, LockInv, BitmapInv, CancelOwned, Invite, ~MemFails, NEW p \in Procs, Step(p)
  PROVE  BitmapInv' /\ CancelOwned'
<1>0. pr[p] \in Proc /\ uac \in [Br -> Uac] /\ pr[p].b \in Br /\ BitmapOK(pr[p])
  BY RelayTypes, ZenonT(40) DEF TypeOK, BitmapInv
<1>a. ASSUME NEW r, Continue(p, r), BitmapOK(r), r.cb = pr[p].cb,
             \A x \in Br : uac'[x].lc = uac[x].lc
      PROVE  BitmapInv' /\ CancelOwned'
  <2>1. Passes(pr[p].cb, r.cb, uac, uac')
    BY <1>a DEF Passes
  <2> QED
    BY <1>a, <2>1, OwnFrame
<1>b. ASSUME NEW s \in NoCancel \cap FirstSteps, At(p, s), Continue(p, Pop(pr[p])),
             \A x \in Br : uac'[x].lc = uac[x].lc
      PROVE  BitmapInv' /\ CancelOwned'
  BY <1>a, <1>b, PoppedBitmap
<1>c. ASSUME NEW s \in Empty, At(p, s), NEW r, Continue(p, r), r.cb \in {{}, pr[p].cb},
             r.prog # <<>> => Head(r.prog) # "cancel_branch",
             \A x \in Br : uac'[x].lc = uac[x].lc
      PROVE  BitmapInv' /\ CancelOwned'
  <2>1. pr[p].cb = {}
    BY <1>0, <1>c DEF BitmapOK, At
  <2> QED
    BY <1>a, <1>c, <2>1, EmptyBitmap
<1>d. /\ {"t_reply", "timeout", "unlock"} \subseteq Empty
      /\ {"t_reply", "timeout", "final_up", "send_up", "put_on_wait", "cleanup", "prepare",
          "mark", "cancel", "fake"} \subseteq FirstSteps
  BY DEF Empty, FirstSteps, StepNames, ForwardSteps, DecideSteps
<1>1. CASE Forward(p)
  BY <1>1, ForwardOwned
<1>4. CASE Relay(p)
  BY <1>4, RelayOwned
<1>5. CASE Unlock(p)
  <2>1. At(p, "unlock") /\ Continue(p, Pop(pr[p])) /\ UNCHANGED uac
    BY <1>5 DEF Unlock, tvars
  <2>2. pr[p].prog = <<"unlock">>
    BY <2>1 DEF At, LockInv, LockOK, Free, LockedProgs, FirstSteps, Decides, DecideSteps,
                Forwards, ForwardSteps
  <2>3. Pop(pr[p]).prog = <<>> /\ Pop(pr[p]).cb = pr[p].cb
    BY <1>0, <2>2 DEF Pop, Proc
  <2> QED
    BY <1>c, <1>d, <2>1, <2>3
<1>6. CASE FinalUp(p) \/ SendUp(p) \/ PutOnWait(p)
  <2>1. PICK s \in {"final_up", "send_up", "put_on_wait"} : At(p, s)
    BY <1>6 DEF FinalUp, SendUp, PutOnWait
  <2>2. Continue(p, Pop(pr[p])) /\ UNCHANGED uac
    BY <1>6 DEF FinalUp, SendUp, PutOnWait, tvars
  <2> QED
    BY <1>b, <1>d, <2>1, <2>2, CancelSets
<1>7. CASE Cleanup(p)
  <2>1. At(p, "cleanup") /\ Continue(p, Pop(pr[p])) /\ uac' = AllStopped(uac)
    BY <1>7 DEF Cleanup
  <2> QED
    <3>1. \A x \in Br : uac'[x].lc = uac[x].lc
      BY <1>0, <2>1, KeepLc, Zenon
    <3>2. "cleanup" \in NoCancel \cap FirstSteps
      BY <1>d, CancelSets
    <3> QED
      BY <1>b, <2>1, <3>1, <3>2
<1>8. CASE Timeout(p)
  <2>0. At(p, "timeout") /\ pr[p].cb = {}
    BY <1>0, <1>8, <1>d DEF Timeout, BitmapOK, At
  <2>1. CASE Continue(p, [Idle EXCEPT !.prog = <<"put_on_wait">>]) /\ UNCHANGED uac
    <3> DEFINE r == [Idle EXCEPT !.prog = <<"put_on_wait">>]
    <3>1. r.cb = {} /\ r.prog = <<"put_on_wait">>
      BY DEF Idle
    <3>2. Continue(p, r) /\ UNCHANGED uac
      BY <2>1
    <3> HIDE DEF r
    <3> QED
      BY <1>c, <1>d, <2>0, <3>1, <3>2
  <2>2. CASE FakeReply(p, pr[p].b, 408) /\ uac' = GivenUp(pr[p].b)
    BY <1>0, <2>0, <2>2, FakeReplyOwned
  <2>3. CASE /\ Continue(p, [pr[p] EXCEPT !.prog = <<"failover", "give_up">>, !.todo = {pr[p].b}])
             /\ UNCHANGED uac
    <3> DEFINE r == [pr[p] EXCEPT !.prog = <<"failover", "give_up">>, !.todo = {pr[p].b}]
    <3>1. r.cb = pr[p].cb /\ r.prog = <<"failover", "give_up">>
      BY <1>0 DEF Proc
    <3>2. Continue(p, r)
      BY <2>3
    <3> HIDE DEF r
    <3> QED
      BY <1>c, <1>d, <2>0, <2>3, <3>1, <3>2
  <2> QED
    BY <1>8, <2>1, <2>2, <2>3, Zenon DEF Timeout
<1>g. CASE GiveUp(p)
  <2>1. At(p, "give_up") /\ FakeReply(p, pr[p].b, 408) /\ uac' = GivenUp(pr[p].b)
    BY <1>g, Zenon DEF GiveUp
  <2>2. pr[p].prog = <<"give_up">>
    BY <2>1, AtDecides DEF DecideSteps
  <2>3. <<"give_up">> \in Seq(NoCancel)
    BY CancelSets
  <2>4. pr[p].cb = {}
    BY <1>0, <2>2, <2>3, Zenon DEF BitmapOK
  <2> QED
    BY <1>0, <2>1, <2>4, FakeReplyOwned
<1>9. CASE TReply(p)
  <2>1. At(p, "t_reply") /\ UNCHANGED uac
    BY <1>9, Zenon DEF TReply
  <2>2. PICK r : /\ Continue(p, r) /\ r.cb = pr[p].cb
                 /\ Head(r.prog) = "cleanup"
    <3>1. CASE Continue(p, [pr[p] EXCEPT !.prog = <<"cleanup", "put_on_wait">>])
      BY <1>0, <3>1 DEF Proc
    <3>2. CASE Continue(p, [pr[p] EXCEPT !.how = "kill", !.prog =
                              IF Invite THEN <<"cleanup", "prepare", "final_up", "put_on_wait">>
                                        ELSE <<"cleanup", "final_up", "put_on_wait">>])
      <4> DEFINE r == [pr[p] EXCEPT !.how = "kill", !.prog =
                         IF Invite THEN <<"cleanup", "prepare", "final_up", "put_on_wait">>
                                   ELSE <<"cleanup", "final_up", "put_on_wait">>]
      <4>1. Continue(p, r)
        BY <3>2
      <4>2. r.cb = pr[p].cb /\ r.prog = <<"cleanup", "prepare", "final_up", "put_on_wait">>
        BY <1>0 DEF Proc
      <4> HIDE DEF r
      <4> QED
        BY <4>1, <4>2
    <3> QED
      BY <1>9, <3>1, <3>2, Zenon DEF TReply
  <2> QED
    BY <1>c, <1>d, <2>1, <2>2
<1>e. ASSUME NEW s \in FirstSteps \ {"cancel_branch"}, At(p, s)
      PROVE  pr[p].how # "locked" /\ pr[p].prog # <<>> /\ Head(pr[p].prog) = s
  BY <1>e, AtFree DEF Free, At
<1>f. ASSUME NEW n, pr[p].prog # <<>>
      PROVE  /\ Now(pr[p], n).prog # <<>> /\ Head(Now(pr[p], n).prog) = n
             /\ Now(pr[p], n).how = pr[p].how /\ Now(pr[p], n).cb = pr[p].cb
  <2>1. Now(pr[p], n).prog = <<n>> \o Tail(pr[p].prog)
    BY <1>0 DEF Now, Proc
  <2>2. Tail(pr[p].prog) \in Seq(StepNames)
    BY <1>0, <1>f DEF Proc
  <2> QED
    BY <1>0, <2>1, <2>2 DEF Now, Proc
<1>10. CASE Prepare(p)
  <2> DEFINE r == [Now(pr[p], "mark") EXCEPT !.todo = 1..nout]
  <2>1. At(p, "prepare") /\ Continue(p, r) /\ UNCHANGED uac
    BY <1>10 DEF Prepare, tvars
  <2>2. /\ r.prog = Now(pr[p], "mark").prog /\ r.how = Now(pr[p], "mark").how
        /\ r.cb = Now(pr[p], "mark").cb
    BY <1>0 DEF Now, Proc
  <2> HIDE DEF r
  <2> QED
    BY <1>a, <1>d, <1>e, <1>f, <2>1, <2>2, UsedBitmap
<1>11. CASE MarkBranch(p)
  <2>1. PICK x \in pr[p].todo :
          /\ uac' = IF Cancelable(uac[x], TRUE) THEN [uac EXCEPT ![x].lc = "busy"] ELSE uac
          /\ Continue(p, [pr[p] EXCEPT !.todo = @ \ {x},
                            !.cb = IF Cancelable(uac[x], TRUE) THEN @ \cup {x} ELSE @])
    BY <1>11, Zenon DEF MarkBranch
  <2> DEFINE r == [pr[p] EXCEPT !.todo = @ \ {x},
                                !.cb = IF Cancelable(uac[x], TRUE) THEN @ \cup {x} ELSE @]
  <2>2. /\ r.how = pr[p].how /\ r.prog = pr[p].prog
        /\ r.cb = IF Cancelable(uac[x], TRUE) THEN pr[p].cb \cup {x} ELSE pr[p].cb
    BY <1>0 DEF Proc
  <2>3. At(p, "mark") /\ Continue(p, r) /\ x \in Br
    BY <1>0, <1>11, <2>1 DEF MarkBranch, Proc
  <2> HIDE DEF r
  <2>4. BitmapOK(r)
    BY <1>d, <1>e, <2>2, <2>3, UsedBitmap
  <2>5. CASE Cancelable(uac[x], TRUE)
    <3>1. uac[x].lc = "free" /\ x \notin pr[p].cb
      BY <2>3, <2>5 DEF Cancelable, CancelOwned
    <3>2. uac' = [uac EXCEPT ![x].lc = "busy"]
      BY <2>1, <2>5
    <3>3. \A y \in Br : uac'[y].lc = IF y = x THEN "busy" ELSE uac[y].lc
      BY <1>0, <2>3, <3>2 DEF Uac
    <3>4. Passes(pr[p].cb, r.cb, uac, uac')
      BY <2>2, <2>5, <3>1, <3>3 DEF Passes
    <3> QED
      BY <2>3, <2>4, <3>4, OwnFrame
  <2>6. CASE ~Cancelable(uac[x], TRUE)
    <3>1. uac' = uac /\ r.cb = pr[p].cb
      BY <2>1, <2>2, <2>6
    <3> QED
      BY <1>a, <2>3, <2>4, <3>1
  <2> QED
    BY <2>5, <2>6, Zenon
<1>12. CASE MarkDone(p)
  <2>1. At(p, "mark") /\ UNCHANGED uac
    BY <1>12 DEF MarkDone, tvars
  <2>2. \/ Continue(p, Now(pr[p], "t_reply")) /\ pr[p].cb = {}
        \/ Continue(p, Now(pr[p], "cancel"))
    BY <1>12 DEF MarkDone
  <2>3. BitmapOK(Now(pr[p], "cancel"))
    BY <1>d, <1>e, <1>f, <2>1, UsedBitmap
  <2>4. pr[p].cb = {} => BitmapOK(Now(pr[p], "t_reply"))
    BY <1>d, <1>e, <1>f, <2>1, EmptyBitmap
  <2> QED
    BY <1>a, <1>d, <1>e, <1>f, <2>1, <2>2, <2>3, <2>4
<1>13. CASE CancelNext(p)
  <2>0. At(p, "cancel")
    BY <1>13 DEF CancelNext
  <2>1. CASE pr[p].cb = {}
    <3>1. Continue(p, Pop(pr[p])) /\ UNCHANGED uac
      BY <1>13, <2>1 DEF CancelNext
    <3>2. Free(pr[p]) /\ pr[p].prog # <<>>
      BY <1>d, <2>0, AtFree DEF At
    <3>3. Pop(pr[p]).cb = {}
      BY <1>0, <2>1 DEF Pop, Proc
    <3>4. BitmapOK(Pop(pr[p]))
      BY <1>0, <3>2, <3>3, PopFree, CancelSets, EmptyBitmap
    <3> QED
      BY <1>a, <2>1, <3>1, <3>3, <3>4
  <2>2. CASE pr[p].cb # {}
    <3>1. PICK x \in pr[p].cb :
            /\ uac' = [uac EXCEPT ![x].canc = TRUE, ![x].fr = IF pr[p].how = "kill" THEN "off" ELSE @]
            /\ Continue(p, [Now(pr[p], "cancel_branch") EXCEPT !.b = x])
      BY <1>13, <2>2 DEF CancelNext
    <3> DEFINE r == [Now(pr[p], "cancel_branch") EXCEPT !.b = x]
    <3>2. /\ r.prog = Now(pr[p], "cancel_branch").prog /\ r.how = pr[p].how
          /\ r.cb = pr[p].cb /\ r.b = x
      BY <1>0 DEF Now, Proc
    <3>3. \A y \in Br : uac'[y].lc = uac[y].lc
      BY <1>0, <3>1 DEF Uac
    <3>4. Continue(p, r)
      BY <3>1
    <3> HIDE DEF r
    <3>5. r.prog # <<>> /\ Head(r.prog) = "cancel_branch" /\ r.how # "locked"
      BY <1>d, <1>e, <1>f, <2>0, <3>2
    <3>6. BitmapOK(r)
      <4>1. r.prog \notin Seq(NoCancel)
        BY <3>5, CancelSets
      <4> QED
        BY <3>2, <3>5, <4>1 DEF BitmapOK, Empty, ForwardSteps
    <3> QED
      BY <1>a, <3>2, <3>3, <3>4, <3>6
  <2> QED
    BY <2>1, <2>2
<1>14. CASE CancelBranch(p)
  <2> DEFINE b == pr[p].b
             r == [pr[p] EXCEPT !.cb = @ \ {b}]
  <2>0. r \in Proc /\ r.prog = pr[p].prog /\ r.how = pr[p].how /\ r.cb = pr[p].cb \ {b}
    BY <1>0 DEF Proc
  <2>1. pr[p].prog # <<>> /\ Head(pr[p].prog) = "cancel_branch"
    BY <1>14 DEF CancelBranch, At
  <2>2. b \in Br /\ b \in pr[p].cb
    BY <1>0, <2>1 DEF BitmapOK
  <2>3. \A y \in Br : y # b => uac'[y].lc = uac[y].lc
    BY <1>0, <1>14, <2>2 DEF CancelBranch, Uac
  <2>4. uac'[b].lc # "busy"
    BY <1>0, <1>14, <2>2 DEF CancelBranch, Uac
  <2>5. Passes(pr[p].cb, r.cb, uac, uac')
    BY <2>0, <2>2, <2>3, <2>4 DEF Passes
  <2>6. CASE pr[p].how = "locked"
    <3>1. pr[p].prog = <<"cancel_branch", "unlock">>
      BY <2>1, <2>6 DEF LockInv, LockOK, LockedProgs, Free, Decides, Forwards
    <3>2. Continue(p, Pop(r))
      BY <1>14, <2>0, <2>6 DEF CancelBranch, Forced, Faking
    <3>3. pr[p].cb \subseteq {b}
      BY <1>0, <2>6 DEF BitmapOK
    <3>4. r.cb = {}
      BY <2>0, <3>3
    <3> HIDE DEF r
    <3>5. Pop(r).cb = r.cb /\ Pop(r).prog = Tail(r.prog)
      BY <2>0 DEF Pop, Proc
    <3>6. Tail(r.prog) = <<"unlock">> /\ Head(<<"unlock">>) # "cancel_branch"
      BY <2>0, <3>1
    <3>7. Pop(r).cb = {} /\ Head(Pop(r).prog) # "cancel_branch"
      BY <3>4, <3>5, <3>6, Zenon
    <3>8. BitmapOK(Pop(r))
      BY <3>7, EmptyBitmap
    <3> QED
      BY <2>5, <3>2, <3>5, <3>8, OwnFrame
  <2>7. CASE pr[p].how # "locked"
    <3>1. PICK n \in {"cancel", "fake"} : Continue(p, Now(r, n))
      BY <1>14, <2>0, <2>7 DEF CancelBranch
    <3> HIDE DEF r
    <3>2. Now(r, n).prog = <<n>> \o Tail(r.prog) /\ Now(r, n).how = r.how /\ Now(r, n).cb = r.cb
      BY <2>0 DEF Now, Proc
    <3>3. Tail(r.prog) \in Seq(StepNames)
      BY <2>0, <2>1 DEF Proc
    <3>4. Now(r, n).prog # <<>> /\ Head(Now(r, n).prog) = n
      BY <3>2, <3>3
    <3>5. BitmapOK(Now(r, n))
      BY <2>0, <2>7, <3>2, <3>4, UsedBitmap
    <3> QED
      BY <2>5, <3>1, <3>2, <3>5, OwnFrame
  <2> QED
    BY <2>6, <2>7
<1>15. CASE FakeCanceled(p)
  <2> DEFINE r == [pr[p] EXCEPT !.prog = <<"relay">>, !.code = 487, !.faked = TRUE, !.ctx = "fake"]
  <2>1. r.how = pr[p].how /\ r.prog = <<"relay">> /\ r.cb = pr[p].cb
    BY <1>0 DEF Proc
  <2>2. r.code = 487
    BY <1>0 DEF Proc
  <2>3. At(p, "fake") /\ Continue(p, r) /\ UNCHANGED uac
    BY <1>15 DEF FakeCanceled, tvars
  <2> HIDE DEF r
  <2>4. r.how # "locked"
    BY <1>d, <1>e, <2>1, <2>3
  <2>5. BitmapOK(r)
    BY <2>1, <2>2, <2>4, CancelSets DEF BitmapOK, Empty
  <2> QED
    BY <1>a, <2>1, <2>3, <2>5
<1> QED
  BY <1>1, <1>4, <1>5, <1>6, <1>7, <1>8, <1>g, <1>9, <1>10, <1>11, <1>12, <1>13, <1>14,
     <1>15 DEF Step, Forward

LEMMA EventOwned ==
  ASSUME TypeOK, LockInv, BitmapInv, CancelOwned, NEW p \in Procs,
         \/ \E b \in Br, c \in ReplyCodes : FinalReceived(p, b, c) \/ ProvisionalReceived(p, b, c)
         \/ \E b \in Br : FrExpire(p, b)
         \/ E2ECancel(p)
  PROVE  BitmapInv' /\ CancelOwned'
<1>0. pr[p].cb = {} /\ uac \in [Br -> Uac]
  <2>1. pr[p] = Idle
    BY ZenonT(40) DEF FinalReceived, ProvisionalReceived, FrExpire, E2ECancel
  <2>2. Idle.cb = {}
    BY DEF Idle
  <2> QED
    BY <2>1, <2>2, ZenonT(40) DEF TypeOK
<1>1. ASSUME NEW r, Continue(p, r), r.cb = {}, r.prog # <<>> => Head(r.prog) # "cancel_branch",
             \A x \in Br : uac'[x].lc = uac[x].lc
      PROVE  BitmapInv' /\ CancelOwned'
  <2>1. Passes(pr[p].cb, r.cb, uac, uac')
    BY <1>0, <1>1, Zenon DEF Passes
  <2> QED
    BY <1>1, <2>1, OwnFrame, EmptyBitmap, ZenonT(40)
<1>2. ASSUME UNCHANGED pr, \A x \in Br : uac'[x].lc = uac[x].lc
      PROVE  BitmapInv' /\ CancelOwned'
  BY <1>2 DEF BitmapInv, CancelOwned
<1>3. ASSUME NEW b, NEW c, ToRelay(p, b, c), \A x \in Br : uac'[x].lc = uac[x].lc
      PROVE  BitmapInv' /\ CancelOwned'
  <2> DEFINE q == [Idle EXCEPT !.prog = <<"failover", "relay">>, !.b = b, !.code = c,
                               !.ctx = "reply", !.todo = {b}]
             r == [Idle EXCEPT !.prog = <<"relay">>, !.b = b, !.code = c, !.ctx = "reply"]
  <2>1. r.prog = <<"relay">> /\ r.cb = {} /\ q.prog = <<"failover", "relay">> /\ q.cb = {}
    BY DEF Idle
  <2>2. Continue(p, q) \/ Continue(p, r)
    BY <1>3 DEF ToRelay
  <2>3. Head(<<"relay">>) # "cancel_branch" /\ Head(<<"failover", "relay">>) # "cancel_branch"
    OBVIOUS
  <2> HIDE DEF q, r
  <2> QED
    BY <1>1, <1>3, <2>1, <2>2, <2>3, Zenon
<1>4. ASSUME NEW b \in Br, NEW c \in ReplyCodes, FinalReceived(p, b, c)
      PROVE  BitmapInv' /\ CancelOwned'
  <2>1. uac' = [uac EXCEPT ![b] = Stopped(@)] /\ (UNCHANGED pr \/ ToRelay(p, b, c))
    BY <1>4, Zenon DEF FinalReceived
  <2>2. \A x \in Br : uac'[x].lc = uac[x].lc
    BY <1>0, <2>1 DEF Stopped, Uac
  <2> QED
    BY <1>2, <1>3, <2>1, <2>2
<1>5. ASSUME NEW b \in Br, NEW c \in ReplyCodes, ProvisionalReceived(p, b, c)
      PROVE  BitmapInv' /\ CancelOwned'
  <2> DEFINE r == [Idle EXCEPT !.prog = <<"cancel_branch", "unlock">>, !.b = b,
                               !.cb = {b}, !.how = "locked"]
  <2>0. uac[b].canc \in BOOLEAN
    BY DEF TypeOK, Uac
  <2>1. \/ UNCHANGED uac /\ (UNCHANGED pr \/ ToRelay(p, b, c))
        \/ Continue(p, r) /\ uac[b].lc = "free" /\ uac' = [uac EXCEPT ![b].lc = "busy"]
    BY <1>5, <2>0, Zenon DEF ProvisionalReceived
  <2>2. r.prog = <<"cancel_branch", "unlock">> /\ r.cb = {b} /\ r.b = b
    BY DEF Idle
  <2> HIDE DEF r
  <2>3. ASSUME Continue(p, r), uac[b].lc = "free", uac' = [uac EXCEPT ![b].lc = "busy"]
        PROVE  BitmapInv' /\ CancelOwned'
    <3>1. \A x \in Br : uac'[x].lc = IF x = b THEN "busy" ELSE uac[x].lc
      BY <1>0, <2>3 DEF Uac
    <3>2. Passes(pr[p].cb, r.cb, uac, uac')
      BY <1>0, <2>2, <2>3, <3>1 DEF Passes
    <3>3. r.prog # <<>> /\ Head(r.prog) = "cancel_branch"
      <4>1. /\ <<"cancel_branch", "unlock">> # <<>>
            /\ Head(<<"cancel_branch", "unlock">>) = "cancel_branch"
        OBVIOUS
      <4> QED
        BY <2>2, <4>1, Zenon
    <3>4. r.prog \notin Seq(NoCancel)
      BY <3>3, CancelSets
    <3>5. BitmapOK(r)
      BY <2>2, <3>3, <3>4 DEF BitmapOK, Empty, ForwardSteps
    <3> QED
      BY <2>3, <3>2, <3>5, OwnFrame, Zenon
  <2> QED
    BY <1>2, <1>3, <2>1, <2>3
<1>6. ASSUME NEW b \in Br, FrExpire(p, b)
      PROVE  BitmapInv' /\ CancelOwned'
  <2> DEFINE r == [Idle EXCEPT !.prog = <<"timeout">>, !.b = b]
  <2>1. r.prog = <<"timeout">> /\ r.cb = {} /\ Continue(p, r)
    BY <1>6, ZenonT(40) DEF Idle, FrExpire
  <2>2. \A x \in Br : uac'[x].lc = uac[x].lc
    BY <1>0, <1>6, Zenon DEF FrExpire, Stopped, Uac
  <2>3. Head(<<"timeout">>) # "cancel_branch"
    OBVIOUS
  <2> HIDE DEF r
  <2> QED
    BY <1>1, <2>1, <2>2, <2>3, Zenon
<1>7. CASE E2ECancel(p)
  <2>1. PICK how \in CancelMethods :
          Continue(p, [Idle EXCEPT !.prog = <<"prepare">>, !.code = 487, !.how = how])
    BY <1>7, Zenon DEF E2ECancel
  <2> DEFINE r == [Idle EXCEPT !.prog = <<"prepare">>, !.code = 487, !.how = how]
  <2>2. r.prog = <<"prepare">> /\ r.cb = {} /\ Continue(p, r)
    BY <2>1 DEF Idle
  <2>3. UNCHANGED uac
    BY <1>7, Zenon DEF E2ECancel
  <2> HIDE DEF r
  <2> QED
    BY <1>1, <2>2, <2>3
<1> QED
  BY <1>4, <1>5, <1>6, <1>7

LEMMA OwnedInitially == Init => BitmapInv /\ CancelOwned
<1> SUFFICES ASSUME Init PROVE BitmapInv /\ CancelOwned
  OBVIOUS
<1>1. ASSUME NEW p \in Procs
      PROVE  pr[p].cb = {} /\ pr[p].prog \in {<<>>, <<"check">>, <<"t_reply">>}
  <2>1. \/ pr[p] = Idle
        \/ pr[p] = [Idle EXCEPT !.prog = <<"check">>]
        \/ \E c \in LocalCodes : pr[p] = [Idle EXCEPT !.prog = <<"t_reply">>, !.code = c]
    BY Zenon DEF Init
  <2>2. /\ Idle.prog = <<>> /\ [Idle EXCEPT !.prog = <<"check">>].prog = <<"check">>
        /\ Idle.cb = {} /\ [Idle EXCEPT !.prog = <<"check">>].cb = {}
    BY DEF Idle
  <2>3. \A c : /\ [Idle EXCEPT !.prog = <<"t_reply">>, !.code = c].prog = <<"t_reply">>
               /\ [Idle EXCEPT !.prog = <<"t_reply">>, !.code = c].cb = {}
    BY DEF Idle
  <2> QED
    BY <2>1, <2>2, <2>3, Zenon
<1>2. BitmapInv
  BY <1>1, EmptyBitmap DEF BitmapInv
<1>3. \A x \in Br : uac[x].lc = "free"
  BY Zenon DEF Init, NoUac
<1> QED
  BY <1>1, <1>2, <1>3 DEF CancelOwned

(* With memory to build the replies, a branch of an INVITE that is marked     *)
(* "cancel in progress" belongs to one process, which still has to run        *)
(* cancel_branch for it: whichever of the reply, timer and CANCEL handlers    *)
(* race for the branch, its CANCEL is neither forgotten nor built twice.      *)
THEOREM CancelsAreOwned ==
  ASSUME Method = "INVITE", MemFails = FALSE
  PROVE  Spec => []CancelOwned
<1>0. Invite /\ ~MemFails
  BY DEF Invite
<1> DEFINE Inv == TypeOK /\ LockInv /\ BitmapInv /\ CancelOwned
<1>1. Init => Inv
  BY TypesInitially, LockInitially, OwnedInitially
<1>2. ASSUME Inv, [Next]_vars
      PROVE  BitmapInv' /\ CancelOwned'
  <2>1. CASE \E p \in Procs : Step(p)
    BY <1>0, <1>2, <2>1, StepOwned
  <2>2. CASE \/ \E p \in Workers, b \in Br, c \in ReplyCodes :
                  FinalReceived(p, b, c) \/ ProvisionalReceived(p, b, c)
             \/ \E p \in Timers, b \in Br : FrExpire(p, b)
             \/ \E p \in Cancelers : E2ECancel(p)
    BY <1>2, <2>2, EventOwned DEF Procs
  <2>3. CASE Rest \/ UNCHANGED vars
    BY <1>2, <2>3 DEF Rest, vars, tvars, BitmapInv, CancelOwned
  <2> QED
    BY <1>2, <2>1, <2>2, <2>3 DEF Next
<1>3. Inv /\ [Next]_vars => Inv'
  BY <1>2, TypesKept, LockKept
<1> QED
  BY <1>1, <1>3, PTL DEF Spec

=============================================================================
