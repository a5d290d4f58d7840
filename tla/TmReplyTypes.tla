---------------------------- MODULE TmReplyTypes ----------------------------
(***************************************************************************)
(* Type correctness of TmReply, and that relay_reply runs under the REPLY    *)
(* lock, for any number of processes and branches, any set of status codes   *)
(* and any configuration.                                                    *)
(***************************************************************************)
EXTENDS TmReply, SequenceTheorems, TLAPS

-----------------------------------------------------------------------------
(* The operators preserve the types.                                         *)

(* The locals of a process stay well-formed when a step is taken off its     *)
(* program or replaced by another one.                                       *)
LEMMA ProcTypes ==
  /\ Idle \in Proc
  /\ \A r \in Proc : r.prog # <<>> =>
       /\ Pop(r) \in Proc
       /\ \A s \in StepNames : Now(r, s) \in Proc
<1>1. Idle \in Proc
  BY BranchAssumption DEF Idle, Proc, Br, Codes, StepNames
<1>2. ASSUME NEW r \in Proc, r.prog # <<>>
      PROVE  Pop(r) \in Proc /\ \A s \in StepNames : Now(r, s) \in Proc
  <2>1. Tail(r.prog) \in Seq(StepNames)
    BY <1>2 DEF Proc
  <2>2. \A s \in StepNames : <<s>> \o Tail(r.prog) \in Seq(StepNames)
    BY <2>1
  <2> QED
    BY <2>1, <2>2, Zenon DEF Proc, Pop, Now
<1> QED
  BY <1>1, <1>2

(* Continue writes the locals of one process.                                *)
LEMMA ContinueType ==
  ASSUME pr \in [Procs -> Proc], NEW p \in Procs, NEW r \in Proc, Continue(p, r)
  PROVE  pr' \in [Procs -> Proc]
BY ProcTypes DEF Continue

(* The updates of one branch.                                                *)
LEMMA BranchTypes ==
  \A u \in Uac : /\ Stopped(u) \in Uac /\ SentOut(u) \in Uac /\ Unsendable(u) \in Uac
                 /\ Killed(u) \in Uac
<1>1. \A u \in Uac : Stopped(u) \in Uac /\ Unsendable(u) \in Uac
  BY DEF Uac, Codes, Stopped, Unsendable
<1>2. \A u \in Uac : SentOut(u) \in Uac
  BY Zenon DEF Uac, SentOut
<1>3. ASSUME NEW u \in Uac PROVE Killed(u) \in Uac
  <2>1. \A l \in {"built", "free"} : [u EXCEPT !.canc = TRUE, !.lc = l] \in Uac
    BY Zenon DEF Uac
  <2> QED
    BY <2>1, Zenon DEF Killed
<1> QED
  BY <1>1, <1>2, <1>3

(* The updates of all branches.                                              *)
LEMMA BranchesTypes ==
  ASSUME nout \in 0..MaxBranches, NEW u \in [Br -> Uac]
  PROVE  /\ AllStopped(u) \in [Br -> Uac]
         /\ NoReplies(u) \in [Br -> Uac]
         /\ \A bm : Busy(u, bm) \in [Br -> Uac]
         /\ AllKilled(u) \in [Br -> Uac]
         /\ ToCancel(u) \in SUBSET Br
<1>1. AllStopped(u) \in [Br -> Uac]
  BY BranchTypes DEF AllStopped
<1>2. NoReplies(u) \in [Br -> Uac]
  BY DEF NoReplies, Uac
<1>3. \A bm : Busy(u, bm) \in [Br -> Uac]
  BY DEF Busy, Uac
<1>4. AllKilled(u) \in [Br -> Uac]
  BY BranchTypes, Zenon DEF AllKilled
<1>5. ToCancel(u) \in SUBSET Br
  <2>1. 1..nout \subseteq Br
    BY BranchAssumption DEF Br
  <2>2. ToCancel(u) \subseteq 1..nout
    BY Zenon DEF ToCancel
  <2> QED
    BY <2>1, <2>2
<1> QED
  BY <1>1, <1>2, <1>3, <1>4, <1>5

(* The status of the server side and the count of the replies sent.          *)
LEMMA UasTypes ==
  /\ \A s \in Uas : Retransmitted(s) \in Uas
  /\ \A s \in Uas, c \in Codes, x \in Br \cup {0, -2} :
       [s EXCEPT !.status = c, !.rb = x] \in Uas
  /\ \A s \in Uas, c \in Codes : [s EXCEPT !.status = c] \in Uas
<1>1. \A s \in Uas : s.retr \in BOOLEAN
  BY DEF Uas
<1>2. ASSUME NEW s \in Uas, NEW P \in BOOLEAN
      PROVE  [s EXCEPT !.retr = s.retr \/ P] \in Uas
  BY <1>1, Zenon DEF Uas
<1>3. ASSUME NEW s \in Uas
      PROVE  Retransmitted(s) \in Uas
  BY <1>2, Zenon DEF Retransmitted
<1>4. ASSUME NEW s \in Uas, NEW c \in Codes, NEW x \in Br \cup {0, -2}
      PROVE  [s EXCEPT !.status = c, !.rb = x] \in Uas
  BY Zenon DEF Uas
<1>5. \A s \in Uas, c \in Codes : [s EXCEPT !.status = c] \in Uas
  BY Zenon DEF Uas
<1> QED
  BY <1>3, <1>4, <1>5, Zenon

LEMMA CountType ==
  ASSUME sent \in [UpCodes -> 0..Many], NEW c \in Codes
  PROVE  Count(c) \in [UpCodes -> 0..Many]
<1>1. CASE c >= 200
  <2>1. \A n \in 0..Many : (IF n < Many THEN n + 1 ELSE n) \in 0..Many
    BY DEF Many
  <2> QED
    BY <1>1, <2>1, Zenon DEF Count
<1>2. CASE ~(c >= 200)
  BY <1>2 DEF Count
<1> QED
  BY <1>1, <1>2

(* What relay_reply leaves to be done: cancelling only for a non-empty bitmap. *)
LEMMA AfterSteps ==
  ASSUME NEW ctx, NEW completed \in BOOLEAN, NEW relayed \in BOOLEAN, NEW bm, NEW S,
         {"final_up", "send_up", "put_on_wait", "cleanup"} \subseteq S,
         bm # {} => "cancel" \in S
  PROVE  After(ctx, completed, relayed, bm) \in Seq(S)
<1>1. ASSUME NEW w \in BOOLEAN
      PROVE  UpSteps(completed, relayed, w) \in Seq(S)
  <2>1. CASE ~relayed
    BY <2>1 DEF UpSteps
  <2>2. CASE relayed /\ ~completed
    <3>1. UpSteps(completed, relayed, w) = <<"send_up">>
      BY <2>2 DEF UpSteps
    <3> QED
      BY <3>1
  <2>3. CASE relayed /\ completed /\ w
    <3>1. UpSteps(completed, relayed, w) = <<"final_up", "put_on_wait">>
      BY <2>3 DEF UpSteps
    <3> QED
      BY <3>1
  <2>4. CASE relayed /\ completed /\ ~w
    <3>1. UpSteps(completed, relayed, w) = <<"final_up">>
      BY <2>4 DEF UpSteps
    <3> QED
      BY <3>1
  <2> QED
    BY <2>1, <2>2, <2>3, <2>4
<1>2. CancelSteps(bm) \in Seq(S)
  <2>1. bm # {} => <<"cancel">> \in Seq(S)
    OBVIOUS
  <2> QED
    BY <2>1 DEF CancelSteps
<1>3. /\ (IF completed THEN <<"put_on_wait">> ELSE <<>>) \in Seq(S)
      /\ (IF ctx = "reply" /\ completed THEN <<"cleanup">> ELSE <<>>) \in Seq(S)
  OBVIOUS
<1>4. \A x, y, z \in Seq(S) : x \o y \o z \in Seq(S)
  OBVIOUS
<1>5. CASE ctx = "timer"
  BY <1>1, <1>2, <1>3, <1>4, <1>5, Zenon DEF After
<1>6. CASE ctx # "timer"
  BY <1>1, <1>2, <1>3, <1>4, <1>6, Zenon DEF After
<1> QED
  BY <1>5, <1>6

LEMMA HowType ==
  ASSUME NEW r \in Proc, NEW completed \in BOOLEAN
  PROVE  HowAfter(r, completed) \subseteq {"none", "kill", "plain", "locked"} \cup CancelMethods
<1>1. CASE r.ctx = "timer"
  BY <1>1 DEF HowAfter
<1>2. CASE r.ctx = "fake"
  BY <1>2 DEF HowAfter, Proc
<1>3. CASE r.ctx \notin {"timer", "fake"}
  BY <1>3 DEF HowAfter
<1> QED
  BY <1>1, <1>2, <1>3

(* relay_reply returns with well-formed locals.                              *)
LEMMA ReturnType ==
  ASSUME pr \in [Procs -> Proc], NEW p \in Procs,
         NEW completed \in BOOLEAN, NEW relayed \in BOOLEAN,
         NEW code \in Codes, NEW bm \in SUBSET Br,
         Return(p, completed, relayed, code, bm)
  PROVE  pr' \in [Procs -> Proc] /\ lock' = NoProc
<1>1. PICK how \in HowAfter(pr[p], completed) :
        Continue(p, [pr[p] EXCEPT !.prog = After(pr[p].ctx, completed, relayed, bm),
                                  !.how = how, !.code = code, !.cb = bm])
  BY Zenon DEF Return
<1>2. how \in {"none", "kill", "plain", "locked"} \cup CancelMethods
  BY HowType
<1>3. After(pr[p].ctx, completed, relayed, bm) \in Seq(StepNames)
  <2>1. {"final_up", "send_up", "put_on_wait", "cleanup", "cancel"} \subseteq StepNames
    BY DEF StepNames
  <2> QED
    BY <2>1, AfterSteps
<1>4. [pr[p] EXCEPT !.prog = After(pr[p].ctx, completed, relayed, bm),
                    !.how = how, !.code = code, !.cb = bm] \in Proc
  BY <1>2, <1>3, ZenonT(40) DEF Proc
<1> QED
  BY <1>1, <1>4, ContinueType DEF Return

(* The branch table as relay_reply changes it.                               *)
LEMMA RelayTypes ==
  ASSUME TypeOK, NEW p \in Procs
  PROVE  /\ pr[p] \in Proc /\ pr[p].b \in Br /\ pr[p].code \in Codes /\ pr[p].cb \in SUBSET Br
         /\ Received(p) \in [Br -> Uac]
         /\ \A u \in [Br -> Uac] : Stored(p, u) \in [Br -> Uac]
         /\ \A x \in Br : RelayedCode(p, x) \in Codes
         /\ 1..nout \subseteq Br
<1>1. pr[p] \in Proc /\ pr[p].b \in Br /\ pr[p].code \in Codes /\ pr[p].cb \in SUBSET Br
  BY DEF TypeOK, Proc
<1>2. Received(p) \in [Br -> Uac]
  BY <1>1 DEF TypeOK, Received, Uac
<1>3. \A u \in [Br -> Uac] : Stored(p, u) \in [Br -> Uac]
  BY <1>1 DEF Stored, Uac
<1>4. ASSUME NEW x \in Br
      PROVE  RelayedCode(p, x) \in Codes
  <2>1. uac[x].last \in Codes
    BY DEF TypeOK, Uac
  <2>2. 487 \in Codes /\ 500 \in Codes
    BY DEF Codes
  <2> QED
    BY <1>1, <2>1, <2>2 DEF RelayedCode
<1>5. 1..nout \subseteq Br
  BY BranchAssumption DEF TypeOK, Br
<1> QED
  BY <1>1, <1>2, <1>3, <1>4, <1>5

-----------------------------------------------------------------------------
(* Every action keeps the types.                                             *)

(* A relay action keeps the types once it is known which codes and bitmaps    *)
(* relay_reply returns and what it makes of the branches.                     *)
LEMMA RelayFrame ==
  ASSUME TypeOK, NEW p \in Procs,
         NEW completed \in BOOLEAN, NEW relayed \in BOOLEAN,
         NEW code \in Codes, NEW bm \in SUBSET Br,
         Return(p, completed, relayed, code, bm),
         nout' \in 0..MaxBranches, uac' \in [Br -> Uac], uas' \in Uas,
         six' \in BOOLEAN, wait' \in BOOLEAN, sent' \in [UpCodes -> 0..Many],
         UNCHANGED <<canceled, heard, replies>>
  PROVE  TypeOK'
<1>1. pr' \in [Procs -> Proc] /\ lock' = NoProc
  BY ReturnType DEF TypeOK
<1> QED
  BY <1>1 DEF TypeOK

(* t_reply_unsafe, whichever way it goes.                                      *)
LEMMA ReplyUnsafeType ==
  ASSUME TypeOK, NEW u \in [Br -> Uac], NEW c \in Codes, ReplyUnsafe(u, c)
  PROVE  uac' \in [Br -> Uac] /\ uas' \in Uas /\ sent' \in [UpCodes -> 0..Many] /\ wait' = TRUE
<1>0. /\ nout \in 0..MaxBranches /\ uas \in Uas /\ sent \in [UpCodes -> 0..Many]
      /\ -2 \in Br \cup {0, -2}
  BY DEF TypeOK
<1>1. /\ AllStopped(u) \in [Br -> Uac] /\ AllKilled(u) \in [Br -> Uac]
      /\ \A v \in [Br -> Uac] : \A bm : Busy(v, bm) \in [Br -> Uac]
  BY <1>0, BranchesTypes, Zenon
<1>2. uac' \in [Br -> Uac]
  <2>1. uac' \in {AllKilled(u), AllStopped(u), Busy(AllStopped(u), ToCancel(u))}
    BY DEF ReplyUnsafe
  <2> QED
    BY <1>1, <2>1
<1>3. /\ [uas EXCEPT !.status = c, !.rb = -2] \in Uas
      /\ [uas EXCEPT !.status = c] \in Uas
  BY <1>0, UasTypes, Zenon
<1>4. uas' \in Uas
  <2>1. Retransmitted([uas EXCEPT !.status = c, !.rb = -2]) \in Uas
    BY <1>3, UasTypes, Zenon
  <2> QED
    BY <1>0, <1>3, <2>1, Zenon DEF ReplyUnsafe
<1>5. sent' \in [UpCodes -> 0..Many]
  BY <1>0, CountType, Zenon DEF ReplyUnsafe
<1> QED
  BY <1>2, <1>4, <1>5 DEF ReplyUnsafe

(* A handler that goes on with well-formed locals.                             *)
LEMMA StepFrame ==
  ASSUME TypeOK, NEW p \in Procs, NEW r \in Proc, Continue(p, r),
         nout' \in 0..MaxBranches, uac' \in [Br -> Uac], uas' \in Uas,
         canceled' \in BOOLEAN, six' \in BOOLEAN, wait' \in BOOLEAN,
         lock' \in Procs \cup {NoProc}, sent' \in [UpCodes -> 0..Many],
         heard' \in SUBSET Br, replies' \in 0..MaxReplies
  PROVE  TypeOK'
<1>1. pr' \in [Procs -> Proc]
  BY ContinueType DEF TypeOK
<1> QED
  BY <1>1 DEF TypeOK

LEMMA RelayKeepsTypes ==
  ASSUME TypeOK, NEW p \in Procs,
         \/ RelayDiscard(p) \/ RelayPushed(p) \/ RelayProvisional(p) \/ RelayPositive(p)
         \/ RelayStore(p) \/ RelayBest(p) \/ RelayLate(p)
  PROVE  TypeOK'
<1>0. /\ 500 \in Codes /\ LocalCodes \subseteq Codes
      /\ -2 \in Br \cup {0, -2} /\ Br \subseteq Br \cup {0, -2}
  BY CodeAssumption DEF Codes
<1>a. /\ nout \in 0..MaxBranches /\ uac \in [Br -> Uac] /\ uas \in Uas /\ six \in BOOLEAN
      /\ wait \in BOOLEAN /\ sent \in [UpCodes -> 0..Many]
  BY DEF TypeOK
<1> USE RelayTypes
<1>1. CASE RelayDiscard(p)
  BY <1>a, <1>1, RelayFrame, Zenon DEF RelayDiscard, tvars
<1>2. CASE RelayPushed(p)
  <2>1. uas' \in Uas
    BY <1>0, <1>a, <1>2, UasTypes, Zenon DEF RelayPushed
  <2> QED
    BY <1>a, <1>2, <2>1, RelayFrame, Zenon DEF RelayPushed
<1>3. CASE RelayProvisional(p)
  <2>1. uas' \in Uas
    BY <1>0, <1>a, <1>3, UasTypes, Zenon DEF RelayProvisional
  <2>2. (pr[p].code # 100) \in BOOLEAN
    OBVIOUS
  <2> QED
    <3>1. /\ Return(p, FALSE, pr[p].code # 100, pr[p].code, pr[p].cb)
          /\ uac' = Received(p)
          /\ UNCHANGED <<nout, canceled, six, wait, sent, heard, replies>>
      BY <1>3, Zenon DEF RelayProvisional
    <3>2. pr' \in [Procs -> Proc] /\ lock' = NoProc
      <4>1. PICK relayed \in BOOLEAN : Return(p, FALSE, relayed, pr[p].code, pr[p].cb)
        BY <2>2, <3>1, Zenon
      <4> QED
        BY <4>1, ReturnType, Zenon DEF TypeOK
    <3> QED
      BY <1>a, <2>1, <3>1, <3>2 DEF TypeOK
<1>4. CASE RelayPositive(p)
  <2>1. uas' \in Uas
    BY <1>0, <1>a, <1>4, UasTypes, Zenon DEF RelayPositive
  <2>2. ToCancel(Received(p)) \in SUBSET Br
    BY <1>a, BranchesTypes
  <2>3. uac' \in [Br -> Uac]
    BY <1>a, <1>4, BranchesTypes DEF RelayPositive
  <2> QED
    <3>1. /\ Return(p, TRUE, TRUE, pr[p].code, IF Invite THEN ToCancel(Received(p)) ELSE {})
          /\ UNCHANGED <<nout, canceled, six, wait, sent, heard, replies>>
      BY <1>4, ZenonT(40) DEF RelayPositive
    <3>2. (IF Invite THEN ToCancel(Received(p)) ELSE {}) \in SUBSET Br
      BY <2>2
    <3> QED
      BY <1>a, <2>1, <2>3, <3>1, <3>2, RelayFrame, Zenon
<1>5. CASE RelayStore(p)
  <2> DEFINE bm == IF pr[p].code >= 600 /\ ~six THEN ToCancel(Received(p)) ELSE {}
  <2>1. pr[p].cb \cup bm \in SUBSET Br
    BY <1>a, BranchesTypes
  <2>2. uac' \in [Br -> Uac]
    <3>1. uac' = Busy(Stored(p, Received(p)), bm)
      BY <1>5 DEF RelayStore
    <3>2. Stored(p, Received(p)) \in [Br -> Uac]
      BY <1>a
    <3>3. \A u \in [Br -> Uac] : \A m : Busy(u, m) \in [Br -> Uac]
      BY <1>a, BranchesTypes
    <3> HIDE DEF bm
    <3> QED
      BY <3>1, <3>2, <3>3, Zenon
  <2>3. six' \in BOOLEAN
    BY <1>5 DEF RelayStore
  <2>4. Return(p, FALSE, FALSE, pr[p].code, pr[p].cb \cup bm)
    BY <1>5, Zenon DEF RelayStore
  <2> HIDE DEF bm
  <2> QED
    <3>1. UNCHANGED <<nout, uas, canceled, wait, sent, heard, replies>>
      BY <1>5 DEF RelayStore
    <3> QED
      BY <1>a, <2>1, <2>2, <2>3, <2>4, <3>1, RelayFrame, Zenon
<1>6. CASE RelayBest(p)
  <2>1. PICK x \in Candidates(Received(p), pr[p].b) :
          /\ uas' = [uas EXCEPT !.status = RelayedCode(p, x), !.rb = x]
          /\ Return(p, TRUE, TRUE, RelayedCode(p, x), pr[p].cb)
    BY <1>6, Zenon DEF RelayBest
  <2>2. x \in Br
    BY DEF Candidates
  <2>3. uas' \in Uas
    BY <1>0, <1>a, <2>1, <2>2, UasTypes, Zenon
  <2> QED
    BY <1>a, <1>6, <2>1, <2>2, <2>3, RelayFrame, ZenonT(40) DEF RelayBest
<1>7. CASE RelayLate(p)
  BY <1>a, <1>7, RelayFrame, Zenon DEF RelayLate
<1> QED
  BY <1>1, <1>2, <1>3, <1>4, <1>5, <1>6, <1>7

(* Relaying when a failure route was run or the reply cannot be relayed.       *)
LEMMA RouteKeepsTypes ==
  ASSUME TypeOK, NEW p \in Procs,
         \/ RelayRoute(p) \/ RelayRouteReply(p) \/ RelayReplied(p) \/ RelayForked(p)
         \/ RelayDropped(p) \/ RelayError(p)
  PROVE  TypeOK'
<1>0. 500 \in Codes /\ LocalCodes \subseteq Codes
  BY CodeAssumption DEF Codes
<1>a. /\ nout \in 0..MaxBranches /\ uac \in [Br -> Uac] /\ uas \in Uas /\ six \in BOOLEAN
      /\ wait \in BOOLEAN /\ sent \in [UpCodes -> 0..Many] /\ canceled \in BOOLEAN
      /\ lock \in Procs \cup {NoProc} /\ heard \in SUBSET Br /\ replies \in 0..MaxReplies
  BY DEF TypeOK
<1> USE RelayTypes
<1>1. CASE RelayRoute(p)
  <2>1. PICK act \in {"fork", "drop", "dropfork"} :
          Continue(p, [pr[p] EXCEPT !.prog = RoutePrograms[act], !.todo = {}])
    BY <1>1, OptionAssumption, Zenon DEF RelayRoute
  <2>2. RoutePrograms[act] \in Seq(StepNames)
    <3>1. RoutePrograms[act] \in {<<"check", "repick">>, <<"repick_dropped">>,
                                  <<"check", "repick_dropped">>}
      BY DEF RoutePrograms
    <3>2. {<<"check", "repick">>, <<"repick_dropped">>, <<"check", "repick_dropped">>}
            \subseteq Seq(StepNames)
      BY DEF StepNames
    <3> QED
      BY <3>1, <3>2, Zenon
  <2>3. [pr[p] EXCEPT !.prog = RoutePrograms[act], !.todo = {}] \in Proc
    BY <2>2, Zenon DEF Proc
  <2> QED
    BY <1>a, <1>1, <2>1, <2>3, StepFrame, ZenonT(40) DEF RelayRoute
<1>2. CASE RelayRouteReply(p)
  <2>1. PICK c \in LocalCodes : ReplyUnsafe(Received(p), c)
    BY <1>2 DEF RelayRouteReply
  <2>2. uac' \in [Br -> Uac] /\ uas' \in Uas /\ sent' \in [UpCodes -> 0..Many] /\ wait' = TRUE
    BY <1>0, <2>1, ReplyUnsafeType
  <2>3. <<"repick">> \in Seq(StepNames)
    BY DEF StepNames
  <2>4. [pr[p] EXCEPT !.prog = <<"repick">>] \in Proc
    BY <2>3, Zenon DEF Proc
  <2> QED
    BY <1>a, <1>2, <2>2, <2>4, StepFrame, ZenonT(40) DEF RelayRouteReply
<1>3. CASE RelayReplied(p)
  BY <1>a, <1>3, RelayFrame, Zenon DEF RelayReplied, tvars
<1>4. CASE RelayForked(p)
  BY <1>a, <1>4, RelayFrame, Zenon DEF RelayForked
<1>5. CASE RelayDropped(p)
  <2>1. NoReplies(uac) \in [Br -> Uac]
    BY <1>a, BranchesTypes
  <2>2. uac' \in [Br -> Uac] /\ uas' \in Uas /\ sent' \in [UpCodes -> 0..Many] /\ wait' \in BOOLEAN
    <3>1. CASE uac' = NoReplies(uac) /\ UNCHANGED <<uas, sent, wait>>
      BY <1>a, <2>1, <3>1
    <3>2. CASE ReplyUnsafe(NoReplies(uac), 500)
      <4>1. /\ uac' \in [Br -> Uac] /\ uas' \in Uas /\ sent' \in [UpCodes -> 0..Many]
            /\ wait' = TRUE
        BY <1>0, <2>1, <3>2, ReplyUnsafeType
      <4> QED
        BY <4>1
    <3> QED
      BY <1>5, <3>1, <3>2, Zenon DEF RelayDropped
  <2>3. PICK completed \in BOOLEAN : Return(p, completed, FALSE, pr[p].code, pr[p].cb)
    BY <1>5, Zenon DEF RelayDropped
  <2>4. UNCHANGED <<nout, canceled, six, heard, replies>>
    BY <1>5, Zenon DEF RelayDropped
  <2> QED
    BY <1>a, <2>2, <2>3, <2>4, RelayFrame, Zenon
<1>6. CASE RelayError(p)
  <2>1. \A m : Busy(Received(p), m) \in [Br -> Uac]
    BY <1>a, BranchesTypes
  <2>2. uac' \in [Br -> Uac] /\ uas' \in Uas /\ sent' \in [UpCodes -> 0..Many] /\ wait' = TRUE
    <3>1. ReplyUnsafe(Busy(Received(p), ErrorMarks(p)), 500)
      BY <1>6, Zenon DEF RelayError
    <3> QED
      BY <1>0, <2>1, <3>1, ReplyUnsafeType
  <2>3. six' \in BOOLEAN
    <3>1. six' = IF Deciding(p) /\ pr[p].code >= 300
                   THEN OpenBranches(uac, pr[p].b) # {} /\ (six \/ pr[p].code >= 600) ELSE six
      BY <1>6, Zenon DEF RelayError
    <3>2. CASE Deciding(p) /\ pr[p].code >= 300
      <4>1. six' = (OpenBranches(uac, pr[p].b) # {} /\ (six \/ pr[p].code >= 600))
        BY <3>1, <3>2, Zenon
      <4> QED
        BY <4>1, Zenon
    <3>3. CASE ~(Deciding(p) /\ pr[p].code >= 300)
      BY <1>a, <3>1, <3>3, Zenon
    <3> QED
      BY <3>2, <3>3
  <2>4. (IF pr[p].ctx = "reply" THEN {} ELSE pr[p].cb) \in SUBSET Br
    OBVIOUS
  <2>5. /\ Return(p, FALSE, FALSE, pr[p].code, IF pr[p].ctx = "reply" THEN {} ELSE pr[p].cb)
        /\ UNCHANGED <<nout, canceled, heard, replies>>
    BY <1>6, Zenon DEF RelayError
  <2> QED
    BY <1>a, <2>2, <2>3, <2>4, <2>5, RelayFrame, Zenon
<1> QED
  BY <1>1, <1>2, <1>3, <1>4, <1>5, <1>6

-----------------------------------------------------------------------------
(* Forwarding: t_forward_nonack and add_uac_dns_fallback                      *)

ForwardSteps == {"check", "add", "send", "failover", "dns_add"}
Forward(p) == CheckCanceled(p) \/ AddUac(p) \/ SendBranch(p) \/ Failover(p) \/ FailoverAdd(p)

(* A step that keeps the branch, the status code and the cancel bitmap.        *)
Kept(r, q) == /\ r.b = q.b /\ r.code = q.code /\ r.cb = q.cb /\ r.how = q.how

LEMMA LocalsKept ==
  ASSUME NEW r \in Proc, r.prog # <<>>
  PROVE  /\ Pop(r) \in Proc /\ Kept(Pop(r), r) /\ Pop(r).prog = Tail(r.prog)
         /\ \A s \in StepNames : /\ Now(r, s) \in Proc /\ Kept(Now(r, s), r)
                                 /\ Now(r, s).prog = <<s>> \o Tail(r.prog)
                                 /\ Now(r, s).todo = r.todo
         /\ \A T \in SUBSET Br : /\ [r EXCEPT !.todo = T] \in Proc
                                 /\ Kept([r EXCEPT !.todo = T], r)
                                 /\ [r EXCEPT !.todo = T].prog = r.prog
                                 /\ [r EXCEPT !.todo = T].todo = T
<1>1. Pop(r) \in Proc /\ \A s \in StepNames : Now(r, s) \in Proc
  BY ProcTypes, Zenon
<1>2. \A T \in SUBSET Br : [r EXCEPT !.todo = T] \in Proc
  BY Zenon DEF Proc
<1>3. Kept(Pop(r), r) /\ Pop(r).prog = Tail(r.prog)
  BY DEF Pop, Proc, Kept
<1>4. \A s \in StepNames : /\ Kept(Now(r, s), r) /\ Now(r, s).prog = <<s>> \o Tail(r.prog)
                           /\ Now(r, s).todo = r.todo
  BY DEF Now, Proc, Kept
<1>5. \A T \in SUBSET Br : /\ Kept([r EXCEPT !.todo = T], r)
                           /\ [r EXCEPT !.todo = T].prog = r.prog
                           /\ [r EXCEPT !.todo = T].todo = T
  BY DEF Proc, Kept
<1> QED
  BY <1>1, <1>2, <1>3, <1>4, <1>5, Zenon

(* What becomes of the program of p: the request script is done, or replies    *)
(* itself; another handler goes on after the forwarding; or the forwarding     *)
(* goes on, with a failover under the REPLY lock.                              *)
Onward(p, r) ==
  /\ r \in Proc
  /\ \/ p = Request /\ r.prog \in {<<>>, <<"t_reply">>} /\ r.how = "none" /\ r.cb = {}
     \/ p # Request /\ Kept(r, pr[p]) /\ r.prog = Tail(pr[p].prog)
     \/ /\ Kept(r, pr[p])
        /\ \E s \in ForwardSteps : /\ r.prog = <<s>> \o Tail(pr[p].prog)
                                   /\ s = "dns_add" => lock' = p

LEMMA IdleTypes ==
  ASSUME NEW c \in Codes, NEW r, r = [Idle EXCEPT !.prog = <<"t_reply">>, !.code = c]
  PROVE  r \in Proc /\ r.prog = <<"t_reply">> /\ r.how = "none" /\ r.cb = {}
<1>1. <<"t_reply">> \in Seq(StepNames)
  BY DEF StepNames
<1>2. r \in Proc
  BY <1>1, ProcTypes, Zenon DEF Proc
<1> QED
  BY <1>2 DEF Idle

(* A process that has something to send goes on sending.                       *)
LEMMA ForwardingShape ==
  ASSUME TypeOK, NEW p \in Procs, pr[p].prog # <<>>, NEW r \in Proc, Kept(r, pr[p]),
         r.prog = <<"send">> \o Tail(pr[p].prog), NEW u, Forwarding(p, r, u)
  PROVE  \E q : Continue(p, q) /\ Onward(p, q)
<1>0. pr[p] \in Proc /\ Tail(pr[p].prog) \in Seq(StepNames) /\ "send" \in ForwardSteps
  BY DEF TypeOK, Proc, ForwardSteps
<1>1. CASE r.todo # {}
  <2>1. Continue(p, r)
    BY <1>1 DEF Forwarding
  <2> QED
    BY <1>0, <2>1, Zenon DEF Onward
<1>2. CASE r.todo = {} /\ p # Request
  <2>1. Continue(p, Pop(r))
    BY <1>2 DEF Forwarding
  <2>2. r.prog # <<>> /\ Tail(r.prog) = Tail(pr[p].prog)
    BY <1>0
  <2>3. Pop(r) \in Proc /\ Kept(Pop(r), r) /\ Pop(r).prog = Tail(pr[p].prog)
    BY <2>2, LocalsKept, Zenon
  <2>4. Kept(Pop(r), pr[p])
    BY <2>3, Zenon DEF Kept
  <2> QED
    BY <1>2, <2>1, <2>3, <2>4, Zenon DEF Onward
<1>3. CASE r.todo = {} /\ p = Request
  <2>1. \/ Continue(p, Idle)
        \/ Continue(p, [Idle EXCEPT !.prog = <<"t_reply">>, !.code = 500])
    BY <1>3 DEF Forwarding
  <2>2. 500 \in Codes
    BY DEF Codes
  <2>3. Idle \in Proc /\ Idle.prog = <<>> /\ Idle.how = "none" /\ Idle.cb = {}
    BY ProcTypes DEF Idle
  <2> DEFINE q == [Idle EXCEPT !.prog = <<"t_reply">>, !.code = 500]
  <2>4. q \in Proc /\ q.prog = <<"t_reply">> /\ q.how = "none" /\ q.cb = {}
    BY <2>2, IdleTypes
  <2> HIDE DEF q
  <2>5. Onward(p, Idle) /\ Onward(p, q)
    BY <1>3, <2>3, <2>4 DEF Onward
  <2> QED
    BY <2>1, <2>5, Zenon DEF q
<1> QED
  BY <1>1, <1>2, <1>3

(* One step of the forwarding.                                                 *)
LEMMA ForwardShape ==
  ASSUME TypeOK, NEW p \in Procs, Forward(p)
  PROVE  /\ \E r : Continue(p, r) /\ Onward(p, r)
         /\ \/ lock' = lock
            \/ lock \in {NoProc, p} /\ lock' = p
            \/ p = Request /\ At(p, "dns_add") /\ lock' = NoProc
<1>0. pr[p] \in Proc /\ nout \in 0..MaxBranches /\ pr[p].todo \in SUBSET Br
  BY DEF TypeOK, Proc
<1>1. pr[p].prog # <<>>
  BY DEF Forward, CheckCanceled, AddUac, SendBranch, Failover, FailoverAdd, At
<1>2. {"check", "add", "send", "failover", "dns_add"} \subseteq StepNames \cap ForwardSteps
  BY DEF StepNames, ForwardSteps
<1>3. ASSUME NEW r \in Proc, r.prog = pr[p].prog, Kept(r, pr[p]), NEW s \in ForwardSteps,
             s = "dns_add" => lock' = p
      PROVE  /\ Onward(p, Now(r, s)) /\ Now(r, s) \in Proc /\ Kept(Now(r, s), pr[p])
             /\ Now(r, s).prog = <<s>> \o Tail(pr[p].prog)
  <2>1. s \in StepNames
    BY DEF StepNames, ForwardSteps
  <2>2. /\ Now(r, s) \in Proc /\ Kept(Now(r, s), r)
        /\ Now(r, s).prog = <<s>> \o Tail(pr[p].prog)
    <3>1. r \in Proc /\ r.prog # <<>>
      BY <1>1, <1>3
    <3>2. Now(r, s) \in Proc /\ Kept(Now(r, s), r) /\ Now(r, s).prog = <<s>> \o Tail(r.prog)
      BY <2>1, <3>1, LocalsKept, Zenon
    <3> QED
      BY <1>3, <3>2
  <2>3. Kept(Now(r, s), pr[p])
    BY <1>3, <2>2, Zenon DEF Kept
  <2> QED
    BY <1>3, <2>2, <2>3, Zenon DEF Onward
<1>4. \A T \in SUBSET Br : /\ [pr[p] EXCEPT !.todo = T] \in Proc
                           /\ Kept([pr[p] EXCEPT !.todo = T], pr[p])
                           /\ [pr[p] EXCEPT !.todo = T].prog = pr[p].prog
                           /\ [pr[p] EXCEPT !.todo = T].todo = T
  BY <1>0, <1>1, LocalsKept, Zenon
<1>5. Kept(pr[p], pr[p])
  BY DEF Kept
<1>6. ASSUME NEW r \in Proc, r.prog = pr[p].prog, Kept(r, pr[p])
      PROVE  Added(r) \in Proc /\ Added(r).prog = pr[p].prog /\ Kept(Added(r), pr[p])
  <2>1. CASE nout < MaxBranches
    <3>1. r.todo \cup {nout + 1} \in SUBSET Br
      BY <1>0, <1>6, <2>1, BranchAssumption DEF Proc, Br
    <3>2. Added(r) = [r EXCEPT !.todo = r.todo \cup {nout + 1}]
      BY <2>1, Zenon DEF Added
    <3>3. Added(r) \in Proc /\ Added(r).prog = r.prog /\ Kept(Added(r), r)
      <4>1. r.prog # <<>>
        BY <1>1, <1>6
      <4>2. \A T \in SUBSET Br : /\ [r EXCEPT !.todo = T] \in Proc
                                 /\ Kept([r EXCEPT !.todo = T], r)
                                 /\ [r EXCEPT !.todo = T].prog = r.prog
        BY <1>6, <4>1, LocalsKept, Zenon
      <4>3. PICK T \in SUBSET Br : Added(r) = [r EXCEPT !.todo = T]
        BY <3>1, <3>2
      <4> QED
        BY <4>2, <4>3
    <3> QED
      BY <1>6, <3>3, Zenon DEF Kept
  <2>2. CASE ~(nout < MaxBranches)
    BY <1>6, <2>2, Zenon DEF Added
  <2> QED
    BY <2>1, <2>2
<1>7. CASE CheckCanceled(p)
  <2>1. CASE p = Request /\ Continue(p, [Idle EXCEPT !.prog = <<"t_reply">>, !.code = 487])
    <3>1. 487 \in Codes
      BY DEF Codes
    <3> DEFINE q == [Idle EXCEPT !.prog = <<"t_reply">>, !.code = 487]
    <3>2. q \in Proc /\ q.prog = <<"t_reply">> /\ q.how = "none" /\ q.cb = {}
      BY <3>1, IdleTypes
    <3> HIDE DEF q
    <3>3. Onward(p, q)
      BY <2>1, <3>2 DEF Onward
    <3> QED
      BY <1>7, <2>1, <3>3, Zenon DEF CheckCanceled, q
  <2>2. CASE p # Request /\ Continue(p, Pop([pr[p] EXCEPT !.todo = {}]))
    <3> DEFINE r == [pr[p] EXCEPT !.todo = {}]
    <3>1. r \in Proc /\ Kept(r, pr[p]) /\ r.prog = pr[p].prog
      BY <1>4, Zenon
    <3>2. Continue(p, Pop(r))
      BY <2>2
    <3> HIDE DEF r
    <3>3. Pop(r) \in Proc /\ Kept(Pop(r), r) /\ Pop(r).prog = Tail(pr[p].prog)
      BY <1>1, <3>1, LocalsKept, Zenon
    <3>4. Kept(Pop(r), pr[p])
      BY <3>1, <3>3, Zenon DEF Kept
    <3>5. Onward(p, Pop(r))
      BY <2>2, <3>3, <3>4, Zenon DEF Onward
    <3> QED
      BY <1>7, <3>2, <3>5, Zenon DEF CheckCanceled
  <2>3. CASE \E s \in {"add", "send"} : Continue(p, Now(pr[p], s))
    <3>1. \A s \in {"add", "send"} : s \in ForwardSteps /\ s # "dns_add"
      BY DEF ForwardSteps
    <3>2. \A s \in {"add", "send"} : Onward(p, Now(pr[p], s))
      BY <1>0, <1>3, <1>5, <3>1
    <3> QED
      BY <1>7, <2>3, <3>2, Zenon DEF CheckCanceled
  <2> QED
    BY <1>7, <2>1, <2>2, <2>3, Zenon DEF CheckCanceled
<1>8. CASE AddUac(p)
  <2>1. Onward(p, Now(Added(pr[p]), "check"))
    BY <1>0, <1>2, <1>3, <1>5, <1>6
  <2> QED
    BY <1>8, <2>1, Zenon DEF AddUac
<1>9. CASE SendBranch(p)
  <2>0. lock' = lock
    BY <1>9, Zenon DEF SendBranch
  <2>1. PICK x \in pr[p].todo : \/ \E u : Forwarding(p, [pr[p] EXCEPT !.todo = @ \ {x}], u)
                                \/ Continue(p, Now(pr[p], "failover"))
    BY <1>9, Zenon DEF SendBranch
  <2>2. CASE \E u : Forwarding(p, [pr[p] EXCEPT !.todo = @ \ {x}], u)
    <3>1. pr[p].prog = <<"send">> \o Tail(pr[p].prog)
      BY <1>0, <1>1, <1>9 DEF SendBranch, At, Proc
    <3>2. pr[p].todo \ {x} \in SUBSET Br
      BY <1>0
    <3> DEFINE r == [pr[p] EXCEPT !.todo = @ \ {x}]
    <3>3. r \in Proc /\ Kept(r, pr[p]) /\ r.prog = <<"send">> \o Tail(pr[p].prog)
      BY <1>4, <3>1, <3>2, Zenon
    <3>4. PICK u : Forwarding(p, r, u)
      BY <2>2, Zenon
    <3> HIDE DEF r
    <3> QED
      BY <1>1, <2>0, <3>3, <3>4, ForwardingShape, Zenon
  <2>3. CASE Continue(p, Now(pr[p], "failover"))
    <3>1. "failover" \in ForwardSteps /\ "failover" # "dns_add"
      BY <1>2
    <3>2. Onward(p, Now(pr[p], "failover"))
      BY <1>0, <1>3, <1>5, <3>1
    <3> QED
      BY <2>0, <2>3, <3>2, Zenon
  <2> QED
    BY <2>1, <2>2, <2>3
<1>10. CASE Failover(p)
  <2>1. PICK x \in pr[p].todo :
          \/ lock' = p /\ Continue(p, Now(pr[p], "dns_add"))
          \/ lock' = lock /\ Forwarding(p, Now([pr[p] EXCEPT !.todo = @ \ {x}], "send"), uac)
    BY <1>10, Zenon DEF Failover
  <2>2. lock \in {NoProc, p}
    BY <1>10, Zenon DEF Failover
  <2>3. CASE lock' = p /\ Continue(p, Now(pr[p], "dns_add"))
    <3>1. Onward(p, Now(pr[p], "dns_add"))
      BY <1>0, <1>2, <1>3, <1>5, <2>3
    <3> QED
      BY <2>2, <2>3, <3>1, Zenon
  <2>4. CASE lock' = lock /\ Forwarding(p, Now([pr[p] EXCEPT !.todo = @ \ {x}], "send"), uac)
    <3>1. pr[p].todo \ {x} \in SUBSET Br
      BY <1>0
    <3> DEFINE r == [pr[p] EXCEPT !.todo = @ \ {x}]
    <3>2. r \in Proc /\ Kept(r, pr[p]) /\ r.prog = pr[p].prog
      BY <1>4, <3>1, Zenon
    <3>3. Forwarding(p, Now(r, "send"), uac)
      BY <2>4
    <3> HIDE DEF r
    <3>4. /\ Now(r, "send") \in Proc /\ Kept(Now(r, "send"), pr[p])
          /\ Now(r, "send").prog = <<"send">> \o Tail(pr[p].prog)
      BY <1>2, <1>3, <3>2
    <3> QED
      BY <1>1, <2>4, <3>3, <3>4, ForwardingShape, Zenon
  <2> QED
    BY <2>1, <2>3, <2>4
<1>11. CASE FailoverAdd(p)
  <2>1. PICK x \in pr[p].todo :
          Forwarding(p, Now(Added([pr[p] EXCEPT !.todo = @ \ {x}]), "send"), uac)
    BY <1>11, Zenon DEF FailoverAdd
  <2>2. pr[p].todo \ {x} \in SUBSET Br
    BY <1>0
  <2> DEFINE r == [pr[p] EXCEPT !.todo = @ \ {x}]
  <2>3. r \in Proc /\ Kept(r, pr[p]) /\ r.prog = pr[p].prog
    BY <1>4, <2>2, Zenon
  <2>4. Forwarding(p, Now(Added(r), "send"), uac)
    BY <2>1
  <2> HIDE DEF r
  <2>5. Added(r) \in Proc /\ Added(r).prog = pr[p].prog /\ Kept(Added(r), pr[p])
    BY <1>6, <2>3, Zenon
  <2>6. /\ Now(Added(r), "send") \in Proc /\ Kept(Now(Added(r), "send"), pr[p])
        /\ Now(Added(r), "send").prog = <<"send">> \o Tail(pr[p].prog)
    BY <1>2, <1>3, <2>5
  <2>7. lock' = lock \/ (p = Request /\ At(p, "dns_add") /\ lock' = NoProc)
    BY <1>11, Zenon DEF FailoverAdd
  <2> QED
    BY <1>1, <2>4, <2>6, <2>7, ForwardingShape, Zenon
<1> QED
  BY <1>7, <1>8, <1>9, <1>10, <1>11 DEF Forward

(* It changes neither the state of the server transaction nor who is           *)
(* cancelling a branch.                                                        *)
LEMMA ForwardState ==
  ASSUME TypeOK, NEW p \in Procs, Forward(p)
  PROVE  /\ nout' \in 0..MaxBranches /\ uac' \in [Br -> Uac]
         /\ \A x \in Br : uac'[x].lc = uac[x].lc
         /\ UNCHANGED <<uas, canceled, six, wait, sent, heard, replies>>
         /\ pr[p].prog # <<>> /\ Head(pr[p].prog) \in ForwardSteps
<1>0. nout \in 0..MaxBranches /\ uac \in [Br -> Uac] /\ pr[p].todo \in SUBSET Br
  BY DEF TypeOK, Proc
<1>1. nout' \in 0..MaxBranches
  BY <1>0, BranchAssumption DEF Forward, CheckCanceled, AddUac, SendBranch, Failover,
     FailoverAdd, Grow, tvars
<1>2. UNCHANGED <<uas, canceled, six, wait, sent, heard, replies>>
  BY DEF Forward, CheckCanceled, AddUac, SendBranch, Failover, FailoverAdd, tvars
<1>3. pr[p].prog # <<>> /\ Head(pr[p].prog) \in ForwardSteps
  BY DEF Forward, CheckCanceled, AddUac, SendBranch, Failover, FailoverAdd, At, ForwardSteps
<1>4. uac' \in [Br -> Uac] /\ \A x \in Br : uac'[x].lc = uac[x].lc
  <2>1. CASE SendBranch(p)
    <3>1. PICK x \in pr[p].todo : \E w \in {SentOut(uac[x]), Unsendable(uac[x])} :
            uac' = [uac EXCEPT ![x] = w]
      BY <2>1, Zenon DEF SendBranch
    <3>v. PICK v \in {SentOut(uac[x]), Unsendable(uac[x])} : uac' = [uac EXCEPT ![x] = v]
      BY <3>1
    <3>2. x \in Br /\ v \in Uac
      BY <1>0, BranchTypes
    <3>3. SentOut(uac[x]).lc = uac[x].lc /\ Unsendable(uac[x]).lc = uac[x].lc
      BY <1>0, <3>2 DEF SentOut, Unsendable, Uac
    <3>4. v.lc = uac[x].lc
      BY <3>3
    <3> QED
      BY <1>0, <3>v, <3>2, <3>4, Zenon
  <2>2. CASE ~SendBranch(p)
    BY <1>0, <2>2 DEF Forward, CheckCanceled, AddUac, Failover, FailoverAdd, tvars
  <2> QED
    BY <2>1, <2>2
<1> QED
  BY <1>1, <1>2, <1>3, <1>4

-----------------------------------------------------------------------------
(* The program a handler starts with, or replaces what it was doing by.        *)
LEMMA ProgTypes ==
  /\ {<<"check">>, <<"relay">>, <<"timeout">>, <<"t_reply">>, <<"put_on_wait">>,
      <<"prepare">>} \subseteq Seq(StepNames)
  /\ <<"failover", "relay">> \in Seq(StepNames) /\ <<"failover", "give_up">> \in Seq(StepNames)
  /\ <<"cancel_branch", "unlock">> \in Seq(StepNames)
  /\ <<"cleanup", "put_on_wait">> \in Seq(StepNames)
  /\ <<"cleanup", "final_up", "put_on_wait">> \in Seq(StepNames)
  /\ <<"cleanup", "prepare", "put_on_wait">> \in Seq(StepNames)
  /\ <<"cleanup", "cancel", "put_on_wait">> \in Seq(StepNames)
  /\ <<"cleanup", "prepare", "final_up", "put_on_wait">> \in Seq(StepNames)
BY DEF StepNames

LEMMA WithTypes ==
  /\ \A r \in Proc, g \in Seq(StepNames), c \in Codes : [r EXCEPT !.prog = g, !.code = c] \in Proc
  /\ \A r \in Proc, B \in SUBSET Br : [r EXCEPT !.cb = B] \in Proc
  /\ \A r \in Proc, x \in Br : [r EXCEPT !.b = x] \in Proc
BY DEF Proc

LEMMA StepKeepsTypes ==
  ASSUME TypeOK, NEW p \in Procs, Step(p)
  PROVE  TypeOK'
<1>a. /\ nout \in 0..MaxBranches /\ uac \in [Br -> Uac] /\ uas \in Uas /\ canceled \in BOOLEAN
      /\ six \in BOOLEAN /\ wait \in BOOLEAN /\ lock \in Procs \cup {NoProc} /\ sent \in [UpCodes -> 0..Many]
      /\ heard \in SUBSET Br /\ replies \in 0..MaxReplies
  BY DEF TypeOK
<1>b. pr[p] \in Proc /\ pr[p].code \in Codes /\ 1..nout \subseteq Br
  BY RelayTypes
<1>c. 487 \in Codes /\ 408 \in Codes /\ 500 \in Codes
  BY DEF Codes
<1>d. pr[p].prog # <<>> => Pop(pr[p]) \in Proc /\ \A s \in StepNames : Now(pr[p], s) \in Proc
  BY <1>b, ProcTypes
<1>1. CASE Forward(p)
  <2>1. PICK r \in Proc : Continue(p, r)
    BY <1>1, ForwardShape, Zenon DEF Onward
  <2>2. /\ nout' \in 0..MaxBranches /\ uac' \in [Br -> Uac]
        /\ UNCHANGED <<uas, canceled, six, wait, sent, heard, replies>>
    BY <1>1, ForwardState, Zenon
  <2>3. lock' \in Procs \cup {NoProc}
    BY <1>a, <1>1, ForwardShape
  <2> QED
    BY <1>a, <2>1, <2>2, <2>3, StepFrame
<1>4. CASE Relay(p)
  BY <1>4, RelayKeepsTypes, RouteKeepsTypes DEF Relay
<1>5. CASE Unlock(p)
  BY <1>a, <1>d, <1>5, StepFrame DEF Unlock, At, tvars
<1>6. CASE FinalUp(p)
  <2>1. uas' \in Uas /\ sent' \in [UpCodes -> 0..Many]
    BY <1>a, <1>b, <1>6, UasTypes, CountType, Zenon DEF FinalUp
  <2> QED
    BY <1>a, <1>d, <1>6, <2>1, StepFrame DEF FinalUp, At
<1>7. CASE SendUp(p)
  <2>1. sent' \in [UpCodes -> 0..Many]
    BY <1>a, <1>b, <1>7, CountType DEF SendUp
  <2> QED
    BY <1>a, <1>d, <1>7, <2>1, StepFrame DEF SendUp, At, tvars
<1>8. CASE PutOnWait(p)
  BY <1>a, <1>d, <1>8, StepFrame DEF PutOnWait, At
<1>9. CASE Cleanup(p)
  <2>1. uac' \in [Br -> Uac]
    BY <1>a, <1>9, BranchesTypes DEF Cleanup
  <2> QED
    BY <1>a, <1>d, <1>9, <2>1, StepFrame DEF Cleanup, At
<1>10. CASE Timeout(p) \/ GiveUp(p)
  <2>1. pr[p].b \in Br
    BY <1>b DEF Proc
  <2>2. GivenUp(pr[p].b) \in [Br -> Uac]
    <3>1. Busy(uac, TimedOut(pr[p].b)) \in [Br -> Uac]
      BY <1>a, BranchesTypes
    <3> QED
      BY <2>1, <3>1, ZenonT(30) DEF GivenUp, Uac
  <2>3. uac' \in [Br -> Uac] /\ lock' \in Procs \cup {NoProc}
    BY <1>a, <1>10, <2>2 DEF Timeout, GiveUp
  <2>4. [Idle EXCEPT !.prog = <<"put_on_wait">>] \in Proc
    BY ProcTypes, ProgTypes, Zenon DEF Proc
  <2>5. [Idle EXCEPT !.prog = <<"relay">>, !.b = pr[p].b, !.code = 408, !.faked = TRUE,
                     !.ctx = "timer", !.cb = TimedOut(pr[p].b)] \in Proc
    <3>1. TimedOut(pr[p].b) \in SUBSET Br
      BY <2>1, Zenon DEF TimedOut
    <3>2. \A c \in Codes :
            [Idle EXCEPT !.prog = <<"relay">>, !.b = pr[p].b, !.code = c, !.faked = TRUE,
                         !.ctx = "timer", !.cb = TimedOut(pr[p].b)] \in Proc
      BY <2>1, <3>1, ProcTypes, ProgTypes, Zenon DEF Proc
    <3> QED
      BY <1>c, <3>2, Zenon
  <2>6. [pr[p] EXCEPT !.prog = <<"failover", "give_up">>, !.todo = {pr[p].b}] \in Proc
    BY <1>b, <2>1, ProgTypes, Zenon DEF Proc
  <2>7. PICK r \in Proc : Continue(p, r)
    BY <1>10, <2>4, <2>5, <2>6 DEF Timeout, GiveUp, FakeReply
  <2> QED
    BY <1>a, <1>10, <2>3, <2>7, StepFrame DEF Timeout, GiveUp
<1>11. CASE TReply(p)
  <2>1. uas' \in Uas
    <3>1. /\ [uas EXCEPT !.status = pr[p].code, !.rb = -2] \in Uas
          /\ [uas EXCEPT !.status = pr[p].code] \in Uas
      BY <1>a, <1>b, Zenon DEF Uas
    <3> QED
      BY <1>a, <1>11, <3>1, Zenon DEF TReply
  <2>2. [pr[p] EXCEPT !.prog = <<"cleanup", "put_on_wait">>] \in Proc
    BY <1>b, ProgTypes, Zenon DEF Proc
  <2>3. \A g \in Seq(StepNames), B \in SUBSET Br :
          /\ [pr[p] EXCEPT !.how = "kill", !.prog = g] \in Proc
          /\ [pr[p] EXCEPT !.how = "kill", !.cb = B, !.prog = g] \in Proc
    BY <1>b, Zenon DEF Proc
  <2>4. ToCancel(uac) \in SUBSET Br /\ Busy(uac, ToCancel(uac)) \in [Br -> Uac]
    BY <1>a, BranchesTypes
  <2>5. uac' \in [Br -> Uac]
    BY <1>a, <1>11, <2>4, Zenon DEF TReply
  <2>6. PICK r \in Proc : Continue(p, r)
    <3>1. CASE MemFails /\ Continue(p, [pr[p] EXCEPT !.how = "kill", !.prog =
                 IF Invite THEN <<"cleanup", "prepare", "put_on_wait">>
                           ELSE <<"cleanup", "put_on_wait">>])
      <4>1. (IF Invite THEN <<"cleanup", "prepare", "put_on_wait">>
                       ELSE <<"cleanup", "put_on_wait">>) \in Seq(StepNames)
        BY ProgTypes, Zenon
      <4> QED
        BY <2>3, <3>1, <4>1, Zenon
    <3>2. CASE Continue(p, [pr[p] EXCEPT !.prog = <<"cleanup", "put_on_wait">>])
      BY <2>2, <3>2, Zenon
    <3>3. CASE Continue(p, [pr[p] EXCEPT !.how = "kill", !.cb = IF Invite THEN ToCancel(uac) ELSE {},
                                         !.prog = <<"cleanup", "cancel", "put_on_wait">>])
      <4>1. (IF Invite THEN ToCancel(uac) ELSE {}) \in SUBSET Br
        BY <2>4
      <4> QED
        BY <2>3, <3>3, <4>1, ProgTypes, Zenon
    <3>4. CASE Continue(p, [pr[p] EXCEPT !.how = "kill", !.prog =
                 IF Invite THEN <<"cleanup", "prepare", "final_up", "put_on_wait">>
                           ELSE <<"cleanup", "final_up", "put_on_wait">>])
      <4>1. (IF Invite THEN <<"cleanup", "prepare", "final_up", "put_on_wait">>
                       ELSE <<"cleanup", "final_up", "put_on_wait">>) \in Seq(StepNames)
        BY ProgTypes, Zenon
      <4> QED
        BY <2>3, <3>4, <4>1, Zenon
    <3> QED
      BY <1>11, <3>1, <3>2, <3>3, <3>4, Zenon DEF TReply
  <2> QED
    BY <1>a, <1>11, <2>1, <2>5, <2>6, StepFrame, Zenon DEF TReply
<1>12. CASE Prepare(p)
  <2>1. Now(pr[p], "mark") \in Proc
    BY <1>d, <1>12 DEF Prepare, At, StepNames
  <2>2. [Now(pr[p], "mark") EXCEPT !.todo = 1..nout] \in Proc
    BY <1>b, <2>1, Zenon DEF Proc
  <2> QED
    BY <1>a, <1>12, <2>2, StepFrame DEF Prepare, tvars
<1>13. CASE MarkBranch(p)
  <2>1. PICK x \in pr[p].todo :
          /\ uac' = IF Cancelable(uac[x], TRUE) THEN [uac EXCEPT ![x].lc = "busy"] ELSE uac
          /\ Continue(p, [pr[p] EXCEPT !.todo = @ \ {x},
                            !.cb = IF Cancelable(uac[x], TRUE) THEN @ \cup {x} ELSE @])
    BY <1>13, Zenon DEF MarkBranch
  <2>2. uac' \in [Br -> Uac]
    <3>1. [uac EXCEPT ![x].lc = "busy"] \in [Br -> Uac]
      BY <1>a, ZenonT(40) DEF Uac
    <3> QED
      BY <1>a, <2>1, <3>1, Zenon
  <2>3. [pr[p] EXCEPT !.todo = @ \ {x},
                      !.cb = IF Cancelable(uac[x], TRUE) THEN @ \cup {x} ELSE @] \in Proc
    BY <1>b, Zenon DEF Proc
  <2> QED
    BY <1>a, <1>13, <2>1, <2>2, <2>3, StepFrame, ZenonT(40) DEF MarkBranch
<1>14. CASE MarkDone(p)
  <2>1. PICK r \in Proc : Continue(p, r)
    BY <1>d, <1>14 DEF MarkDone, At, StepNames
  <2> QED
    BY <1>a, <1>14, <2>1, StepFrame DEF MarkDone, tvars
<1>15. CASE CancelNext(p)
  <2>1. CASE pr[p].cb = {}
    BY <1>a, <1>d, <1>15, <2>1, StepFrame DEF CancelNext, At
  <2>2. CASE pr[p].cb # {}
    <3>1. PICK x \in pr[p].cb :
            /\ uac' = [uac EXCEPT ![x].canc = TRUE,
                                  ![x].fr = IF pr[p].how = "kill" THEN "off" ELSE @]
            /\ Continue(p, [Now(pr[p], "cancel_branch") EXCEPT !.b = x])
      BY <1>15, <2>2, Zenon DEF CancelNext
    <3>2. uac' \in [Br -> Uac]
      <4>1. \A u \in Uac, k \in {"idle", "on", "off"} : [u EXCEPT !.canc = TRUE, !.fr = k] \in Uac
        BY Zenon DEF Uac
      <4>2. (IF pr[p].how = "kill" THEN "off" ELSE uac[x].fr) \in {"idle", "on", "off"}
        BY <1>a, <1>b DEF Uac, Proc
      <4> QED
        BY <1>a, <3>1, <4>1, <4>2, Zenon
    <3>3. Now(pr[p], "cancel_branch") \in Proc
      BY <1>d, <1>15 DEF CancelNext, At, StepNames
    <3>4. x \in Br
      BY <1>b DEF Proc
    <3>5. [Now(pr[p], "cancel_branch") EXCEPT !.b = x] \in Proc
      BY <3>3, <3>4, WithTypes, Zenon
    <3> QED
      BY <1>a, <1>15, <3>1, <3>2, <3>5, StepFrame DEF CancelNext
  <2> QED
    BY <2>1, <2>2
<1>16. CASE CancelBranch(p)
  <2> DEFINE r == [pr[p] EXCEPT !.cb = @ \ {pr[p].b}]
  <2>1. r \in Proc /\ r.prog = pr[p].prog
    BY <1>b DEF Proc
  <2>2. Pop(r) \in Proc /\ Now(r, "cancel") \in Proc /\ Now(r, "fake") \in Proc
    BY <1>16, <2>1, ProcTypes, Zenon DEF CancelBranch, At, StepNames
  <2>3. uac' \in [Br -> Uac]
    BY <1>a, <1>16 DEF CancelBranch, Uac
  <2>4. \E s \in {Pop(r), Now(r, "cancel"), Now(r, "fake")} : Continue(p, s)
    BY <1>16 DEF CancelBranch
  <2> HIDE DEF r
  <2> QED
    BY <1>a, <1>16, <2>2, <2>3, <2>4, StepFrame DEF CancelBranch
<1>17. CASE FakeCanceled(p)
  <2>1. [pr[p] EXCEPT !.prog = <<"relay">>, !.code = 487, !.faked = TRUE, !.ctx = "fake"] \in Proc
    <3>1. \A c \in Codes :
            [pr[p] EXCEPT !.prog = <<"relay">>, !.code = c, !.faked = TRUE, !.ctx = "fake"] \in Proc
      BY <1>b, ProgTypes, Zenon DEF Proc
    <3> QED
      BY <1>c, <3>1, ZenonT(30)
  <2> QED
    BY <1>a, <1>17, <2>1, StepFrame DEF FakeCanceled, tvars
<1> QED
  BY <1>1, <1>4, <1>5, <1>6, <1>7, <1>8, <1>9, <1>10, <1>11, <1>12, <1>13,
     <1>14, <1>15, <1>16, <1>17 DEF Step, Forward

(* The entry points: replies, timers and the caller's CANCEL.                  *)
LEMMA EventKeepsTypes ==
  ASSUME TypeOK, NEW p \in Procs,
         \/ \E b \in Br, c \in ReplyCodes : FinalReceived(p, b, c) \/ ProvisionalReceived(p, b, c)
         \/ \E b \in Br : FrExpire(p, b)
         \/ E2ECancel(p)
  PROVE  TypeOK'
<1>a. /\ nout \in 0..MaxBranches /\ uac \in [Br -> Uac] /\ uas \in Uas /\ canceled \in BOOLEAN
      /\ six \in BOOLEAN /\ wait \in BOOLEAN /\ lock \in Procs \cup {NoProc} /\ sent \in [UpCodes -> 0..Many]
      /\ heard \in SUBSET Br /\ replies \in 0..MaxReplies
  BY DEF TypeOK
<1>b. 487 \in Codes /\ ReplyCodes \subseteq Codes
  BY CodeAssumption DEF Codes
<1>1. ASSUME NEW b \in Br, NEW c \in Codes, Arrives(b, c)
      PROVE  heard' \in SUBSET Br /\ replies' \in 0..MaxReplies
  BY <1>1, <1>a, CountAssumption DEF Arrives
<1>2. ASSUME NEW b \in Br, NEW c \in Codes, ToRelay(p, b, c)
      PROVE  lock' = p /\ \E r \in Proc : Continue(p, r)
  <2>1. /\ [Idle EXCEPT !.prog = <<"relay">>, !.b = b, !.code = c, !.ctx = "reply"] \in Proc
        /\ [Idle EXCEPT !.prog = <<"failover", "relay">>, !.b = b, !.code = c, !.ctx = "reply",
                        !.todo = {b}] \in Proc
    BY ProcTypes, ProgTypes, Zenon DEF Proc
  <2> QED
    BY <1>2, <2>1, Zenon DEF ToRelay
<1>3. \A b \in Br : [uac EXCEPT ![b] = Stopped(@)] \in [Br -> Uac]
  BY <1>a, BranchTypes
<1>4. ASSUME NEW b \in Br, NEW c \in Codes, FinalReceived(p, b, c)
      PROVE  TypeOK'
  <2>1. CASE OnlyAck(b, c)
    <3>1. uac' \in [Br -> Uac]
      BY <1>3, <1>4, <2>1 DEF FinalReceived
    <3>2. heard' \in SUBSET Br /\ replies' \in 0..MaxReplies
      BY <1>1, <1>4 DEF FinalReceived
    <3> QED
      BY <1>4, <2>1, <3>1, <3>2 DEF FinalReceived, TypeOK
  <2>2. CASE ~OnlyAck(b, c)
    <3>1. nout' = nout /\ uac' \in [Br -> Uac]
      BY <1>3, <1>4, <2>2 DEF FinalReceived
    <3>2. heard' \in SUBSET Br /\ replies' \in 0..MaxReplies
      BY <1>1, <1>4 DEF FinalReceived
    <3>3. lock' = p /\ \E r \in Proc : Continue(p, r)
      BY <1>2, <1>4, <2>2, Zenon DEF FinalReceived
    <3>4. UNCHANGED <<uas, canceled, six, wait, sent>>
      BY <1>4 DEF FinalReceived
    <3> QED
      BY <1>a, <3>1, <3>2, <3>3, <3>4, StepFrame
  <2> QED
    BY <2>1, <2>2
<1>5. ASSUME NEW b \in Br, NEW c \in Codes, ProvisionalReceived(p, b, c)
      PROVE  TypeOK'
  <2>1. heard' \in SUBSET Br /\ replies' \in 0..MaxReplies
    BY <1>1, <1>5, ZenonT(40) DEF ProvisionalReceived
  <2>2. UNCHANGED <<nout, uas, canceled, six, wait, sent>>
    BY <1>5, Zenon DEF ProvisionalReceived
  <2>3. [uac EXCEPT ![b].lc = "busy"] \in [Br -> Uac]
    BY <1>a DEF Uac
  <2>4. [Idle EXCEPT !.prog = <<"cancel_branch", "unlock">>, !.b = b,
                     !.cb = {b}, !.how = "locked"] \in Proc
    BY ProcTypes, ProgTypes, Zenon DEF Proc
  <2>5. CASE uac[b].canc /\ uac[b].lc # "free"
    <3>1. UNCHANGED <<uac, lock, pr>>
      BY <1>5, <2>5, Zenon DEF ProvisionalReceived
    <3> QED
      BY <2>1, <2>2, <3>1 DEF TypeOK
  <2>6. CASE ~uac[b].canc \/ uac[b].lc = "free"
    <3>1. lock' = p /\ uac' \in [Br -> Uac]
      BY <1>a, <1>2, <1>5, <2>3, <2>6, ZenonT(40) DEF ProvisionalReceived
    <3>2. \E r \in Proc : Continue(p, r)
      BY <1>2, <1>5, <2>4, <2>6, ZenonT(40) DEF ProvisionalReceived
    <3> QED
      BY <1>a, <2>1, <2>2, <3>1, <3>2, StepFrame
  <2> QED
    BY <2>5, <2>6
<1>6. ASSUME NEW b \in Br, FrExpire(p, b)
      PROVE  TypeOK'
  <2>1. [Idle EXCEPT !.prog = <<"timeout">>, !.b = b] \in Proc
    BY ProcTypes, ProgTypes, Zenon DEF Proc
  <2> QED
    BY <1>a, <1>3, <1>6, <2>1, StepFrame, Zenon DEF FrExpire
<1>7. CASE E2ECancel(p)
  <2>1. \A how \in CancelMethods, c \in Codes :
          [Idle EXCEPT !.prog = <<"prepare">>, !.code = c, !.how = how] \in Proc
    BY ProcTypes, ProgTypes, Zenon DEF Proc
  <2>2. \A how \in CancelMethods :
          [Idle EXCEPT !.prog = <<"prepare">>, !.code = 487, !.how = how] \in Proc
    BY <1>b, <2>1, Zenon
  <2>3. \E r \in Proc : Continue(p, r)
    BY <1>7, <2>2, ZenonT(40) DEF E2ECancel
  <2> QED
    <3>1. UNCHANGED <<nout, uac, uas, six, wait, lock, sent, heard, replies>> /\ canceled' = TRUE
      BY <1>7, Zenon DEF E2ECancel
    <3> QED
      BY <1>a, <2>3, <3>1, StepFrame
<1> QED
  BY <1>b, <1>4, <1>5, <1>6, <1>7

LEMMA TypesInitially == Init => TypeOK
<1> SUFFICES ASSUME Init PROVE TypeOK
  OBVIOUS
<1>0. /\ nout = 0 /\ uac = [x \in Br |-> NoUac] /\ uas = [status |-> 0, rb |-> 0, retr |-> FALSE]
      /\ sent = [c \in UpCodes |-> 0] /\ replies = 0
  BY Zenon DEF Init
<1>1. uac \in [Br -> Uac]
  <2>1. NoUac \in Uac
    BY DEF NoUac, Uac, Codes
  <2> QED
    BY <1>0, <2>1
<1>2. uas \in Uas
  BY <1>0 DEF Uas, Codes
<1>3. pr \in [Procs -> Proc]
  <2>1. [Idle EXCEPT !.prog = <<"check">>] \in Proc
    BY ProcTypes, ProgTypes, Zenon DEF Proc
  <2>2. \A c \in LocalCodes : [Idle EXCEPT !.prog = <<"t_reply">>, !.code = c] \in Proc
    <3>1. LocalCodes \subseteq Codes
      BY CodeAssumption DEF Codes
    <3> QED
      BY <3>1, ProcTypes, ProgTypes, Zenon DEF Proc
  <2> QED
    BY <2>1, <2>2, ProcTypes, Zenon DEF Init
<1>4. nout \in 0..MaxBranches /\ sent \in [UpCodes -> 0..Many] /\ replies \in 0..MaxReplies
  BY <1>0, BranchAssumption, CountAssumption DEF Many
<1> QED
  BY <1>1, <1>2, <1>3, <1>4, Zenon DEF Init, TypeOK

LEMMA TypesKept == TypeOK /\ [Next]_vars => TypeOK'
<1> SUFFICES ASSUME TypeOK, [Next]_vars PROVE TypeOK'
  OBVIOUS
<1>1. CASE \E p \in Procs : Step(p)
  BY <1>1, StepKeepsTypes
<1>2. CASE \/ \E p \in Workers, b \in Br, c \in ReplyCodes :
                FinalReceived(p, b, c) \/ ProvisionalReceived(p, b, c)
           \/ \E p \in Timers, b \in Br : FrExpire(p, b)
           \/ \E p \in Cancelers : E2ECancel(p)
  BY <1>2, EventKeepsTypes DEF Procs
<1>3. CASE Rest \/ UNCHANGED vars
  BY <1>3 DEF Rest, vars, tvars, TypeOK
<1> QED
  BY <1>1, <1>2, <1>3 DEF Next

(* Whatever is received, in any order and by any number of processes, the      *)
(* branch counter stays within the branch table (sr_dst_max_branches) and all  *)
(* of the transaction stays well-formed.                                       *)
THEOREM TypeCorrect == Spec => []TypeOK
BY TypesInitially, TypesKept, PTL DEF Spec

-----------------------------------------------------------------------------
(* The REPLY lock                                                            *)

(* What may follow the first step of a program *)
Later == {"final_up", "send_up", "put_on_wait", "cleanup", "prepare", "cancel"}

(* The steps of relay_reply and of its callers that hold the REPLY lock, and   *)
(* the steps a handler is at otherwise                                         *)
DecideSteps == {"relay", "give_up", "repick", "repick_dropped"}
FirstSteps == StepNames \ ({"unlock"} \cup ForwardSteps \cup DecideSteps)

(* The handlers that cancel under the REPLY lock, those that decide about a    *)
(* reply, with a forwarding before, and all others                             *)
LockedProgs == {<<"cancel_branch", "unlock">>, <<"unlock">>}
Decides(r) == /\ r.how # "locked"
              /\ \E d \in DecideSteps : \/ r.prog = <<d>>
                                        \/ \E f \in ForwardSteps : r.prog = <<f, d>>
Free(r) == /\ r.how # "locked"
           /\ r.prog # <<>> => Head(r.prog) \in FirstSteps /\ Tail(r.prog) \in Seq(Later)

(* The request script forwards, with the lock for a failover only; it neither  *)
(* runs a timer nor fakes a reply.                                             *)
Forwards(r, held) == /\ r.how = "none"
                     /\ \E f \in ForwardSteps : r.prog = <<f>> /\ (f = "dns_add" => held)
Scripted(r) == r.how # "fake" /\ (r.prog # <<>> => Head(r.prog) \notin {"fake", "timeout"})

(* Who holds the lock, and that only its holder is in relay_reply *)
LockOK(p, r, held) == \/ r.how = "locked" /\ r.prog \in LockedProgs /\ held
                      \/ p # Request /\ Decides(r) /\ held
                      \/ p = Request /\ Forwards(r, held)
                      \/ Free(r) /\ (p = Request => Scripted(r))
LockInv == \A p \in Procs : LockOK(p, pr[p], lock = p)

-----------------------------------------------------------------------------
(* Programs                                                                  *)

LEMMA StepSets ==
  /\ Later \subseteq FirstSteps
  /\ Later \cap {"fake", "timeout", "unlock"} = {}
  /\ FirstSteps \subseteq StepNames
  /\ FirstSteps \cap (ForwardSteps \cup DecideSteps) = {}
BY DEF Later, FirstSteps, StepNames, ForwardSteps, DecideSteps

(* A sequence of later steps is taken step by step.                          *)
LEMMA LaterSeq ==
  ASSUME NEW g \in Seq(Later), g # <<>>
  PROVE  Head(g) \in Later /\ Tail(g) \in Seq(Later)
OBVIOUS

LEMMA PairProg ==
  ASSUME NEW f \in StepNames, NEW d \in StepNames
  PROVE  <<f>> \o <<d>> = <<f, d>>
<1>1. <<f>> \in Seq(StepNames) /\ <<d>> \in Seq(StepNames) /\ <<f, d>> \in Seq(StepNames)
  OBVIOUS
<1>2. /\ <<f>> \o <<d>> \in Seq(StepNames)
      /\ Len(<<f>> \o <<d>>) = 2 /\ Len(<<f, d>>) = 2
  BY <1>1
<1>3. (<<f>> \o <<d>>)[1] = <<f, d>>[1] /\ (<<f>> \o <<d>>)[2] = <<f, d>>[2]
  BY <1>1
<1>4. \A i \in 1..2 : (<<f>> \o <<d>>)[i] = <<f, d>>[i]
  BY <1>3
<1> QED
  BY <1>1, <1>2, <1>4, SeqEqual

LEMMA PopFree ==
  ASSUME NEW r \in Proc, Free(r), r.prog # <<>>
  PROVE  /\ Free(Pop(r))
         /\ Pop(r).prog \in Seq(Later)
         /\ Pop(r).prog # <<>> => Head(Pop(r).prog) \in Later
<1>1. Pop(r).prog = Tail(r.prog) /\ Pop(r).how = r.how
  BY DEF Pop, Proc
<1>2. Tail(r.prog) \in Seq(Later)
  BY DEF Free
<1> QED
  BY <1>1, <1>2, LaterSeq, StepSets DEF Free

LEMMA NowFree ==
  ASSUME NEW r \in Proc, Free(r), r.prog # <<>>, NEW s \in FirstSteps
  PROVE  /\ Free(Now(r, s))
         /\ Now(r, s).prog # <<>> /\ Head(Now(r, s).prog) = s
         /\ Tail(Now(r, s).prog) = Tail(r.prog)
<1>1. Now(r, s).prog = <<s>> \o Tail(r.prog) /\ Now(r, s).how = r.how
  BY DEF Now, Proc
<1>2. Tail(r.prog) \in Seq(Later)
  BY DEF Free
<1>3. /\ <<s>> \o Tail(r.prog) # <<>> /\ Head(<<s>> \o Tail(r.prog)) = s
      /\ Tail(<<s>> \o Tail(r.prog)) = Tail(r.prog)
  BY <1>2
<1> QED
  BY <1>1, <1>2, <1>3, Zenon DEF Free

(* A handler that starts another program.                                    *)
LEMMA SingleFree ==
  ASSUME NEW r, r.how # "locked", NEW s \in FirstSteps, r.prog = <<s>>
  PROVE  Free(r) /\ r.prog # <<>> /\ Head(r.prog) = s
BY DEF Free

(* What relay_reply leaves to do.                                            *)
LEMMA AfterLater ==
  ASSUME NEW ctx, NEW completed \in BOOLEAN, NEW relayed \in BOOLEAN, NEW bm
  PROVE  After(ctx, completed, relayed, bm) \in Seq(Later)
<1>1. {"final_up", "send_up", "put_on_wait", "cleanup", "cancel"} \subseteq Later
  BY DEF Later
<1> QED
  BY <1>1, AfterSteps

-----------------------------------------------------------------------------
(* The REPLY lock                                                             *)

(* A step of p that takes or releases the lock at most for p itself.         *)
LEMMA LockFrame ==
  ASSUME TypeOK, LockInv, NEW p \in Procs, NEW r, Continue(p, r),
         \/ lock' = lock
         \/ lock = NoProc /\ lock' = p
         \/ lock = p /\ lock' = NoProc,
         LockOK(p, r, lock' = p)
  PROVE  LockInv'
<1> SUFFICES ASSUME NEW q \in Procs PROVE LockOK(q, pr'[q], lock' = q)
  BY DEF LockInv
<1>1. CASE q = p
  <2>1. pr'[p] = IF r.prog = <<>> THEN Idle ELSE r
    BY DEF Continue, TypeOK
  <2>2. LockOK(p, Idle, lock' = p)
    BY DEF LockOK, Free, Scripted, Idle
  <2> QED
    BY <1>1, <2>1, <2>2
<1>2. CASE q # p
  <2>1. pr'[q] = pr[q]
    BY <1>2 DEF Continue, TypeOK
  <2>2. lock = q => lock' = q
    BY <1>2, ProcAssumption
  <2> QED
    BY <2>1, <2>2, Zenon DEF LockInv, LockOK, Forwards
<1> QED
  BY <1>1, <1>2

(* What a process at a given step is doing.                                   *)
LEMMA AtDecides ==
  ASSUME LockInv, NEW p \in Procs, NEW s \in DecideSteps, At(p, s)
  PROVE  p # Request /\ pr[p].how # "locked" /\ pr[p].prog = <<s>> /\ lock = p
<1>0. pr[p].prog # <<>> /\ Head(pr[p].prog) = s /\ LockOK(p, pr[p], lock = p)
  BY DEF At, LockInv
<1>1. /\ s \notin ForwardSteps /\ s \notin FirstSteps
      /\ s # "cancel_branch" /\ s # "unlock"
  BY DEF ForwardSteps, FirstSteps, DecideSteps
<1>2. pr[p].prog \notin LockedProgs
  BY <1>0, <1>1, SMTT(30) DEF LockedProgs
<1>3. ~Forwards(pr[p], lock = p) /\ ~Free(pr[p])
  BY <1>0, <1>1 DEF Forwards, Free
<1>4. p # Request /\ Decides(pr[p]) /\ lock = p
  BY <1>0, <1>2, <1>3 DEF LockOK
<1> QED
  BY <1>0, <1>1, <1>4 DEF Decides

LEMMA AtFree ==
  ASSUME LockInv, NEW p \in Procs, NEW s \in FirstSteps, At(p, s),
         s # "cancel_branch" \/ pr[p].how # "locked"
  PROVE  Free(pr[p]) /\ (p = Request => Scripted(pr[p]))
<1>0. pr[p].prog # <<>> /\ Head(pr[p].prog) = s /\ LockOK(p, pr[p], lock = p)
  BY DEF At, LockInv
<1>1. s \notin ForwardSteps /\ s \notin DecideSteps /\ s # "unlock"
  BY DEF FirstSteps
<1>2. ~(pr[p].how = "locked" /\ pr[p].prog \in LockedProgs)
  BY <1>0, <1>1, SMTT(30) DEF LockedProgs
<1>3. ~Forwards(pr[p], lock = p) /\ ~Decides(pr[p])
  BY <1>0, <1>1 DEF Forwards, Decides
<1> QED
  BY <1>0, <1>2, <1>3 DEF LockOK

LEMMA AtForward ==
  ASSUME LockInv, NEW p \in Procs, NEW s \in ForwardSteps, At(p, s)
  PROVE  \/ /\ p # Request /\ lock = p /\ pr[p].how # "locked"
            /\ \E d \in DecideSteps : pr[p].prog = <<s, d>>
         \/ /\ p = Request /\ pr[p].how = "none" /\ pr[p].prog = <<s>>
            /\ s = "dns_add" => lock = p
<1>0. pr[p].prog # <<>> /\ Head(pr[p].prog) = s /\ LockOK(p, pr[p], lock = p)
  BY DEF At, LockInv
<1>1. /\ s \notin FirstSteps /\ s \notin DecideSteps
      /\ s # "cancel_branch" /\ s # "unlock"
  BY DEF FirstSteps, ForwardSteps, DecideSteps
<1>2. pr[p].prog \notin LockedProgs /\ ~Free(pr[p])
  <2>1. pr[p].prog \notin LockedProgs
    BY <1>0, <1>1, SMTT(30) DEF LockedProgs
  <2>2. ~Free(pr[p])
    BY <1>0, <1>1, Zenon DEF Free
  <2> QED
    BY <2>1, <2>2
<1>3. CASE p # Request /\ Decides(pr[p]) /\ lock = p
  BY <1>0, <1>1, <1>3 DEF Decides
<1>4. CASE p = Request /\ Forwards(pr[p], lock = p)
  BY <1>0, <1>4 DEF Forwards
<1> QED
  BY <1>0, <1>2, <1>3, <1>4 DEF LockOK

LEMMA HowFree ==
  ASSUME NEW r, r.how # "locked", NEW completed \in BOOLEAN, NEW how \in HowAfter(r, completed)
  PROVE  how # "locked"
<1>1. CASE r.ctx = "timer"
  BY <1>1 DEF HowAfter
<1>2. CASE r.ctx = "fake"
  BY <1>2 DEF HowAfter
<1>3. CASE r.ctx \notin {"timer", "fake"}
  BY <1>3, OptionAssumption DEF HowAfter
<1> QED
  BY <1>1, <1>2, <1>3

LEMMA RelayReturns ==
  ASSUME NEW p, Relay(p)
  PROVE  \/ RelayRoute(p) \/ RelayRouteReply(p)
         \/ \E completed, relayed \in BOOLEAN : \E code, bm : Return(p, completed, relayed, code, bm)
<1>1. CASE RelayProvisional(p)
  <2>1. Return(p, FALSE, pr[p].code # 100, pr[p].code, pr[p].cb)
    BY <1>1, Zenon DEF RelayProvisional
  <2>2. PICK relayed \in BOOLEAN : Return(p, FALSE, relayed, pr[p].code, pr[p].cb)
    BY <2>1, Zenon
  <2> QED
    BY <2>2, Zenon
<1>2. CASE RelayDiscard(p)
  BY <1>2, Zenon DEF RelayDiscard
<1>3. CASE RelayPushed(p)
  BY <1>3, Zenon DEF RelayPushed
<1>4. CASE RelayPositive(p)
  BY <1>4, Zenon DEF RelayPositive
<1>5. CASE RelayStore(p)
  BY <1>5, Zenon DEF RelayStore
<1>6. CASE RelayBest(p)
  BY <1>6, Zenon DEF RelayBest
<1>7. CASE RelayLate(p)
  BY <1>7, Zenon DEF RelayLate
<1>8. CASE RelayReplied(p)
  BY <1>8, Zenon DEF RelayReplied
<1>9. CASE RelayForked(p)
  BY <1>9, Zenon DEF RelayForked
<1>10. CASE RelayDropped(p)
  BY <1>10, Zenon DEF RelayDropped
<1>11. CASE RelayError(p)
  BY <1>11, Zenon DEF RelayError
<1> QED
  BY <1>1, <1>2, <1>3, <1>4, <1>5, <1>6, <1>7, <1>8, <1>9, <1>10, <1>11 DEF Relay

LEMMA RelayAt ==
  ASSUME NEW p, Relay(p)
  PROVE  \E s \in DecideSteps : At(p, s)
<1>1. At(p, "relay") \/ At(p, "repick") \/ At(p, "repick_dropped")
  BY ZenonT(40) DEF Relay, RelayDiscard, RelayPushed, RelayProvisional, RelayPositive, RelayStore,
         RelayBest, RelayLate, RelayRoute, RelayRouteReply, RelayReplied, RelayForked, RelayDropped,
         RelayError, AllAnswered, Repicking, LastAnswer, Deciding, Relaying
<1> QED
  BY <1>1 DEF DecideSteps

(* What the failure route is to do is done under the lock.                   *)
LEMMA RouteDecides ==
  ASSUME TypeOK, NEW p \in Procs, pr[p].how # "locked", RelayRoute(p) \/ RelayRouteReply(p)
  PROVE  UNCHANGED lock /\ \E r : Continue(p, r) /\ Decides(r)
<1>0. pr[p] \in Proc
  BY RelayTypes
<1>1. CASE RelayRoute(p)
  <2>1. PICK act \in {"fork", "drop", "dropfork"} :
          Continue(p, [pr[p] EXCEPT !.prog = RoutePrograms[act], !.todo = {}])
    BY <1>1, OptionAssumption, Zenon DEF RelayRoute
  <2> DEFINE r == [pr[p] EXCEPT !.prog = RoutePrograms[act], !.todo = {}]
  <2>2. r.prog = RoutePrograms[act] /\ r.how = pr[p].how
    BY <1>0 DEF Proc
  <2> HIDE DEF r
  <2>3. RoutePrograms[act] \in {<<"check", "repick">>, <<"repick_dropped">>,
                                <<"check", "repick_dropped">>}
    BY DEF RoutePrograms
  <2>4. Decides(r)
    BY <2>2, <2>3 DEF Decides, DecideSteps, ForwardSteps
  <2> QED
    BY <1>1, <2>1, <2>4, Zenon DEF RelayRoute, r
<1>2. CASE RelayRouteReply(p)
  <2> DEFINE r == [pr[p] EXCEPT !.prog = <<"repick">>]
  <2>1. r.prog = <<"repick">> /\ r.how = pr[p].how
    BY <1>0 DEF Proc
  <2> HIDE DEF r
  <2>2. Decides(r)
    BY <2>1 DEF Decides, DecideSteps
  <2> QED
    BY <1>2, <2>2, Zenon DEF RelayRouteReply, r
<1> QED
  BY <1>1, <1>2

LEMMA RelayKeepsLock ==
  ASSUME TypeOK, LockInv, NEW p \in Procs, Relay(p)
  PROVE  LockInv'
<1>1. p # Request /\ pr[p].how # "locked" /\ lock = p /\ pr[p] \in Proc
  BY RelayAt, AtDecides, RelayTypes
<1>2. CASE RelayRoute(p) \/ RelayRouteReply(p)
  <2>1. PICK r : Continue(p, r) /\ Decides(r)
    BY <1>1, <1>2, RouteDecides
  <2>2. UNCHANGED lock
    BY <1>1, <1>2, RouteDecides
  <2>3. LockOK(p, r, lock' = p)
    BY <1>1, <2>1, <2>2 DEF LockOK
  <2> QED
    BY <2>1, <2>2, <2>3, LockFrame
<1>3. ASSUME NEW completed \in BOOLEAN, NEW relayed \in BOOLEAN, NEW code, NEW bm,
             Return(p, completed, relayed, code, bm)
      PROVE  LockInv'
  <2>1. PICK how \in HowAfter(pr[p], completed) :
          Continue(p, [pr[p] EXCEPT !.prog = After(pr[p].ctx, completed, relayed, bm),
                                    !.how = how, !.code = code, !.cb = bm])
    BY <1>3, Zenon DEF Return
  <2> DEFINE r == [pr[p] EXCEPT !.prog = After(pr[p].ctx, completed, relayed, bm),
                                !.how = how, !.code = code, !.cb = bm]
  <2>2. how # "locked"
    BY <1>1, HowFree
  <2>3. r.how = how /\ r.prog = After(pr[p].ctx, completed, relayed, bm)
    BY <1>1 DEF Proc
  <2>4. r.prog \in Seq(Later)
    BY <2>3, AfterLater
  <2> HIDE DEF r
  <2>5. LockOK(p, r, lock' = p)
    BY <1>1, <2>2, <2>3, <2>4, LaterSeq, StepSets DEF LockOK, Free
  <2>6. lock' = NoProc /\ Continue(p, r)
    BY <1>3, <2>1 DEF Return, r
  <2> QED
    BY <1>1, <2>5, <2>6, LockFrame
<1> QED
  BY <1>2, <1>3, RelayReturns

(* A failover is made under the lock, whoever makes it.                      *)
LEMMA ForwardKeepsLock ==
  ASSUME TypeOK, LockInv, NEW p \in Procs, Forward(p)
  PROVE  LockInv'
<1>1. PICK r : Continue(p, r) /\ Onward(p, r)
  BY ForwardShape
<1>2. \/ lock' = lock
      \/ lock \in {NoProc, p} /\ lock' = p
      \/ p = Request /\ At(p, "dns_add") /\ lock' = NoProc
  BY ForwardShape
<1>3. PICK s \in ForwardSteps : At(p, s)
  BY ForwardState DEF At
<1>4. CASE p # Request
  <2>1. PICK d \in DecideSteps : pr[p].prog = <<s, d>> /\ lock = p /\ pr[p].how # "locked"
    BY <1>3, <1>4, AtForward
  <2>2. Tail(pr[p].prog) = <<d>>
    BY <2>1
  <2>3. r.how = pr[p].how /\ (r.prog = <<d>> \/ \E f \in ForwardSteps : r.prog = <<f>> \o <<d>>)
    BY <1>1, <1>4, <2>2 DEF Onward, Kept
  <2>4. \A f \in ForwardSteps : <<f>> \o <<d>> = <<f, d>>
    <3>1. ForwardSteps \subseteq StepNames /\ DecideSteps \subseteq StepNames
      BY DEF ForwardSteps, DecideSteps, StepNames
    <3> QED
      BY <3>1, PairProg
  <2>5. Decides(r)
    BY <2>1, <2>3, <2>4, Zenon DEF Decides
  <2>6. lock' = lock
    BY <1>2, <1>4, <2>1
  <2>7. LockOK(p, r, lock' = p)
    BY <1>4, <2>1, <2>5, <2>6 DEF LockOK
  <2> QED
    BY <1>1, <2>6, <2>7, LockFrame
<1>5. CASE p = Request
  <2>1. pr[p].prog = <<s>> /\ pr[p].how = "none" /\ (s = "dns_add" => lock = p)
    BY <1>3, <1>5, AtForward
  <2>2. \A f : <<f>> \o Tail(pr[p].prog) = <<f>>
    BY <2>1
  <2>3. ASSUME r.prog \in {<<>>, <<"t_reply">>}, r.how = "none"
        PROVE  LockOK(p, r, lock' = p)
    <3>1. "t_reply" \in FirstSteps
      BY DEF FirstSteps, StepNames, ForwardSteps, DecideSteps
    <3>2. Free(r) /\ Scripted(r)
      <4>1. CASE r.prog = <<>>
        BY <2>3, <4>1 DEF Free, Scripted
      <4>2. CASE r.prog = <<"t_reply">>
        BY <2>3, <3>1, <4>2, SingleFree DEF Scripted
      <4> QED
        BY <2>3, <4>1, <4>2
    <3> QED
      BY <3>2 DEF LockOK
  <2>4. ASSUME Kept(r, pr[p]),
               \E f \in ForwardSteps : /\ r.prog = <<f>> \o Tail(pr[p].prog)
                                       /\ f = "dns_add" => lock' = p
        PROVE  LockOK(p, r, lock' = p)
    <3>1. r.how = "none" /\ \E f \in ForwardSteps : r.prog = <<f>> /\ (f = "dns_add" => lock' = p)
      BY <2>1, <2>2, <2>4, Zenon DEF Kept
    <3> QED
      BY <1>5, <3>1, Zenon DEF LockOK, Forwards
  <2>5. LockOK(p, r, lock' = p)
    BY <1>1, <1>5, <2>3, <2>4, Zenon DEF Onward
  <2>6. \/ lock' = lock
        \/ lock = NoProc /\ lock' = p
        \/ lock = p /\ lock' = NoProc
    BY <1>2, <2>1 DEF At
  <2> QED
    BY <1>1, <2>5, <2>6, LockFrame
<1> QED
  BY <1>4, <1>5

(* t_reply, whichever way it goes.                                           *)
LEMMA TReplyShape ==
  ASSUME TypeOK, NEW p \in Procs, TReply(p)
  PROVE  \E r : /\ Continue(p, r) /\ r.how \in {"kill", pr[p].how}
                /\ r.prog \in {<<"cleanup", "put_on_wait">>,
                               <<"cleanup", "prepare", "put_on_wait">>,
                               <<"cleanup", "cancel", "put_on_wait">>,
                               <<"cleanup", "final_up", "put_on_wait">>,
                               <<"cleanup", "prepare", "final_up", "put_on_wait">>}
<1>0. pr[p] \in Proc
  BY RelayTypes
<1>1. ASSUME NEW g, NEW r, r = [pr[p] EXCEPT !.how = "kill", !.prog = g]
      PROVE  r.how = "kill" /\ r.prog = g
  BY <1>0, <1>1 DEF Proc
<1>2. ASSUME NEW g, NEW B, NEW r, r = [pr[p] EXCEPT !.how = "kill", !.cb = B, !.prog = g]
      PROVE  r.how = "kill" /\ r.prog = g
  BY <1>0, <1>2 DEF Proc
<1>3. ASSUME NEW g, NEW r, r = [pr[p] EXCEPT !.prog = g]
      PROVE  r.how = pr[p].how /\ r.prog = g
  BY <1>0, <1>3 DEF Proc
<1>4. \/ Continue(p, [pr[p] EXCEPT !.how = "kill", !.prog =
             IF Invite THEN <<"cleanup", "prepare", "put_on_wait">>
                       ELSE <<"cleanup", "put_on_wait">>])
      \/ Continue(p, [pr[p] EXCEPT !.prog = <<"cleanup", "put_on_wait">>])
      \/ \E B : Continue(p, [pr[p] EXCEPT !.how = "kill", !.cb = B,
                                         !.prog = <<"cleanup", "cancel", "put_on_wait">>])
      \/ Continue(p, [pr[p] EXCEPT !.how = "kill", !.prog =
             IF Invite THEN <<"cleanup", "prepare", "final_up", "put_on_wait">>
                       ELSE <<"cleanup", "final_up", "put_on_wait">>])
  BY Zenon DEF TReply
<1>5. CASE Continue(p, [pr[p] EXCEPT !.prog = <<"cleanup", "put_on_wait">>])
  BY <1>3, <1>5, Zenon
<1>6. CASE \E B : Continue(p, [pr[p] EXCEPT !.how = "kill", !.cb = B,
                                         !.prog = <<"cleanup", "cancel", "put_on_wait">>])
  <2>1. PICK B : Continue(p, [pr[p] EXCEPT !.how = "kill", !.cb = B,
                                         !.prog = <<"cleanup", "cancel", "put_on_wait">>])
    BY <1>6
  <2> DEFINE r == [pr[p] EXCEPT !.how = "kill", !.cb = B,
                                !.prog = <<"cleanup", "cancel", "put_on_wait">>]
  <2>2. r.how = "kill" /\ r.prog = <<"cleanup", "cancel", "put_on_wait">>
    BY <1>2
  <2>3. Continue(p, r)
    BY <2>1
  <2> HIDE DEF r
  <2> QED
    BY <2>2, <2>3
<1>7. ASSUME NEW g, Continue(p, [pr[p] EXCEPT !.how = "kill", !.prog = g])
      PROVE  \E r : Continue(p, r) /\ r.how = "kill" /\ r.prog = g
  BY <1>1, <1>7, Zenon
<1>8. CASE Invite
  BY <1>4, <1>5, <1>6, <1>7, <1>8, Zenon
<1>9. CASE ~Invite
  BY <1>4, <1>5, <1>6, <1>7, <1>9, Zenon
<1> QED
  BY <1>8, <1>9

LEMMA StepKeepsLock ==
  ASSUME TypeOK, LockInv, NEW p \in Procs, Step(p)
  PROVE  LockInv'
<1>0. pr[p] \in Proc
  BY RelayTypes
<1>a. ASSUME NEW r, Continue(p, r), UNCHANGED lock, Free(r), p = Request => Scripted(r)
      PROVE  LockInv'
  BY <1>a, LockFrame DEF LockOK
<1>b. ASSUME NEW s \in FirstSteps \ {"cancel_branch"}, At(p, s),
             Continue(p, Pop(pr[p])), UNCHANGED lock
      PROVE  LockInv'
  <2>1. Free(pr[p]) /\ (p = Request => Scripted(pr[p])) /\ pr[p].prog # <<>>
    BY <1>b, AtFree DEF At
  <2>2. /\ Free(Pop(pr[p]))
        /\ Pop(pr[p]).prog # <<>> => Head(Pop(pr[p]).prog) \in Later
    BY <1>0, <2>1, PopFree
  <2>3. Pop(pr[p]).how = pr[p].how
    BY <1>0 DEF Pop, Proc
  <2>4. p = Request => Scripted(Pop(pr[p]))
    BY <2>1, <2>2, <2>3, StepSets DEF Scripted
  <2> QED
    BY <1>a, <1>b, <2>2, <2>4
<1>d. {"t_reply", "timeout", "put_on_wait", "prepare", "final_up", "send_up", "cleanup",
       "mark", "cancel", "cancel_branch", "fake"} \subseteq FirstSteps
  BY DEF FirstSteps, StepNames, ForwardSteps, DecideSteps
<1>1. CASE Forward(p)
  BY <1>1, ForwardKeepsLock
<1>4. CASE Relay(p)
  BY <1>4, RelayKeepsLock
<1>5. CASE Unlock(p)
  <2>1. pr[p].prog = <<"unlock">> /\ lock = p
    <3>1. pr[p].prog # <<>> /\ Head(pr[p].prog) = "unlock" /\ LockOK(p, pr[p], lock = p)
      BY <1>5 DEF Unlock, At, LockInv
    <3>2. "unlock" \notin FirstSteps \cup ForwardSteps \cup DecideSteps
      BY DEF FirstSteps, ForwardSteps, DecideSteps
    <3>3. ~Free(pr[p]) /\ ~Forwards(pr[p], lock = p) /\ ~Decides(pr[p])
      BY <3>1, <3>2 DEF Free, Forwards, Decides
    <3> QED
      BY <3>1, <3>3 DEF LockOK, LockedProgs
  <2>2. Pop(pr[p]).prog = <<>>
    BY <1>0, <2>1 DEF Pop, Proc
  <2>3. Continue(p, Idle)
    BY <1>5, <2>2 DEF Unlock, Continue, Idle
  <2>4. LockOK(p, Idle, lock' = p)
    BY DEF LockOK, Free, Scripted, Idle
  <2> QED
    BY <1>5, <2>1, <2>3, <2>4, LockFrame DEF Unlock
<1>6. CASE FinalUp(p)
  BY <1>6, <1>b, <1>d DEF FinalUp
<1>7. CASE SendUp(p)
  BY <1>7, <1>b, <1>d DEF SendUp
<1>8. CASE PutOnWait(p)
  BY <1>8, <1>b, <1>d DEF PutOnWait
<1>9. CASE Cleanup(p)
  BY <1>9, <1>b, <1>d DEF Cleanup
<1>h. ASSUME p # Request, NEW r, Continue(p, r), Decides(r), lock' = p, lock \in {NoProc, p}
      PROVE  LockInv'
  <2>1. LockOK(p, r, lock' = p)
    BY <1>h DEF LockOK
  <2> QED
    BY <1>h, <2>1, LockFrame
<1>i. ASSUME NEW r, r.how # "locked", r.prog = <<"relay">> \/ r.prog = <<"failover", "give_up">>
      PROVE  Decides(r)
  BY <1>i DEF Decides, DecideSteps, ForwardSteps
<1>10. CASE Timeout(p)
  <2>0. /\ p # Request /\ pr[p].how # "locked" /\ lock = NoProc
    <3>1. At(p, "timeout") /\ lock = NoProc
      BY <1>10 DEF Timeout
    <3>2. Free(pr[p]) /\ (p = Request => Scripted(pr[p]))
      BY <1>d, <3>1, AtFree
    <3> QED
      BY <3>1, <3>2 DEF Free, Scripted, At
  <2>1. CASE Silent(pr[p].b)
    <3> DEFINE r == [Idle EXCEPT !.prog = <<"put_on_wait">>]
    <3>1. r.how # "locked" /\ r.prog = <<"put_on_wait">>
      BY DEF Idle
    <3>2. Continue(p, r) /\ UNCHANGED lock
      BY <1>10, <2>1 DEF Timeout
    <3> HIDE DEF r
    <3>3. Free(r)
      BY <1>d, <3>1, SingleFree
    <3> QED
      BY <1>a, <2>0, <3>2, <3>3
  <2>2. CASE ~Silent(pr[p].b) /\ FakeReply(p, pr[p].b, 408)
    <3> DEFINE r == [Idle EXCEPT !.prog = <<"relay">>, !.b = pr[p].b, !.code = 408, !.faked = TRUE,
                                 !.ctx = "timer", !.cb = TimedOut(pr[p].b)]
    <3>1. r.how # "locked" /\ r.prog = <<"relay">>
      BY DEF Idle
    <3>2. Continue(p, r) /\ lock' = p
      BY <1>10, <2>2 DEF Timeout, FakeReply
    <3> HIDE DEF r
    <3> QED
      BY <1>h, <1>i, <2>0, <3>1, <3>2
  <2>3. CASE /\ ~Silent(pr[p].b)
             /\ Continue(p, [pr[p] EXCEPT !.prog = <<"failover", "give_up">>, !.todo = {pr[p].b}])
    <3> DEFINE r == [pr[p] EXCEPT !.prog = <<"failover", "give_up">>, !.todo = {pr[p].b}]
    <3>1. r.how # "locked" /\ r.prog = <<"failover", "give_up">>
      BY <1>0, <2>0 DEF Proc
    <3>2. Continue(p, r) /\ lock' = p
      BY <1>10, <2>3 DEF Timeout
    <3> HIDE DEF r
    <3> QED
      BY <1>h, <1>i, <2>0, <3>1, <3>2
  <2> QED
    BY <1>10, <2>1, <2>2, <2>3, Zenon DEF Timeout
<1>j. CASE GiveUp(p)
  <2>1. At(p, "give_up") /\ "give_up" \in DecideSteps /\ UNCHANGED lock
    BY <1>j DEF GiveUp, DecideSteps
  <2>2. p # Request /\ lock = p
    BY <2>1, AtDecides
  <2> DEFINE r == [Idle EXCEPT !.prog = <<"relay">>, !.b = pr[p].b, !.code = 408, !.faked = TRUE,
                               !.ctx = "timer", !.cb = TimedOut(pr[p].b)]
  <2>3. r.how # "locked" /\ r.prog = <<"relay">>
    BY DEF Idle
  <2>4. Continue(p, r)
    BY <1>j DEF GiveUp, FakeReply
  <2> HIDE DEF r
  <2> QED
    BY <1>h, <1>i, <2>1, <2>2, <2>3, <2>4
<1>11. CASE TReply(p)
  <2>1. Free(pr[p]) /\ (p = Request => Scripted(pr[p]))
    BY <1>d, <1>11, AtFree DEF TReply
  <2>2. UNCHANGED lock
    BY <1>11 DEF TReply
  <2>3. PICK r : /\ Continue(p, r) /\ r.how \in {"kill", pr[p].how}
                 /\ r.prog \in {<<"cleanup", "put_on_wait">>,
                                <<"cleanup", "prepare", "put_on_wait">>,
                                <<"cleanup", "cancel", "put_on_wait">>,
                                <<"cleanup", "final_up", "put_on_wait">>,
                                <<"cleanup", "prepare", "final_up", "put_on_wait">>}
    BY <1>11, TReplyShape, Zenon
  <2>4. r.prog # <<>> /\ Head(r.prog) = "cleanup" /\ Tail(r.prog) \in Seq(Later)
    <3>1. /\ Tail(<<"cleanup", "prepare", "final_up", "put_on_wait">>)
               = <<"prepare", "final_up", "put_on_wait">>
          /\ Tail(<<"cleanup", "final_up", "put_on_wait">>) = <<"final_up", "put_on_wait">>
          /\ Tail(<<"cleanup", "prepare", "put_on_wait">>) = <<"prepare", "put_on_wait">>
          /\ Tail(<<"cleanup", "cancel", "put_on_wait">>) = <<"cancel", "put_on_wait">>
          /\ Tail(<<"cleanup", "put_on_wait">>) = <<"put_on_wait">>
      OBVIOUS
    <3>2. {<<"prepare", "final_up", "put_on_wait">>, <<"final_up", "put_on_wait">>,
           <<"prepare", "put_on_wait">>, <<"cancel", "put_on_wait">>, <<"put_on_wait">>}
            \subseteq Seq(Later)
      BY DEF Later
    <3>3. Tail(r.prog) \in Seq(Later)
      BY <2>3, <3>1, <3>2, Zenon
    <3> QED
      BY <2>3, <3>3
  <2>5. Free(r) /\ (p = Request => Scripted(r))
    BY <1>d, <2>1, <2>3, <2>4 DEF Free, Scripted
  <2> QED
    BY <1>a, <2>2, <2>3, <2>5
<1>e. ASSUME NEW s \in FirstSteps \ {"cancel_branch"}, At(p, s),
             NEW n \in FirstSteps \ {"fake", "timeout"}, NEW r, r.prog = Now(pr[p], n).prog,
             r.how = pr[p].how, Continue(p, r), UNCHANGED lock
      PROVE  LockInv'
  <2>1. Free(pr[p]) /\ pr[p].prog # <<>> /\ (p = Request => Scripted(pr[p]))
    BY <1>e, AtFree DEF At
  <2>2. Free(Now(pr[p], n)) /\ r.prog # <<>> /\ Head(r.prog) = n
    BY <1>0, <1>e, <2>1, NowFree
  <2>3. Free(r) /\ (p = Request => Scripted(r))
    BY <1>e, <2>1, <2>2 DEF Free, Scripted
  <2> QED
    BY <1>a, <1>e, <2>3
<1>f. /\ {"mark", "cancel", "cancel_branch", "t_reply"} \subseteq FirstSteps \ {"fake", "timeout"}
      /\ {"prepare", "mark", "cancel"} \subseteq FirstSteps \ {"cancel_branch"}
  BY <1>d
<1>g. ASSUME NEW n, pr[p].prog # <<>>
      PROVE  Now(pr[p], n).how = pr[p].how
  BY <1>0 DEF Now, Proc
<1>12. CASE Prepare(p)
  <2> DEFINE r == [Now(pr[p], "mark") EXCEPT !.todo = 1..nout]
  <2>1. At(p, "prepare") /\ Continue(p, r) /\ UNCHANGED lock
    BY <1>12 DEF Prepare
  <2>2. r.prog = Now(pr[p], "mark").prog /\ r.how = pr[p].how
    BY <1>0 DEF Now, Proc
  <2> QED
    BY <1>e, <1>f, <2>1, <2>2, Zenon
<1>13. CASE MarkBranch(p)
  <2>1. PICK x \in pr[p].todo :
          Continue(p, [pr[p] EXCEPT !.todo = @ \ {x},
                            !.cb = IF Cancelable(uac[x], TRUE) THEN @ \cup {x} ELSE @])
    BY <1>13, Zenon DEF MarkBranch
  <2> DEFINE r == [pr[p] EXCEPT !.todo = @ \ {x},
                                !.cb = IF Cancelable(uac[x], TRUE) THEN @ \cup {x} ELSE @]
  <2>2. r.how = pr[p].how /\ r.prog = pr[p].prog
    BY <1>0 DEF Proc
  <2>3. At(p, "mark") /\ UNCHANGED lock
    BY <1>13 DEF MarkBranch
  <2>4. Free(pr[p]) /\ (p = Request => Scripted(pr[p]))
    BY <1>d, <2>3, AtFree
  <2>5. Free(r) /\ (p = Request => Scripted(r))
    BY <2>2, <2>4, Zenon DEF Free, Scripted
  <2> QED
    BY <1>a, <2>1, <2>3, <2>5, Zenon
<1>14. CASE MarkDone(p)
  <2>1. PICK n \in {"t_reply", "cancel"} : Continue(p, Now(pr[p], n))
    BY <1>14 DEF MarkDone
  <2>2. At(p, "mark") /\ UNCHANGED lock /\ pr[p].prog # <<>>
    BY <1>14 DEF MarkDone, At
  <2> QED
    BY <1>e, <1>f, <1>g, <2>1, <2>2
<1>15. CASE CancelNext(p)
  <2>1. CASE pr[p].cb = {}
    BY <1>15, <1>b, <1>d, <2>1 DEF CancelNext
  <2>2. CASE pr[p].cb # {}
    <3>1. PICK x \in pr[p].cb : Continue(p, [Now(pr[p], "cancel_branch") EXCEPT !.b = x])
      BY <1>15, <2>2, Zenon DEF CancelNext
    <3> DEFINE r == [Now(pr[p], "cancel_branch") EXCEPT !.b = x]
    <3>2. r.prog = Now(pr[p], "cancel_branch").prog /\ r.how = pr[p].how
      BY <1>0 DEF Now, Proc
    <3>3. At(p, "cancel") /\ UNCHANGED lock
      BY <1>15 DEF CancelNext
    <3> QED
      BY <1>e, <1>f, <3>1, <3>2, <3>3, Zenon
  <2> QED
    BY <2>1, <2>2
<1>16. CASE CancelBranch(p)
  <2> DEFINE r == [pr[p] EXCEPT !.cb = @ \ {pr[p].b}]
  <2>1. r \in Proc /\ r.prog = pr[p].prog /\ r.how = pr[p].how
    BY <1>0 DEF Proc
  <2>2. pr[p].prog # <<>> /\ Head(pr[p].prog) = "cancel_branch" /\ UNCHANGED lock
    BY <1>16 DEF CancelBranch, At
  <2>3. CASE pr[p].how = "locked"
    <3>1. pr[p].prog = <<"cancel_branch", "unlock">> /\ lock = p
      <4>1. LockOK(p, pr[p], lock = p)
        BY DEF LockInv
      <4> QED
        BY <2>2, <2>3, <4>1 DEF LockOK, LockedProgs, Free, Decides, Forwards
    <3>2. Continue(p, Pop(r))
      BY <1>16, <2>1, <2>3 DEF CancelBranch, Forced, Faking
    <3> HIDE DEF r
    <3>3. Pop(r).prog = <<"unlock">> /\ Pop(r).how = "locked"
      <4>1. Tail(r.prog) = <<"unlock">>
        BY <2>1, <3>1
      <4> QED
        BY <2>1, <2>3, <4>1 DEF Pop, Proc
    <3>4. LockOK(p, Pop(r), lock' = p)
      BY <2>2, <3>1, <3>3 DEF LockOK, LockedProgs
    <3> QED
      BY <2>2, <3>2, <3>4, LockFrame
  <2>4. CASE pr[p].how # "locked"
    <3>1. PICK n \in {"cancel", "fake"} : Continue(p, Now(r, n)) /\ (n = "fake" => r.how = "fake")
      BY <1>16, <2>1, <2>4 DEF CancelBranch, Faking
    <3>2. Free(pr[p]) /\ (p = Request => Scripted(pr[p]))
      BY <1>d, <2>2, <2>4, AtFree DEF At
    <3>3. Free(r)
      BY <2>1, <3>2, Zenon DEF Free
    <3> HIDE DEF r
    <3>4. Free(Now(r, n)) /\ Now(r, n).prog # <<>> /\ Head(Now(r, n).prog) = n
      BY <1>d, <2>1, <2>2, <3>3, NowFree
    <3>5. Now(r, n).how = pr[p].how
      BY <2>1 DEF Now, Proc
    <3>6. p = Request => Scripted(Now(r, n))
      BY <2>1, <3>1, <3>2, <3>4, <3>5 DEF Scripted
    <3> QED
      BY <1>a, <2>2, <3>1, <3>4, <3>6
  <2> QED
    BY <2>3, <2>4
<1>17. CASE FakeCanceled(p)
  <2> DEFINE r == [pr[p] EXCEPT !.prog = <<"relay">>, !.code = 487, !.faked = TRUE, !.ctx = "fake"]
  <2>1. At(p, "fake") /\ Free(pr[p]) /\ (p = Request => Scripted(pr[p]))
    BY <1>d, <1>17, AtFree DEF FakeCanceled
  <2>2. p # Request
    BY <2>1 DEF Scripted, At
  <2>3. r.how # "locked" /\ r.prog = <<"relay">>
    BY <1>0, <2>1 DEF Proc, Free
  <2>4. Continue(p, r) /\ lock = NoProc /\ lock' = p
    BY <1>17 DEF FakeCanceled
  <2> HIDE DEF r
  <2> QED
    BY <1>h, <1>i, <2>2, <2>3, <2>4
<1> QED
  BY <1>1, <1>4, <1>5, <1>6, <1>7, <1>8, <1>9, <1>10, <1>j, <1>11, <1>12, <1>13,
     <1>14, <1>15, <1>16, <1>17 DEF Step, Forward

LEMMA EventKeepsLock ==
  ASSUME TypeOK, LockInv, NEW p \in Procs, p # Request,
         \/ \E b \in Br, c \in ReplyCodes : FinalReceived(p, b, c) \/ ProvisionalReceived(p, b, c)
         \/ \E b \in Br : FrExpire(p, b)
         \/ E2ECancel(p)
  PROVE  LockInv'
<1>1. ASSUME NEW b \in Br, NEW c \in ReplyCodes, lock = NoProc, ToRelay(p, b, c)
      PROVE  LockInv'
  <2> DEFINE q == [Idle EXCEPT !.prog = <<"failover", "relay">>, !.b = b, !.code = c,
                               !.ctx = "reply", !.todo = {b}]
             r == [Idle EXCEPT !.prog = <<"relay">>, !.b = b, !.code = c, !.ctx = "reply"]
  <2>1. /\ q.how # "locked" /\ q.prog = <<"failover", "relay">>
        /\ r.how # "locked" /\ r.prog = <<"relay">>
    BY DEF Idle
  <2>2. (Continue(p, q) \/ Continue(p, r)) /\ lock' = p
    BY <1>1 DEF ToRelay
  <2> HIDE DEF q, r
  <2>3. Decides(q) /\ Decides(r)
    BY <2>1 DEF Decides, ForwardSteps, DecideSteps
  <2>4. LockOK(p, q, lock' = p) /\ LockOK(p, r, lock' = p)
    BY <2>2, <2>3 DEF LockOK
  <2> QED
    BY <1>1, <2>2, <2>4, LockFrame
<1>2. ASSUME NEW b \in Br, NEW c \in ReplyCodes, FinalReceived(p, b, c)
      PROVE  LockInv'
  <2>1. CASE OnlyAck(b, c)
    BY <1>2, <2>1 DEF FinalReceived, LockInv
  <2>2. CASE ~OnlyAck(b, c)
    BY <1>1, <1>2, <2>2 DEF FinalReceived, Arrives
  <2> QED
    BY <2>1, <2>2
<1>3. ASSUME NEW b \in Br, NEW c \in ReplyCodes, ProvisionalReceived(p, b, c)
      PROVE  LockInv'
  <2>0. uac[b].canc \in BOOLEAN /\ lock = NoProc
    BY <1>3, ZenonT(40) DEF TypeOK, Uac, ProvisionalReceived, Arrives
  <2>1. CASE ~uac[b].canc
    BY <1>1, <1>3, <2>0, <2>1, ZenonT(40) DEF ProvisionalReceived
  <2>2. CASE uac[b].canc /\ uac[b].lc # "free"
    BY <1>3, <2>2, ZenonT(40) DEF ProvisionalReceived, LockInv
  <2>3. CASE uac[b].canc /\ uac[b].lc = "free"
    <3> DEFINE r == [Idle EXCEPT !.prog = <<"cancel_branch", "unlock">>, !.b = b,
                                 !.cb = {b}, !.how = "locked"]
    <3>1. Continue(p, r) /\ lock' = p
      BY <1>3, <2>3, Zenon DEF ProvisionalReceived
    <3>2. r.how = "locked" /\ r.prog = <<"cancel_branch", "unlock">>
      BY DEF Idle
    <3> HIDE DEF r
    <3>3. LockOK(p, r, lock' = p)
      BY <3>1, <3>2 DEF LockOK, LockedProgs
    <3> QED
      BY <2>0, <3>1, <3>3, LockFrame, ZenonT(40)
  <2> QED
    BY <2>1, <2>2, <2>3, ZenonT(40)
<1>4. ASSUME NEW r, r.how # "locked", NEW s \in {"timeout", "prepare"}, r.prog = <<s>>,
             Continue(p, r), UNCHANGED lock
      PROVE  LockInv'
  <2>1. s \in FirstSteps
    BY DEF FirstSteps, StepNames, ForwardSteps, DecideSteps
  <2>2. LockOK(p, r, lock' = p)
    BY <1>4, <2>1, SingleFree DEF LockOK
  <2> QED
    BY <1>4, <2>2, LockFrame
<1>5. ASSUME NEW b \in Br, FrExpire(p, b)
      PROVE  LockInv'
  <2> DEFINE r == [Idle EXCEPT !.prog = <<"timeout">>, !.b = b]
  <2>1. r.how # "locked" /\ r.prog = <<"timeout">>
    BY DEF Idle
  <2>2. Continue(p, r) /\ UNCHANGED lock
    BY <1>5, Zenon DEF FrExpire
  <2> QED
    BY <1>4, <2>1, <2>2, Zenon
<1>6. CASE E2ECancel(p)
  <2>1. PICK how \in CancelMethods :
          Continue(p, [Idle EXCEPT !.prog = <<"prepare">>, !.code = 487, !.how = how])
    BY <1>6, Zenon DEF E2ECancel
  <2> DEFINE r == [Idle EXCEPT !.prog = <<"prepare">>, !.code = 487, !.how = how]
  <2>2. r.how # "locked" /\ r.prog = <<"prepare">>
    BY OptionAssumption DEF Idle
  <2>3. UNCHANGED lock
    BY <1>6, ZenonT(40) DEF E2ECancel
  <2> QED
    BY <1>4, <2>1, <2>2, <2>3, ZenonT(40)
<1> QED
  BY <1>2, <1>3, <1>5, <1>6

LEMMA LockInitially == Init => LockInv
<1> SUFFICES ASSUME Init, NEW p \in Procs PROVE LockOK(p, pr[p], lock = p)
  BY DEF LockInv
<1>1. LockOK(p, Idle, lock = p)
  BY DEF LockOK, Free, Scripted, Idle
<1>2. CASE p = Request /\ pr[p] = [Idle EXCEPT !.prog = <<"check">>]
  <2>1. pr[p].how = "none" /\ pr[p].prog = <<"check">>
    BY <1>2 DEF Idle
  <2> QED
    BY <1>2, <2>1 DEF LockOK, Forwards, ForwardSteps
<1>3. ASSUME NEW c \in LocalCodes, pr[p] = [Idle EXCEPT !.prog = <<"t_reply">>, !.code = c]
      PROVE  LockOK(p, pr[p], lock = p)
  <2>1. pr[p].how = "none" /\ pr[p].prog = <<"t_reply">>
    BY <1>3 DEF Idle
  <2>2. "t_reply" \in FirstSteps
    BY DEF FirstSteps, StepNames, ForwardSteps, DecideSteps
  <2> QED
    BY <2>1, <2>2, SingleFree DEF LockOK, Scripted
<1>4. \/ pr[p] = Idle
      \/ p = Request /\ pr[p] = [Idle EXCEPT !.prog = <<"check">>]
      \/ \E c \in LocalCodes : pr[p] = [Idle EXCEPT !.prog = <<"t_reply">>, !.code = c]
  BY Zenon DEF Init
<1> QED
  BY <1>1, <1>2, <1>3, <1>4, Zenon

LEMMA LockKept == TypeOK /\ LockInv /\ [Next]_vars => LockInv'
<1> SUFFICES ASSUME TypeOK, LockInv, [Next]_vars PROVE LockInv'
  OBVIOUS
<1>1. CASE \E p \in Procs : Step(p)
  BY <1>1, StepKeepsLock
<1>2. CASE \/ \E p \in Workers, b \in Br, c \in ReplyCodes :
                FinalReceived(p, b, c) \/ ProvisionalReceived(p, b, c)
           \/ \E p \in Timers, b \in Br : FrExpire(p, b)
           \/ \E p \in Cancelers : E2ECancel(p)
  BY <1>2, EventKeepsLock, ProcAssumption DEF Procs
<1>3. CASE Rest \/ UNCHANGED vars
  BY <1>3 DEF Rest, vars, tvars, LockInv
<1> QED
  BY <1>1, <1>2, <1>3 DEF Next

(* relay_reply never runs without the REPLY lock: of any number of workers,   *)
(* timers and cancelling processes, one at a time decides what is relayed.    *)
THEOREM RelayIsLocked == Spec => []RelayLocked
<1>1. LockInv => RelayLocked
  BY AtDecides DEF RelayLocked, DecideSteps
<1> QED
  BY <1>1, TypesInitially, TypesKept, LockInitially, LockKept, PTL DEF Spec

=============================================================================
