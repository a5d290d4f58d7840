-------------------------- MODULE TmReplyUpstream --------------------------
(***************************************************************************)
(* What the caller gets from TmReply, for any number of processes and       *)
(* branches and any configuration: a final status stays, and upstream gets  *)
(* one final reply.                                                         *)
(***************************************************************************)
EXTENDS TmReplyTypes

(* The step formula of FinalStays *)
FinalStep == /\ uas.status >= 200 => \/ uas'.status = uas.status
                                     \/ RelayMode = 0 /\ InvThrough(uas'.status)
             /\ wait => wait'

LEMMA IntTypes ==
  ASSUME TypeOK, NEW p \in Procs
  PROVE  pr[p].code \in Int /\ uas.status \in Int /\ uas \in Uas /\ wait \in BOOLEAN
<1>1. pr[p].code \in Codes
  BY RelayTypes
<1>2. uas.status \in Codes /\ uas \in Uas /\ wait \in BOOLEAN
  BY DEF TypeOK, Uas
<1>3. Codes \subseteq Int
  BY DEF Codes
<1> QED
  BY <1>1, <1>2, <1>3, Zenon

(* An answered transaction lets relay_reply decide on late REGISTER replies    *)
(* only.                                                                       *)
LEMMA DecidingFinal ==
  ASSUME TypeOK, NEW p \in Procs, Deciding(p), uas.status >= 200
  PROVE  pr[p].code >= 300
<1>1. pr[p].code \in Int /\ uas.status \in Int
  BY IntTypes
<1> QED
  BY <1>1 DEF Deciding, Pushed, Discarded, LateRegister, InvThrough, Is2xx

(* t_reply_unsafe answers an unanswered transaction only, and may set the       *)
(* status without sending anything.                                            *)
LEMMA ReplyUnsafeOnce ==
  ASSUME TypeOK, NEW u, NEW c \in Codes, ReplyUnsafe(u, c)
  PROVE  /\ wait' = TRUE
         /\ \/ sent' = sent /\ uas' = uas
            \/ uas.status < 200 /\ uas'.status = c /\ (sent' = sent \/ sent' = Count(c))
<1>1. uas \in Uas
  BY DEF TypeOK
<1>2. /\ Retransmitted([uas EXCEPT !.status = c, !.rb = -2]).status = c
      /\ [uas EXCEPT !.status = c].status = c
  BY <1>1 DEF Retransmitted, Uas
<1> QED
  BY <1>2, Zenon DEF ReplyUnsafe

LEMMA RelayKeepsFinal ==
  ASSUME TypeOK, NEW p \in Procs, Relay(p)
  PROVE  FinalStep
<1>0. pr[p].code \in Int /\ uas.status \in Int /\ uas \in Uas /\ wait \in BOOLEAN
  BY IntTypes
<1>1. CASE RelayDiscard(p)
  BY <1>1 DEF RelayDiscard, tvars, FinalStep
<1>2. CASE RelayPushed(p)
  <2>1. InvThrough(pr[p].code)
    BY <1>2 DEF RelayPushed, Pushed
  <2>2. \/ uas' = uas
        \/ RelayMode = 0 /\ uas'.status = pr[p].code
    BY <1>0, <1>2 DEF RelayPushed, Uas
  <2> QED
    BY <1>2, <2>1, <2>2 DEF RelayPushed, FinalStep
<1>3. CASE RelayProvisional(p)
  <2>1. ~(uas.status >= 200)
    BY <1>0, <1>3, DecidingFinal DEF RelayProvisional
  <2> QED
    BY <1>3, <2>1 DEF RelayProvisional, FinalStep
<1>4. CASE RelayPositive(p)
  <2>1. ~(uas.status >= 200)
    BY <1>0, <1>4, DecidingFinal DEF RelayPositive, Is2xx
  <2> QED
    BY <1>4, <2>1 DEF RelayPositive, FinalStep
<1>5. CASE RelayStore(p)
  BY <1>5 DEF RelayStore, FinalStep
<1>6. CASE RelayBest(p)
  BY <1>0, <1>6 DEF RelayBest, FinalStep
<1>7. CASE RelayLate(p)
  BY <1>7 DEF RelayLate, FinalStep
<1>8. CASE RelayRoute(p)
  BY <1>8 DEF RelayRoute, FinalStep
<1>a. ASSUME NEW u, NEW c \in Codes, ReplyUnsafe(u, c)
      PROVE  FinalStep
  <2>1. /\ wait' = TRUE
        /\ uas' = uas \/ uas.status < 200
    BY <1>a, ReplyUnsafeOnce
  <2> QED
    BY <1>0, <2>1 DEF FinalStep
<1>b. 500 \in Codes /\ LocalCodes \subseteq Codes
  BY CodeAssumption DEF Codes
<1>9. CASE RelayRouteReply(p)
  BY <1>a, <1>b, <1>9 DEF RelayRouteReply
<1>10. CASE RelayReplied(p)
  BY <1>10 DEF RelayReplied, tvars, FinalStep
<1>11. CASE RelayForked(p)
  BY <1>11 DEF RelayForked, FinalStep
<1>12. CASE RelayDropped(p)
  <2>1. CASE UNCHANGED <<uas, sent, wait>>
    BY <2>1 DEF FinalStep
  <2>2. CASE ReplyUnsafe(NoReplies(uac), 500)
    BY <1>a, <1>b, <2>2
  <2> QED
    BY <1>12, <2>1, <2>2, Zenon DEF RelayDropped
<1>13. CASE RelayError(p)
  BY <1>a, <1>b, <1>13, Zenon DEF RelayError
<1> QED
  BY <1>1, <1>2, <1>3, <1>4, <1>5, <1>6, <1>7, <1>8, <1>9, <1>10, <1>11, <1>12, <1>13 DEF Relay

LEMMA FinalKept == TypeOK /\ [Next]_vars => [FinalStep]_vars
<1> SUFFICES ASSUME TypeOK, Next PROVE FinalStep
  OBVIOUS
<1>0. uas.status \in Int /\ uas \in Uas /\ wait \in BOOLEAN
  BY DEF TypeOK, Uas, Codes
<1>1. ASSUME NEW p \in Procs, Relay(p) PROVE FinalStep
  BY <1>1, RelayKeepsFinal
<1>2. ASSUME NEW p \in Procs, FinalUp(p) PROVE FinalStep
  <2>1. Retransmitted(uas).status = uas.status
    BY <1>0 DEF Retransmitted, Uas
  <2> QED
    BY <1>2, <2>1 DEF FinalUp, FinalStep
<1>3. ASSUME NEW p \in Procs, TReply(p) PROVE FinalStep
  BY <1>0, <1>3 DEF TReply, FinalStep
<1>4. ASSUME NEW p \in Procs, PutOnWait(p) PROVE FinalStep
  BY <1>4 DEF PutOnWait, FinalStep
<1>5. ASSUME UNCHANGED <<uas, wait>> PROVE FinalStep
  BY <1>5 DEF FinalStep
<1>6. ASSUME NEW p \in Procs,
             \/ Unlock(p) \/ Timeout(p) \/ GiveUp(p)
             \/ SendUp(p) \/ Cleanup(p) \/ Prepare(p) \/ MarkBranch(p) \/ MarkDone(p)
             \/ CancelNext(p) \/ CancelBranch(p) \/ FakeCanceled(p)
      PROVE  UNCHANGED <<uas, wait>>
  BY <1>6, ZenonT(40) DEF Unlock, Timeout, GiveUp, SendUp, Cleanup, Prepare,
              MarkBranch, MarkDone, CancelNext, CancelBranch, FakeCanceled, tvars
<1>9. ASSUME NEW p \in Procs, Forward(p)
      PROVE  UNCHANGED <<uas, wait>>
  BY <1>9, ForwardState, Zenon
<1>7. ASSUME NEW p, NEW b, NEW c, \/ FinalReceived(p, b, c) \/ ProvisionalReceived(p, b, c)
                                  \/ FrExpire(p, b) \/ E2ECancel(p)
      PROVE  UNCHANGED <<uas, wait>>
  BY <1>7, Zenon DEF FinalReceived, ProvisionalReceived, FrExpire, E2ECancel
<1>8. CASE Rest
  BY <1>5, <1>8 DEF Rest, vars, tvars
<1> QED
  BY <1>1, <1>2, <1>3, <1>4, <1>5, <1>6, <1>7, <1>8, <1>9 DEF Next, Step, Forward

(* Once the caller has been answered the status stays, whichever process      *)
(* answers later, and no step takes the transaction off the wait list.        *)
THEOREM FinalStatusStays == Spec => FinalStays
BY TypesInitially, TypesKept, FinalKept, PTL DEF Spec, FinalStays, FinalStep

-----------------------------------------------------------------------------
(* One final reply.  A handler sends at most one reply upstream, and a         *)
(* handler that has a negative final reply to send found the transaction       *)
(* unanswered: there is only one, and nothing negative was sent before.        *)

Ups == {"final_up", "send_up"}
Upless(g) == \A i \in DOMAIN g : g[i] \notin Ups
Once(g) == \A i, j \in DOMAIN g : g[i] \in Ups /\ g[j] \in Ups => i = j
Pending(r) == r.code \in Negative /\ ~Upless(r.prog)
UpInv == /\ \A p \in Procs : Once(pr[p].prog)
         /\ \A p \in Procs : Pending(pr[p]) =>
              /\ uas.status >= 200
              /\ \A c \in Negative : sent[c] = 0
              /\ \A q \in Procs : Pending(pr[q]) => p = q
         /\ uas.status < 200 => \A c \in Negative : sent[c] = 0
         /\ OneFinalReply

LEMMA PopOnce ==
  ASSUME NEW g \in Seq(StepNames), g # <<>>, Once(g)
  PROVE  /\ Once(Tail(g))
         /\ Head(g) \in Ups => Upless(Tail(g))
         /\ Upless(g) => Upless(Tail(g))
<1>1. /\ DOMAIN Tail(g) = 1..(Len(g) - 1) /\ DOMAIN g = 1..Len(g) /\ Len(g) \in Nat
      /\ \A i \in DOMAIN Tail(g) : Tail(g)[i] = g[i + 1]
      /\ Head(g) = g[1] /\ 1 \in DOMAIN g
  OBVIOUS
<1>2. \A i \in DOMAIN Tail(g) : i \in Int /\ i + 1 \in DOMAIN g /\ i + 1 # 1
  BY <1>1
<1>3. Once(Tail(g))
  <2> SUFFICES ASSUME NEW i \in DOMAIN Tail(g), NEW j \in DOMAIN Tail(g),
                      Tail(g)[i] \in Ups, Tail(g)[j] \in Ups
               PROVE  i = j
    BY DEF Once
  <2>1. i + 1 = j + 1
    BY <1>1, <1>2 DEF Once
  <2> QED
    BY <1>2, <2>1
<1>4. Head(g) \in Ups => Upless(Tail(g))
  BY <1>1, <1>2 DEF Once, Upless
<1>5. Upless(g) => Upless(Tail(g))
  BY <1>1, <1>2 DEF Upless
<1> QED
  BY <1>3, <1>4, <1>5

LEMMA NowOnce ==
  ASSUME NEW g \in Seq(StepNames), g # <<>>, Once(g), NEW s, s \notin Ups
  PROVE  /\ Once(<<s>> \o Tail(g))
         /\ Upless(g) => Upless(<<s>> \o Tail(g))
<1> DEFINE h == <<s>> \o Tail(g)
<1>1. /\ DOMAIN h = 1..Len(g) /\ DOMAIN g = 1..Len(g) /\ Len(g) \in Nat
      /\ h[1] = s
      /\ \A i \in 2..Len(g) : h[i] = g[i]
  OBVIOUS
<1> HIDE DEF h
<1>2. \A i \in DOMAIN h : i \in DOMAIN g /\ (h[i] \in Ups => h[i] = g[i])
  BY <1>1
<1>3. Once(h)
  BY <1>2 DEF Once
<1>4. Upless(g) => Upless(h)
  BY <1>2 DEF Upless
<1> QED
  BY <1>3, <1>4 DEF h

(* relay_reply leaves at most one reply to send, and none if none is relayed.  *)
LEMMA AfterOnce ==
  ASSUME NEW ctx, NEW completed \in BOOLEAN, NEW relayed \in BOOLEAN, NEW bm
  PROVE  /\ Once(After(ctx, completed, relayed, bm))
         /\ ~relayed => Upless(After(ctx, completed, relayed, bm))
<1> DEFINE N == {"put_on_wait", "cleanup", "cancel"}
<1>1. \A h \in Seq(N) : Upless(h)
  BY DEF Upless, Ups
<1>2. ASSUME NEW u, NEW h \in Seq(N)
      PROVE  Once(<<u>> \o h)
  <2>1. \A i \in DOMAIN (<<u>> \o h) : i # 1 => (<<u>> \o h)[i] \in N
    OBVIOUS
  <2> QED
    BY <2>1 DEF Once, Ups
<1>3. \A h \in Seq(N) : Once(h)
  BY <1>1 DEF Once, Upless
<1>4. CancelSteps(bm) \in Seq(N)
  BY DEF CancelSteps
<1>5. /\ (IF completed THEN <<"put_on_wait">> ELSE <<>>) \in Seq(N)
      /\ (IF ctx = "reply" /\ completed THEN <<"cleanup">> ELSE <<>>) \in Seq(N)
  <2>1. <<"put_on_wait">> \in Seq(N) /\ <<"cleanup">> \in Seq(N) /\ <<>> \in Seq(N)
    OBVIOUS
  <2> HIDE DEF N
  <2> QED
    BY <2>1
<1>6. PICK y \in Seq(N), z \in Seq(N), w \in BOOLEAN :
        After(ctx, completed, relayed, bm) = UpSteps(completed, relayed, w) \o y \o z
  <2> HIDE DEF N
  <2>1. CASE ctx = "timer"
    BY <1>4, <1>5, <2>1, Zenon DEF After
  <2>2. CASE ctx # "timer"
    BY <1>4, <1>5, <2>2, Zenon DEF After
  <2> QED
    BY <2>1, <2>2, Zenon
<1>7. CASE ~relayed
  <2>1. UpSteps(completed, relayed, w) = <<>>
    BY <1>7 DEF UpSteps
  <2>2. <<>> \o y \o z \in Seq(N)
    OBVIOUS
  <2> HIDE DEF N
  <2> QED
    BY <1>1, <1>3, <1>6, <2>1, <2>2, Zenon
<1>8. CASE relayed
  <2>1. PICK u \in Ups, t \in Seq(N) : UpSteps(completed, relayed, w) = <<u>> \o t
    <3>1. /\ <<>> \in Seq(N) /\ <<"put_on_wait">> \in Seq(N)
          /\ "final_up" \in Ups /\ "send_up" \in Ups
      BY DEF Ups
    <3>2. CASE completed /\ w
      <4>1. UpSteps(completed, relayed, w) = <<"final_up">> \o <<"put_on_wait">>
        BY <1>8, <3>2 DEF UpSteps
      <4> QED
        BY <3>1, <4>1, Zenon
    <3>3. CASE completed /\ ~w
      <4>1. UpSteps(completed, relayed, w) = <<"final_up">> \o <<>>
        BY <1>8, <3>3 DEF UpSteps
      <4> QED
        BY <3>1, <4>1, Zenon
    <3>4. CASE ~completed
      <4>1. UpSteps(completed, relayed, w) = <<"send_up">> \o <<>>
        BY <1>8, <3>4 DEF UpSteps
      <4> QED
        BY <3>1, <4>1, Zenon
    <3> QED
      BY <3>2, <3>3, <3>4, Zenon
  <2> HIDE DEF N
  <2>2. (<<u>> \o t) \o y \o z = <<u>> \o (t \o y \o z) /\ t \o y \o z \in Seq(N)
    OBVIOUS
  <2> QED
    BY <1>2, <1>6, <1>8, <2>1, <2>2, Zenon
<1> QED
  BY <1>7, <1>8

LEMMA NegativeCodes ==
  /\ Negative \subseteq UpCodes
  /\ \A c \in Negative : c \in Int /\ c >= 200
  /\ UpCodes \subseteq Int
<1>1. UpCodes \subseteq Int
  BY CodeAssumption DEF UpCodes
<1> QED
  BY <1>1 DEF Negative, Final

(* A step of p that sends nothing and starts nothing to send.                  *)
LEMMA UpQuiet ==
  ASSUME TypeOK, UpInv, NEW p \in Procs, NEW r, Continue(p, r), Once(r.prog),
         Pending(r) => Pending(pr[p]),
         sent' = sent, uas.status >= 200 => uas'.status >= 200, uas'.status \in Int
  PROVE  UpInv'
<1>1. pr'[p] = IF r.prog = <<>> THEN Idle ELSE r
  BY DEF Continue, TypeOK
<1>2. \A q \in Procs : q # p => pr'[q] = pr[q]
  BY DEF Continue, TypeOK
<1>3. ~Pending(Idle) /\ Once(Idle.prog)
  BY DEF Pending, Upless, Once, Idle
<1>4. Once(pr'[p].prog) /\ (Pending(pr'[p]) => Pending(pr[p]))
  BY <1>1, <1>3 DEF Pending
<1>5. uas.status \in Int /\ uas'.status \in Int
  BY DEF TypeOK, Uas, Codes
<1>6. \A q \in Procs : Once(pr'[q].prog) /\ (Pending(pr'[q]) => Pending(pr[q]))
  BY <1>2, <1>4 DEF UpInv
<1>7. uas'.status < 200 => uas.status < 200
  BY <1>5
<1> QED
  BY <1>6, <1>7 DEF UpInv, OneFinalReply

(* A step of p that answers the transaction and leaves the reply to be sent.   *)
LEMMA UpStart ==
  ASSUME TypeOK, UpInv, NEW p \in Procs, NEW r, Continue(p, r), Once(r.prog),
         sent' = sent, uas.status < 200, uas'.status >= 200 \/ r.code < 200,
         r.code \in Int, uas'.status \in Int
  PROVE  UpInv'
<1>1. pr'[p] = IF r.prog = <<>> THEN Idle ELSE r
  BY DEF Continue, TypeOK
<1>2. \A q \in Procs : q # p => pr'[q] = pr[q]
  BY DEF Continue, TypeOK
<1>3. ~Pending(Idle) /\ Once(Idle.prog)
  BY DEF Pending, Upless, Once, Idle
<1>4. uas.status \in Int /\ ~(uas.status >= 200)
  BY DEF TypeOK, Uas, Codes
<1>5. \A q \in Procs : Once(pr'[q].prog) /\ (Pending(pr'[q]) => q = p)
  BY <1>1, <1>2, <1>3, <1>4 DEF UpInv
<1>6. Pending(pr'[p]) => uas'.status >= 200
  <2>1. Pending(r) => ~(r.code < 200)
    BY NegativeCodes DEF Pending
  <2> QED
    BY <1>1, <1>3, <2>1
<1>7. \A c \in Negative : sent'[c] = 0
  BY DEF UpInv
<1> QED
  BY <1>5, <1>6, <1>7 DEF UpInv, OneFinalReply

LEMMA Counting ==
  ASSUME TypeOK, NEW c \in Codes
  PROVE  /\ \A d \in UpCodes : d # c => Count(c)[d] = sent[d]
         /\ c \in Negative /\ sent[c] = 0 => Count(c)[c] = 1
<1>1. sent \in [UpCodes -> 0..Many]
  BY DEF TypeOK
<1>2. \A d \in UpCodes : d # c => Count(c)[d] = sent[d]
  BY <1>1 DEF Count
<1>3. ASSUME c \in Negative, sent[c] = 0
      PROVE  Count(c)[c] = 1
  <2>1. c >= 200 /\ c \in UpCodes
    BY <1>3, NegativeCodes
  <2>2. Count(c)[c] = IF sent[c] < Many THEN sent[c] + 1 ELSE sent[c]
    BY <1>1, <2>1 DEF Count
  <2> QED
    BY <1>3, <2>2 DEF Many
<1> QED
  BY <1>2, <1>3

(* One reply is sent, nothing negative having been sent before.                *)
LEMMA FirstReply ==
  ASSUME TypeOK, NEW c \in Codes, sent' = Count(c), \A d \in Negative : sent[d] = 0
  PROVE  OneFinalReply'
<1>1. \A d \in Negative : sent'[d] > 0 => d = c /\ sent'[d] = 1
  BY Counting, NegativeCodes
<1> QED
  BY <1>1 DEF OneFinalReply

(* A step of p that answers the transaction and sends the reply itself.        *)
LEMMA UpDirect ==
  ASSUME TypeOK, UpInv, NEW p \in Procs, NEW r, Continue(p, r), Upless(r.prog), Once(r.prog),
         NEW c \in Codes, sent' = Count(c), uas.status < 200, uas'.status >= 200,
         uas'.status \in Int
  PROVE  UpInv'
<1>1. pr'[p] = IF r.prog = <<>> THEN Idle ELSE r
  BY DEF Continue, TypeOK
<1>2. \A q \in Procs : q # p => pr'[q] = pr[q]
  BY DEF Continue, TypeOK
<1>3. ~Pending(Idle) /\ Once(Idle.prog)
  BY DEF Pending, Upless, Once, Idle
<1>4. uas.status \in Int /\ ~(uas.status >= 200) /\ ~(uas'.status < 200)
  BY DEF TypeOK, Uas, Codes
<1>5. \A q \in Procs : Once(pr'[q].prog) /\ ~Pending(pr'[q])
  BY <1>1, <1>2, <1>3, <1>4 DEF UpInv, Pending
<1>6. OneFinalReply'
  BY FirstReply DEF UpInv
<1> QED
  BY <1>4, <1>5, <1>6 DEF UpInv

(* p sends the reply it has to send.                                           *)
LEMMA UpSend ==
  ASSUME TypeOK, UpInv, NEW p \in Procs, NEW s \in Ups, At(p, s), Continue(p, Pop(pr[p])),
         sent' = Count(pr[p].code), uas'.status = uas.status
  PROVE  UpInv'
<1>0. pr[p] \in Proc /\ pr[p].code \in Codes
  BY RelayTypes
<1>1. pr[p].prog # <<>> /\ pr[p].prog \in Seq(StepNames) /\ Head(pr[p].prog) \in Ups
  BY <1>0 DEF At, Proc
<1>2. Pop(pr[p]).prog = Tail(pr[p].prog)
  BY <1>0 DEF Pop, Proc
<1>3. Upless(Pop(pr[p]).prog) /\ Once(Pop(pr[p]).prog)
  BY <1>1, <1>2, PopOnce DEF UpInv
<1>4. pr'[p] = IF Pop(pr[p]).prog = <<>> THEN Idle ELSE Pop(pr[p])
  BY DEF Continue, TypeOK
<1>5. \A q \in Procs : q # p => pr'[q] = pr[q]
  BY DEF Continue, TypeOK
<1>6. ~Pending(Idle) /\ Once(Idle.prog)
  BY DEF Pending, Upless, Once, Idle
<1>7. Once(pr'[p].prog) /\ ~Pending(pr'[p])
  BY <1>3, <1>4, <1>6 DEF Pending
<1>8. ~Upless(pr[p].prog)
  <2>1. 1 \in DOMAIN pr[p].prog /\ pr[p].prog[1] = Head(pr[p].prog)
    BY <1>1
  <2> QED
    BY <1>1, <2>1 DEF Upless
<1>9. CASE pr[p].code \in Negative
  <2>1. Pending(pr[p])
    BY <1>8, <1>9 DEF Pending
  <2>2. /\ uas.status >= 200 /\ \A c \in Negative : sent[c] = 0
        /\ \A q \in Procs : Pending(pr[q]) => p = q
    BY <2>1 DEF UpInv
  <2>3. OneFinalReply'
    BY <1>0, <2>2, FirstReply
  <2>4. \A q \in Procs : Once(pr'[q].prog) /\ ~Pending(pr'[q])
    BY <1>5, <1>7, <2>2 DEF UpInv
  <2>5. ~(uas'.status < 200)
    BY <2>2 DEF TypeOK, Uas, Codes
  <2> QED
    BY <2>3, <2>4, <2>5 DEF UpInv
<1>10. CASE pr[p].code \notin Negative
  <2>1. \A c \in Negative : sent'[c] = sent[c]
    BY <1>0, <1>10, Counting, NegativeCodes
  <2>2. OneFinalReply'
    BY <2>1 DEF UpInv, OneFinalReply
  <2>3. \A q \in Procs : Once(pr'[q].prog) /\ (Pending(pr'[q]) => Pending(pr[q]))
    BY <1>5, <1>7 DEF UpInv
  <2> QED
    BY <2>1, <2>2, <2>3 DEF UpInv
<1> QED
  BY <1>9, <1>10

LEMMA ReturnOnce ==
  ASSUME TypeOK, NEW p \in Procs, NEW completed \in BOOLEAN, NEW relayed \in BOOLEAN,
         NEW code, NEW bm, Return(p, completed, relayed, code, bm)
  PROVE  \E r : /\ Continue(p, r) /\ Once(r.prog) /\ r.code = code
                /\ ~relayed => Upless(r.prog)
<1>1. PICK how \in HowAfter(pr[p], completed) :
        Continue(p, [pr[p] EXCEPT !.prog = After(pr[p].ctx, completed, relayed, bm),
                                  !.how = how, !.code = code, !.cb = bm])
  BY Zenon DEF Return
<1> DEFINE r == [pr[p] EXCEPT !.prog = After(pr[p].ctx, completed, relayed, bm),
                              !.how = how, !.code = code, !.cb = bm]
<1>2. pr[p] \in Proc
  BY RelayTypes
<1>3. r.prog = After(pr[p].ctx, completed, relayed, bm) /\ r.code = code
  BY <1>2 DEF Proc
<1>4. Continue(p, r)
  BY <1>1
<1> HIDE DEF r
<1> QED
  BY <1>3, <1>4, AfterOnce

LEMMA RelayKeepsUp ==
  ASSUME TypeOK, UpInv, NEW p \in Procs, Relay(p)
  PROVE  UpInv'
<1>0. /\ pr[p].code \in Int /\ uas.status \in Int /\ pr[p].code \in Codes
      /\ uas \in Uas /\ uas.status \in Codes /\ Codes \subseteq Int
  <2>1. Codes \subseteq Int
    BY DEF Codes
  <2>2. uas.status \in Codes
    BY DEF TypeOK, Uas
  <2> QED
    BY <2>1, <2>2, IntTypes, RelayTypes
<1>a. ASSUME NEW completed \in BOOLEAN, NEW code, NEW bm, Return(p, completed, FALSE, code, bm),
             uas' = uas, sent' = sent
      PROVE  UpInv'
  <2>1. PICK r : Continue(p, r) /\ Once(r.prog) /\ Upless(r.prog)
    BY <1>a, ReturnOnce, Zenon
  <2>2. ~Pending(r)
    BY <2>1 DEF Pending
  <2> QED
    BY <1>0, <1>a, <2>1, <2>2, UpQuiet
<1>b. ASSUME NEW r, Continue(p, r), Once(r.prog), Upless(r.prog),
             NEW u, NEW c \in Codes, c >= 200, ReplyUnsafe(u, c)
      PROVE  UpInv'
  <2>1. ~Pending(r)
    BY <1>b DEF Pending
  <2>2. CASE uas' = uas /\ sent' = sent
    BY <1>0, <1>b, <2>1, <2>2, UpQuiet
  <2>3. CASE uas.status < 200 /\ uas'.status = c /\ sent' = sent
    BY <1>0, <1>b, <2>1, <2>3, UpQuiet
  <2>4. CASE uas.status < 200 /\ uas'.status = c /\ sent' = Count(c)
    BY <1>0, <1>b, <2>4, UpDirect
  <2> QED
    BY <1>b, <2>2, <2>3, <2>4, ReplyUnsafeOnce, Zenon
<1>c. ASSUME NEW completed \in BOOLEAN, NEW relayed \in BOOLEAN, NEW code, NEW bm,
             Return(p, completed, relayed, code, bm), code \notin Negative
      PROVE  \E r : Continue(p, r) /\ Once(r.prog) /\ ~Pending(r)
  BY <1>c, ReturnOnce DEF Pending
<1>1. CASE RelayDiscard(p)
  BY <1>1, <1>a, Zenon DEF RelayDiscard, tvars
<1>2. CASE RelayPushed(p)
  <2>1. pr[p].code \notin Negative
    BY <1>2 DEF RelayPushed, Pushed, Negative
  <2>2. Return(p, FALSE, TRUE, pr[p].code, pr[p].cb) /\ sent' = sent
    BY <1>2, Zenon DEF RelayPushed
  <2>3. PICK r : Continue(p, r) /\ Once(r.prog) /\ ~Pending(r)
    BY <1>c, <2>1, <2>2, Zenon
  <2>4. uas'.status \in {uas.status, pr[p].code} /\ pr[p].code >= 200
    BY <1>0, <1>2 DEF RelayPushed, Pushed, InvThrough, Is2xx, Uas
  <2> QED
    BY <1>0, <2>2, <2>3, <2>4, UpQuiet
<1>3. CASE RelayProvisional(p)
  <2>1. pr[p].code \notin Negative
    BY <1>0, <1>3, NegativeCodes DEF RelayProvisional
  <2>2. Return(p, FALSE, pr[p].code # 100, pr[p].code, pr[p].cb) /\ sent' = sent
    BY <1>3, Zenon DEF RelayProvisional
  <2>3. PICK relayed \in BOOLEAN : Return(p, FALSE, relayed, pr[p].code, pr[p].cb)
    BY <2>2, Zenon
  <2>4. PICK r : Continue(p, r) /\ Once(r.prog) /\ ~Pending(r)
    BY <1>c, <2>1, <2>3, ZenonT(40)
  <2>5. ~(uas.status >= 200) /\ uas'.status \in {uas.status, pr[p].code}
    BY <1>0, <1>3, DecidingFinal DEF RelayProvisional, Uas
  <2> QED
    BY <1>0, <2>2, <2>4, <2>5, UpQuiet
<1>4. CASE RelayPositive(p)
  <2>1. Return(p, TRUE, TRUE, pr[p].code, IF Invite THEN ToCancel(Received(p)) ELSE {}) /\ sent' = sent
    BY <1>4, Zenon DEF RelayPositive
  <2>2. PICK r : Continue(p, r) /\ Once(r.prog) /\ r.code = pr[p].code
    <3>1. PICK code : code = pr[p].code
      OBVIOUS
    <3>2. PICK bm : Return(p, TRUE, TRUE, code, bm)
      BY <2>1, <3>1, Zenon
    <3>3. PICK r : Continue(p, r) /\ Once(r.prog) /\ r.code = code
      BY <3>2, ReturnOnce, Zenon
    <3> QED
      BY <3>1, <3>3
  <2>3. uas.status < 200 /\ uas'.status = pr[p].code /\ pr[p].code >= 200
    BY <1>0, <1>4, DecidingFinal DEF RelayPositive, Uas, Is2xx
  <2> QED
    BY <1>0, <2>1, <2>2, <2>3, UpStart
<1>5. CASE RelayStore(p)
  BY <1>5, <1>a, Zenon DEF RelayStore
<1>6. CASE RelayBest(p)
  <2>1. PICK x \in Candidates(Received(p), pr[p].b) :
          /\ uas' = [uas EXCEPT !.status = RelayedCode(p, x), !.rb = x]
          /\ Return(p, TRUE, TRUE, RelayedCode(p, x), pr[p].cb)
    BY <1>6, Zenon DEF RelayBest
  <2>2. RelayedCode(p, x) \in Int
    BY <1>0, RelayTypes, Zenon DEF Candidates
  <2>3. PICK r : Continue(p, r) /\ Once(r.prog) /\ r.code = RelayedCode(p, x)
    BY <2>1, ReturnOnce, Zenon
  <2>4. uas'.status = RelayedCode(p, x) /\ uas.status < 200 /\ sent' = sent
    BY <1>0, <1>6, <2>1, Zenon DEF RelayBest, Uas
  <2>5. RelayedCode(p, x) >= 200 \/ RelayedCode(p, x) < 200
    BY <2>2
  <2> QED
    BY <2>2, <2>3, <2>4, <2>5, UpStart
<1>7. CASE RelayLate(p)
  BY <1>7, <1>a, Zenon DEF RelayLate
<1>d. /\ \A c \in LocalCodes : c \in Codes /\ c >= 200
      /\ 500 \in Codes
  BY CodeAssumption DEF Codes
<1>e. ASSUME NEW r, NEW g \in {<<"check", "repick">>, <<"repick_dropped">>,
                               <<"check", "repick_dropped">>, <<"repick">>}, r.prog = g
      PROVE  Once(r.prog) /\ Upless(r.prog)
  BY <1>e DEF Once, Upless, Ups
<1>8. CASE RelayRoute(p)
  <2>1. PICK act \in {"fork", "drop", "dropfork"} :
          Continue(p, [pr[p] EXCEPT !.prog = RoutePrograms[act], !.todo = {}])
    BY <1>8, OptionAssumption, Zenon DEF RelayRoute
  <2> DEFINE r == [pr[p] EXCEPT !.prog = RoutePrograms[act], !.todo = {}]
  <2>2. r.prog = RoutePrograms[act]
    BY RelayTypes DEF Proc
  <2>3. RoutePrograms[act] \in {<<"check", "repick">>, <<"repick_dropped">>,
                                <<"check", "repick_dropped">>, <<"repick">>}
    BY DEF RoutePrograms
  <2>4. Continue(p, r) /\ uas' = uas /\ sent' = sent
    BY <1>8, <2>1, Zenon DEF RelayRoute
  <2> HIDE DEF r
  <2>5. Once(r.prog) /\ ~Pending(r)
    BY <1>e, <2>2, <2>3, Zenon DEF Pending
  <2> QED
    BY <1>0, <2>4, <2>5, UpQuiet
<1>9. CASE RelayRouteReply(p)
  <2> DEFINE r == [pr[p] EXCEPT !.prog = <<"repick">>]
  <2>1. r.prog = <<"repick">>
    BY RelayTypes DEF Proc
  <2>2. PICK c \in LocalCodes : ReplyUnsafe(Received(p), c)
    BY <1>9, Zenon DEF RelayRouteReply
  <2>3. Continue(p, r)
    BY <1>9, Zenon DEF RelayRouteReply
  <2> HIDE DEF r
  <2>4. Once(r.prog) /\ Upless(r.prog)
    BY <1>e, <2>1
  <2> QED
    BY <1>b, <1>d, <2>2, <2>3, <2>4
<1>10. CASE RelayReplied(p)
  BY <1>10, <1>a, Zenon DEF RelayReplied, tvars
<1>11. CASE RelayForked(p)
  BY <1>11, <1>a, Zenon DEF RelayForked
<1>f. ASSUME NEW completed \in BOOLEAN, NEW code, NEW bm, Return(p, completed, FALSE, code, bm),
             NEW u, ReplyUnsafe(u, 500)
      PROVE  UpInv'
  <2>1. PICK r : Continue(p, r) /\ Once(r.prog) /\ Upless(r.prog)
    BY <1>f, ReturnOnce, Zenon
  <2>2. 500 \in Codes /\ 500 >= 200
    BY <1>d
  <2> QED
    BY <1>b, <1>f, <2>1, <2>2
<1>12. CASE RelayDropped(p)
  <2>1. CASE /\ Return(p, FALSE, FALSE, pr[p].code, pr[p].cb)
             /\ UNCHANGED <<uas, sent, wait>>
    BY <1>a, <2>1, Zenon
  <2>2. CASE /\ ReplyUnsafe(NoReplies(uac), 500)
             /\ Return(p, TRUE, FALSE, pr[p].code, pr[p].cb)
    BY <1>f, <2>2, Zenon
  <2> QED
    BY <1>12, <2>1, <2>2, Zenon DEF RelayDropped
<1>13. CASE RelayError(p)
  BY <1>f, <1>13, Zenon DEF RelayError
<1> QED
  BY <1>1, <1>2, <1>3, <1>4, <1>5, <1>6, <1>7, <1>8, <1>9, <1>10, <1>11, <1>12, <1>13 DEF Relay

(* t_reply, whichever way it goes.                                             *)
LEMMA TReplyKeepsUp ==
  ASSUME TypeOK, UpInv, NEW p \in Procs, TReply(p)
  PROVE  UpInv'
<1>0. pr[p] \in Proc /\ pr[p].code \in Int /\ uas.status \in Int /\ uas \in Uas /\ sent' = sent
  BY RelayTypes, IntTypes, Zenon DEF TReply
<1>1. /\ \A g : [pr[p] EXCEPT !.how = "kill", !.prog = g].prog = g
      /\ \A g : [pr[p] EXCEPT !.how = "kill", !.prog = g].code = pr[p].code
      /\ \A g : [pr[p] EXCEPT !.prog = g].prog = g
      /\ \A g, B : [pr[p] EXCEPT !.how = "kill", !.cb = B, !.prog = g].prog = g
  BY <1>0 DEF Proc
<1>2. ASSUME NEW g \in {<<"cleanup", "prepare", "put_on_wait">>, <<"cleanup", "put_on_wait">>,
                        <<"cleanup", "cancel", "put_on_wait">>}
      PROVE  Once(g) /\ Upless(g)
  BY <1>2 DEF Once, Upless, Ups
<1>3. ASSUME NEW r, Continue(p, r), Once(r.prog), Upless(r.prog),
             uas' = uas \/ (uas.status < 200 /\ uas'.status = pr[p].code)
      PROVE  UpInv'
  <2>1. ~Pending(r)
    BY <1>3 DEF Pending
  <2>2. uas'.status \in Int /\ (uas.status >= 200 => uas'.status >= 200)
    BY <1>0, <1>3
  <2> QED
    BY <1>0, <1>3, <2>1, <2>2, UpQuiet
<1>4. ASSUME NEW g \in {<<"cleanup", "prepare", "put_on_wait">>, <<"cleanup", "put_on_wait">>},
             Continue(p, [pr[p] EXCEPT !.how = "kill", !.prog = g]), uas' = uas
      PROVE  UpInv'
  <2> DEFINE r == [pr[p] EXCEPT !.how = "kill", !.prog = g]
  <2>1. r.prog = g /\ Continue(p, r)
    BY <1>1, <1>4, Zenon
  <2> HIDE DEF r
  <2> QED
    BY <1>2, <1>3, <1>4, <2>1
<1>5. CASE Continue(p, [pr[p] EXCEPT !.prog = <<"cleanup", "put_on_wait">>]) /\ uas' = uas
  <2> DEFINE r == [pr[p] EXCEPT !.prog = <<"cleanup", "put_on_wait">>]
  <2>1. r.prog = <<"cleanup", "put_on_wait">> /\ Continue(p, r)
    BY <1>1, <1>5, Zenon
  <2> HIDE DEF r
  <2> QED
    BY <1>2, <1>3, <1>5, <2>1
<1>6. ASSUME NEW B, Continue(p, [pr[p] EXCEPT !.how = "kill", !.cb = B,
                                   !.prog = <<"cleanup", "cancel", "put_on_wait">>]),
             uas.status < 200, uas' = [uas EXCEPT !.status = pr[p].code]
      PROVE  UpInv'
  <2> DEFINE r == [pr[p] EXCEPT !.how = "kill", !.cb = B,
                                !.prog = <<"cleanup", "cancel", "put_on_wait">>]
  <2>1. r.prog = <<"cleanup", "cancel", "put_on_wait">> /\ Continue(p, r)
    BY <1>1, <1>6, Zenon
  <2>2. uas'.status = pr[p].code
    BY <1>0, <1>6 DEF Uas
  <2> HIDE DEF r
  <2> QED
    BY <1>2, <1>3, <1>6, <2>1, <2>2
<1>7. ASSUME NEW g \in {<<"cleanup", "prepare", "final_up", "put_on_wait">>,
                        <<"cleanup", "final_up", "put_on_wait">>},
             Continue(p, [pr[p] EXCEPT !.how = "kill", !.prog = g]),
             uas.status < 200, uas' = [uas EXCEPT !.status = pr[p].code, !.rb = -2]
      PROVE  UpInv'
  <2> DEFINE r == [pr[p] EXCEPT !.how = "kill", !.prog = g]
  <2>1. r.prog = g /\ r.code = pr[p].code /\ Continue(p, r)
    BY <1>1, <1>7, Zenon
  <2> HIDE DEF r
  <2>2. uas'.status = pr[p].code
    BY <1>0, <1>7 DEF Uas
  <2>3. Once(<<"cleanup", "prepare", "final_up", "put_on_wait">>)
    BY DEF Once, Ups
  <2>4. Once(<<"cleanup", "final_up", "put_on_wait">>)
    BY DEF Once, Ups
  <2>5. Once(r.prog)
    BY <1>7, <2>1, <2>3, <2>4, Zenon
  <2>6. uas'.status >= 200 \/ r.code < 200
    BY <1>0, <2>1, <2>2
  <2> QED
    BY <1>0, <1>7, <2>1, <2>2, <2>5, <2>6, UpStart
<1>8. CASE MemFails /\ UNCHANGED <<uac, uas>> /\
             Continue(p, [pr[p] EXCEPT !.how = "kill", !.prog =
               IF Invite THEN <<"cleanup", "prepare", "put_on_wait">>
                         ELSE <<"cleanup", "put_on_wait">>])
  BY <1>4, <1>8, Zenon
<1>9. CASE /\ uas.status < 200
           /\ uas' = [uas EXCEPT !.status = pr[p].code, !.rb = -2]
           /\ Continue(p, [pr[p] EXCEPT !.how = "kill", !.prog =
                IF Invite THEN <<"cleanup", "prepare", "final_up", "put_on_wait">>
                          ELSE <<"cleanup", "final_up", "put_on_wait">>])
  BY <1>7, <1>9, Zenon
<1> QED
  BY <1>5, <1>6, <1>8, <1>9, Zenon DEF TReply

LEMMA StepKeepsUp ==
  ASSUME TypeOK, UpInv, NEW p \in Procs, Step(p)
  PROVE  UpInv'
<1>0. pr[p] \in Proc /\ pr[p].prog \in Seq(StepNames) /\ pr[p].code \in Int
      /\ uas.status \in Int /\ Once(pr[p].prog)
  BY RelayTypes, IntTypes, ZenonT(40) DEF Proc, UpInv
<1>a. ASSUME NEW r, Continue(p, r), Once(r.prog), Upless(r.prog), UNCHANGED <<uas, sent>>
      PROVE  UpInv'
  BY <1>0, <1>a, UpQuiet DEF Pending
<1>b. ASSUME NEW r, Continue(p, r), Once(r.prog), r.code = pr[p].code,
             Upless(pr[p].prog) => Upless(r.prog), UNCHANGED <<uas, sent>>
      PROVE  UpInv'
  BY <1>0, <1>b, UpQuiet DEF Pending
<1>c. ASSUME Continue(p, Pop(pr[p])), pr[p].prog # <<>>, UNCHANGED <<uas, sent>>
      PROVE  UpInv'
  <2>1. Pop(pr[p]).prog = Tail(pr[p].prog) /\ Pop(pr[p]).code = pr[p].code
    BY <1>0 DEF Pop, Proc
  <2>2. Once(Tail(pr[p].prog)) /\ (Upless(pr[p].prog) => Upless(Tail(pr[p].prog)))
    BY <1>0, <1>c, PopOnce
  <2> QED
    BY <1>b, <1>c, <2>1, <2>2
<1>d. ASSUME NEW r, NEW n \in StepNames \ Ups, r.prog = <<n>> \o Tail(pr[p].prog),
             r.code = pr[p].code, Continue(p, r), pr[p].prog # <<>>, UNCHANGED <<uas, sent>>
      PROVE  UpInv'
  BY <1>0, <1>b, <1>d, NowOnce, Zenon
<1>e. ASSUME NEW n \in StepNames \ Ups
      PROVE  Once(<<n>>) /\ Upless(<<n>>)
  BY <1>e DEF Once, Upless
<1>f. {"t_reply", "put_on_wait", "relay", "mark", "cancel", "fake",
       "cancel_branch"} \subseteq StepNames \ Ups
  BY DEF StepNames, Ups
<1>1. CASE Forward(p)
  <2>1. PICK r : Continue(p, r) /\ Onward(p, r)
    BY <1>1, ForwardShape
  <2>2. UNCHANGED <<uas, sent>> /\ pr[p].prog # <<>>
    BY <1>1, ForwardState
  <2>3. CASE r.prog = <<>>
    BY <1>a, <2>1, <2>2, <2>3 DEF Once, Upless
  <2>4. CASE r.prog = <<"t_reply">>
    BY <1>a, <1>e, <1>f, <2>1, <2>2, <2>4
  <2>5. CASE Kept(r, pr[p]) /\ r.prog = Tail(pr[p].prog)
    <3>1. Once(Tail(pr[p].prog)) /\ (Upless(pr[p].prog) => Upless(Tail(pr[p].prog)))
      BY <1>0, <2>2, PopOnce
    <3> QED
      BY <1>b, <2>1, <2>2, <2>5, <3>1 DEF Kept
  <2>6. ASSUME Kept(r, pr[p]), NEW s \in ForwardSteps, r.prog = <<s>> \o Tail(pr[p].prog)
        PROVE  UpInv'
    <3>1. s \in StepNames \ Ups
      BY <2>6 DEF ForwardSteps, StepNames, Ups
    <3> QED
      BY <1>d, <2>1, <2>2, <2>6, <3>1 DEF Kept
  <2> QED
    BY <2>1, <2>3, <2>4, <2>5, <2>6 DEF Onward
<1>4. CASE Relay(p)
  BY <1>4, RelayKeepsUp
<1>5. CASE Unlock(p)
  BY <1>5, <1>c DEF Unlock, At, tvars
<1>6. CASE FinalUp(p)
  <2>1. uas'.status = uas.status
    BY <1>6 DEF FinalUp, Retransmitted, TypeOK, Uas
  <2>2. "final_up" \in Ups
    BY DEF Ups
  <2> QED
    BY <1>6, <2>1, <2>2, UpSend DEF FinalUp
<1>7. CASE SendUp(p)
  <2>1. "send_up" \in Ups
    BY DEF Ups
  <2> QED
    BY <1>7, <2>1, UpSend DEF SendUp, tvars
<1>8. CASE PutOnWait(p)
  BY <1>8, <1>c DEF PutOnWait, At
<1>9. CASE Cleanup(p)
  BY <1>9, <1>c DEF Cleanup, At
<1>g. ASSUME NEW b, NEW c, FakeReply(p, b, c), UNCHANGED <<uas, sent>>
      PROVE  UpInv'
  <2> DEFINE r == [Idle EXCEPT !.prog = <<"relay">>, !.b = b, !.code = c, !.faked = TRUE,
                               !.ctx = "timer", !.cb = TimedOut(b)]
  <2>1. r.prog = <<"relay">> /\ Continue(p, r)
    BY <1>g DEF Idle, FakeReply
  <2> HIDE DEF r
  <2> QED
    BY <1>a, <1>e, <1>f, <1>g, <2>1, Zenon
<1>10. CASE Timeout(p)
  <2>1. UNCHANGED <<uas, sent>>
    BY <1>10 DEF Timeout
  <2>2. CASE Silent(pr[p].b)
    <3> DEFINE r == [Idle EXCEPT !.prog = <<"put_on_wait">>]
    <3>1. r.prog = <<"put_on_wait">>
      BY DEF Idle
    <3>2. Continue(p, r)
      BY <1>10, <2>2 DEF Timeout
    <3> HIDE DEF r
    <3> QED
      BY <1>a, <1>e, <1>f, <2>1, <3>1, <3>2, Zenon
  <2>3. CASE FakeReply(p, pr[p].b, 408)
    BY <1>g, <2>1, <2>3, Zenon
  <2>4. CASE Continue(p, [pr[p] EXCEPT !.prog = <<"failover", "give_up">>, !.todo = {pr[p].b}])
    <3> DEFINE r == [pr[p] EXCEPT !.prog = <<"failover", "give_up">>, !.todo = {pr[p].b}]
    <3>1. r.prog = <<"failover", "give_up">> /\ Continue(p, r)
      BY <1>0, <2>4 DEF Proc
    <3> HIDE DEF r
    <3>2. Once(r.prog) /\ Upless(r.prog)
      BY <3>1 DEF Once, Upless, Ups
    <3> QED
      BY <1>a, <2>1, <3>1, <3>2, Zenon
  <2> QED
    BY <1>10, <2>2, <2>3, <2>4, Zenon DEF Timeout
<1>h. CASE GiveUp(p)
  BY <1>g, <1>h, Zenon DEF GiveUp
<1>11. CASE TReply(p)
  BY <1>11, TReplyKeepsUp
<1>12. CASE Prepare(p)
  <2> DEFINE r == [Now(pr[p], "mark") EXCEPT !.todo = 1..nout]
  <2>1. pr[p].prog # <<>> /\ Continue(p, r) /\ UNCHANGED <<uas, sent>>
    BY <1>12 DEF Prepare, At, tvars
  <2>2. r.prog = <<"mark">> \o Tail(pr[p].prog) /\ r.code = pr[p].code
    BY <1>0 DEF Now, Proc
  <2> HIDE DEF r
  <2> QED
    BY <1>d, <1>f, <2>1, <2>2
<1>13. CASE MarkBranch(p)
  <2>1. PICK x \in pr[p].todo :
          Continue(p, [pr[p] EXCEPT !.todo = @ \ {x},
                            !.cb = IF Cancelable(uac[x], TRUE) THEN @ \cup {x} ELSE @])
    BY <1>13, Zenon DEF MarkBranch
  <2> DEFINE r == [pr[p] EXCEPT !.todo = @ \ {x},
                                !.cb = IF Cancelable(uac[x], TRUE) THEN @ \cup {x} ELSE @]
  <2>2. r.code = pr[p].code /\ r.prog = pr[p].prog
    BY <1>0 DEF Proc
  <2>3. UNCHANGED <<uas, sent>>
    BY <1>13 DEF MarkBranch
  <2> QED
    BY <1>0, <1>b, <2>1, <2>2, <2>3, Zenon
<1>14. CASE MarkDone(p)
  <2>1. PICK n \in {"t_reply", "cancel"} : Continue(p, Now(pr[p], n))
    BY <1>14 DEF MarkDone
  <2>2. UNCHANGED <<uas, sent>> /\ pr[p].prog # <<>>
    BY <1>14 DEF MarkDone, At, tvars
  <2>3. Now(pr[p], n).prog = <<n>> \o Tail(pr[p].prog) /\ Now(pr[p], n).code = pr[p].code
    BY <1>0 DEF Now, Proc
  <2> QED
    BY <1>d, <1>f, <2>1, <2>2, <2>3
<1>15. CASE CancelNext(p)
  <2>1. UNCHANGED <<uas, sent>> /\ pr[p].prog # <<>>
    BY <1>15 DEF CancelNext, At
  <2>2. CASE pr[p].cb = {}
    BY <1>15, <1>c, <2>1, <2>2 DEF CancelNext
  <2>3. CASE pr[p].cb # {}
    <3>1. PICK x \in pr[p].cb : Continue(p, [Now(pr[p], "cancel_branch") EXCEPT !.b = x])
      BY <1>15, <2>3, Zenon DEF CancelNext
    <3> DEFINE r == [Now(pr[p], "cancel_branch") EXCEPT !.b = x]
    <3>2. r.prog = <<"cancel_branch">> \o Tail(pr[p].prog) /\ r.code = pr[p].code
      BY <1>0 DEF Now, Proc
    <3>3. Continue(p, r)
      BY <3>1
    <3> HIDE DEF r
    <3> QED
      BY <1>d, <1>f, <2>1, <3>2, <3>3
  <2> QED
    BY <2>2, <2>3
<1>16. CASE CancelBranch(p)
  <2> DEFINE r == [pr[p] EXCEPT !.cb = @ \ {pr[p].b}]
  <2>1. r \in Proc /\ r.prog = pr[p].prog /\ r.code = pr[p].code
    BY <1>0 DEF Proc
  <2>2. pr[p].prog # <<>> /\ UNCHANGED <<uas, sent>>
    BY <1>16 DEF CancelBranch, At
  <2>3. Continue(p, Pop(r)) \/ \E n \in {"cancel", "fake"} : Continue(p, Now(r, n))
    BY <1>16 DEF CancelBranch
  <2> HIDE DEF r
  <2>4. CASE Continue(p, Pop(r))
    <3>1. Pop(r).prog = Tail(pr[p].prog) /\ Pop(r).code = pr[p].code
      BY <2>1 DEF Pop, Proc
    <3>2. Once(Tail(pr[p].prog)) /\ (Upless(pr[p].prog) => Upless(Tail(pr[p].prog)))
      BY <1>0, <2>2, PopOnce
    <3> QED
      BY <1>b, <2>2, <2>4, <3>1, <3>2
  <2>5. ASSUME NEW n \in {"cancel", "fake"}, Continue(p, Now(r, n))
        PROVE  UpInv'
    <3>1. Now(r, n).prog = <<n>> \o Tail(pr[p].prog) /\ Now(r, n).code = pr[p].code
      BY <2>1 DEF Now, Proc
    <3> QED
      BY <1>d, <1>f, <2>2, <2>5, <3>1
  <2> QED
    BY <2>3, <2>4, <2>5
<1>17. CASE FakeCanceled(p)
  <2> DEFINE r == [pr[p] EXCEPT !.prog = <<"relay">>, !.code = 487, !.faked = TRUE, !.ctx = "fake"]
  <2>1. r.prog = <<"relay">>
    BY <1>0 DEF Proc
  <2>2. Continue(p, r) /\ UNCHANGED <<uas, sent>>
    BY <1>17 DEF FakeCanceled, tvars
  <2> HIDE DEF r
  <2> QED
    BY <1>a, <1>e, <1>f, <2>1, <2>2, Zenon
<1> QED
  BY <1>1, <1>4, <1>5, <1>6, <1>7, <1>8, <1>9, <1>10, <1>h, <1>11, <1>12, <1>13,
     <1>14, <1>15, <1>16, <1>17 DEF Step, Forward

LEMMA EventKeepsUp ==
  ASSUME TypeOK, UpInv, NEW p \in Procs,
         \/ \E b \in Br, c \in ReplyCodes : FinalReceived(p, b, c) \/ ProvisionalReceived(p, b, c)
         \/ \E b \in Br : FrExpire(p, b)
         \/ E2ECancel(p)
  PROVE  UpInv'
<1>0. uas.status \in Int /\ UNCHANGED <<uas, sent>>
  BY IntTypes, ZenonT(40) DEF FinalReceived, ProvisionalReceived, FrExpire, E2ECancel
<1>1. ASSUME NEW r, Continue(p, r),
             NEW g \in {<<"relay">>, <<"timeout">>, <<"prepare">>, <<"cancel_branch", "unlock">>,
                        <<"failover", "relay">>},
             r.prog = g
      PROVE  UpInv'
  <2>1. Once(r.prog) /\ Upless(r.prog)
    <3>1. \A s \in StepNames \ Ups : Once(<<s>>) /\ Upless(<<s>>)
      BY DEF Once, Upless
    <3>2. {"relay", "timeout", "prepare"} \subseteq StepNames \ Ups
      BY DEF StepNames, Ups
    <3>3. Once(<<"cancel_branch", "unlock">>) /\ Upless(<<"cancel_branch", "unlock">>)
      BY DEF Once, Upless, Ups
    <3>4. Once(<<"failover", "relay">>) /\ Upless(<<"failover", "relay">>)
      BY DEF Once, Upless, Ups
    <3> QED
      BY <1>1, <3>1, <3>2, <3>3, <3>4
  <2> QED
    BY <1>0, <1>1, <2>1, UpQuiet DEF Pending
<1>2. ASSUME UNCHANGED pr
      PROVE  UpInv'
  BY <1>0, <1>2 DEF UpInv, OneFinalReply
<1>3. ASSUME NEW b, NEW c, ToRelay(p, b, c)
      PROVE  UpInv'
  <2> DEFINE q == [Idle EXCEPT !.prog = <<"failover", "relay">>, !.b = b, !.code = c,
                               !.ctx = "reply", !.todo = {b}]
             r == [Idle EXCEPT !.prog = <<"relay">>, !.b = b, !.code = c, !.ctx = "reply"]
  <2>1. r.prog = <<"relay">> /\ q.prog = <<"failover", "relay">>
    BY DEF Idle
  <2>2. Continue(p, q) \/ Continue(p, r)
    BY <1>3 DEF ToRelay
  <2> HIDE DEF q, r
  <2> QED
    BY <1>1, <2>1, <2>2
<1>4. ASSUME NEW b \in Br, NEW c \in ReplyCodes, FinalReceived(p, b, c)
      PROVE  UpInv'
  BY <1>2, <1>3, <1>4 DEF FinalReceived
<1>5. ASSUME NEW b \in Br, NEW c \in ReplyCodes, ProvisionalReceived(p, b, c)
      PROVE  UpInv'
  <2> DEFINE r == [Idle EXCEPT !.prog = <<"cancel_branch", "unlock">>, !.b = b,
                               !.cb = {b}, !.how = "locked"]
  <2>0. uac[b].canc \in BOOLEAN
    BY DEF TypeOK, Uac
  <2>1. UNCHANGED pr \/ ToRelay(p, b, c) \/ Continue(p, r)
    BY <1>5, <2>0, Zenon DEF ProvisionalReceived
  <2>2. r.prog = <<"cancel_branch", "unlock">>
    BY DEF Idle
  <2> HIDE DEF r
  <2> QED
    BY <1>1, <1>2, <1>3, <2>1, <2>2, Zenon
<1>6. ASSUME NEW b \in Br, FrExpire(p, b)
      PROVE  UpInv'
  <2> DEFINE r == [Idle EXCEPT !.prog = <<"timeout">>, !.b = b]
  <2>1. r.prog = <<"timeout">> /\ Continue(p, r)
    BY <1>6, Zenon DEF Idle, FrExpire
  <2> HIDE DEF r
  <2> QED
    BY <1>1, <2>1
<1>7. CASE E2ECancel(p)
  <2>1. PICK how \in CancelMethods :
          Continue(p, [Idle EXCEPT !.prog = <<"prepare">>, !.code = 487, !.how = how])
    BY <1>7, Zenon DEF E2ECancel
  <2> DEFINE r == [Idle EXCEPT !.prog = <<"prepare">>, !.code = 487, !.how = how]
  <2>2. r.prog = <<"prepare">> /\ Continue(p, r)
    BY <2>1 DEF Idle
  <2> HIDE DEF r
  <2> QED
    BY <1>1, <2>2
<1> QED
  BY <1>4, <1>5, <1>6, <1>7

LEMMA UpInitially == Init => UpInv
<1> SUFFICES ASSUME Init PROVE UpInv
  OBVIOUS
<1>1. ASSUME NEW p \in Procs
      PROVE  pr[p].prog \in {<<>>, <<"check">>, <<"t_reply">>}
  <2>1. \/ pr[p] = Idle
        \/ pr[p] = [Idle EXCEPT !.prog = <<"check">>]
        \/ \E c \in LocalCodes : pr[p] = [Idle EXCEPT !.prog = <<"t_reply">>, !.code = c]
    BY Zenon DEF Init
  <2>2. Idle.prog = <<>> /\ [Idle EXCEPT !.prog = <<"check">>].prog = <<"check">>
    BY DEF Idle
  <2>3. \A c : [Idle EXCEPT !.prog = <<"t_reply">>, !.code = c].prog = <<"t_reply">>
    BY DEF Idle
  <2> QED
    BY <2>1, <2>2, <2>3, Zenon
<1>2. \A p \in Procs : Once(pr[p].prog) /\ Upless(pr[p].prog)
  BY <1>1 DEF Once, Upless, Ups
<1>3. \A c \in Negative : sent[c] = 0
  BY NegativeCodes, Zenon DEF Init
<1> QED
  BY <1>2, <1>3 DEF UpInv, Pending, OneFinalReply

LEMMA UpKept == TypeOK /\ UpInv /\ [Next]_vars => UpInv'
<1> SUFFICES ASSUME TypeOK, UpInv, [Next]_vars PROVE UpInv'
  OBVIOUS
<1>1. CASE \E p \in Procs : Step(p)
  BY <1>1, StepKeepsUp
<1>2. CASE \/ \E p \in Workers, b \in Br, c \in ReplyCodes :
                FinalReceived(p, b, c) \/ ProvisionalReceived(p, b, c)
           \/ \E p \in Timers, b \in Br : FrExpire(p, b)
           \/ \E p \in Cancelers : E2ECancel(p)
  BY <1>2, EventKeepsUp DEF Procs
<1>3. CASE Rest \/ UNCHANGED vars
  BY <1>3 DEF Rest, vars, tvars, UpInv, OneFinalReply
<1> QED
  BY <1>1, <1>2, <1>3 DEF Next

(* Whoever answers (relay_reply in a worker, a timer or a cancelling process,  *)
(* t_reply in the script, a failure route or e2e_cancel) and in whatever       *)
(* order, the caller gets one final reply; only the 2xx of an INVITE may       *)
(* follow it.                                                                  *)
THEOREM OneReplyUpstream == Spec => []OneFinalReply
<1>1. UpInv => OneFinalReply
  BY DEF UpInv
<1> QED
  BY <1>1, TypesInitially, TypesKept, UpInitially, UpKept, PTL DEF Spec

=============================================================================
