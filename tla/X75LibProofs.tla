---------------------------- MODULE X75LibProofs ----------------------------
(***************************************************************************)
(* Lemmas about X75Lib, for all values of its constants: one per function  *)
(* of x75lib.c, from the helpers up to the entry points.  The first row is *)
(* about types, timers and, where win is set, the window of struct _x75;   *)
(* the second about what the upper layer is told.                          *)
(***************************************************************************)
EXTENDS X75Lib, TLAPS

LEMMA Fields ==
  ASSUME NEW c \in Context
  PROVE  /\ c.status \in Status /\ c.I \in Queue /\ c.UI \in Queue
         /\ c.v_a \in SeqNo /\ c.v_s \in SeqNo /\ c.v_r \in SeqNo
         /\ c.RC \in Retries /\ c.errors \in Counts
         /\ c.L3_req \in BOOLEAN /\ c.RNR \in BOOLEAN /\ c.sentRR \in BOOLEAN
         /\ c.ack_pend \in BOOLEAN /\ c.inREJ \in BOOLEAN /\ c.trypoll \in BOOLEAN
         /\ c.T1 \in BOOLEAN /\ c.T3 \in BOOLEAN /\ c.asBroadcast \in BOOLEAN
         /\ c.room \in Budget /\ c.accept \in Budget /\ c.fail \in Failures
         /\ c.space \in Budget /\ c.recvok \in BOOLEAN /\ c.out \in FrameSeq
         /\ c.told \in IndSeq /\ c.up \in BlockSeq /\ c.woke \in BOOLEAN
         /\ c.ret \in Errors
BY DEF Context

Same(c, d) == /\ d.status = c.status /\ d.I = c.I
              /\ d.v_a = c.v_a /\ d.v_s = c.v_s
              /\ d.T1 = c.T1 /\ d.T3 = c.T3

LEMMA TellOK ==
  ASSUME NEW c \in Context, NEW ind \in Indications
  PROVE  Tell(c, ind) \in Context /\ Same(c, Tell(c, ind))
<1>1. Append(c.told, ind) \in IndSeq
  BY Fields DEF IndSeq
<1> QED BY <1>1 DEF Tell, Context, Same

LEMMA WakeOK ==
  ASSUME NEW c \in Context
  PROVE  Wake(c) \in Context /\ Same(c, Wake(c))
BY DEF Wake, Context, Same

LEMMA XmitOK ==
  ASSUME NEW c \in Context, NEW f \in Frame
  PROVE  Xmit(c, f) \in Context /\ Same(c, Xmit(c, f))
<1>1. Append(c.out, f) \in FrameSeq
  BY Fields DEF FrameSeq
<1>2. c.accept > 0 => c.accept - 1 \in Budget
  BY Fields DEF Budget
<1>3. "ok" \in Errors /\ c.fail \in Errors
  BY Fields DEF Errors, Failures
<1> QED BY ZenonT(60), <1>1, <1>2, <1>3 DEF Xmit, Context, Same

LEMMA SetStateOK ==
  ASSUME NEW c \in Context, NEW s \in Status
  PROVE  /\ SetState(c, s) \in Context
         /\ SetState(c, s).status = s
         /\ SetState(c, s).I = c.I /\ SetState(c, s).v_a = c.v_a /\ SetState(c, s).v_s = c.v_s
         /\ SetState(c, s).T1 = c.T1 /\ SetState(c, s).T3 = c.T3
         /\ s # "S_down" => SetState(c, s).errors = c.errors
<1>1. 0 \in Counts
  BY ErrorAssumption DEF Counts
<1> QED BY <1>1 DEF SetState, Context

LEMMA UFrameOK ==
  ASSUME NEW t \in UCodes, NEW cmd \in BOOLEAN, NEW pf \in BOOLEAN
  PROVE  Unnumbered(t, cmd, pf) \in Frame
BY ModAssumption DEF Unnumbered, Supervisory, Frame, SeqNo

LEMMA ErrorsOK ==
  /\ \A x \in {"ok", "EAGAIN", "EIO", "ENXIO", "ETIMEDOUT", "ENOENT"} : x \in Errors
BY DEF Errors

LEMMA SFrameOK ==
  ASSUME NEW t \in {"RR", "RNR", "REJ"}, NEW cmd \in BOOLEAN, NEW pf \in BOOLEAN, NEW nr \in SeqNo
  PROVE  Supervisory(t, cmd, pf, nr) \in Frame
BY ModAssumption DEF Supervisory, Frame, SeqNo, SCodes

(* Operators that change the timers, or nothing the invariants look at. *)
LEMMA StartT1OK ==
  ASSUME NEW c \in Context
  PROVE  /\ StartT1(c) \in Context /\ StartT1(c).T1 = TRUE /\ StartT1(c).T3 = c.T3
         /\ StartT1(c).status = c.status /\ StartT1(c).I = c.I
         /\ StartT1(c).v_a = c.v_a /\ StartT1(c).v_s = c.v_s
BY DEF StartT1, Context

LEMMA StopT1OK ==
  ASSUME NEW c \in Context
  PROVE  /\ StopT1(c) \in Context /\ StopT1(c).T3 = c.T3
         /\ StopT1(c).status = c.status /\ StopT1(c).I = c.I
         /\ StopT1(c).v_a = c.v_a /\ StopT1(c).v_s = c.v_s
BY DEF StopT1, Context

LEMMA T1OverOK ==
  ASSUME NEW c \in Context
  PROVE  /\ T1Over(c) \in Context /\ T1Over(c).T3 = TRUE /\ T1Over(c).T1 = FALSE
         /\ T1Over(c).status = c.status /\ T1Over(c).I = c.I
         /\ T1Over(c).v_a = c.v_a /\ T1Over(c).v_s = c.v_s
BY DEF T1Over, Context

LEMMA T3OverOK ==
  ASSUME NEW c \in Context
  PROVE  /\ T3Over(c) \in Context /\ T3Over(c).T1 = TRUE
         /\ T3Over(c).status = c.status /\ T3Over(c).I = c.I
         /\ T3Over(c).v_a = c.v_a /\ T3Over(c).v_s = c.v_s
BY DEF T3Over, Context

LEMMA ClrExceptOK ==
  ASSUME NEW c \in Context
  PROVE  ClrExcept(c) \in Context /\ Same(c, ClrExcept(c)) /\ ClrExcept(c).errors = c.errors
BY DEF ClrExcept, Context, Same

LEMMA EmptyQueue == <<>> \in Queue /\ Len(<<>>) = 0
BY DEF Queue

LEMMA FlushIOK ==
  ASSUME NEW c \in Context
  PROVE  /\ FlushI(c) \in Context /\ FlushI(c).status = c.status
         /\ FlushI(c).T1 = c.T1 /\ FlushI(c).T3 = c.T3
         /\ FlushI(c).v_a = 0 /\ FlushI(c).v_s = 0
<1>1. 0 \in SeqNo
  BY ModAssumption DEF SeqNo
<1> QED BY <1>1, EmptyQueue DEF FlushI, Context

LEMMA KillMeOK ==
  ASSUME NEW c \in Context, NEW ind \in Indications
  PROVE  KillMe(c, ind) \in Context /\ KillMe(c, ind).status = "S_down"
<1> DEFINE a == [c EXCEPT !.I = <<>>, !.UI = <<>>, !.T1 = FALSE, !.T3 = FALSE]
           d == SetState(a, "S_down")
<1>1. a \in Context
  BY EmptyQueue DEF Context
<1>2. "S_down" \in Status
  BY DEF Status
<1>3. d \in Context /\ d.status = "S_down"
  BY <1>1, <1>2, SetStateOK
<1>4. Tell(d, ind) \in Context /\ Tell(d, ind).status = "S_down"
  BY <1>3, TellOK DEF Same
<1> QED BY <1>3, <1>4 DEF KillMe

(* The combined invariant of a context, and the easy ways to have it. *)
Good(win, c) == c \in Context /\ Guarded(c) /\ (win => Windowed(c))

Idle(c) == /\ c.status \in {"S_down", "S_await_up", "S_await_down"}
           /\ c.status # "S_down" => c.T1

LEMMA IdleGood ==
  ASSUME NEW win \in BOOLEAN, NEW c \in Context, Idle(c)
  PROVE  Good(win, c)
BY DEF Idle, Good, Guarded, Windowed, Connected

LEMMA SameGood ==
  ASSUME NEW win \in BOOLEAN, NEW c, Good(win, c), NEW d \in Context, Same(c, d)
  PROVE  Good(win, d)
BY DEF Good, Same, Guarded, Windowed, Outstanding

LEMMA GiveUpOK ==
  ASSUME NEW c \in Context
  PROVE  GiveUp(c) \in Context /\ GiveUp(c).status = "S_down"
<1> DEFINE d == SetState(c, "S_down")
           e == Tell(d, "ERR_G")
           f == Tell(e, "DL_RELEASE_IND")
<1>1. d \in Context /\ d.status = "S_down"
  BY SetStateOK DEF Status
<1>2. e \in Context /\ e.status = "S_down"
  BY <1>1, TellOK DEF Indications, Same
<1>3. f \in Context /\ f.status = "S_down"
  BY <1>2, TellOK DEF Indications, Same
<1> QED BY <1>3, ErrorsOK DEF GiveUp, Context

LEMMA EstablishOK ==
  ASSUME NEW c \in Context, ~Broadcast
  PROVE  Establish(c) \in Context /\ Idle(Establish(c))
<1> DEFINE d == [SetState(ClrExcept(c), "S_await_up") EXCEPT !.RC = 0]
           e == [d EXCEPT !.errors = @ + ErrStep]
           f == Xmit(e, Unnumbered("SABM", TRUE, TRUE))
<1>1. SetState(ClrExcept(c), "S_await_up") \in Context
         /\ SetState(ClrExcept(c), "S_await_up").status = "S_await_up"
         /\ SetState(ClrExcept(c), "S_await_up").errors = c.errors
  BY ClrExceptOK, SetStateOK DEF Status
<1>2. 0 \in Retries
  BY RetryAssumption DEF Retries
<1>3. d \in Context /\ d.status = "S_await_up" /\ d.errors = c.errors
  BY <1>1, <1>2 DEF Context
<1>4. CASE c.errors + ErrStep >= ErrMax
  BY <1>3, <1>4, GiveUpOK DEF Establish, Idle
<1>5. CASE ~(c.errors + ErrStep >= ErrMax)
  <2>1. c.errors + ErrStep \in Counts
    BY <1>5, Fields, ErrorAssumption DEF Counts
  <2>2. e \in Context /\ e.status = "S_await_up"
    BY <1>3, <2>1 DEF Context
  <2>3. f \in Context /\ f.status = "S_await_up"
    BY <2>2, XmitOK, UFrameOK DEF UCodes, Same
  <2>4. T3Over(f) \in Context /\ T3Over(f).status = "S_await_up" /\ T3Over(f).T1
    BY <2>3, T3OverOK
  <2> QED BY <1>5, <2>4 DEF Establish, Idle
<1> QED BY <1>4, <1>5

LEMMA ReestablishOK ==
  ASSUME NEW win \in BOOLEAN, NEW c \in Context, ~Broadcast
  PROVE  Reestablish(c) \in Context /\ Idle(Reestablish(c)) /\ Good(win, Reestablish(c))
<1>1. Establish(c) \in Context /\ Idle(Establish(c))
  BY EstablishOK
<1>2. Reestablish(c) \in Context /\ Idle(Reestablish(c))
  BY ZenonT(60), <1>1 DEF Reestablish, Context, Idle
<1> QED BY <1>2, IdleGood

LEMMA RecoverNROK ==
  ASSUME NEW win \in BOOLEAN, NEW c \in Context, ~Broadcast
  PROVE  RecoverNR(c) \in Context /\ Good(win, RecoverNR(c))
BY TellOK, ReestablishOK DEF RecoverNR, Indications

(* Acknowledgements. *)
LEMMA SendAckOK ==
  ASSUME NEW c \in Context, NEW t \in {"RR", "RNR", "REJ"}, NEW cmd \in BOOLEAN, NEW pf \in BOOLEAN
  PROVE  SendAck(c, t, cmd, pf) \in Context /\ Same(c, SendAck(c, t, cmd, pf))
<1> DEFINE d == Xmit(c, Supervisory(t, cmd, pf, c.v_r))
<1>1. d \in Context /\ Same(c, d)
  BY Fields, SFrameOK, XmitOK
<1>2. Acked(d) \in Context /\ Same(d, Acked(d))
  BY ZenonT(60), <1>1 DEF Acked, Context, Same
<1> QED BY <1>1, <1>2 DEF SendAck, Same

LEMMA TellReadyOK ==
  ASSUME NEW c \in Context, NEW cmd \in BOOLEAN
  PROVE  TellReady(c, cmd) \in Context /\ Same(c, TellReady(c, cmd))
<1> DEFINE d == [c EXCEPT !.sentRR = CanRecv(c)]
<1>1. CanRecv(c) \in BOOLEAN
  BY DEF CanRecv
<1>2. d \in Context /\ Same(c, d)
  BY <1>1 DEF Context, Same
<1>3. ReadyCode(d) \in {"RR", "RNR", "REJ"}
  BY DEF ReadyCode
<1>4. SendAck(d, ReadyCode(d), cmd, TRUE) \in Context
         /\ Same(d, SendAck(d, ReadyCode(d), cmd, TRUE))
  BY <1>2, <1>3, SendAckOK
<1> QED BY <1>2, <1>4 DEF TellReady, Same

LEMMA EnquiryOK ==
  ASSUME NEW c \in Context
  PROVE  /\ Enquiry(c) \in Context /\ Enquiry(c).T1 = TRUE
         /\ Enquiry(c).status = c.status /\ Enquiry(c).I = c.I
         /\ Enquiry(c).v_a = c.v_a /\ Enquiry(c).v_s = c.v_s
<1> DEFINE d == TellReady(c, TRUE)
<1>1. d \in Context /\ Same(c, d)
  BY TellReadyOK
<1>2. /\ StartT1(d) \in Context /\ StartT1(d).T1 = TRUE
      /\ StartT1(d).status = d.status /\ StartT1(d).I = d.I
      /\ StartT1(d).v_a = d.v_a /\ StartT1(d).v_s = d.v_s
  BY <1>1, StartT1OK
<1> QED BY <1>1, <1>2 DEF Enquiry, Same

LEMMA EnqRespOK ==
  ASSUME NEW c \in Context
  PROVE  EnqResp(c) \in Context /\ Same(c, EnqResp(c))
BY TellReadyOK DEF EnqResp

LEMMA DropOK ==
  ASSUME NEW S, NEW q \in Seq(S), NEW n \in 0 .. Len(q)
  PROVE  Drop(q, n) \in Seq(S) /\ Len(Drop(q, n)) = Len(q) - n
BY DEF Drop

LEMMA ConcatOK ==
  ASSUME NEW S, NEW q \in Seq(S), NEW n \in Nat, NEW g, \A i \in 1 .. n : g[i] \in S,
         g = [i \in 1 .. n |-> g[i]]
  PROVE  q \o g \in Seq(S)
<1>1. g \in [1 .. n -> S]
  OBVIOUS
<1>2. g \in Seq(S)
  BY <1>1
<1> QED BY <1>2

LEMMA SendUIOK ==
  ASSUME NEW c \in Context
  PROVE  SendUI(c) \in Context /\ Same(c, SendUI(c))
<1> DEFINE n == Least(UIReady(c), c.accept)
           k == IF UIFails(c) /\ c.fail # "EAGAIN" THEN n + 1 ELSE n
           g == [i \in 1 .. n |-> UIFrame(c.UI[i], c.asBroadcast)]
<1>1. c.UI \in Seq(Data) /\ Len(c.UI) \in Nat /\ c.room \in Nat /\ c.accept \in Nat
  BY Fields DEF Queue, Budget
<1>2. n \in Nat /\ n <= Len(c.UI) /\ n <= c.room /\ n <= c.accept /\ k \in 0 .. Len(c.UI)
  BY <1>1 DEF UIReady, UIFails, Least
<1>3. Drop(c.UI, k) \in Queue
  BY <1>1, <1>2, DropOK DEF Queue
<1>4. \A i \in 1 .. n : g[i] \in Frame
  <2>1. SUFFICES ASSUME NEW i \in 1 .. n PROVE UIFrame(c.UI[i], c.asBroadcast) \in Frame
    OBVIOUS
  <2>2. c.UI[i] \in Data
    BY <1>1, <1>2
  <2> QED BY <2>2, Fields, ModAssumption DEF UIFrame, Frame, UCodes, SeqNo
<1>5. c.out \o g \in FrameSeq
  <2>1. c.out \in Seq(Frame)
    BY Fields DEF FrameSeq
  <2> QED BY <2>1, <1>2, <1>4, ConcatOK DEF FrameSeq
<1>6. c.room - n \in Budget /\ c.accept - n \in Budget
  BY <1>1, <1>2 DEF Budget
<1>7. c.fail \in Errors
  BY Fields DEF Failures
<1> QED BY ZenonT(60), <1>3, <1>5, <1>6, <1>7 DEF SendUI, Context, Same

(* The arithmetic of the window. *)
LEMMA DistOK ==
  ASSUME NEW a \in SeqNo, NEW b \in SeqNo
  PROVE  Dist(a, b) \in SeqNo
BY ModAssumption DEF SeqNo, Dist

LEMMA WrapOK ==
  ASSUME NEW a \in SeqNo, NEW n \in SeqNo
  PROVE  Wrap(a + n) \in SeqNo
BY ModAssumption DEF SeqNo, Wrap

LEMMA AdvanceHead ==
  ASSUME NEW a \in SeqNo, NEW b \in SeqNo, NEW n \in Nat, Dist(a, b) + n < Mod
  PROVE  Dist(a, Wrap(b + n)) = Dist(a, b) + n
BY ModAssumption DEF SeqNo, Dist, Wrap

LEMMA AdvanceTail ==
  ASSUME NEW a \in SeqNo, NEW b \in SeqNo, NEW n \in Nat, n <= Dist(a, b)
  PROVE  Dist(Wrap(a + n), b) = Dist(a, b) - n
BY ModAssumption DEF SeqNo, Dist, Wrap

LEMMA IReadyOK ==
  ASSUME NEW c \in Context
  PROVE  /\ IReady(c) \in Nat /\ IReady(c) <= c.room
         /\ IReady(c) > 0 => Outstanding(c) + IReady(c) <= Least(K, Len(c.I))
         /\ Outstanding(c) \in SeqNo /\ Len(c.I) \in Nat
<1>1. Outstanding(c) \in SeqNo
  BY Fields, DistOK DEF Outstanding
<1>2. Len(c.I) \in Nat /\ c.room \in Nat
  BY Fields DEF Queue, Budget
<1> QED BY <1>1, <1>2, ModAssumption, WindowAssumption DEF IReady, Least, SeqNo

LEMMA SendIOK ==
  ASSUME NEW c \in Context
  PROVE  /\ SendI(c) \in Context /\ SendI(c).status = c.status
         /\ c.T1 \/ c.T3 => SendI(c).T1 \/ SendI(c).T3
         /\ SendI(c).I = c.I /\ SendI(c).v_a = c.v_a
         /\ Windowed(c) => Windowed(SendI(c))
<1> DEFINE n == ISent(c)
           m == IF IReady(c) > n THEN n + 1 ELSE n
           g == [i \in 1 .. n |->
                   Information(c.I[Outstanding(c) + i], Wrap(c.v_s + i - 1), c.v_r)]
           d == [c EXCEPT !.out = @ \o g, !.v_s = Wrap(@ + m),
                          !.room = @ - n, !.accept = @ - n,
                          !.ret = IF IReady(c) > n THEN c.fail ELSE @]
<1>1. /\ IReady(c) \in Nat /\ IReady(c) <= c.room
      /\ IReady(c) > 0 => Outstanding(c) + IReady(c) <= Least(K, Len(c.I))
      /\ Outstanding(c) \in SeqNo /\ Len(c.I) \in Nat
  BY IReadyOK
<1>2. c.accept \in Nat /\ c.room \in Nat /\ c.I \in Seq(Data) /\ c.v_s \in SeqNo
         /\ c.v_a \in SeqNo /\ c.v_r \in SeqNo
  BY Fields DEF Budget, Queue
<1>3. n \in Nat /\ n <= IReady(c) /\ n <= c.accept /\ n <= c.room
  BY <1>1, <1>2 DEF ISent, Least
<1>4. m \in Nat /\ m <= IReady(c)
  BY <1>1, <1>3
<1>5. IReady(c) <= K /\ m \in SeqNo
  BY <1>1, <1>4, WindowAssumption, ModAssumption DEF Least, SeqNo
<1>6. Wrap(c.v_s + m) \in SeqNo
  BY <1>2, <1>5, WrapOK
<1>7. \A i \in 1 .. n : g[i] \in Frame
  <2>1. SUFFICES ASSUME NEW i \in 1 .. n
                 PROVE Information(c.I[Outstanding(c) + i], Wrap(c.v_s + i - 1), c.v_r) \in Frame
    OBVIOUS
  <2>2. Outstanding(c) + i \in 1 .. Len(c.I)
    BY <1>1, <1>3, WindowAssumption, ModAssumption DEF Least, SeqNo
  <2>3. c.I[Outstanding(c) + i] \in Data
    BY <1>2, <2>2
  <2>4. i - 1 \in SeqNo
    BY <1>3, <1>5, WindowAssumption, ModAssumption DEF SeqNo
  <2>5. Wrap(c.v_s + (i - 1)) \in SeqNo
    BY <1>2, <2>4, WrapOK
  <2>6. c.v_s + (i - 1) = c.v_s + i - 1
    BY <1>2, ModAssumption DEF SeqNo
  <2> QED BY <1>2, <2>3, <2>5, <2>6 DEF Information, Frame
<1>8. c.out \o g \in FrameSeq
  <2>1. c.out \in Seq(Frame)
    BY Fields DEF FrameSeq
  <2> QED BY <2>1, <1>3, <1>7, ConcatOK DEF FrameSeq
<1>9. c.room - n \in Budget /\ c.accept - n \in Budget
  BY <1>2, <1>3 DEF Budget
<1>10. c.fail \in Errors
  BY Fields DEF Failures
<1>11. /\ d \in Context /\ d.status = c.status /\ d.T1 = c.T1 /\ d.T3 = c.T3
       /\ d.I = c.I /\ d.v_a = c.v_a /\ d.v_s = Wrap(c.v_s + m)
  BY <1>6, <1>8, <1>9, <1>10 DEF Context
<1>13. SendI(c) = IF n > 0 /\ ~c.T1 THEN T3Over(d) ELSE d
  BY DEF SendI
<1> HIDE DEF d, m, n
<1>12. /\ T3Over(d) \in Context /\ T3Over(d).T1 = TRUE /\ T3Over(d).status = d.status
       /\ T3Over(d).I = d.I /\ T3Over(d).v_a = d.v_a /\ T3Over(d).v_s = d.v_s
  BY <1>11, T3OverOK
<1>14. SendI(c).v_s = Wrap(c.v_s + m) /\ SendI(c).v_a = c.v_a /\ SendI(c).I = c.I
         /\ SendI(c).status = c.status
  BY <1>11, <1>12, <1>13
<1>15. Windowed(c) => Windowed(SendI(c))
  <2>1. SUFFICES ASSUME Windowed(c), c.status \in Connected
                 PROVE  Dist(c.v_a, Wrap(c.v_s + m)) <= Least(K, Len(c.I))
    BY <1>14 DEF Windowed, Outstanding
  <2>2. Outstanding(c) + m <= Least(K, Len(c.I))
    BY <1>1, <1>4, <2>1, ModAssumption, WindowAssumption DEF Windowed, SeqNo, Least
  <2>3. Outstanding(c) + m < Mod
    BY <1>1, <1>4, <2>2, ModAssumption, WindowAssumption DEF Least, SeqNo
  <2> QED BY <1>2, <1>4, <2>2, <2>3, AdvanceHead DEF Outstanding
<1> QED BY <1>11, <1>12, <1>13, <1>14, <1>15

LEMMA PollBusyPeerOK ==
  ASSUME NEW c \in Context
  PROVE  PollBusyPeer(c) \in Context /\ Same(c, PollBusyPeer(c))
<1>1. ReadyCode(c) \in {"RR", "RNR", "REJ"}
  BY DEF ReadyCode
<1>2. SendAck(c, ReadyCode(c), TRUE, TRUE) \in Context
        /\ Same(c, SendAck(c, ReadyCode(c), TRUE, TRUE))
  BY <1>1, SendAckOK
<1> QED BY <1>2 DEF PollBusyPeer, Same

LEMMA SendPendingAckOK ==
  ASSUME NEW c \in Context, NEW did \in BOOLEAN
  PROVE  SendPendingAck(c, did) \in Context /\ Same(c, SendPendingAck(c, did))
<1> DEFINE freed == ~c.sentRR /\ CanRecv(c)
           d == [c EXCEPT !.sentRR = CanRecv(c), !.ack_pend = @ \/ freed]
           e == IF d.ack_pend /\ (freed \/ ~did)
                  THEN SendAck(d, ReadyCode(d), FALSE, FALSE) ELSE d
           p == PollBusyPeer(e)
<1>1. CanRecv(c) \in BOOLEAN /\ (c.ack_pend \/ freed) \in BOOLEAN
  BY DEF CanRecv
<1>2. SendPendingAck(c, did) = [p EXCEPT !.trypoll = FALSE]
  BY DEF SendPendingAck
<1>3. d \in Context /\ Same(c, d)
  <2> HIDE DEF freed
  <2> QED BY ZenonT(60), <1>1 DEF Context, Same
<1> HIDE DEF d
<1>4. SendAck(d, ReadyCode(d), FALSE, FALSE) \in Context
        /\ Same(d, SendAck(d, ReadyCode(d), FALSE, FALSE))
  <2>1. ReadyCode(d) \in {"RR", "RNR", "REJ"}
    BY DEF ReadyCode
  <2> QED BY <1>3, <2>1, SendAckOK
<1>5. e \in Context /\ Same(c, e)
  BY <1>3, <1>4 DEF Same
<1> HIDE DEF e
<1>6. p \in Context /\ Same(c, p)
  BY <1>5, PollBusyPeerOK DEF Same
<1> HIDE DEF p
<1>7. [p EXCEPT !.trypoll = FALSE] \in Context /\ Same(p, [p EXCEPT !.trypoll = FALSE])
  BY ZenonT(60), <1>6 DEF Context, Same
<1> QED BY <1>2, <1>6, <1>7 DEF Same

LEMMA CheckPendingOK ==
  ASSUME NEW win \in BOOLEAN, NEW c, Good(win, c)
  PROVE  Good(win, CheckPending(c))
<1> DEFINE u == SendUI(c)
           i == SendI(u)
           a == SendPendingAck(i, ISent(u) > 0)
           b == SendPendingAck(u, UIReady(c) > 0)
<1>1. c \in Context /\ c.status \in Status
  BY Fields DEF Good
<1>2. u \in Context /\ Same(c, u) /\ Good(win, u)
  BY <1>1, SendUIOK, SameGood
<1>3. CheckPending(c) = CASE UIFails(c) -> u
          [] ~UIFails(c) /\ c.status = "S_up" -> a
          [] ~UIFails(c) /\ c.status = "S_recover" -> b
          [] ~UIFails(c) /\ c.status \notin Connected -> IF UIReady(c) > 0 THEN Wake(u) ELSE u
  BY DEF CheckPending
<1> HIDE DEF u
<1>4. c.status = "S_up" => i \in Context /\ Good(win, i)
  BY <1>2, SendIOK DEF Good, Guarded, Same
<1> HIDE DEF i
<1>5. c.status = "S_up" => a \in Context /\ Same(i, a)
  <2>1. (ISent(u) > 0) \in BOOLEAN
    OBVIOUS
  <2> QED BY <1>4, <2>1, SendPendingAckOK
<1> HIDE DEF a
<1>6. c.status = "S_up" => Good(win, a)
  BY <1>4, <1>5, SameGood
<1>7. b \in Context /\ Same(u, b)
  <2>1. (UIReady(c) > 0) \in BOOLEAN
    OBVIOUS
  <2> QED BY <1>2, <2>1, SendPendingAckOK
<1> HIDE DEF b
<1>8. Good(win, b)
  BY <1>2, <1>7, SameGood
<1>9. Wake(u) \in Context /\ Good(win, Wake(u))
  BY <1>2, WakeOK, SameGood
<1> QED BY <1>1, <1>2, <1>3, <1>6, <1>8, <1>9 DEF Connected, Status

(* A context whose timers are not looked at yet. *)
Kept(win, c) == c \in Context /\ (win => Windowed(c))

LEMMA MoveGood ==
  ASSUME NEW win \in BOOLEAN, NEW c, Kept(win, c), NEW d \in Context,
         d.status \in Connected => /\ c.status \in Connected
                                   /\ d.I = c.I /\ d.v_a = c.v_a /\ d.v_s = c.v_s,
         Guarded(d)
  PROVE  Good(win, d)
BY DEF Kept, Good, Windowed, Outstanding

LEMMA RetriesOK ==
  ASSUME NEW c \in Context
  PROVE  0 \in Retries /\ 1 \in Retries /\ (c.RC < N1 => c.RC + 1 \in Retries)
BY Fields, RetryAssumption DEF Retries

LEMMA DownOK ==
  ASSUME NEW c \in Context, NEW ind1 \in Indications, NEW ind2 \in Indications
  PROVE  /\ SetState(Tell(Tell(c, ind1), ind2), "S_down") \in Context
         /\ SetState(Tell(Tell(c, ind1), ind2), "S_down").status = "S_down"
<1> DEFINE d == Tell(c, ind1)
           e == Tell(d, ind2)
<1>1. d \in Context
  BY TellOK
<1> HIDE DEF d
<1>2. e \in Context
  BY <1>1, TellOK
<1> HIDE DEF e
<1>3. SetState(e, "S_down") \in Context /\ SetState(e, "S_down").status = "S_down"
  BY <1>2, SetStateOK DEF Status
<1> QED BY <1>3 DEF d, e

LEMMA AwaitUpTimeoutOK ==
  ASSUME NEW c \in Context, c.status = "S_await_up"
  PROVE  AwaitUpTimeout(c) \in Context /\ Idle(AwaitUpTimeout(c))
<1> DEFINE a == [c EXCEPT !.RC = 1]
           d == Xmit(c, Unnumbered("SABM", TRUE, TRUE))
           e == [d EXCEPT !.RC = IF d.ret = "EAGAIN" THEN @ ELSE @ + 1]
           f == FlushI(c)
           g == SetState(Tell(Tell(f, "ERR_G"), "DL_RELEASE_IND"), "S_down")
<1>1. AwaitUpTimeout(c) = IF c.RC = 0 THEN StartT1(a) ELSE IF c.RC < N1 THEN StartT1(e) ELSE g
  BY DEF AwaitUpTimeout
<1>2. a \in Context /\ a.status = "S_await_up"
  BY RetriesOK DEF Context
<1> HIDE DEF a
<1>3. StartT1(a) \in Context /\ Idle(StartT1(a))
  BY <1>2, StartT1OK DEF Idle
<1>4. d \in Context /\ d.status = "S_await_up" /\ d.RC = c.RC
  <2>1. d \in Context /\ Same(c, d)
    BY XmitOK, UFrameOK DEF UCodes
  <2> QED BY <2>1 DEF Same, Xmit, Context
<1> HIDE DEF d
<1>5. c.RC < N1 => e \in Context /\ e.status = "S_await_up"
  BY <1>4, RetriesOK DEF Context
<1> HIDE DEF e
<1>6. c.RC < N1 => StartT1(e) \in Context /\ Idle(StartT1(e))
  BY <1>5, StartT1OK DEF Idle
<1>7. f \in Context
  BY FlushIOK
<1> HIDE DEF f
<1>8. g \in Context /\ Idle(g)
  <2>1. "ERR_G" \in Indications /\ "DL_RELEASE_IND" \in Indications
    BY DEF Indications
  <2>2. g \in Context /\ g.status = "S_down"
    BY <1>7, <2>1, DownOK
  <2> QED BY <2>2 DEF Idle
<1> HIDE DEF g
<1> QED BY <1>1, <1>3, <1>6, <1>8

LEMMA AwaitDownTimeoutOK ==
  ASSUME NEW c \in Context, c.status = "S_await_down"
  PROVE  AwaitDownTimeout(c) \in Context /\ Idle(AwaitDownTimeout(c))
<1> DEFINE a == [c EXCEPT !.RC = @ + 1]
           d == Xmit(a, Unnumbered("DISC", TRUE, TRUE))
           g == SetState(Tell(Tell(c, "ERR_H"), "DL_RELEASE_CONF"), "S_down")
<1>1. AwaitDownTimeout(c) = IF c.RC < N1 THEN StartT1(d) ELSE g
  BY DEF AwaitDownTimeout
<1>2. c.RC < N1 => a \in Context /\ a.status = "S_await_down"
  BY RetriesOK DEF Context
<1> HIDE DEF a
<1>3. c.RC < N1 => d \in Context /\ d.status = "S_await_down"
  BY <1>2, XmitOK, UFrameOK DEF UCodes, Same
<1> HIDE DEF d
<1>4. c.RC < N1 => StartT1(d) \in Context /\ Idle(StartT1(d))
  BY <1>3, StartT1OK DEF Idle
<1>5. g \in Context /\ Idle(g)
  <2>1. "ERR_H" \in Indications /\ "DL_RELEASE_CONF" \in Indications
    BY DEF Indications
  <2>2. g \in Context /\ g.status = "S_down"
    BY <2>1, DownOK
  <2> QED BY <2>2 DEF Idle
<1> HIDE DEF g
<1> QED BY <1>1, <1>4, <1>5

LEMMA RecoverTimeoutOK ==
  ASSUME NEW win \in BOOLEAN, NEW c, Kept(win, c), c.status = "S_recover", ~Broadcast
  PROVE  Good(win, RecoverTimeout(c))
<1> DEFINE q == Enquiry(c)
           d == [q EXCEPT !.RC = @ + 1]
           t == Tell(c, "ERR_I")
<1>1. c \in Context
  BY DEF Kept
<1>2. RecoverTimeout(c) = IF c.RC < N1 THEN d ELSE Reestablish(t)
  BY DEF RecoverTimeout
<1>3. /\ q \in Context /\ q.T1 = TRUE /\ q.status = c.status /\ q.I = c.I
      /\ q.v_a = c.v_a /\ q.v_s = c.v_s
  BY <1>1, EnquiryOK
<1>4. q.RC = c.RC
  BY <1>1 DEF Enquiry, StartT1, TellReady, SendAck, Acked, Xmit, Context
<1> HIDE DEF q
<1>5. CASE c.RC < N1
  <2>1. d \in Context /\ d.T1 = TRUE /\ d.status = c.status /\ d.I = c.I
          /\ d.v_a = c.v_a /\ d.v_s = c.v_s
    BY <1>1, <1>3, <1>4, <1>5, RetriesOK DEF Context
  <2> HIDE DEF d
  <2>2. Guarded(d)
    BY <2>1, <1>1, <1>5 DEF Guarded
  <2>3. Good(win, d)
    BY <2>1, <2>2, MoveGood DEF Connected
  <2> QED BY <1>2, <1>5, <2>3
<1>6. CASE ~(c.RC < N1)
  <2>1. t \in Context
    BY <1>1, TellOK DEF Indications
  <2> QED BY <1>2, <1>6, <2>1, ReestablishOK
<1> QED BY <1>5, <1>6

LEMMA T1HandlerOK ==
  ASSUME NEW win \in BOOLEAN, NEW c, Kept(win, c), ~Broadcast
  PROVE  Good(win, T1Handler(c))
<1>1. c \in Context /\ c.status \in Status
  BY Fields DEF Kept
<1>2. CASE c.status = "S_await_up"
  BY <1>1, <1>2, AwaitUpTimeoutOK, IdleGood DEF T1Handler
<1>3. CASE c.status = "S_await_down"
  BY <1>1, <1>3, AwaitDownTimeoutOK, IdleGood DEF T1Handler
<1>4. CASE c.status = "S_recover"
  BY <1>4, RecoverTimeoutOK DEF T1Handler
<1>5. CASE c.status = "S_down"
  <2>1. Good(win, c)
    BY <1>1, <1>5, IdleGood DEF Idle
  <2> QED BY <1>5, <2>1 DEF T1Handler
<1>6. CASE c.status = "S_up"
  <2> DEFINE a == [c EXCEPT !.RC = 1]
             q == Enquiry(a)
             d == SetState(q, "S_recover")
  <2>1. T1Handler(c) = d
    BY <1>6 DEF T1Handler
  <2>2. a \in Context /\ a.status = c.status /\ a.I = c.I /\ a.v_a = c.v_a /\ a.v_s = c.v_s
    BY <1>1, RetriesOK DEF Context
  <2> HIDE DEF a
  <2>3. q \in Context /\ q.T1 = TRUE /\ q.I = c.I /\ q.v_a = c.v_a /\ q.v_s = c.v_s
    BY <2>2, EnquiryOK
  <2> HIDE DEF q
  <2>4. d \in Context /\ d.status = "S_recover" /\ d.T1 = TRUE /\ d.I = c.I
          /\ d.v_a = c.v_a /\ d.v_s = c.v_s
    BY <2>3, SetStateOK DEF Status
  <2> HIDE DEF d
  <2>5. Good(win, d)
    BY <1>6, <2>4, MoveGood DEF Guarded, Connected
  <2> QED BY <2>1, <2>5
<1> QED BY <1>1, <1>2, <1>3, <1>4, <1>5, <1>6 DEF Status

LEMMA T1ExpiresOK ==
  ASSUME NEW win \in BOOLEAN, NEW c, Kept(win, c), ~Broadcast
  PROVE  Good(win, T1Expires(c))
<1>1. Kept(win, StopT1(c))
  BY StopT1OK DEF Kept, Windowed, Outstanding
<1>2. Good(win, T1Handler(StopT1(c)))
  BY <1>1, T1HandlerOK
<1> QED BY <1>2, CheckPendingOK DEF T1Expires

LEMMA T3ExpiresOK ==
  ASSUME NEW win \in BOOLEAN, NEW c, Good(win, c)
  PROVE  Good(win, T3Expires(c))
<1> DEFINE d == [c EXCEPT !.T3 = FALSE]
           s == SetState(d, "S_recover")
           q == Enquiry(s)
           e == [q EXCEPT !.RC = 0]
<1>1. c \in Context /\ Kept(win, c)
  BY DEF Good, Kept
<1>2. T3Expires(c) = IF c.status = "S_up" THEN e ELSE d
  BY DEF T3Expires
<1>3. d \in Context /\ d.status = c.status /\ d.I = c.I /\ d.v_a = c.v_a /\ d.v_s = c.v_s
        /\ d.T1 = c.T1
  BY <1>1 DEF Context
<1> HIDE DEF d
<1>4. s \in Context /\ s.status = "S_recover" /\ s.I = c.I /\ s.v_a = c.v_a /\ s.v_s = c.v_s
  BY <1>3, SetStateOK DEF Status
<1> HIDE DEF s
<1>5. q \in Context /\ q.T1 = TRUE /\ q.status = "S_recover" /\ q.I = c.I
        /\ q.v_a = c.v_a /\ q.v_s = c.v_s
  BY <1>4, EnquiryOK
<1> HIDE DEF q
<1>6. e \in Context /\ e.T1 = TRUE /\ e.status = "S_recover" /\ e.I = c.I
        /\ e.v_a = c.v_a /\ e.v_s = c.v_s
  BY <1>5, RetriesOK DEF Context
<1> HIDE DEF e
<1>7. CASE c.status = "S_up"
  BY <1>1, <1>2, <1>6, <1>7, MoveGood DEF Guarded, Connected
<1>8. CASE c.status # "S_up"
  BY <1>1, <1>2, <1>3, <1>8, MoveGood DEF Guarded, Connected, Good
<1> QED BY <1>7, <1>8

LEMMA CheckPendingFromLowOK ==
  ASSUME NEW win \in BOOLEAN, NEW c, Good(win, c), ~Broadcast
  PROVE  Good(win, CheckPendingFromLow(c))
<1> DEFINE u == SendUI(c)
           d == T1Expires(u)
<1>1. CheckPendingFromLow(c) =
        IF c.status = "S_await_up" /\ ~UIFails(c)
          THEN IF UIReady(c) > 0 THEN Wake(d) ELSE d
          ELSE CheckPending(c)
  BY DEF CheckPendingFromLow
<1>2. Good(win, u)
  BY SendUIOK, SameGood DEF Good
<1> HIDE DEF u
<1>3. Good(win, d)
  BY <1>2, T1ExpiresOK DEF Kept, Good
<1> HIDE DEF d
<1>4. Good(win, Wake(d))
  BY <1>3, WakeOK, SameGood DEF Good
<1> QED BY <1>1, <1>3, <1>4, CheckPendingOK

(* What the peer's frames do. *)
LEMMA FrameFields ==
  ASSUME NEW f \in Frame
  PROVE  /\ f.t \in {"I", "Half"} \cup SCodes \cup UCodes
         /\ f.cmd \in BOOLEAN /\ f.pf \in BOOLEAN /\ f.bc \in BOOLEAN
         /\ f.nr \in SeqNo /\ f.ns \in SeqNo
         /\ f.body # None => f.body \in Data
BY DEF Frame

LEMMA PullUpOK ==
  ASSUME NEW win \in BOOLEAN, NEW c, Good(win, c), NEW nr \in SeqNo
  PROVE  Good(win, PullUp(c, nr)) /\ PullUp(c, nr).status = c.status
<1> DEFINE n == Dist(c.v_a, nr)
           m == Least(n, Least(Outstanding(c), Len(c.I)))
           d == [c EXCEPT !.I = Drop(@, m), !.v_a = Wrap(@ + m),
                          !.errors = IF @ > m THEN @ - m ELSE 0]
<1>1. c \in Context
  BY DEF Good
<1>2. PullUp(c, nr) = IF nr # c.v_a /\ m = n THEN Wake(d) ELSE d
  BY DEF PullUp
<1>3. /\ c.I \in Seq(Data) /\ Len(c.I) \in Nat /\ c.v_a \in SeqNo /\ c.v_s \in SeqNo
      /\ c.errors \in Counts
  BY <1>1, Fields DEF Queue
<1>4. n \in SeqNo /\ Outstanding(c) \in SeqNo
  BY <1>3, DistOK DEF Outstanding
<1>5. m \in SeqNo /\ m <= Outstanding(c) /\ m <= Len(c.I) /\ m \in 0 .. Len(c.I)
  BY <1>3, <1>4, ModAssumption DEF Least, SeqNo
<1> HIDE DEF n, m
<1>6. Drop(c.I, m) \in Queue /\ Len(Drop(c.I, m)) = Len(c.I) - m
  BY <1>3, <1>5, DropOK DEF Queue
<1>7. Wrap(c.v_a + m) \in SeqNo
  BY <1>3, <1>5, WrapOK
<1>8. (IF c.errors > m THEN c.errors - m ELSE 0) \in Counts
  BY <1>3, <1>5, ErrorAssumption, ModAssumption DEF Counts, SeqNo
<1>9. /\ d \in Context /\ d.status = c.status /\ d.T1 = c.T1 /\ d.T3 = c.T3
      /\ d.I = Drop(c.I, m) /\ d.v_a = Wrap(c.v_a + m) /\ d.v_s = c.v_s
  BY <1>1, <1>6, <1>7, <1>8 DEF Context
<1> HIDE DEF d
<1>10. Dist(Wrap(c.v_a + m), c.v_s) = Dist(c.v_a, c.v_s) - m
  BY <1>3, <1>5, AdvanceTail, ModAssumption DEF Outstanding, SeqNo
<1>11. Windowed(c) => Windowed(d)
  <2>1. SUFFICES ASSUME Windowed(c), d.status \in Connected
                 PROVE  Outstanding(d) <= Least(K, Len(d.I))
    BY DEF Windowed
  <2>2. Outstanding(c) <= Least(K, Len(c.I))
    BY <1>9, <2>1 DEF Windowed
  <2>3. Outstanding(d) = Outstanding(c) - m
    BY <1>9, <1>10 DEF Outstanding
  <2>4. Len(d.I) = Len(c.I) - m
    BY <1>6, <1>9
  <2> QED BY <1>3, <1>4, <1>5, <2>2, <2>3, <2>4, WindowAssumption, ModAssumption
          DEF Least, SeqNo
<1>12. Good(win, d)
  BY <1>9, <1>11 DEF Good, Guarded
<1>13. Good(win, Wake(d)) /\ Wake(d).status = c.status
  BY <1>9, <1>12, WakeOK, SameGood DEF Same
<1> QED BY <1>2, <1>9, <1>12, <1>13

LEMMA T1OverGood ==
  ASSUME NEW win \in BOOLEAN, NEW c, Good(win, c), c.status = "S_up"
  PROVE  Good(win, T1Over(c)) /\ T1Over(c).status = "S_up"
BY T1OverOK DEF Good, Guarded, Windowed, Outstanding

LEMMA StartT1Good ==
  ASSUME NEW win \in BOOLEAN, NEW c, Good(win, c)
  PROVE  Good(win, StartT1(c)) /\ StartT1(c).status = c.status
BY StartT1OK DEF Good, Guarded, Windowed, Outstanding

LEMMA AckUpOK ==
  ASSUME NEW win \in BOOLEAN, NEW c, Good(win, c), c.status = "S_up", NEW nr \in SeqNo, ~Broadcast
  PROVE  Good(win, AckUp(c, nr))
<1> DEFINE p == PullUp(c, nr)
<1>1. AckUp(c, nr) = CASE ~CheckV(c, nr) -> RecoverNR(c)
         [] CheckV(c, nr) /\ c.RNR -> p
         [] CheckV(c, nr) /\ ~c.RNR /\ nr = c.v_s -> T1Over(p)
         [] CheckV(c, nr) /\ ~c.RNR /\ nr # c.v_s -> IF nr = c.v_a THEN c ELSE StartT1(p)
  BY DEF AckUp
<1>2. Good(win, p) /\ p.status = "S_up"
  BY PullUpOK
<1> HIDE DEF p
<1>3. Good(win, T1Over(p)) /\ Good(win, StartT1(p))
  BY <1>2, T1OverGood, StartT1Good
<1>4. Good(win, RecoverNR(c))
  BY RecoverNROK DEF Good
<1> QED BY <1>1, <1>2, <1>3, <1>4

LEMMA TakeIOK ==
  ASSUME NEW c \in Context, c.space > 0, NEW f \in Frame, f.body # None
  PROVE  TakeI(c, f) \in Context /\ Same(c, TakeI(c, f))
<1> DEFINE d == [c EXCEPT !.up = Append(@, <<0, f.body>>), !.space = @ - 1,
                          !.v_r = Wrap(@ + 1), !.inREJ = FALSE,
                          !.errors = IF @ > 0 THEN @ - 1 ELSE 0]
           e == [d EXCEPT !.ack_pend = TRUE]
           s == SendAck(d, "RR", FALSE, TRUE)
<1>1. TakeI(c, f) = IF f.pf THEN s ELSE e
  BY DEF TakeI
<1>2. c.up \in BlockSeq /\ c.space \in Nat /\ c.v_r \in SeqNo /\ c.errors \in Counts
  BY Fields DEF Budget
<1>3. Append(c.up, <<0, f.body>>) \in BlockSeq
  BY <1>2, FrameFields DEF BlockSeq, Block, Kinds
<1>4. c.space - 1 \in Budget
  BY <1>2 DEF Budget
<1>5. Wrap(c.v_r + 1) \in SeqNo
  BY <1>2, WrapOK, ModAssumption DEF SeqNo
<1>6. (IF c.errors > 0 THEN c.errors - 1 ELSE 0) \in Counts
  BY <1>2, ErrorAssumption DEF Counts
<1>7. d \in Context /\ Same(c, d)
  BY ZenonT(60), <1>3, <1>4, <1>5, <1>6 DEF Context, Same
<1> HIDE DEF d
<1>8. s \in Context /\ Same(d, s)
  BY <1>7, SendAckOK
<1> HIDE DEF s
<1>9. e \in Context /\ Same(d, e)
  BY <1>7 DEF Context, Same
<1> HIDE DEF e
<1> QED BY <1>1, <1>7, <1>8, <1>9 DEF Same

LEMMA ResyncOK ==
  ASSUME NEW c \in Context, NEW f \in Frame
  PROVE  Resync(c, f) \in Context /\ Same(c, Resync(c, f))
<1> DEFINE d == [c EXCEPT !.inREJ = TRUE]
<1>1. d \in Context /\ Same(c, d)
  BY DEF Context, Same
<1> HIDE DEF d
<1>2. SendAck(d, "REJ", FALSE, f.pf) \in Context /\ Same(d, SendAck(d, "REJ", FALSE, f.pf))
  BY <1>1, FrameFields, SendAckOK
<1>3. SendAck(c, "RR", FALSE, TRUE) \in Context /\ Same(c, SendAck(c, "RR", FALSE, TRUE))
  BY SendAckOK
<1>4. Resync(c, f) = IF ~c.inREJ THEN SendAck(d, "REJ", FALSE, f.pf)
                     ELSE IF f.pf THEN SendAck(c, "RR", FALSE, TRUE) ELSE c
  BY DEF Resync, d
<1> QED BY <1>1, <1>2, <1>3, <1>4 DEF Same

LEMMA DropIOK ==
  ASSUME NEW c \in Context, NEW f \in Frame
  PROVE  DropI(c, f) \in Context /\ Same(c, DropI(c, f))
<1>1. SendAck(c, "RNR", FALSE, TRUE) \in Context /\ Same(c, SendAck(c, "RNR", FALSE, TRUE))
  BY SendAckOK
<1> QED BY <1>1 DEF DropI, Same

LEMMA SendFRMROK ==
  ASSUME NEW c \in Context, NEW pf \in BOOLEAN
  PROVE  SendFRMR(c, pf) \in Context /\ Same(c, SendFRMR(c, pf))
BY XmitOK, UFrameOK DEF SendFRMR, UCodes

LEMMA RecvIOK ==
  ASSUME NEW win \in BOOLEAN, NEW c, Good(win, c), NEW f \in Frame, ~Broadcast
  PROVE  Good(win, RecvI(c, f))
<1> DEFINE e == IF f.body = None THEN SendFRMR(c, f.pf) ELSE c
           d == [e EXCEPT !.sentRR = CanRecv(e)]
           inSeq == f.body # None /\ f.ns = c.v_r
           g == CASE ~d.sentRR -> DropI(d, f)
                  [] d.sentRR /\ ~inSeq -> Resync(d, f)
                  [] d.sentRR /\ inSeq -> IF c.recvok THEN TakeI(d, f) ELSE DropI(d, f)
<1>1. RecvI(c, f) = IF c.status # "S_up" THEN e ELSE AckUp(g, f.nr)
  BY DEF RecvI
<1>2. c \in Context
  BY DEF Good
<1>3. e \in Context /\ Same(c, e)
  BY <1>2, FrameFields, SendFRMROK DEF Same
<1> HIDE DEF e
<1>4. CanRecv(e) \in BOOLEAN
  BY DEF CanRecv
<1>5. d \in Context /\ Same(c, d) /\ d.sentRR = CanRecv(e) /\ d.space = e.space
  BY <1>3, <1>4 DEF Context, Same
<1>6. d.sentRR => d.space > 0
  BY <1>5 DEF CanRecv
<1> HIDE DEF d
<1>7. d.sentRR \in BOOLEAN
  BY <1>5, Fields
<1>8. inSeq => f.body # None
  OBVIOUS
<1> HIDE DEF inSeq
<1>9. g \in Context /\ Same(c, g)
  <2>1. DropI(d, f) \in Context /\ Same(c, DropI(d, f))
    BY <1>5, DropIOK DEF Same
  <2>2. Resync(d, f) \in Context /\ Same(c, Resync(d, f))
    BY <1>5, ResyncOK DEF Same
  <2>3. d.sentRR /\ inSeq => TakeI(d, f) \in Context /\ Same(c, TakeI(d, f))
    BY <1>5, <1>6, <1>8, TakeIOK DEF Same
  <2> QED BY <1>7, <2>1, <2>2, <2>3
<1> HIDE DEF g
<1>10. Good(win, e) /\ Good(win, g)
  BY <1>3, <1>9, SameGood
<1>11. c.status = "S_up" => Good(win, AckUp(g, f.nr))
  BY <1>9, <1>10, AckUpOK, FrameFields DEF Same
<1> QED BY <1>1, <1>10, <1>11

(* A connection with nothing outstanding. *)
LEMMA FreshUp ==
  ASSUME NEW win \in BOOLEAN, NEW c \in Context, c.status = "S_up", c.T3, c.v_s = c.v_a
  PROVE  Good(win, c)
<1>1. c.v_a \in SeqNo /\ Len(c.I) \in Nat
  BY Fields DEF Queue
<1>2. Outstanding(c) = 0
  BY <1>1, ModAssumption DEF Outstanding, Dist, SeqNo
<1>3. Windowed(c)
  BY <1>1, <1>2, WindowAssumption DEF Windowed, Least
<1> QED BY <1>3 DEF Good, Guarded

LEMMA RetransmitOK ==
  ASSUME NEW c \in Context
  PROVE  /\ Retransmit(c) \in Context /\ Retransmit(c).status = c.status
         /\ Retransmit(c).T1 = c.T1 /\ Retransmit(c).T3 = c.T3
         /\ Retransmit(c).v_a = c.v_a /\ Retransmit(c).v_s = c.v_a
BY Fields DEF Retransmit, Context

LEMMA RecvSRecoverOK ==
  ASSUME NEW win \in BOOLEAN, NEW c, Good(win, c), c.status = "S_recover",
         NEW f \in Frame, ~Broadcast
  PROVE  Good(win, RecvSRecover(c, f))
<1> DEFINE d == IF f.cmd /\ f.pf THEN EnqResp(c) ELSE c
           p == PullUp(d, f.nr)
           t == T1Over(p)
           r == Retransmit(t)
           u == SetState(r, "S_up")
<1>1. RecvSRecover(c, f) = IF ~CheckV(d, f.nr) THEN RecoverNR(d)
                           ELSE IF f.cmd \/ ~f.pf THEN p ELSE u
  BY DEF RecvSRecover
<1>2. Good(win, d)
  <2>1. EnqResp(c) \in Context /\ Same(c, EnqResp(c))
    BY EnqRespOK DEF Good
  <2>2. Good(win, EnqResp(c))
    BY <2>1, SameGood
  <2> QED BY <2>2
<1> HIDE DEF d
<1>3. Good(win, p)
  BY <1>2, PullUpOK, FrameFields
<1> HIDE DEF p
<1>4. t \in Context /\ t.T3 = TRUE
  BY <1>3, T1OverOK DEF Good
<1> HIDE DEF t
<1>5. r \in Context /\ r.T3 = TRUE /\ r.v_s = r.v_a
  BY <1>4, RetransmitOK
<1> HIDE DEF r
<1>6. u \in Context /\ u.T3 = TRUE /\ u.v_s = u.v_a /\ u.status = "S_up"
  BY <1>5, SetStateOK DEF Status
<1> HIDE DEF u
<1>7. Good(win, u)
  BY <1>6, FreshUp
<1>8. Good(win, RecoverNR(d))
  BY <1>2, RecoverNROK DEF Good
<1> QED BY <1>1, <1>3, <1>7, <1>8

LEMMA AnswerPollOK ==
  ASSUME NEW c \in Context, NEW f \in Frame
  PROVE  AnswerPoll(c, f) \in Context /\ Same(c, AnswerPoll(c, f))
<1>1. EnqResp(c) \in Context /\ Same(c, EnqResp(c))
  BY EnqRespOK
<1>2. Tell(c, "ERR_A") \in Context /\ Same(c, Tell(c, "ERR_A"))
  BY TellOK DEF Indications
<1> QED BY <1>1, <1>2 DEF AnswerPoll, Same

(* RNR and trypoll are of no interest to the invariants. *)
LEMMA FlagsOK ==
  ASSUME NEW c \in Context, NEW b \in BOOLEAN
  PROVE  /\ [c EXCEPT !.RNR = b] \in Context /\ Same(c, [c EXCEPT !.RNR = b])
         /\ [c EXCEPT !.trypoll = b] \in Context /\ Same(c, [c EXCEPT !.trypoll = b])
         /\ [c EXCEPT !.L3_req = b] \in Context /\ Same(c, [c EXCEPT !.L3_req = b])
BY DEF Context, Same

(* The context in which RR, RNR and REJ are looked at: the poll answered   *)
(* or not, the peer busy or not.                                           *)
Polled(c, f, tp, busy) == [AnswerPoll([c EXCEPT !.trypoll = tp], f) EXCEPT !.RNR = busy]
Marked(c, tp, busy) == [[c EXCEPT !.trypoll = tp] EXCEPT !.RNR = busy]

LEMMA RecvSCasesOK ==
  ASSUME NEW win \in BOOLEAN, NEW c, Good(win, c), NEW f \in Frame, ~Broadcast,
         NEW tp \in BOOLEAN, NEW rnr \in BOOLEAN
  PROVE  LET e == Polled(c, f, tp, rnr)
         IN  /\ Good(win, [c EXCEPT !.trypoll = tp])
             /\ Good(win, e) /\ e.status = c.status
             /\ c.status = "S_recover" => Good(win, RecvSRecover(Marked(c, tp, rnr), f))
             /\ Good(win, RecoverNR(e))
             /\ Good(win, PullUp(e, f.nr)) /\ PullUp(e, f.nr).status = c.status
<1> DEFINE d == [c EXCEPT !.trypoll = tp]
           a == AnswerPoll(d, f)
           e == [a EXCEPT !.RNR = rnr]
           s == [d EXCEPT !.RNR = rnr]
<1>1. d \in Context /\ Same(c, d)
  BY FlagsOK DEF Good
<1> HIDE DEF d
<1>2. s \in Context /\ Same(d, s)
  BY <1>1, FlagsOK
<1> HIDE DEF s
<1>3. a \in Context /\ Same(d, a)
  BY <1>1, AnswerPollOK
<1> HIDE DEF a
<1>4. e \in Context /\ Same(a, e)
  BY <1>3, FlagsOK
<1> HIDE DEF e
<1>5. Good(win, d) /\ Good(win, s) /\ Good(win, a)
  BY <1>1, <1>2, <1>3, SameGood
<1>6. Good(win, e) /\ e.status = c.status /\ s.status = c.status
  BY <1>1, <1>2, <1>3, <1>4, <1>5, SameGood DEF Same
<1>7. c.status = "S_recover" => Good(win, RecvSRecover(s, f))
  BY <1>5, <1>6, RecvSRecoverOK
<1>8. Good(win, RecoverNR(e))
  BY <1>4, RecoverNROK
<1>9. Good(win, PullUp(e, f.nr)) /\ PullUp(e, f.nr).status = c.status
  BY <1>6, PullUpOK, FrameFields
<1>10. e = Polled(c, f, tp, rnr) /\ s = Marked(c, tp, rnr)
  BY DEF d, a, e, s, Polled, Marked
<1> QED BY <1>5, <1>6, <1>7, <1>8, <1>9, <1>10 DEF d

LEMMA RecvSOK ==
  ASSUME NEW win \in BOOLEAN, NEW c, Good(win, c), NEW f \in Frame, ~Broadcast
  PROVE  Good(win, RecvRR(c, f)) /\ Good(win, RecvRNR(c, f)) /\ Good(win, RecvREJ(c, f))
<1>1. c.status \in Status
  BY Fields DEF Good
<1>2. Good(win, RecvRR(c, f))
  <2> DEFINE d == [c EXCEPT !.trypoll = FALSE]
             e == Polled(c, f, FALSE, FALSE)
             s == Marked(c, FALSE, FALSE)
  <2>1. RecvRR(c, f) = CASE c.status = "S_up" -> AckUp(e, f.nr)
                         [] c.status = "S_recover" -> RecvSRecover(s, f)
                         [] c.status \notin Connected -> d
    BY DEF RecvRR, Polled, Marked
  <2>2. /\ Good(win, d) /\ Good(win, e) /\ e.status = c.status
        /\ c.status = "S_recover" => Good(win, RecvSRecover(s, f))
    BY RecvSCasesOK
  <2> HIDE DEF d, e, s
  <2>3. c.status = "S_up" => Good(win, AckUp(e, f.nr))
    BY <2>2, AckUpOK, FrameFields
  <2> QED BY <1>1, <2>1, <2>2, <2>3 DEF Connected, Status
<1>3. Good(win, RecvRNR(c, f))
  <2>1. PICK tp \in BOOLEAN, busy \in BOOLEAN : tp = ~f.pf /\ busy = TRUE
    OBVIOUS
  <2> DEFINE d == [c EXCEPT !.trypoll = tp]
             e == Polled(c, f, tp, busy)
             s == Marked(c, tp, busy)
             p == PullUp(e, f.nr)
  <2>2. RecvRNR(c, f) = CASE c.status = "S_up" -> IF CheckV(e, f.nr) THEN T1Over(p)
                                                                     ELSE RecoverNR(e)
                          [] c.status = "S_recover" -> RecvSRecover(s, f)
                          [] c.status \notin Connected -> d
    BY <2>1 DEF RecvRNR, Polled, Marked
  <2>3. /\ Good(win, d) /\ Good(win, RecoverNR(e)) /\ Good(win, p) /\ p.status = c.status
        /\ c.status = "S_recover" => Good(win, RecvSRecover(s, f))
    BY RecvSCasesOK
  <2> HIDE DEF d, e, s, p
  <2>4. c.status = "S_up" => Good(win, T1Over(p))
    BY <2>3, T1OverGood
  <2> QED BY <1>1, <2>2, <2>3, <2>4 DEF Connected, Status
<1>4. Good(win, RecvREJ(c, f))
  <2> DEFINE d == [c EXCEPT !.trypoll = FALSE]
             e == Polled(c, f, FALSE, FALSE)
             s == Marked(c, FALSE, FALSE)
             p == PullUp(e, f.nr)
             t == T1Over(p)
             r == Retransmit(t)
  <2>1. RecvREJ(c, f) = CASE c.status = "S_up" -> IF CheckV(e, f.nr) THEN r ELSE RecoverNR(e)
                          [] c.status = "S_recover" -> RecvSRecover(s, f)
                          [] c.status \notin Connected -> d
    BY DEF RecvREJ, Polled, Marked
  <2>2. /\ Good(win, d) /\ Good(win, RecoverNR(e)) /\ Good(win, p) /\ p.status = c.status
        /\ c.status = "S_recover" => Good(win, RecvSRecover(s, f))
    BY RecvSCasesOK
  <2> HIDE DEF d, e, s, p
  <2>3. t \in Context /\ t.T3 = TRUE /\ t.status = p.status
    BY <2>2, T1OverOK DEF Good
  <2> HIDE DEF t
  <2>4. r \in Context /\ r.T3 = TRUE /\ r.status = p.status /\ r.v_s = r.v_a
    BY <2>3, RetransmitOK
  <2> HIDE DEF r
  <2>5. c.status = "S_up" => Good(win, r)
    BY <2>2, <2>4, FreshUp
  <2> QED BY <1>1, <2>1, <2>2, <2>5 DEF Connected, Status
<1> QED BY <1>2, <1>3, <1>4

(* U frames. *)
LEMMA AnswerOK ==
  ASSUME NEW c \in Context, NEW t \in UCodes, NEW f \in Frame
  PROVE  Answer(c, t, f) \in Context /\ Same(c, Answer(c, t, f))
BY XmitOK, UFrameOK, FrameFields DEF Answer

(* A reset: V(A) and V(S) are 0, T3 runs, and the connection is up. *)
LEMMA ResetUp ==
  ASSUME NEW win \in BOOLEAN, NEW c \in Context, c.v_s = 0, c.v_a = 0
  PROVE  Good(win, SetState(T1Over(c), "S_up"))
<1> DEFINE t == T1Over(c)
           u == SetState(t, "S_up")
<1>1. t \in Context /\ t.T3 = TRUE /\ t.v_s = 0 /\ t.v_a = 0
  BY T1OverOK
<1> HIDE DEF t
<1>2. u \in Context /\ u.T3 = TRUE /\ u.v_s = 0 /\ u.v_a = 0 /\ u.status = "S_up"
  BY <1>1, SetStateOK DEF Status
<1> HIDE DEF u
<1>3. Good(win, u)
  BY <1>2, FreshUp
<1> QED BY <1>3 DEF u, t

LEMMA DownGood ==
  ASSUME NEW win \in BOOLEAN, NEW c \in Context
  PROVE  Good(win, SetState(c, "S_down"))
BY SetStateOK, IdleGood DEF Status, Idle

LEMMA RecvSABMOK ==
  ASSUME NEW win \in BOOLEAN, NEW c, Good(win, c), NEW f \in Frame, ~Broadcast
  PROVE  Good(win, RecvSABM(c, f))
<1>1. c \in Context /\ c.status \in Status
  BY Fields DEF Good
<1> DEFINE a == Answer(c, "UA", f)
           x == ClrExcept(a)
           i == Tell(x, "DL_ESTABLISH_IND")
           j == FlushI(i)
           y == Tell(x, "ERR_F")
           d == FlushI(y)
           g == Tell(d, "DL_ESTABLISH_IND")
           e == IF c.v_s # c.v_a THEN g ELSE d
           n == Answer(c, "DM", f)
<1>2. RecvSABM(c, f) =
        CASE c.status = "S_down" -> SetState(T1Over(j), "S_up")
          [] c.status = "S_await_up" -> a
          [] c.status = "S_await_down" -> n
          [] c.status \in Connected -> SetState(T1Over(e), "S_up")
  BY DEF RecvSABM
<1>3. a \in Context /\ Same(c, a) /\ n \in Context /\ Same(c, n)
  BY <1>1, AnswerOK DEF UCodes
<1>4. Good(win, a) /\ Good(win, n)
  BY <1>3, SameGood
<1> HIDE DEF a, n
<1>5. x \in Context
  BY <1>3, ClrExceptOK
<1> HIDE DEF x
<1>6. i \in Context /\ y \in Context
  BY <1>5, TellOK DEF Indications
<1> HIDE DEF i, y
<1>7. /\ j \in Context /\ j.v_s = 0 /\ j.v_a = 0
      /\ d \in Context /\ d.v_s = 0 /\ d.v_a = 0
  BY <1>6, FlushIOK
<1> HIDE DEF j, d
<1>8. g \in Context /\ g.v_s = 0 /\ g.v_a = 0
  BY <1>7, TellOK DEF Indications, Same
<1> HIDE DEF g
<1>9. Good(win, SetState(T1Over(j), "S_up")) /\ Good(win, SetState(T1Over(e), "S_up"))
  BY <1>7, <1>8, ResetUp
<1> QED BY <1>1, <1>2, <1>4, <1>9 DEF Connected, Status

LEMMA RecvDISCOK ==
  ASSUME NEW win \in BOOLEAN, NEW c, Good(win, c), NEW f \in Frame
  PROVE  Good(win, RecvDISC(c, f))
<1>1. c \in Context /\ c.status \in Status
  BY Fields DEF Good
<1> DEFINE a == Answer(c, "UA", f)
           n == Answer(c, "DM", f)
           i == FlushI(c)
           j == Answer(i, "UA", f)
           d == Tell(j, "DL_RELEASE_IND")
           t3 == d.T3 /\ c.status = "S_recover"
           e == [d EXCEPT !.T1 = FALSE, !.T3 = t3]
<1>2. RecvDISC(c, f) =
        CASE c.status \in {"S_down", "S_await_down"} -> a
          [] c.status = "S_await_up" -> n
          [] c.status \in Connected -> SetState(e, "S_down")
  BY DEF RecvDISC
<1>3. Good(win, a) /\ Good(win, n)
  <2>1. a \in Context /\ Same(c, a) /\ n \in Context /\ Same(c, n)
    BY <1>1, AnswerOK DEF UCodes
  <2> QED BY <2>1, SameGood
<1>4. i \in Context
  BY <1>1, FlushIOK
<1> HIDE DEF i
<1>5. j \in Context
  BY <1>4, AnswerOK DEF UCodes
<1> HIDE DEF j
<1>6. d \in Context
  BY <1>5, TellOK DEF Indications
<1> HIDE DEF d
<1>7. t3 \in BOOLEAN
  OBVIOUS
<1> HIDE DEF t3
<1>8. e \in Context
  BY <1>6, <1>7 DEF Context
<1> HIDE DEF e
<1>9. Good(win, SetState(e, "S_down"))
  BY <1>8, DownGood
<1> QED BY <1>1, <1>2, <1>3, <1>9 DEF Connected, Status

LEMMA DownAfterFlush ==
  ASSUME NEW win \in BOOLEAN, NEW c \in Context, NEW ind \in Indications
  PROVE  /\ Good(win, SetState(StopT1(Tell(FlushI(c), ind)), "S_down"))
         /\ Good(win, SetState(StopT1(Tell(c, ind)), "S_down"))
<1> DEFINE i == FlushI(c)
           t == Tell(i, ind)
           s == StopT1(t)
           u == Tell(c, ind)
           v == StopT1(u)
<1>1. i \in Context
  BY FlushIOK
<1> HIDE DEF i
<1>2. t \in Context /\ u \in Context
  BY <1>1, TellOK
<1> HIDE DEF t, u
<1>3. s \in Context /\ v \in Context
  BY <1>2, StopT1OK
<1> HIDE DEF s, v
<1>4. Good(win, SetState(s, "S_down")) /\ Good(win, SetState(v, "S_down"))
  BY <1>3, DownGood
<1> QED BY <1>4 DEF i, t, s, u, v

LEMMA TellGood ==
  ASSUME NEW win \in BOOLEAN, NEW c, Good(win, c), NEW ind \in Indications
  PROVE  Good(win, Tell(c, ind))
BY TellOK, SameGood DEF Good

LEMMA RecvDMOK ==
  ASSUME NEW win \in BOOLEAN, NEW c, Good(win, c), NEW f \in Frame, ~Broadcast
  PROVE  Good(win, RecvDM(c, f))
<1>1. c \in Context /\ c.status \in Status
  BY Fields DEF Good
<1> DEFINE r == SetState(StopT1(Tell(FlushI(c), "DL_RELEASE_IND")), "S_down")
           q == SetState(StopT1(Tell(FlushI(c), "DL_RELEASE_CONF")), "S_down")
           b == Tell(c, "ERR_B")
           e == Tell(c, "ERR_E")
<1>2. RecvDM(c, f) =
        CASE c.status = "S_down" -> IF f.pf THEN c ELSE Reestablish(c)
          [] c.status = "S_await_up" /\ f.pf -> r
          [] c.status = "S_await_down" /\ f.pf -> q
          [] c.status \in {"S_await_up", "S_await_down"} /\ ~f.pf -> c
          [] c.status \in Connected -> IF f.pf THEN b ELSE Reestablish(e)
  BY DEF RecvDM
<1>3. "DL_RELEASE_IND" \in Indications /\ "DL_RELEASE_CONF" \in Indications
        /\ "ERR_B" \in Indications /\ "ERR_E" \in Indications
  BY DEF Indications
<1>4. Good(win, r) /\ Good(win, q)
  BY <1>1, <1>3, DownAfterFlush
<1> HIDE DEF r, q
<1>5. Good(win, b) /\ Good(win, e)
  BY <1>3, TellGood
<1> HIDE DEF b, e
<1>6. Good(win, Reestablish(c)) /\ Good(win, Reestablish(e))
  BY <1>1, <1>5, ReestablishOK DEF Good
<1>7. f.pf \in BOOLEAN
  BY FrameFields
<1> QED BY <1>1, <1>2, <1>4, <1>5, <1>6, <1>7 DEF Connected, Status

LEMMA ConnectionUpOK ==
  ASSUME NEW win \in BOOLEAN, NEW c \in Context
  PROVE  Good(win, ConnectionUp(c))
<1> DEFINE i == FlushI(c)
           x == Tell(c, "DL_ESTABLISH_CONF")
           y == Tell(i, "DL_ESTABLISH_IND")
           d == CASE c.L3_req -> x
                  [] ~c.L3_req /\ c.v_s # c.v_a -> y
                  [] ~c.L3_req /\ c.v_s = c.v_a -> c
           u == SetState(d, "S_up")
           t == T1Over(u)
           e == [t EXCEPT !.v_r = 0, !.v_s = 0, !.v_a = 0]
<1>1. ConnectionUp(c) = Wake(e)
  BY DEF ConnectionUp
<1>2. i \in Context
  BY FlushIOK
<1> HIDE DEF i
<1>3. x \in Context /\ y \in Context
  BY <1>2, TellOK DEF Indications
<1> HIDE DEF x, y
<1>4. d \in Context
  BY <1>3, Fields
<1> HIDE DEF d
<1>5. u \in Context /\ u.status = "S_up"
  BY <1>4, SetStateOK DEF Status
<1> HIDE DEF u
<1>6. t \in Context /\ t.status = "S_up" /\ t.T3 = TRUE
  BY <1>5, T1OverOK
<1> HIDE DEF t
<1>7. 0 \in SeqNo
  BY ModAssumption DEF SeqNo
<1>8. e \in Context /\ e.status = "S_up" /\ e.T3 = TRUE /\ e.v_s = e.v_a
  BY <1>6, <1>7 DEF Context
<1> HIDE DEF e
<1>9. Good(win, e)
  BY <1>8, FreshUp
<1>10. Wake(e) \in Context /\ Same(e, Wake(e))
  BY <1>8, WakeOK
<1> QED BY <1>1, <1>9, <1>10, SameGood

LEMMA RecvUAOK ==
  ASSUME NEW win \in BOOLEAN, NEW c, Good(win, c), NEW f \in Frame
  PROVE  Good(win, RecvUA(c, f))
<1>1. c \in Context /\ c.status \in Status /\ f.pf \in BOOLEAN
  BY Fields, FrameFields DEF Good
<1> DEFINE r == SetState(StopT1(Tell(c, "DL_RELEASE_CONF")), "S_down")
           d == Tell(c, "ERR_D")
           e == Tell(c, "ERR_CD")
<1>2. RecvUA(c, f) =
        CASE c.status = "S_await_up" /\ f.pf -> ConnectionUp(c)
          [] c.status = "S_await_down" /\ f.pf -> r
          [] c.status \in {"S_await_up", "S_await_down"} /\ ~f.pf -> d
          [] c.status \in Connected \cup {"S_down"} -> e
  BY DEF RecvUA
<1>3. "DL_RELEASE_CONF" \in Indications /\ "ERR_D" \in Indications /\ "ERR_CD" \in Indications
  BY DEF Indications
<1>4. Good(win, r) /\ Good(win, d) /\ Good(win, e) /\ Good(win, ConnectionUp(c))
  BY <1>1, <1>3, DownAfterFlush, TellGood, ConnectionUpOK
<1> HIDE DEF r, d, e
<1> QED BY <1>1, <1>2, <1>4 DEF Connected, Status

LEMMA RecvUIOK ==
  ASSUME NEW win \in BOOLEAN, NEW c, Good(win, c), NEW f \in Frame
  PROVE  Good(win, RecvUI(c, f))
<1> DEFINE s == SendFRMR(c, f.pf)
           k == IF f.bc THEN 3 ELSE 1
           n == IF c.space > 0 THEN c.space - 1 ELSE 0
           d == [c EXCEPT !.up = Append(@, <<k, f.body>>), !.space = n]
<1>1. RecvUI(c, f) = CASE f.body = None -> IF f.bc THEN c ELSE s
                       [] f.body # None /\ ~c.recvok -> c
                       [] f.body # None /\ c.recvok -> d
  BY DEF RecvUI
<1>2. c \in Context /\ c.recvok \in BOOLEAN /\ c.up \in BlockSeq /\ c.space \in Nat
  BY Fields DEF Good, Budget
<1>3. s \in Context /\ Same(c, s)
  BY <1>2, FrameFields, SendFRMROK
<1> HIDE DEF s
<1>4. n \in Budget
  BY <1>2 DEF Budget
<1> HIDE DEF n
<1>5. k \in Kinds
  BY DEF Kinds
<1> HIDE DEF k
<1>6. f.body # None => d \in Context /\ Same(c, d)
  <2>1. SUFFICES ASSUME f.body # None PROVE d \in Context /\ Same(c, d)
    OBVIOUS
  <2>2. <<k, f.body>> \in Block
    BY <1>5, <2>1, FrameFields DEF Block
  <2>3. Append(c.up, <<k, f.body>>) \in BlockSeq
    BY <1>2, <2>2 DEF BlockSeq
  <2> QED BY <1>2, <1>4, <2>3 DEF Context, Same
<1> HIDE DEF d
<1>7. Good(win, s) /\ (f.body # None => Good(win, d))
  BY <1>3, <1>6, SameGood
<1> QED BY <1>1, <1>2, <1>7

LEMMA RecvUOK ==
  ASSUME NEW win \in BOOLEAN, NEW c, Good(win, c), NEW f \in Frame, f.t \in UCodes, ~Broadcast
  PROVE  Good(win, RecvU(c, f))
<1> DEFINE s == SendFRMR(c, f.pf)
           b == Tell(s, "ERR_N")
           u == Tell(s, "ERR_L")
           d == Tell(c, "ERR_D")
<1>1. c \in Context /\ c.status \in Status /\ f.pf \in BOOLEAN
  BY Fields, FrameFields DEF Good
<1>2. "ERR_N" \in Indications /\ "ERR_L" \in Indications /\ "ERR_D" \in Indications
  BY DEF Indications
<1>3. s \in Context /\ Same(c, s)
  BY <1>1, SendFRMROK
<1>4. BadU(c, f) = b /\ UnknownU(c, f) = u
        /\ RecvFRMR(c) = IF c.status \in Connected THEN Reestablish(d) ELSE d
  BY DEF BadU, UnknownU, RecvFRMR
<1> HIDE DEF s
<1>5. Good(win, s)
  BY <1>3, SameGood
<1>6. Good(win, b) /\ Good(win, u) /\ Good(win, d)
  BY <1>2, <1>5, TellGood
<1> HIDE DEF b, u, d
<1>7. Good(win, Reestablish(d))
  BY <1>6, ReestablishOK DEF Good
<1>8. Good(win, RecvSABM(c, f)) /\ Good(win, RecvDISC(c, f)) /\ Good(win, RecvDM(c, f))
        /\ Good(win, RecvUA(c, f)) /\ Good(win, RecvUI(c, f))
  BY RecvSABMOK, RecvDISCOK, RecvDMOK, RecvUAOK, RecvUIOK
<1>9. CASE ~KnownU(f)
  BY <1>4, <1>6, <1>9 DEF RecvU
<1>10. CASE KnownU(f) /\ f.t \in {"UI", "XID", "FRMR"}
  BY <1>4, <1>6, <1>7, <1>8, <1>10 DEF RecvU
<1>11. CASE KnownU(f) /\ f.t \in {"SABM", "SABMX", "DISC", "DM", "UA"} /\ f.body # None
  BY <1>4, <1>6, <1>11 DEF RecvU
<1>12. CASE KnownU(f) /\ f.t \in {"SABM", "SABMX", "DISC", "DM", "UA"} /\ f.body = None
  BY <1>5, <1>8, <1>12 DEF RecvU, s
<1> QED BY <1>9, <1>10, <1>11, <1>12 DEF KnownU

LEMMA DispatchOK ==
  ASSUME NEW win \in BOOLEAN, NEW c, Good(win, c), NEW f \in Frame, ~Malformed(f), ~Broadcast
  PROVE  Good(win, Dispatch(c, f))
<1> DEFINE s == SendFRMR(c, f.pf)
<1>1. Good(win, s)
  BY FrameFields, SendFRMROK, SameGood DEF Good
<1>2. CASE f.t = "I"
  BY <1>2, RecvIOK DEF Dispatch, UCodes
<1>3. CASE f.t \in {"RR", "RNR", "REJ"}
  BY <1>3, RecvSOK DEF Dispatch, UCodes
<1>4. CASE f.t = "SX"
  <2>1. Good(win, Tell(s, "ERR_L"))
    <3> HIDE DEF s
    <3> QED BY <1>1, TellGood DEF Indications
  <2> QED BY <1>4, <2>1 DEF Dispatch, RecvSX, UCodes
<1>5. CASE f.t \in UCodes
  <2>1. Good(win, RecvU(c, f))
    BY <1>5, RecvUOK
  <2> QED BY <1>5, <2>1 DEF Dispatch, UCodes
<1> QED BY <1>2, <1>3, <1>4, <1>5, FrameFields DEF Malformed, SCodes

LEMMA RecvOK ==
  ASSUME NEW win \in BOOLEAN, NEW c, Good(win, c), NEW f \in Frame, ~Broadcast
  PROVE  Good(win, Recv(c, f))
<1> DEFINE s == SendFRMR(c, f.pf)
           d == Dispatch(c, f)
<1>1. Good(win, s)
  BY FrameFields, SendFRMROK, SameGood DEF Good
<1>2. ~Malformed(f) => Good(win, d)
  BY DispatchOK
<1> HIDE DEF s, d
<1>3. ~Malformed(f) => Good(win, CheckPending(d))
  BY <1>2, CheckPendingOK
<1> QED BY <1>1, <1>3 DEF Recv, s, d

(* The calls of the upper layer. *)
LEMMA SendOK ==
  ASSUME NEW win \in BOOLEAN, NEW c, Good(win, c), NEW kind \in Kinds, NEW x \in Data \cup {None}
  PROVE  Good(win, Send(c, kind, x))
<1> DEFINE z == [c EXCEPT !.ret = "ENXIO"]
           b == kind = 3
           q == [c EXCEPT !.asBroadcast = b]
           i == [q EXCEPT !.I = Append(@, x)]
           u == [q EXCEPT !.UI = Append(@, x)]
           m == CASE x = None -> q
                  [] x # None /\ kind = 0 -> i
                  [] x # None /\ kind # 0 -> u
<1>1. Send(c, kind, x) =
        IF kind = 0 /\ x # None /\ Broadcast THEN z ELSE CheckPending(m)
  BY DEF Send
<1>2. c \in Context /\ c.I \in Queue /\ c.UI \in Queue
  BY Fields DEF Good
<1>3. z \in Context /\ Same(c, z)
  BY <1>2, ErrorsOK DEF Context, Same
<1> HIDE DEF z
<1>4. b \in BOOLEAN
  OBVIOUS
<1> HIDE DEF b
<1>5. q \in Context /\ Same(c, q) /\ q.UI = c.UI
  BY <1>2, <1>4 DEF Context, Same
<1> HIDE DEF q
<1>6. x # None => i \in Context /\ Good(win, i)
  <2>1. SUFFICES ASSUME x \in Data PROVE i \in Context /\ Good(win, i)
    OBVIOUS
  <2>2. Append(c.I, x) \in Queue /\ Len(Append(c.I, x)) = Len(c.I) + 1 /\ Len(c.I) \in Nat
    BY <1>2, <2>1 DEF Queue
  <2>3. /\ i \in Context /\ i.status = c.status /\ i.T1 = c.T1 /\ i.T3 = c.T3
        /\ i.v_a = c.v_a /\ i.v_s = c.v_s /\ i.I = Append(c.I, x)
    BY <1>5, <2>2 DEF Context, Same
  <2> HIDE DEF i
  <2>4. c.v_a \in SeqNo /\ c.v_s \in SeqNo /\ Outstanding(c) \in SeqNo
    BY <1>2, Fields, DistOK DEF Outstanding
  <2>5. Windowed(c) => Windowed(i)
    BY <2>2, <2>3, <2>4, WindowAssumption, ModAssumption
       DEF Windowed, Outstanding, Least, SeqNo
  <2> QED BY <2>3, <2>5 DEF Good, Guarded
<1>7. x # None => u \in Context /\ Same(q, u)
  <2>1. SUFFICES ASSUME x \in Data PROVE u \in Context /\ Same(q, u)
    OBVIOUS
  <2>2. Append(q.UI, x) \in Queue
    BY <1>2, <1>5, <2>1 DEF Queue
  <2> QED BY <1>5, <2>2 DEF Context, Same
<1> HIDE DEF i, u
<1>8. Good(win, z) /\ Good(win, q)
  BY <1>3, <1>5, SameGood
<1>9. x # None => Good(win, u)
  BY <1>7, <1>8, SameGood
<1>10. Good(win, m)
  BY <1>6, <1>8, <1>9
<1> HIDE DEF m
<1> QED BY <1>1, <1>8, <1>10, CheckPendingOK

LEMMA PendingOK ==
  ASSUME NEW win \in BOOLEAN, NEW c, Good(win, c), ~Broadcast
  PROVE  Good(win, PendingUnlessFailed(c)) /\ Good(win, PendingAfterEstablish(c))
BY CheckPendingOK, CheckPendingFromLowOK DEF PendingUnlessFailed, PendingAfterEstablish

LEMMA ForceEstablishOK ==
  ASSUME NEW win \in BOOLEAN, NEW c, Good(win, c), ~Broadcast, ~win
  PROVE  Good(win, ForceEstablish(c))
<1> DEFINE t1 == c.T1 /\ c.status = "S_down"
           d == [c EXCEPT !.errors = 0, !.T1 = t1, !.T3 = TRUE]
           s == SetState(d, "S_up")
           t == Tell(s, "DL_ESTABLISH_CONF")
           w == Wake(t)
<1>1. ForceEstablish(c) =
        IF c.status \in Connected THEN PendingUnlessFailed(c) ELSE PendingUnlessFailed(w)
  BY DEF ForceEstablish
<1>2. c \in Context /\ t1 \in BOOLEAN /\ 0 \in Counts
  BY ErrorAssumption DEF Good, Counts
<1> HIDE DEF t1
<1>3. d \in Context /\ d.T3 = TRUE
  BY <1>2 DEF Context
<1> HIDE DEF d
<1>4. s \in Context /\ s.T3 = TRUE /\ s.status = "S_up"
  BY <1>3, SetStateOK DEF Status
<1> HIDE DEF s
<1>5. t \in Context /\ t.T3 = TRUE /\ t.status = "S_up"
  BY <1>4, TellOK DEF Indications, Same
<1> HIDE DEF t
<1>6. w \in Context /\ w.T3 = TRUE /\ w.status = "S_up"
  BY <1>5, WakeOK DEF Same
<1> HIDE DEF w
<1>7. Good(win, w)
  BY <1>6 DEF Good, Guarded
<1> QED BY <1>1, <1>7, PendingOK

LEMMA IdleUpdate ==
  ASSUME NEW win \in BOOLEAN, NEW c \in Context, Idle(c), NEW b \in BOOLEAN
  PROVE  /\ Good(win, [c EXCEPT !.L3_req = b])
         /\ Good(win, [c EXCEPT !.L3_req = b, !.errors = 0])
<1> DEFINE d == [c EXCEPT !.L3_req = b]
           e == [c EXCEPT !.L3_req = b, !.errors = 0]
<1>1. 0 \in Counts
  BY ErrorAssumption DEF Counts
<1>2. d \in Context /\ Idle(d) /\ e \in Context /\ Idle(e)
  <2>1. d \in Context /\ Idle(d)
    BY ZenonT(60) DEF Context, Idle
  <2>2. e \in Context /\ Idle(e)
    BY ZenonT(60), <1>1 DEF Context, Idle
  <2> QED BY <2>1, <2>2
<1> HIDE DEF d, e
<1>3. Good(win, d) /\ Good(win, e)
  BY <1>2, IdleGood
<1> QED BY <1>3 DEF d, e

LEMMA EstablishReqOK ==
  ASSUME NEW win \in BOOLEAN, NEW c, Good(win, c), ~Broadcast
  PROVE  Good(win, EstablishReq(c))
<1> DEFINE e == Establish(c)
           d == [e EXCEPT !.L3_req = TRUE, !.errors = 0]
<1>1. e \in Context /\ Idle(e)
  BY EstablishOK DEF Good
<1>2. Good(win, d)
  BY <1>1, IdleUpdate
<1>3. EstablishReq(c) = IF c.status \in {"S_down", "S_await_down"}
                          THEN PendingAfterEstablish(d) ELSE PendingUnlessFailed(c)
  BY DEF EstablishReq, UserEstablish
<1> HIDE DEF d
<1> QED BY <1>2, <1>3, PendingOK

LEMMA EstablishIndOK ==
  ASSUME NEW win \in BOOLEAN, NEW c, Good(win, c), ~Broadcast
  PROVE  Good(win, EstablishInd(c))
<1> DEFINE i == FlushI(c)
           e == Establish(i)
           d == [e EXCEPT !.L3_req = TRUE]
           l == [c EXCEPT !.L3_req = TRUE]
<1>1. c \in Context /\ c.status \in Status
  BY Fields DEF Good
<1>2. EstablishInd(c) = CASE c.status \in {"S_down", "S_await_down"} -> PendingUnlessFailed(c)
        [] c.status = "S_await_up" -> PendingUnlessFailed(l)
        [] c.status \in Connected -> PendingAfterEstablish(d)
  BY DEF EstablishInd
<1>3. Good(win, l)
  BY <1>1, FlagsOK, SameGood
<1> HIDE DEF l
<1>4. i \in Context
  BY <1>1, FlushIOK
<1> HIDE DEF i
<1>5. e \in Context /\ Idle(e)
  BY <1>4, EstablishOK
<1>6. Good(win, d)
  BY <1>5, IdleUpdate
<1> HIDE DEF d
<1> QED BY <1>1, <1>2, <1>3, <1>6, PendingOK DEF Connected, Status

LEMMA ReleaseReqOK ==
  ASSUME NEW win \in BOOLEAN, NEW c, Good(win, c), ~Broadcast
  PROVE  Good(win, ReleaseReq(c))
<1> DEFINE d == [c EXCEPT !.errors = 0]
           t == Tell(d, "DL_RELEASE_CONF")
           s == SetState(d, "S_await_down")
           i == FlushI(s)
           e == [i EXCEPT !.RC = 0]
           g == Xmit(e, Unnumbered("DISC", TRUE, TRUE))
           t3 == g.T3 /\ c.status = "S_recover"
           h == [g EXCEPT !.T1 = TRUE, !.T3 = t3]
<1>1. c \in Context /\ c.status \in Status /\ 0 \in Counts
  BY Fields, ErrorAssumption DEF Good, Counts
<1>2. ReleaseReq(c) = CASE c.status = "S_down" -> PendingUnlessFailed(t)
        [] c.status \in {"S_await_up", "S_await_down"} -> PendingUnlessFailed(d)
        [] c.status \in Connected -> PendingUnlessFailed(h)
  BY DEF ReleaseReq
<1>3. d \in Context /\ Same(c, d)
  BY <1>1 DEF Context, Same
<1> HIDE DEF d
<1>4. Good(win, d)
  BY <1>3, SameGood
<1>5. Good(win, t)
  BY <1>4, TellGood DEF Indications
<1> HIDE DEF t
<1>6. s \in Context /\ s.status = "S_await_down"
  BY <1>3, SetStateOK DEF Status
<1> HIDE DEF s
<1>7. i \in Context /\ i.status = "S_await_down"
  BY <1>6, FlushIOK
<1> HIDE DEF i
<1>8. e \in Context /\ e.status = "S_await_down"
  BY <1>7, RetriesOK DEF Context
<1> HIDE DEF e
<1>9. g \in Context /\ g.status = "S_await_down"
  BY <1>8, XmitOK, UFrameOK DEF UCodes, Same
<1> HIDE DEF g
<1>10. t3 \in BOOLEAN
  OBVIOUS
<1> HIDE DEF t3
<1>11. h \in Context /\ h.status = "S_await_down" /\ h.T1 = TRUE
  BY <1>9, <1>10 DEF Context
<1> HIDE DEF h
<1>12. Good(win, h)
  BY <1>11, IdleGood DEF Idle
<1> QED BY <1>1, <1>2, <1>4, <1>5, <1>12, PendingOK DEF Connected, Status

LEMMA AbortOK ==
  ASSUME NEW win \in BOOLEAN, NEW c \in Context, NEW ind, ~Broadcast
  PROVE  Good(win, Abort(c, ind))
<1> DEFINE x == KillMe(c, "DL_RELEASE_CONF")
           y == KillMe(c, "DL_RELEASE_IND")
           d == CASE c.status = "S_await_up" /\ ind = "PH_DEACTIVATE_IND" -> c
                  [] c.status = "S_await_down" -> x
                  [] c.status = "S_await_up" /\ ind # "PH_DEACTIVATE_IND" -> y
                  [] c.status \in Connected \cup {"S_down"} -> y
           s == SetState(d, "S_down")
<1>1. Abort(c, ind) = PendingUnlessFailed(s)
  BY DEF Abort
<1>2. x \in Context /\ y \in Context
  <2>1. "DL_RELEASE_CONF" \in Indications /\ "DL_RELEASE_IND" \in Indications
    BY DEF Indications
  <2> QED BY <2>1, KillMeOK
<1> HIDE DEF x, y
<1>3. d \in Context
  BY <1>2, Fields DEF Status, Connected
<1> HIDE DEF d
<1>4. Good(win, s)
  BY <1>3, DownGood
<1> QED BY <1>1, <1>4, PendingOK

LEMMA RemoveOK ==
  ASSUME NEW win \in BOOLEAN, NEW c \in Context, NEW ind \in Indications, ~Broadcast
  PROVE  Good(win, Remove(c, ind))
BY KillMeOK, AbortOK DEF Remove

(* From calls to steps. *)
LEMMA CallOK ==
  ASSUME NEW win \in BOOLEAN, NEW c, Good(win, c), NEW e \in Answers
  PROVE  Good(win, Call(c, e)) /\ Call(c, e).status = c.status
<1>1. e \in Answers /\ c \in Context
  BY DEF Good
<1>2. e.room \in Budget /\ e.accept \in Budget /\ e.fail \in Failures /\ e.space \in Budget
        /\ e.recvok \in BOOLEAN
  BY <1>1 DEF Answers, Budget
<1>3. Call(c, e) \in Context /\ Same(c, Call(c, e))
  BY <1>1, <1>2 DEF Call, Context, Same
<1> QED BY <1>3, SameGood DEF Same

LEMMA SettledOK ==
  ASSUME NEW win \in BOOLEAN, NEW c, Good(win, c)
  PROVE  Good(win, Settled(c)) /\ Settled(Settled(c)) = Settled(c)
<1>1. c \in Context
  BY DEF Good
<1>2. 0 \in Budget /\ "EIO" \in Failures /\ <<>> \in FrameSeq /\ <<>> \in IndSeq /\ <<>> \in BlockSeq
        /\ "ok" \in Errors
  BY DEF Budget, Failures, Errors, FrameSeq, IndSeq, BlockSeq
<1>3. Settled(c) \in Context /\ Same(c, Settled(c))
  BY ZenonT(60), <1>1, <1>2 DEF Settled, Context, Same
<1>4. Settled(Settled(c)) = Settled(c)
  BY ZenonT(60), <1>1 DEF Settled, Context
<1> QED BY <1>3, <1>4, SameGood

-----------------------------------------------------------------------------
(* What the upper layer is told.  The lemmas of this part look only at the *)
(* status, at L3_req and at what was told, so they need no types.          *)
Shaped(c) == /\ {"status", "L3_req", "told", "sentRR", "out"} \subseteq DOMAIN c
             /\ c.told \in IndSeq

(* Nothing about the connection changes or is told. *)
Alike(c, d) ==
  /\ Shaped(d) /\ d.status = c.status /\ d.L3_req = c.L3_req
  /\ IsTold(d.told, UpInds) <=> IsTold(c.told, UpInds)
  /\ IsTold(d.told, DownInds) <=> IsTold(c.told, DownInds)

(* SABM and DISC are sent with the P bit, and a DM answers one.            *)
Tame(f) == f.t \in {"SABM", "DISC", "DM"} => f.pf = TRUE
Polite(o) == (\E S : o \in Seq(S)) /\ \A i \in 1 .. Len(o) : Tame(o[i])

Quiet(c, d) == Alike(c, d) /\ (Polite(c.out) => Polite(d.out))

(* What the upper layer will think when the call returns, and when it has  *)
(* to think that the connection is up: also while it is being set up again *)
(* without anybody having asked for it.                                    *)
SeenUp(c, v) == IsTold(c.told, UpInds) \/ (v = "up" /\ ~IsTold(c.told, DownInds))
Agreed(c, v) ==
  /\ Shaped(c) /\ c.status \in Status
  /\ c.status \in Connected \/ (c.status = "S_await_up" /\ ~c.L3_req) => SeenUp(c, v)

LEMMA AlikeAgreed ==
  ASSUME NEW c, NEW d, NEW v, Agreed(c, v), Alike(c, d)
  PROVE  Agreed(d, v)
BY DEF Alike, Agreed, SeenUp

LEMMA PoliteMore ==
  ASSUME NEW o, NEW p, Polite(o), Polite(p)
  PROVE  Polite(o \o p)
<1>1. PICK S : o \in Seq(S)
  BY DEF Polite
<1>2. PICK T : p \in Seq(T)
  BY DEF Polite
<1>3. o \in Seq(S \cup T) /\ p \in Seq(S \cup T)
  BY <1>1, <1>2
<1> DEFINE q == o \o p
<1>4. /\ q \in Seq(S \cup T) /\ Len(q) = Len(o) + Len(p)
      /\ Len(o) \in Nat /\ Len(p) \in Nat
      /\ \A i \in 1 .. Len(o) : q[i] = o[i]
      /\ \A i \in Len(o) + 1 .. Len(o) + Len(p) : q[i] = p[i - Len(o)]
  BY <1>3
<1> HIDE DEF q
<1>5. ASSUME NEW i \in 1 .. Len(q) PROVE Tame(q[i])
  <2>1. CASE i <= Len(o)
    BY <1>4, <2>1 DEF Polite
  <2>2. CASE i > Len(o)
    <3>1. i - Len(o) \in 1 .. Len(p) /\ q[i] = p[i - Len(o)]
      BY <1>4, <2>2
    <3> QED BY <3>1 DEF Polite
  <2> QED BY <1>4, <2>1, <2>2
<1>6. Polite(q)
  BY <1>4, <1>5 DEF Polite
<1> QED BY <1>6 DEF q

LEMMA PoliteOne ==
  ASSUME NEW o, NEW f, Polite(o), Tame(f)
  PROVE  Polite(Append(o, f))
<1>1. PICK S : o \in Seq(S)
  BY DEF Polite
<1>2. o \in Seq(S \cup {f}) /\ f \in S \cup {f}
  BY <1>1
<1> DEFINE q == Append(o, f)
<1>3. /\ q \in Seq(S \cup {f}) /\ Len(q) = Len(o) + 1 /\ Len(o) \in Nat
      /\ \A i \in 1 .. Len(o) : q[i] = o[i]
      /\ q[Len(o) + 1] = f
  BY <1>2
<1> HIDE DEF q
<1>4. Polite(q)
  BY <1>3 DEF Polite
<1> QED BY <1>4 DEF q

(* Only the answer to a frame may be a DM. *)
LEMMA TameOK ==
  ASSUME NEW t, NEW cmd, NEW pf, NEW nr
  PROVE  /\ t \in {"RR", "RNR", "REJ", "UA", "FRMR"} => Tame(Supervisory(t, cmd, pf, nr))
         /\ pf = TRUE => Tame(Supervisory(t, cmd, pf, nr))
BY DEF Tame, Supervisory

LEMMA QuietItself ==
  ASSUME NEW c, Shaped(c)
  PROVE  Quiet(c, c)
BY DEF Quiet, Alike

LEMMA QuietShaped ==
  ASSUME NEW c, NEW d, Quiet(c, d)
  PROVE  Shaped(d) /\ Alike(c, d) /\ d.status = c.status
BY DEF Quiet, Alike

LEMMA AlikeOn ==
  ASSUME NEW c, NEW d, NEW e, Alike(c, d), Alike(d, e)
  PROVE  Alike(c, e)
BY DEF Alike

LEMMA QuietOn ==
  ASSUME NEW c, NEW d, NEW e, Quiet(c, d), Quiet(d, e)
  PROVE  Quiet(c, e)
BY DEF Quiet, Alike

LEMMA QuietAgreed ==
  ASSUME NEW c, NEW d, NEW v, Agreed(c, v), Quiet(c, d)
  PROVE  Agreed(d, v)
BY DEF Quiet, Alike, Agreed, SeenUp

LEMMA SeenAgreed ==
  ASSUME NEW c, NEW v, Shaped(c), SeenUp(c, v), c.status \in Status
  PROVE  Agreed(c, v)
BY DEF Agreed

LEMMA TellTold ==
  ASSUME NEW c, Shaped(c), NEW ind \in Indications
  PROVE  /\ Shaped(Tell(c, ind)) /\ Tell(c, ind).status = c.status
         /\ Tell(c, ind).L3_req = c.L3_req
         /\ IsTold(Tell(c, ind).told, UpInds) <=> IsTold(c.told, UpInds) \/ ind \in UpInds
         /\ IsTold(Tell(c, ind).told, DownInds) <=> IsTold(c.told, DownInds) \/ ind \in DownInds
         /\ Tell(c, ind).out = c.out
         /\ ind \notin UpInds \cup DownInds => Quiet(c, Tell(c, ind))
<1> DEFINE n == Len(c.told)
           t == Append(c.told, ind)
<1>1. /\ c.told \in Seq(Indications) /\ n \in Nat
      /\ t \in Seq(Indications) /\ Len(t) = n + 1 /\ t[n + 1] = ind
      /\ \A i \in 1 .. n : t[i] = c.told[i]
  BY DEF Shaped, IndSeq
<1>2. /\ Tell(c, ind).told = t /\ Tell(c, ind).status = c.status
      /\ Tell(c, ind).L3_req = c.L3_req /\ Shaped(Tell(c, ind)) /\ Tell(c, ind).out = c.out
  BY <1>1 DEF Tell, Shaped, IndSeq
<1> HIDE DEF t
<1>3. ASSUME NEW inds
      PROVE  IsTold(t, inds) <=> IsTold(c.told, inds) \/ ind \in inds
  <2>1. ASSUME IsTold(c.told, inds) PROVE IsTold(t, inds)
    BY <1>1, <2>1 DEF IsTold
  <2>2. ASSUME ind \in inds PROVE IsTold(t, inds)
    BY <1>1, <2>2 DEF IsTold
  <2>3. ASSUME IsTold(t, inds) PROVE IsTold(c.told, inds) \/ ind \in inds
    <3>1. PICK i \in 1 .. n + 1 : t[i] \in inds
      BY <1>1, <2>3 DEF IsTold
    <3> QED BY <1>1, <3>1 DEF IsTold
  <2> QED BY <2>1, <2>2, <2>3
<1> QED BY <1>2, <1>3 DEF Quiet, Alike

LEMMA WakeTold ==
  ASSUME NEW c, Shaped(c)
  PROVE  Quiet(c, Wake(c))
BY DEF Quiet, Alike, Shaped, Wake

LEMMA XmitTold ==
  ASSUME NEW c, Shaped(c), NEW f
  PROVE  Alike(c, Xmit(c, f)) /\ (Tame(f) => Quiet(c, Xmit(c, f)))
<1>1. Alike(c, Xmit(c, f))
  BY DEF Alike, Shaped, Xmit
<1>2. Xmit(c, f).out \in {c.out, Append(c.out, f)}
  BY DEF Shaped, Xmit
<1>3. ASSUME Tame(f), Polite(c.out) PROVE Polite(Xmit(c, f).out)
  BY <1>2, <1>3, PoliteOne
<1> QED BY <1>1, <1>3 DEF Quiet

LEMMA TimersTold ==
  ASSUME NEW c, Shaped(c)
  PROVE  Quiet(c, StartT1(c)) /\ Quiet(c, StopT1(c)) /\ Quiet(c, T1Over(c)) /\ Quiet(c, T3Over(c))
BY DEF Quiet, Alike, Shaped, StartT1, StopT1, T1Over, T3Over

LEMMA FieldsTold ==
  ASSUME NEW c, Shaped(c), NEW x
  PROVE  /\ Quiet(c, ClrExcept(c)) /\ Quiet(c, FlushI(c)) /\ Quiet(c, Retransmit(c))
         /\ Quiet(c, [c EXCEPT !.RC = x]) /\ Quiet(c, [c EXCEPT !.errors = x])
         /\ Quiet(c, [c EXCEPT !.RNR = x]) /\ Quiet(c, [c EXCEPT !.trypoll = x])
         /\ Quiet(c, [c EXCEPT !.sentRR = x]) /\ Quiet(c, [c EXCEPT !.inREJ = x])
         /\ Quiet(c, [c EXCEPT !.ack_pend = x]) /\ Quiet(c, [c EXCEPT !.ret = x])
BY DEF Quiet, Alike, Shaped, ClrExcept, FlushI, Retransmit

LEMMA SetStateTold ==
  ASSUME NEW c, Shaped(c), NEW s
  PROVE  /\ Shaped(SetState(c, s)) /\ SetState(c, s).status = s
         /\ SetState(c, s).L3_req = c.L3_req /\ SetState(c, s).told = c.told
BY DEF Shaped, SetState

LEMMA SendAckTold ==
  ASSUME NEW c, Shaped(c), NEW t \in {"RR", "RNR", "REJ"}, NEW cmd, NEW pf
  PROVE  Quiet(c, SendAck(c, t, cmd, pf))
<1> DEFINE d == Xmit(c, Supervisory(t, cmd, pf, c.v_r))
<1>1. Quiet(c, d)
  BY XmitTold, TameOK
<1> HIDE DEF d
<1>2. Quiet(d, Acked(d))
  BY <1>1 DEF Acked, Quiet, Alike, Shaped
<1> QED BY <1>1, <1>2, QuietOn DEF SendAck, d

LEMMA ReadyTold == ASSUME NEW c PROVE ReadyCode(c) \in {"RR", "RNR", "REJ"}
BY DEF ReadyCode

LEMMA TellReadyTold ==
  ASSUME NEW c, Shaped(c), NEW cmd
  PROVE  Quiet(c, TellReady(c, cmd))
<1> DEFINE d == [c EXCEPT !.sentRR = CanRecv(c)]
<1>1. Quiet(c, d)
  BY FieldsTold
<1> HIDE DEF d
<1>2. Quiet(d, SendAck(d, ReadyCode(d), cmd, TRUE))
  BY <1>1, SendAckTold, ReadyTold, QuietShaped
<1> QED BY <1>1, <1>2, QuietOn DEF TellReady, d

LEMMA EnquiryTold ==
  ASSUME NEW c, Shaped(c)
  PROVE  Quiet(c, Enquiry(c)) /\ Quiet(c, EnqResp(c))
<1> DEFINE d == TellReady(c, TRUE)
<1>1. Quiet(c, d) /\ Quiet(c, TellReady(c, FALSE))
  BY TellReadyTold
<1> HIDE DEF d
<1>2. Quiet(d, StartT1(d))
  BY <1>1, TimersTold DEF Quiet, Alike
<1> QED BY <1>1, <1>2, QuietOn DEF Enquiry, EnqResp, d

LEMMA SendUITold ==
  ASSUME NEW c, Shaped(c)
  PROVE  Alike(c, SendUI(c))
BY DEF SendUI, Alike, Shaped

LEMMA SendITold ==
  ASSUME NEW c, Shaped(c)
  PROVE  Alike(c, SendI(c))
<1> DEFINE n == ISent(c)
           o == c.out \o [i \in 1 .. n |->
                   Information(c.I[Outstanding(c) + i], Wrap(c.v_s + i - 1), c.v_r)]
           w == Wrap(c.v_s + (IF IReady(c) > n THEN n + 1 ELSE n))
           r == IF IReady(c) > n THEN c.fail ELSE c.ret
           d == [c EXCEPT !.out = o, !.v_s = w, !.room = c.room - n,
                          !.accept = c.accept - n, !.ret = r]
<1>1. SendI(c) = d \/ SendI(c) = T3Over(d)
  BY DEF SendI
<1> HIDE DEF o, w, r, n
<1>2. Alike(c, d)
  BY DEF Alike, Shaped
<1> HIDE DEF d
<1>3. Alike(d, T3Over(d))
  BY <1>2, TimersTold DEF Alike, Quiet
<1> QED BY <1>1, <1>2, <1>3, AlikeOn

LEMMA SendPendingAckTold ==
  ASSUME NEW c, Shaped(c), NEW did
  PROVE  Quiet(c, SendPendingAck(c, did))
<1> DEFINE freed == ~c.sentRR /\ CanRecv(c)
           d == [c EXCEPT !.sentRR = CanRecv(c), !.ack_pend = @ \/ freed]
           e == IF d.ack_pend /\ (freed \/ ~did)
                  THEN SendAck(d, ReadyCode(d), FALSE, FALSE) ELSE d
           p == PollBusyPeer(e)
<1>1. SendPendingAck(c, did) = [p EXCEPT !.trypoll = FALSE]
  BY DEF SendPendingAck
<1>2. Quiet(c, d)
  BY DEF Quiet, Alike, Shaped
<1> HIDE DEF d, freed
<1>3. Quiet(d, e)
  <2>1. Shaped(d)
    BY <1>2 DEF Quiet, Alike
  <2> QED BY <2>1, SendAckTold, ReadyTold, QuietItself
<1> HIDE DEF e
<1>4. Quiet(c, e) /\ Shaped(e)
  BY <1>2, <1>3, QuietOn DEF Quiet, Alike
<1>6. Quiet(e, p)
  BY <1>4, SendAckTold, ReadyTold, QuietItself DEF PollBusyPeer
<1> HIDE DEF p
<1>7. Quiet(p, [p EXCEPT !.trypoll = FALSE])
  BY <1>6, FieldsTold DEF Quiet, Alike
<1>8. Quiet(c, p)
  BY <1>4, <1>6, QuietOn
<1> QED BY <1>1, <1>7, <1>8, QuietOn

LEMMA CheckPendingTold ==
  ASSUME NEW c, Shaped(c)
  PROVE  Alike(c, CheckPending(c))
<1> DEFINE u == SendUI(c)
           i == SendI(u)
           a == SendPendingAck(i, ISent(u) > 0)
           b == SendPendingAck(u, UIReady(c) > 0)
<1>1. CheckPending(c) = CASE UIFails(c) -> u
          [] ~UIFails(c) /\ c.status = "S_up" -> a
          [] ~UIFails(c) /\ c.status = "S_recover" -> b
          [] ~UIFails(c) /\ c.status \notin Connected -> IF UIReady(c) > 0 THEN Wake(u) ELSE u
  BY DEF CheckPending
<1>2. Alike(c, u)
  BY SendUITold
<1> HIDE DEF u
<1>3. Alike(u, i)
  BY <1>2, SendITold DEF Quiet, Alike
<1> HIDE DEF i
<1>4. Alike(i, a) /\ Alike(u, b) /\ Alike(u, Wake(u))
  BY <1>2, <1>3, SendPendingAckTold, WakeTold DEF Quiet, Alike
<1> HIDE DEF a, b
<1>5. Alike(c, a) /\ Alike(c, b) /\ Alike(c, Wake(u))
  BY <1>2, <1>3, <1>4, AlikeOn
<1> QED BY <1>1, <1>2, <1>5 DEF Connected

LEMMA AgreedShape ==
  ASSUME NEW c, NEW v, Agreed(c, v)
  PROVE  Shaped(c) /\ c.status \in Status /\ (c.status \in Connected => SeenUp(c, v))
BY DEF Agreed

LEMMA DownAgreed ==
  ASSUME NEW c, Shaped(c), NEW v, c.status \in {"S_down", "S_await_down"}
  PROVE  Agreed(c, v)
BY DEF Agreed, Connected, Status

(* The three outcomes of Xestablish. *)
LEMMA GiveUpTold ==
  ASSUME NEW c, Shaped(c)
  PROVE  Shaped(GiveUp(c)) /\ GiveUp(c).status = "S_down"
<1> DEFINE d == SetState(c, "S_down")
           e == Tell(d, "ERR_G")
           f == Tell(e, "DL_RELEASE_IND")
<1>1. "ERR_G" \in Indications /\ "DL_RELEASE_IND" \in Indications
  BY DEF Indications
<1>2. Shaped(d) /\ d.status = "S_down"
  BY SetStateTold
<1> HIDE DEF d
<1>3. Shaped(e) /\ e.status = "S_down"
  BY <1>1, <1>2, TellTold
<1> HIDE DEF e
<1>4. Shaped(f) /\ f.status = "S_down"
  BY <1>1, <1>3, TellTold
<1>5. GiveUp(c) = [f EXCEPT !.ret = "ETIMEDOUT"]
  BY DEF GiveUp, d, e
<1> HIDE DEF f
<1> QED BY <1>4, <1>5 DEF Shaped

LEMMA EstablishTold ==
  ASSUME NEW c, Shaped(c)
  PROVE  /\ Shaped(Establish(c))
         /\ \/ Establish(c).status = "S_down"
            \/ /\ Establish(c).status \in {c.status, "S_await_up"}
               /\ Establish(c).told = c.told
<1> DEFINE a == ClrExcept(c)
           b == SetState(a, "S_await_up")
           d == [b EXCEPT !.RC = 0]
           e == [d EXCEPT !.errors = @ + ErrStep]
           x == Xmit(e, Unnumbered("SABM", TRUE, TRUE))
           y == [c EXCEPT !.ret = "ENXIO"]
<1>1. Establish(c) = y \/ Establish(c) = GiveUp(d) \/ Establish(c) = T3Over(x)
  BY DEF Establish
<1>2. Shaped(y) /\ y.status = c.status /\ y.told = c.told
  BY DEF Shaped
<1> HIDE DEF y
<1>3. Shaped(a) /\ a.told = c.told
  BY DEF ClrExcept, Shaped
<1> HIDE DEF a
<1>4. Shaped(b) /\ b.told = c.told /\ b.status = "S_await_up"
  BY <1>3, SetStateTold
<1> HIDE DEF b
<1>5. Shaped(d) /\ d.told = c.told /\ d.status = "S_await_up"
  BY <1>4 DEF Shaped
<1>6. Shaped(GiveUp(d)) /\ GiveUp(d).status = "S_down"
  BY <1>5, GiveUpTold
<1>7. Shaped(e) /\ e.told = c.told /\ e.status = "S_await_up"
  BY <1>5 DEF Shaped
<1> HIDE DEF d, e
<1>8. Shaped(x) /\ x.told = c.told /\ x.status = "S_await_up"
  BY <1>7 DEF Shaped, Xmit
<1> HIDE DEF x
<1>9. Shaped(T3Over(x)) /\ T3Over(x).told = c.told /\ T3Over(x).status = "S_await_up"
  BY <1>8 DEF Shaped, T3Over
<1> QED BY <1>1, <1>2, <1>6, <1>9

(* A connection that is set up again without being asked for stays up for  *)
(* the upper layer.                                                        *)
LEMMA ReestablishTold ==
  ASSUME NEW c, NEW v, Agreed(c, v), c.status \in Connected
  PROVE  Agreed(Reestablish(c), v)
<1> DEFINE d == Establish(c)
           e == [d EXCEPT !.L3_req = FALSE]
<1>1. /\ Shaped(d)
      /\ d.status = "S_down" \/ (d.status \in {c.status, "S_await_up"} /\ d.told = c.told)
  BY AgreedShape, EstablishTold
<1> HIDE DEF d
<1>2. Shaped(e) /\ e.status = d.status /\ e.told = d.told
  BY <1>1 DEF Shaped
<1>3. Reestablish(c) = e
  BY DEF Reestablish, d
<1> HIDE DEF e
<1>4. CASE d.status = "S_down"
  BY <1>2, <1>3, <1>4, DownAgreed
<1>5. CASE d.status \in {c.status, "S_await_up"} /\ d.told = c.told
  <2>1. SeenUp(e, v) /\ e.status \in Status
    BY <1>2, <1>5, AgreedShape DEF SeenUp, Status
  <2> QED BY <1>2, <1>3, <2>1, SeenAgreed
<1> QED BY <1>1, <1>4, <1>5

LEMMA ErrorTold ==
  ASSUME NEW c, Shaped(c),
         NEW e \in {"ERR_A", "ERR_B", "ERR_CD", "ERR_D", "ERR_E", "ERR_F", "ERR_I", "ERR_J",
                    "ERR_L", "ERR_N", "PH_ACTIVATE_IND", "PH_ACTIVATE_CONF"}
  PROVE  Quiet(c, Tell(c, e))
<1>1. e \in Indications /\ e \notin UpInds \cup DownInds
  BY DEF Indications, UpInds, DownInds
<1> QED BY <1>1, TellTold

LEMMA RecoverNRTold ==
  ASSUME NEW c, NEW v, Agreed(c, v), c.status \in Connected
  PROVE  Agreed(RecoverNR(c), v)
<1>1. Quiet(c, Tell(c, "ERR_J"))
  BY AgreedShape, ErrorTold
<1>2. Agreed(Tell(c, "ERR_J"), v) /\ Tell(c, "ERR_J").status \in Connected
  BY <1>1, QuietAgreed DEF Quiet, Alike
<1> QED BY <1>2, ReestablishTold DEF RecoverNR

(* Whoever ends in S_down owes the upper layer no "up". *)
LEMMA DownTold ==
  ASSUME NEW c, Shaped(c), NEW i \in Indications, NEW j \in Indications, NEW v
  PROVE  Agreed(SetState(Tell(Tell(c, i), j), "S_down"), v)
<1> DEFINE d == Tell(c, i)
           e == Tell(d, j)
<1>1. Shaped(d)
  BY TellTold
<1> HIDE DEF d
<1>2. Shaped(e)
  BY <1>1, TellTold
<1> HIDE DEF e
<1>3. Agreed(SetState(e, "S_down"), v)
  BY <1>2, SetStateTold, DownAgreed
<1> QED BY <1>3 DEF d, e

LEMMA AwaitUpTimeoutTold ==
  ASSUME NEW c, NEW v, Agreed(c, v)
  PROVE  Agreed(AwaitUpTimeout(c), v)
<1> DEFINE a == [c EXCEPT !.RC = 1]
           d == Xmit(c, Unnumbered("SABM", TRUE, TRUE))
           e == [d EXCEPT !.RC = IF d.ret = "EAGAIN" THEN @ ELSE @ + 1]
           f == FlushI(c)
           g == SetState(Tell(Tell(f, "ERR_G"), "DL_RELEASE_IND"), "S_down")
<1>1. AwaitUpTimeout(c) = IF c.RC = 0 THEN StartT1(a) ELSE IF c.RC < N1 THEN StartT1(e) ELSE g
  BY DEF AwaitUpTimeout
<1>2. Shaped(c)
  BY DEF Agreed
<1>3. Quiet(c, a) /\ Shaped(a)
  BY <1>2, FieldsTold, QuietShaped
<1> HIDE DEF a
<1>4. Quiet(a, StartT1(a))
  BY <1>3, TimersTold
<1>5. Quiet(c, d) /\ Shaped(d)
  BY <1>2, XmitTold, TameOK, QuietShaped DEF Unnumbered
<1> HIDE DEF d
<1>6. Quiet(d, e) /\ Shaped(e)
  BY <1>5 DEF Quiet, Alike, Shaped
<1> HIDE DEF e
<1>7. Quiet(e, StartT1(e))
  BY <1>6, TimersTold
<1>8. Agreed(StartT1(a), v)
  BY <1>3, <1>4, QuietAgreed
<1>9. Agreed(StartT1(e), v)
  BY <1>5, <1>6, <1>7, QuietAgreed
<1>10. Agreed(g, v)
  <2>1. "ERR_G" \in Indications /\ "DL_RELEASE_IND" \in Indications
    BY DEF Indications
  <2>2. Shaped(f)
    BY <1>2, FieldsTold DEF Quiet, Alike
  <2> HIDE DEF f
  <2> QED BY <2>1, <2>2, DownTold
<1> HIDE DEF g
<1> QED BY <1>1, <1>8, <1>9, <1>10

LEMMA AwaitDownTimeoutTold ==
  ASSUME NEW c, NEW v, Agreed(c, v)
  PROVE  Agreed(AwaitDownTimeout(c), v)
<1> DEFINE a == [c EXCEPT !.RC = @ + 1]
           d == Xmit(a, Unnumbered("DISC", TRUE, TRUE))
           g == SetState(Tell(Tell(c, "ERR_H"), "DL_RELEASE_CONF"), "S_down")
<1>1. AwaitDownTimeout(c) = IF c.RC < N1 THEN StartT1(d) ELSE g
  BY DEF AwaitDownTimeout
<1>2. Shaped(c)
  BY DEF Agreed
<1>3. Quiet(c, a) /\ Shaped(a)
  BY <1>2 DEF Quiet, Alike, Shaped
<1> HIDE DEF a
<1>4. Quiet(a, d) /\ Shaped(d)
  BY <1>3, XmitTold, TameOK, QuietShaped DEF Unnumbered
<1> HIDE DEF d
<1>5. Quiet(d, StartT1(d))
  BY <1>4, TimersTold
<1>6. Agreed(StartT1(d), v)
  BY <1>3, <1>4, <1>5, QuietAgreed
<1>7. Agreed(g, v)
  <2>1. "ERR_H" \in Indications /\ "DL_RELEASE_CONF" \in Indications
    BY DEF Indications
  <2> QED BY <1>2, <2>1, DownTold
<1> HIDE DEF g
<1> QED BY <1>1, <1>6, <1>7

LEMMA RecoverTimeoutTold ==
  ASSUME NEW c, NEW v, Agreed(c, v), c.status = "S_recover"
  PROVE  Agreed(RecoverTimeout(c), v)
<1> DEFINE q == Enquiry(c)
           d == [q EXCEPT !.RC = @ + 1]
           t == Tell(c, "ERR_I")
<1>1. RecoverTimeout(c) = IF c.RC < N1 THEN d ELSE Reestablish(t)
  BY DEF RecoverTimeout
<1>2. Shaped(c)
  BY DEF Agreed
<1>3. Quiet(c, q) /\ Shaped(q)
  BY <1>2, EnquiryTold DEF Quiet, Alike
<1> HIDE DEF q
<1>4. Quiet(q, d)
  BY <1>3, FieldsTold
<1> HIDE DEF d
<1>5. Agreed(d, v)
  BY <1>3, <1>4, QuietAgreed
<1>6. Quiet(c, t)
  BY <1>2, ErrorTold
<1> HIDE DEF t
<1>7. Agreed(t, v) /\ t.status \in Connected
  BY <1>6, QuietAgreed DEF Quiet, Alike, Connected
<1> QED BY <1>1, <1>5, <1>7, ReestablishTold

(* A connection that only changes its state from connected to connected.   *)
LEMMA StillUp ==
  ASSUME NEW c, NEW v, Agreed(c, v), c.status \in Connected, NEW s \in Status
  PROVE  Agreed(SetState(c, s), v)
<1>1. Shaped(c) /\ SeenUp(c, v)
  BY DEF Agreed
<1>2. Shaped(SetState(c, s)) /\ SetState(c, s).told = c.told /\ SetState(c, s).status = s
  BY <1>1, SetStateTold
<1>3. SeenUp(SetState(c, s), v)
  BY <1>1, <1>2 DEF SeenUp
<1> QED BY <1>2, <1>3, SeenAgreed

LEMMA T1HandlerTold ==
  ASSUME NEW c, NEW v, Agreed(c, v)
  PROVE  Agreed(T1Handler(c), v)
<1>1. CASE c.status = "S_await_up"
  BY <1>1, AwaitUpTimeoutTold DEF T1Handler
<1>2. CASE c.status = "S_await_down"
  BY <1>2, AwaitDownTimeoutTold DEF T1Handler
<1>3. CASE c.status = "S_recover"
  BY <1>3, RecoverTimeoutTold DEF T1Handler
<1>4. CASE c.status = "S_down"
  BY <1>4 DEF T1Handler
<1>5. CASE c.status = "S_up"
  <2> DEFINE a == [c EXCEPT !.RC = 1]
             q == Enquiry(a)
  <2>1. T1Handler(c) = SetState(q, "S_recover")
    BY <1>5 DEF T1Handler
  <2>2. Quiet(c, a) /\ Shaped(a)
    BY FieldsTold, QuietShaped, AgreedShape
  <2> HIDE DEF a
  <2>3. Quiet(a, q)
    BY <2>2, EnquiryTold
  <2> HIDE DEF q
  <2>4. Agreed(q, v)
    BY <2>2, <2>3, QuietAgreed
  <2>5. q.status \in Connected
    BY <1>5, <2>2, <2>3 DEF Quiet, Alike, Connected
  <2> QED BY <2>1, <2>4, <2>5, StillUp DEF Status
<1> QED BY <1>1, <1>2, <1>3, <1>4, <1>5, AgreedShape DEF Status

LEMMA CheckPendingAgreed ==
  ASSUME NEW c, NEW v, Agreed(c, v)
  PROVE  Agreed(CheckPending(c), v)
BY CheckPendingTold, AlikeAgreed, AgreedShape

LEMMA T1ExpiresTold ==
  ASSUME NEW c, NEW v, Agreed(c, v)
  PROVE  Agreed(T1Expires(c), v)
<1> DEFINE s == StopT1(c)
<1>1. Quiet(c, s)
  BY AgreedShape, TimersTold
<1> HIDE DEF s
<1>2. Agreed(s, v)
  BY <1>1, QuietAgreed
<1> QED BY <1>2, T1HandlerTold, CheckPendingAgreed DEF T1Expires, s

LEMMA T3ExpiresTold ==
  ASSUME NEW c, NEW v, Agreed(c, v)
  PROVE  Agreed(T3Expires(c), v)
<1> DEFINE d == [c EXCEPT !.T3 = FALSE]
           s == SetState(d, "S_recover")
           q == Enquiry(s)
           e == [q EXCEPT !.RC = 0]
<1>1. T3Expires(c) = IF c.status = "S_up" THEN e ELSE d
  BY DEF T3Expires
<1>2. Quiet(c, d)
  BY AgreedShape DEF Quiet, Alike, Shaped
<1> HIDE DEF d
<1>3. Agreed(d, v) /\ d.status = c.status
  BY <1>2, QuietAgreed DEF Quiet, Alike
<1>4. CASE c.status = "S_up"
  <2>1. Agreed(s, v)
    BY <1>3, <1>4, StillUp DEF Connected, Status
  <2> HIDE DEF s
  <2>2. Quiet(s, q) /\ Shaped(q)
    BY <2>1, AgreedShape, EnquiryTold DEF Quiet, Alike
  <2> HIDE DEF q
  <2>3. Quiet(q, e)
    BY <2>2, FieldsTold
  <2> HIDE DEF e
  <2> QED BY <1>1, <1>4, <2>1, <2>2, <2>3, QuietAgreed
<1>5. CASE c.status # "S_up"
  BY <1>1, <1>3, <1>5
<1> QED BY <1>4, <1>5

LEMMA CheckPendingFromLowTold ==
  ASSUME NEW c, NEW v, Agreed(c, v)
  PROVE  Agreed(CheckPendingFromLow(c), v)
<1> DEFINE u == SendUI(c)
           d == T1Expires(u)
<1>1. CheckPendingFromLow(c) =
        IF c.status = "S_await_up" /\ ~UIFails(c)
          THEN IF UIReady(c) > 0 THEN Wake(d) ELSE d
          ELSE CheckPending(c)
  BY DEF CheckPendingFromLow
<1>2. Alike(c, u)
  BY AgreedShape, SendUITold
<1> HIDE DEF u
<1>3. Agreed(u, v)
  BY <1>2, AlikeAgreed
<1>4. Agreed(d, v)
  BY <1>3, T1ExpiresTold
<1> HIDE DEF d
<1>5. Agreed(Wake(d), v)
  BY <1>4, WakeTold, QuietAgreed, AgreedShape
<1>6. Agreed(CheckPending(c), v)
  BY CheckPendingAgreed
<1> QED BY <1>1, <1>4, <1>5, <1>6

(* Frames of the peer. *)
LEMMA PullUpTold ==
  ASSUME NEW c, Shaped(c), NEW nr
  PROVE  Quiet(c, PullUp(c, nr))
<1> DEFINE m == Least(Dist(c.v_a, nr), Least(Outstanding(c), Len(c.I)))
           i == Drop(c.I, m)
           a == Wrap(c.v_a + m)
           r == IF c.errors > m THEN c.errors - m ELSE 0
           d == [c EXCEPT !.I = i, !.v_a = a, !.errors = r]
<1>1. PullUp(c, nr) = d \/ PullUp(c, nr) = Wake(d)
  BY DEF PullUp
<1> HIDE DEF i, a, r, m
<1>2. Quiet(c, d) /\ Shaped(d)
  BY DEF Quiet, Alike, Shaped
<1> HIDE DEF d
<1>3. Quiet(d, Wake(d))
  BY <1>2, WakeTold
<1> QED BY <1>1, <1>2, <1>3, QuietOn

LEMMA AckUpTold ==
  ASSUME NEW c, NEW v, Agreed(c, v), c.status \in Connected, NEW nr
  PROVE  Agreed(AckUp(c, nr), v)
<1> DEFINE p == PullUp(c, nr)
<1>1. \/ AckUp(c, nr) = RecoverNR(c) \/ AckUp(c, nr) = p \/ AckUp(c, nr) = T1Over(p)
      \/ AckUp(c, nr) = c \/ AckUp(c, nr) = StartT1(p)
  BY DEF AckUp, CheckV
<1>2. Quiet(c, p) /\ Shaped(p)
  BY AgreedShape, PullUpTold DEF Quiet, Alike
<1> HIDE DEF p
<1>3. Agreed(p, v)
  BY <1>2, QuietAgreed
<1>4. Quiet(p, T1Over(p)) /\ Quiet(p, StartT1(p))
  BY <1>2, TimersTold
<1>5. Agreed(T1Over(p), v) /\ Agreed(StartT1(p), v)
  BY <1>3, <1>4, QuietAgreed
<1>6. Agreed(RecoverNR(c), v)
  BY RecoverNRTold
<1> QED BY <1>1, <1>3, <1>5, <1>6

LEMMA TakeITold ==
  ASSUME NEW c, Shaped(c), NEW f
  PROVE  Quiet(c, TakeI(c, f))
<1> DEFINE d == [c EXCEPT !.up = Append(@, <<0, f.body>>), !.space = @ - 1,
                          !.v_r = Wrap(@ + 1), !.inREJ = FALSE,
                          !.errors = IF @ > 0 THEN @ - 1 ELSE 0]
           e == [d EXCEPT !.ack_pend = TRUE]
           s == SendAck(d, "RR", FALSE, TRUE)
<1>1. TakeI(c, f) = s \/ TakeI(c, f) = e
  BY DEF TakeI
<1>2. Quiet(c, d) /\ Shaped(d)
  BY DEF Quiet, Alike, Shaped
<1> HIDE DEF d
<1>3. Quiet(d, s)
  BY <1>2, SendAckTold
<1>4. Quiet(d, e)
  BY <1>2, FieldsTold
<1> HIDE DEF s, e
<1> QED BY <1>1, <1>2, <1>3, <1>4, QuietOn

LEMMA ResyncTold ==
  ASSUME NEW c, Shaped(c), NEW f
  PROVE  Quiet(c, Resync(c, f))
<1> DEFINE d == [c EXCEPT !.inREJ = TRUE]
           s == SendAck(d, "REJ", FALSE, f.pf)
           r == SendAck(c, "RR", FALSE, TRUE)
<1>1. Resync(c, f) = s \/ Resync(c, f) = r \/ Resync(c, f) = c
  BY DEF Resync
<1>2. Quiet(c, d) /\ Shaped(d)
  BY FieldsTold DEF Quiet, Alike
<1> HIDE DEF d
<1>3. Quiet(d, s) /\ Quiet(c, r) /\ Quiet(c, c)
  BY <1>2, SendAckTold, QuietItself
<1> HIDE DEF s, r
<1> QED BY <1>1, <1>2, <1>3, QuietOn

LEMMA DropITold ==
  ASSUME NEW c, Shaped(c), NEW f
  PROVE  Quiet(c, DropI(c, f))
BY SendAckTold, QuietItself DEF DropI

LEMMA SendFRMRTold ==
  ASSUME NEW c, Shaped(c), NEW pf
  PROVE  Quiet(c, SendFRMR(c, pf))
BY XmitTold, TameOK DEF SendFRMR, Unnumbered

LEMMA RecvITold ==
  ASSUME NEW c, NEW v, Agreed(c, v), NEW f
  PROVE  Agreed(RecvI(c, f), v)
<1> DEFINE e == IF f.body = None THEN SendFRMR(c, f.pf) ELSE c
           d == [e EXCEPT !.sentRR = CanRecv(e)]
           inSeq == f.body # None /\ f.ns = c.v_r
           g == CASE ~d.sentRR -> DropI(d, f)
                  [] d.sentRR /\ ~inSeq -> Resync(d, f)
                  [] d.sentRR /\ inSeq -> IF c.recvok THEN TakeI(d, f) ELSE DropI(d, f)
<1>1. RecvI(c, f) = IF c.status # "S_up" THEN e ELSE AckUp(g, f.nr)
  BY DEF RecvI
<1>2. Quiet(c, e)
  BY AgreedShape, SendFRMRTold, QuietItself
<1> HIDE DEF e
<1>3. Shaped(e) /\ Agreed(e, v)
  BY <1>2, QuietAgreed DEF Quiet, Alike
<1>4. Quiet(e, d) /\ Shaped(d)
  BY <1>3, FieldsTold DEF Quiet, Alike
<1>5. d = [e EXCEPT !.sentRR = CanRecv(e)]
  OBVIOUS
<1>6. d.sentRR \in BOOLEAN
  BY <1>3 DEF CanRecv, Shaped
<1>7. g = DropI(d, f) \/ g = Resync(d, f) \/ g = TakeI(d, f)
  BY <1>6
<1> HIDE DEF g, d
<1>8. Quiet(d, g)
  BY <1>4, <1>7, DropITold, ResyncTold, TakeITold
<1>9. Quiet(e, g)
  BY <1>4, <1>8, QuietOn
<1>10. Agreed(g, v) /\ g.status = c.status
  BY <1>2, <1>3, <1>9, QuietAgreed DEF Quiet, Alike
<1>11. CASE c.status = "S_up"
  BY <1>1, <1>10, <1>11, AckUpTold DEF Connected
<1>12. CASE c.status # "S_up"
  BY <1>1, <1>3, <1>12
<1> QED BY <1>11, <1>12

LEMMA AnswerPollTold ==
  ASSUME NEW c, Shaped(c), NEW f
  PROVE  Quiet(c, AnswerPoll(c, f))
<1>1. Quiet(c, EnqResp(c)) /\ Quiet(c, Tell(c, "ERR_A")) /\ Quiet(c, c)
  BY EnquiryTold, ErrorTold, QuietItself
<1> QED BY <1>1 DEF AnswerPoll

LEMMA RecvSRecoverTold ==
  ASSUME NEW c, NEW v, Agreed(c, v), c.status \in Connected, NEW f
  PROVE  Agreed(RecvSRecover(c, f), v)
<1> DEFINE d == IF f.cmd /\ f.pf THEN EnqResp(c) ELSE c
           p == PullUp(d, f.nr)
           t == T1Over(p)
           r == Retransmit(t)
<1>1. \/ RecvSRecover(c, f) = RecoverNR(d) \/ RecvSRecover(c, f) = p
      \/ RecvSRecover(c, f) = SetState(r, "S_up")
  BY DEF RecvSRecover
<1>2. Quiet(c, d) /\ Shaped(d)
  BY AgreedShape, EnquiryTold, QuietItself DEF Quiet, Alike
<1> HIDE DEF d
<1>3. Quiet(d, p) /\ Shaped(p)
  BY <1>2, PullUpTold DEF Quiet, Alike
<1> HIDE DEF p
<1>4. Quiet(p, t) /\ Shaped(t)
  BY <1>3, TimersTold DEF Quiet, Alike
<1> HIDE DEF t
<1>5. Quiet(t, r)
  BY <1>4, FieldsTold
<1> HIDE DEF r
<1>6. Agreed(d, v) /\ d.status \in Connected
  BY <1>2, QuietAgreed DEF Quiet, Alike
<1>7. Agreed(p, v) /\ p.status \in Connected
  BY <1>3, <1>6, QuietAgreed DEF Quiet, Alike
<1>8. Agreed(r, v) /\ r.status \in Connected
  <2>1. Agreed(t, v) /\ t.status \in Connected
    BY <1>4, <1>7, QuietAgreed DEF Quiet, Alike
  <2> QED BY <1>5, <2>1, QuietAgreed DEF Quiet, Alike
<1>9. Agreed(RecoverNR(d), v)
  BY <1>6, RecoverNRTold
<1>10. Agreed(SetState(r, "S_up"), v)
  BY <1>8, StillUp DEF Status
<1> QED BY <1>1, <1>7, <1>9, <1>10

(* RR, RNR and REJ differ in two flags and in what becomes of the frames   *)
(* that are acknowledged. *)
LEMMA RecvSCasesTold ==
  ASSUME NEW c, NEW v, Agreed(c, v), NEW f \in Frame, NEW tp \in BOOLEAN,
         NEW rnr \in BOOLEAN
  PROVE  LET d == [c EXCEPT !.trypoll = tp]
             e == [AnswerPoll(d, f) EXCEPT !.RNR = rnr]
             s == [d EXCEPT !.RNR = rnr]
         IN  /\ Agreed(d, v)
             /\ Agreed(e, v) /\ e.status = c.status
             /\ c.status \in Connected => Agreed(RecvSRecover(s, f), v)
<1> DEFINE d == [c EXCEPT !.trypoll = tp]
           a == AnswerPoll(d, f)
           e == [a EXCEPT !.RNR = rnr]
           s == [d EXCEPT !.RNR = rnr]
<1>1. Quiet(c, d) /\ Shaped(d)
  BY AgreedShape, FieldsTold DEF Quiet, Alike
<1>2. Agreed(d, v) /\ d.status = c.status
  BY <1>1, QuietAgreed DEF Quiet, Alike
<1> HIDE DEF d
<1>3. Quiet(d, a) /\ Shaped(a)
  BY <1>1, AnswerPollTold DEF Quiet, Alike
<1> HIDE DEF a
<1>4. Quiet(a, e) /\ Quiet(d, s)
  BY <1>1, <1>3, FieldsTold
<1> HIDE DEF e, s
<1>5. Agreed(a, v) /\ a.status = c.status
  BY <1>2, <1>3, QuietAgreed DEF Quiet, Alike
<1>6. Agreed(e, v) /\ e.status = c.status
  BY <1>4, <1>5, QuietAgreed DEF Quiet, Alike
<1>7. Agreed(s, v) /\ s.status = c.status
  BY <1>2, <1>4, QuietAgreed DEF Quiet, Alike
<1>8. c.status \in Connected => Agreed(RecvSRecover(s, f), v)
  BY <1>7, RecvSRecoverTold
<1> QED BY <1>2, <1>6, <1>8 DEF d, a, e, s

LEMMA AcknowledgedTold ==
  ASSUME NEW c, NEW v, Agreed(c, v), c.status \in Connected, NEW nr
  PROVE  Agreed(T1Over(PullUp(c, nr)), v) /\ Agreed(Retransmit(T1Over(PullUp(c, nr))), v)
<1> DEFINE p == PullUp(c, nr)
           t == T1Over(p)
<1>1. Quiet(c, p) /\ Shaped(p)
  BY AgreedShape, PullUpTold DEF Quiet, Alike
<1> HIDE DEF p
<1>2. Quiet(p, t) /\ Shaped(t)
  BY <1>1, TimersTold DEF Quiet, Alike
<1> HIDE DEF t
<1>3. Quiet(t, Retransmit(t))
  BY <1>2, FieldsTold
<1>4. Agreed(t, v)
  BY <1>1, <1>2, QuietAgreed
<1>5. Agreed(Retransmit(t), v)
  BY <1>3, <1>4, QuietAgreed
<1> QED BY <1>4, <1>5 DEF t, p

LEMMA RecvSTold ==
  ASSUME NEW c, NEW v, Agreed(c, v), NEW f \in Frame
  PROVE  Agreed(RecvRR(c, f), v) /\ Agreed(RecvRNR(c, f), v) /\ Agreed(RecvREJ(c, f), v)
<1>1. Agreed(RecvRR(c, f), v)
  <2> DEFINE d == [c EXCEPT !.trypoll = FALSE]
             e == [AnswerPoll(d, f) EXCEPT !.RNR = FALSE]
             s == [d EXCEPT !.RNR = FALSE]
  <2>1. RecvRR(c, f) = CASE c.status = "S_up" -> AckUp(e, f.nr)
                         [] c.status = "S_recover" -> RecvSRecover(s, f)
                         [] c.status \notin Connected -> d
    BY DEF RecvRR
  <2>2. /\ Agreed(d, v) /\ Agreed(e, v) /\ e.status = c.status
        /\ c.status \in Connected => Agreed(RecvSRecover(s, f), v)
    BY RecvSCasesTold
  <2> HIDE DEF d, e, s
  <2>3. c.status = "S_up" => Agreed(AckUp(e, f.nr), v)
    BY <2>2, AckUpTold DEF Connected
  <2> QED BY <2>1, <2>2, <2>3 DEF Connected
<1>2. Agreed(RecvRNR(c, f), v)
  <2> DEFINE tp == ~f.pf
             d == [c EXCEPT !.trypoll = tp]
             e == [AnswerPoll(d, f) EXCEPT !.RNR = TRUE]
             s == [d EXCEPT !.RNR = TRUE]
             p == T1Over(PullUp(e, f.nr))
  <2>1. RecvRNR(c, f) = CASE c.status = "S_up" -> IF CheckV(e, f.nr) THEN p ELSE RecoverNR(e)
                          [] c.status = "S_recover" -> RecvSRecover(s, f)
                          [] c.status \notin Connected -> d
    BY DEF RecvRNR
  <2>4. tp \in BOOLEAN
    OBVIOUS
  <2> HIDE DEF tp
  <2>2. /\ Agreed(d, v) /\ Agreed(e, v) /\ e.status = c.status
        /\ c.status \in Connected => Agreed(RecvSRecover(s, f), v)
    BY <2>4, RecvSCasesTold
  <2> HIDE DEF d, e, s
  <2>3. c.status = "S_up" => Agreed(p, v) /\ Agreed(RecoverNR(e), v)
    BY <2>2, AcknowledgedTold, RecoverNRTold DEF Connected
  <2> HIDE DEF p
  <2> QED BY <2>1, <2>2, <2>3 DEF Connected
<1>3. Agreed(RecvREJ(c, f), v)
  <2> DEFINE d == [c EXCEPT !.trypoll = FALSE]
             e == [AnswerPoll(d, f) EXCEPT !.RNR = FALSE]
             s == [d EXCEPT !.RNR = FALSE]
             r == Retransmit(T1Over(PullUp(e, f.nr)))
  <2>1. RecvREJ(c, f) = CASE c.status = "S_up" -> IF CheckV(e, f.nr) THEN r ELSE RecoverNR(e)
                          [] c.status = "S_recover" -> RecvSRecover(s, f)
                          [] c.status \notin Connected -> d
    BY DEF RecvREJ
  <2>2. /\ Agreed(d, v) /\ Agreed(e, v) /\ e.status = c.status
        /\ c.status \in Connected => Agreed(RecvSRecover(s, f), v)
    BY RecvSCasesTold
  <2> HIDE DEF d, e, s
  <2>3. c.status = "S_up" => Agreed(r, v) /\ Agreed(RecoverNR(e), v)
    BY <2>2, AcknowledgedTold, RecoverNRTold DEF Connected
  <2> HIDE DEF r
  <2> QED BY <2>1, <2>2, <2>3 DEF Connected
<1> QED BY <1>1, <1>2, <1>3

LEMMA AnswerTold ==
  ASSUME NEW c, Shaped(c), NEW t, NEW f
  PROVE  /\ Alike(c, Answer(c, t, f))
         /\ t = "UA" \/ f.pf = TRUE => Quiet(c, Answer(c, t, f))
BY XmitTold, TameOK DEF Answer, Unnumbered

(* A connection that comes up is told of, or was up already. *)
LEMMA ToldComesUp ==
  ASSUME NEW c, Shaped(c), IsTold(c.told, UpInds), NEW v, NEW s \in Status
  PROVE  Agreed(SetState(T1Over(FlushI(c)), s), v)
<1> DEFINE a == FlushI(c)
           b == T1Over(a)
<1>1. Quiet(c, a) /\ Shaped(a)
  BY FieldsTold DEF Quiet, Alike
<1> HIDE DEF a
<1>2. Quiet(a, b) /\ Shaped(b)
  BY <1>1, TimersTold DEF Quiet, Alike
<1> HIDE DEF b
<1>3. IsTold(b.told, UpInds)
  BY <1>1, <1>2 DEF Quiet, Alike
<1>4. Shaped(SetState(b, s)) /\ SetState(b, s).status = s /\ SetState(b, s).told = b.told
  BY <1>2, SetStateTold
<1>5. SeenUp(SetState(b, s), v)
  BY <1>3, <1>4 DEF SeenUp
<1> QED BY <1>4, <1>5, SeenAgreed DEF a, b

LEMMA RecvSABMTold ==
  ASSUME NEW c, NEW v, Agreed(c, v), NEW f
  PROVE  Agreed(RecvSABM(c, f), v)
<1> DEFINE ua == Answer(c, "UA", f)
           a == ClrExcept(ua)
           b == Tell(a, "DL_ESTABLISH_IND")
<1>1. Shaped(c)
  BY DEF Agreed
<1>2. Quiet(c, ua) /\ Shaped(ua) /\ Alike(c, Answer(c, "DM", f)) /\ Shaped(Answer(c, "DM", f))
  BY <1>1, AnswerTold DEF Quiet, Alike
<1>3. Quiet(ua, a) /\ Shaped(a)
  BY <1>2, FieldsTold DEF Quiet, Alike
<1>4. Quiet(Answer(c, "DM", f), ClrExcept(Answer(c, "DM", f)))
  BY <1>2, FieldsTold
<1>5. "DL_ESTABLISH_IND" \in Indications /\ "DL_ESTABLISH_IND" \in UpInds
  BY DEF Indications, UpInds
<1>6. Agreed(Answer(c, "DM", f), v) /\ Agreed(ClrExcept(Answer(c, "DM", f)), v) /\ Agreed(ua, v)
  BY <1>2, <1>4, AlikeAgreed, QuietAgreed
<1>7. CASE c.status = "S_down"
  <2>1. RecvSABM(c, f) = IF Broadcast THEN ClrExcept(Answer(c, "DM", f))
                         ELSE SetState(T1Over(FlushI(b)), "S_up")
    BY <1>7 DEF RecvSABM, Connected
  <2>2. Shaped(b) /\ IsTold(b.told, UpInds)
    BY <1>3, <1>5, TellTold
  <2> HIDE DEF b
  <2>3. Agreed(SetState(T1Over(FlushI(b)), "S_up"), v)
    BY <2>2, ToldComesUp DEF Status
  <2> QED BY <1>6, <2>1, <2>3
<1>8. CASE c.status = "S_await_up"
  BY <1>6, <1>8 DEF RecvSABM, Connected
<1>9. CASE c.status = "S_await_down"
  BY <1>6, <1>9 DEF RecvSABM, Connected
<1>10. CASE c.status \in Connected
  <2> DEFINE g == Tell(a, "ERR_F")
             d == FlushI(g)
             e == Tell(d, "DL_ESTABLISH_IND")
             x == IF c.v_s # c.v_a THEN e ELSE d
             t == T1Over(x)
  <2>1. RecvSABM(c, f) = SetState(t, "S_up")
    BY <1>10 DEF RecvSABM, Connected
  <2> HIDE DEF a
  <2>2. Quiet(a, g) /\ Shaped(g)
    BY <1>3, ErrorTold DEF Quiet, Alike
  <2> HIDE DEF g
  <2>3. Quiet(g, d) /\ Shaped(d)
    BY <2>2, FieldsTold DEF Quiet, Alike
  <2> HIDE DEF d
  <2>4. Agreed(a, v) /\ a.status = c.status
    BY <1>2, <1>3, QuietAgreed DEF Quiet, Alike
  <2>5. Agreed(g, v) /\ g.status = c.status
    BY <2>2, <2>4, QuietAgreed DEF Quiet, Alike
  <2>6. Agreed(d, v) /\ d.status = c.status
    BY <2>3, <2>5, QuietAgreed DEF Quiet, Alike
  <2>7. Agreed(e, v) /\ e.status = c.status
    <3>1. Shaped(e) /\ e.status = d.status /\ IsTold(e.told, UpInds)
      BY <1>5, <2>3, TellTold
    <3>2. SeenUp(e, v) /\ e.status \in Status
      BY <2>6, <3>1, AgreedShape DEF SeenUp
    <3> QED BY <2>6, <3>1, <3>2, SeenAgreed
  <2> HIDE DEF e
  <2>8. Agreed(x, v) /\ x.status = c.status
    BY <2>6, <2>7
  <2> HIDE DEF x
  <2>9. Quiet(x, t)
    BY <2>8, AgreedShape, TimersTold
  <2> HIDE DEF t
  <2>10. Agreed(t, v) /\ t.status \in Connected
    BY <1>10, <2>8, <2>9, QuietAgreed DEF Quiet, Alike
  <2> QED BY <2>1, <2>10, StillUp DEF Status
<1> QED BY <1>7, <1>8, <1>9, <1>10 DEF Agreed, Status, Connected

LEMMA RecvDISCTold ==
  ASSUME NEW c, NEW v, Agreed(c, v), NEW f
  PROVE  Agreed(RecvDISC(c, f), v)
<1>1. Shaped(c)
  BY DEF Agreed
<1>2. Agreed(Answer(c, "UA", f), v) /\ Agreed(Answer(c, "DM", f), v)
  BY <1>1, AnswerTold, AlikeAgreed
<1>3. CASE c.status \in Connected
  <2> DEFINE a == FlushI(c)
             b == Answer(a, "UA", f)
             d == Tell(b, "DL_RELEASE_IND")
             e == [d EXCEPT !.T1 = FALSE, !.T3 = @ /\ c.status = "S_recover"]
  <2>1. RecvDISC(c, f) = SetState(e, "S_down")
    BY <1>3 DEF RecvDISC, Connected
  <2>2. Shaped(a)
    BY <1>1, FieldsTold DEF Quiet, Alike
  <2> HIDE DEF a
  <2>3. Shaped(b)
    BY <2>2, AnswerTold DEF Quiet, Alike
  <2> HIDE DEF b
  <2>4. Shaped(d)
    BY <2>3, TellTold DEF Indications
  <2> HIDE DEF d
  <2>5. Shaped(e)
    BY <2>4 DEF Shaped
  <2> HIDE DEF e
  <2>6. Shaped(SetState(e, "S_down")) /\ SetState(e, "S_down").status = "S_down"
    BY <2>5, SetStateTold
  <2> QED BY <2>1, <2>6, DownAgreed
<1>4. CASE c.status \in {"S_down", "S_await_down"}
  BY <1>2, <1>4 DEF RecvDISC, Connected
<1>5. CASE c.status = "S_await_up"
  BY <1>2, <1>5 DEF RecvDISC, Connected
<1> QED BY <1>3, <1>4, <1>5 DEF Agreed, Status, Connected

LEMMA ClosedTold ==
  ASSUME NEW c, Shaped(c), NEW i \in Indications, NEW v
  PROVE  Agreed(SetState(StopT1(Tell(c, i)), "S_down"), v)
<1> DEFINE d == Tell(c, i)
           e == StopT1(d)
<1>1. Shaped(d)
  BY TellTold
<1> HIDE DEF d
<1>2. Shaped(e)
  BY <1>1, TimersTold DEF Quiet, Alike
<1> HIDE DEF e
<1>3. Shaped(SetState(e, "S_down")) /\ SetState(e, "S_down").status = "S_down"
  BY <1>2, SetStateTold
<1>4. Agreed(SetState(e, "S_down"), v)
  BY <1>3, DownAgreed
<1> QED BY <1>4 DEF d, e

LEMMA RecvDMTold ==
  ASSUME NEW c, NEW v, Agreed(c, v), NEW f, f.pf
  PROVE  Agreed(RecvDM(c, f), v)
<1>1. Shaped(c)
  BY DEF Agreed
<1>2. CASE c.status = "S_down"
  BY <1>2 DEF RecvDM, Connected
<1>3. CASE c.status = "S_await_up"
  <2>1. Shaped(FlushI(c))
    BY <1>1, FieldsTold DEF Quiet, Alike
  <2>2. Agreed(SetState(StopT1(Tell(FlushI(c), "DL_RELEASE_IND")), "S_down"), v)
    BY <2>1, ClosedTold DEF Indications
  <2> QED BY <1>3, <2>2 DEF RecvDM, Connected
<1>4. CASE c.status = "S_await_down"
  <2>1. Shaped(FlushI(c))
    BY <1>1, FieldsTold DEF Quiet, Alike
  <2>2. Agreed(SetState(StopT1(Tell(FlushI(c), "DL_RELEASE_CONF")), "S_down"), v)
    BY <2>1, ClosedTold DEF Indications
  <2> QED BY <1>4, <2>2 DEF RecvDM, Connected
<1>5. CASE c.status \in Connected
  <2>1. Agreed(Tell(c, "ERR_B"), v)
    BY <1>1, ErrorTold, QuietAgreed
  <2> QED BY <1>5, <2>1 DEF RecvDM, Connected
<1> QED BY <1>2, <1>3, <1>4, <1>5 DEF Agreed, Status, Connected

LEMMA ConnectionUpTold ==
  ASSUME NEW c, NEW v, Agreed(c, v), c.status = "S_await_up", c.L3_req \in BOOLEAN
  PROVE  Agreed(ConnectionUp(c), v)
<1> DEFINE f == FlushI(c)
           d == CASE c.L3_req -> Tell(c, "DL_ESTABLISH_CONF")
                  [] ~c.L3_req /\ c.v_s # c.v_a -> Tell(f, "DL_ESTABLISH_IND")
                  [] ~c.L3_req /\ c.v_s = c.v_a -> c
           s == SetState(d, "S_up")
           t == T1Over(s)
           w == [t EXCEPT !.v_r = 0, !.v_s = 0, !.v_a = 0]
<1>1. ConnectionUp(c) = Wake(w)
  BY DEF ConnectionUp
<1>2. Shaped(c) /\ (~c.L3_req => SeenUp(c, v))
  BY DEF Agreed
<1>3. Shaped(f)
  BY <1>2, FieldsTold DEF Quiet, Alike
<1> HIDE DEF f
<1>4. Shaped(d) /\ SeenUp(d, v)
  <2>1. CASE c.L3_req
    <3>1. "DL_ESTABLISH_CONF" \in Indications /\ "DL_ESTABLISH_CONF" \in UpInds
      BY DEF Indications, UpInds
    <3>2. Shaped(Tell(c, "DL_ESTABLISH_CONF")) /\ IsTold(Tell(c, "DL_ESTABLISH_CONF").told, UpInds)
      BY <1>2, <3>1, TellTold
    <3>3. d = Tell(c, "DL_ESTABLISH_CONF")
      BY <2>1
    <3> HIDE DEF d
    <3> QED BY <3>2, <3>3 DEF SeenUp
  <2>2. CASE ~c.L3_req /\ c.v_s # c.v_a
    <3>1. "DL_ESTABLISH_IND" \in Indications /\ "DL_ESTABLISH_IND" \in UpInds
      BY DEF Indications, UpInds
    <3>2. Shaped(Tell(f, "DL_ESTABLISH_IND")) /\ IsTold(Tell(f, "DL_ESTABLISH_IND").told, UpInds)
      BY <1>3, <3>1, TellTold
    <3>3. d = Tell(f, "DL_ESTABLISH_IND")
      BY <2>2
    <3> HIDE DEF d
    <3> QED BY <3>2, <3>3 DEF SeenUp
  <2>3. CASE ~c.L3_req /\ c.v_s = c.v_a
    <3>1. d = c
      BY <2>3
    <3> HIDE DEF d
    <3> QED BY <1>2, <2>3, <3>1
  <2> HIDE DEF d
  <2> QED BY <2>1, <2>2, <2>3
<1> HIDE DEF d
<1>5. Shaped(s) /\ s.status = "S_up" /\ s.told = d.told
  BY <1>4, SetStateTold
<1> HIDE DEF s
<1>6. SeenUp(s, v)
  BY <1>4, <1>5 DEF SeenUp
<1>7. Agreed(s, v)
  BY <1>5, <1>6, SeenAgreed DEF Status
<1>8. Quiet(s, t) /\ Shaped(t)
  BY <1>5, TimersTold DEF Quiet, Alike
<1> HIDE DEF t
<1>9. Quiet(t, w) /\ Shaped(w)
  BY <1>8 DEF Quiet, Alike, Shaped
<1> HIDE DEF w
<1>10. Quiet(w, Wake(w))
  BY <1>9, WakeTold
<1> QED BY <1>1, <1>7, <1>8, <1>9, <1>10, QuietAgreed

LEMMA RecvUATold ==
  ASSUME NEW c, NEW v, Agreed(c, v), c.L3_req \in BOOLEAN, NEW f, f.pf \in BOOLEAN
  PROVE  Agreed(RecvUA(c, f), v)
<1>1. Shaped(c)
  BY DEF Agreed
<1>2. Agreed(Tell(c, "ERR_D"), v) /\ Agreed(Tell(c, "ERR_CD"), v)
  BY <1>1, ErrorTold, QuietAgreed
<1>3. CASE c.status = "S_await_up" /\ f.pf
  BY <1>3, ConnectionUpTold DEF RecvUA, Connected
<1>4. CASE c.status = "S_await_down" /\ f.pf
  <2>1. Agreed(SetState(StopT1(Tell(c, "DL_RELEASE_CONF")), "S_down"), v)
    BY <1>1, ClosedTold DEF Indications
  <2> QED BY <1>4, <2>1 DEF RecvUA, Connected
<1>5. CASE c.status \in {"S_await_up", "S_await_down"} /\ ~f.pf
  <2>1. RecvUA(c, f) = Tell(c, "ERR_D")
    BY <1>5 DEF RecvUA, Connected
  <2> QED BY <1>2, <2>1
<1>6. CASE c.status \in Connected \cup {"S_down"}
  <2>1. RecvUA(c, f) = Tell(c, "ERR_CD")
    BY <1>6 DEF RecvUA, Connected
  <2> QED BY <1>2, <2>1
<1> QED BY <1>3, <1>4, <1>5, <1>6 DEF Agreed, Status, Connected

LEMMA RecvUITold ==
  ASSUME NEW c, NEW v, Agreed(c, v), c.recvok \in BOOLEAN, NEW f
  PROVE  Agreed(RecvUI(c, f), v)
<1> DEFINE d == [c EXCEPT !.up = Append(@, <<IF f.bc THEN 3 ELSE 1, f.body>>),
                          !.space = IF @ > 0 THEN @ - 1 ELSE 0]
<1>1. RecvUI(c, f) = c \/ RecvUI(c, f) = SendFRMR(c, f.pf) \/ RecvUI(c, f) = d
  BY DEF RecvUI
<1>2. Quiet(c, SendFRMR(c, f.pf)) /\ Shaped(c)
  BY AgreedShape, SendFRMRTold
<1>3. Quiet(c, d)
  BY <1>2 DEF Quiet, Alike, Shaped
<1> HIDE DEF d
<1> QED BY <1>1, <1>2, <1>3, QuietAgreed

LEMMA RecvFRMRTold ==
  ASSUME NEW c, NEW v, Agreed(c, v)
  PROVE  Agreed(RecvFRMR(c), v)
<1>1. Quiet(c, Tell(c, "ERR_D"))
  BY AgreedShape, ErrorTold
<1>2. Agreed(Tell(c, "ERR_D"), v) /\ Tell(c, "ERR_D").status = c.status
  BY <1>1, QuietAgreed DEF Quiet, Alike
<1>3. c.status \in Connected => Agreed(Reestablish(Tell(c, "ERR_D")), v)
  BY <1>2, ReestablishTold
<1> QED BY <1>2, <1>3 DEF RecvFRMR

LEMMA RejectTold ==
  ASSUME NEW c, NEW v, Agreed(c, v), NEW f
  PROVE  /\ Agreed(SendFRMR(c, f.pf), v) /\ Agreed(BadU(c, f), v)
         /\ Agreed(UnknownU(c, f), v) /\ Agreed(RecvSX(c, f), v)
<1>1. Quiet(c, SendFRMR(c, f.pf)) /\ Shaped(SendFRMR(c, f.pf))
  BY AgreedShape, SendFRMRTold DEF Quiet, Alike
<1>2. Agreed(SendFRMR(c, f.pf), v)
  BY <1>1, QuietAgreed
<1>3. Quiet(SendFRMR(c, f.pf), Tell(SendFRMR(c, f.pf), "ERR_N"))
      /\ Quiet(SendFRMR(c, f.pf), Tell(SendFRMR(c, f.pf), "ERR_L"))
  BY <1>1, ErrorTold
<1> QED BY <1>2, <1>3, QuietAgreed DEF BadU, UnknownU, RecvSX

LEMMA RecvUTold ==
  ASSUME NEW c, NEW v, Agreed(c, v), c.L3_req \in BOOLEAN, c.recvok \in BOOLEAN,
         NEW f \in Frame, f.t \in UCodes, f.t = "DM" => f.pf
  PROVE  Agreed(RecvU(c, f), v)
<1>1. Agreed(SendFRMR(c, f.pf), v) /\ Agreed(BadU(c, f), v) /\ Agreed(UnknownU(c, f), v)
  BY RejectTold
<1>2. f.pf \in BOOLEAN
  BY DEF Frame
<1>3. Agreed(RecvUI(c, f), v) /\ Agreed(RecvFRMR(c), v) /\ Agreed(RecvSABM(c, f), v)
      /\ Agreed(RecvDISC(c, f), v) /\ Agreed(RecvUA(c, f), v)
  BY <1>2, RecvUITold, RecvFRMRTold, RecvSABMTold, RecvDISCTold, RecvUATold
<1>4. f.t = "DM" => Agreed(RecvDM(c, f), v)
  BY RecvDMTold
<1>5. CASE ~KnownU(f)
  BY <1>1, <1>5 DEF RecvU
<1>6. CASE KnownU(f) /\ f.t \in {"UI", "XID", "FRMR"}
  BY <1>3, <1>6 DEF RecvU
<1>7. CASE KnownU(f) /\ f.t \in {"SABM", "SABMX", "DISC", "DM", "UA"} /\ f.body # None
  <2>1. RecvU(c, f) = BadU(c, f)
    BY <1>7 DEF RecvU
  <2> QED BY <1>1, <2>1
<1>8. CASE KnownU(f) /\ f.t \in {"SABM", "SABMX", "DISC", "DM", "UA"} /\ f.body = None
  <2>1. \/ RecvU(c, f) = SendFRMR(c, f.pf) \/ RecvU(c, f) = RecvSABM(c, f)
        \/ RecvU(c, f) = RecvDISC(c, f) \/ RecvU(c, f) = RecvUA(c, f)
        \/ f.t = "DM" /\ RecvU(c, f) = RecvDM(c, f)
    BY <1>8 DEF RecvU
  <2> QED BY <1>1, <1>3, <1>4, <2>1
<1>9. KnownU(f) => f.t \in {"UI", "XID", "FRMR", "SABM", "SABMX", "DISC", "DM", "UA"}
  BY DEF KnownU
<1> HIDE DEF KnownU
<1> QED BY <1>5, <1>6, <1>7, <1>8, <1>9

LEMMA RecvTold ==
  ASSUME NEW c, NEW v, Agreed(c, v), c.L3_req \in BOOLEAN, c.recvok \in BOOLEAN,
         NEW f \in Frame, f.t = "DM" => f.pf
  PROVE  Agreed(Recv(c, f), v)
<1>1. Agreed(SendFRMR(c, f.pf), v) /\ Agreed(RecvSX(c, f), v)
  BY RejectTold
<1>2. CASE Ignored(f)
  BY <1>2 DEF Recv
<1>3. CASE ~Ignored(f) /\ Malformed(f)
  BY <1>1, <1>3 DEF Recv
<1>4. CASE ~Ignored(f) /\ ~Malformed(f)
  <2>1. f.t \in {"I"} \cup SCodes \cup UCodes
    BY <1>4 DEF Frame, Malformed
  <2>2. Agreed(RecvI(c, f), v)
    BY RecvITold
  <2>3. Agreed(RecvRR(c, f), v) /\ Agreed(RecvRNR(c, f), v) /\ Agreed(RecvREJ(c, f), v)
    BY RecvSTold
  <2>4. f.t \in UCodes => Agreed(RecvU(c, f), v)
    BY RecvUTold
  <2>5. Agreed(Dispatch(c, f), v)
    <3>1. CASE f.t \in {"I"} \cup SCodes
      <4>1. \/ Dispatch(c, f) = RecvI(c, f) \/ Dispatch(c, f) = RecvRR(c, f)
            \/ Dispatch(c, f) = RecvRNR(c, f) \/ Dispatch(c, f) = RecvREJ(c, f)
            \/ Dispatch(c, f) = RecvSX(c, f)
        BY <3>1 DEF Dispatch, SCodes, UCodes
      <4> QED BY <1>1, <2>2, <2>3, <4>1
    <3>2. CASE f.t \in UCodes
      <4>1. Dispatch(c, f) = RecvU(c, f)
        BY <3>2 DEF Dispatch, UCodes
      <4> QED BY <2>4, <3>2, <4>1
    <3>3. f.t \in {"I"} \cup SCodes \/ f.t \in UCodes
      BY <2>1
    <3> QED BY <3>1, <3>2, <3>3
  <2>6. Agreed(CheckPending(Dispatch(c, f)), v)
    BY <2>5, CheckPendingAgreed
  <2> QED BY <1>4, <2>6 DEF Recv
<1> QED BY <1>2, <1>3, <1>4

-----------------------------------------------------------------------------
(* Calls of the upper and lower layer. *)
LEMMA SendTold ==
  ASSUME NEW c, NEW v, Agreed(c, v), NEW kind \in Kinds, NEW d
  PROVE  Agreed(Send(c, kind, d), v)
<1> DEFINE q == [c EXCEPT !.asBroadcast = kind = 3]
           i == [q EXCEPT !.I = Append(@, d)]
           u == [q EXCEPT !.UI = Append(@, d)]
           x == [c EXCEPT !.ret = "ENXIO"]
<1>1. \/ Send(c, kind, d) = x \/ Send(c, kind, d) = CheckPending(q)
      \/ Send(c, kind, d) = CheckPending(i) \/ Send(c, kind, d) = CheckPending(u)
  BY DEF Send
<1>2. Shaped(c)
  BY DEF Agreed
<1>3. Quiet(c, x)
  BY <1>2, FieldsTold
<1> HIDE DEF x
<1>4. Quiet(c, q)
  BY <1>2 DEF Quiet, Alike, Shaped
<1> HIDE DEF q
<1>5. Quiet(q, i) /\ Quiet(q, u)
  BY <1>4 DEF Quiet, Alike, Shaped
<1> HIDE DEF i, u
<1>6. Agreed(x, v) /\ Agreed(q, v)
  BY <1>3, <1>4, QuietAgreed
<1>7. Agreed(i, v) /\ Agreed(u, v)
  BY <1>5, <1>6, QuietAgreed
<1> QED BY <1>1, <1>6, <1>7, CheckPendingAgreed

LEMMA PendingTold ==
  ASSUME NEW c, NEW v, Agreed(c, v)
  PROVE  Agreed(PendingUnlessFailed(c), v) /\ Agreed(PendingAfterEstablish(c), v)
BY CheckPendingAgreed, CheckPendingFromLowTold DEF PendingUnlessFailed, PendingAfterEstablish

LEMMA ForceEstablishTold ==
  ASSUME NEW c, NEW v, Agreed(c, v)
  PROVE  Agreed(ForceEstablish(c), v)
<1> DEFINE d == [c EXCEPT !.errors = 0, !.T1 = @ /\ c.status = "S_down", !.T3 = TRUE]
           s == SetState(d, "S_up")
           t == Tell(s, "DL_ESTABLISH_CONF")
<1>1. ForceEstablish(c) = IF c.status \in Connected THEN PendingUnlessFailed(c)
                          ELSE PendingUnlessFailed(Wake(t))
  BY DEF ForceEstablish
<1>2. Shaped(c)
  BY DEF Agreed
<1>3. Shaped(d)
  BY <1>2 DEF Shaped
<1> HIDE DEF d
<1>4. Shaped(s) /\ s.status = "S_up"
  BY <1>3, SetStateTold
<1> HIDE DEF s
<1>5. "DL_ESTABLISH_CONF" \in Indications /\ "DL_ESTABLISH_CONF" \in UpInds
  BY DEF Indications, UpInds
<1>6. Shaped(t) /\ t.status = "S_up" /\ IsTold(t.told, UpInds)
  BY <1>4, <1>5, TellTold
<1> HIDE DEF t
<1>7. Agreed(t, v)
  BY <1>6, SeenAgreed DEF SeenUp, Status
<1>8. Agreed(Wake(t), v)
  BY <1>6, <1>7, WakeTold, QuietAgreed
<1> QED BY <1>1, <1>8, PendingTold

(* Nothing is owed for a connection the user asks for until the answer comes. *)
LEMMA EstablishReqTold ==
  ASSUME NEW c, NEW v, Agreed(c, v)
  PROVE  Agreed(EstablishReq(c), v)
<1> DEFINE d == Establish(c)
           e == [d EXCEPT !.L3_req = TRUE]
           g == [e EXCEPT !.errors = 0]
<1>1. EstablishReq(c) = IF c.status \in {"S_down", "S_await_down"} THEN PendingAfterEstablish(g)
                        ELSE PendingUnlessFailed(c)
  BY DEF EstablishReq, UserEstablish
<1>2. Shaped(d) /\ (d.status = "S_down" \/ d.status \in {c.status, "S_await_up"})
  BY AgreedShape, EstablishTold
<1> HIDE DEF d
<1>3. Shaped(e) /\ e.status = d.status /\ e.L3_req = TRUE
  BY <1>2 DEF Shaped
<1> HIDE DEF e
<1>4. Shaped(g) /\ g.status = d.status /\ g.L3_req = TRUE
  BY <1>3 DEF Shaped
<1> HIDE DEF g
<1>5. c.status \in {"S_down", "S_await_down"} => Agreed(g, v)
  BY <1>2, <1>4 DEF Agreed, Connected, Status
<1> QED BY <1>1, <1>5, PendingTold

LEMMA EstablishIndTold ==
  ASSUME NEW c, NEW v, Agreed(c, v)
  PROVE  Agreed(EstablishInd(c), v)
<1> DEFINE a == [c EXCEPT !.L3_req = TRUE]
           f == FlushI(c)
           d == Establish(f)
           e == [d EXCEPT !.L3_req = TRUE]
<1>1. /\ c.status \in {"S_down", "S_await_down"} => EstablishInd(c) = PendingUnlessFailed(c)
      /\ c.status = "S_await_up" => EstablishInd(c) = PendingUnlessFailed(a)
      /\ c.status \in Connected => EstablishInd(c) = PendingAfterEstablish(e)
  BY DEF EstablishInd, Connected
<1>2. Shaped(c)
  BY DEF Agreed
<1>3. c.status = "S_await_up" => Agreed(a, v)
  BY <1>2 DEF Agreed, Shaped, Connected, Status
<1> HIDE DEF a
<1>4. Quiet(c, f) /\ Shaped(f)
  BY <1>2, FieldsTold DEF Quiet, Alike
<1>5. Agreed(f, v) /\ f.status = c.status
  BY <1>4, QuietAgreed DEF Quiet, Alike
<1> HIDE DEF f
<1>6. /\ Shaped(d)
      /\ d.status = "S_down" \/ (d.status \in {f.status, "S_await_up"} /\ d.told = f.told)
  BY <1>4, EstablishTold
<1> HIDE DEF d
<1>7. Shaped(e) /\ e.status = d.status /\ e.told = d.told
  BY <1>6 DEF Shaped
<1> HIDE DEF e
<1>8. c.status \in Connected => Agreed(e, v)
  BY <1>5, <1>6, <1>7 DEF Agreed, SeenUp, Connected, Status
<1> QED BY <1>1, <1>3, <1>8, PendingTold DEF Agreed, Status, Connected

LEMMA ReleaseReqTold ==
  ASSUME NEW c, NEW v, Agreed(c, v)
  PROVE  Agreed(ReleaseReq(c), v)
<1> DEFINE d == [c EXCEPT !.errors = 0]
           t == Tell(d, "DL_RELEASE_CONF")
           s == SetState(d, "S_await_down")
           f == FlushI(s)
           e == [f EXCEPT !.RC = 0]
           g == Xmit(e, Unnumbered("DISC", TRUE, TRUE))
           h == [g EXCEPT !.T1 = TRUE, !.T3 = @ /\ c.status = "S_recover"]
<1>1. /\ c.status = "S_down" => ReleaseReq(c) = PendingUnlessFailed(t)
      /\ c.status \in {"S_await_up", "S_await_down"} => ReleaseReq(c) = PendingUnlessFailed(d)
      /\ c.status \in Connected => ReleaseReq(c) = PendingUnlessFailed(h)
  BY DEF ReleaseReq, Connected
<1>2. Quiet(c, d) /\ Shaped(d)
  BY AgreedShape, FieldsTold DEF Quiet, Alike
<1>3. Agreed(d, v) /\ d.status = c.status
  BY <1>2, QuietAgreed DEF Quiet, Alike
<1> HIDE DEF d
<1>4. c.status = "S_down" => Agreed(t, v)
  <2>1. Shaped(t) /\ t.status = d.status
    BY <1>2, TellTold DEF Indications
  <2> QED BY <1>3, <2>1, DownAgreed
<1>5. Shaped(s) /\ s.status = "S_await_down"
  BY <1>2, SetStateTold
<1> HIDE DEF s
<1>6. Shaped(f) /\ f.status = "S_await_down"
  BY <1>5, FieldsTold DEF Quiet, Alike
<1> HIDE DEF f
<1>7. Shaped(e) /\ e.status = "S_await_down"
  BY <1>6 DEF Shaped
<1> HIDE DEF e
<1>8. Shaped(g) /\ g.status = "S_await_down"
  BY <1>7 DEF Shaped, Xmit
<1> HIDE DEF g
<1>9. Shaped(h) /\ h.status = "S_await_down"
  BY <1>8 DEF Shaped
<1> HIDE DEF h
<1>10. Agreed(h, v)
  BY <1>9, DownAgreed
<1> HIDE DEF t
<1> QED BY <1>1, <1>3, <1>4, <1>10, PendingTold DEF Agreed, Status, Connected

LEMMA KillMeTold ==
  ASSUME NEW c, Shaped(c), NEW ind \in Indications
  PROVE  Shaped(KillMe(c, ind)) /\ KillMe(c, ind).status = "S_down"
<1> DEFINE x == [c EXCEPT !.I = <<>>, !.UI = <<>>, !.T1 = FALSE, !.T3 = FALSE]
           d == SetState(x, "S_down")
<1>1. KillMe(c, ind) = d \/ KillMe(c, ind) = Tell(d, ind)
  BY DEF KillMe
<1>2. Shaped(x)
  BY DEF Shaped
<1> HIDE DEF x
<1>3. Shaped(d) /\ d.status = "S_down"
  BY <1>2, SetStateTold
<1> HIDE DEF d
<1>4. Shaped(Tell(d, ind)) /\ Tell(d, ind).status = "S_down"
  BY <1>3, TellTold
<1> QED BY <1>1, <1>3, <1>4

LEMMA AbortTold ==
  ASSUME NEW c, Shaped(c), c.status \in Status, NEW ind, NEW v
  PROVE  Agreed(Abort(c, ind), v)
<1> DEFINE x == CASE c.status = "S_await_up" /\ ind = "PH_DEACTIVATE_IND" -> c
                  [] c.status = "S_await_down" -> KillMe(c, "DL_RELEASE_CONF")
                  [] c.status = "S_await_up" /\ ind # "PH_DEACTIVATE_IND" -> KillMe(c, "DL_RELEASE_IND")
                  [] c.status \in Connected \cup {"S_down"} -> KillMe(c, "DL_RELEASE_IND")
<1>1. Abort(c, ind) = PendingUnlessFailed(SetState(x, "S_down"))
  BY DEF Abort
<1>2. x = c \/ x = KillMe(c, "DL_RELEASE_CONF") \/ x = KillMe(c, "DL_RELEASE_IND")
  BY DEF Status, Connected
<1> HIDE DEF x
<1>3. Shaped(x)
  BY <1>2, KillMeTold DEF Indications
<1>4. Shaped(SetState(x, "S_down")) /\ SetState(x, "S_down").status = "S_down"
  BY <1>3, SetStateTold
<1>5. Agreed(SetState(x, "S_down"), v)
  BY <1>4, DownAgreed
<1> QED BY <1>1, <1>5, PendingTold

LEMMA RemoveTold ==
  ASSUME NEW c, Shaped(c), c.status \in Status, NEW ind \in Indications, NEW v
  PROVE  Agreed(Remove(c, ind), v)
<1> DEFINE x == IF c.status = "S_await_down" THEN c ELSE KillMe(c, ind)
<1>1. Shaped(x) /\ x.status \in Status
  BY KillMeTold DEF Status
<1> HIDE DEF x
<1>2. Agreed(Abort(x, ind), v)
  BY <1>1, AbortTold
<1> QED BY <1>2 DEF Remove, x

LEMMA ActivateIndTold ==
  ASSUME NEW c, NEW v, Agreed(c, v), NEW ind \in {"PH_ACTIVATE_IND", "PH_ACTIVATE_CONF"}
  PROVE  Agreed(ActivateInd(c, ind), v)
<1>1. Quiet(c, Tell(c, ind))
  BY AgreedShape, ErrorTold
<1>2. Agreed(Tell(c, ind), v)
  BY <1>1, QuietAgreed
<1> QED BY <1>2, PendingTold DEF ActivateInd

(* Around a call. *)
LEMMA LoadTold ==
  ASSUME NEW c, Shaped(c), NEW e
  PROVE  Quiet(c, Call(c, e)) /\ Call(c, e).told = c.told /\ Call(c, e).out = c.out
BY DEF Quiet, Alike, Shaped, Call

LEMMA SettledTold ==
  ASSUME NEW c, Shaped(c)
  PROVE  /\ Shaped(Settled(c)) /\ Settled(c).status = c.status
         /\ Settled(c).L3_req = c.L3_req
         /\ Settled(c).told = <<>> /\ Settled(c).out = <<>>
<1> DEFINE s == Settled(c)
<1>1. {"status", "L3_req", "told", "sentRR", "out"} \subseteq DOMAIN c
  BY DEF Shaped
<1>2. DOMAIN s = DOMAIN c
  BY ZenonT(60) DEF Settled
<1>3. s.told = <<>> /\ s.out = <<>>
  BY <1>1 DEF Settled
<1>4. s.status = c.status
  BY <1>1 DEF Settled
<1>5. s.L3_req = c.L3_req
  BY <1>1 DEF Settled
<1> HIDE DEF s
<1>6. <<>> \in IndSeq
  BY DEF IndSeq
<1>7. Shaped(s)
  BY <1>1, <1>2, <1>3, <1>6 DEF Shaped
<1> QED BY <1>3, <1>4, <1>5, <1>7 DEF s

LEMMA ViewedAgreed ==
  ASSUME NEW c, NEW v, Agreed(c, v)
  PROVE  Agreed(Settled(c), Viewed(c, v))
<1> DEFINE s == Settled(c)
           x == Viewed(c, v)
<1>1. /\ Shaped(s) /\ s.status = c.status /\ s.L3_req = c.L3_req /\ s.told = <<>>
  BY AgreedShape, SettledTold
<1>2. SeenUp(c, v) => x = "up"
  BY DEF SeenUp, Viewed
<1>3. ~IsTold(s.told, DownInds)
  BY <1>1 DEF IsTold
<1> HIDE DEF s, x
<1>4. SeenUp(c, v) => SeenUp(s, x)
  BY <1>2, <1>3 DEF SeenUp
<1>5. Agreed(s, x)
  BY <1>1, <1>4 DEF Agreed
<1> QED BY <1>5 DEF s, x

(* What x75_initconn leaves behind. *)
LEMMA InitConnOK ==
  ASSUME NEW win \in BOOLEAN
  PROVE  /\ Good(win, InitConn) /\ Settled(InitConn) = InitConn
         /\ Shaped(InitConn) /\ InitConn.status = "S_down"
<1>1. /\ "S_down" \in Status /\ <<>> \in Queue /\ 0 \in SeqNo /\ 0 \in Retries /\ 0 \in Counts
      /\ 0 \in Budget /\ "EIO" \in Failures /\ "ok" \in Errors
      /\ <<>> \in FrameSeq /\ <<>> \in IndSeq /\ <<>> \in BlockSeq
  BY ModAssumption, RetryAssumption, ErrorAssumption
     DEF Status, Queue, SeqNo, Retries, Counts, Budget, Failures, Errors, FrameSeq, IndSeq, BlockSeq
<1>2. InitConn \in Context /\ InitConn.status = "S_down"
  BY <1>1 DEF InitConn, Context
<1>3. Settled(InitConn) = InitConn
  <2> DEFINE i == InitConn
  <2>1. /\ i.room = 0 /\ i.accept = 0 /\ i.fail = "EIO" /\ i.space = 0 /\ i.recvok = FALSE
        /\ i.out = <<>> /\ i.told = <<>> /\ i.up = <<>> /\ i.woke = FALSE /\ i.ret = "ok"
    BY DEF InitConn
  <2>2. i \in Context
    BY <1>2
  <2> HIDE DEF i
  <2>3. Settled(i) = i
    BY ZenonT(60), <2>1, <2>2 DEF Settled, Context
  <2> QED BY <2>3 DEF i
<1>4. Good(win, InitConn)
  BY <1>2, IdleGood DEF Idle
<1>5. Shaped(InitConn)
  BY <1>1 DEF InitConn, Shaped
<1> QED BY <1>2, <1>3, <1>4, <1>5

=============================================================================
