--------------------------- MODULE X75LinkProofs ----------------------------
(***************************************************************************)
(* Proofs about X75Link.  The entities are those of X75LibProofs; what a   *)
(* link adds is that both speak the protocol: a DM they send has the F     *)
(* bit, so no entity is pulled out of S_down by a frame, and nobody but    *)
(* the peer is there to cause a silent change of state.  The first part    *)
(* is once more a lemma per function of x75lib.c: when the function        *)
(* leaves the entity in S_down, the upper layer is told so, or knew.       *)
(***************************************************************************)
EXTENDS X75Link, X75LibProofs

-----------------------------------------------------------------------------
(* Nothing was sent that a peer could misunderstand, and nobody was told   *)
(* that the connection is up.                                              *)
Mute(c) == Shaped(c) /\ c.status \in Status /\ Polite(c.out) /\ ~IsTold(c.told, UpInds)

(* Who is down has told, or v is the upper layer's view before the call.   *)
Knows(c, v) == v = "down" \/ IsTold(c.told, DownInds)
Fresh(c, v) == Mute(c) /\ (c.status = "S_down" => Knows(c, v))

(* The same at the end of a call that may have brought the link up. *)
Proper(c, v) == /\ Shaped(c) /\ c.status \in Status /\ Polite(c.out)
                /\ c.status = "S_down" => ~IsTold(c.told, UpInds) /\ Knows(c, v)

LEMMA FreshShape ==
  ASSUME NEW c, NEW v, Fresh(c, v)
  PROVE  Mute(c) /\ Shaped(c) /\ c.status \in Status /\ Polite(c.out) /\ Proper(c, v)
BY DEF Fresh, Mute, Proper

LEMMA ProperShape ==
  ASSUME NEW c, NEW v, Proper(c, v)
  PROVE  Shaped(c) /\ c.status \in Status /\ Polite(c.out)
BY DEF Proper

LEMMA QuietMute ==
  ASSUME NEW c, NEW d, Mute(c), Quiet(c, d)
  PROVE  Mute(d) /\ d.status = c.status /\ Shaped(d)
BY DEF Mute, Quiet, Alike

LEMMA QuietFresh ==
  ASSUME NEW c, NEW d, NEW v, Fresh(c, v), Quiet(c, d)
  PROVE  Fresh(d, v) /\ d.status = c.status /\ Shaped(d)
BY DEF Fresh, Knows, Mute, Quiet, Alike

LEMMA QuietProper ==
  ASSUME NEW c, NEW d, NEW v, Proper(c, v), Quiet(c, d)
  PROVE  Proper(d, v)
BY DEF Proper, Knows, Quiet, Alike

LEMMA GoingFresh ==
  ASSUME NEW c, NEW v, Mute(c), c.status # "S_down" \/ IsTold(c.told, DownInds)
  PROVE  Fresh(c, v)
BY DEF Fresh, Knows

LEMMA GoingProper ==
  ASSUME NEW c, NEW v, Shaped(c), c.status \in Status \ {"S_down"}, Polite(c.out)
  PROVE  Proper(c, v)
BY DEF Proper

LEMMA TellMute ==
  ASSUME NEW c, Mute(c), NEW ind \in Indications \ UpInds
  PROVE  /\ Mute(Tell(c, ind)) /\ Tell(c, ind).status = c.status
         /\ IsTold(Tell(c, ind).told, DownInds) <=> IsTold(c.told, DownInds) \/ ind \in DownInds
BY TellTold DEF Mute

LEMMA StateMute ==
  ASSUME NEW c, Mute(c), NEW s \in Status
  PROVE  /\ Mute(SetState(c, s)) /\ SetState(c, s).status = s
         /\ SetState(c, s).told = c.told
<1>1. Shaped(SetState(c, s)) /\ SetState(c, s).status = s /\ SetState(c, s).told = c.told
  BY SetStateTold DEF Mute
<1>2. SetState(c, s).out = c.out
  BY DEF Mute, Shaped, SetState
<1> QED BY <1>1, <1>2 DEF Mute

LEMMA Releases ==
  /\ "ERR_G" \in Indications \ UpInds /\ "ERR_H" \in Indications \ UpInds
  /\ "ERR_I" \in Indications \ UpInds /\ "ERR_J" \in Indications \ UpInds
  /\ "DL_RELEASE_IND" \in Indications \ UpInds /\ "DL_RELEASE_IND" \in DownInds
  /\ "DL_RELEASE_CONF" \in Indications \ UpInds /\ "DL_RELEASE_CONF" \in DownInds
BY DEF Indications, UpInds, DownInds

-----------------------------------------------------------------------------
(* x75_check_pending *)
LEMMA SomePolite ==
  ASSUME NEW n \in Nat, NEW g, g = [i \in 1 .. n |-> g[i]], \A i \in 1 .. n : Tame(g[i])
  PROVE  Polite(g)
<1> DEFINE S == {g[i] : i \in 1 .. n}
<1>1. g \in Seq(S) /\ Len(g) = n
  OBVIOUS
<1> QED BY <1>1 DEF Polite

LEMMA SendUIQuiet ==
  ASSUME NEW c \in Context
  PROVE  Quiet(c, SendUI(c))
<1> DEFINE n == Least(UIReady(c), c.accept)
           g == [i \in 1 .. n |-> UIFrame(c.UI[i], c.asBroadcast)]
<1>1. c.UI \in Seq(Data) /\ Len(c.UI) \in Nat /\ c.room \in Nat /\ c.accept \in Nat
  BY Fields DEF Queue, Budget
<1>2. n \in Nat
  BY <1>1 DEF UIReady, Least
<1>3. \A i \in 1 .. n : Tame(g[i])
  BY DEF Tame, UIFrame
<1>4. Polite(g)
  <2>1. g = [i \in 1 .. n |-> g[i]]
    OBVIOUS
  <2> HIDE DEF g, n
  <2> QED BY <1>2, <1>3, <2>1, SomePolite
<1>5. Shaped(c)
  BY Fields DEF Shaped, Context
<1>6. SendUI(c).out = c.out \o g
  BY DEF SendUI, Context
<1> HIDE DEF g
<1>7. Polite(c.out) => Polite(SendUI(c).out)
  BY <1>4, <1>6, PoliteMore
<1> QED BY <1>5, <1>7, SendUITold DEF Quiet

LEMMA SendIQuiet ==
  ASSUME NEW c \in Context
  PROVE  Quiet(c, SendI(c))
<1> DEFINE n == ISent(c)
           g == [i \in 1 .. n |->
                   Information(c.I[Outstanding(c) + i], Wrap(c.v_s + i - 1), c.v_r)]
<1>1. IReady(c) \in Nat /\ c.accept \in Nat
  BY IReadyOK, Fields DEF Budget
<1>2. n \in Nat
  BY <1>1 DEF ISent, Least
<1>3. \A i \in 1 .. n : Tame(g[i])
  BY DEF Tame, Information
<1>4. Polite(g)
  <2>1. g = [i \in 1 .. n |-> g[i]]
    OBVIOUS
  <2> HIDE DEF g, n
  <2> QED BY <1>2, <1>3, <2>1, SomePolite
<1>5. Shaped(c)
  BY Fields DEF Shaped, Context
<1>6. SendI(c).out = c.out \o g
  BY DEF SendI, T3Over, Context
<1> HIDE DEF g
<1>7. Polite(c.out) => Polite(SendI(c).out)
  BY <1>4, <1>6, PoliteMore
<1> QED BY <1>5, <1>7, SendITold DEF Quiet

LEMMA CheckPendingQuiet ==
  ASSUME NEW c \in Context
  PROVE  Quiet(c, CheckPending(c))
<1> DEFINE u == SendUI(c)
           i == SendI(u)
           a == SendPendingAck(i, ISent(u) > 0)
           b == SendPendingAck(u, UIReady(c) > 0)
<1>1. CheckPending(c) = CASE UIFails(c) -> u
          [] ~UIFails(c) /\ c.status = "S_up" -> a
          [] ~UIFails(c) /\ c.status = "S_recover" -> b
          [] ~UIFails(c) /\ c.status \notin Connected -> IF UIReady(c) > 0 THEN Wake(u) ELSE u
  BY DEF CheckPending
<1>2. u \in Context /\ Quiet(c, u)
  BY SendUIOK, SendUIQuiet
<1> HIDE DEF u
<1>3. Quiet(u, i)
  BY <1>2, SendIQuiet
<1> HIDE DEF i
<1>4. Quiet(i, a) /\ Quiet(u, b) /\ Quiet(u, Wake(u))
  BY <1>2, <1>3, SendPendingAckTold, WakeTold, QuietShaped
<1> HIDE DEF a, b
<1>5. Quiet(c, a) /\ Quiet(c, b) /\ Quiet(c, Wake(u))
  BY <1>2, <1>3, <1>4, QuietOn
<1> QED BY <1>1, <1>2, <1>5 DEF Connected

LEMMA CheckPendingFresh ==
  ASSUME NEW c \in Context, NEW v
  PROVE  /\ Fresh(c, v) => Fresh(CheckPending(c), v)
         /\ Proper(c, v) => Proper(CheckPending(c), v)
BY CheckPendingQuiet, QuietFresh, QuietProper

(* The three outcomes of Xestablish. *)
LEMMA GiveUpFresh ==
  ASSUME NEW c, Mute(c), NEW v
  PROVE  Fresh(GiveUp(c), v)
<1> DEFINE d == SetState(c, "S_down")
           e == Tell(d, "ERR_G")
           f == Tell(e, "DL_RELEASE_IND")
<1>1. Mute(d)
  BY StateMute DEF Status
<1> HIDE DEF d
<1>2. Mute(e)
  BY <1>1, TellMute, Releases
<1> HIDE DEF e
<1>3. Mute(f) /\ IsTold(f.told, DownInds)
  BY <1>2, TellMute, Releases
<1>4. GiveUp(c) = [f EXCEPT !.ret = "ETIMEDOUT"]
  BY DEF GiveUp, d, e
<1> HIDE DEF f
<1>5. Fresh(f, v) /\ Shaped(f)
  BY <1>3, GoingFresh DEF Mute
<1>6. Quiet(f, [f EXCEPT !.ret = "ETIMEDOUT"])
  BY <1>5, FieldsTold
<1> QED BY <1>4, <1>5, <1>6, QuietFresh

LEMMA EstablishFresh ==
  ASSUME NEW c, NEW v, Fresh(c, v)
  PROVE  Fresh(Establish(c), v)
<1> DEFINE a == ClrExcept(c)
           b == SetState(a, "S_await_up")
           d == [b EXCEPT !.RC = 0]
           k == d.errors + ErrStep
           e == [d EXCEPT !.errors = k]
           x == Xmit(e, Unnumbered("SABM", TRUE, TRUE))
           y == [c EXCEPT !.ret = "ENXIO"]
<1>1. Establish(c) = y \/ Establish(c) = GiveUp(d) \/ Establish(c) = T3Over(x)
  BY DEF Establish
<1>2. Fresh(y, v)
  BY FreshShape, FieldsTold, QuietFresh
<1> HIDE DEF y
<1>3. Fresh(a, v)
  BY FreshShape, FieldsTold, QuietFresh
<1> HIDE DEF a
<1>4. Mute(b) /\ b.status = "S_await_up" /\ Shaped(b)
  BY <1>3, FreshShape, StateMute DEF Status, Mute
<1> HIDE DEF b
<1>5. Mute(d) /\ d.status = "S_await_up" /\ Shaped(d)
  BY <1>4, FieldsTold, QuietMute
<1>6. Fresh(GiveUp(d), v)
  BY <1>5, GiveUpFresh
<1> HIDE DEF d, k
<1>7. Mute(e) /\ e.status = "S_await_up" /\ Shaped(e)
  BY <1>5, FieldsTold, QuietMute
<1> HIDE DEF e
<1>8. Mute(x) /\ x.status = "S_await_up" /\ Shaped(x)
  BY <1>7, XmitTold, TameOK, QuietMute DEF Unnumbered
<1> HIDE DEF x
<1>9. Mute(T3Over(x)) /\ T3Over(x).status = "S_await_up"
  BY <1>8, TimersTold, QuietMute
<1> QED BY <1>1, <1>2, <1>6, <1>9, GoingFresh

LEMMA AskedFresh ==
  ASSUME NEW c, Shaped(c), NEW x
  PROVE  /\ [c EXCEPT !.L3_req = x].status = c.status /\ Shaped([c EXCEPT !.L3_req = x])
         /\ \A v : Fresh(c, v) => Fresh([c EXCEPT !.L3_req = x], v)
BY DEF Fresh, Mute, Knows, Shaped

LEMMA ReestablishFresh ==
  ASSUME NEW c, NEW v, Fresh(c, v)
  PROVE  Fresh(Reestablish(c), v)
<1> DEFINE d == Establish(c)
<1>1. Fresh(d, v) /\ Shaped(d)
  BY EstablishFresh, FreshShape
<1> HIDE DEF d
<1>2. Fresh([d EXCEPT !.L3_req = FALSE], v)
  BY <1>1, AskedFresh
<1> QED BY <1>2 DEF Reestablish, d

LEMMA RecoverNRFresh ==
  ASSUME NEW c, NEW v, Fresh(c, v)
  PROVE  Fresh(RecoverNR(c), v)
<1>1. Quiet(c, Tell(c, "ERR_J"))
  BY FreshShape, ErrorTold
<1> QED BY <1>1, QuietFresh, ReestablishFresh DEF RecoverNR

(* Somebody gives up and says so. *)
LEMMA GoneFresh ==
  ASSUME NEW c, Mute(c), NEW i \in Indications \ UpInds,
         NEW j \in {"DL_RELEASE_IND", "DL_RELEASE_CONF"}, NEW v
  PROVE  Fresh(SetState(Tell(Tell(c, i), j), "S_down"), v)
<1> DEFINE d == Tell(c, i)
           e == Tell(d, j)
           s == SetState(e, "S_down")
<1>1. Mute(d)
  BY TellMute
<1> HIDE DEF d
<1>2. Mute(e) /\ IsTold(e.told, DownInds)
  BY <1>1, TellMute, Releases
<1> HIDE DEF e
<1>3. Mute(s) /\ IsTold(s.told, DownInds)
  BY <1>2, StateMute DEF Status
<1> QED BY <1>3, GoingFresh DEF d, e, s

-----------------------------------------------------------------------------
(* The timers. *)
LEMMA AwaitUpTimeoutFresh ==
  ASSUME NEW c, NEW v, Fresh(c, v)
  PROVE  Fresh(AwaitUpTimeout(c), v)
<1> DEFINE a == [c EXCEPT !.RC = 1]
           d == Xmit(c, Unnumbered("SABM", TRUE, TRUE))
           r == IF d.ret = "EAGAIN" THEN d.RC ELSE d.RC + 1
           e == [d EXCEPT !.RC = r]
           f == FlushI(c)
           g == SetState(Tell(Tell(f, "ERR_G"), "DL_RELEASE_IND"), "S_down")
<1>1. AwaitUpTimeout(c) = IF c.RC = 0 THEN StartT1(a) ELSE IF c.RC < N1 THEN StartT1(e) ELSE g
  BY DEF AwaitUpTimeout
<1>2. Shaped(c)
  BY FreshShape
<1>3. Fresh(a, v) /\ Shaped(a)
  BY <1>2, FieldsTold, QuietFresh
<1> HIDE DEF a, r
<1>4. Quiet(a, StartT1(a))
  BY <1>3, TimersTold
<1>5. Fresh(d, v) /\ Shaped(d)
  BY <1>2, XmitTold, TameOK, QuietFresh DEF Unnumbered
<1> HIDE DEF d
<1>6. Fresh(e, v) /\ Shaped(e)
  BY <1>5, FieldsTold, QuietFresh
<1> HIDE DEF e
<1>7. Quiet(e, StartT1(e))
  BY <1>6, TimersTold
<1>8. Fresh(StartT1(a), v) /\ Fresh(StartT1(e), v)
  BY <1>3, <1>4, <1>6, <1>7, QuietFresh
<1>9. Fresh(g, v)
  <2>1. Mute(f)
    BY <1>2, FieldsTold, QuietMute, FreshShape
  <2> HIDE DEF f
  <2> QED BY <2>1, GoneFresh, Releases
<1> HIDE DEF g
<1> QED BY <1>1, <1>8, <1>9

LEMMA AwaitDownTimeoutFresh ==
  ASSUME NEW c, NEW v, Fresh(c, v)
  PROVE  Fresh(AwaitDownTimeout(c), v)
<1> DEFINE k == c.RC + 1
           a == [c EXCEPT !.RC = k]
           d == Xmit(a, Unnumbered("DISC", TRUE, TRUE))
           g == SetState(Tell(Tell(c, "ERR_H"), "DL_RELEASE_CONF"), "S_down")
<1>1. AwaitDownTimeout(c) = IF c.RC < N1 THEN StartT1(d) ELSE g
  BY DEF AwaitDownTimeout
<1> HIDE DEF k
<1>2. Fresh(a, v) /\ Shaped(a)
  BY FreshShape, FieldsTold, QuietFresh
<1> HIDE DEF a
<1>3. Fresh(d, v) /\ Shaped(d)
  BY <1>2, XmitTold, TameOK, QuietFresh DEF Unnumbered
<1> HIDE DEF d
<1>4. Fresh(StartT1(d), v)
  BY <1>3, TimersTold, QuietFresh
<1>5. Fresh(g, v)
  BY FreshShape, GoneFresh, Releases
<1> HIDE DEF g
<1> QED BY <1>1, <1>4, <1>5

LEMMA RecoverTimeoutFresh ==
  ASSUME NEW c, NEW v, Fresh(c, v)
  PROVE  Fresh(RecoverTimeout(c), v)
<1> DEFINE q == Enquiry(c)
           k == q.RC + 1
           d == [q EXCEPT !.RC = k]
           t == Tell(c, "ERR_I")
<1>1. RecoverTimeout(c) = IF c.RC < N1 THEN d ELSE Reestablish(t)
  BY DEF RecoverTimeout
<1> HIDE DEF k
<1>2. Fresh(q, v) /\ Shaped(q)
  BY FreshShape, EnquiryTold, QuietFresh
<1> HIDE DEF q
<1>3. Fresh(d, v)
  BY <1>2, FieldsTold, QuietFresh
<1> HIDE DEF d
<1>4. Fresh(t, v)
  BY FreshShape, ErrorTold, QuietFresh
<1> HIDE DEF t
<1>5. Fresh(Reestablish(t), v)
  BY <1>4, ReestablishFresh
<1> QED BY <1>1, <1>3, <1>5

(* A connection that only changes its state from connected to connected. *)
LEMMA StillFresh ==
  ASSUME NEW c, NEW v, Fresh(c, v), NEW s \in Connected
  PROVE  Fresh(SetState(c, s), v)
BY FreshShape, StateMute, GoingFresh DEF Connected, Status

LEMMA T1HandlerFresh ==
  ASSUME NEW c, NEW v, Fresh(c, v)
  PROVE  Fresh(T1Handler(c), v)
<1>1. CASE c.status = "S_await_up"
  BY <1>1, AwaitUpTimeoutFresh DEF T1Handler
<1>2. CASE c.status = "S_await_down"
  BY <1>2, AwaitDownTimeoutFresh DEF T1Handler
<1>3. CASE c.status = "S_recover"
  BY <1>3, RecoverTimeoutFresh DEF T1Handler
<1>4. CASE c.status = "S_down"
  BY <1>4 DEF T1Handler
<1>5. CASE c.status = "S_up"
  <2> DEFINE a == [c EXCEPT !.RC = 1]
             q == Enquiry(a)
  <2>1. T1Handler(c) = SetState(q, "S_recover")
    BY <1>5 DEF T1Handler
  <2>2. Fresh(a, v) /\ Shaped(a)
    BY FreshShape, FieldsTold, QuietFresh
  <2> HIDE DEF a
  <2>3. Fresh(q, v)
    BY <2>2, EnquiryTold, QuietFresh
  <2> HIDE DEF q
  <2> QED BY <2>1, <2>3, StillFresh DEF Connected
<1> QED BY <1>1, <1>2, <1>3, <1>4, <1>5, FreshShape DEF Status

LEMMA T1ExpiresFresh ==
  ASSUME NEW c \in Context, Guarded(c), ~Broadcast, NEW v, Fresh(c, v)
  PROVE  Fresh(T1Expires(c), v)
<1> DEFINE s == StopT1(c)
           h == T1Handler(s)
<1>1. Fresh(s, v)
  BY FreshShape, TimersTold, QuietFresh
<1>2. Kept(FALSE, s)
  BY StopT1OK DEF Kept
<1> HIDE DEF s
<1>3. Fresh(h, v) /\ h \in Context
  BY <1>1, <1>2, T1HandlerFresh, T1HandlerOK DEF Good
<1> HIDE DEF h
<1> QED BY <1>3, CheckPendingFresh DEF T1Expires, h, s

LEMMA T3ExpiresFresh ==
  ASSUME NEW c, NEW v, Fresh(c, v)
  PROVE  Fresh(T3Expires(c), v)
<1> DEFINE d == [c EXCEPT !.T3 = FALSE]
           s == SetState(d, "S_recover")
           q == Enquiry(s)
           e == [q EXCEPT !.RC = 0]
<1>1. T3Expires(c) = IF c.status = "S_up" THEN e ELSE d
  BY DEF T3Expires
<1>2. Quiet(c, d)
  BY FreshShape DEF Quiet, Alike, Shaped
<1> HIDE DEF d
<1>3. Fresh(d, v)
  BY <1>2, QuietFresh
<1>4. Fresh(s, v) /\ Shaped(s)
  BY <1>3, StillFresh, FreshShape DEF Connected
<1> HIDE DEF s
<1>5. Fresh(q, v) /\ Shaped(q)
  BY <1>4, EnquiryTold, QuietFresh
<1> HIDE DEF q
<1>6. Fresh(e, v)
  BY <1>5, FieldsTold, QuietFresh
<1> HIDE DEF e
<1> QED BY <1>1, <1>3, <1>6

LEMMA CheckPendingFromLowFresh ==
  ASSUME NEW c \in Context, Guarded(c), ~Broadcast, NEW v, Fresh(c, v)
  PROVE  Fresh(CheckPendingFromLow(c), v)
<1> DEFINE u == SendUI(c)
           d == T1Expires(u)
<1>1. CheckPendingFromLow(c) =
        IF c.status = "S_await_up" /\ ~UIFails(c)
          THEN IF UIReady(c) > 0 THEN Wake(d) ELSE d
          ELSE CheckPending(c)
  BY DEF CheckPendingFromLow
<1>2. u \in Context /\ Guarded(u) /\ Fresh(u, v)
  BY SendUIOK, SendUIQuiet, QuietFresh DEF Same, Guarded
<1> HIDE DEF u
<1>3. Fresh(d, v) /\ Shaped(d)
  BY <1>2, T1ExpiresFresh, FreshShape
<1> HIDE DEF d
<1>4. Fresh(Wake(d), v)
  BY <1>3, WakeTold, QuietFresh
<1>5. Fresh(CheckPending(c), v)
  BY CheckPendingFresh
<1> QED BY <1>1, <1>3, <1>4, <1>5

-----------------------------------------------------------------------------
(* Frames of the peer. *)
LEMMA AckUpFresh ==
  ASSUME NEW c, NEW v, Fresh(c, v), NEW nr
  PROVE  Fresh(AckUp(c, nr), v)
<1> DEFINE p == PullUp(c, nr)
<1>1. \/ AckUp(c, nr) = RecoverNR(c) \/ AckUp(c, nr) = p \/ AckUp(c, nr) = T1Over(p)
      \/ AckUp(c, nr) = c \/ AckUp(c, nr) = StartT1(p)
  BY DEF AckUp, CheckV
<1>2. Fresh(p, v) /\ Shaped(p)
  BY FreshShape, PullUpTold, QuietFresh
<1> HIDE DEF p
<1>3. Fresh(T1Over(p), v) /\ Fresh(StartT1(p), v)
  BY <1>2, TimersTold, QuietFresh
<1>4. Fresh(RecoverNR(c), v)
  BY RecoverNRFresh
<1> QED BY <1>1, <1>2, <1>3, <1>4

LEMMA RecvIFresh ==
  ASSUME NEW c, NEW v, Fresh(c, v), NEW f
  PROVE  Fresh(RecvI(c, f), v)
<1> DEFINE e == IF f.body = None THEN SendFRMR(c, f.pf) ELSE c
           d == [e EXCEPT !.sentRR = CanRecv(e)]
           inSeq == f.body # None /\ f.ns = c.v_r
           g == CASE ~d.sentRR -> DropI(d, f)
                  [] d.sentRR /\ ~inSeq -> Resync(d, f)
                  [] d.sentRR /\ inSeq -> IF c.recvok THEN TakeI(d, f) ELSE DropI(d, f)
<1>1. RecvI(c, f) = IF c.status # "S_up" THEN e ELSE AckUp(g, f.nr)
  BY DEF RecvI
<1>2. Fresh(e, v) /\ Shaped(e)
  BY FreshShape, SendFRMRTold, QuietItself, QuietFresh
<1> HIDE DEF e
<1>3. Fresh(d, v) /\ Shaped(d)
  BY <1>2, FieldsTold, QuietFresh
<1>4. d.sentRR \in BOOLEAN
  BY <1>2 DEF CanRecv, Shaped
<1>5. g = DropI(d, f) \/ g = Resync(d, f) \/ g = TakeI(d, f)
  BY <1>4
<1> HIDE DEF g, d
<1>6. Fresh(g, v)
  BY <1>3, <1>5, DropITold, ResyncTold, TakeITold, QuietFresh
<1> QED BY <1>1, <1>2, <1>6, AckUpFresh

LEMMA RecvSRecoverFresh ==
  ASSUME NEW c, NEW v, Fresh(c, v), NEW f
  PROVE  Fresh(RecvSRecover(c, f), v)
<1> DEFINE d == IF f.cmd /\ f.pf THEN EnqResp(c) ELSE c
           p == PullUp(d, f.nr)
           t == T1Over(p)
           r == Retransmit(t)
<1>1. \/ RecvSRecover(c, f) = RecoverNR(d) \/ RecvSRecover(c, f) = p
      \/ RecvSRecover(c, f) = SetState(r, "S_up")
  BY DEF RecvSRecover
<1>2. Fresh(d, v) /\ Shaped(d)
  BY FreshShape, EnquiryTold, QuietItself, QuietFresh
<1> HIDE DEF d
<1>3. Fresh(p, v) /\ Shaped(p)
  BY <1>2, PullUpTold, QuietFresh
<1> HIDE DEF p
<1>4. Fresh(t, v) /\ Shaped(t)
  BY <1>3, TimersTold, QuietFresh
<1> HIDE DEF t
<1>5. Fresh(r, v)
  BY <1>4, FieldsTold, QuietFresh
<1> HIDE DEF r
<1> QED BY <1>1, <1>2, <1>3, <1>5, RecoverNRFresh, StillFresh DEF Connected

LEMMA RecvSCasesFresh ==
  ASSUME NEW c, NEW v, Fresh(c, v), NEW f, NEW tp, NEW busy
  PROVE  /\ Fresh([c EXCEPT !.trypoll = tp], v)
         /\ Fresh(Polled(c, f, tp, busy), v)
         /\ Fresh(RecvSRecover(Marked(c, tp, busy), f), v)
<1> DEFINE d == [c EXCEPT !.trypoll = tp]
           a == AnswerPoll(d, f)
           e == [a EXCEPT !.RNR = busy]
           s == [d EXCEPT !.RNR = busy]
<1>1. Fresh(d, v) /\ Shaped(d)
  BY FreshShape, FieldsTold, QuietFresh
<1> HIDE DEF d
<1>2. Fresh(a, v) /\ Shaped(a)
  BY <1>1, AnswerPollTold, QuietFresh
<1> HIDE DEF a
<1>3. Fresh(e, v)
  BY <1>2, FieldsTold, QuietFresh
<1>4. Fresh(s, v)
  BY <1>1, FieldsTold, QuietFresh
<1> HIDE DEF e, s
<1>5. Fresh(RecvSRecover(s, f), v)
  BY <1>4, RecvSRecoverFresh
<1> QED BY <1>1, <1>3, <1>5 DEF Polled, Marked, d, a, e, s

LEMMA AcknowledgedFresh ==
  ASSUME NEW c, NEW v, Fresh(c, v), NEW nr
  PROVE  Fresh(T1Over(PullUp(c, nr)), v) /\ Fresh(Retransmit(T1Over(PullUp(c, nr))), v)
<1> DEFINE p == PullUp(c, nr)
           t == T1Over(p)
<1>1. Fresh(p, v) /\ Shaped(p)
  BY FreshShape, PullUpTold, QuietFresh
<1> HIDE DEF p
<1>2. Fresh(t, v) /\ Shaped(t)
  BY <1>1, TimersTold, QuietFresh
<1> HIDE DEF t
<1>3. Fresh(Retransmit(t), v)
  BY <1>2, FieldsTold, QuietFresh
<1> QED BY <1>2, <1>3 DEF t, p

LEMMA RecvSFresh ==
  ASSUME NEW c, NEW v, Fresh(c, v), NEW f
  PROVE  Fresh(RecvRR(c, f), v) /\ Fresh(RecvRNR(c, f), v) /\ Fresh(RecvREJ(c, f), v)
<1>1. Fresh(RecvRR(c, f), v)
  <2> DEFINE d == [c EXCEPT !.trypoll = FALSE]
             e == Polled(c, f, FALSE, FALSE)
             s == Marked(c, FALSE, FALSE)
  <2>1. \/ RecvRR(c, f) = AckUp(e, f.nr) \/ RecvRR(c, f) = RecvSRecover(s, f)
        \/ RecvRR(c, f) = d
    BY FreshShape DEF RecvRR, Polled, Marked, Status, Connected
  <2>2. Fresh(d, v) /\ Fresh(e, v) /\ Fresh(RecvSRecover(s, f), v)
    BY RecvSCasesFresh
  <2> HIDE DEF d, e, s
  <2> QED BY <2>1, <2>2, AckUpFresh
<1>2. Fresh(RecvRNR(c, f), v)
  <2> DEFINE tp == ~f.pf
             d == [c EXCEPT !.trypoll = tp]
             e == Polled(c, f, tp, TRUE)
             s == Marked(c, tp, TRUE)
             p == T1Over(PullUp(e, f.nr))
  <2>1. \/ RecvRNR(c, f) = p \/ RecvRNR(c, f) = RecoverNR(e)
        \/ RecvRNR(c, f) = RecvSRecover(s, f) \/ RecvRNR(c, f) = d
    BY FreshShape DEF RecvRNR, Polled, Marked, Status, Connected
  <2> HIDE DEF tp
  <2>2. Fresh(d, v) /\ Fresh(e, v) /\ Fresh(RecvSRecover(s, f), v)
    BY RecvSCasesFresh
  <2> HIDE DEF d, e, s
  <2>3. Fresh(p, v) /\ Fresh(RecoverNR(e), v)
    BY <2>2, AcknowledgedFresh, RecoverNRFresh
  <2> HIDE DEF p
  <2> QED BY <2>1, <2>2, <2>3
<1>3. Fresh(RecvREJ(c, f), v)
  <2> DEFINE d == [c EXCEPT !.trypoll = FALSE]
             e == Polled(c, f, FALSE, FALSE)
             s == Marked(c, FALSE, FALSE)
             r == Retransmit(T1Over(PullUp(e, f.nr)))
  <2>1. \/ RecvREJ(c, f) = r \/ RecvREJ(c, f) = RecoverNR(e)
        \/ RecvREJ(c, f) = RecvSRecover(s, f) \/ RecvREJ(c, f) = d
    BY FreshShape DEF RecvREJ, Polled, Marked, Status, Connected
  <2>2. Fresh(d, v) /\ Fresh(e, v) /\ Fresh(RecvSRecover(s, f), v)
    BY RecvSCasesFresh
  <2> HIDE DEF d, e, s
  <2>3. Fresh(r, v) /\ Fresh(RecoverNR(e), v)
    BY <2>2, AcknowledgedFresh, RecoverNRFresh
  <2> HIDE DEF r
  <2> QED BY <2>1, <2>2, <2>3
<1> QED BY <1>1, <1>2, <1>3

LEMMA AnswerFresh ==
  ASSUME NEW c, NEW v, Fresh(c, v), NEW t, NEW f, t = "UA" \/ f.pf = TRUE
  PROVE  Fresh(Answer(c, t, f), v) /\ Shaped(Answer(c, t, f))
BY FreshShape, AnswerTold, QuietFresh

(* A connection that comes up owes nobody anything. *)
LEMMA SpeaksOn ==
  ASSUME NEW c, Shaped(c), Polite(c.out), NEW ind \in Indications
  PROVE  Shaped(Tell(c, ind)) /\ Polite(Tell(c, ind).out)
BY TellTold

LEMMA QuietSpeaks ==
  ASSUME NEW c, Polite(c.out), NEW d, Quiet(c, d)
  PROVE  Shaped(d) /\ Polite(d.out)
BY DEF Quiet, Alike

LEMMA UpProper ==
  ASSUME NEW c, Shaped(c), Polite(c.out), NEW v
  PROVE  Proper(SetState(c, "S_up"), v)
<1> DEFINE d == SetState(c, "S_up")
<1>1. Shaped(d) /\ d.status = "S_up"
  BY SetStateTold
<1>2. d.out = c.out
  BY DEF Shaped, SetState
<1> HIDE DEF d
<1>3. Proper(d, v)
  BY <1>1, <1>2, GoingProper DEF Status
<1> QED BY <1>3 DEF d

LEMMA RecvSABMProper ==
  ASSUME NEW c, NEW v, Fresh(c, v), NEW f, f.pf = TRUE, ~Broadcast
  PROVE  Proper(RecvSABM(c, f), v)
<1> DEFINE ua == Answer(c, "UA", f)
           dm == Answer(c, "DM", f)
           a == ClrExcept(ua)
<1>1. Fresh(ua, v) /\ Shaped(ua) /\ Fresh(dm, v)
  BY AnswerFresh
<1>2. Proper(ua, v) /\ Proper(dm, v)
  BY <1>1, FreshShape
<1>3. Shaped(a) /\ Polite(a.out)
  <2> HIDE DEF ua
  <2> QED BY <1>1, FieldsTold, QuietFresh, FreshShape
<1>4. "DL_ESTABLISH_IND" \in Indications /\ "ERR_F" \in Indications
  BY DEF Indications
<1>5. CASE c.status = "S_down"
  <2> DEFINE b == Tell(a, "DL_ESTABLISH_IND")
             x == FlushI(b)
             y == T1Over(x)
  <2>1. RecvSABM(c, f) = SetState(y, "S_up")
    BY <1>5 DEF RecvSABM, Connected
  <2> HIDE DEF a
  <2>2. Shaped(b) /\ Polite(b.out)
    BY <1>3, <1>4, SpeaksOn
  <2> HIDE DEF b
  <2>3. Shaped(x) /\ Polite(x.out)
    BY <2>2, FieldsTold, QuietSpeaks
  <2> HIDE DEF x
  <2>4. Shaped(y) /\ Polite(y.out)
    BY <2>3, TimersTold, QuietSpeaks
  <2> HIDE DEF y
  <2> QED BY <2>1, <2>4, UpProper
<1>6. CASE c.status \in Connected
  <2> DEFINE g == Tell(a, "ERR_F")
             d == FlushI(g)
             e == Tell(d, "DL_ESTABLISH_IND")
             x == IF c.v_s # c.v_a THEN e ELSE d
             y == T1Over(x)
  <2>1. RecvSABM(c, f) = SetState(y, "S_up")
    BY <1>6 DEF RecvSABM, Connected
  <2> HIDE DEF a
  <2>2. Shaped(g) /\ Polite(g.out)
    BY <1>3, <1>4, SpeaksOn
  <2> HIDE DEF g
  <2>3. Shaped(d) /\ Polite(d.out)
    BY <2>2, FieldsTold, QuietSpeaks
  <2> HIDE DEF d
  <2>4. Shaped(e) /\ Polite(e.out)
    BY <1>4, <2>3, SpeaksOn
  <2> HIDE DEF e
  <2>5. Shaped(x) /\ Polite(x.out)
    BY <2>3, <2>4
  <2> HIDE DEF x
  <2>6. Shaped(y) /\ Polite(y.out)
    BY <2>5, TimersTold, QuietSpeaks
  <2> HIDE DEF y
  <2> QED BY <2>1, <2>6, UpProper
<1>7. CASE c.status \in {"S_await_up", "S_await_down"}
  <2>1. RecvSABM(c, f) = ua \/ RecvSABM(c, f) = dm
    BY <1>7 DEF RecvSABM, Connected
  <2> QED BY <1>2, <2>1
<1> QED BY <1>5, <1>6, <1>7, FreshShape DEF Status, Connected

LEMMA ClosedFresh ==
  ASSUME NEW c, Mute(c), NEW i \in {"DL_RELEASE_IND", "DL_RELEASE_CONF"}, NEW v
  PROVE  Fresh(SetState(StopT1(Tell(c, i)), "S_down"), v)
<1> DEFINE d == Tell(c, i)
           e == StopT1(d)
           s == SetState(e, "S_down")
<1>1. Mute(d) /\ Shaped(d) /\ IsTold(d.told, DownInds)
  BY TellMute, Releases DEF Mute
<1> HIDE DEF d
<1>2. Mute(e) /\ IsTold(e.told, DownInds)
  BY <1>1, TimersTold, QuietMute DEF Quiet, Alike
<1> HIDE DEF e
<1>3. Mute(s) /\ IsTold(s.told, DownInds)
  BY <1>2, StateMute DEF Status
<1> QED BY <1>3, GoingFresh DEF d, e, s

LEMMA RecvDISCFresh ==
  ASSUME NEW c, NEW v, Fresh(c, v), NEW f, f.pf = TRUE
  PROVE  Fresh(RecvDISC(c, f), v)
<1>1. Fresh(Answer(c, "UA", f), v) /\ Fresh(Answer(c, "DM", f), v)
  BY AnswerFresh
<1>2. CASE c.status \in Connected
  <2> DEFINE a == FlushI(c)
             b == Answer(a, "UA", f)
             d == Tell(b, "DL_RELEASE_IND")
             t3 == d.T3 /\ c.status = "S_recover"
             e == [d EXCEPT !.T1 = FALSE, !.T3 = t3]
             s == SetState(e, "S_down")
  <2>1. RecvDISC(c, f) = s
    BY <1>2 DEF RecvDISC, Connected
  <2>2. Fresh(a, v)
    BY FreshShape, FieldsTold, QuietFresh
  <2> HIDE DEF a
  <2>3. Mute(b)
    BY <2>2, AnswerFresh, FreshShape
  <2> HIDE DEF b
  <2>4. Mute(d) /\ IsTold(d.told, DownInds)
    BY <2>3, TellMute, Releases
  <2> HIDE DEF d, t3
  <2>5. Quiet(d, e)
    BY <2>4 DEF Quiet, Alike, Shaped, Mute
  <2> HIDE DEF e
  <2>6. Mute(e) /\ IsTold(e.told, DownInds)
    BY <2>4, <2>5, QuietMute DEF Quiet, Alike
  <2>7. Mute(s) /\ IsTold(s.told, DownInds)
    BY <2>6, StateMute DEF Status
  <2> HIDE DEF s
  <2> QED BY <2>1, <2>7, GoingFresh
<1>3. CASE c.status \notin Connected
  <2>1. RecvDISC(c, f) = Answer(c, "UA", f) \/ RecvDISC(c, f) = Answer(c, "DM", f)
    BY <1>3, FreshShape DEF RecvDISC, Connected, Status
  <2> QED BY <1>1, <2>1
<1> QED BY <1>2, <1>3

LEMMA RecvDMFresh ==
  ASSUME NEW c, NEW v, Fresh(c, v), NEW f, f.pf = TRUE
  PROVE  Fresh(RecvDM(c, f), v)
<1> DEFINE a == FlushI(c)
<1>1. \/ RecvDM(c, f) = c \/ RecvDM(c, f) = Tell(c, "ERR_B")
      \/ RecvDM(c, f) = SetState(StopT1(Tell(a, "DL_RELEASE_IND")), "S_down")
      \/ RecvDM(c, f) = SetState(StopT1(Tell(a, "DL_RELEASE_CONF")), "S_down")
  BY FreshShape DEF RecvDM, Connected, Status
<1>2. Mute(a)
  BY FreshShape, FieldsTold, QuietMute
<1> HIDE DEF a
<1>3. Fresh(Tell(c, "ERR_B"), v)
  BY FreshShape, ErrorTold, QuietFresh
<1> QED BY <1>1, <1>2, <1>3, ClosedFresh

LEMMA ConnectionUpProper ==
  ASSUME NEW c, NEW v, Fresh(c, v), c.L3_req \in BOOLEAN
  PROVE  Proper(ConnectionUp(c), v)
<1> DEFINE f == FlushI(c)
           d == CASE c.L3_req -> Tell(c, "DL_ESTABLISH_CONF")
                  [] ~c.L3_req /\ c.v_s # c.v_a -> Tell(f, "DL_ESTABLISH_IND")
                  [] ~c.L3_req /\ c.v_s = c.v_a -> c
           s == SetState(d, "S_up")
           t == T1Over(s)
           w == [t EXCEPT !.v_r = 0, !.v_s = 0, !.v_a = 0]
<1>1. ConnectionUp(c) = Wake(w)
  BY DEF ConnectionUp
<1>2. Shaped(c) /\ Polite(c.out) /\ Shaped(f) /\ Polite(f.out)
  BY FreshShape, FieldsTold, QuietSpeaks
<1>3. d = Tell(c, "DL_ESTABLISH_CONF") \/ d = Tell(f, "DL_ESTABLISH_IND") \/ d = c
  OBVIOUS
<1> HIDE DEF d, f
<1>4. Shaped(d) /\ Polite(d.out)
  BY <1>2, <1>3, SpeaksOn DEF Indications
<1>5. Proper(s, v) /\ Shaped(s)
  BY <1>4, UpProper, ProperShape
<1> HIDE DEF s
<1>6. Proper(t, v) /\ Shaped(t)
  BY <1>5, TimersTold, QuietProper, QuietShaped
<1> HIDE DEF t
<1>7. Quiet(t, w) /\ Shaped(w)
  BY <1>6 DEF Quiet, Alike, Shaped
<1> HIDE DEF w
<1>8. Quiet(w, Wake(w))
  BY <1>7, WakeTold
<1> QED BY <1>1, <1>6, <1>7, <1>8, QuietProper

LEMMA RecvUAProper ==
  ASSUME NEW c, NEW v, Fresh(c, v), c.L3_req \in BOOLEAN, NEW f, f.pf \in BOOLEAN
  PROVE  Proper(RecvUA(c, f), v)
<1>1. \/ RecvUA(c, f) = ConnectionUp(c)
      \/ RecvUA(c, f) = SetState(StopT1(Tell(c, "DL_RELEASE_CONF")), "S_down")
      \/ RecvUA(c, f) = Tell(c, "ERR_D") \/ RecvUA(c, f) = Tell(c, "ERR_CD")
  BY FreshShape DEF RecvUA, Connected, Status
<1>2. Fresh(Tell(c, "ERR_D"), v) /\ Fresh(Tell(c, "ERR_CD"), v)
  BY FreshShape, ErrorTold, QuietFresh
<1>3. Fresh(SetState(StopT1(Tell(c, "DL_RELEASE_CONF")), "S_down"), v)
  BY FreshShape, ClosedFresh
<1> QED BY <1>1, <1>2, <1>3, FreshShape, ConnectionUpProper

LEMMA RecvUIFresh ==
  ASSUME NEW c, NEW v, Fresh(c, v), c.recvok \in BOOLEAN, NEW f
  PROVE  Fresh(RecvUI(c, f), v)
<1> DEFINE d == [c EXCEPT !.up = Append(@, <<IF f.bc THEN 3 ELSE 1, f.body>>),
                          !.space = IF @ > 0 THEN @ - 1 ELSE 0]
<1>1. RecvUI(c, f) = c \/ RecvUI(c, f) = SendFRMR(c, f.pf) \/ RecvUI(c, f) = d
  BY DEF RecvUI
<1>2. Quiet(c, SendFRMR(c, f.pf)) /\ Shaped(c)
  BY FreshShape, SendFRMRTold
<1>3. Quiet(c, d)
  BY <1>2 DEF Quiet, Alike, Shaped
<1> HIDE DEF d
<1> QED BY <1>1, <1>2, <1>3, QuietFresh

LEMMA RecvFRMRFresh ==
  ASSUME NEW c, NEW v, Fresh(c, v)
  PROVE  Fresh(RecvFRMR(c), v)
<1>1. Fresh(Tell(c, "ERR_D"), v)
  BY FreshShape, ErrorTold, QuietFresh
<1> QED BY <1>1, ReestablishFresh DEF RecvFRMR

LEMMA RejectFresh ==
  ASSUME NEW c, NEW v, Fresh(c, v), NEW f
  PROVE  /\ Fresh(SendFRMR(c, f.pf), v) /\ Fresh(BadU(c, f), v)
         /\ Fresh(UnknownU(c, f), v) /\ Fresh(RecvSX(c, f), v)
<1>1. Fresh(SendFRMR(c, f.pf), v) /\ Shaped(SendFRMR(c, f.pf))
  BY FreshShape, SendFRMRTold, QuietFresh
<1>2. Fresh(Tell(SendFRMR(c, f.pf), "ERR_N"), v) /\ Fresh(Tell(SendFRMR(c, f.pf), "ERR_L"), v)
  BY <1>1, ErrorTold, QuietFresh
<1> QED BY <1>1, <1>2 DEF BadU, UnknownU, RecvSX

LEMMA RecvUProper ==
  ASSUME NEW c, NEW v, Fresh(c, v), c.L3_req \in BOOLEAN, c.recvok \in BOOLEAN,
         NEW f \in Frame, f.t \in UCodes, Tame(f), ~Broadcast
  PROVE  Proper(RecvU(c, f), v)
<1>1. \/ RecvU(c, f) \in {SendFRMR(c, f.pf), BadU(c, f), UnknownU(c, f), RecvUI(c, f), c,
                          RecvFRMR(c), RecvUA(c, f)}
      \/ f.t = "SABM" /\ RecvU(c, f) = RecvSABM(c, f)
      \/ f.t = "DISC" /\ RecvU(c, f) = RecvDISC(c, f)
      \/ f.t = "DM" /\ RecvU(c, f) = RecvDM(c, f)
  BY DEF RecvU, KnownU
<1>2. f.pf \in BOOLEAN
  BY DEF Frame
<1>3. Proper(RecvUA(c, f), v)
  BY <1>2, RecvUAProper
<1>4. Fresh(SendFRMR(c, f.pf), v) /\ Fresh(BadU(c, f), v) /\ Fresh(UnknownU(c, f), v)
      /\ Fresh(RecvUI(c, f), v) /\ Fresh(RecvFRMR(c), v)
  BY RejectFresh, RecvUIFresh, RecvFRMRFresh
<1>5. f.t = "SABM" => Proper(RecvSABM(c, f), v)
  BY RecvSABMProper DEF Tame
<1>6. f.t = "DISC" => Fresh(RecvDISC(c, f), v)
  BY RecvDISCFresh DEF Tame
<1>7. f.t = "DM" => Fresh(RecvDM(c, f), v)
  BY RecvDMFresh DEF Tame
<1> QED BY <1>1, <1>3, <1>4, <1>5, <1>6, <1>7, FreshShape

LEMMA RecvProper ==
  ASSUME NEW c, Good(FALSE, c), NEW v, Fresh(c, v), NEW f \in Frame, Tame(f), ~Broadcast
  PROVE  Proper(Recv(c, f), v)
<1> DEFINE s == SendFRMR(c, f.pf)
           d == Dispatch(c, f)
<1>1. c.L3_req \in BOOLEAN /\ c.recvok \in BOOLEAN
  BY Fields DEF Good
<1>2. Proper(s, v) /\ Proper(c, v)
  BY RejectFresh, FreshShape
<1>3. ASSUME ~Malformed(f) PROVE Proper(CheckPending(d), v)
  <2>1. \/ d \in {RecvI(c, f), RecvRR(c, f), RecvRNR(c, f), RecvREJ(c, f), RecvSX(c, f)}
        \/ f.t \in UCodes /\ d = RecvU(c, f)
    BY <1>3 DEF Dispatch, Malformed, Frame, SCodes, UCodes
  <2>2. f.t \in UCodes => Proper(RecvU(c, f), v)
    BY <1>1, RecvUProper
  <2>3. Fresh(RecvI(c, f), v) /\ Fresh(RecvRR(c, f), v) /\ Fresh(RecvRNR(c, f), v)
        /\ Fresh(RecvREJ(c, f), v) /\ Fresh(RecvSX(c, f), v)
    BY RecvIFresh, RecvSFresh, RejectFresh
  <2>4. Good(FALSE, d)
    BY <1>3, DispatchOK
  <2> HIDE DEF d
  <2>5. Proper(d, v)
    BY <2>1, <2>2, <2>3, FreshShape
  <2> QED BY <2>4, <2>5, CheckPendingFresh DEF Good
<1> HIDE DEF s, d
<1> QED BY <1>2, <1>3 DEF Recv, s, d

-----------------------------------------------------------------------------
(* Calls of the user. *)
LEMMA SendFresh ==
  ASSUME NEW c \in Context, NEW v, Fresh(c, v), NEW d \in Data, ~Broadcast
  PROVE  Fresh(Send(c, 0, d), v)
<1> DEFINE b == 0 = 3
           q == [c EXCEPT !.asBroadcast = b]
           i == [q EXCEPT !.I = Append(@, d)]
<1>1. Send(c, 0, d) = CheckPending(i)
  <2>1. d # None
    BY NoneAssumption
  <2> QED BY <2>1 DEF Send
<1>4. b \in BOOLEAN
  OBVIOUS
<1> HIDE DEF b
<1>2. i \in Context
  <2>1. q \in Context /\ q.I = c.I
    BY <1>4 DEF Context
  <2>2. Append(c.I, d) \in Queue
    BY Fields DEF Queue
  <2> HIDE DEF q
  <2> QED BY <2>1, <2>2 DEF Context
<1>3. Quiet(c, i)
  BY FreshShape DEF Quiet, Alike, Shaped
<1> HIDE DEF i
<1> QED BY <1>1, <1>2, <1>3, QuietFresh, CheckPendingFresh

LEMMA PendingFresh ==
  ASSUME NEW c, Good(FALSE, c), ~Broadcast, NEW v, Fresh(c, v)
  PROVE  Fresh(PendingUnlessFailed(c), v) /\ Fresh(PendingAfterEstablish(c), v)
BY CheckPendingFresh, CheckPendingFromLowFresh
   DEF PendingUnlessFailed, PendingAfterEstablish, Good

LEMMA EstablishReqFresh ==
  ASSUME NEW c, Good(FALSE, c), ~Broadcast, NEW v, Fresh(c, v)
  PROVE  Fresh(EstablishReq(c), v)
<1> DEFINE d == Establish(c)
           e == [d EXCEPT !.L3_req = TRUE]
           g == [e EXCEPT !.errors = 0]
<1>1. EstablishReq(c) = IF c.status \in {"S_down", "S_await_down"} THEN PendingAfterEstablish(g)
                        ELSE PendingUnlessFailed(c)
  BY DEF EstablishReq, UserEstablish
<1>2. Good(FALSE, g)
  <2>1. d \in Context /\ Idle(d)
    BY EstablishOK DEF Good
  <2> HIDE DEF d
  <2>2. Good(FALSE, [d EXCEPT !.L3_req = TRUE, !.errors = 0])
    BY <2>1, IdleUpdate
  <2> QED BY <2>2
<1>3. Fresh(d, v) /\ Shaped(d)
  BY EstablishFresh, FreshShape
<1> HIDE DEF d
<1>4. Fresh(e, v) /\ Shaped(e)
  BY <1>3, AskedFresh
<1> HIDE DEF e
<1>5. Fresh(g, v)
  BY <1>4, FieldsTold, QuietFresh
<1> HIDE DEF g
<1> QED BY <1>1, <1>2, <1>5, PendingFresh

LEMMA ReleaseReqFresh ==
  ASSUME NEW c, Good(FALSE, c), ~Broadcast, NEW v, Fresh(c, v), c.status \in Connected
  PROVE  Fresh(ReleaseReq(c), v)
<1> DEFINE d == [c EXCEPT !.errors = 0]
           s == SetState(d, "S_await_down")
           i == FlushI(s)
           e == [i EXCEPT !.RC = 0]
           g == Xmit(e, Unnumbered("DISC", TRUE, TRUE))
           t3 == g.T3 /\ c.status = "S_recover"
           h == [g EXCEPT !.T1 = TRUE, !.T3 = t3]
<1>1. ReleaseReq(c) = PendingUnlessFailed(h)
  BY DEF ReleaseReq, Connected
<1>2. d \in Context /\ Mute(d)
  <2>1. 0 \in Counts
    BY ErrorAssumption DEF Counts
  <2>2. Quiet(c, d)
    BY FreshShape, FieldsTold
  <2> QED BY <2>1, <2>2, FreshShape, QuietMute DEF Good, Context
<1> HIDE DEF d
<1>3. s \in Context /\ Mute(s) /\ s.status = "S_await_down" /\ Shaped(s)
  BY <1>2, SetStateOK, StateMute DEF Status, Mute
<1> HIDE DEF s
<1>4. i \in Context /\ Mute(i) /\ i.status = "S_await_down" /\ Shaped(i)
  BY <1>3, FlushIOK, FieldsTold, QuietMute
<1> HIDE DEF i
<1>5. e \in Context /\ Mute(e) /\ e.status = "S_await_down" /\ Shaped(e)
  <2>1. e \in Context
    BY <1>4, RetriesOK DEF Context
  <2>2. Quiet(i, e)
    BY <1>4, FieldsTold
  <2> QED BY <1>4, <2>1, <2>2, QuietMute
<1> HIDE DEF e
<1>6. g \in Context /\ Mute(g) /\ g.status = "S_await_down" /\ Shaped(g)
  <2>1. g \in Context
    BY <1>5, XmitOK, UFrameOK DEF UCodes
  <2>2. Quiet(e, g)
    BY <1>5, XmitTold, TameOK DEF Unnumbered
  <2> QED BY <1>5, <2>1, <2>2, QuietMute
<1> HIDE DEF g
<1>7. t3 \in BOOLEAN
  OBVIOUS
<1> HIDE DEF t3
<1>8. h \in Context /\ h.T1 = TRUE /\ Quiet(g, h)
  BY <1>6, <1>7 DEF Context, Quiet, Alike, Shaped
<1> HIDE DEF h
<1>9. Mute(h) /\ h.status = "S_await_down"
  BY <1>6, <1>8, QuietMute
<1>10. Good(FALSE, h)
  BY <1>8, <1>9, IdleGood DEF Idle
<1>11. Fresh(h, v)
  BY <1>9, GoingFresh
<1> QED BY <1>1, <1>10, <1>11, PendingFresh

-----------------------------------------------------------------------------
(* The link.  What holds of one side between two calls: the entity is what *)
(* X75LibProofs says, it agrees with its user in both directions, and what *)
(* it has sent is polite.                                                  *)
SideOK(s) ==
  /\ Good(TRUE, st[s]) /\ st[s] = Settled(st[s])
  /\ Agreed(st[s], view[s]) /\ (st[s].status = "S_down" => view[s] = "down")
  /\ Polite(wire[s])

LinkTyped ==
  /\ st \in [Side -> Context] /\ wire \in [Side -> Seq(Frame)]
  /\ full \in [Side -> BOOLEAN] /\ sent \in [Side -> Nat]
  /\ got \in [Side -> Seq(Data)] /\ view \in [Side -> {"up", "down"}]
  /\ kept \in [Side -> SUBSET Data]

LinkInv == LinkTyped /\ \A s \in Side : SideOK(s)

LEMMA OtherSide ==
  ASSUME NEW s \in Side
  PROVE  Other(s) \in Side /\ Other(s) # s
<1>1. \E r \in Side : r # s
  BY LinkAssumption
<1> QED BY <1>1 DEF Other

LEMMA EnvOK ==
  ASSUME LinkTyped, NEW s \in Side
  PROVE  Env(s) \in Answers /\ [Env(s) EXCEPT !.space = 2] \in Answers
<1>1. Len(wire[s]) \in Nat /\ Cap \in Nat
  BY LinkAssumption DEF LinkTyped
<1>2. (IF Len(wire[s]) < Cap THEN Cap - Len(wire[s]) ELSE 0) \in Nat
  BY <1>1
<1>3. "EIO" \in Failures /\ Cap + 4 \in Nat /\ (IF full[s] THEN 0 ELSE 2) \in Nat
  BY <1>1 DEF Failures, Errors
<1> QED BY <1>2, <1>3 DEF Env, Answers

(* What a call finds. *)
LEMMA LoadOK ==
  ASSUME NEW s \in Side, SideOK(s), NEW e \in Answers, NEW c, c = Call(st[s], e)
  PROVE  /\ Good(TRUE, c) /\ Good(FALSE, c) /\ c \in Context /\ Guarded(c)
         /\ c.L3_req \in BOOLEAN /\ c.recvok \in BOOLEAN /\ c.status = st[s].status
         /\ Agreed(c, view[s]) /\ Fresh(c, view[s])
<1> DEFINE k == st[s]
<1>1. Good(TRUE, k) /\ Agreed(k, view[s]) /\ Shaped(k) /\ k.status \in Status
  BY AgreedShape DEF SideOK
<1>2. k.told = <<>> /\ k.out = <<>>
  <2>1. Settled(k).told = <<>> /\ Settled(k).out = <<>>
    BY <1>1, SettledTold
  <2> QED BY <2>1 DEF SideOK
<1>3. k.status = "S_down" => view[s] = "down"
  BY DEF SideOK
<1> HIDE DEF k
<1>4. Good(TRUE, c) /\ Quiet(k, c)
  BY <1>1, CallOK, LoadTold DEF k
<1>5. Polite(k.out) /\ ~IsTold(k.told, UpInds)
  <2>1. <<>> \in Seq({})
    OBVIOUS
  <2> QED BY <1>2, <2>1 DEF Polite, IsTold
<1>6. Fresh(k, view[s])
  BY <1>1, <1>3, <1>5 DEF Fresh, Mute, Knows
<1>7. Fresh(c, view[s]) /\ c.status = k.status /\ Agreed(c, view[s])
  BY <1>1, <1>4, <1>6, QuietFresh, QuietAgreed
<1>8. c \in Context /\ Guarded(c) /\ Good(FALSE, c)
  BY <1>4 DEF Good
<1> QED BY <1>4, <1>7, <1>8, Fields DEF k

(* What it leaves behind. *)
LEMMA ReturnOK ==
  ASSUME LinkInv, NEW s \in Side, NEW c, Good(TRUE, c), Agreed(c, view[s]), Proper(c, view[s]),
         NEW net \in [Side -> Seq(Frame)], \A r \in Side : Polite(net[r]),
         Return(s, c, net), full' \in [Side -> BOOLEAN], sent' \in [Side -> Nat]
  PROVE  LinkInv'
<1> DEFINE k == Settled(c)
           w == Viewed(c, view[s])
           g == [i \in 1 .. Len(c.up) |-> c.up[i][2]]
           q == IF GivesUp(s, c) THEN kept[s] \cup Queued(c) ELSE kept[s]
<1>1. /\ c \in Context /\ c.out \in Seq(Frame) /\ c.up \in Seq(Kinds \X Data)
      /\ Len(c.up) \in Nat
  BY Fields DEF Good, FrameSeq, BlockSeq, Block
<1>2. Good(TRUE, k) /\ Settled(k) = k /\ Agreed(k, w)
  BY SettledOK, ViewedAgreed
<1>3. k.status = c.status
  BY SettledTold DEF Proper
<1>4. w \in {"up", "down"} /\ (c.status = "S_down" => w = "down")
  BY DEF Viewed, Proper, Knows, LinkInv, LinkTyped
<1>5. k \in Context
  BY <1>2 DEF Good
<1>6. Polite(net[s] \o c.out) /\ net[s] \o c.out \in Seq(Frame)
  BY <1>1, PoliteMore, ProperShape
<1>7. got[s] \o g \in Seq(Data)
  <2>1. \A i \in 1 .. Len(c.up) : c.up[i][2] \in Data
    BY <1>1
  <2>2. got[s] \in Seq(Data)
    BY DEF LinkInv, LinkTyped
  <2>3. g = [i \in 1 .. Len(c.up) |-> g[i]] /\ \A i \in 1 .. Len(c.up) : g[i] \in Data
    BY <2>1
  <2> HIDE DEF g
  <2> QED BY <1>1, <2>2, <2>3, ConcatOK
<1>7a. q \in SUBSET Data
  <2>1. c.I \in Seq(Data) /\ kept[s] \in SUBSET Data
    BY <1>1, Fields DEF Queue, LinkInv, LinkTyped
  <2>2. \A i \in 1 .. Len(c.I) : c.I[i] \in Data
    BY <2>1
  <2> QED BY <2>1, <2>2 DEF Queued
<1>8. /\ st' = [st EXCEPT ![s] = k] /\ wire' = [net EXCEPT ![s] = net[s] \o c.out]
      /\ got' = [got EXCEPT ![s] = got[s] \o g] /\ view' = [view EXCEPT ![s] = w]
      /\ kept' = [kept EXCEPT ![s] = q]
  BY DEF Return
<1> HIDE DEF k, w, g, q
<1>9. LinkTyped'
  BY <1>4, <1>5, <1>6, <1>7, <1>7a, <1>8 DEF LinkInv, LinkTyped
<1>10. ASSUME NEW r \in Side PROVE SideOK(r)'
  <2>1. CASE r = s
    <3>1. st[r]' = k /\ view[r]' = w /\ wire[r]' = net[s] \o c.out
      BY <1>8, <2>1 DEF LinkInv, LinkTyped
    <3> QED BY <1>2, <1>3, <1>4, <1>6, <3>1 DEF SideOK
  <2>2. CASE r # s
    <3>1. st[r]' = st[r] /\ view[r]' = view[r] /\ wire[r]' = net[r]
      BY <1>8, <2>2 DEF LinkInv, LinkTyped
    <3>2. SideOK(r)
      BY DEF LinkInv
    <3> QED BY <3>1, <3>2 DEF SideOK
  <2> QED BY <2>1, <2>2
<1> QED BY <1>9, <1>10 DEF LinkInv

(* The frames under way stay polite when the first has left. *)
LEMMA TakeOK ==
  ASSUME LinkInv, NEW s \in Side, wire[s] # <<>>
  PROVE  /\ Head(wire[s]) \in Frame /\ Tame(Head(wire[s]))
         /\ [wire EXCEPT ![s] = Tail(wire[s])] \in [Side -> Seq(Frame)]
         /\ \A r \in Side : Polite([wire EXCEPT ![s] = Tail(wire[s])][r])
<1> DEFINE w == wire[s]
           x == Tail(w)
<1>1. w \in Seq(Frame) /\ w # <<>> /\ Polite(w) /\ wire \in [Side -> Seq(Frame)]
  BY DEF LinkInv, LinkTyped, SideOK
<1>2. /\ Len(w) \in Nat \ {0} /\ Head(w) = w[1] /\ w[1] \in Frame
      /\ x \in Seq(Frame) /\ Len(x) = Len(w) - 1
      /\ \A i \in 1 .. Len(x) : x[i] = w[i + 1]
  BY <1>1
<1> HIDE DEF x
<1>3. Tame(w[1])
  BY <1>1, <1>2 DEF Polite
<1>4. ASSUME NEW i \in 1 .. Len(x) PROVE Tame(x[i])
  BY <1>1, <1>2 DEF Polite
<1>5. Polite(x)
  BY <1>2, <1>4 DEF Polite
<1>6. \A r \in Side : Polite(wire[r])
  BY DEF LinkInv, SideOK
<1> HIDE DEF w
<1>7. [wire EXCEPT ![s] = x] \in [Side -> Seq(Frame)]
  BY <1>1, <1>2
<1>8. \A r \in Side : Polite([wire EXCEPT ![s] = x][r])
  BY <1>1, <1>5, <1>6
<1> QED BY <1>2, <1>3, <1>7, <1>8 DEF w, x

(* A call made on the link as it is. *)
LEMMA StayOK ==
  ASSUME LinkInv
  PROVE  wire \in [Side -> Seq(Frame)] /\ \A r \in Side : Polite(wire[r])
BY DEF LinkInv, LinkTyped, SideOK

LEMMA LinkInit == Init => LinkInv
<1> SUFFICES ASSUME Init PROVE LinkInv
  OBVIOUS
<1>1. /\ Good(TRUE, InitConn) /\ Settled(InitConn) = InitConn
      /\ Shaped(InitConn) /\ InitConn.status = "S_down"
  BY InitConnOK
<1>2. InitConn \in Context
  BY <1>1 DEF Good
<1>3. Agreed(InitConn, "down")
  BY <1>1, DownAgreed
<1> DEFINE e == <<>>
<1>4. e \in Seq(Frame) /\ e \in Seq(Data) /\ Polite(e)
  <2>1. e \in Seq({}) /\ Len(e) = 0
    OBVIOUS
  <2> QED BY <2>1 DEF Polite
<1> HIDE DEF e
<1>5. /\ st = [s \in Side |-> InitConn] /\ wire = [s \in Side |-> e]
      /\ full = [s \in Side |-> FALSE] /\ sent = [s \in Side |-> 0]
      /\ got = [s \in Side |-> e] /\ view = [s \in Side |-> "down"]
      /\ kept = [s \in Side |-> {}]
  BY DEF Init, e
<1>6. LinkTyped
  BY <1>2, <1>4, <1>5 DEF LinkTyped
<1>7. \A s \in Side : SideOK(s)
  BY <1>1, <1>3, <1>4, <1>5 DEF SideOK
<1> QED BY <1>6, <1>7 DEF LinkInv

LEMMA DeliverInv ==
  ASSUME ~Broadcast, LinkInv, NEW s \in Side, Deliver(s)
  PROVE  LinkInv'
<1> DEFINE r == Other(s)
           c == Call(st[r], Env(r))
           f == Head(wire[s])
           net == [wire EXCEPT ![s] = Tail(wire[s])]
<1>1. r \in Side
  BY OtherSide
<1>2. wire[s] # <<>> /\ Return(r, Recv(c, f), net) /\ UNCHANGED <<full, sent, used>>
  BY DEF Deliver
<1> HIDE DEF r
<1>3. f \in Frame /\ Tame(f) /\ net \in [Side -> Seq(Frame)] /\ \A x \in Side : Polite(net[x])
  BY <1>2, TakeOK
<1>4. Env(r) \in Answers /\ SideOK(r)
  BY <1>1, EnvOK DEF LinkInv
<1>5. /\ Good(TRUE, c) /\ Good(FALSE, c) /\ c.L3_req \in BOOLEAN /\ c.recvok \in BOOLEAN
      /\ Agreed(c, view[r]) /\ Fresh(c, view[r])
  BY <1>1, <1>4, LoadOK
<1> HIDE DEF c, f, net
<1>6. Good(TRUE, Recv(c, f))
  BY <1>3, <1>5, RecvOK
<1>7. Agreed(Recv(c, f), view[r])
  BY <1>3, <1>5, RecvTold DEF Tame
<1>8. Proper(Recv(c, f), view[r])
  BY <1>3, <1>5, RecvProper
<1>9. full' \in [Side -> BOOLEAN] /\ sent' \in [Side -> Nat]
  BY <1>2 DEF LinkInv, LinkTyped
<1> QED BY <1>1, <1>2, <1>3, <1>6, <1>7, <1>8, <1>9, ReturnOK

LEMMA LoseInv ==
  ASSUME LinkInv, NEW s \in Side, Lose(s)
  PROVE  LinkInv'
<1> DEFINE net == [wire EXCEPT ![s] = Tail(wire[s])]
<1>1. wire[s] # <<>> /\ wire' = net /\ UNCHANGED <<st, full, sent, got, view, kept>>
  BY DEF Lose
<1>2. net \in [Side -> Seq(Frame)] /\ \A x \in Side : Polite(net[x])
  BY <1>1, TakeOK
<1> HIDE DEF net
<1>3. LinkTyped'
  BY <1>1, <1>2 DEF LinkInv, LinkTyped
<1>4. ASSUME NEW x \in Side PROVE SideOK(x)'
  BY <1>1, <1>2 DEF LinkInv, SideOK
<1> QED BY <1>3, <1>4 DEF LinkInv

(* The other steps are calls at s on the link as it is. *)
LEMMA CallInv ==
  ASSUME ~Broadcast, LinkInv, NEW s \in Side, NEW e \in Answers, NEW c, c = Call(st[s], e),
         full' \in [Side -> BOOLEAN], sent' \in [Side -> Nat],
         \/ Return(s, T1Expires(c), wire)
         \/ Return(s, T3Expires(c), wire)
         \/ \E d \in Data : Return(s, Send(c, 0, d), wire)
         \/ Return(s, EstablishReq(c), wire)
         \/ st[s].status \in Connected /\ Return(s, ReleaseReq(c), wire)
         \/ Return(s, CheckPending(c), wire)
  PROVE  LinkInv'
<1>1. SideOK(s) /\ wire \in [Side -> Seq(Frame)] /\ \A r \in Side : Polite(wire[r])
  BY StayOK DEF LinkInv
<1>2. /\ Good(TRUE, c) /\ Good(FALSE, c) /\ c \in Context /\ Guarded(c)
      /\ c.status = st[s].status /\ Agreed(c, view[s]) /\ Fresh(c, view[s])
  BY <1>1, LoadOK
<1>3. Kept(TRUE, c)
  BY <1>2 DEF Good, Kept
<1>4. ASSUME NEW d, Good(TRUE, d), Agreed(d, view[s]), Fresh(d, view[s]), Return(s, d, wire)
      PROVE  LinkInv'
  BY <1>1, <1>4, FreshShape, ReturnOK
<1>5. CASE Return(s, T1Expires(c), wire)
  <2>1. Good(TRUE, T1Expires(c))
    BY <1>3, T1ExpiresOK
  <2>2. Agreed(T1Expires(c), view[s]) /\ Fresh(T1Expires(c), view[s])
    BY <1>2, T1ExpiresTold, T1ExpiresFresh
  <2> QED BY <1>4, <1>5, <2>1, <2>2
<1>6. CASE Return(s, T3Expires(c), wire)
  <2>1. Good(TRUE, T3Expires(c))
    BY <1>2, T3ExpiresOK
  <2>2. Agreed(T3Expires(c), view[s]) /\ Fresh(T3Expires(c), view[s])
    BY <1>2, T3ExpiresTold, T3ExpiresFresh
  <2> QED BY <1>4, <1>6, <2>1, <2>2
<1>7. ASSUME NEW d \in Data, Return(s, Send(c, 0, d), wire) PROVE LinkInv'
  <2>1. 0 \in Kinds /\ d \in Data \cup {None}
    BY DEF Kinds
  <2>2. Good(TRUE, Send(c, 0, d)) /\ Agreed(Send(c, 0, d), view[s])
    BY <1>2, <2>1, SendOK, SendTold
  <2>3. Fresh(Send(c, 0, d), view[s])
    BY <1>2, SendFresh
  <2> QED BY <1>4, <1>7, <2>2, <2>3
<1>8. CASE Return(s, EstablishReq(c), wire)
  <2>1. Good(TRUE, EstablishReq(c))
    BY <1>2, EstablishReqOK
  <2>2. Agreed(EstablishReq(c), view[s]) /\ Fresh(EstablishReq(c), view[s])
    BY <1>2, EstablishReqTold, EstablishReqFresh
  <2> QED BY <1>4, <1>8, <2>1, <2>2
<1>9. CASE st[s].status \in Connected /\ Return(s, ReleaseReq(c), wire)
  <2>1. Good(TRUE, ReleaseReq(c))
    BY <1>2, ReleaseReqOK
  <2>2. Agreed(ReleaseReq(c), view[s]) /\ Fresh(ReleaseReq(c), view[s])
    BY <1>2, <1>9, ReleaseReqTold, ReleaseReqFresh
  <2> QED BY <1>4, <1>9, <2>1, <2>2
<1>10. CASE Return(s, CheckPending(c), wire)
  <2>1. Good(TRUE, CheckPending(c))
    BY <1>2, CheckPendingOK
  <2>2. Agreed(CheckPending(c), view[s]) /\ Fresh(CheckPending(c), view[s])
    BY <1>2, CheckPendingAgreed, CheckPendingFresh
  <2> QED BY <1>4, <1>10, <2>1, <2>2
<1> QED BY <1>5, <1>6, <1>7, <1>8, <1>9, <1>10

LEMMA LinkStep ==
  ASSUME ~Broadcast, LinkInv, [Next]_vars
  PROVE  LinkInv'
<1>1. CASE UNCHANGED vars
  <2>1. LinkTyped'
    BY <1>1 DEF vars, LinkInv, LinkTyped
  <2>2. ASSUME NEW s \in Side PROVE SideOK(s)'
    BY <1>1 DEF vars, LinkInv, SideOK
  <2> QED BY <2>1, <2>2 DEF LinkInv
<1>2. CASE Next
  <2>1. PICK s \in Side :
          \/ Deliver(s) \/ Lose(s) \/ Timer1(s) \/ Timer3(s) \/ SendMessage(s)
          \/ Connect(s) \/ Release(s) \/ Fill(s) \/ Drain(s) \/ Serve(s)
    BY <1>2 DEF Next
  <2> DEFINE c == Call(st[s], Env(s))
  <2>2. full \in [Side -> BOOLEAN] /\ sent \in [Side -> Nat] /\ LinkTyped
    BY DEF LinkInv, LinkTyped
  <2>3. Env(s) \in Answers /\ [Env(s) EXCEPT !.space = 2] \in Answers
    BY <2>2, EnvOK
  <2> HIDE DEF c
  <2>4. CASE Deliver(s)
    BY <2>4, DeliverInv
  <2>5. CASE Lose(s)
    BY <2>5, LoseInv
  <2>6. CASE Timer1(s)
    BY <2>2, <2>3, <2>6, CallInv DEF Timer1
  <2>7. CASE Timer3(s)
    BY <2>2, <2>3, <2>7, CallInv DEF Timer3
  <2>8. CASE SendMessage(s)
    <3>1. /\ Return(s, Send(Call(st[s], Env(s)), 0, sent[s] + 1), wire) /\ sent[s] < MaxMsg[s]
          /\ sent' = [sent EXCEPT ![s] = @ + 1] /\ full' = full
      BY <2>8 DEF SendMessage
    <3>2. sent[s] + 1 \in Data
      <4>1. MaxMsg[s] \in Nat /\ 1 .. MaxMsg[s] \subseteq Data
        BY LinkAssumption
      <4>2. sent[s] + 1 \in 1 .. MaxMsg[s]
        BY <2>2, <3>1, <4>1
      <4> QED BY <4>1, <4>2
    <3>3. sent' \in [Side -> Nat]
      BY <2>2, <3>1
    <3> QED BY <2>2, <2>3, <3>1, <3>2, <3>3, CallInv
  <2>9. CASE Connect(s)
    BY <2>2, <2>3, <2>9, CallInv DEF Connect
  <2>10. CASE Release(s)
    BY <2>2, <2>3, <2>10, CallInv DEF Release
  <2>11. CASE Fill(s)
    <3>1. full' \in [Side -> BOOLEAN] /\ UNCHANGED <<st, wire, sent, got, view, kept>>
      BY <2>2, <2>11 DEF Fill
    <3>2. LinkTyped'
      BY <2>2, <3>1 DEF LinkTyped
    <3>3. ASSUME NEW x \in Side PROVE SideOK(x)'
      BY <3>1 DEF LinkInv, SideOK
    <3> QED BY <3>2, <3>3 DEF LinkInv
  <2>12. CASE Drain(s)
    <3>1. full' \in [Side -> BOOLEAN] /\ sent' = sent
          /\ Return(s, CheckPending(Call(st[s], [Env(s) EXCEPT !.space = 2])), wire)
      BY <2>2, <2>12 DEF Drain
    <3> QED BY <2>2, <2>3, <3>1, CallInv
  <2>13. CASE Serve(s)
    BY <2>2, <2>3, <2>13, CallInv DEF Serve
  <2> QED BY <2>1, <2>4, <2>5, <2>6, <2>7, <2>8, <2>9, <2>10, <2>11, <2>12, <2>13
<1> QED BY <1>1, <1>2

(* Whatever is lost and whenever either user connects or releases, a link  *)
(* is well formed: both entities, the frames under way, what each user has *)
(* been given.                                                             *)
THEOREM LinkTypesKept == ASSUME ~Broadcast PROVE Spec => []TypeOK
<1>1. LinkInv => TypeOK
  BY DEF LinkInv, LinkTyped, SideOK, TypeOK
<1> QED BY <1>1, LinkInit, LinkStep, PTL DEF Spec

(* On a link neither side waits without a timer, and the frames that are   *)
(* outstanding are the head of its queue and fit in the window: nothing    *)
(* forces a connection up here, so no side condition is left.              *)
THEOREM LinkGuarded ==
  ASSUME ~Broadcast
  PROVE  Spec => [](\A s \in Side : Guarded(st[s]) /\ Windowed(st[s]))
<1>1. LinkInv => \A s \in Side : Guarded(st[s]) /\ Windowed(st[s])
  BY DEF LinkInv, SideOK, Good
<1> QED BY <1>1, LinkInit, LinkStep, PTL DEF Spec

(* Whatever is lost, however often the link is reset or given up, and      *)
(* whatever messages cross: a user whose entity is connected thinks so,    *)
(* and one whose entity is down knows it.                                  *)
THEOREM ViewsAgree == ASSUME ~Broadcast PROVE Spec => []ViewAgrees
<1>1. LinkInv => ViewAgrees
  <2> SUFFICES ASSUME LinkInv, NEW s \in Side
               PROVE  /\ st[s].status \in Connected => view[s] = "up"
                      /\ st[s].status = "S_down" => view[s] = "down"
    BY DEF ViewAgrees
  <2>1. SideOK(s)
    BY DEF LinkInv
  <2>2. st[s].told = <<>>
    <3>1. Settled(st[s]).told = <<>>
      BY <2>1, AgreedShape, SettledTold DEF SideOK
    <3> QED BY <2>1, <3>1 DEF SideOK
  <2>3. st[s].status \in Connected => SeenUp(st[s], view[s])
    BY <2>1, AgreedShape DEF SideOK
  <2> QED BY <2>1, <2>2, <2>3 DEF SideOK, SeenUp, IsTold
<1> QED BY <1>1, LinkInit, LinkStep, PTL DEF Spec

=============================================================================
