------------------------------- MODULE X75Lib -------------------------------
(***************************************************************************)
(* The X.75 / X.25 / Q.921 support library, src/ksupport/x75lib.c: one     *)
(* LAPB entity ("struct _x75") and the functions that work on it.          *)
(*                                                                         *)
(* The module has no variables.  Every C function is an operator from a    *)
(* context to a context: a record with the fields of struct _x75 and, for  *)
(* the duration of one call, what the callbacks answer and what the call   *)
(* hands to them:                                                          *)
(*   room    how often cansend still says that the link takes a frame      *)
(*   accept  how many frames send still takes before it fails              *)
(*   fail    the error send then returns                                   *)
(*   space   how many blocks canrecv still sees room for upstream          *)
(*   recvok  whether recv takes the data of an I or UI frame               *)
(*   out     the frames handed to send, in order                           *)
(*   told    the indications given to state, in order                      *)
(*   up      the data given to recv, in order, with its kind               *)
(*   woke    whether backenable was called                                 *)
(*   ret     what the last send, or a function that failed, returned       *)
(* Loops are in closed form: sending min(n, ...) frames, or dropping the   *)
(* m acknowledged ones, is one step of the operator.                       *)
(***************************************************************************)
EXTENDS Integers, Sequences

CONSTANTS
  Mod,        \* sequence numbers run modulo 8, or 128 if state->wide
  K,          \* state->k, the window
  N1,         \* state->N1, how often a command is repeated
  ErrStep,    \* what one establish() adds to state->errors: 10
  ErrMax,     \* the value of state->errors at which it gives up: 100
  Poll,       \* state->poll: keep asking while the peer says RNR
  Broadcast,  \* state->broadcast: this entity never has a connection
  Data,       \* the payloads
  None        \* "mb == NULL": no payload

ASSUME ModAssumption == Mod \in Nat /\ Mod > 1
ASSUME WindowAssumption == K \in Nat /\ 0 < K /\ K < Mod
ASSUME RetryAssumption == N1 \in Nat \ {0}
ASSUME ErrorAssumption == ErrStep \in Nat \ {0} /\ ErrMax \in Nat /\ ErrStep < ErrMax
ASSUME FlagAssumption == Poll \in BOOLEAN /\ Broadcast \in BOOLEAN
ASSUME NoneAssumption == None \notin Data

-----------------------------------------------------------------------------
(* Types. *)

Status == {"S_down", "S_await_up", "S_await_down", "S_up", "S_recover"}
Connected == {"S_up", "S_recover"}
SeqNo == 0 .. Mod - 1

(* SABMX is the SABM/SABME of the mode this side is not configured for, SX *)
(* and UX are undefined codes, Half is an I or S frame of the extended     *)
(* mode that ends before its second control octet.                         *)
SCodes == {"RR", "RNR", "REJ", "SX"}
UCodes == {"SABM", "SABMX", "DISC", "DM", "UA", "UI", "XID", "FRMR", "UX"}
Frame == [t : {"I", "Half"} \cup SCodes \cup UCodes, cmd : BOOLEAN,
          pf : BOOLEAN, nr : SeqNo, ns : SeqNo,
          body : Data \cup {None}, bc : BOOLEAN]

Indications == {"DL_ESTABLISH_IND", "DL_ESTABLISH_CONF", "DL_RELEASE_IND",
                "DL_RELEASE_CONF", "PH_ACTIVATE_IND", "PH_ACTIVATE_CONF",
                "PH_DISCONNECT_IND", "MDL_REMOVE_REQ",
                "ERR_A", "ERR_B", "ERR_CD", "ERR_D", "ERR_E", "ERR_F", "ERR_G",
                "ERR_H", "ERR_I", "ERR_J", "ERR_L", "ERR_N"}
Errors == {"ok", "EAGAIN", "EIO", "ENXIO", "ETIMEDOUT", "ENOENT"}
Failures == Errors \ {"ok"}
Kinds == {0, 1, 3}            \* I, UI, broadcast UI
Block == Kinds \X Data
Queue == Seq(Data)
FrameSeq == Seq(Frame)
IndSeq == Seq(Indications)
BlockSeq == Seq(Block)
Budget == Nat
Retries == 0 .. N1
Counts == 0 .. ErrMax - 1

Context ==
  [status : Status, I : Queue, UI : Queue,
   v_a : SeqNo, v_s : SeqNo, v_r : SeqNo, RC : Retries, errors : Counts,
   L3_req : BOOLEAN, RNR : BOOLEAN, sentRR : BOOLEAN, ack_pend : BOOLEAN,
   inREJ : BOOLEAN, trypoll : BOOLEAN, T1 : BOOLEAN, T3 : BOOLEAN,
   asBroadcast : BOOLEAN,
   room : Budget, accept : Budget, fail : Failures, space : Budget, recvok : BOOLEAN,
   out : FrameSeq, told : IndSeq, up : BlockSeq,
   woke : BOOLEAN, ret : Errors]

(* What x75_initconn leaves behind, outside any call. *)
InitConn ==
  [status |-> "S_down", I |-> <<>>, UI |-> <<>>, v_a |-> 0, v_s |-> 0, v_r |-> 0,
   RC |-> 0, errors |-> 0, L3_req |-> FALSE, RNR |-> FALSE, sentRR |-> TRUE,
   ack_pend |-> FALSE, inREJ |-> FALSE, trypoll |-> FALSE, T1 |-> FALSE,
   T3 |-> FALSE, asBroadcast |-> FALSE,
   room |-> 0, accept |-> 0, fail |-> "EIO", space |-> 0, recvok |-> FALSE,
   out |-> <<>>, told |-> <<>>, up |-> <<>>, woke |-> FALSE, ret |-> "ok"]

-----------------------------------------------------------------------------
(* Sequence numbers and queues. *)

Least(a, b) == IF a <= b THEN a ELSE b
Wrap(v) == IF v >= Mod THEN v - Mod ELSE v
Dist(a, b) == IF a <= b THEN b - a ELSE b - a + Mod
Drop(q, n) == SubSeq(q, n + 1, Len(q))

Outstanding(c) == Dist(c.v_a, c.v_s)

-----------------------------------------------------------------------------
(* Callbacks and frames. *)

Tell(c, ind) == [c EXCEPT !.told = Append(@, ind)]
Wake(c) == [c EXCEPT !.woke = TRUE]

Xmit(c, f) ==
  IF c.accept > 0
    THEN [c EXCEPT !.out = Append(@, f), !.accept = @ - 1, !.ret = "ok"]
    ELSE [c EXCEPT !.ret = c.fail]

Supervisory(t, cmd, pf, nr) ==
  [t |-> t, cmd |-> cmd, pf |-> pf, nr |-> nr, ns |-> 0, body |-> None, bc |-> FALSE]
Unnumbered(t, cmd, pf) == Supervisory(t, cmd, pf, 0)
Information(d, ns, nr) ==
  [t |-> "I", cmd |-> TRUE, pf |-> FALSE, nr |-> nr, ns |-> ns, body |-> d, bc |-> FALSE]
UIFrame(d, bc) ==
  [t |-> "UI", cmd |-> TRUE, pf |-> FALSE, nr |-> 0, ns |-> 0, body |-> d, bc |-> bc]

(* send_FRMR; its information field is not modelled. *)
SendFRMR(c, pf) == Xmit(c, Unnumbered("FRMR", FALSE, pf))

-----------------------------------------------------------------------------
(* State changes. *)

SetState(c, s) == [c EXCEPT !.status = s, !.errors = IF s = "S_down" THEN 0 ELSE @]
StopT1(c) == [c EXCEPT !.T1 = FALSE]
StartT1(c) == [c EXCEPT !.T1 = TRUE]
T1OverIdle(c) == [c EXCEPT !.T1 = FALSE]               \* mutant: T3 not started
T1Over(c) == [c EXCEPT !.T1 = FALSE, !.T3 = TRUE]   \* stop_T(1), start_T(3)
T3Over(c) == [c EXCEPT !.T1 = TRUE, !.T3 = FALSE]   \* start_T(1), stop_T(3)

KillMe(c, ind) ==
  LET d == SetState([c EXCEPT !.I = <<>>, !.UI = <<>>, !.T1 = FALSE, !.T3 = FALSE], "S_down")
  IN  IF c.status = "S_down" THEN d ELSE Tell(d, ind)

ClrExcept(c) ==
  [c EXCEPT !.RNR = FALSE, !.sentRR = TRUE, !.inREJ = FALSE, !.ack_pend = FALSE]

FlushIHalf(c) == [c EXCEPT !.I = <<>>, !.v_r = 0, !.woke = TRUE]  \* mutant: V(S) kept
FlushI(c) == [c EXCEPT !.I = <<>>, !.v_r = 0, !.v_s = 0, !.v_a = 0, !.woke = TRUE]

Retransmit(c) == [c EXCEPT !.v_s = c.v_a]

(* Xestablish, in its three outcomes. *)
GiveUp(c) ==
  [Tell(Tell(SetState(c, "S_down"), "ERR_G"), "DL_RELEASE_IND") EXCEPT !.ret = "ETIMEDOUT"]

EstablishUntimed(c) ==            \* mutant: T1 is not started
  LET d == [SetState(ClrExcept(c), "S_await_up") EXCEPT !.RC = 0]
  IN  IF c.errors + ErrStep >= ErrMax
        THEN GiveUp(d)
        ELSE Xmit([d EXCEPT !.errors = @ + ErrStep], Unnumbered("SABM", TRUE, TRUE))
Establish(c) ==
  IF Broadcast THEN [c EXCEPT !.ret = "ENXIO"]
  ELSE LET d == [SetState(ClrExcept(c), "S_await_up") EXCEPT !.RC = 0]
       IN  IF c.errors + ErrStep >= ErrMax
             THEN GiveUp(d)
             ELSE T3Over(Xmit([d EXCEPT !.errors = @ + ErrStep],
                              Unnumbered("SABM", TRUE, TRUE)))

(* establish() as every caller but the user's request has it. *)
Reestablish(c) == [Establish(c) EXCEPT !.L3_req = FALSE]

RecoverNR(c) == Reestablish(Tell(c, "ERR_J"))

-----------------------------------------------------------------------------
(* RR, RNR and REJ towards the peer. *)

CanRecv(c) == c.space > 0

(* An acknowledgement that went out; ack_pend stays if send failed. *)
Acked(c) == [c EXCEPT !.ack_pend = @ /\ c.ret # "ok"]
SendAck(c, t, cmd, pf) == Acked(Xmit(c, Supervisory(t, cmd, pf, c.v_r)))
ReadyCode(c) == IF c.sentRR THEN "RR" ELSE "RNR"

TellReady(c, cmd) ==
  LET d == [c EXCEPT !.sentRR = CanRecv(c)] IN SendAck(d, ReadyCode(d), cmd, TRUE)
Enquiry(c) == StartT1(TellReady(c, TRUE))
EnqResp(c) == TellReady(c, FALSE)

-----------------------------------------------------------------------------
(* x75_check_pending *)

UIReady(c) == Least(Len(c.UI), c.room)
UIFails(c) == UIReady(c) > c.accept

(* The UI loop; a frame send does not take goes back only for EAGAIN. *)
SendUI(c) ==
  LET n == Least(UIReady(c), c.accept)
  IN  [c EXCEPT
        !.out = @ \o [i \in 1 .. n |-> UIFrame(c.UI[i], c.asBroadcast)],
        !.UI = Drop(@, IF UIFails(c) /\ c.fail # "EAGAIN" THEN n + 1 ELSE n),
        !.room = @ - n, !.accept = @ - n,
        !.ret = IF UIFails(c) THEN c.fail ELSE @]

(* How many I frames the window, the queue and the link allow. *)
IReady(c) ==
  IF c.RNR \/ Outstanding(c) >= Least(K, Len(c.I)) THEN 0
  ELSE Least(Least(K, Len(c.I)) - Outstanding(c), c.room)
ISent(c) == Least(IReady(c), c.accept)

(* The I loop.  V(S) has advanced before send fails. *)
SendI(c) ==
  LET n == ISent(c)
      d == [c EXCEPT
             !.out = @ \o [i \in 1 .. n |->
                            Information(c.I[Outstanding(c) + i], Wrap(c.v_s + i - 1), c.v_r)],
             !.v_s = Wrap(@ + (IF IReady(c) > n THEN n + 1 ELSE n)),
             !.room = @ - n, !.accept = @ - n,
             !.ret = IF IReady(c) > n THEN c.fail ELSE @]
  IN  IF n > 0 /\ ~c.T1 THEN T3Over(d) ELSE d

(* The RR or RNR that no I frame carried, and the poll of a busy peer. *)
PollBusyPeer(c) ==
  IF c.RNR /\ Poll /\ c.trypoll THEN SendAck(c, ReadyCode(c), TRUE, TRUE) ELSE c

SendPendingAck(c, did) ==
  LET freed == ~c.sentRR /\ CanRecv(c)
      d == [c EXCEPT !.sentRR = CanRecv(c), !.ack_pend = @ \/ freed]
      e == IF d.ack_pend /\ (freed \/ ~did) THEN SendAck(d, ReadyCode(d), FALSE, FALSE) ELSE d
  IN  [PollBusyPeer(e) EXCEPT !.trypoll = FALSE]

CheckPending(c) ==
  LET u == SendUI(c)
      didUI == UIReady(c) > 0
  IN  CASE UIFails(c) -> u
        [] ~UIFails(c) /\ c.status = "S_up" -> SendPendingAck(SendI(u), ISent(u) > 0)
        [] ~UIFails(c) /\ c.status = "S_recover" -> SendPendingAck(u, didUI)
        [] ~UIFails(c) /\ c.status \notin Connected -> IF didUI THEN Wake(u) ELSE u

-----------------------------------------------------------------------------
(* The timers. *)

(* x75_T1 up to its call of x75_check_pending, one case per state. *)
AwaitUpTimeout(c) ==
  IF c.RC = 0 THEN StartT1([c EXCEPT !.RC = 1])
  ELSE IF c.RC < N1
    THEN LET d == Xmit(c, Unnumbered("SABM", TRUE, TRUE))
         IN  StartT1([d EXCEPT !.RC = IF d.ret = "EAGAIN" THEN @ ELSE @ + 1])
    ELSE SetState(Tell(Tell(FlushI(c), "ERR_G"), "DL_RELEASE_IND"), "S_down")

AwaitDownTimeout(c) ==
  IF c.RC < N1
    THEN StartT1(Xmit([c EXCEPT !.RC = @ + 1], Unnumbered("DISC", TRUE, TRUE)))
    ELSE SetState(Tell(Tell(c, "ERR_H"), "DL_RELEASE_CONF"), "S_down")

RecoverTimeout(c) ==
  IF c.RC < N1 THEN [Enquiry(c) EXCEPT !.RC = @ + 1]
  ELSE Reestablish(Tell(c, "ERR_I"))

T1Handler(c) ==
  CASE c.status = "S_await_up" -> AwaitUpTimeout(c)
    [] c.status = "S_up" -> SetState(Enquiry([c EXCEPT !.RC = 1]), "S_recover")
    [] c.status = "S_await_down" -> AwaitDownTimeout(c)
    [] c.status = "S_recover" -> RecoverTimeout(c)
    [] c.status = "S_down" -> c

T1Expires(c) == CheckPending(T1Handler(StopT1(c)))

T3Expires(c) ==
  LET d == [c EXCEPT !.T3 = FALSE]
  IN  IF c.status = "S_up" THEN [Enquiry(SetState(d, "S_recover")) EXCEPT !.RC = 0] ELSE d

(* x75_check_pending(state, 1): the lower layer came up or has room again. *)
CheckPendingFromLow(c) ==
  IF c.status = "S_await_up" /\ ~UIFails(c)
    THEN LET d == T1Expires(SendUI(c)) IN IF UIReady(c) > 0 THEN Wake(d) ELSE d
    ELSE CheckPending(c)

-----------------------------------------------------------------------------
(* Acknowledgements from the peer. *)

(* checkV: is N(R) between V(A) and V(S)? *)
CheckV(c, nr) ==
  IF c.v_a <= c.v_s THEN c.v_a <= nr /\ nr <= c.v_s
                    ELSE c.v_a <= nr \/ nr <= c.v_s

(* pull_up: drop the acknowledged frames.  It stops short of N(R), and then *)
(* wakes nobody, when the queue is empty or V(S) is reached before N(R).    *)
PullUp(c, nr) ==
  LET m == Least(Dist(c.v_a, nr), Least(Outstanding(c), Len(c.I)))
      d == [c EXCEPT !.I = Drop(@, m), !.v_a = Wrap(@ + m),
                     !.errors = IF @ > m THEN @ - m ELSE 0]
  IN  IF nr # c.v_a /\ m = Dist(c.v_a, nr) THEN Wake(d) ELSE d

(* What N(R) means in S_up, unless the peer is busy or rejects. *)
AckUp(c, nr) ==
  CASE ~CheckV(c, nr) -> RecoverNR(c)
    [] CheckV(c, nr) /\ c.RNR -> PullUp(c, nr)
    [] CheckV(c, nr) /\ ~c.RNR /\ nr = c.v_s -> T1Over(PullUp(c, nr))
    [] CheckV(c, nr) /\ ~c.RNR /\ nr # c.v_s ->
         IF nr = c.v_a THEN c ELSE StartT1(PullUp(c, nr))

-----------------------------------------------------------------------------
(* x75_recv *)

(* The payload of an I frame that is in sequence goes up. *)
TakeIAgain(c, f) ==               \* mutant: V(R) does not advance
  LET d == [c EXCEPT !.up = Append(@, <<0, f.body>>), !.space = @ - 1, !.inREJ = FALSE]
  IN  IF f.pf THEN SendAck(d, "RR", FALSE, TRUE) ELSE [d EXCEPT !.ack_pend = TRUE]
TakeI(c, f) ==
  LET d == [c EXCEPT !.up = Append(@, <<0, f.body>>), !.space = @ - 1,
                     !.v_r = Wrap(@ + 1), !.inREJ = FALSE,
                     !.errors = IF @ > 0 THEN @ - 1 ELSE 0]
  IN  IF f.pf THEN SendAck(d, "RR", FALSE, TRUE) ELSE [d EXCEPT !.ack_pend = TRUE]

(* An I frame out of sequence: one REJ, then only answers to polls. *)
Resync(c, f) ==
  IF ~c.inREJ THEN SendAck([c EXCEPT !.inREJ = TRUE], "REJ", FALSE, f.pf)
  ELSE IF f.pf THEN SendAck(c, "RR", FALSE, TRUE) ELSE c

(* No room for it. *)
DropIAcked(c, f) ==               \* mutant: the dropped frame is acknowledged
  LET d == [c EXCEPT !.v_r = Wrap(@ + 1)]
  IN  IF f.pf THEN SendAck(d, "RNR", FALSE, TRUE) ELSE d
DropI(c, f) == IF f.pf THEN SendAck(c, "RNR", FALSE, TRUE) ELSE c

RecvI(c, f) ==
  LET e == IF f.body = None THEN SendFRMR(c, f.pf) ELSE c
      d == [e EXCEPT !.sentRR = CanRecv(e)]
      inSeq == f.body # None /\ f.ns = c.v_r
  IN  IF c.status # "S_up" THEN e
      ELSE AckUp(CASE ~d.sentRR -> DropI(d, f)
                   [] d.sentRR /\ ~inSeq -> Resync(d, f)
                   [] d.sentRR /\ inSeq -> IF c.recvok THEN TakeI(d, f) ELSE DropI(d, f),
                 f.nr)

(* A poll is answered; an answer nobody asked for is reported. *)
AnswerPoll(c, f) ==
  IF f.cmd /\ f.pf THEN EnqResp(c)
  ELSE IF ~f.cmd /\ f.pf /\ ~(c.RNR /\ Poll) THEN Tell(c, "ERR_A") ELSE c

(* The same in S_recover for RR, RNR and REJ: only the answer to our poll  *)
(* ends the recovery, and the unacknowledged frames are sent again.        *)
RecoverNoRepeat(c, f) ==          \* mutant: the frames are not sent again
  LET d == IF f.cmd /\ f.pf THEN EnqResp(c) ELSE c
  IN  IF ~CheckV(d, f.nr) THEN RecoverNR(d)
      ELSE IF f.cmd \/ ~f.pf THEN PullUp(d, f.nr)
      ELSE SetState(T1Over(PullUp(d, f.nr)), "S_up")
RecvSRecover(c, f) ==
  LET d == IF f.cmd /\ f.pf THEN EnqResp(c) ELSE c
  IN  IF ~CheckV(d, f.nr) THEN RecoverNR(d)
      ELSE IF f.cmd \/ ~f.pf THEN PullUp(d, f.nr)
      ELSE SetState(Retransmit(T1Over(PullUp(d, f.nr))), "S_up")

RecvRR(c, f) ==
  LET d == [c EXCEPT !.trypoll = FALSE]
  IN  CASE c.status = "S_up" -> AckUp([AnswerPoll(d, f) EXCEPT !.RNR = FALSE], f.nr)
        [] c.status = "S_recover" -> RecvSRecover([d EXCEPT !.RNR = FALSE], f)
        [] c.status \notin Connected -> d

RecvRNR(c, f) ==
  LET d == [c EXCEPT !.trypoll = ~f.pf]
      e == [AnswerPoll(d, f) EXCEPT !.RNR = TRUE]
  IN  CASE c.status = "S_up" ->
             IF CheckV(e, f.nr) THEN T1Over(PullUp(e, f.nr)) ELSE RecoverNR(e)
        [] c.status = "S_recover" -> RecvSRecover([d EXCEPT !.RNR = TRUE], f)
        [] c.status \notin Connected -> d

RecvREJ(c, f) ==
  LET d == [c EXCEPT !.trypoll = FALSE]
      e == [AnswerPoll(d, f) EXCEPT !.RNR = FALSE]
  IN  CASE c.status = "S_up" ->
             IF CheckV(e, f.nr) THEN Retransmit(T1Over(PullUp(e, f.nr))) ELSE RecoverNR(e)
        [] c.status = "S_recover" -> RecvSRecover([d EXCEPT !.RNR = FALSE], f)
        [] c.status \notin Connected -> d

RecvSX(c, f) == Tell(SendFRMR(c, f.pf), "ERR_L")

(* U frames.  The answer repeats the P bit as F. *)
Answer(c, t, f) == Xmit(c, Unnumbered(t, FALSE, f.pf))

RecvSABM(c, f) ==
  CASE c.status = "S_down" ->
         IF Broadcast THEN ClrExcept(Answer(c, "DM", f))
         ELSE SetState(T1Over(FlushI(Tell(ClrExcept(Answer(c, "UA", f)),
                                          "DL_ESTABLISH_IND"))), "S_up")
    [] c.status = "S_await_up" -> Answer(c, "UA", f)
    [] c.status = "S_await_down" -> Answer(c, "DM", f)
    [] c.status \in Connected ->
         LET d == FlushI(Tell(ClrExcept(Answer(c, "UA", f)), "ERR_F"))
             e == IF c.v_s # c.v_a THEN Tell(d, "DL_ESTABLISH_IND") ELSE d
         IN  SetState(T1Over(e), "S_up")

RecvDISC(c, f) ==
  CASE c.status \in {"S_down", "S_await_down"} -> Answer(c, "UA", f)
    [] c.status = "S_await_up" -> Answer(c, "DM", f)
    [] c.status \in Connected ->
         LET d == Tell(Answer(FlushI(c), "UA", f), "DL_RELEASE_IND")
         IN  SetState([d EXCEPT !.T1 = FALSE, !.T3 = @ /\ c.status = "S_recover"], "S_down")

RecvDM(c, f) ==
  CASE c.status = "S_down" -> IF f.pf THEN c ELSE Reestablish(c)
    [] c.status = "S_await_up" /\ f.pf ->
         SetState(StopT1(Tell(FlushI(c), "DL_RELEASE_IND")), "S_down")
    [] c.status = "S_await_down" /\ f.pf ->
         SetState(StopT1(Tell(FlushI(c), "DL_RELEASE_CONF")), "S_down")
    [] c.status \in {"S_await_up", "S_await_down"} /\ ~f.pf -> c
    [] c.status \in Connected ->
         IF f.pf THEN Tell(c, "ERR_B") ELSE Reestablish(Tell(c, "ERR_E"))

(* UA after our SABM.  The I queue stays if the user asked for the         *)
(* connection, or if nothing of it was under way.                          *)
ConnectionUpMute(c) ==            \* mutant: nobody is told
  Wake([T1Over(SetState(c, "S_up")) EXCEPT !.v_r = 0, !.v_s = 0, !.v_a = 0])
ConnectionUp(c) ==
  LET d == CASE c.L3_req -> Tell(c, "DL_ESTABLISH_CONF")
             [] ~c.L3_req /\ c.v_s # c.v_a -> Tell(FlushI(c), "DL_ESTABLISH_IND")
             [] ~c.L3_req /\ c.v_s = c.v_a -> c
  IN  Wake([T1Over(SetState(d, "S_up")) EXCEPT !.v_r = 0, !.v_s = 0, !.v_a = 0])

RecvUAOpens(c, f) ==              \* mutant: the UA to a DISC taken for that to a SABM
  IF c.status \in {"S_await_up", "S_await_down"} /\ f.pf THEN ConnectionUp(c)
  ELSE Tell(c, "ERR_CD")
RecvUA(c, f) ==
  CASE c.status = "S_await_up" /\ f.pf -> ConnectionUp(c)
    [] c.status = "S_await_down" /\ f.pf ->
         SetState(StopT1(Tell(c, "DL_RELEASE_CONF")), "S_down")
    [] c.status \in {"S_await_up", "S_await_down"} /\ ~f.pf -> Tell(c, "ERR_D")
    [] c.status \in Connected \cup {"S_down"} -> Tell(c, "ERR_CD")

RecvUI(c, f) ==
  CASE f.body = None -> IF f.bc THEN c ELSE SendFRMR(c, f.pf)
    [] f.body # None /\ ~c.recvok -> c
    [] f.body # None /\ c.recvok ->
         [c EXCEPT !.up = Append(@, <<IF f.bc THEN 3 ELSE 1, f.body>>),
                   !.space = IF @ > 0 THEN @ - 1 ELSE 0]

RecvFRMR(c) ==
  LET d == Tell(c, "ERR_D")
  IN  IF c.status \in Connected THEN Reestablish(d) ELSE d

(* SABM, DISC, DM and UA carry no information field. *)
BadU(c, f) == Tell(SendFRMR(c, f.pf), "ERR_N")
UnknownU(c, f) == Tell(SendFRMR(c, f.pf), "ERR_L")

(* The switch takes SABM, DISC and UI as commands only, DM and UA as       *)
(* responses only.                                                         *)
KnownU(f) == \/ f.t \in {"SABM", "SABMX", "DISC", "UI"} /\ f.cmd
             \/ f.t \in {"DM", "UA"} /\ ~f.cmd
             \/ f.t \in {"XID", "FRMR"}

RecvU(c, f) ==
  CASE ~KnownU(f) -> UnknownU(c, f)
    [] KnownU(f) /\ f.t = "UI" -> RecvUI(c, f)
    [] KnownU(f) /\ f.t = "XID" -> c
    [] KnownU(f) /\ f.t = "FRMR" -> RecvFRMR(c)
    [] KnownU(f) /\ f.t \in {"SABM", "SABMX", "DISC", "DM", "UA"} ->
         CASE f.body # None -> BadU(c, f)
           [] f.body = None /\ f.t = "SABMX" -> SendFRMR(c, f.pf)
           [] f.body = None /\ f.t = "SABM" -> RecvSABM(c, f)
           [] f.body = None /\ f.t = "DISC" -> RecvDISC(c, f)
           [] f.body = None /\ f.t = "DM" -> RecvDM(c, f)
           [] f.body = None /\ f.t = "UA" -> RecvUA(c, f)

(* Frames on which x75_recv returns at once, without x75_check_pending:    *)
(* broadcasts other than UI commands, and malformed I and S frames.        *)
Ignored(f) == f.bc /\ ~(f.t = "UI" /\ f.cmd)
Malformed(f) == \/ f.t = "Half"
                \/ f.t = "I" /\ ~f.cmd
                \/ f.t \in SCodes /\ f.body # None

Dispatch(c, f) ==
  CASE f.t = "I" -> RecvI(c, f)
    [] f.t = "RR" -> RecvRR(c, f)
    [] f.t = "RNR" -> RecvRNR(c, f)
    [] f.t = "REJ" -> RecvREJ(c, f)
    [] f.t = "SX" -> RecvSX(c, f)
    [] f.t \in UCodes -> RecvU(c, f)

Recv(c, f) ==
  CASE Ignored(f) -> c
    [] ~Ignored(f) /\ Malformed(f) -> SendFRMR(c, f.pf)
    [] ~Ignored(f) /\ ~Malformed(f) -> CheckPending(Dispatch(c, f))

-----------------------------------------------------------------------------
(* x75_send, x75_cansend *)

CanSend(c, kind) == IF kind = 0 THEN Len(c.I) <= K ELSE Len(c.UI) < 3

(* An empty block is discarded, but still goes through the motions. *)
Send(c, kind, d) ==
  IF kind = 0 /\ d # None /\ Broadcast THEN [c EXCEPT !.ret = "ENXIO"]
  ELSE LET q == [c EXCEPT !.asBroadcast = kind = 3]
       IN  CheckPending(CASE d = None -> q
                          [] d # None /\ kind = 0 -> [q EXCEPT !.I = Append(@, d)]
                          [] d # None /\ kind # 0 -> [q EXCEPT !.UI = Append(@, d)])

-----------------------------------------------------------------------------
(* x75_changestate: one operator per indication, then its common end. *)

PendingUnlessFailed(c) == IF c.ret = "ok" THEN CheckPendingFromLow(c) ELSE c
PendingAfterEstablish(c) == IF c.ret = "ok" THEN CheckPending(c) ELSE c

(* DL_ESTABLISH_CONF: a connection without a handshake. *)
ForceEstablish(c) ==
  IF c.status \in Connected THEN PendingUnlessFailed(c)
  ELSE LET d == [c EXCEPT !.errors = 0, !.T1 = @ /\ c.status = "S_down", !.T3 = TRUE]
       IN  PendingUnlessFailed(Wake(Tell(SetState(d, "S_up"), "DL_ESTABLISH_CONF")))

UserEstablish(c) ==
  PendingAfterEstablish([Establish(c) EXCEPT !.L3_req = TRUE, !.errors = 0])

EstablishReq(c) ==
  IF c.status \in {"S_down", "S_await_down"} THEN UserEstablish(c) ELSE PendingUnlessFailed(c)

(* DL_ESTABLISH_IND: layer 1 is back. *)
EstablishInd(c) ==
  CASE c.status \in {"S_down", "S_await_down"} -> PendingUnlessFailed(c)
    [] c.status = "S_await_up" -> PendingUnlessFailed([c EXCEPT !.L3_req = TRUE])
    [] c.status \in Connected ->
         PendingAfterEstablish([Establish(FlushI(c)) EXCEPT !.L3_req = TRUE])

ReleaseReq(c) ==
  LET d == [c EXCEPT !.errors = 0]
  IN  CASE c.status = "S_down" -> PendingUnlessFailed(Tell(d, "DL_RELEASE_CONF"))
        [] c.status \in {"S_await_up", "S_await_down"} -> PendingUnlessFailed(d)
        [] c.status \in Connected ->
             LET e == [FlushI(SetState(d, "S_await_down")) EXCEPT !.RC = 0]
                 g == Xmit(e, Unnumbered("DISC", TRUE, TRUE))
             IN  PendingUnlessFailed([g EXCEPT !.T1 = TRUE,
                                               !.T3 = @ /\ c.status = "S_recover"])

(* doabort.  PH_DEACTIVATE_IND kills nothing in S_await_up, yet the state  *)
(* becomes S_down behind the switch.                                       *)
Abort(c, ind) ==
  PendingUnlessFailed(SetState(
    CASE c.status = "S_await_up" /\ ind = "PH_DEACTIVATE_IND" -> c
      [] c.status = "S_await_down" -> KillMe(c, "DL_RELEASE_CONF")
      [] c.status = "S_await_up" /\ ind # "PH_DEACTIVATE_IND" -> KillMe(c, "DL_RELEASE_IND")
      [] c.status \in Connected \cup {"S_down"} -> KillMe(c, "DL_RELEASE_IND"), "S_down"))

(* PH_DISCONNECT_IND and MDL_REMOVE_REQ fall through into doabort. *)
Remove(c, ind) ==
  Abort(IF c.status = "S_await_down" THEN c ELSE KillMe(c, ind), ind)

ActivateInd(c, ind) == PendingUnlessFailed(Tell(c, ind))

ChangeState(c, ind, isabort) ==
  CASE isabort -> Abort(c, ind)
    [] ~isabort /\ ind \in {"PH_ACTIVATE_IND", "PH_ACTIVATE_CONF"} -> ActivateInd(c, ind)
    [] ~isabort /\ ind = "DL_ESTABLISH_CONF" -> ForceEstablish(c)
    [] ~isabort /\ ind = "DL_ESTABLISH_REQ" -> EstablishReq(c)
    [] ~isabort /\ ind = "DL_ESTABLISH_IND" -> EstablishInd(c)
    [] ~isabort /\ ind = "DL_RELEASE_REQ" -> ReleaseReq(c)
    [] ~isabort /\ ind \in {"PH_DISCONNECT_IND", "MDL_REMOVE_REQ"} -> Remove(c, ind)
    [] ~isabort /\ ind \in {"DL_RELEASE_CONF", "PH_DEACTIVATE_IND", "PH_DEACTIVATE_CONF"} ->
         Abort(c, ind)
    [] ~isabort /\ ind = "DL_RELEASE_IND" -> [c EXCEPT !.ret = "ENOENT"]

(* The fields of a call, loaded before it and cleared after it. *)
Call(c, env) ==
  [c EXCEPT !.room = env.room, !.accept = env.accept, !.fail = env.fail,
            !.space = env.space, !.recvok = env.recvok]
Settled(c) ==
  [c EXCEPT !.room = 0, !.accept = 0, !.fail = "EIO", !.space = 0, !.recvok = FALSE,
            !.out = <<>>, !.told = <<>>, !.up = <<>>, !.woke = FALSE, !.ret = "ok"]

-----------------------------------------------------------------------------
(* Around a call: what the callbacks may answer during it, and how the     *)
(* upper layer reads what it was told.                                     *)
Answers == [room : Nat, accept : Nat, fail : Failures, space : Nat, recvok : BOOLEAN]

UpInds == {"DL_ESTABLISH_IND", "DL_ESTABLISH_CONF"}
DownInds == {"DL_RELEASE_IND", "DL_RELEASE_CONF", "PH_DISCONNECT_IND", "MDL_REMOVE_REQ"}
IsTold(told, inds) == \E i \in 1 .. Len(told) : told[i] \in inds
Viewed(c, v) == IF IsTold(c.told, UpInds) THEN "up"
                ELSE IF IsTold(c.told, DownInds) THEN "down" ELSE v

(* While the peer owes an answer T1 runs, and an idle connection is        *)
(* supervised by T3: no state of x75_T1, x75_recv or x75_changestate lets  *)
(* the entity wait for something that nothing will ever bring.             *)
Guarded(c) ==
  /\ c.status \in {"S_await_up", "S_await_down", "S_recover"} => c.T1
  /\ c.status = "S_up" => c.T1 \/ c.T3

(* The frames between V(A) and V(S) are the head of the I queue, and no    *)
(* more than the window: what pull_up relies on when it frees the          *)
(* acknowledged ones ("consistency problem").                              *)
Windowed(c) == c.status \in Connected => Outstanding(c) <= Least(K, Len(c.I))

=============================================================================
