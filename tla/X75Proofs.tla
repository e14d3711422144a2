----------------------------- MODULE X75Proofs ------------------------------
(***************************************************************************)
(* Theorems about X75Entity: types, timers and the window of struct _x75,  *)
(* and what the upper layer is told, for all values of the constants.      *)
(***************************************************************************)
EXTENDS X75Entity, X75LibProofs

(* Nobody forces a connection up without a handshake. *)
NoForce == \A r \in Requests : r.ind # "DL_ESTABLISH_CONF"

LEMMA Forced == NoForce \in BOOLEAN
BY DEF NoForce

LEMMA ChangeStateOK ==
  ASSUME NEW c, Good(NoForce, c), NEW r \in Requests, ~Broadcast
  PROVE  Good(NoForce, ChangeState(c, r.ind, r.isabort))
<1>1. c \in Context /\ r \in Request
  BY SurroundingsAssumption DEF Good
<1>2. Good(NoForce, Abort(c, r.ind)) /\ Good(NoForce, EstablishReq(c)) /\ Good(NoForce, EstablishInd(c)) /\ Good(NoForce, ReleaseReq(c))
  BY Forced, <1>1, AbortOK, EstablishReqOK, EstablishIndOK, ReleaseReqOK
<1>3. r.ind \in Indications =>
        Good(NoForce, Remove(c, r.ind)) /\ Good(NoForce, ActivateInd(c, r.ind))
  BY Forced, <1>1, RemoveOK, TellGood, PendingOK DEF ActivateInd
<1>4. r.ind = "DL_ESTABLISH_CONF" => Good(NoForce, ForceEstablish(c))
  BY Forced, ForceEstablishOK DEF NoForce
<1>5. Good(NoForce, [c EXCEPT !.ret = "ENOENT"])
  <2>1. [c EXCEPT !.ret = "ENOENT"] \in Context /\ Same(c, [c EXCEPT !.ret = "ENOENT"])
    BY <1>1, ErrorsOK DEF Context, Same
  <2> QED BY Forced, <2>1, SameGood
<1>6. CASE r.isabort
  BY <1>2, <1>6 DEF ChangeState
<1>7. CASE ~r.isabort
  <2>1. CASE r.ind \in {"PH_ACTIVATE_IND", "PH_ACTIVATE_CONF", "PH_DISCONNECT_IND", "MDL_REMOVE_REQ"}
    BY <1>3, <1>7, <2>1 DEF ChangeState, Indications
  <2>2. CASE r.ind \in {"DL_ESTABLISH_CONF", "DL_ESTABLISH_REQ", "DL_ESTABLISH_IND", "DL_RELEASE_REQ"}
    BY <1>2, <1>4, <1>7, <2>2 DEF ChangeState
  <2>3. CASE r.ind \in {"DL_RELEASE_CONF", "DL_RELEASE_IND", "PH_DEACTIVATE_IND", "PH_DEACTIVATE_CONF"}
    BY <1>2, <1>5, <1>7, <2>3 DEF ChangeState
  <2> QED BY <1>1, <2>1, <2>2, <2>3 DEF Request
<1> QED BY <1>1, <1>6, <1>7 DEF Request

-----------------------------------------------------------------------------
(***************************************************************************)
(* The inductive invariant.  The three parts need each other: a timer that *)
(* is started by sending relies on the types, and the window on the state  *)
(* the timers were handled in.                                             *)
(***************************************************************************)
IInv == Good(NoForce, st) /\ st = Settled(st) /\ view \in {"up", "down"}

LEMMA InitInv == Init => IInv
BY Forced, InitConnOK DEF Init, IInv

LEMMA ReturnInv ==
  ASSUME IInv, NEW c, Good(NoForce, c), Return(c)
  PROVE  IInv'
<1>1. st' = Settled(c) /\ view' \in {"up", "down"}
  BY DEF Return, IInv, Viewed
<1>2. Good(NoForce, Settled(c)) /\ Settled(Settled(c)) = Settled(c)
  BY Forced, SettledOK
<1>3. Good(NoForce, st)' /\ (st = Settled(st))'
  BY <1>1, <1>2 DEF Good, Guarded, Windowed, Outstanding, NoForce, Settled
<1> QED BY <1>1, <1>3 DEF IInv

LEMMA NextInv ==
  ASSUME ~Broadcast, IInv, [Next]_vars
  PROVE  IInv'
<1>1. CASE UNCHANGED vars
  BY <1>1 DEF vars, IInv, Good, Guarded, Windowed, Outstanding, NoForce, Settled
<1>2. CASE Next
  <2>1. PICK e \in Envs :
          \/ \E f \in Frames : Receive(f, e)
          \/ Timer1(e)
          \/ Timer3(e)
          \/ \E b \in Blocks : Submit(b[1], b[2], e)
          \/ \E r \in Requests : Change(r, e)
          \/ \E low \in BOOLEAN : Pending(low, e)
    BY <1>2 DEF Next
  <2> DEFINE c == Call(st, e)
  <2>2. Good(NoForce, c)
    BY Forced, SurroundingsAssumption, CallOK DEF IInv
  <2>3. Kept(NoForce, c)
    BY <2>2 DEF Good, Kept
  <2> HIDE DEF c
  <2>4. ASSUME NEW f \in Frames, Receive(f, e) PROVE IInv'
    <3>1. f \in Frame
      BY SurroundingsAssumption
    <3> QED BY <2>2, <2>4, <3>1, Forced, RecvOK, ReturnInv DEF Receive, c
  <2>5. CASE Timer1(e)
    BY <2>3, <2>5, Forced, T1ExpiresOK, ReturnInv DEF Timer1, c
  <2>6. CASE Timer3(e)
    BY <2>2, <2>6, Forced, T3ExpiresOK, ReturnInv DEF Timer3, c
  <2>7. ASSUME NEW b \in Blocks, Submit(b[1], b[2], e) PROVE IInv'
    <3>1. b[1] \in Kinds /\ b[2] \in Data \cup {None}
      BY SurroundingsAssumption
    <3>2. Good(NoForce, Send(c, b[1], b[2]))
      BY <2>2, <3>1, Forced, SendOK
    <3> QED BY <2>7, <3>2, ReturnInv DEF Submit, c
  <2>8. ASSUME NEW r \in Requests, Change(r, e) PROVE IInv'
    BY <2>2, <2>8, ChangeStateOK, ReturnInv DEF Change, c
  <2>9. ASSUME NEW low \in BOOLEAN, Pending(low, e) PROVE IInv'
    BY <2>2, <2>9, Forced, CheckPendingOK, CheckPendingFromLowOK, ReturnInv DEF Pending, c
  <2> QED BY <2>1, <2>4, <2>5, <2>6, <2>7, <2>8, <2>9
<1> QED BY <1>1, <1>2

(* Whatever the surroundings do, what is between two calls is always a      *)
(* well-formed struct _x75: sequence numbers below the modulus, at most N1  *)
(* repetitions, the error count below the limit of Xestablish.              *)
THEOREM TypesKept == ASSUME ~Broadcast PROVE Spec => []TypeOK
<1>1. IInv => TypeOK
  BY DEF IInv, Good, TypeOK
<1> QED BY <1>1, InitInv, NextInv, PTL DEF Spec

(* Whatever the surroundings do, an entity that waits for its peer has T1   *)
(* running, and a connection is supervised by T1 or T3.                     *)
THEOREM TimersKept == ASSUME ~Broadcast PROVE Spec => []TimerGuard
<1>1. IInv => TimerGuard
  BY DEF IInv, Good, TimerGuard
<1> QED BY <1>1, InitInv, NextInv, PTL DEF Spec

(* Unless a connection is forced up by DL_ESTABLISH_CONF, the frames that   *)
(* are outstanding are the head of the I queue and fit in the window, for   *)
(* every modulus and window and whatever the peer acknowledges.             *)
THEOREM WindowsKept == ASSUME ~Broadcast, NoForce PROVE Spec => []WindowKept
<1>1. IInv => WindowKept
  BY DEF IInv, Good, WindowKept
<1> QED BY <1>1, InitInv, NextInv, PTL DEF Spec

LEMMA ChangeStateTold ==
  ASSUME NEW c, NEW v, Agreed(c, v), NEW r \in Request
  PROVE  Agreed(ChangeState(c, r.ind, r.isabort), v)
<1>1. Shaped(c) /\ c.status \in Status
  BY DEF Agreed
<1>2. Agreed(Abort(c, r.ind), v)
  BY <1>1, AbortTold
<1>3. r.isabort \in BOOLEAN
  BY DEF Request
<1>4. CASE r.isabort
  BY <1>2, <1>4 DEF ChangeState
<1>5. CASE ~r.isabort
  <2>1. CASE r.ind \in {"PH_ACTIVATE_IND", "PH_ACTIVATE_CONF"}
    <3>1. ChangeState(c, r.ind, r.isabort) = ActivateInd(c, r.ind)
      BY <1>5, <2>1 DEF ChangeState
    <3> QED BY <2>1, <3>1, ActivateIndTold
  <2>2. CASE r.ind \in {"PH_DISCONNECT_IND", "MDL_REMOVE_REQ"}
    <3>1. ChangeState(c, r.ind, r.isabort) = Remove(c, r.ind)
      BY <1>5, <2>2 DEF ChangeState
    <3>2. r.ind \in Indications
      BY <2>2 DEF Indications
    <3> QED BY <1>1, <3>1, <3>2, RemoveTold
  <2>3. CASE r.ind \in {"DL_ESTABLISH_CONF", "DL_ESTABLISH_REQ", "DL_ESTABLISH_IND", "DL_RELEASE_REQ"}
    <3>1. \/ ChangeState(c, r.ind, r.isabort) = ForceEstablish(c)
          \/ ChangeState(c, r.ind, r.isabort) = EstablishReq(c)
          \/ ChangeState(c, r.ind, r.isabort) = EstablishInd(c)
          \/ ChangeState(c, r.ind, r.isabort) = ReleaseReq(c)
      BY <1>5, <2>3 DEF ChangeState
    <3> QED BY <3>1, ForceEstablishTold, EstablishReqTold, EstablishIndTold, ReleaseReqTold
  <2>4. CASE r.ind \in {"DL_RELEASE_CONF", "PH_DEACTIVATE_IND", "PH_DEACTIVATE_CONF"}
    <3>1. ChangeState(c, r.ind, r.isabort) = Abort(c, r.ind)
      BY <1>5, <2>4 DEF ChangeState
    <3> QED BY <1>2, <3>1
  <2>5. CASE r.ind = "DL_RELEASE_IND"
    <3>1. ChangeState(c, r.ind, r.isabort) = [c EXCEPT !.ret = "ENOENT"]
      BY <1>5, <2>5 DEF ChangeState
    <3>2. Quiet(c, [c EXCEPT !.ret = "ENOENT"])
      BY <1>1, FieldsTold
    <3> QED BY <3>1, <3>2, QuietAgreed
  <2> QED BY <2>1, <2>2, <2>3, <2>4, <2>5 DEF Request
<1> QED BY <1>3, <1>4, <1>5

-----------------------------------------------------------------------------
(* From calls to steps.  Between two calls nothing is left to be told, and  *)
(* the upper layer believes in every connection that is up or is being set  *)
(* up again without its asking.                                             *)
ToldInv == IInv /\ Agreed(st, view)

(* A DM without F bit makes an entity that has no connection send a SABM,   *)
(* and nobody is told when that is answered.                                *)
NoneUnasked == \A f \in Frames : f.t = "DM" => f.pf

LEMMA InitTold == Init => ToldInv
<1> SUFFICES ASSUME Init PROVE ToldInv
  OBVIOUS
<1>1. Shaped(InitConn) /\ InitConn.status = "S_down"
  BY Forced, InitConnOK
<1>2. Agreed(InitConn, view)
  BY <1>1, DownAgreed
<1> QED BY <1>2, InitInv DEF Init, ToldInv

LEMMA CallTold ==
  ASSUME ToldInv, NEW e \in Envs
  PROVE  /\ Agreed(Call(st, e), view)
         /\ Call(st, e).L3_req \in BOOLEAN /\ Call(st, e).recvok \in BOOLEAN
<1>1. Good(NoForce, Call(st, e))
  BY Forced, SurroundingsAssumption, CallOK DEF ToldInv, IInv
<1>2. Quiet(st, Call(st, e))
  BY AgreedShape, LoadTold DEF ToldInv
<1> QED BY <1>1, <1>2, QuietAgreed, Fields DEF Good, ToldInv

LEMMA ReturnTold ==
  ASSUME NEW c, Agreed(c, view), Return(c)
  PROVE  Agreed(st, view)'
<1> DEFINE s == Settled(c)
           v == Viewed(c, view)
<1>1. st' = s /\ view' = v
  BY DEF Return
<1>2. Agreed(s, v)
  BY ViewedAgreed
<1> HIDE DEF s, v
<1> QED BY <1>1, <1>2 DEF Agreed, Shaped, SeenUp, IsTold

LEMMA NextTold ==
  ASSUME ~Broadcast, NoneUnasked, ToldInv, [Next]_vars
  PROVE  ToldInv'
<1>1. IInv /\ IInv'
  BY NextInv DEF ToldInv
<1>2. CASE UNCHANGED vars
  <2>1. Agreed(st, view)'
    BY <1>2 DEF vars, ToldInv, Agreed, Shaped, SeenUp, IsTold
  <2> QED BY <1>1, <2>1 DEF ToldInv
<1>3. CASE Next
  <2>1. PICK e \in Envs :
          \/ \E f \in Frames : Receive(f, e)
          \/ Timer1(e)
          \/ Timer3(e)
          \/ \E b \in Blocks : Submit(b[1], b[2], e)
          \/ \E r \in Requests : Change(r, e)
          \/ \E low \in BOOLEAN : Pending(low, e)
    BY <1>3 DEF Next
  <2> DEFINE c == Call(st, e)
  <2>2. Agreed(c, view) /\ c.L3_req \in BOOLEAN /\ c.recvok \in BOOLEAN
    BY CallTold
  <2> HIDE DEF c
  <2>3. ASSUME NEW f \in Frames, Receive(f, e) PROVE Agreed(st, view)'
    <3>1. f \in Frame /\ (f.t = "DM" => f.pf)
      BY SurroundingsAssumption DEF NoneUnasked
    <3>2. Agreed(Recv(c, f), view)
      BY <2>2, <3>1, RecvTold
    <3> QED BY <2>3, <3>2, ReturnTold DEF Receive, c
  <2>4. ASSUME Timer1(e) PROVE Agreed(st, view)'
    <3>1. Agreed(T1Expires(c), view)
      BY <2>2, T1ExpiresTold
    <3> QED BY <1>1, <2>4, <3>1, ReturnTold DEF Timer1, c
  <2>5. ASSUME Timer3(e) PROVE Agreed(st, view)'
    <3>1. Agreed(T3Expires(c), view)
      BY <2>2, T3ExpiresTold
    <3> QED BY <1>1, <2>5, <3>1, ReturnTold DEF Timer3, c
  <2>6. ASSUME NEW b \in Blocks, Submit(b[1], b[2], e) PROVE Agreed(st, view)'
    <3>1. b[1] \in Kinds
      BY SurroundingsAssumption
    <3>2. Agreed(Send(c, b[1], b[2]), view)
      BY <2>2, <3>1, SendTold
    <3> QED BY <1>1, <2>6, <3>2, ReturnTold DEF Submit, c
  <2>7. ASSUME NEW r \in Requests, Change(r, e) PROVE Agreed(st, view)'
    <3>1. r \in Request
      BY SurroundingsAssumption
    <3>2. Agreed(ChangeState(c, r.ind, r.isabort), view)
      BY <2>2, <3>1, ChangeStateTold
    <3> QED BY <1>1, <2>7, <3>2, ReturnTold DEF Change, c
  <2>8. ASSUME NEW low \in BOOLEAN, Pending(low, e) PROVE Agreed(st, view)'
    <3>1. Agreed(CheckPending(c), view) /\ Agreed(CheckPendingFromLow(c), view)
      BY <2>2, CheckPendingAgreed, CheckPendingFromLowTold
    <3> QED BY <1>1, <2>8, <3>1, ReturnTold DEF Pending, c
  <2>9. Agreed(st, view)'
    BY <2>1, <2>3, <2>4, <2>5, <2>6, <2>7, <2>8
  <2> QED BY <1>1, <2>9 DEF ToldInv
<1> QED BY <1>2, <1>3

(* Whatever the surroundings do and however often a connection is reset or  *)
(* set up again, the upper layer has been told that it is up, unless the    *)
(* peer asks for the connection by an unsolicited DM.                       *)
THEOREM UpIsTold == ASSUME ~Broadcast, NoneUnasked PROVE Spec => []ToldUp
<1>1. ToldInv => ToldUp
  <2> SUFFICES ASSUME ToldInv, st.status \in Connected PROVE view = "up"
    BY DEF ToldUp
  <2>1. st.told = <<>>
    BY DEF ToldInv, IInv, Settled, Good, Context
  <2>2. SeenUp(st, view)
    BY DEF ToldInv, Agreed
  <2> QED BY <2>1, <2>2 DEF SeenUp, IsTold
<1> QED BY <1>1, InitTold, NextTold, PTL DEF Spec

=============================================================================
