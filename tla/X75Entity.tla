----------------------------- MODULE X75Entity ------------------------------
(***************************************************************************)
(* One x75lib entity in any surroundings: every entry point of             *)
(* src/ksupport/x75lib.c may be called at any time, the peer may send any  *)
(* frame of Frames, the upper layer may hand down any indication of Inds   *)
(* and the callbacks may answer anything of Envs.  Both users of the       *)
(* library, x75/x75.c and isdn_2/isdn_2.c, are surroundings of this kind.  *)
(***************************************************************************)
EXTENDS X75Lib

CONSTANTS
  Frames,     \* the frames the peer may send
  Requests,   \* the pairs <<ind, isabort>> x75_changestate may be called with
  Blocks,     \* the pairs <<kind, payload>> the upper layer may send
  Envs,       \* the answers of the callbacks during one call
  MaxUI       \* bound on the UI queue; x75_cansend stops at 3

Request == [ind : {"PH_ACTIVATE_IND", "PH_ACTIVATE_CONF", "DL_ESTABLISH_CONF",
                   "DL_ESTABLISH_REQ", "DL_ESTABLISH_IND", "DL_RELEASE_REQ",
                   "PH_DISCONNECT_IND", "MDL_REMOVE_REQ", "DL_RELEASE_CONF",
                   "DL_RELEASE_IND", "PH_DEACTIVATE_IND", "PH_DEACTIVATE_CONF"},
            isabort : BOOLEAN]

ASSUME SurroundingsAssumption ==
  /\ Frames \subseteq Frame
  /\ Requests \subseteq Request
  /\ Blocks \subseteq Kinds \X (Data \cup {None})
  /\ Envs \subseteq Answers
  /\ MaxUI \in Nat

VARIABLES
  st,      \* struct _x75 between two calls
  view     \* what the upper layer was last told of the connection

vars == <<st, view>>

(* The end of a call: the upper layer has read what state() told it. *)
Return(c) ==
  /\ st' = Settled(c)
  /\ view' = Viewed(c, view)

-----------------------------------------------------------------------------
Init == st = InitConn /\ view = "down"

Receive(f, e) == Return(Recv(Call(st, e), f))

Timer1(e) == st.T1 /\ Return(T1Expires(Call(st, e)))
Timer3(e) == st.T3 /\ Return(T3Expires(Call(st, e)))

(* Both users ask x75_cansend before they call x75_send. *)
Submit(kind, d, e) ==
  /\ CanSend(st, kind)
  /\ kind = 0 \/ Len(st.UI) < MaxUI
  /\ Return(Send(Call(st, e), kind, d))

Change(r, e) == Return(ChangeState(Call(st, e), r.ind, r.isabort))

Pending(low, e) ==
  Return(IF low THEN CheckPendingFromLow(Call(st, e)) ELSE CheckPending(Call(st, e)))

Next ==
  \E e \in Envs :
    \/ \E f \in Frames : Receive(f, e)
    \/ Timer1(e)
    \/ Timer3(e)
    \/ \E b \in Blocks : Submit(b[1], b[2], e)
    \/ \E r \in Requests : Change(r, e)
    \/ \E low \in BOOLEAN : Pending(low, e)

Spec == Init /\ [][Next]_vars

-----------------------------------------------------------------------------
(* The state is a struct _x75 that no call is using. *)
TypeOK ==
  /\ st \in Context
  /\ st = Settled(st)
  /\ view \in {"up", "down"}

(* No state of x75_T1, x75_recv or x75_changestate lets the entity wait   *)
(* for something that nothing will ever bring.                             *)
TimerGuard == Guarded(st)

(* What pull_up frees is what the peer has acknowledged: the outstanding   *)
(* frames are the head of the I queue and fit in the window.               *)
WindowKept == Windowed(st)

(* The upper layer's idea of the connection is the entity's.               *)
ToldUp == st.status \in Connected => view = "up"
ToldDown == st.status = "S_down" => view = "down"

(* A broadcast entity never has a connection. *)
NeverConnected == Broadcast => st.status = "S_down"
=============================================================================
