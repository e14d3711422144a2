------------------------------ MODULE X75Link -------------------------------
(***************************************************************************)
(* Two x75lib entities on one B channel, each below a user like            *)
(* src/x75/x75.c: x75__send always passes frames on, x75__cansend says     *)
(* whether the channel's queue has room, x75__canrecv whether the stream   *)
(* above has, and the service procedures call x75_check_pending when       *)
(* either changes.  The channel keeps the order and may lose frames.       *)
(*                                                                         *)
(* T1 is slow: RUN_T1 is longer than a frame and its answer are under way  *)
(* (isdn_2.c: "Yes this is slow.  This is intentional"; T3 is at least     *)
(* twice T1).  So a timer expires only when no frame is under way.         *)
(***************************************************************************)
EXTENDS X75Lib

CONSTANTS
  Side,        \* the two stations
  MaxMsg,      \* how many messages each side's user sends
  Cap,         \* how many frames the channel's queue takes before it is full
  MaxLoss,     \* bound: frames lost
  MaxFill,     \* bound: times an upstream queue fills up
  MaxConnect,  \* bound: per side: connections its user asks for
  MaxRelease   \* bound: per side: connections its user releases

ASSUME LinkAssumption ==
  /\ \E a \in Side, b \in Side : a # b /\ Side = {a, b}
  /\ MaxMsg \in [Side -> Nat] /\ \A s \in Side : 1 .. MaxMsg[s] \subseteq Data
  /\ Cap \in Nat \ {0}
  /\ MaxConnect \in [Side -> Nat] /\ MaxRelease \in [Side -> Nat]
  /\ MaxLoss \in Nat /\ MaxFill \in Nat

VARIABLES
  st,        \* per side: struct _x75
  wire,      \* per side: the frames it sent that are still under way
  full,      \* per side: is the stream above the entity full?
  sent,      \* per side: how many messages its user has sent: 1 .. sent[s]
  got,       \* per side: the messages of the peer handed to its user
  view,      \* per side: what its user was last told of the connection
  kept,      \* per side (history): the messages that were still queued when
             \* its entity gave a connection up
  used       \* how much of each bound is used up

vars == <<st, wire, full, sent, got, view, kept, used>>

Other(s) == CHOOSE r \in Side : r # s

LineQuiet == \A s \in Side : wire[s] = <<>>

TimersIdle == LineQuiet /\ \A s \in Side : ~st[s].T1

Env(s) ==
  [room |-> IF Len(wire[s]) < Cap THEN Cap - Len(wire[s]) ELSE 0,
   accept |-> Cap + 4, fail |-> "EIO",
   space |-> IF full[s] THEN 0 ELSE 2, recvok |-> TRUE]

(* Xestablish gives up without a look at the I queue: what is in it stays. *)
Queued(c) == {c.I[i] : i \in 1 .. Len(c.I)}
GivesUp(s, c) == st[s].status \in Connected /\ c.status = "S_down"

(* One call at s that ends with c; net is what is under way without c.out. *)
Return(s, c, net) ==
  /\ st' = [st EXCEPT ![s] = Settled(c)]
  /\ wire' = [net EXCEPT ![s] = @ \o c.out]
  /\ got' = [got EXCEPT ![s] = @ \o [i \in 1 .. Len(c.up) |-> c.up[i][2]]]
  /\ view' = [view EXCEPT ![s] = Viewed(c, @)]
  /\ kept' = [kept EXCEPT ![s] = IF GivesUp(s, c) THEN @ \cup Queued(c) ELSE @]

-----------------------------------------------------------------------------
Init ==
  /\ st = [s \in Side |-> InitConn]
  /\ wire = [s \in Side |-> <<>>]
  /\ full = [s \in Side |-> FALSE]
  /\ sent = [s \in Side |-> 0]
  /\ got = [s \in Side |-> <<>>]
  /\ view = [s \in Side |-> "down"]
  /\ kept = [s \in Side |-> {}]
  /\ used = [loss |-> 0, fill |-> 0,
             connect |-> [s \in Side |-> 0], release |-> [s \in Side |-> 0]]

Deliver(s) ==
  LET r == Other(s) IN
  /\ wire[s] # <<>>
  /\ Return(r, Recv(Call(st[r], Env(r)), Head(wire[s])), [wire EXCEPT ![s] = Tail(@)])
  /\ UNCHANGED <<full, sent, used>>

Lose(s) ==
  /\ wire[s] # <<>> /\ used.loss < MaxLoss
  /\ wire' = [wire EXCEPT ![s] = Tail(@)]
  /\ used' = [used EXCEPT !.loss = @ + 1]
  /\ UNCHANGED <<st, full, sent, got, view, kept>>

Timer1(s) ==
  /\ st[s].T1 /\ LineQuiet
  /\ Return(s, T1Expires(Call(st[s], Env(s))), wire)
  /\ UNCHANGED <<full, sent, used>>

Timer3(s) ==
  /\ st[s].T3 /\ TimersIdle
  /\ Return(s, T3Expires(Call(st[s], Env(s))), wire)
  /\ UNCHANGED <<full, sent, used>>

SendMessage(s) ==
  /\ sent[s] < MaxMsg[s] /\ CanSend(st[s], 0)
  /\ Return(s, Send(Call(st[s], Env(s)), 0, sent[s] + 1), wire)
  /\ sent' = [sent EXCEPT ![s] = @ + 1]
  /\ UNCHANGED <<full, used>>

Connect(s) ==
  /\ st[s].status \in {"S_down", "S_await_down"}
  /\ used.connect[s] < MaxConnect[s]
  /\ Return(s, EstablishReq(Call(st[s], Env(s))), wire)
  /\ used' = [used EXCEPT !.connect[s] = @ + 1]
  /\ UNCHANGED <<full, sent>>

Release(s) ==
  /\ st[s].status \in Connected
  /\ used.release[s] < MaxRelease[s]
  /\ Return(s, ReleaseReq(Call(st[s], Env(s))), wire)
  /\ used' = [used EXCEPT !.release[s] = @ + 1]
  /\ UNCHANGED <<full, sent>>

(* The stream above fills up; when it is drained x75_rsrv runs. *)
Fill(s) ==
  /\ ~full[s] /\ used.fill < MaxFill
  /\ full' = [full EXCEPT ![s] = TRUE]
  /\ used' = [used EXCEPT !.fill = @ + 1]
  /\ UNCHANGED <<st, wire, sent, got, view, kept>>

Drain(s) ==
  /\ full[s]
  /\ full' = [full EXCEPT ![s] = FALSE]
  /\ Return(s, CheckPending(Call(st[s], [Env(s) EXCEPT !.space = 2])), wire)
  /\ UNCHANGED <<sent, used>>

(* The channel's queue has room again: x75_wsrv runs. *)
Serve(s) ==
  /\ wire[s] = <<>> /\ st[s].I # <<>>
  /\ Return(s, CheckPending(Call(st[s], Env(s))), wire)
  /\ UNCHANGED <<full, sent, used>>

Next ==
  \E s \in Side :
    \/ Deliver(s) \/ Lose(s) \/ Timer1(s) \/ Timer3(s) \/ SendMessage(s)
    \/ Connect(s) \/ Release(s) \/ Fill(s) \/ Drain(s) \/ Serve(s)

Spec == Init /\ [][Next]_vars

(* A frame that is not lost arrives.  A timer that is never stopped        *)
(* expires, although each time the line is quiet the other side's timer    *)
(* may be the first.  A full stream is drained.                            *)
Fairness ==
  \A s \in Side :
    /\ []<>(wire[s] = <<>>) \/ []<><<Deliver(s)>>_vars
    /\ []<>~st[s].T1 \/ <>[]~LineQuiet \/ []<><<Timer1(s)>>_vars
    /\ []<>~st[s].T3 \/ <>[]~TimersIdle \/ []<><<Timer3(s)>>_vars
    /\ []<>~full[s] \/ []<><<Drain(s)>>_vars

FairSpec == Spec /\ Fairness

-----------------------------------------------------------------------------
TypeOK ==
  /\ st \in [Side -> Context] /\ \A s \in Side : st[s] = Settled(st[s])
  /\ wire \in [Side -> Seq(Frame)]
  /\ full \in [Side -> BOOLEAN]
  /\ sent \in [Side -> Nat]
  /\ got \in [Side -> Seq(Data)]
  /\ view \in [Side -> {"up", "down"}]
  /\ kept \in [Side -> SUBSET Data]

(* The user gets the peer's messages in order and none twice, with one     *)
(* exception: what was queued when the peer's entity gave a connection up  *)
(* is sent over the next one, whether or not it had arrived before.        *)
InOrder ==
  \A s \in Side : \A i \in 1 .. Len(got[s]) - 1 :
    got[s][i] < got[s][i + 1] \/ got[s][i + 1] \in kept[Other(s)]

(* Without the exception, as the protocol promises its user: X.75 "mit     *)
(* Uebertragungssicherung" (DOKU).                                         *)
NeverTwice ==
  \A s \in Side : \A i, j \in 1 .. Len(got[s]) : i # j => got[s][i] # got[s][j]

GotBy(s) == {got[s][i] : i \in 1 .. Len(got[s])}

(* A queued message that its receiver never got is dropped only by a       *)
(* handshake that resets the link, or when the entity gives up: frames     *)
(* are freed by pull_up only if the peer's user has them.                  *)
LinkFrames == {"SABM", "DISC", "DM", "UA"}
Dropped(s) == {st[s].I[i] : i \in 1 .. Len(st[s].I) - Len(st'[s].I)}
LostOnlyByReset ==
  [][\A s \in Side :
       Dropped(s) \subseteq GotBy(Other(s))
         \/ st[s].status = "S_await_up" \/ st'[s].status = "S_await_down"
         \/ /\ wire[Other(s)] # <<>> /\ wire'[Other(s)] = Tail(wire[Other(s)])
            /\ Head(wire[Other(s)]).t \in LinkFrames]_vars

(* What the layer above was last told is not contradicted by the state. *)
ViewAgrees ==
  \A s \in Side :
    /\ st[s].status \in Connected => view[s] = "up"
    /\ st[s].status = "S_down" => view[s] = "down"

(* Every message that is queued is confirmed, or lost with its connection. *)
MessageResolved ==
  \A s \in Side : \A m \in 1 .. MaxMsg[s] :
    (\E i \in 1 .. Len(st[s].I) : st[s].I[i] = m /\ st[s].status # "S_down")
      ~> ~(\E i \in 1 .. Len(st[s].I) : st[s].I[i] = m /\ st[s].status # "S_down")

(* Neither a request to connect nor one to release waits for ever: the     *)
(* peer answers, or T1 gives up.                                           *)
RequestsAnswered ==
  \A s \in Side : \A status \in {"S_await_up", "S_await_down"} :
    st[s].status = status ~> st[s].status # status

(* The link implements the service. *)
LinkState(status) ==
  CASE status = "S_down" -> "down"
    [] status = "S_await_up" -> "opening"
    [] status = "S_await_down" -> "closing"
    [] status \in Connected -> "up"
Service == INSTANCE DataLink WITH
  link <- [s \in Side |-> LinkState(st[s].status)],
  queue <- [s \in Side |-> st[s].I],
  last <- sent, kept <- kept
ServiceSpec == Service!Spec
=============================================================================
