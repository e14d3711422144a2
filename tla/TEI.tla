-------------------------------- MODULE TEI ---------------------------------
(***************************************************************************)
(* TEI management of one card, src/isdn_3/tei.c, with the two places of    *)
(* layer 2 it works for (D_send and HDR_TEI of src/isdn_2/isdn_2.c) and    *)
(* the queues of messages between the layers.                              *)
(*                                                                         *)
(* Both layers have their own idea of the TEI.  Layer 2 asks for one when  *)
(* it must send without (TEI_BROADCAST) and then refuses to send until an  *)
(* answer comes (TEI_REQUESTED).  Layer 3 negotiates with the network,     *)
(* guarded by T201 and T202.  A callout that was not removed is still      *)
(* pending even if the flag that stands for it is gone, so flags and       *)
(* callouts are separate variables.  Memory is always available.           *)
(***************************************************************************)
EXTENDS Integers, Sequences

CONSTANTS
  Tei,          \* the values the network may assign
  Broadcast,    \* TEI_BROADCAST: no TEI
  Requested,    \* TEI_REQUESTED, in layer 2 only
  FixedTei,     \* the value of a fixed or point-to-point configuration, or
  Negotiated,   \* ... FixedTei = Negotiated: ask the network
  N201, N202,   \* how often TEI_IDVERIFY and TEI_IDREQ are repeated
  Immediate,    \* FL_TEI_IMMED: ask when the card appears
  MaxEvents,    \* bound: how often layer 1, the network and layer 2 start something
  Events,       \* what they may start
  MaxAsked      \* bound: requests under way to the network

ASSUME TeiAssumption ==
  /\ Broadcast \notin Tei /\ Requested \notin Tei /\ Broadcast # Requested
  /\ FixedTei = Negotiated \/ FixedTei \notin {Broadcast, Requested}
  /\ Negotiated \notin Tei \cup {Broadcast, Requested}
ASSUME RepeatAssumption == N201 \in Nat /\ N202 \in Nat
ASSUME EventAssumption ==
  MaxEvents \in Nat /\ MaxAsked \in Nat \ {0} /\ Immediate \in BOOLEAN

AllEvents == {"deactivate", "disconnect", "mdl_error", "l2_error",
              "check", "remove", "deny", "kill"}
(* The events that show layer 1 or a connection out of order.              *)
Troubles == {"disconnect", "mdl_error", "l2_error"}

VARIABLES
  talk,     \* the isdn3_talk of SAPI_TEI and its card, layer 3
  l2,       \* the card's TEI in layer 2
  l1,       \* is layer 1 up?
  upq,      \* messages from layer 2 to layer 3
  downq,    \* HDR_TEI messages from layer 3 to layer 2
  asked,    \* TEI_IDREQ frames the network has yet to answer
  owned,    \* the values the network has assigned to this card
  events    \* how much of MaxEvents is used up, and which Troubles there were

vars == <<talk, l2, l1, upq, downq, asked, owned, events>>

Values == Tei \cup {Broadcast} \cup (IF FixedTei = Negotiated THEN {} ELSE {FixedTei})
Limit == IF N201 > N202 THEN N201 ELSE N202

(* talk->state as flags, NR, card->TEI, the callouts that are pending, and *)
(* what one call sends: HDR_TEI messages and TEI_IDREQ frames.             *)
Talk == [alive : BOOLEAN, up : BOOLEAN, T201 : BOOLEAN, T202 : BOOLEAN,
         want : BOOLEAN, NR : 0 .. Limit, tei : Values,
         run201 : Nat, run202 : Nat, out : Seq(Values), reqs : Nat]

Inds == {"PH_ACTIVATE", "PH_DEACTIVATE", "PH_DISCONNECT", "MDL_ERROR"}
Keys == {"IDASS", "IDDENY", "IDCHECK_REQ", "IDREMOVE"}
Message == {<<"TEI", Broadcast>>} \cup ({"IND"} \X Inds) \cup (Keys \X Values)

-----------------------------------------------------------------------------
(* tei.c: from a talk to a talk. *)

SendId(c, t) == [c EXCEPT !.tei = t, !.out = Append(@, t)]

Least(a, b) == IF a <= b THEN a ELSE b
Less(n) == IF n > 0 THEN n - 1 ELSE 0
StopT201(c) == [c EXCEPT !.T201 = FALSE, !.run201 = Less(@)]
StopT202(c) == [c EXCEPT !.T202 = FALSE, !.run202 = Less(@)]
StopTimerOnce(c) == IF c.T201 THEN StopT201(c) ELSE c  \* mutant: T202 forgotten
StopTimer(c) == IF c.T202 THEN StopT202(c) ELSE IF c.T201 THEN StopT201(c) ELSE c
StartT201(c) == [c EXCEPT !.T201 = TRUE, !.run201 = @ + 1]
StartT202(c) == [c EXCEPT !.T202 = TRUE, !.want = FALSE, !.run202 = @ + 1]

EnquiryTwice(c) ==                \* mutant: T201 is left running
  IF FixedTei # Negotiated THEN SendId(c, FixedTei)
  ELSE LET e == [c EXCEPT !.reqs = @ + 1, !.T201 = FALSE]
       IN  IF e.up THEN StartT202(e) ELSE [e EXCEPT !.want = TRUE]
Enquiry(c) ==
  IF FixedTei # Negotiated THEN SendId(c, FixedTei)
  ELSE LET d == IF c.T201 THEN StopT201(c) ELSE c
           e == [d EXCEPT !.reqs = @ + 1]
       IN  IF e.up THEN StartT202(e) ELSE [e EXCEPT !.want = TRUE]

Verify(c) ==
  CASE c.T201 \/ c.T202 -> c
    [] ~(c.T201 \/ c.T202) /\ ~c.up -> Enquiry(c)
    [] ~(c.T201 \/ c.T202) /\ c.up -> StartT201(c)

(* A callout that expires is no longer pending. *)
T201Handler(c) ==
  LET d == [c EXCEPT !.T201 = FALSE]
  IN  CASE ~c.T201 -> c
        [] c.T201 /\ ~c.up -> [d EXCEPT !.want = TRUE]
        [] c.T201 /\ c.up /\ c.NR >= N201 -> Enquiry(SendId(d, Broadcast))
        [] c.T201 /\ c.up /\ c.NR < N201 -> Verify([d EXCEPT !.NR = @ + 1])
T201Expires(c) == T201Handler([c EXCEPT !.run201 = @ - 1])

T202Handler(c) ==
  LET d == [c EXCEPT !.T202 = FALSE]
  IN  CASE ~c.T202 -> c
        [] c.T202 /\ ~c.up -> [d EXCEPT !.want = TRUE]
        [] c.T202 /\ c.up /\ c.NR >= N202 -> SendId(d, Broadcast)
        [] c.T202 /\ c.up /\ c.NR < N202 -> Enquiry([d EXCEPT !.NR = @ + 1])
T202Expires(c) == T202Handler([c EXCEPT !.run202 = @ - 1])

(* tei_chstate.  PH_DISCONNECT_IND removes the callout and leaves the flag. *)
ActivatedIdle(c) == [c EXCEPT !.up = TRUE]  \* mutant: ST_want_T202 forgotten
Activated(c) == LET d == [c EXCEPT !.up = TRUE] IN IF d.want THEN StartT202(d) ELSE d
Deactivated(c) ==
  LET d == StopTimer([c EXCEPT !.up = FALSE])
  IN  IF d.tei = Broadcast THEN Enquiry(d) ELSE d
Disconnected(c) ==
  CASE c.T202 -> [c EXCEPT !.run202 = Less(@)]
    [] ~c.T202 /\ c.T201 -> [c EXCEPT !.run201 = Less(@)]
    [] ~c.T202 /\ ~c.T201 -> c
Failed(c) == IF c.up THEN Verify(c) ELSE [c EXCEPT !.want = TRUE]

ChState(c, ind) ==
  CASE ind = "PH_ACTIVATE" -> Activated(c)
    [] ind = "PH_DEACTIVATE" -> Deactivated(c)
    [] ind = "PH_DISCONNECT" -> Disconnected(c)
    [] ind = "MDL_ERROR" -> Failed(c)

(* tei_recv, for frames that carry this terminal's reference number. *)
Denied(c) ==
  IF FixedTei # Negotiated THEN SendId(StopTimer(c), FixedTei) ELSE SendId(c, Broadcast)
Assigned(c, t) ==
  CASE c.T202 -> IF c.up THEN SendId(StopT202(c), t) ELSE StopT202(c)
    [] ~c.T202 /\ c.T201 -> StopT201(c)
    [] ~c.T202 /\ ~c.T201 -> c
Checked(c, t) ==
  CASE t # Broadcast /\ t # c.tei -> [c EXCEPT !.NR = Less(@)]
    [] t \in {Broadcast, c.tei} /\ c.tei = Broadcast -> c
    [] t \in {Broadcast, c.tei} /\ c.tei # Broadcast -> StopTimer(c)
Removed(c, t) == IF t # c.tei THEN c ELSE SendId(StopTimer(c), Broadcast)

Recv(c, key, t) ==
  CASE key = "IDDENY" -> Denied(c)
    [] key = "IDASS" -> Assigned(c, t)
    [] key = "IDCHECK_REQ" -> Checked(c, t)
    [] key = "IDREMOVE" -> Removed(c, t)

(* tei_getid: layer 2 wants a TEI. *)
GetId(c) == IF c.T202 THEN c ELSE Enquiry([c EXCEPT !.NR = 0])

Kill(c) == [StopTimer(c) EXCEPT !.alive = FALSE]

Handle(c, m) ==
  CASE m[1] = "TEI" -> GetId(c)
    [] m[1] = "IND" -> ChState(c, m[2])
    [] m[1] \in Keys -> Recv(c, m[1], m[2])

-----------------------------------------------------------------------------
NewTalk == [alive |-> TRUE, up |-> FALSE, T201 |-> FALSE, T202 |-> FALSE,
            want |-> FALSE, NR |-> 0, tei |-> Broadcast, run201 |-> 0, run202 |-> 0,
            out |-> <<>>, reqs |-> 0]
Settled(c) == [c EXCEPT !.out = <<>>, !.reqs = 0]

(* The end of a call in layer 3: what it sent is on its way. *)
Return(c) ==
  /\ talk' = Settled(c)
  /\ downq' = downq \o c.out
  /\ asked' = Least(asked + c.reqs, MaxAsked)

(* tei_newcard, and tei_getid at once if so configured. *)
FirstTalk == IF Immediate THEN GetId(NewTalk) ELSE NewTalk
Init ==
  /\ talk = Settled(FirstTalk)
  /\ downq = FirstTalk.out
  /\ asked = FirstTalk.reqs
  /\ l2 = Broadcast /\ l1 = FALSE /\ upq = <<>> /\ owned = {}
  /\ events = [count |-> 0, troubles |-> {}]

(* Layer 3 handles the next message of layer 2. *)
Layer3 ==
  /\ talk.alive /\ upq # <<>>
  /\ Return(Handle(talk, Head(upq)))
  /\ upq' = Tail(upq)
  /\ UNCHANGED <<l2, l1, owned, events>>

Timer201 ==
  /\ talk.alive /\ talk.run201 > 0
  /\ Return(T201Expires(talk))
  /\ UNCHANGED <<l2, l1, upq, owned, events>>
Timer202 ==
  /\ talk.alive /\ talk.run202 > 0
  /\ Return(T202Expires(talk))
  /\ UNCHANGED <<l2, l1, upq, owned, events>>

(* HDR_TEI in layer 2's write service procedure.  A value that differs     *)
(* from the one in use is refused.                                         *)
Accepted(t) == t = Broadcast \/ l2 \in {Requested, Broadcast} \/ t = l2
Layer2 ==
  /\ downq # <<>>
  /\ l2' = IF Accepted(Head(downq)) THEN Head(downq) ELSE l2
  /\ downq' = Tail(downq)
  /\ UNCHANGED <<talk, l1, upq, asked, owned, events>>

(* D_send with something to send and no TEI. *)
DSend ==
  /\ talk.alive /\ l1 /\ l2 = Broadcast
  /\ l2' = Requested
  /\ upq' = Append(upq, <<"TEI", Broadcast>>)
  /\ UNCHANGED <<talk, l1, downq, asked, owned, events>>

(* Something happens outside layer 3; layer 3 gets a message. *)
Event(e, m) ==
  /\ talk.alive /\ e \in Events /\ events.count < MaxEvents
  /\ events' = [count |-> events.count + 1,
                 troubles |-> events.troubles \cup ({e} \cap Troubles)]
  /\ upq' = upq \o m
  /\ UNCHANGED <<talk, downq>>

LineUp == /\ talk.alive /\ ~l1 /\ l1' = TRUE
          /\ upq' = Append(upq, <<"IND", "PH_ACTIVATE">>)
          /\ UNCHANGED <<talk, l2, downq, asked, owned, events>>
LineDown == /\ l1 /\ l1' = FALSE
            /\ Event("deactivate", << <<"IND", "PH_DEACTIVATE">> >>)
            /\ UNCHANGED <<l2, asked, owned>>
LineBroken == /\ l1' = FALSE
              /\ Event("disconnect", << <<"IND", "PH_DISCONNECT">> >>)
              /\ UNCHANGED <<l2, asked, owned>>

(* sendstate: an error of a connection clears the TEI in layer 2, and only *)
(* an error of SAPI_TEI's own is heard by tei.c.                           *)
ConnectionFails == /\ l2 # Broadcast /\ l2' = Broadcast
                   /\ Event("l2_error", <<>>) /\ UNCHANGED <<l1, asked, owned>>
ManagementFails == /\ l1 /\ l2' = Broadcast
                   /\ Event("mdl_error", << <<"IND", "MDL_ERROR">> >>)
                   /\ UNCHANGED <<l1, asked, owned>>

(* The network (external) answers a request, or the frame is lost; it may  *)
(* check or remove a TEI.                                                  *)
Assign(t) ==
  /\ talk.alive /\ l1 /\ asked > 0 /\ t \in Tei \ owned
  /\ upq' = Append(upq, <<"IDASS", t>>)
  /\ asked' = asked - 1 /\ owned' = owned \cup {t}
  /\ UNCHANGED <<talk, l2, l1, downq, events>>
LoseRequest ==
  /\ asked > 0 /\ asked' = asked - 1
  /\ UNCHANGED <<talk, l2, l1, upq, downq, owned, events>>
Deny == /\ l1 /\ asked > 0 /\ asked' = asked - 1
        /\ Event("deny", << <<"IDDENY", Broadcast>> >>)
        /\ UNCHANGED <<l2, l1, owned>>
Check(t) == /\ l1 /\ Event("check", << <<"IDCHECK_REQ", t>> >>)
            /\ UNCHANGED <<l2, l1, asked, owned>>
Remove(t) == /\ l1 /\ t \in owned /\ owned' = owned \ {t}
             /\ Event("remove", << <<"IDREMOVE", t>> >>)
             /\ UNCHANGED <<l2, l1, asked>>

KillTalk ==
  /\ talk.alive /\ "kill" \in Events
  /\ talk' = Kill(talk)
  /\ UNCHANGED <<l2, l1, upq, downq, asked, owned, events>>

Next ==
  \/ Layer3 \/ Timer201 \/ Timer202 \/ Layer2 \/ DSend
  \/ LineUp \/ LineDown \/ LineBroken \/ ConnectionFails \/ ManagementFails
  \/ \E t \in Tei : Assign(t) \/ Remove(t)
  \/ \E t \in Values : Check(t)
  \/ LoseRequest \/ Deny \/ KillTalk

Spec == Init /\ [][Next]_vars

(* The queues are served, pending callouts expire, and requests to the     *)
(* network are answered or lost.                                           *)
Fairness ==
  /\ WF_vars(Layer3) /\ WF_vars(Layer2)
  /\ WF_vars(Timer201) /\ WF_vars(Timer202)
  /\ WF_vars(LineUp) /\ WF_vars(LoseRequest)
FairSpec == Spec /\ Fairness

-----------------------------------------------------------------------------
Happenings == [count : 0 .. MaxEvents, troubles : SUBSET Troubles]
TypeOK ==
  /\ talk \in Talk /\ talk = Settled(talk)
  /\ l2 \in Values \cup {Requested} /\ l1 \in BOOLEAN
  /\ upq \in Seq(Message) /\ downq \in Seq(Values)
  /\ asked \in 0 .. MaxAsked /\ owned \subseteq Tei /\ events \in Happenings

(* ST_T201 and ST_T202 say whether the callout is pending: none expires    *)
(* unnoticed, none is started twice, and tei_kill frees the talk (which    *)
(* the callout points to) with none left.  PH_DISCONNECT_IND stops the     *)
(* callout and leaves the flag: this holds until it comes.                 *)
Unbroken == "disconnect" \notin events.troubles
TimersMatch ==
  Unbroken =>
    /\ talk.run201 = (IF talk.T201 THEN 1 ELSE 0)
    /\ talk.run202 = (IF talk.T202 THEN 1 ELSE 0)
    /\ ~talk.alive => talk.run201 = 0 /\ talk.run202 = 0

(* T201 and T202 share talk->timer, so at most one callout is pending at   *)
(* any time, whatever happens around layer 3.                              *)
OneTimer == talk.run201 + talk.run202 <= 1

(* While layer 2 refuses to send because it has asked for a TEI, an answer *)
(* is on its way or something will make layer 3 go on: the request is in a *)
(* queue, T202 runs, or it will when layer 1 comes up.                     *)
AnswerComing ==
  \/ \E i \in 1 .. Len(upq) : upq[i][1] = "TEI"
  \/ downq # <<>>
  \/ talk.run202 > 0
  \/ talk.want
RequestAlive == talk.alive /\ l2 = Requested => AnswerComing

(* Layer 2 does not wait for its TEI for ever, as long as layer 1 and the  *)
(* connections work.                                                       *)
RequestAnswered ==
  l2 = Requested ~> l2 # Requested \/ ~talk.alive \/ events.troubles # {}

(* When nothing is under way, the TEI layer 2 puts into its frames is the  *)
(* one layer 3 defends against the network's checks and removals.          *)
LayersAgree ==
  upq = <<>> /\ downq = <<>> /\ l2 \notin {Broadcast, Requested} => talk.tei = l2
=============================================================================
