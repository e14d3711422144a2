------------------------------- MODULE Layer2 -------------------------------
(***************************************************************************)
(* The layer 2 driver, src/isdn_2/isdn_2.c: one card with its layer 1, the *)
(* Q.921 entities on its D channel, the devices attached to its channels,  *)
(* and the master device through which layer 3 sees all of them.           *)
(*                                                                         *)
(* An x75 entity is down, busy (it waits for its peer) or up; what makes   *)
(* it move is in X75Lib, what D_send does about the TEI is in TEI.  The    *)
(* card driver may report any state of the line at any time.               *)
(***************************************************************************)
EXTENDS Integers, FiniteSets

CONSTANTS Sapis,        \* the services that may be registered on the D channel
          Devs,         \* the minor numbers of /dev/isdn
          NB, ND,       \* B channels of the card, places for D channel users
          Rare          \* which of the rarer events happen

Events == {"nomem", "full", "reattach", "inuse", "setup"}
ASSUME Layer2Assumption ==
  NB \in Nat \ {0} /\ ND \in Nat /\ 0 \notin Devs /\ Rare \subseteq Events

VARIABLE g
vars == <<g>>

Bs == 1 .. NB
Chans == 1 .. NB + ND
Refs == 0 .. 2                    \* connection references of layer 3, 0 = none
May(e) == IF e \in Rare THEN BOOLEAN ELSE {FALSE}
Loss == IF "full" \in Rare THEN BOOLEAN ELSE {TRUE}     \* there is room upstream

Status == {"down", "await_up", "await_down", "back_up", "up", "wont_down", "wont_up"}
Free == [open |-> FALSE, status |-> "free", chan |-> 0, ref |-> 0]
Device == [open : BOOLEAN, status : {"free", "B", "D"}, chan : {0} \cup Chans, ref : Refs]
State == [reg : BOOLEAN, intel : BOOLEAN,
          status : Status, timedown : 0 .. 2, timeup : BOOLEAN,
          timers : SUBSET {"takedown", "re_up", "sendcards"},
          mode : {"off", "standby", "on"},       \* what the driver was asked for
          line : {"down", "up", "broken"},       \* what the driver said last
          ent : [Sapis -> {"none", "down", "busy", "up"}],
          bmode : [Bs -> {"off", "on"}],
          chan : [Chans -> {0} \cup Devs],
          dev : [Devs -> Device],
          master : BOOLEAN, notsent : BOOLEAN,
          view : {"none", "missed", "card", "up", "down"}, \* what layer 3 was told last
          lost : BOOLEAN]                        \* a notice did not get through

-----------------------------------------------------------------------------
Start(x, t) == [x EXCEPT !.timers = @ \cup {t}]
Stop(x, t) == [x EXCEPT !.timers = @ \ {t}]
Idle(x) == \A s \in Sapis : x.ent[s] \notin {"busy", "up"}

(* D_checkactive: the two seconds to the end of an idle D channel. *)
CheckActiveUp(x) ==                \* mutant: an entity that is busy does not count
  LET y == IF x.timedown = 1 THEN Stop([x EXCEPT !.timedown = 0], "takedown") ELSE x
  IN  IF x.status # "up" THEN x
      ELSE IF (\A s \in Sapis : x.ent[s] # "up") /\ ~y.intel /\ y.timedown = 0
           THEN Start([y EXCEPT !.timedown = 1], "takedown")
           ELSE y
CheckActive(x) ==
  LET y == IF x.timedown = 1 THEN Stop([x EXCEPT !.timedown = 0], "takedown") ELSE x
  IN  IF x.status # "up" THEN x
      ELSE IF Idle(y) /\ ~y.intel /\ y.timedown = 0
           THEN Start([y EXCEPT !.timedown = 1], "takedown")
           ELSE y

(* set_card_status: the timers follow the status. *)
SetStatusKeeps(x, s) == [x EXCEPT !.status = s]      \* mutant: the timers run on

SetStatus(x, s) ==
  LET y == IF x.status = "wont_up" THEN Stop([x EXCEPT !.timeup = FALSE], "re_up") ELSE x
      z == IF s # "up" /\ y.timedown = 1
           THEN Stop([y EXCEPT !.timedown = 0], "takedown") ELSE y
      w == [z EXCEPT !.status = s]
  IN  IF s = x.status THEN x
      ELSE IF s = "wont_up" THEN Start([w EXCEPT !.timeup = TRUE], "re_up") ELSE w
Mode(x, m) == [x EXCEPT !.mode = m]

L1Up(x) ==
  CASE x.status = "wont_up" -> x
    [] x.status \in {"await_down", "back_up"} /\ ~x.intel -> SetStatus(x, "back_up")
    [] x.status \in {"down", "wont_down"} /\ ~x.intel ->
         Mode(SetStatus(x, "await_up"), "on")
    [] OTHER -> CheckActive(x)

L1Down(x) ==
  CASE x.status \in {"await_down", "back_up", "down", "wont_up"} -> Mode(x, "off")
    [] x.status = "wont_down" -> x
    [] x.status = "await_up" ->
         Mode(SetStatus(x, "down"), IF x.master THEN "standby" ELSE "off")
    [] x.status = "up" ->
         IF x.master
         THEN Mode(SetStatus(x, IF x.intel THEN "down" ELSE "await_down"), "standby")
         ELSE Mode(SetStatus(x, "down"), "off")

Knows(x) == x.view \notin {"none", "missed"}   \* layer 3 has heard of the card
NoticeDown(x, v, room) ==                    \* mutant: an indication "up" is not passed on
  IF v # "up" /\ x.master /\ Knows(x) /\ room THEN [x EXCEPT !.view = v, !.lost = FALSE] ELSE x
Notice(x, v, room) ==
  IF x.master /\ ~Knows(x) THEN x
  ELSE IF x.master /\ room THEN [x EXCEPT !.view = v, !.lost = FALSE]
  ELSE [x EXCEPT !.lost = TRUE]

(* isdn2_sendcard *)
SendCard(x, room) ==
  LET y == [x EXCEPT !.bmode = [b \in Bs |-> "off"]]
  IN  IF x.master /\ room THEN Mode([y EXCEPT !.view = "card"], "standby")
      ELSE Mode([y EXCEPT !.view = IF x.master /\ ~Knows(x) THEN "missed" ELSE @], "off")

(* isdn2_disconnect of a device *)
DisconnectHalf(x, d) ==                      \* mutant: the table of the card is forgotten
  [x EXCEPT !.dev[d].status = "free", !.dev[d].chan = 0, !.dev[d].ref = 0]
Disconnect(x, d) ==
  LET c == x.dev[d].chan
      y == IF x.dev[d].status = "free" THEN x
           ELSE [x EXCEPT !.chan[c] = IF @ = d THEN 0 ELSE @]
      z == IF x.dev[d].status = "B" THEN [y EXCEPT !.bmode[c] = "off"] ELSE y
  IN  [z EXCEPT !.dev[d].status = "free", !.dev[d].chan = 0, !.dev[d].ref = 0]
DisconnectAll(x) ==
  LET gone == {d \in Devs : \E c \in Chans : x.chan[c] = d}
  IN  [x EXCEPT !.chan = [c \in Chans |-> 0],
                !.bmode = [b \in Bs |-> IF x.chan[b] # 0 THEN "off" ELSE @[b]],
                !.dev = [d \in Devs |-> IF d \in gone THEN [Free EXCEPT !.open = TRUE]
                                        ELSE @[d]]]

(* D_kill_all: an indication that layer 1 is down ends the entities'       *)
(* connections and the attachments, one that it is up leaves both alone,   *)
(* and 0 removes the entities but counts as an indication "up".            *)
KillAll(x, ind) ==
  CheckActive(
    CASE ind = "up" -> x
      [] ind = "remove" -> [x EXCEPT !.ent = [s \in Sapis |-> "none"]]
      [] ind = "down" ->
           DisconnectAll([x EXCEPT !.ent = [s \in Sapis |->
             IF x.intel \/ @[s] = "none" THEN @[s] ELSE "down"]]))
ToldMute(x, ind, v, room) == KillAll(x, ind)         \* mutant: layer 3 is not told

Told(x, ind, v, room) == CheckActive(Notice(KillAll(x, ind), v, room))
-----------------------------------------------------------------------------
(* isdn2_new_state: what the driver says of layer 1. *)
Bouncing(x, room) ==
  CASE x.status = "wont_up" -> x
    [] x.status \in {"up", "await_up"} ->
         Told(SetStatus(Mode(x, "standby"), "wont_up"), "down", "down", room)
    [] OTHER -> Told(SetStatus(x, "down"), "down", "down", room)

LineDown(x, room) ==
  CASE x.status \in {"await_up", "down"} -> x    \* may be the answer to an earlier M_OFF
    [] x.status = "back_up" -> L1Up(SetStatus(x, "down"))
    [] x.status = "up" ->
         Told(SetStatus(Mode(x, "standby"), "down"), "down", "down", room)
    [] x.status = "wont_up" -> Told(x, "down", "down", room)
    [] OTHER -> Told(SetStatus(x, "down"), "down", "down", room)

LineUp(x, room) ==
  CASE x.status \in {"up", "wont_down"} -> x
    [] x.status = "await_up" -> Told(Mode(SetStatus(x, "up"), "on"), "up", "up", room)
    [] x.status \in {"down", "back_up", "await_down"} ->
         IF x.intel THEN Told(SetStatus(x, "up"), "up", "up", room)
         ELSE Told(SetStatus(x, "wont_down"), "up", x.view, room)
    [] x.status = "wont_up" ->
         Told(SetStatus(IF x.notsent THEN x ELSE SendCard(x, room), "up"),
              "up", "up", room)

NewState(line, mem, room) ==
  LET x == [g EXCEPT !.line = line]
  IN  /\ g.reg
      /\ g' = IF ~mem THEN [(IF line = "up" THEN x ELSE KillAll(x, "down")) EXCEPT !.lost = TRUE]
              ELSE CASE line = "broken" -> Bouncing(x, room)
                     [] line = "down" -> LineDown(x, room)
                     [] line = "up" -> LineUp(x, room)
Report == \E line \in {"down", "up", "broken"}, nomem \in May("nomem"), room \in Loss :
            NewState(line, ~nomem, room)

ReUp ==
  /\ "re_up" \in g.timers
  /\ LET x == Stop(g, "re_up")
         y == SetStatus([x EXCEPT !.timeup = FALSE], "down")
     IN  g' = IF ~x.timeup THEN x ELSE IF g.master THEN L1Up(y) ELSE y
Takedown ==
  /\ "takedown" \in g.timers
  /\ LET x == Stop(g, "takedown")
     IN  g' = IF x.timedown = 1 THEN L1Down([x EXCEPT !.timedown = 0]) ELSE x
SendCards ==
  /\ "sendcards" \in g.timers
  /\ LET x == Stop([g EXCEPT !.notsent = FALSE], "sendcards")
     IN  g' \in IF g.reg THEN {SendCard(x, room) : room \in Loss} ELSE {x}

-----------------------------------------------------------------------------
(* isdn2_register and isdn2_unregister.  A driver that goes while devices  *)
(* are attached leaves them with a pointer to the freed card.              *)
Register ==
  /\ ~g.reg
  /\ g' \in {SendCard([g EXCEPT !.reg = TRUE, !.status = "down", !.mode = "off",
                                !.line = "down", !.timedown = 0], room) : room \in Loss}
Unregister ==
  /\ g.reg
  /\ "inuse" \in Rare \/ \A d \in Devs : g.dev[d].status = "free"
  /\ g' \in {[KillAll(Notice(SetStatus(g, "down"), "none", room), "remove")
              EXCEPT !.reg = FALSE, !.mode = "off",
                     !.chan = [c \in Chans |-> 0],
                     !.bmode = [b \in Bs |-> "off"]] : room \in Loss}

(* isdn2_open and isdn2_close of the master device. *)
OpenMaster ==
  /\ ~g.master
  /\ g' = Start([g EXCEPT !.master = TRUE, !.notsent = TRUE], "sendcards")
CloseMaster ==
  /\ g.master
  /\ LET x == [g EXCEPT !.master = FALSE, !.view = "none"]
         y == IF g.reg THEN L1Down(KillAll(x, "remove")) ELSE x
     IN  g' = IF g.notsent THEN Stop(y, "sendcards") ELSE y

OpenDev(d) ==
  /\ g.master /\ ~g.dev[d].open
  /\ g' = [g EXCEPT !.dev[d].open = TRUE]
CloseDev(d) ==
  /\ g.dev[d].open
  /\ g' = [Disconnect(g, d) EXCEPT !.dev[d] = Free]

-----------------------------------------------------------------------------
(* What an entity does on its way (x75lib.c), from each of the states X:   *)
(* it hands frames to the driver, which looks at the D channel once they   *)
(* are sent and brings layer 1 up if they cannot be (D_send, D_cansend); it*)
(* tells layer 3, whereupon D_state looks at the D channel while the entity*)
(* still has the status it is about to leave; it goes on to another status.*)
(* A frame the driver refuses changes nothing. *)
Sends(X) == X \cup {L1Up(x) : x \in X}
Says(X) == {CheckActive(x) : x \in X}
Goes(X, s, to) == {[x EXCEPT !.ent[s] = to] : x \in X}
Reestablished(X, s) ==             \* Xestablish, which gives up after many errors
  Sends(Goes(X, s, "busy")) \cup Says(Goes(X, s, "down"))
(* isdn2_recv brings a card up that should be down. *)
Awake(x) == IF x.status \notin {"up", "wont_down"} THEN L1Up(x) ELSE x

(* The commands of layer 3 on the master device, isdn2_wsrv. *)
Command == g.master /\ g.reg /\ Knows(g)
CardUp == Command /\ g' = IF g.status # "up" THEN L1Up(g) ELSE g          \* HDR_CARD
CardDown == Command /\ g' = L1Down(g)                                      \* HDR_NOCARD
HoldUp ==                          \* HDR_OPENPROT, SAPI_INVALID or SAPI_FIXED
  /\ Command
  /\ g' = L1Up(IF g.timedown = 1 THEN Stop([g EXCEPT !.timedown = 2], "takedown")
               ELSE [g EXCEPT !.timedown = 2])
LetGo ==                           \* HDR_CLOSEPROT, SAPI_INVALID or SAPI_FIXED
  /\ Command
  /\ g' = CheckActive(L1Down([g EXCEPT !.timedown = IF @ = 2 THEN 0 ELSE @]))
OpenProt(s) ==                     \* HDR_OPENPROT, ind = 0: D_register
  /\ Command /\ g.ent[s] = "none"
  /\ g.intel => \A t \in Sapis : g.ent[t] = "none"
  /\ g' = CheckActive([g EXCEPT !.ent[s] = "down"])
Establish(s) ==                    \* HDR_OPENPROT, DL_ESTABLISH_REQ
  /\ Command /\ ~g.intel /\ g.ent[s] = "down"
  /\ g' \in Says(Reestablished({g}, s))
Release(s) ==                      \* HDR_CLOSEPROT, DL_RELEASE_REQ
  /\ Command /\ ~g.intel /\ g.ent[s] # "none"
  /\ g' \in Says(IF g.ent[s] = "up" THEN Sends(Goes({g}, s, "busy")) ELSE {g})
CloseProt(s) ==                    \* HDR_CLOSEPROT, ind = 0: D_kill_one
  Command /\ g.ent[s] # "none" /\ g' = CheckActive([g EXCEPT !.ent[s] = "none"])

Assigned ==                        \* HDR_TEI: the entities connect anew
  /\ Command /\ ~g.intel
  /\ \E failed \in SUBSET {s \in Sapis : g.ent[s] = "up"} :
       LET x == [g EXCEPT !.ent = [s \in Sapis |-> IF s \in failed THEN "down"
                                   ELSE IF g.ent[s] = "up" THEN "busy" ELSE @[s]]]
       IN  g' \in IF failed = {} THEN Sends({x}) ELSE Says(Sends({x}))
Withdrawn ==                       \* HDR_TEI, TEI_BROADCAST: they are stopped
  /\ Command /\ ~g.intel
  /\ LET x == [g EXCEPT !.ent = [s \in Sapis |-> IF @[s] = "none" THEN "none" ELSE "down"]]
     IN  g' = IF Idle(g) THEN x ELSE CheckActive(x)

(* The entities on their own: a frame of the peer, and a timer that has    *)
(* run out for the last time. *)
PeerFrame(s) ==
  /\ g.reg /\ g.master /\ ~g.intel /\ g.line = "up"
  /\ LET X == {Awake(g)}
     IN  \/ /\ g.ent[s] = "down"
            /\ g' \in Sends(Goes(Says(Sends(X)), s, "up"))               \* SABM
                     \cup Reestablished(X, s)                            \* DM
         \/ /\ g.ent[s] = "busy"
            /\ g' \in Sends(Goes(X \cup Says(X), s, "up"))               \* UA
                     \cup Goes(Says(X), s, "down")                       \* DM, UA
         \/ /\ g.ent[s] = "up"
            /\ g' \in Goes(Says(Sends(X)), s, "down")                    \* DISC
                     \cup Reestablished(Says(X), s)                      \* DM, FRMR
Expires(s) ==                      \* x75_T1
  /\ g.reg /\ ~g.intel
  /\ \/ g.ent[s] = "busy" /\ g' \in Goes(Says({g}), s, "down")
     \/ g.ent[s] = "up" /\ g' \in Reestablished(Says({g}), s)
(* D_send and D_cansend: a frame brings layer 1 up. *)
Transmit ==
  /\ g.reg /\ \E s \in Sapis : g.ent[s] # "none"
  /\ g' = IF g.status # "up" THEN L1Up(g) ELSE CheckActive(g)
(* isdn2_recv: a frame for nobody here, or one that changes no entity.     *)
Receive ==
  /\ g.master /\ g.reg /\ ~g.intel /\ g.line = "up"
  /\ g' = Awake(g)

(* HDR_ATTACH: a card that is down may be attached to while a connection   *)
(* is set up, or be switched on by force; the driver may refuse.  Layer 3  *)
(* moves a device to another channel only after it has detached it.        *)
MayAttach(d, i) ==
  /\ Command /\ g.dev[d].open /\ g.chan[i] \in {0, d}
  /\ "reattach" \in Rare \/ g.dev[d].status = "free" \/ g.dev[d].chan = i
Entered(x, d, i, kind, ref) ==
  [x EXCEPT !.chan[i] = d, !.dev[d].status = kind, !.dev[d].chan = i, !.dev[d].ref = ref]
Switched(setup, force) ==
  IF g.status # "up" /\ ~setup /\ force THEN {Mode(g, "on")}
  ELSE IF g.status = "up" \/ setup THEN {g} ELSE {}
AttachB(d, b) ==
  \E ref \in Refs, setup, force \in May("setup") : \E x \in Switched(setup, force) :
    /\ MayAttach(d, b) /\ (0 \in {ref, g.dev[d].ref} \/ ref = g.dev[d].ref)
    /\ g' \in {x, [Entered(x, d, b, "B", IF ref # 0 THEN ref ELSE g.dev[d].ref)
                   EXCEPT !.bmode[b] = "on"]}
AttachD(d) ==
  \E ref \in Refs, setup, force \in May("setup"), i \in Chans \ Bs :
    \E x \in Switched(setup, force) :
      /\ MayAttach(d, i) /\ \A j \in NB + 1 .. i - 1 : g.chan[j] \notin {0, d}
      /\ g' = Entered(x, d, i, "D", ref)
Detach(d) ==                       \* HDR_DETACH and HDR_CLOSE
  /\ g.master /\ g.dev[d].open
  /\ g' = Disconnect(g, d)
Init ==
  \E intel \in BOOLEAN :
    g = [reg |-> FALSE, intel |-> intel, status |-> "down", timedown |-> 0,
         timeup |-> FALSE, timers |-> {}, mode |-> "off", line |-> "down",
         ent |-> [s \in Sapis |-> "none"], bmode |-> [b \in Bs |-> "off"],
         chan |-> [c \in Chans |-> 0], dev |-> [d \in Devs |-> Free],
         master |-> FALSE, notsent |-> FALSE, view |-> "none", lost |-> FALSE]
Next ==
  \/ Report \/ ReUp \/ Takedown \/ SendCards
  \/ Register \/ Unregister \/ OpenMaster \/ CloseMaster
  \/ CardUp \/ CardDown \/ HoldUp \/ LetGo \/ Assigned \/ Withdrawn \/ Transmit \/ Receive
  \/ \E s \in Sapis : \/ OpenProt(s) \/ Establish(s) \/ Release(s) \/ CloseProt(s)
                       \/ PeerFrame(s) \/ Expires(s)
  \/ \E d \in Devs : OpenDev(d) \/ CloseDev(d) \/ AttachD(d) \/ Detach(d)
  \/ \E d \in Devs, b \in Bs : AttachB(d, b)
Spec == Init /\ [][Next]_vars

-----------------------------------------------------------------------------
(* The record is well-formed; the flags and the callouts that go with them *)
(* agree: timeup with the callout of D_L1_re_up, isdn2_notsent of an open  *)
(* master device with the one of isdn2_sendcards.                          *)
TypeOK ==
  /\ g \in State
  /\ g.timeup <=> "re_up" \in g.timers
  /\ "sendcards" \in g.timers <=> g.notsent /\ g.master

(* The callouts follow the status of the card through all nine ways it     *)
(* changes: the two seconds to the end of the line run only on a card that *)
(* is registered, is up and is not an intelligent one, exactly as long as  *)
(* timedown says so, and the thirty seconds to the next try run exactly    *)
(* while layer 1 won't come up. *)
TimersMatch ==
  /\ "takedown" \in g.timers => g.reg /\ g.status = "up" /\ ~g.intel
  /\ "takedown" \in g.timers <=> g.timedown = 1
  /\ "re_up" \in g.timers <=> g.status = "wont_up"

(* D_checkactive: the two seconds begin only at a step that finds or leaves*)
(* every entity of the D channel idle, and a connection that layer 3 asks  *)
(* for, which is not given up at once, ends them. *)
BeginsIdle ==
  [][/\ "takedown" \in g'.timers \ g.timers => Idle(g) \/ Idle(g')
     /\ \A s \in Sapis :
          Establish(s) /\ g'.ent[s] = "busy" => "takedown" \notin g'.timers]_vars

(* The card's table of channels and the devices' records say the same, and *)
(* a B channel that is switched on belongs to an open device, after any    *)
(* order of attaching, closing, and lines and cards that go down.          *)
ChannelsAgree ==
  /\ \A d \in Devs, i \in Chans :
       g.chan[i] = d <=> g.dev[d].status # "free" /\ g.dev[d].chan = i
  /\ \A b \in Bs : g.bmode[b] = "on" => g.chan[b] # 0
  /\ \A d \in Devs : g.dev[d].status # "free" => g.dev[d].open

(* What the driver said of the line, the status of the card and what layer *)
(* 3 was told agree: unless a report or a notice was lost, a card counts as*)
(* up only while its line is up, and layer 3 never takes for down a card   *)
(* that is up, nor for up one that failed. *)
ViewAgrees ==
  ~g.lost =>
    /\ g.status = "up" => g.line = "up"
    /\ g.master /\ g.view = "down" => g.status # "up"
    /\ g.master /\ g.view = "up" => g.status # "wont_up"

(* A device loses its channel only because layer 3 took it away, because   *)
(* it was closed, or along with a line that layer 3 hears has gone down    *)
(* (unless that notice was lost, or a new layer 3 does not know the card). *)
DetachTold ==
  [][\A d \in Devs : g.dev[d].status # "free" /\ g'.dev[d].status = "free"
       => Detach(d) \/ CloseDev(d) \/ g'.view = "down" \/ g'.lost
          \/ ~g'.master \/ ~Knows(g)]_vars

(* An attached device never refers to a card that has been unregistered.   *)
NoStaleCard == \A d \in Devs : g.dev[d].status # "free" => g.reg
=============================================================================
