------------------------------- MODULE Conn --------------------------------
(***************************************************************************)
(* One connection of layer 3, struct _isdn3_conn of src/isdn_3: its timers *)
(* (include/isdn_3.h), the steps that attach its B channel and set up its  *)
(* protocol stack (isdn3_setup_conn), its removal (isdn3_killconn), and    *)
(* what the two call-control protocols, prot_ETS.c (Q.931) and             *)
(* prot_1TR6_1.c, give these functions: state changes, the pending answer  *)
(* and the clearing of a call.  Operators map a connection to a            *)
(* connection; the message tables are in CallETS and Call1TR6.             *)
(*                                                                         *)
(* The record holds the connection, the flags of its minor device (open,   *)
(* sent), the link that carries its messages (up, PHONE_UP), what the card *)
(* is attached to (att), and what the outside knows of the call: told, the *)
(* last indication to layer 4, and net, the network's view.  There is one  *)
(* connection on the card and its control channel is its own device.       *)
(* Memory is there, except where an operator says so.  ARG_DELAY is not    *)
(* used; the profile has a site and a stack; layer 2 is not kept up.       *)
(***************************************************************************)
EXTENDS Integers

States == {0, 1, 2, 3, 4, 6, 7, 8, 10, 11, 12, 19, 99}
Timers == {"T303", "T304", "T305", "T308", "T310", "T313", "TCONN", "TALERT", "TFOO"}

Connection == [
  prot : {"ETS", "1TR6"}, ex : BOOLEAN, st : States,
  run : SUBSET Timers,      \* timerflags
  armed : SUBSET Timers,    \* callouts that are really pending
  rep : BOOLEAN,            \* REP_T308
  minor : BOOLEAN,          \* conn->minor is set
  mapped : BOOLEAN,         \* minor2conn points here
  bchan : BOOLEAN, want : BOOLEAN, detached : BOOLEAN, nominor : BOOLEAN,
  setup : 0 .. 3,           \* MS_SETUP_MASK: none, attach, listen, conn
  proto : BOOLEAN, protosent : BOOLEAN,
  stack : 0 .. 3,           \* MS_CONN_MASK: none, setup, listen, conn
  tconn : BOOLEAN, tdelay : BOOLEAN, tend : BOOLEAN,
  delaying : BOOLEAN, hup : BOOLEAN,
  pending : BOOLEAN,        \* conn->id is CMD_ANSWER
  open : {"no", "will", "open"}, sent : 0 .. 3, up : BOOLEAN, att : 0 .. 3,
  told : {"nothing", "dialled", "incoming", "conn", "disconnecting", "disconnect"},
  net : {"none", "known", "released"},
  dangling : BOOLEAN]       \* freed with a callout pending

NewConn(p) ==
  [prot |-> p, ex |-> FALSE, st |-> 0, run |-> {}, armed |-> {}, rep |-> FALSE,
   minor |-> FALSE, mapped |-> FALSE, bchan |-> FALSE, want |-> FALSE,
   detached |-> FALSE, nominor |-> FALSE, setup |-> 0, proto |-> FALSE,
   protosent |-> FALSE, stack |-> 0, tconn |-> FALSE, tdelay |-> FALSE,
   tend |-> FALSE, delaying |-> FALSE, hup |-> FALSE, pending |-> FALSE,
   open |-> "no", sent |-> 0, up |-> FALSE, att |-> 0, told |-> "nothing",
   net |-> "none", dangling |-> FALSE]

-----------------------------------------------------------------------------
(* Timers.  timer() only notes the timer while the link is down; ftimer()  *)
(* starts it anyway; rtimer() starts what was noted.                       *)
TimersOf(s) ==
  CASE s = 1 -> {"T303"} [] s = 2 -> {"T304"} [] s = 3 -> {"T310"}
    [] s = 6 -> {"TALERT", "TCONN"} [] s = 7 -> {"TCONN"} [] s = 8 -> {"T313"}
    [] s = 11 -> {"T305"} [] s = 19 -> {"T308"} [] s = 99 -> {"TFOO"}
    [] OTHER -> {}

Untimer(c, T) == [c EXCEPT !.run = @ \ T, !.armed = @ \ T]
Timer(c, T) ==
  [c EXCEPT !.run = @ \cup T, !.armed = IF c.up THEN @ \cup (T \ c.run) ELSE @]
FTimer(c, T) == [c EXCEPT !.run = @ \cup T, !.armed = @ \cup (T \ c.run)]
TimerUp(c) == [c EXCEPT !.armed = @ \cup c.run]

(* report_terminate: DISCONNECT when the call is over, else DISCONNECTING. *)
Terminated(c) ==
  [c EXCEPT !.told = IF c.st \in {0, 99} THEN "disconnect" ELSE "disconnecting"]

StartTimers(c, s) ==
  IF s \in {6, 7} THEN FTimer(c, TimersOf(s)) ELSE Timer(c, TimersOf(s))
Enter(c, s) == StartTimers(IF s = 0 \/ s > 10 THEN Terminated(c) ELSE c, s)

SetStateKeeps(c, s) ==            \* mutant: the old state's timers go on
  IF c.st = s THEN c ELSE Enter([c EXCEPT !.st = s], s)
SetState(c, s) ==
  IF c.st = s THEN c ELSE Enter([Untimer(c, TimersOf(c.st)) EXCEPT !.st = s], s)

(* phone_sendback, by what the message means for the call. *)
SendCall(c) == [c EXCEPT !.net = "known"]         \* SETUP, ALERT, CONN
SendRelease(c) == [c EXCEPT !.net = "released"]   \* DISC, REL, REL_COM, REL_ACK

-----------------------------------------------------------------------------
(* isdn3_setup_conn up to the pending command; est is the EST_ constant.   *)
WantLevel(c, est) ==
  CASE est = "CONNECT" /\ c.proto -> 3
    [] est = "LISTEN" /\ c.proto -> 2
    [] est \in {"SETUP", "LISTEN", "CONNECT"} /\ (est = "SETUP" \/ ~c.proto) -> 1
    [] OTHER -> 0

NeedsAttach(c, est) ==
  c.minor /\ c.bchan /\ ~c.nominor /\ ~c.detached /\ WantLevel(c, est) > c.setup

Attach(c, est) ==
  IF NeedsAttach(c, est)
  THEN [c EXCEPT !.setup = WantLevel(c, est), !.att = WantLevel(c, est)] ELSE c

InitStack(c) ==
  IF c.minor /\ ~c.protosent /\ ~c.detached /\ c.open = "open" /\ c.want
     /\ c.setup > 0 /\ c.bchan
  THEN [c EXCEPT !.protosent = TRUE] ELSE c

SentOf(c) == IF c.minor THEN c.sent ELSE 0
StopWatchHalf(c) == [c EXCEPT !.tconn = FALSE]   \* mutant: one of two callouts
StopWatch(c) == [c EXCEPT !.tconn = FALSE, !.tdelay = FALSE]
Watched(c, n) == [c EXCEPT !.stack = n, !.tconn = @ \/ SentOf(c) # 3]

Intend(c, est) ==
  CASE est = "WILL_DISCONNECT" /\ c.minor /\ c.proto -> c
    [] est = "DISCONNECT" \/ (est = "WILL_DISCONNECT" /\ ~(c.minor /\ c.proto)) ->
         [StopWatch(c) EXCEPT !.proto = FALSE, !.protosent = FALSE, !.stack = 0]
    [] est = "SETUP" -> Watched(c, 1)
    [] est = "LISTEN" -> Watched(c, 2)
    [] est = "CONNECT" -> Watched([c EXCEPT !.tdelay = @ \/ c.stack # 3], 3)
    [] OTHER -> c

TellStack(c) ==
  CASE ~c.minor \/ c.nominor -> c
    [] c.minor /\ ~c.nominor /\ c.stack = 0 -> [c EXCEPT !.sent = IF @ >= 2 THEN 0 ELSE @]
    [] c.minor /\ ~c.nominor /\ c.stack \in {1, 2} ->
         [c EXCEPT !.sent = IF c.proto THEN c.stack ELSE @]
    [] c.minor /\ ~c.nominor /\ c.stack = 3 ->
         IF c.proto /\ c.sent # 3 /\ ~c.tdelay
         THEN [c EXCEPT !.sent = 3, !.tconn = FALSE] ELSE c

Detach(c, before, est) ==
  IF c.setup > 0 /\ (est = "DISCONNECT" \/
                     (est = "WILL_DISCONNECT" /\ ~(before.minor /\ before.proto)))
  THEN [StopWatch(c) EXCEPT !.setup = 0, !.detached = TRUE, !.proto = FALSE,
                            !.att = IF c.detached THEN @ ELSE 0]
  ELSE c

FollowUp(c, est) == Detach(TellStack(Intend(c, est)), c, est)
SetupPlain(c, est) ==
  FollowUp([InitStack(Attach(c, est))
            EXCEPT !.detached = @ /\ est \notin {"SETUP", "LISTEN", "CONNECT"}], est)

-----------------------------------------------------------------------------
(* CMD_ANSWER.  Without protocol stack or, in ETS, B channel the command   *)
(* waits and isdn3_setup_conn repeats it.  1TR6 refuses it in a wrong      *)
(* state, ETS notes that and goes on. *)
Refuses(c) == c.prot = "1TR6" /\ c.st \notin {6, 7}
TakeCall(c) == SendCall(SetState(c, 8))
AnswerNow(c, accepted) ==
  IF c.proto /\ (c.prot = "ETS" => c.bchan) THEN accepted
  ELSE [(IF c.proto /\ c.st # 7 THEN SendCall(SetState(c, 7)) ELSE c)
        EXCEPT !.pending = TRUE]
AnswerAgain(c) == AnswerNow(c, SetupPlain(TakeCall(c), "LISTEN"))
Repeat(c) ==                      \* the pending command is given once more
  CASE ~c.pending -> c
    [] c.pending /\ Refuses(c) -> [c EXCEPT !.pending = FALSE]
    [] c.pending /\ ~Refuses(c) ->
         AnswerAgain(SetupPlain([c EXCEPT !.pending = FALSE, !.want = TRUE], "SETUP"))
SetupHeld(c, est) == Repeat(SetupPlain(c, est))   \* isdn3_setup_conn while lockit > 0

AnswerHeld(c) == AnswerNow(c, SetupHeld(TakeCall(c), "LISTEN"))
Answer(c) == IF Refuses(c) THEN c ELSE AnswerHeld(SetupHeld([c EXCEPT !.want = TRUE], "SETUP"))

-----------------------------------------------------------------------------
(* send_disc; release is 0, 1 or, to insist, 2. *)
DiscStateETS(c, release) ==
  CASE c.st = 12 -> 19
    [] c.st \in {6, 11} -> IF release > 1 THEN 11 ELSE 99
    [] OTHER -> 11
DiscState1TR6(c, release) ==
  CASE c.st = 8 -> IF release = 1 THEN 19 ELSE 11
    [] c.st \in {6, 7} -> IF release > 1 THEN 11 ELSE 19
    [] c.st \in {11, 12} -> 19
    [] OTHER -> IF release > 0 THEN 12 ELSE 11
SendDisc(c, release) ==
  IF c.st \in {0, 19, 99} \/ (c.st = 11 /\ release = 0) THEN c
  ELSE SetState(SendRelease(c), IF c.prot = "ETS" THEN DiscStateETS(c, release)
                                ELSE DiscState1TR6(c, release))

-----------------------------------------------------------------------------
(* isdn3_killconn; force is 0, 1 or 3.  It marks the connection with       *)
(* MS_DELAYING, so the calls it makes of itself through isdn3_setup_conn   *)
(* only stop the watchdogs again.                                          *)
Quiet(c) == IF c.st = 0 THEN StopWatch(c) ELSE c
SetupDying(c, est) == Quiet(SetupHeld(c, est))

FreedOf(c) ==
  [NewConn(c.prot) EXCEPT
     !.open = c.open, !.sent = c.sent, !.att = c.att, !.told = c.told, !.net = c.net,
     !.dangling = c.armed # {} \/ c.tconn \/ c.tdelay \/ c.tend]

(* The connection record goes, and with the last one the link. *)
Unlink(c, held) ==
  IF held THEN [c EXCEPT !.mapped = @ /\ ~(c.minor /\ c.open # "no")] ELSE FreedOf(c)

KillProt(c, hard) ==              \* the protocol's killconn
  CASE c.st = 0 -> c
    [] c.st = 99 -> SetState(c, 0)
    [] c.st \notin {0, 99} /\ hard -> SendRelease(c)
    [] c.st \notin {0, 99} /\ ~hard -> SendDisc(c, 1)

Over(c, hard, held) == IF hard \/ c.st = 0 THEN Unlink([c EXCEPT !.st = 0], held) ELSE c
TearDown(c, hard, held) ==
  LET d == IF c.minor /\ c.open # "no" /\ c.mapped THEN SetupDying(c, "DISCONNECT") ELSE c
  IN  Over(KillProt(IF hard THEN Untimer(d, Timers) ELSE d, hard), hard, held)

Kill(c, force, held) ==
  LET d == [c EXCEPT !.delaying = TRUE]
  IN  CASE force = 0 /\ c.delaying -> c
        [] force = 0 /\ ~c.delaying /\ c.hup /\ SentOf(c) >= 2 /\ c.proto ->
             IF c.tend THEN d
             ELSE [SetupDying(d, "WILL_DISCONNECT") EXCEPT !.tend = TRUE, !.hup = FALSE]
        [] force # 0 /\ c.tend -> d
        [] OTHER -> TearDown([d EXCEPT !.tend = FALSE], force # 0, held)
KillConn(c, force, held) ==
  Kill([StopWatch(c) EXCEPT !.pending = @ /\ force = 0], force, held)

(* isdn3_setup_conn as the other functions call it. *)
KillIfOver(c) == IF c.st = 0 THEN KillConn(c, 0, FALSE) ELSE c
Setup(c, est) == KillIfOver(SetupHeld(c, est))

CheckTermNot(c, held) == c        \* mutant: the connection stays in state 0
(* checkterm: 1TR6 reports the end once more. *)
CheckTerm(c, held) ==
  IF c.st # 0 \/ ~c.ex THEN c
  ELSE KillConn(IF c.prot = "ETS" THEN c ELSE Terminated(c), 1, held)

(* release_postET, release_postn1 with force, after a message that cannot  *)
(* be used.  1TR6 gives up its claim to the B channel.                     *)
PackErr(c) ==
  LET d == SendRelease(Untimer(c, TimersOf(c.st) \ {"TCONN", "TALERT"}))
      e == IF c.st \in {2, 3, 4, 10, 11} THEN Setup(d, "DISCONNECT") ELSE d
  IN  IF c.st \in {19, 99} THEN c
      ELSE SetState([e EXCEPT !.bchan = @ /\ c.prot = "ETS"], 19)

(* get_chanID; chan: the message names a B channel. *)
ChanID(c, chan) ==
  IF chan /\ ~c.bchan THEN Setup([c EXCEPT !.bchan = TRUE], "SETUP") ELSE c

(* The network's message moves the call on to state s, 10 when it is       *)
(* connected, or leaves it where it is (Same), if there is a B channel to  *)
(* connect and a message block (ok) for the attach. *)
Same == -1
None == -2
EstFor(s) == IF s = 10 THEN "CONNECT" ELSE "LISTEN"
Arrive(c, s) ==
  CASE s = Same -> c
    [] s = 10 -> SetState([c EXCEPT !.told = "conn", !.net = "known"], 10)
    [] OTHER -> SetState(c, s)
Fails(c, s, ok) == (s = 10 /\ ~c.bchan) \/ (~ok /\ NeedsAttach(c, EstFor(s)))
Progress(c, ok, s) ==
  IF Fails(c, s, ok) THEN PackErr(c) ELSE Arrive(Setup(c, EstFor(s)), s)
=============================================================================
