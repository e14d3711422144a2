------------------------------ MODULE Conninfo ------------------------------
(***************************************************************************)
(* One connection record of the ISDN daemon, src/isdn_4: its state and the *)
(* callouts that go with it (conn.c), and what the daemon does with each   *)
(* message of layer 3 (info.c), with incoming calls and with the program   *)
(* that serves the connection (work.c).  The record belongs to a permanent *)
(* program ('p' in the R line of the configuration).                       *)
(*                                                                         *)
(* Every operator takes the record and returns it; the commands written to *)
(* the monitor device are collected in "out".  Four fields are the         *)
(* outcomes of calls that read the configuration or the clock: "found"     *)
(* (findit), "pushes" (pushprot), "levels" (findit has a further dial      *)
(* level), "short" (mintime has not elapsed); "next" is the connection     *)
(* number isdn4_connref.                                                   *)
(***************************************************************************)
EXTENDS Integers, Sequences

CONSTANTS Limit,      \* cg->retries, ",#" in the configuration
          MaxReconn   \* MAX_RECONN

ASSUME ConninfoAssumption == Limit \in Nat /\ MaxReconn \in Nat /\ MaxReconn >= 2

c_unknown == 0     c_forceoff == 1
c_offdown == 2     c_off == 3
c_down == 4        c_going_down == 5
c_going_up == 6    c_up == 7

NoRecord ==
  [ex |-> FALSE, ign |-> 0, lock |-> FALSE, st |-> c_unknown, minor |-> FALSE, pid |-> FALSE,
   ref |-> 0, dir |-> "none", wr |-> 0, fast |-> FALSE, trec |-> FALSE, retime |-> FALSE,
   retries |-> 0, charge |-> FALSE, bounced |-> FALSE, setup |-> FALSE, nd |-> 0,
   more |-> FALSE, found |-> TRUE, pushes |-> TRUE, levels |-> FALSE, short |-> FALSE, next |-> 0,
   hup |-> FALSE, out |-> <<>>]

Say(d, cmd, ref) == [d EXCEPT !.out = Append(@, [cmd |-> cmd, ref |-> ref])]
SayIf(b, d, cmd) == IF b THEN Say(d, cmd, 0) ELSE d

-----------------------------------------------------------------------------
(* conn.c, Xsetconnstate: the callout that delays the next attempt. *)
TimerReconn(d, s) ==
  IF d.trec
  THEN [d EXCEPT !.trec = ~(\/ s \in {c_off, c_offdown}
                            \/ s >= c_going_up /\ d.st < c_going_up)]
  ELSE IF s # c_off /\ s < c_going_up /\ d.st >= c_going_up
  THEN [d EXCEPT !.fast = FALSE, !.trec = ~d.fast]
  ELSE d

(* A further dial level turns "off" into another try. *)
Target(d, s) == IF s = c_off /\ d.more THEN c_down ELSE s
Levelled(d, s) ==
  [d EXCEPT !.retries = IF s = c_off /\ d.more THEN 0 ELSE @,
            !.more = @ /\ s \notin {c_up, c_off}]

Switched(d, t) ==
  LET able == d.minor /\ d.setup
  IN  SayIf(able /\ d.st >= c_off /\ t = c_down,
            SayIf(able /\ d.st >= c_down /\ t <= c_off, d, "DISABLE"), "ENABLE")

(* The accounts of the call and the watchdog of the disconnect. *)
Booked(d, t) ==
  [d EXCEPT !.bounced = IF t = c_up THEN FALSE ELSE @ \/ t = c_going_up,
            !.charge = @ /\ ~(d.st < c_going_down /\ t > c_going_down) /\ t >= c_off,
            !.pid = @ /\ ~(d.st > c_forceoff /\ t <= c_forceoff),
            !.nd = IF d.st # c_going_down /\ t = c_going_down THEN @ + 1
                   ELSE IF d.st = c_going_down /\ t # c_going_down /\ @ > 0 THEN @ - 1 ELSE @,
            !.retries = IF d.st = c_off /\ t > c_off THEN 0 ELSE @,
            !.wr = IF d.st = c_off /\ t > c_off THEN 0 ELSE @]

(* A connection that is down stays so when it begins to go down. *)
Entered(d, t) ==
  [d EXCEPT !.st = IF d.st = c_down /\ t = c_going_down THEN @ ELSE t,
            !.ref = IF t <= c_down THEN 0 ELSE @]

Retimed(d, t) == [d EXCEPT !.retime = IF t = c_off THEN TRUE ELSE @ /\ t < c_off]

RECURSIVE SetConnState(_, _)

(* work.c, startconn for an outgoing call, called by try_reconn. *)
Redial(d) ==
  IF ~d.found \/ ~d.minor THEN SetConnState(d, c_off)
  ELSE Say(SetConnState([d EXCEPT !.dir = "out", !.ref = d.next, !.more = d.levels],
                        c_going_up),
           "DIAL", d.next)

TryReconn(d) ==
  IF d.st <= c_off THEN d
  ELSE IF d.st \notin {c_down, c_up} \/ d.trec
  THEN [d EXCEPT !.wr = IF @ = 0 THEN 2 ELSE @]
  ELSE IF d.st = c_down THEN Redial(d) ELSE d

SetConnState(d, s) ==
  LET t == Target(d, s)
      e == Entered(Booked(Switched(Levelled(TimerReconn(d, s), s), t), t), t)
      f == IF t = c_down /\ e.wr > 0 THEN TryReconn([e EXCEPT !.wr = @ - 1])
           ELSE IF t = c_up THEN [e EXCEPT !.retries = 0, !.wr = 0] ELSE e
  IN  IF d.ign > 0 THEN e ELSE Retimed(f, t)

-----------------------------------------------------------------------------
(* conn.c, Xdropconn and rdropconn. *)
DropConn(d) ==
  IF d.lock THEN d
  ELSE SetConnState([d EXCEPT !.ign = 1], c_unknown)
RDropConn(d) == IF d.lock THEN d ELSE NoRecord

(* The device is gone: the program is told, or the record dropped. *)
LoseDevice(d) ==
  LET e == [d EXCEPT !.minor = FALSE]
  IN  IF e.pid THEN [e EXCEPT !.hup = TRUE] ELSE DropConn(e)

(* The callouts retime and time_reconn. *)
Retime(d) ==
  LET e == [d EXCEPT !.retime = FALSE]
  IN  IF d.st = c_off THEN SetConnState(e, c_down) ELSE e
TimeReconnLost(d) == [d EXCEPT !.trec = FALSE]    \* no try_reconn
TimeReconn(d) ==
  LET e == [d EXCEPT !.trec = FALSE]
  IN  IF d.wr > 0 THEN TryReconn(e) ELSE e

-----------------------------------------------------------------------------
(* info.c, find_conn: the record a message is about, brought up to date. *)
Matches(d, m) ==
  /\ d.ex /\ d.ign = 0
  /\ IF m.ref # 0 /\ d.ref # 0 THEN m.ref = d.ref ELSE m.minor /\ d.minor
FindConn(d, m) ==
  LET e == [d EXCEPT !.minor = @ \/ m.minor, !.ref = IF @ = 0 THEN m.ref ELSE @]
      f == IF e.bounced /\ e.st < c_going_up THEN SetConnState(e, c_off) ELSE e
  IN  IF m.charge THEN [f EXCEPT !.charge = TRUE] ELSE e

UpDownUnpaid(d, s, force) ==      \* the charges are not looked at
  IF d.retries >= Limit THEN SetConnState(d, c_off)
  ELSE SetConnState([d EXCEPT !.retries = @ + 1], IF force THEN c_off ELSE s)
UpDown(d, s, force) ==
  IF d.charge \/ d.retries >= Limit
  THEN SetConnState([d EXCEPT !.retries = IF d.st > c_off THEN @ + 1 ELSE @], c_off)
  ELSE SetConnState([d EXCEPT !.retries = @ + 1], IF force THEN c_off ELSE s)
Down(d, s) == SetConnState(d, IF d.short THEN c_off ELSE s)
Ended(d, s) ==
  IF d.st = c_going_up THEN UpDown(d, s, FALSE) ELSE IF d.st = c_up THEN Down(d, s) ELSE d

HasEnable(d) ==
  IF d.st = c_off THEN SetConnState(d, c_down)
  ELSE IF d.st = c_offdown THEN SetConnState(d, c_going_down) ELSE d
HasDisable(d) ==
  IF d.st = c_down THEN SetConnState(d, c_off)
  ELSE IF d.st = c_going_down THEN SetConnState(d, c_offdown) ELSE d

DiscRun(d, s, force) ==
  LET e == IF d.st = c_going_up THEN UpDown(d, s, force)
           ELSE IF d.st = c_up THEN Down(d, s)
           ELSE IF d.st = c_down THEN SetConnState(d, s) ELSE d
  IN  IF e.pid THEN e ELSE DropConn(e)
DiscWhileUp(d, force) ==          \* no case c_going_down
  IF d.st = c_offdown THEN SetConnState(d, c_down)
  ELSE IF d.st \in {c_going_up, c_up} THEN DiscRun(d, c_down, force) ELSE d
Disc(d, force) ==
  IF d.st = c_offdown THEN SetConnState(d, c_down)
  ELSE IF d.st \in {c_going_up, c_up} THEN DiscRun(d, c_down, force)
  ELSE IF d.st = c_going_down THEN SetConnState(d, IF force THEN c_off ELSE c_down)
  ELSE IF d.st = c_down THEN SetConnState(d, c_down) ELSE d

WantConnect(d, force) ==
  IF d.st < c_off \/ (d.st = c_off /\ ~force) \/ d.st >= c_going_up THEN d
  ELSE LET e == IF d.st = c_off THEN SetConnState(d, c_down) ELSE d
       IN  TryReconn([e EXCEPT !.ref = 0])

(* The call is there, and connected; charges; the messages of the stream   *)
(* that end it.                                                            *)
Conn(d) == SetConnState(d, c_going_up)
HasConnected(d) == SetConnState(d, c_up)
GetInfo(d) == IF d.st >= c_going_up THEN SetConnState(d, d.st) ELSE d
Disconnect(d) == Say(Ended(d, c_going_down), "OFF", 0)
HasDisconnect(d) == Ended(Say(d, "OFF", 0), c_going_down)

(* IND_CARDPROTO: the protocol stack of the call is configured. *)
PushProt(d, ref) == Say(d, IF d.pushes THEN "CARDSETUP" ELSE "OFF", ref)
CardProto(d, m) ==
  IF d.found THEN PushProt(d, m.ref)
  ELSE LET e == SetConnState([d EXCEPT !.wr = 0], c_off)
       IN  Say(IF e.pid THEN e ELSE DropConn(e), "OFF", m.ref)

(* IND_ERR: a command of the daemon failed in layer 3. *)
Error(d, m) ==
  LET e == Say(d, "OFF", m.ref)
  IN  IF m.minor THEN (IF e.minor THEN LoseDevice(Say(e, "CLOSE", 0)) ELSE Say(e, "CLOSE", 0))
      ELSE e

-----------------------------------------------------------------------------
(* work.c, startconn for an incoming call: keep the new call ("+"), the    *)
(* old one ("-"), call back ("="), or answer.                              *)
Verdict(d, mode) ==
  IF d.st = c_forceoff THEN "-"
  ELSE IF d.st = c_going_down THEN (IF mode = "plain" THEN "+" ELSE "-")
  ELSE IF mode = "forceout" THEN "="
  ELSE IF d.st > c_going_down /\ mode = "prefout" THEN "-"
  ELSE IF d.st = c_going_up /\ d.dir = "out" THEN "+"
  ELSE IF d.st > c_going_down THEN "ignore" ELSE "answer"

Answer(d, ref) ==
  IF d.st > c_going_down THEN d
  ELSE Say(SetConnState([d EXCEPT !.dir = "in", !.ref = ref, !.more = d.levels], c_going_up),
           "ANSWER", ref)

(* info.c, do_incoming, once findit has found a connection for the call. *)
Incoming(d, ref, mode) ==
  LET v == Verdict(d, mode)
  IN  CASE v = "answer" -> Answer(d, ref)
        [] v = "ignore" -> d
        [] v = "-" \/ (v = "+" /\ d.ref \in {0, ref}) -> Say(d, "OFF", ref)
        [] v = "=" -> [Say(d, "OFF", ref) EXCEPT !.ref = ref, !.wr = MaxReconn, !.fast = TRUE]
        [] OTHER -> LET e == [SetConnState(d, c_down) EXCEPT !.ref = ref]
                    IN  Answer(Say(e, "OFFNODISC", d.ref), ref)
=============================================================================
