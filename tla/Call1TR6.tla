------------------------------ MODULE Call1TR6 ------------------------------
(***************************************************************************)
(* Call control of the German national ISDN, src/isdn_3/prot_1TR6_1.c, in  *)
(* the form of CallETS.  The states 14, 15, 17, 20 and 21 and the timers   *)
(* T3D1, T3D2 and T3AA are never entered or started (call forwarding is    *)
(* not compiled in).  A transferred call that another connection forwards  *)
(* needs two connections and is not modelled.                              *)
(***************************************************************************)
EXTENDS Conn

Messages1TR6 == {"SETUP", "SETUP_BAD", "SETUP_ACK", "CALL_SENT", "INFO_MORE", "ALERT",
             "CONN", "CONN_ACK", "DISC", "REL", "REL_ACK", "SUSPENDED", "RESUMED",
             "OTHER"}

Release1TR6(c) == SetState(SendRelease(c), 19)
Gone1TR6(c, s) == SetState(SendRelease(c), s)
Cleared1TR6(c) == Terminated(SendDisc(c, 1))   \* the stack has been taken down
Alert1TR6(c) == SetState(SendCall(c), 7)

(* SETUP; without a service indicator (SETUP_BAD) the call is dropped. *)
Asked1TR6(c, immed) ==
  IF c.st # 6 THEN c
  ELSE [(IF immed THEN Alert1TR6(Untimer(c, {"TALERT"})) ELSE c) EXCEPT !.told = "incoming"]
Incoming1TR6(d, m, ok, immed) ==
  IF m = "SETUP_BAD" THEN SetState(d, 99) ELSE Asked1TR6(Progress(d, ok, Same), immed)

(* STAT with a cause: the other side has suspended or resumed the call. *)
Stat1TR6(c, m) ==
  IF m = "SUSPENDED" \/ c.st \in {7, 8, 10}
  THEN SetupHeld(c, CASE m = "SUSPENDED" -> "DISCONNECT"
                      [] m = "RESUMED" /\ c.st \in {7, 8} -> "LISTEN"
                      [] m = "RESUMED" /\ c.st = 10 -> "CONNECT")
  ELSE c

ReleaseAck1TR6(c, x) == IF c.st = 1 THEN Terminated(Release1TR6(x)) ELSE Release1TR6(c)

(* The message table, as in CallETS. *)
NullState1TR6(c, d, m, ok, immed) ==
  CASE m \in {"SETUP", "SETUP_BAD"} -> Incoming1TR6(d, m, ok, immed)
    [] m = "REL" -> SendRelease(c)
    [] m = "REL_ACK" -> c
    [] OTHER -> Release1TR6(c)

Onward1TR6(c, m) ==   \* the messages that carry a call on
  CASE c.st = 1 /\ m = "SETUP_ACK" -> 2
    [] c.st \in {1, 2} /\ m = "CALL_SENT" -> 3
    [] c.st \in {2, 3, 4} /\ m = "CONN" -> 10
    [] c.st = 7 /\ m \in {"SETUP", "SETUP_BAD"} -> Same
    [] c.st = 8 /\ m = "CONN_ACK" -> 10
    [] OTHER -> None

Outgoing1TR6(c, m) ==   \* states 1 to 4
  CASE c.st = 2 /\ m = "INFO_MORE" -> SetState(c, 3)
    [] c.st \in {2, 3} /\ m = "ALERT" -> SetState(c, 4)
    [] c.st = 1 /\ m = "REL" -> Terminated(Gone1TR6(c, 0))
    [] c.st = 2 /\ m = "REL" -> Gone1TR6(c, 99)
    [] c.st \in {3, 4} /\ m = "REL" -> Gone1TR6(c, 0)
    [] OTHER -> c

Ringing1TR6(c, m) ==   \* states 6 to 8
  IF m = "REL" THEN Gone1TR6(c, IF c.st = 8 THEN 0 ELSE 99) ELSE c

Active1TR6(c, m) == IF m = "REL" THEN Gone1TR6(c, 0) ELSE c   \* state 10

Clearing1TR6(c, m) ==   \* states 11, 12 and 19
  CASE m = "REL" -> Gone1TR6(c, IF c.st = 19 THEN 99 ELSE 0)
    [] c.st = 19 /\ m = "REL_ACK" -> SetState(c, 0)
    [] OTHER -> c

InState1TR6(c, m) ==
  CASE c.st \in 1 .. 4 -> Outgoing1TR6(c, m)
    [] c.st \in 6 .. 8 -> Ringing1TR6(c, m)
    [] c.st = 10 -> Active1TR6(c, m)
    [] c.st \in {11, 12, 19} -> Clearing1TR6(c, m)

React1TR6(c, d, x, m, ok, immed) ==
  CASE c.st = 0 -> NullState1TR6(c, d, m, ok, immed)
    [] c.st = 99 -> c
    [] Onward1TR6(c, m) # None -> Progress(d, ok, Onward1TR6(c, m))
    [] m = "DISC" /\ c.st \in {1, 2, 3, 4, 6, 7, 8, 10} -> Cleared1TR6(x)
    [] m = "REL_ACK" /\ c.st \notin {0, 19, 99} -> ReleaseAck1TR6(c, x)
    [] m \in {"SUSPENDED", "RESUMED"} /\ c.st \in {7, 8, 10, 11, 12, 19} -> Stat1TR6(c, m)
    [] OTHER -> InState1TR6(c, m)

Recv1TR6(c, m, chan, ok, immed) ==
  LET new == IF c.st = 0 /\ m \in {"SETUP", "SETUP_BAD"} THEN SetState(c, 6) ELSE c
      over == IF c.st = 10 /\ m = "DISC" THEN SetState(c, 12) ELSE c
  IN  CheckTerm(React1TR6(c, ChanID(new, chan), Setup(over, "DISCONNECT"), m, ok, immed), FALSE)

(* The timers.  T308 releases once more before it gives up; T305 does not  *)
(* look whether the call is over. *)
Timeout1TR6(c, t) ==
  CASE t = "T303" -> Terminated(Setup(SendDisc(c, 0), "DISCONNECT"))
    [] t \in {"T304", "T310", "T313"} -> SetState(SendRelease(c), 11)
    [] t = "T305" -> Release1TR6(c)
    [] t = "T308" -> IF c.rep THEN SetState(c, 99)
                     ELSE Timer([SendRelease(c) EXCEPT !.rep = TRUE], {"T308"})
    [] t = "TCONN" -> IF c.st = 7 THEN SendDisc(c, 0) ELSE SetState(c, 99)
    [] t = "TALERT" -> Alert1TR6(c)
    [] t = "TFOO" -> SetState(c, 0)
Close1TR6(c, t) == IF t = "T305" THEN c ELSE CheckTerm(c, FALSE)
Expire1TR6(c, t) ==
  Close1TR6(Timeout1TR6(Untimer(c, {t}), t), t)

(* sendcmd; lockit is held throughout. *)
CallOut1TR6(c) == IF c.st = 0 /\ c.minor THEN SetState(SendCall(c), 1) ELSE c
Dial1TR6(c) ==
  CallOut1TR6(SetupHeld([c EXCEPT !.want = TRUE], "SETUP"))
PrepAnswerAnyway1TR6(c) == CheckTerm(Alert1TR6(c), TRUE)  \* mutant: in any state
PrepAnswer1TR6(c) == CheckTerm(IF c.st = 6 THEN Alert1TR6(c) ELSE c, TRUE)
Off1TR6(c, force, nodisc, cause) ==
  LET d == [c EXCEPT !.want = FALSE]
      e == IF d.st = 6 /\ ~cause THEN SetState(d, 99)
           ELSE SendDisc(d, IF force /\ ~nodisc THEN 2 ELSE 1)
  IN  CheckTerm(SetupHeld(e, "DISCONNECT"), TRUE)
AnswerCall1TR6(c) ==
  IF c.st \in {6, 7} THEN Answer(c) ELSE CheckTerm(c, TRUE)

(* chstate. *)
LinkUp1TR6(c) ==
  CASE ~c.up -> TimerUp(c)
    [] c.up /\ c.st = 2 -> SetState(SendRelease(c), 11)
    [] c.up /\ c.st # 2 -> c
LinkUpChecked1TR6(c) == IF c.up THEN CheckTerm(LinkUp1TR6(c), FALSE) ELSE LinkUp1TR6(c)
LinkDown1TR6(c) ==
  LET d == SetState([c EXCEPT !.net = IF @ = "known" THEN "released" ELSE @], 99)
  IN  CheckTerm(d, FALSE)
=============================================================================
