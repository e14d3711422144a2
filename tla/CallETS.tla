------------------------------ MODULE CallETS -------------------------------
(***************************************************************************)
(* Call control of Euro-ISDN, src/isdn_3/prot_ETS.c: the messages of the   *)
(* network, the timers, the commands of layer 4 and the state of the link. *)
(* The states 9, 14, 15, 17 and 25 are never entered (suspend is not       *)
(* compiled in).  Reports that only inform layer 4 are left out.           *)
(***************************************************************************)
EXTENDS Conn

MessagesETS == {"SETUP", "SETUP_ACK", "PROCEEDING", "ALERT", "CONN", "CONN_ACK", "DISC",
             "REL", "REL_COM", "STATUS", "FAC", "SUSPENDED", "RESUMED", "OTHER"}

ReleaseETS(c) == SetState(SendRelease(c), 19)
GoneETS(c, s) == Terminated(SetState(SendRelease(c), s))
(* DISC: the call is cleared from the other side; REL or REL_COM outside   *)
(* of a clearing: the tail ComEx.  The stack has been taken down.          *)
ClearedETS(c) == SendDisc(Terminated(SetState(c, 12)), 1)
EndedETS(c) == Terminated(SetState(c, IF c.st \in {6, 7, 99} THEN 99 ELSE 0))

(* A new call: layer 4 is asked at once, the caller is told ALERT after a  *)
(* while or, with immed (FL_ANS_IMMED), now. *)
AlertETS(c) == SetState(SendCall(c), 7)
AskedETS(c, immed) ==
  [(IF immed THEN AlertETS(Untimer(c, {"TALERT"})) ELSE c) EXCEPT !.told = "incoming"]
IncomingETS(d, ok, immed) ==
  IF Fails(d, Same, ok) THEN SetState(d, 99) ELSE AskedETS(Progress(d, ok, Same), immed)

(* The message table.  d is the call with the channel the message names, x *)
(* the call after isdn3_setup_conn; a case uses at most one of the three.  *)
NullStateETS(c, d, m, ok, immed) ==
  CASE m = "SETUP" -> IncomingETS(d, ok, immed)
    [] m = "REL" -> Terminated(SendRelease(c))
    [] m = "REL_COM" -> c
    [] OTHER -> ReleaseETS(c)

OnwardETS(c, m) ==   \* the messages that carry a call on
  CASE c.st = 1 /\ m = "SETUP_ACK" -> 2
    [] c.st \in {1, 2} /\ m = "PROCEEDING" -> 3
    [] c.st \in {1, 2} /\ m = "ALERT" -> 4
    [] c.st \in 1 .. 4 /\ m = "CONN" -> 10
    [] c.st = 7 /\ m = "SETUP" -> Same
    [] c.st = 8 /\ m = "CONN_ACK" -> 10
    [] OTHER -> None

OutgoingETS(c, x, m) ==   \* states 1 to 4
  CASE c.st = 3 /\ m = "ALERT" -> SetState(c, 4)
    [] c.st = 1 /\ m = "REL" -> GoneETS(c, 0)
    [] c.st = 1 /\ m = "REL_COM" -> GoneETS(x, 0)
    [] OTHER -> c

RingingETS(c, d, m) ==   \* states 6 to 8
  CASE c.st = 6 /\ m = "SETUP" -> d
    [] c.st = 6 /\ m = "REL" -> GoneETS(c, 99)
    [] OTHER -> c

ActiveETS(c, x, m) == IF m \in {"SUSPENDED", "RESUMED"} THEN x ELSE c   \* NOTIFY 0 and 1

ClearingETS(c, m) ==   \* states 11, 12 and 19
  CASE c.st = 11 /\ m = "DISC" -> Terminated(ReleaseETS(c))
    [] c.st \in {11, 12} /\ m = "REL" -> GoneETS(c, 0)
    [] c.st = 19 /\ m \in {"REL", "REL_COM"} -> GoneETS(c, 0)
    [] OTHER -> c

InStateETS(c, d, x, m, ok, immed) ==
  CASE c.st = 0 -> NullStateETS(c, d, m, ok, immed)
    [] OnwardETS(c, m) # None -> Progress(d, ok, OnwardETS(c, m))
    [] c.st \in 1 .. 4 /\ OnwardETS(c, m) = None -> OutgoingETS(c, x, m)
    [] c.st \in 6 .. 8 /\ OnwardETS(c, m) = None -> RingingETS(c, d, m)
    [] c.st = 10 -> ActiveETS(c, x, m)
    [] c.st \in {11, 12, 19} -> ClearingETS(c, m)
    [] c.st = 99 -> c

ReactETS(c, d, x, m, ok, immed) ==
  CASE m = "STATUS" -> IF c.st \in {0, 19} THEN ReleaseETS(c) ELSE c
    [] m = "FAC" -> c                         \* also STAT_ENQ
    [] m = "DISC" /\ c.st \notin {0, 11, 12, 19} -> ClearedETS(x)
    [] m = "REL_COM" /\ c.st \notin {0, 1, 19} -> EndedETS(x)
    [] m = "REL" /\ c.st \notin {0, 1, 6, 11, 12, 19} -> EndedETS(x)
    [] OTHER -> InStateETS(c, d, x, m, ok, immed)

EstOfETS(m) == IF m = "RESUMED" THEN "CONNECT" ELSE "DISCONNECT"
RecvETS(c, m, chan, ok, immed) ==
  LET new == IF c.st = 0 /\ m = "SETUP" THEN SetState(c, 6) ELSE c
      over == IF m \in {"REL", "REL_COM"} /\ c.st # 1 THEN SendRelease(c) ELSE c
  IN  CheckTerm(ReactETS(c, ChanID(new, chan), Setup(over, EstOfETS(m)), m, ok, immed), FALSE)

(* The timers.  T304, T310, T313: DISC and wait for the release. *)
TimeoutSilentETS(c, t) ==   \* mutant: a dialled call is dropped in silence
  CASE t = "T303" -> Terminated(SetState(Setup(c, "DISCONNECT"), 99))
    [] t \in {"T304", "T310", "T313"} -> SetState(SendRelease(c), 11)
    [] t = "T305" -> ReleaseETS(c)
    [] t = "T308" -> SetState(SendRelease(c), 99)
    [] t = "TCONN" -> IF c.st = 7 THEN SendDisc(c, 0) ELSE SetState(c, 99)
    [] t = "TALERT" -> AlertETS(c)
    [] t = "TFOO" -> SetState(c, 0)
TimeoutForeverETS(c, t) ==   \* mutant: T308 sends the release again and again
  CASE t = "T303" -> Terminated(SetState(Setup(SendDisc(c, 0), "DISCONNECT"), 99))
    [] t \in {"T304", "T310", "T313"} -> SetState(SendRelease(c), 11)
    [] t = "T305" -> ReleaseETS(c)
    [] t = "T308" -> Timer([SendRelease(c) EXCEPT !.rep = ~@], {"T308"})
    [] t = "TCONN" -> IF c.st = 7 THEN SendDisc(c, 0) ELSE SetState(c, 99)
    [] t = "TALERT" -> AlertETS(c)
    [] t = "TFOO" -> SetState(c, 0)
TimeoutETS(c, t) ==
  CASE t = "T303" -> Terminated(SetState(Setup(SendDisc(c, 0), "DISCONNECT"), 99))
    [] t \in {"T304", "T310", "T313"} -> SetState(SendRelease(c), 11)
    [] t = "T305" -> ReleaseETS(c)
    [] t = "T308" -> SetState(SendRelease(c), 99)
    [] t = "TCONN" -> IF c.st = 7 THEN SendDisc(c, 0) ELSE SetState(c, 99)
    [] t = "TALERT" -> AlertETS(c)
    [] t = "TFOO" -> SetState(c, 0)
ExpireETS(c, t) == CheckTerm(TimeoutETS(Untimer(c, {t}), t), FALSE)

(* sendcmd; lockit is held throughout. *)
CallOutETS(c) == IF c.st = 0 /\ c.minor THEN SetState(SendCall(c), 1) ELSE c
DialETS(c) ==
  CallOutETS(SetupHeld([c EXCEPT !.want = TRUE], "SETUP"))
PrepAnswerETS(c) == CheckTerm(IF c.st = 6 THEN AlertETS(c) ELSE c, TRUE)
OffETS(c, force, nodisc, cause) ==
  LET d == [c EXCEPT !.want = FALSE]
      e == IF d.st = 6 /\ ~cause THEN SetState(d, 99)
           ELSE SendDisc(d, IF force THEN 2 ELSE 0)
  IN  CheckTerm(SetupHeld(e, "DISCONNECT"), TRUE)
AnswerCallETS(c) == Answer(c)

(* chstate.  A link that comes back finds a half-dialled call: clear it.   *)
LinkUpETS(c) ==
  CASE ~c.up -> TimerUp(c)
    [] c.up /\ c.st = 2 -> SetState(SendRelease(c), 11)
    [] c.up /\ c.st # 2 -> c
LinkUpCheckedETS(c) == IF c.up THEN CheckTerm(LinkUpETS(c), FALSE) ELSE LinkUpETS(c)
LinkDownETS(c) ==
  LET d == SetState([c EXCEPT !.net = IF @ = "known" THEN "released" ELSE @], 99)
  IN  CheckTerm(d, FALSE)
=============================================================================
