------------------------------- MODULE Calls -------------------------------
(***************************************************************************)
(* The calls of one ISDN card, src/isdn_3: isdn_3.c between layer 4 (the   *)
(* daemon's commands, isdn3_wsrv and scan_at), layer 2 (isdn3_rsrv) and    *)
(* the call control of one of the two protocols (phone.c).  One connection *)
(* exists at a time, on one device; the network may send any message at    *)
(* any time, and layer 4 any command that fits the connection.             *)
(***************************************************************************)
EXTENDS CallETS, Call1TR6

CONSTANTS Protocols,   \* which call control the card uses: ETS, 1TR6
          Happenings   \* which of the rarer steps may happen

Rare == {"nomem", "immed", "fakeopen", "noprot", "stack", "nocard", "nodisc", "linkdown"}
ASSUME ProtocolAssumption ==
  Protocols \subseteq {"ETS", "1TR6"} /\ Protocols # {} /\ Happenings \subseteq Rare

VARIABLES c,       \* the connection, or what is left when there is none
          hung     \* isdn3_killtalk loops and never returns
vars == <<c, hung>>

May(h) == IF h \in Happenings THEN BOOLEAN ELSE {FALSE}

Messages == IF c.prot = "ETS" THEN MessagesETS ELSE Messages1TR6
Recv(d, m, chan, ok, immed) ==
  IF d.prot = "ETS" THEN RecvETS(d, m, chan, ok, immed) ELSE Recv1TR6(d, m, chan, ok, immed)
Expire(d, t) == IF d.prot = "ETS" THEN ExpireETS(d, t) ELSE Expire1TR6(d, t)

NewOne ==
  [NewConn(c.prot) EXCEPT !.ex = TRUE, !.open = c.open, !.sent = c.sent, !.up = c.up,
                          !.att = c.att]

(* phone.c, recv: isdn3_findconn does not see connections in state 0. *)
Network ==
  /\ c.ex => c.st # 0
  /\ c' \in {Recv(IF c.ex THEN c ELSE NewOne, m, chan, ~nomem, immed) :
               m \in Messages, chan \in BOOLEAN,
               nomem \in May("nomem"), immed \in May("immed")}
  /\ UNCHANGED hung

TimerExpires == \E t \in c.armed : c' = Expire(c, t) /\ UNCHANGED hung

(* phone.c, chstate: the link of the call control. *)
LinkUp ==
  /\ c' = [(IF ~c.ex THEN c
            ELSE IF c.prot = "ETS" THEN LinkUpCheckedETS(c) ELSE LinkUpChecked1TR6(c))
           EXCEPT !.up = TRUE]
  /\ UNCHANGED hung
LinkDown ==
  /\ "linkdown" \in Happenings
  /\ c' = [(IF ~c.ex THEN c
            ELSE IF c.prot = "ETS" THEN LinkDownETS(c) ELSE LinkDown1TR6(c))
           EXCEPT !.up = FALSE]
  /\ UNCHANGED hung

(* The watchdogs of isdn_3.c. *)
ConnTimeout == c.tconn /\ c' = KillConn([c EXCEPT !.tconn = FALSE], 0, FALSE) /\ UNCHANGED hung
DelayTimeout == c.tdelay /\ c' = Setup([c EXCEPT !.tdelay = FALSE], "NO_CHANGE") /\ UNCHANGED hung
DiscTimeout == c.tend /\ c' = KillConn([c EXCEPT !.tend = FALSE], 3, FALSE) /\ UNCHANGED hung

-----------------------------------------------------------------------------
(* Commands of layer 4, scan_at: the device is bound to the connection,    *)
(* the attachment is brought up to date, and the protocol gets the command.*)
Bound(d, minor) ==
  [d EXCEPT !.minor = @ \/ minor, !.mapped = @ \/ d.minor \/ minor]
MayBind(minor) == minor /\ ~c.minor => c.open # "no"

Dial ==
  \E chan \in BOOLEAN :
    /\ ~c.ex
    /\ LET d == SetupHeld([Bound(NewOne, TRUE) EXCEPT !.bchan = chan, !.told = "dialled"],
                          "NO_CHANGE")
       IN  c' = IF c.prot = "ETS" THEN DialETS(d) ELSE Dial1TR6(d)
    /\ UNCHANGED hung
PrepAnswer ==
  /\ c.ex
  /\ LET d == SetupHeld(Bound(c, FALSE), "NO_CHANGE")
     IN  c' = IF c.prot = "ETS" THEN PrepAnswerETS(d) ELSE PrepAnswer1TR6(d)
  /\ UNCHANGED hung
AnswerCommand ==
  /\ c.ex /\ MayBind(TRUE)
  /\ LET d == SetupHeld(Bound(c, TRUE), "NO_CHANGE")
     IN  c' = IF c.prot = "ETS" THEN AnswerCallETS(d) ELSE AnswerCall1TR6(d)
  /\ UNCHANGED hung
Off ==
  \E force, cause \in BOOLEAN, nodisc \in May("nodisc") :
    /\ c.ex
    /\ LET d == SetupHeld(Bound([c EXCEPT !.nominor = @ \/ nodisc, !.pending = FALSE],
                                FALSE), "NO_CHANGE")
       IN  c' = IF c.prot = "ETS" THEN OffETS(d, force, nodisc, cause)
                ELSE Off1TR6(d, force, nodisc, cause)
    /\ UNCHANGED hung

(* CARDPROTO is done: the protocol stack of the device stands. *)
CardSetup ==
  \E hup \in BOOLEAN :
    /\ c.ex /\ c.protosent /\ ~c.proto
    /\ LET d == SetupHeld([c EXCEPT !.proto = TRUE, !.hup = hup], "NO_CHANGE")
       IN  c' = IF d.st = 0 /\ ~d.pending THEN KillConn(d, 0, FALSE) ELSE d
    /\ UNCHANGED hung
NoProt ==
  /\ "noprot" \in Happenings /\ c.ex
  /\ c' = SetupHeld([c EXCEPT !.setup = 0, !.detached = TRUE, !.att = 0], "NO_CHANGE")
  /\ UNCHANGED hung
(* CMD_PROT with PROTO_DISCONNECT: the daemon takes the stack down. *)
StackDown ==
  /\ "stack" \in Happenings /\ c.ex /\ c.minor
  /\ c' = KillConn([c EXCEPT !.sent = 0], 0, FALSE)
  /\ UNCHANGED hung
FakeOpen ==
  /\ "fakeopen" \in Happenings /\ c.open = "no"
  /\ c' = [c EXCEPT !.open = "will", !.mapped = FALSE]
  /\ UNCHANGED hung

-----------------------------------------------------------------------------
(* Messages of layer 2, isdn3_rsrv. *)
Found == c.ex /\ c.minor /\ c.mapped /\ c.open # "no"    \* isdn3_findminor
Opened ==
  /\ c.open # "open"
  /\ LET d == [c EXCEPT !.open = "open"]
     IN  c' = IF c.ex /\ c.minor /\ c.mapped THEN Setup(d, "NO_CHANGE") ELSE d
  /\ UNCHANGED hung
Closed ==
  /\ c.open # "no"
  /\ LET d == [c EXCEPT !.open = "no", !.sent = 0, !.att = 0]
     IN  c' = IF c.ex /\ c.minor THEN KillConn(d, 0, FALSE) ELSE d
  /\ UNCHANGED hung
DetachedByLayer2 ==
  /\ Found /\ c.att > 0
  /\ c' = KillConn([c EXCEPT !.att = 0], 0, FALSE)
  /\ UNCHANGED hung
StackDisconnects ==               \* HDR_PROTOCMD, PROTO_DISCONNECT
  Found /\ c.sent # 0 /\ c' = Setup(c, "DISCONNECT") /\ UNCHANGED hung
StackSetsUp ==                    \* HDR_PROTOCMD, PROTO_SETUP
  /\ "stack" \in Happenings /\ Found /\ c.sent # 1
  /\ c' = Setup(c, "SETUP")
  /\ UNCHANGED hung

(* HDR_NOCARD, isdn3_killtalk: it takes the first connection down until    *)
(* there is none, and isdn3_killconn does nothing while the timer runs     *)
(* that delays the disconnect. *)
NoCard ==
  /\ "nocard" \in Happenings
  /\ c' = IF c.ex THEN [KillConn(c, 1, FALSE) EXCEPT !.up = FALSE, !.att = 0]
          ELSE [c EXCEPT !.up = FALSE, !.att = 0]
  /\ hung' = (c.ex /\ c.tend)

Init == \E p \in Protocols : c = NewConn(p) /\ hung = FALSE
Next ==
  /\ ~hung
  /\ \/ Network \/ TimerExpires \/ LinkUp \/ LinkDown
     \/ ConnTimeout \/ DelayTimeout \/ DiscTimeout
     \/ Dial \/ PrepAnswer \/ AnswerCommand \/ Off
     \/ CardSetup \/ NoProt \/ StackDown \/ FakeOpen
     \/ Opened \/ Closed \/ DetachedByLayer2 \/ StackDisconnects \/ StackSetsUp \/ NoCard
Spec == Init /\ [][Next]_vars

(* A callout that stays pending expires: weak fairness of the three        *)
(* actions, with the conditions that enable them written out. *)
Fairness ==
  /\ []<>(hung \/ c.armed = {}) \/ []<><<TimerExpires>>_vars
  /\ []<>(hung \/ ~c.tconn) \/ []<><<ConnTimeout>>_vars
  /\ []<>(hung \/ ~c.tend) \/ []<><<DiscTimeout>>_vars
FairSpec == Spec /\ Fairness

-----------------------------------------------------------------------------
(* The connection is well-formed and its flags fit together: an attachment *)
(* excludes MS_DETACHED, a stack that stands has been asked for, only a    *)
(* device that was assigned finds the connection, nothing waits on a       *)
(* connection that is gone, and the timer that delays a disconnection      *)
(* runs under MS_DELAYING. *)
TypeOK ==
  /\ c \in Connection /\ hung \in BOOLEAN
  /\ c.setup > 0 => ~c.detached
  /\ c.proto => c.protosent
  /\ c.mapped => c.minor
  /\ c.pending => c.ex
  /\ c.tend => c.ex /\ c.delaying

(* A call in a state that waits for the network, or for a while, has noted *)
(* the timer of that state and no other (only TALERT may be over), and     *)
(* while the link is up the noted timers are the pending callouts: thirty  *)
(* paths start and stop them by hand, and most calls end through a timer.  *)
TimersMatch ==
  c.ex => /\ TimersOf(c.st) \ {"TALERT"} \subseteq c.run
          /\ c.run \subseteq TimersOf(c.st)
          /\ c.armed \subseteq c.run
          /\ c.up => c.run = c.armed

(* isdn3_killconn frees a connection only when the network does not hold   *)
(* the call any more: it has been released, or its link is gone.           *)
NotForgotten == ~c.ex => c.net # "known"

(* A connection in state 0, which isdn3_findconn does not see and no       *)
(* message reaches, exists only while the timer that delays its            *)
(* disconnection runs: every path to state 0 goes on to isdn3_killconn.    *)
NoZombie == c.ex /\ c.st = 0 => c.tend

(* 1TR6: when the record of a connection is freed no callout points to it. *)
(* (In Q.931 an answer repeated while isdn3_killconn takes the connection  *)
(* down starts the watchdog of the stack again.)                           *)
NoDangling == c.prot = "1TR6" => ~c.dangling

(* Layer 4 has been told that a connection ends when it is freed; only the *)
(* loss of the card and the timer behind a delayed disconnection free it   *)
(* in silence. *)
EndTold ==
  [][c.ex /\ ~c'.ex /\ ~NoCard /\ ~DiscTimeout
     => c'.told \in {"disconnecting", "disconnect"}]_vars

(* 1TR6: a call that is being cleared does not come back, whatever message *)
(* or command is late, and layer 4 does not hear of it as of a new call.   *)
(* (In Q.931 an ANSWER in a wrong state is noted and carried out.)         *)
StaysCleared ==
  [][c.prot = "1TR6" /\ c.ex /\ c'.ex /\ c.st \in {11, 12, 19, 99}
     => c'.st \in {0, 11, 12, 19, 99} /\ c'.told \notin {"incoming", "conn"}]_vars

(* A network that falls silent leaves no call behind: while the link is    *)
(* up, a call in a state that waits for the network or for layer 4 moves   *)
(* on and in the end is gone.  It may ring (4) or talk (10) for ever.  In  *)
(* 1TR6 state 12 has no timer, and neither protocol survives an ANSWER     *)
(* repeated for ever. *)
Waiting ==
  c.ex /\ c.up /\ c.st \notin {4, 10} /\ (c.prot = "1TR6" => c.st # 12)
WaitingEnds ==
  <>[][~Network /\ ~AnswerCommand]_vars => (Waiting ~> ~Waiting)

(* The card goes away: isdn3_killtalk removes all connections. *)
NeverHung == ~hung
=============================================================================
