----------------------------- MODULE CallsProofs ----------------------------
(***************************************************************************)
(* Theorems about Calls: every message, timer, command and event keeps a   *)
(* connection Good, from which the invariants of Calls follow for both     *)
(* call controls and whatever the rarer steps.                             *)
(*                                                                         *)
(* The first part is about Conn: what every function of isdn_3.c and of    *)
(* the two call controls that Conn models does to a connection.  Sound is  *)
(* the invariant of a connection that all of them keep, Settles the frame  *)
(* of those that do not touch the call.                                    *)
(***************************************************************************)
EXTENDS Calls, TLAPS

(* The flags of the attachment, the stack and the device fit together.     *)
Fits(y) ==
  /\ y.setup > 0 => ~y.detached
  /\ y.proto => y.protosent
  /\ y.mapped => y.minor
  /\ y.pending => y.ex
  /\ y.tend => y.ex /\ y.delaying

(* Only timers of the state are noted or pending; and all of them.         *)
Loose(y) ==
  y.run \subseteq TimersOf(y.st) /\ y.armed \subseteq y.run /\ (y.up => y.run = y.armed)
Timed(y) == Loose(y) /\ TimersOf(y.st) \ {"TALERT"} \subseteq y.run

(* The states that may go on to 0 without another message to the network.  *)
Known(y) == y.st \in {0, 6, 19, 99} => y.net # "known"
Ending == {0, 11, 12, 19, 99}
(* Layer 4 does not take a call that is being cleared for a new one.       *)
Heard(y) == y.ex /\ y.st \in Ending => y.told \notin {"incoming", "conn"}

(* What holds wherever a handler calls one of the functions below.         *)
Sane(y) == y \in Connection /\ Fits(y) /\ (y.prot = "1TR6" => ~y.dangling)
Sound(y) == Sane(y) /\ Timed(y) /\ Known(y) /\ Heard(y)

(* What holds between two handlers: a connection in state 0 waits for the  *)
(* end of its delayed disconnection, and where there is none nothing is    *)
(* left of the state.                                                      *)
Alive(y) == y.ex /\ y.st = 0 => y.tend
Good(y) == Sound(y) /\ Alive(y) /\ (~y.ex => y.st = 0 /\ ~y.tconn /\ ~y.tdelay)

(* A call of 1TR6 that is being cleared does not come back. *)
Stays(y, d) == d.prot = y.prot /\ (y.prot = "1TR6" /\ y.st \in Ending => d.st \in Ending)

(* d differs from y in the attachment, the stack and the watchdogs only.   *)
Settles(y, d) ==
  /\ d.prot = y.prot /\ d.ex = y.ex /\ d.st = y.st /\ d.run = y.run /\ d.armed = y.armed
  /\ d.up = y.up /\ d.told = y.told /\ d.net = y.net
  /\ d.tend = y.tend /\ d.delaying = y.delaying /\ d.minor = y.minor /\ d.mapped = y.mapped
  /\ d.dangling = y.dangling /\ d.bchan = y.bchan /\ (d.proto => y.proto)

(* d differs from y in the state, its timers and what layer 4 was told.    *)
Moves(y, d) ==
  /\ d.prot = y.prot /\ d.ex = y.ex /\ d.up = y.up /\ d.net = y.net /\ d.tend = y.tend
  /\ d.delaying = y.delaying /\ d.minor = y.minor /\ d.mapped = y.mapped
  /\ d.dangling = y.dangling /\ d.pending = y.pending /\ d.proto = y.proto
  /\ d.bchan = y.bchan /\ d.tconn = y.tconn /\ d.tdelay = y.tdelay

(* 1TR6: too late for an answer. *)
Late(y) == y.prot = "1TR6" /\ y.st \notin {6, 7, 8}
(* isdn3_setup_conn may repeat an answer, which may start the call.        *)
Follows(y, d) ==
  /\ d.prot = y.prot /\ d.ex = y.ex /\ d.up = y.up /\ d.told = y.told /\ d.tend = y.tend
  /\ d.delaying = y.delaying /\ d.minor = y.minor /\ d.mapped = y.mapped
  /\ d.dangling = y.dangling /\ d.bchan = y.bchan
  /\ d.st = y.st \/ (~Late(y) /\ d.st \in {7, 8})

(* The same call, unless a repeated answer has started it. *)
Carries(y, d) ==
  /\ d.prot = y.prot /\ d.ex = y.ex /\ d.told = y.told /\ d.tend = y.tend
  /\ d.st = y.st \/ (~Late(y) /\ d.st \in {7, 8})

(* What Sound and Alive look at. *)
Alike(y, d) ==
  /\ d.prot = y.prot /\ d.ex = y.ex /\ d.st = y.st /\ d.run = y.run /\ d.armed = y.armed
  /\ d.up = y.up /\ d.told = y.told /\ d.net = y.net /\ d.tend = y.tend
  /\ d.dangling = y.dangling

(* No stack, and none of its watchdogs. *)
Unstacked(y) == ~y.proto /\ ~y.tconn /\ ~y.tdelay

-----------------------------------------------------------------------------
LEMMA Fields ==
  ASSUME NEW y \in Connection
  PROVE  /\ y.prot \in {"ETS", "1TR6"} /\ y.ex \in BOOLEAN /\ y.st \in States
         /\ y.run \in SUBSET Timers /\ y.armed \in SUBSET Timers /\ y.rep \in BOOLEAN
         /\ y.minor \in BOOLEAN /\ y.mapped \in BOOLEAN /\ y.bchan \in BOOLEAN
         /\ y.want \in BOOLEAN /\ y.detached \in BOOLEAN /\ y.nominor \in BOOLEAN
         /\ y.setup \in 0 .. 3 /\ y.proto \in BOOLEAN /\ y.protosent \in BOOLEAN
         /\ y.stack \in 0 .. 3 /\ y.tconn \in BOOLEAN /\ y.tdelay \in BOOLEAN
         /\ y.tend \in BOOLEAN /\ y.delaying \in BOOLEAN /\ y.hup \in BOOLEAN
         /\ y.pending \in BOOLEAN /\ y.open \in {"no", "will", "open"} /\ y.sent \in 0 .. 3
         /\ y.up \in BOOLEAN /\ y.att \in 0 .. 3 /\ y.dangling \in BOOLEAN
         /\ y.told \in {"nothing", "dialled", "incoming", "conn", "disconnecting", "disconnect"}
         /\ y.net \in {"none", "known", "released"}
BY DEF Connection

LEMMA TimersOfOK == ASSUME NEW s \in States PROVE TimersOf(s) \in SUBSET Timers
BY DEF TimersOf, States, Timers

LEMMA NewConnOK ==
  ASSUME NEW p \in {"ETS", "1TR6"}
  PROVE  NewConn(p) \in Connection
BY DEF NewConn, Connection, States, Timers

LEMMA SettlesItself ==
  ASSUME NEW y
  PROVE  Settles(y, y)
BY DEF Settles

LEMMA SettlesOn ==
  ASSUME NEW y, NEW d, NEW e, Settles(y, d), Settles(d, e)
  PROVE  Settles(y, e)
BY DEF Settles

(* isdn3_setup_conn, step by step. *)

LEMMA WantLevelOK ==
  ASSUME NEW y, NEW est
  PROVE  WantLevel(y, est) \in 0 .. 3
BY DEF WantLevel

LEMMA AttachOK ==
  ASSUME NEW y \in Connection, NEW est, Fits(y)
  PROVE  /\ Attach(y, est) \in Connection /\ Fits(Attach(y, est))
         /\ Settles(y, Attach(y, est)) /\ Attach(y, est).pending = y.pending
<1> DEFINE d == Attach(y, est)
<1>1. PICK w \in 0 .. 3 : w = WantLevel(y, est)
  BY WantLevelOK
<1>2. CASE NeedsAttach(y, est)
  <2>1. ~y.detached /\ d = [y EXCEPT !.setup = w, !.att = w]
    BY <1>1, <1>2 DEF Attach, NeedsAttach
  <2> HIDE DEF d
  <2>2. d \in Connection
    BY ZenonT(60), <1>1, <2>1 DEF Connection
  <2>3. Fits(d)
    BY <2>1 DEF Connection, Fits
  <2>4. Settles(y, d) /\ d.pending = y.pending
    BY <2>1 DEF Connection, Settles
  <2> QED BY <2>2, <2>3, <2>4 DEF d
<1>3. CASE ~NeedsAttach(y, est)
  BY <1>3 DEF Attach, Settles
<1> QED BY <1>2, <1>3

LEMMA Values ==
  0 \in 0 .. 3 /\ 1 \in 0 .. 3 /\ 2 \in 0 .. 3 /\ 3 \in 0 .. 3
OBVIOUS

LEMMA InitStackOK ==
  ASSUME NEW y \in Connection, Fits(y)
  PROVE  /\ InitStack(y) \in Connection /\ Fits(InitStack(y))
         /\ Settles(y, InitStack(y)) /\ InitStack(y).pending = y.pending
<1> DEFINE d == InitStack(y)
<1>1. CASE d = y
  BY <1>1, SettlesItself
<1>2. CASE d # y
  <2>1. d = [y EXCEPT !.protosent = TRUE]
    BY <1>2 DEF InitStack
  <2> HIDE DEF d
  <2>2. d \in Connection
    BY ZenonT(60), <2>1 DEF Connection
  <2>3. Fits(d)
    BY <2>1 DEF Connection, Fits
  <2>4. Settles(y, d) /\ d.pending = y.pending
    BY <2>1 DEF Connection, Settles
  <2> QED BY <2>2, <2>3, <2>4 DEF d
<1> QED BY <1>1, <1>2

LEMMA StopWatchOK ==
  ASSUME NEW y \in Connection, Fits(y)
  PROVE  /\ StopWatch(y) \in Connection /\ Fits(StopWatch(y))
         /\ Settles(y, StopWatch(y)) /\ StopWatch(y).pending = y.pending
         /\ StopWatch(y).proto = y.proto /\ ~StopWatch(y).tconn
         /\ ~StopWatch(y).tdelay
<1>1. StopWatch(y) \in Connection
  BY DEF StopWatch, Connection
<1>2. Fits(StopWatch(y))
  BY DEF StopWatch, Connection, Fits
<1>3. Settles(y, StopWatch(y))
  BY DEF StopWatch, Connection, Settles
<1>4. StopWatch(y).pending = y.pending
  BY DEF StopWatch, Connection
<1>5. StopWatch(y).proto = y.proto
  BY DEF StopWatch, Connection
<1>6. ~StopWatch(y).tconn
  BY DEF StopWatch, Connection
<1>7. ~StopWatch(y).tdelay
  BY DEF StopWatch, Connection
<1> QED BY <1>1, <1>2, <1>3, <1>4, <1>5, <1>6, <1>7

LEMMA WatchedOK ==
  ASSUME NEW y \in Connection, Fits(y), NEW n \in 0 .. 3
  PROVE  /\ Watched(y, n) \in Connection /\ Fits(Watched(y, n))
         /\ Settles(y, Watched(y, n)) /\ Watched(y, n).pending = y.pending
<1> DEFINE d == Watched(y, n)
<1>1. PICK b \in BOOLEAN : d = [y EXCEPT !.stack = n, !.tconn = b]
  BY Fields DEF Watched
<1> HIDE DEF d
<1>2. d \in Connection
  BY ZenonT(60), <1>1 DEF Connection
<1>3. Fits(d)
  BY <1>1 DEF Connection, Fits
<1>4. Settles(y, d) /\ d.pending = y.pending
  BY <1>1 DEF Connection, Settles
<1> QED BY <1>2, <1>3, <1>4 DEF d

LEMMA IntendOK ==
  ASSUME NEW y \in Connection, Fits(y), NEW est
  PROVE  /\ Intend(y, est) \in Connection /\ Fits(Intend(y, est))
         /\ Settles(y, Intend(y, est)) /\ Intend(y, est).pending = y.pending
         /\ est = "DISCONNECT" => Unstacked(Intend(y, est))
<1>1. CASE est = "DISCONNECT" \/ (est = "WILL_DISCONNECT" /\ ~(y.minor /\ y.proto))
  <2> DEFINE a == StopWatch(y)
             d == [a EXCEPT !.proto = FALSE, !.protosent = FALSE, !.stack = 0]
  <2>1. a \in Connection /\ Fits(a) /\ Settles(y, a) /\ a.pending = y.pending
        /\ ~a.tconn /\ ~a.tdelay
    BY StopWatchOK
  <2> HIDE DEF a
  <2>2. d \in Connection
    BY ZenonT(60), <2>1, Values DEF Connection
  <2>3. Fits(d)
    BY <2>1 DEF Connection, Fits
  <2>4. Settles(a, d) /\ d.pending = a.pending
    BY <2>1 DEF Connection, Settles
  <2>5. Unstacked(d)
    BY <2>1 DEF Connection, Unstacked
  <2>6. Intend(y, est) = d
    BY <1>1 DEF Intend, a
  <2> HIDE DEF d
  <2> QED BY <2>1, <2>2, <2>3, <2>4, <2>5, <2>6, SettlesOn
<1>2. CASE est = "CONNECT"
  <2> DEFINE a == [y EXCEPT !.tdelay = @ \/ y.stack # 3]
  <2>1. PICK b \in BOOLEAN : a = [y EXCEPT !.tdelay = b]
    BY Fields
  <2>2. Intend(y, est) = Watched(a, 3)
    BY <1>2 DEF Intend
  <2> HIDE DEF a
  <2>3. a \in Connection
    BY <2>1, Values DEF Connection
  <2>4. Fits(a)
    BY <2>1 DEF Connection, Fits
  <2>5. Settles(y, a) /\ a.pending = y.pending
    BY <2>1 DEF Connection, Settles
  <2> QED BY <1>2, <2>2, <2>3, <2>4, <2>5, WatchedOK, SettlesOn
<1>3. CASE est \in {"SETUP", "LISTEN"}
  BY <1>3, WatchedOK DEF Intend
<1>4. CASE ~(est = "DISCONNECT" \/ (est = "WILL_DISCONNECT" /\ ~(y.minor /\ y.proto)))
           /\ est \notin {"CONNECT", "SETUP", "LISTEN"}
  BY <1>4, SettlesItself DEF Intend
<1> QED BY <1>1, <1>2, <1>3, <1>4

LEMMA TellStackOK ==
  ASSUME NEW y \in Connection, Fits(y)
  PROVE  /\ TellStack(y) \in Connection /\ Fits(TellStack(y))
         /\ Settles(y, TellStack(y)) /\ TellStack(y).pending = y.pending
         /\ Unstacked(y) => Unstacked(TellStack(y))
<1> DEFINE d == TellStack(y)
<1>1. y.stack \in {0, 1, 2, 3} /\ y.sent \in 0 .. 3
  BY Fields
<1>2. CASE d = y
  BY <1>2, SettlesItself
<1>3. CASE d # y
  <2>1. \/ \E n \in 0 .. 3 : d = [y EXCEPT !.sent = n]
        \/ d = [y EXCEPT !.sent = 3, !.tconn = FALSE]
    <3>1. CASE y.stack = 0
      BY <1>1, <1>3, <3>1 DEF TellStack
    <3>2. CASE y.stack \in {1, 2}
      BY <1>1, <1>3, <3>2 DEF TellStack
    <3>3. CASE y.stack = 3
      BY <1>1, <1>3, <3>3 DEF TellStack
    <3> QED BY <1>1, <3>1, <3>2, <3>3
  <2> HIDE DEF d
  <2>2. CASE \E n \in 0 .. 3 : d = [y EXCEPT !.sent = n]
    <3>1. PICK n \in 0 .. 3 : d = [y EXCEPT !.sent = n]
      BY <2>2
    <3>2. d \in Connection
      BY <3>1 DEF Connection
    <3>3. Fits(d)
      BY <3>1 DEF Connection, Fits
    <3>4. Settles(y, d) /\ d.pending = y.pending
      BY <3>1 DEF Connection, Settles
    <3>5. Unstacked(y) => Unstacked(d)
      BY <3>1 DEF Connection, Unstacked
    <3> QED BY <3>2, <3>3, <3>4, <3>5 DEF d
  <2>3. CASE d = [y EXCEPT !.sent = 3, !.tconn = FALSE]
    <3>1. d \in Connection
      BY ZenonT(60), <2>3, Values DEF Connection
    <3>2. Fits(d)
      BY <2>3 DEF Connection, Fits
    <3>3. Settles(y, d) /\ d.pending = y.pending
      BY <2>3 DEF Connection, Settles
    <3>4. Unstacked(y) => Unstacked(d)
      BY <2>3 DEF Connection, Unstacked
    <3> QED BY <3>1, <3>2, <3>3, <3>4 DEF d
  <2> QED BY <2>1, <2>2, <2>3
<1> QED BY <1>2, <1>3

LEMMA DetachOK ==
  ASSUME NEW y \in Connection, Fits(y), NEW before, NEW est
  PROVE  /\ Detach(y, before, est) \in Connection /\ Fits(Detach(y, before, est))
         /\ Settles(y, Detach(y, before, est))
         /\ Detach(y, before, est).pending = y.pending
         /\ Unstacked(y) => Unstacked(Detach(y, before, est))
<1> DEFINE d == Detach(y, before, est)
<1>1. CASE d = y
  BY <1>1, SettlesItself
<1>2. CASE d # y
  <2> DEFINE a == StopWatch(y)
  <2>1. a \in Connection /\ Fits(a) /\ Settles(y, a) /\ a.pending = y.pending
        /\ ~a.tconn /\ ~a.tdelay /\ a.proto = y.proto
    BY StopWatchOK
  <2>2. PICK n \in 0 .. 3 :
          d = [a EXCEPT !.setup = 0, !.detached = TRUE, !.proto = FALSE, !.att = n]
    <3>1. (IF y.detached THEN a.att ELSE 0) \in 0 .. 3
      BY <2>1, Fields
    <3>2. d = [a EXCEPT !.setup = 0, !.detached = TRUE, !.proto = FALSE,
                        !.att = IF y.detached THEN a.att ELSE 0]
      BY <1>2 DEF Detach
    <3> QED BY <3>1, <3>2
  <2> HIDE DEF a, d
  <2>3. d \in Connection
    BY ZenonT(60), <2>1, <2>2, Values DEF Connection
  <2>4. Fits(d)
    BY <2>1, <2>2 DEF Connection, Fits
  <2>5. Settles(a, d) /\ d.pending = a.pending
    BY <2>1, <2>2 DEF Connection, Settles
  <2>6. Unstacked(d)
    BY <2>1, <2>2 DEF Connection, Unstacked
  <2> QED BY <2>1, <2>3, <2>4, <2>5, <2>6, SettlesOn DEF d
<1> QED BY <1>1, <1>2

LEMMA SetupPlainOK ==
  ASSUME NEW y \in Connection, Fits(y), NEW est
  PROVE  /\ SetupPlain(y, est) \in Connection /\ Fits(SetupPlain(y, est))
         /\ Settles(y, SetupPlain(y, est))
         /\ SetupPlain(y, est).pending = y.pending
         /\ est = "DISCONNECT" => Unstacked(SetupPlain(y, est))
<1> DEFINE a == Attach(y, est)
           b == InitStack(a)
           d == [b EXCEPT !.detached = @ /\ est \notin {"SETUP", "LISTEN", "CONNECT"}]
           e == Intend(d, est)
           f == TellStack(e)
<1>1. a \in Connection /\ Fits(a) /\ Settles(y, a) /\ a.pending = y.pending
  BY AttachOK
<1> HIDE DEF a
<1>2. b \in Connection /\ Fits(b) /\ Settles(a, b) /\ b.pending = a.pending
  BY <1>1, InitStackOK
<1> HIDE DEF b
<1>3. d \in Connection /\ Fits(d) /\ Settles(b, d) /\ d.pending = b.pending
  <2>1. PICK x \in BOOLEAN : d = [b EXCEPT !.detached = x] /\ (x => b.detached)
    BY <1>2, Fields
  <2> HIDE DEF d
  <2>2. d \in Connection
    BY <1>2, <2>1 DEF Connection
  <2>3. Fits(d)
    BY <1>2, <2>1 DEF Connection, Fits
  <2>4. Settles(b, d) /\ d.pending = b.pending
    BY <1>2, <2>1 DEF Connection, Settles
  <2> QED BY <2>2, <2>3, <2>4
<1> HIDE DEF d
<1>4. /\ e \in Connection /\ Fits(e) /\ Settles(d, e) /\ e.pending = d.pending
      /\ est = "DISCONNECT" => Unstacked(e)
  BY <1>3, IntendOK
<1> HIDE DEF e
<1>5. /\ f \in Connection /\ Fits(f) /\ Settles(e, f) /\ f.pending = e.pending
      /\ est = "DISCONNECT" => Unstacked(f)
  <2>1. /\ f \in Connection /\ Fits(f) /\ Settles(e, f) /\ f.pending = e.pending
        /\ (Unstacked(e) => Unstacked(f))
    BY <1>4, TellStackOK
  <2> HIDE DEF f
  <2> QED BY <1>4, <2>1
<1>6. Settles(y, f) /\ f.pending = y.pending
  BY <1>1, <1>2, <1>3, <1>4, <1>5, SettlesOn
<1>7. SetupPlain(y, est) = Detach(f, d, est)
  BY DEF SetupPlain, FollowUp, a, b, d, e
<1> HIDE DEF f
<1> QED BY <1>5, <1>6, <1>7, DetachOK, SettlesOn

(* Timers and states. *)

LEMMA MovesItself ==
  ASSUME NEW y
  PROVE  Moves(y, y)
BY DEF Moves

LEMMA MovesOn ==
  ASSUME NEW y, NEW d, NEW e, Moves(y, d), Moves(d, e)
  PROVE  Moves(y, e)
BY DEF Moves

LEMMA UntimerOK ==
  ASSUME NEW y \in Connection, Fits(y), NEW T \in SUBSET Timers
  PROVE  /\ Untimer(y, T) \in Connection /\ Fits(Untimer(y, T))
         /\ Moves(y, Untimer(y, T)) /\ Untimer(y, T).run = y.run \ T
         /\ Untimer(y, T).armed = y.armed \ T /\ Untimer(y, T).st = y.st
         /\ Untimer(y, T).told = y.told
<1>1. Untimer(y, T) \in Connection
  BY DEF Untimer, Connection, Moves
<1>2. Fits(Untimer(y, T))
  BY DEF Untimer, Connection, Fits, Moves
<1>3. Moves(y, Untimer(y, T))
  BY DEF Untimer, Connection, Moves
<1>4. Untimer(y, T).run = y.run \ T
  BY DEF Untimer, Connection, Moves
<1>5. Untimer(y, T).armed = y.armed \ T
  BY DEF Untimer, Connection, Moves
<1>6. Untimer(y, T).st = y.st
  BY DEF Untimer, Connection, Moves
<1>7. Untimer(y, T).told = y.told
  BY DEF Untimer, Connection, Moves
<1> QED BY <1>1, <1>2, <1>3, <1>4, <1>5, <1>6, <1>7

LEMMA TimerOK ==
  ASSUME NEW y \in Connection, Fits(y), NEW T \in SUBSET Timers
  PROVE  /\ Timer(y, T) \in Connection /\ Fits(Timer(y, T))
         /\ Moves(y, Timer(y, T)) /\ Timer(y, T).run = y.run \cup T
         /\ Timer(y, T).armed = IF y.up THEN y.armed \cup (T \ y.run) ELSE y.armed
         /\ Timer(y, T).st = y.st /\ Timer(y, T).told = y.told
<1>1. Timer(y, T) \in Connection
  BY ZenonT(60) DEF Timer, Connection, Moves
<1>2. Fits(Timer(y, T))
  BY DEF Timer, Connection, Fits, Moves
<1>3. Moves(y, Timer(y, T))
  BY DEF Timer, Connection, Moves
<1>4. Timer(y, T).run = y.run \cup T
  BY DEF Timer, Connection, Moves
<1>5. Timer(y, T).armed = IF y.up THEN y.armed \cup (T \ y.run) ELSE y.armed
  BY DEF Timer, Connection, Moves
<1>6. Timer(y, T).st = y.st
  BY DEF Timer, Connection, Moves
<1>7. Timer(y, T).told = y.told
  BY DEF Timer, Connection, Moves
<1> QED BY <1>1, <1>2, <1>3, <1>4, <1>5, <1>6, <1>7

LEMMA FTimerOK ==
  ASSUME NEW y \in Connection, Fits(y), NEW T \in SUBSET Timers
  PROVE  /\ FTimer(y, T) \in Connection /\ Fits(FTimer(y, T))
         /\ Moves(y, FTimer(y, T)) /\ FTimer(y, T).run = y.run \cup T
         /\ FTimer(y, T).armed = y.armed \cup (T \ y.run) /\ FTimer(y, T).st = y.st
         /\ FTimer(y, T).told = y.told
<1>1. FTimer(y, T) \in Connection
  BY DEF FTimer, Connection, Moves
<1>2. Fits(FTimer(y, T))
  BY DEF FTimer, Connection, Fits, Moves
<1>3. Moves(y, FTimer(y, T))
  BY DEF FTimer, Connection, Moves
<1>4. FTimer(y, T).run = y.run \cup T
  BY DEF FTimer, Connection, Moves
<1>5. FTimer(y, T).armed = y.armed \cup (T \ y.run)
  BY DEF FTimer, Connection, Moves
<1>6. FTimer(y, T).st = y.st
  BY DEF FTimer, Connection, Moves
<1>7. FTimer(y, T).told = y.told
  BY DEF FTimer, Connection, Moves
<1> QED BY <1>1, <1>2, <1>3, <1>4, <1>5, <1>6, <1>7

LEMMA TerminatedOK ==
  ASSUME NEW y \in Connection, Fits(y)
  PROVE  /\ Terminated(y) \in Connection /\ Fits(Terminated(y))
         /\ Moves(y, Terminated(y)) /\ Terminated(y).run = y.run
         /\ Terminated(y).armed = y.armed /\ Terminated(y).st = y.st
         /\ Terminated(y).told \in {"disconnecting", "disconnect"}
<1> DEFINE d == Terminated(y)
<1>1. PICK t \in {"disconnecting", "disconnect"} : d = [y EXCEPT !.told = t]
  BY DEF Terminated
<1> HIDE DEF d
<1>2. d \in Connection
  BY <1>1 DEF Connection
<1>3. Fits(d)
  BY <1>1 DEF Connection, Fits
<1>4. Moves(y, d)
  BY <1>1 DEF Connection, Moves
<1>5. d.run = y.run /\ d.armed = y.armed /\ d.st = y.st /\ d.told = t
  BY <1>1 DEF Connection
<1> QED BY <1>2, <1>3, <1>4, <1>5 DEF d

LEMMA SetStOK ==
  ASSUME NEW y \in Connection, Fits(y), NEW s \in States
  PROVE  /\ [y EXCEPT !.st = s] \in Connection /\ Fits([y EXCEPT !.st = s])
         /\ Moves(y, [y EXCEPT !.st = s]) /\ [y EXCEPT !.st = s].run = y.run
         /\ [y EXCEPT !.st = s].armed = y.armed /\ [y EXCEPT !.st = s].st = s
         /\ [y EXCEPT !.st = s].told = y.told
<1>1. [y EXCEPT !.st = s] \in Connection
  BY DEF Connection, Moves
<1>2. Fits([y EXCEPT !.st = s])
  BY DEF Connection, Fits, Moves
<1>3. Moves(y, [y EXCEPT !.st = s])
  BY DEF Connection, Moves
<1>4. [y EXCEPT !.st = s].run = y.run
  BY DEF Connection, Moves
<1>5. [y EXCEPT !.st = s].armed = y.armed
  BY DEF Connection, Moves
<1>6. [y EXCEPT !.st = s].st = s
  BY DEF Connection, Moves
<1>7. [y EXCEPT !.st = s].told = y.told
  BY DEF Connection, Moves
<1> QED BY <1>1, <1>2, <1>3, <1>4, <1>5, <1>6, <1>7

LEMMA StartTimersOK ==
  ASSUME NEW y \in Connection, Fits(y), NEW s \in States, y.st = s, y.run = {}, y.armed = {}
  PROVE  /\ StartTimers(y, s) \in Connection /\ Fits(StartTimers(y, s))
         /\ Moves(y, StartTimers(y, s)) /\ StartTimers(y, s).st = s
         /\ Timed(StartTimers(y, s)) /\ StartTimers(y, s).told = y.told
<1> DEFINE T == TimersOf(s)
           d == StartTimers(y, s)
<1>1. T \in SUBSET Timers
  BY TimersOfOK
<1> HIDE DEF T
<1>2. CASE s \in {6, 7}
  <2>1. d = FTimer(y, T)
    BY <1>2 DEF StartTimers, T
  <2>2. /\ d \in Connection /\ Fits(d) /\ Moves(y, d) /\ d.st = y.st /\ d.told = y.told
        /\ d.run = T /\ d.armed = T
    <3> DEFINE e == FTimer(y, T)
    <3>1. /\ e \in Connection /\ Fits(e) /\ Moves(y, e) /\ e.st = y.st /\ e.told = y.told
          /\ e.run = y.run \cup T /\ e.armed = y.armed \cup (T \ y.run)
      BY <1>1, FTimerOK
    <3> HIDE DEF e, d
    <3>2. d = e
      BY <2>1 DEF e
    <3> QED BY <3>1, <3>2
  <2> HIDE DEF d
  <2>3. Timed(d)
    BY <2>2 DEF Timed, Loose, T
  <2> QED BY <2>2, <2>3 DEF d
<1>3. CASE s \notin {6, 7}
  <2>1. d = Timer(y, T)
    BY <1>3 DEF StartTimers, T
  <2>2. /\ d \in Connection /\ Fits(d) /\ Moves(y, d) /\ d.st = y.st /\ d.told = y.told
        /\ d.run = T /\ d.armed = IF y.up THEN T ELSE {}
    <3> DEFINE e == Timer(y, T)
    <3>1. /\ e \in Connection /\ Fits(e) /\ Moves(y, e) /\ e.st = y.st /\ e.told = y.told
          /\ e.run = y.run \cup T
          /\ e.armed = IF y.up THEN y.armed \cup (T \ y.run) ELSE y.armed
      BY <1>1, TimerOK
    <3> HIDE DEF e, d
    <3>2. d = e
      BY <2>1 DEF e
    <3> QED BY <3>1, <3>2
  <2> HIDE DEF d
  <2>3. d.up = y.up
    BY <2>2 DEF Moves
  <2>4. Timed(d)
    BY <2>2, <2>3 DEF Timed, Loose, T
  <2> QED BY <2>2, <2>4 DEF d
<1> QED BY <1>2, <1>3

LEMMA SetStateOK ==
  ASSUME NEW y \in Connection, Fits(y), NEW s \in States, Loose(y)
  PROVE  /\ SetState(y, s) \in Connection /\ Fits(SetState(y, s))
         /\ Moves(y, SetState(y, s)) /\ SetState(y, s).st = s
         /\ s # y.st \/ Timed(y) => Timed(SetState(y, s))
         /\ s \notin Ending => SetState(y, s).told = y.told
         /\ s # y.st /\ s \in Ending => SetState(y, s).told \in {"disconnecting", "disconnect"}
         /\ s = y.st => SetState(y, s) = y
<1>1. CASE s = y.st
  <2>1. SetState(y, s) = y
    BY <1>1 DEF SetState
  <2> QED BY <1>1, <2>1, MovesItself
<1>2. CASE s # y.st
  <2> DEFINE T == TimersOf(y.st)
             a == Untimer(y, T)
             b == [a EXCEPT !.st = s]
             d == IF s = 0 \/ s > 10 THEN Terminated(b) ELSE b
             e == StartTimers(d, s)
  <2>1. T \in SUBSET Timers
    BY TimersOfOK, Fields
  <2>2. /\ a \in Connection /\ Fits(a) /\ Moves(y, a) /\ a.st = y.st /\ a.told = y.told
        /\ a.run = {} /\ a.armed = {}
    BY <2>1, UntimerOK DEF Loose
  <2> HIDE DEF a, T
  <2>3. /\ b \in Connection /\ Fits(b) /\ Moves(a, b) /\ b.st = s /\ b.told = a.told
        /\ b.run = {} /\ b.armed = {}
    BY <2>2, SetStOK
  <2> HIDE DEF b
  <2>4. s = 0 \/ s > 10 <=> s \in Ending
    BY DEF States, Ending
  <2>5. /\ d \in Connection /\ Fits(d) /\ Moves(b, d) /\ d.st = s
        /\ d.run = {} /\ d.armed = {}
    <3>1. CASE s = 0 \/ s > 10
      <4>1. d = Terminated(b)
        BY <3>1
      <4> HIDE DEF d
      <4> QED BY <2>3, <4>1, TerminatedOK
    <3>2. CASE ~(s = 0 \/ s > 10)
      <4>1. d = b
        BY <3>2
      <4> HIDE DEF d
      <4> QED BY <2>3, <4>1, MovesItself
    <3> QED BY <3>1, <3>2
  <2>6. s \notin Ending => d.told = b.told
    BY <2>4
  <2>7. s \in Ending => d.told \in {"disconnecting", "disconnect"}
    <3>1. Terminated(b).told \in {"disconnecting", "disconnect"}
      BY <2>3, TerminatedOK
    <3> QED BY <2>4, <3>1
  <2> HIDE DEF d
  <2>8. /\ e \in Connection /\ Fits(e) /\ Moves(d, e) /\ e.st = s /\ Timed(e)
        /\ e.told = d.told
    BY <2>5, StartTimersOK
  <2> HIDE DEF e
  <2>9. SetState(y, s) = e
    BY <1>2 DEF SetState, Enter, a, b, d, e, T
  <2>10. Moves(y, e)
    BY <2>2, <2>3, <2>5, <2>8, MovesOn
  <2> QED BY <1>2, <2>2, <2>3, <2>6, <2>7, <2>8, <2>9, <2>10
<1> QED BY <1>1, <1>2

LEMMA SendCallOK ==
  ASSUME NEW y \in Connection, Fits(y)
  PROVE  /\ SendCall(y) \in Connection /\ Fits(SendCall(y))
         /\ Settles([y EXCEPT !.net = SendCall(y).net], SendCall(y))
         /\ SendCall(y).net = "known" /\ SendCall(y).pending = y.pending
<1>1. SendCall(y) \in Connection
  BY DEF SendCall, Connection
<1>2. Fits(SendCall(y))
  BY DEF SendCall, Connection, Fits
<1>3. Settles([y EXCEPT !.net = SendCall(y).net], SendCall(y))
  BY DEF SendCall, Connection, Settles
<1>4. SendCall(y).net = "known"
  BY DEF SendCall, Connection
<1>5. SendCall(y).pending = y.pending
  BY DEF SendCall, Connection
<1> QED BY <1>1, <1>2, <1>3, <1>4, <1>5

LEMMA SendReleaseOK ==
  ASSUME NEW y \in Connection, Fits(y)
  PROVE  /\ SendRelease(y) \in Connection /\ Fits(SendRelease(y))
         /\ Settles([y EXCEPT !.net = SendRelease(y).net], SendRelease(y))
         /\ SendRelease(y).net = "released" /\ SendRelease(y).pending = y.pending
<1>1. SendRelease(y) \in Connection
  BY DEF SendRelease, Connection
<1>2. Fits(SendRelease(y))
  BY DEF SendRelease, Connection, Fits
<1>3. Settles([y EXCEPT !.net = SendRelease(y).net], SendRelease(y))
  BY DEF SendRelease, Connection, Settles
<1>4. SendRelease(y).net = "released"
  BY DEF SendRelease, Connection
<1>5. SendRelease(y).pending = y.pending
  BY DEF SendRelease, Connection
<1> QED BY <1>1, <1>2, <1>3, <1>4, <1>5

(* The pending answer. *)

LEMMA SettlesSound ==
  ASSUME NEW y, NEW d, Sound(y), d \in Connection, Fits(d), Settles(y, d)
  PROVE  Sound(d)
<1>1. Sane(d)
  BY DEF Sound, Sane, Settles
<1>2. Timed(d)
  BY DEF Sound, Timed, Loose, Settles
<1>3. Known(d) /\ Heard(d)
  BY DEF Sound, Known, Heard, Settles
<1> QED BY <1>1, <1>2, <1>3 DEF Sound

LEMMA FollowsItself ==
  ASSUME NEW y
  PROVE  Follows(y, y)
BY DEF Follows

LEMMA FollowsOn ==
  ASSUME NEW y, NEW d, NEW e, Follows(y, d), Follows(d, e)
  PROVE  Follows(y, e)
BY DEF Follows, Late

LEMMA SettlesFollows ==
  ASSUME NEW y, NEW d, Settles(y, d)
  PROVE  Follows(y, d)
BY DEF Settles, Follows

LEMMA PlainSound ==
  ASSUME NEW y, Sound(y), NEW est
  PROVE  /\ Sound(SetupPlain(y, est)) /\ Follows(y, SetupPlain(y, est))
         /\ SetupPlain(y, est).pending = y.pending
<1> DEFINE d == SetupPlain(y, est)
<1>1. d \in Connection /\ Fits(d) /\ Settles(y, d) /\ d.pending = y.pending
  BY SetupPlainOK DEF Sound, Sane
<1> HIDE DEF d
<1>2. Sound(d) /\ Follows(y, d)
  BY <1>1, SettlesSound, SettlesFollows
<1> QED BY <1>1, <1>2 DEF d

LEMMA ConnectsSound ==
  ASSUME NEW y, Sound(y), NEW s \in {7, 8}
  PROVE  /\ Sound(SendCall(SetState(y, s)))
         /\ ~Late(y) => Follows(y, SendCall(SetState(y, s)))
         /\ SendCall(SetState(y, s)).pending = y.pending
<1> DEFINE a == SetState(y, s)
           d == SendCall(a)
<1>1. s \in States
  BY DEF States
<1>2. y \in Connection /\ Fits(y) /\ Loose(y) /\ Timed(y)
  BY DEF Sound, Sane, Timed
<1>3. s \notin Ending
  BY DEF Ending
<1>4. /\ a \in Connection /\ Fits(a) /\ Moves(y, a) /\ a.st = s /\ Timed(a)
      /\ a.told = y.told
  BY <1>1, <1>2, <1>3, SetStateOK
<1> HIDE DEF a
<1>5. /\ d \in Connection /\ Fits(d) /\ d.pending = a.pending
  BY <1>4, SendCallOK
<1>6. d = [a EXCEPT !.net = "known"]
  BY DEF SendCall
<1> HIDE DEF d
<1>7. /\ d.prot = a.prot /\ d.ex = a.ex /\ d.st = a.st /\ d.run = a.run /\ d.armed = a.armed
      /\ d.up = a.up /\ d.told = a.told /\ d.tend = a.tend /\ d.delaying = a.delaying
      /\ d.minor = a.minor /\ d.mapped = a.mapped /\ d.dangling = a.dangling
      /\ d.bchan = a.bchan
  BY <1>4, <1>6 DEF Connection
<1>8. Sane(d)
  BY <1>4, <1>5, <1>7 DEF Sound, Sane, Moves
<1>9. Timed(d)
  BY <1>4, <1>7 DEF Timed, Loose
<1>10. Known(d) /\ Heard(d)
  BY <1>3, <1>4, <1>7 DEF Known, Heard
<1>11. ~Late(y) => Follows(y, d)
  BY <1>4, <1>7 DEF Follows, Moves
<1> QED BY <1>4, <1>5, <1>8, <1>9, <1>10, <1>11 DEF Sound, Moves, a, d

LEMMA PendingSound ==
  ASSUME NEW y, Sound(y), NEW b \in BOOLEAN, b => y.ex
  PROVE  /\ Sound([y EXCEPT !.pending = b]) /\ Follows(y, [y EXCEPT !.pending = b])
<1> DEFINE d == [y EXCEPT !.pending = b]
<1>1. y \in Connection
  BY DEF Sound, Sane
<1>2. d \in Connection
  BY <1>1 DEF Connection
<1>3. Fits(d)
  BY <1>1 DEF Connection, Fits, Sound, Sane
<1>4. Settles(y, d)
  BY <1>1 DEF Connection, Settles
<1> HIDE DEF d
<1> QED BY <1>2, <1>3, <1>4, SettlesSound, SettlesFollows DEF d

LEMMA WantSound ==
  ASSUME NEW y, Sound(y)
  PROVE  /\ Sound([y EXCEPT !.want = TRUE]) /\ Follows(y, [y EXCEPT !.want = TRUE])
         /\ [y EXCEPT !.want = TRUE].pending = y.pending
<1> DEFINE d == [y EXCEPT !.want = TRUE]
<1>1. y \in Connection
  BY DEF Sound, Sane
<1>2. d \in Connection
  BY <1>1 DEF Connection
<1>3. Fits(d)
  BY <1>1 DEF Connection, Fits, Sound, Sane
<1>4. Settles(y, d) /\ d.pending = y.pending
  BY <1>1 DEF Connection, Settles
<1> HIDE DEF d
<1> QED BY <1>2, <1>3, <1>4, SettlesSound, SettlesFollows DEF d

LEMMA AnswerNowSound ==
  ASSUME NEW y, Sound(y), y.ex, ~Late(y), NEW d, Sound(d), Follows(y, d)
  PROVE  /\ Sound(AnswerNow(y, d)) /\ Follows(y, AnswerNow(y, d))
<1> DEFINE e == SendCall(SetState(y, 7))
           f == IF y.proto /\ y.st # 7 THEN e ELSE y
<1>1. Sound(e) /\ Follows(y, e)
  BY ConnectsSound
<1> HIDE DEF e
<1>2. Sound(f) /\ Follows(y, f)
  BY <1>1, FollowsItself
<1> HIDE DEF f
<1>3. f.ex
  BY <1>2 DEF Follows
<1>4. Sound([f EXCEPT !.pending = TRUE]) /\ Follows(y, [f EXCEPT !.pending = TRUE])
  BY <1>2, <1>3, PendingSound, FollowsOn
<1>5. AnswerNow(y, d) = d \/ AnswerNow(y, d) = [f EXCEPT !.pending = TRUE]
  BY DEF AnswerNow, e, f
<1>6. CASE AnswerNow(y, d) = d
  BY <1>6
<1>7. CASE AnswerNow(y, d) = [f EXCEPT !.pending = TRUE]
  BY <1>4, <1>7
<1> QED BY <1>5, <1>6, <1>7

LEMMA LateSame ==
  ASSUME NEW y, NEW d, Follows(y, d), ~Late(y)
  PROVE  ~Late(d)
BY DEF Follows, Late

LEMMA AnswerAgainSound ==
  ASSUME NEW y, Sound(y), y.ex, ~Late(y)
  PROVE  /\ Sound(AnswerAgain(y)) /\ Follows(y, AnswerAgain(y))
<1> DEFINE a == TakeCall(y)
           d == SetupPlain(a, "LISTEN")
<1>1. Sound(a) /\ Follows(y, a)
  BY ConnectsSound DEF TakeCall
<1> HIDE DEF a
<1>2. Sound(d) /\ Follows(a, d)
  BY <1>1, PlainSound
<1>3. AnswerAgain(y) = AnswerNow(y, d)
  BY DEF AnswerAgain, a
<1> HIDE DEF d
<1> QED BY <1>1, <1>2, <1>3, AnswerNowSound, FollowsOn

LEMMA RepeatSound ==
  ASSUME NEW y, Sound(y)
  PROVE  /\ Sound(Repeat(y)) /\ Follows(y, Repeat(y))
<1>1. CASE ~y.pending
  <2>1. Repeat(y) = y
    BY <1>1 DEF Repeat
  <2> QED BY <2>1, FollowsItself
<1>2. CASE y.pending /\ Refuses(y)
  <2>1. Repeat(y) = [y EXCEPT !.pending = FALSE]
    BY <1>2 DEF Repeat
  <2> QED BY <2>1, PendingSound
<1>3. CASE y.pending /\ ~Refuses(y)
  <2> DEFINE a == [y EXCEPT !.pending = FALSE]
             b == [a EXCEPT !.want = TRUE]
             d == SetupPlain(b, "SETUP")
  <2>1. y.ex
    BY <1>3 DEF Sound, Sane, Fits
  <2>2. Sound(a) /\ Follows(y, a)
    BY PendingSound
  <2>3. Repeat(y) = AnswerAgain(d)
    <3>1. b = [y EXCEPT !.pending = FALSE, !.want = TRUE]
      OBVIOUS
    <3> HIDE DEF b
    <3> QED BY <1>3, <3>1 DEF Repeat
  <2> HIDE DEF a
  <2>4. Sound(b) /\ Follows(a, b)
    BY <2>2, WantSound
  <2> HIDE DEF b
  <2>5. Sound(d) /\ Follows(b, d)
    BY <2>4, PlainSound
  <2> HIDE DEF d
  <2>6. Follows(y, d)
    BY <2>2, <2>4, <2>5, FollowsOn
  <2>7. d.ex /\ ~Late(d)
    BY <1>3, <2>1, <2>6, LateSame DEF Follows, Refuses, Late
  <2> QED BY <2>3, <2>5, <2>6, <2>7, AnswerAgainSound, FollowsOn
<1> QED BY <1>1, <1>2, <1>3

LEMMA HeldSound ==
  ASSUME NEW y, Sound(y), NEW est
  PROVE  /\ Sound(SetupHeld(y, est)) /\ Follows(y, SetupHeld(y, est))
<1> DEFINE d == SetupPlain(y, est)
<1>1. Sound(d) /\ Follows(y, d)
  BY PlainSound
<1>2. SetupHeld(y, est) = Repeat(d)
  BY DEF SetupHeld
<1> HIDE DEF d
<1> QED BY <1>1, <1>2, RepeatSound, FollowsOn

LEMMA AnswerSound ==
  ASSUME NEW y, Sound(y), y.ex
  PROVE  /\ Sound(Answer(y)) /\ Follows(y, Answer(y))
<1>1. CASE Refuses(y)
  <2>1. Answer(y) = y
    BY <1>1 DEF Answer
  <2> QED BY <2>1, FollowsItself
<1>2. CASE ~Refuses(y)
  <2> DEFINE a == [y EXCEPT !.want = TRUE]
             b == SetupHeld(a, "SETUP")
             d == TakeCall(b)
             e == SetupHeld(d, "LISTEN")
  <2>1. Answer(y) = AnswerNow(b, e)
    BY <1>2 DEF Answer, AnswerHeld
  <2>2. Sound(a) /\ Follows(y, a)
    BY WantSound
  <2> HIDE DEF a
  <2>3. Sound(b) /\ Follows(a, b)
    BY <2>2, HeldSound
  <2> HIDE DEF b
  <2>4. Follows(y, b)
    BY <2>2, <2>3, FollowsOn
  <2>5. b.ex /\ ~Late(b)
    BY <1>2, <2>4, LateSame DEF Follows, Refuses, Late
  <2>6. Sound(d) /\ Follows(b, d)
    BY <2>3, <2>5, ConnectsSound DEF TakeCall
  <2> HIDE DEF d
  <2>7. Sound(e) /\ Follows(d, e)
    BY <2>6, HeldSound
  <2> HIDE DEF e
  <2>8. Sound(AnswerNow(b, e)) /\ Follows(b, AnswerNow(b, e))
    BY <2>3, <2>5, <2>6, <2>7, AnswerNowSound, FollowsOn
  <2> QED BY <2>1, <2>4, <2>8, FollowsOn
<1> QED BY <1>1, <1>2

(* DISCONNECT takes the stack down, so a repeated answer has to wait.      *)
LEMMA DisconnectOK ==
  ASSUME NEW y \in Connection, Fits(y)
  PROVE  /\ SetupHeld(y, "DISCONNECT") \in Connection
         /\ Fits(SetupHeld(y, "DISCONNECT"))
         /\ Settles(y, SetupHeld(y, "DISCONNECT"))
         /\ (y.pending /\ ~Refuses(y)) \/ Unstacked(SetupHeld(y, "DISCONNECT"))
<1> DEFINE a == SetupPlain(y, "DISCONNECT")
           h == SetupHeld(y, "DISCONNECT")
<1>1. /\ a \in Connection /\ Fits(a) /\ Settles(y, a) /\ a.pending = y.pending
      /\ Unstacked(a)
  BY SetupPlainOK
<1>2. h = Repeat(a)
  BY DEF SetupHeld
<1> HIDE DEF a, h
<1>3. Refuses(a) <=> Refuses(y)
  BY <1>1 DEF Settles, Refuses
<1>4. CASE ~a.pending
  <2>1. h = a
    BY <1>2, <1>4 DEF Repeat
  <2> QED BY <1>1, <2>1 DEF h
<1>5. CASE a.pending /\ Refuses(a)
  <2>1. h = [a EXCEPT !.pending = FALSE]
    BY <1>2, <1>5 DEF Repeat
  <2>2. [a EXCEPT !.pending = FALSE] \in Connection
    BY ZenonT(60), <1>1 DEF Connection
  <2>3. h \in Connection
    BY <2>2, <2>1
  <2>4. Fits(h)
    BY <1>1, <2>1 DEF Connection, Fits
  <2>5. Settles(a, h)
    BY <1>1, <2>1 DEF Connection, Settles
  <2>6. Unstacked(h)
    BY <1>1, <2>1 DEF Connection, Unstacked
  <2> QED BY <1>1, <2>3, <2>4, <2>5, <2>6, SettlesOn DEF h
<1>6. CASE a.pending /\ ~Refuses(a)
  <2> DEFINE b == [a EXCEPT !.pending = FALSE, !.want = TRUE]
             d == SetupPlain(b, "SETUP")
             e == [d EXCEPT !.pending = TRUE]
  <2>1. h = AnswerAgain(d)
    BY <1>2, <1>6 DEF Repeat
  <2>2. b \in Connection
    BY ZenonT(60), <1>1 DEF Connection
  <2>3. Fits(b)
    BY <1>1 DEF Connection, Fits
  <2>4. Settles(a, b) /\ ~b.proto
    BY <1>1 DEF Connection, Settles, Unstacked
  <2> HIDE DEF b
  <2>5. d \in Connection /\ Fits(d) /\ Settles(b, d)
    BY <2>2, <2>3, SetupPlainOK
  <2> HIDE DEF d
  <2>6. ~d.proto
    BY <2>4, <2>5 DEF Settles
  <2>7. h = e
    BY <2>1, <2>6 DEF AnswerAgain, AnswerNow
  <2>8. a.ex
    BY <1>1, <1>6 DEF Fits
  <2>9. d.ex
    BY <2>4, <2>5, <2>8 DEF Settles
  <2>10. e \in Connection
    BY <2>5 DEF Connection
  <2>11. Fits(e)
    BY <2>5, <2>9 DEF Connection, Fits
  <2>12. Settles(d, e)
    BY <2>5 DEF Connection, Settles
  <2> HIDE DEF e
  <2>13. Settles(y, e)
    BY <1>1, <2>4, <2>5, <2>12, SettlesOn
  <2> QED BY <1>1, <1>3, <1>6, <2>7, <2>10, <2>11, <2>13 DEF h
<1> QED BY <1>4, <1>5, <1>6

(* Clearing. *)

LEMMA ReleaseSound ==
  ASSUME NEW y, Sound(y)
  PROVE  /\ Sound(SendRelease(y))
         /\ Moves([y EXCEPT !.net = "released"], SendRelease(y))
         /\ SendRelease(y).st = y.st /\ SendRelease(y).told = y.told
<1> DEFINE d == [y EXCEPT !.net = "released"]
<1>1. y \in Connection
  BY DEF Sound, Sane
<1>2. d \in Connection
  BY <1>1 DEF Connection
<1>3. d.st = y.st /\ d.told = y.told /\ d.net = "released" /\ d.run = y.run /\ d.armed = y.armed
      /\ d.up = y.up /\ d.prot = y.prot /\ d.dangling = y.dangling /\ d.ex = y.ex
  BY <1>1 DEF Connection
<1>4. Fits(d)
  BY <1>1 DEF Connection, Fits, Sound, Sane
<1>5. Sane(d)
  BY <1>2, <1>3, <1>4 DEF Sane, Sound
<1>6. Timed(d)
  BY <1>3 DEF Sound, Timed, Loose
<1>7. Known(d) /\ Heard(d)
  BY <1>3 DEF Sound, Known, Heard
<1>8. SendRelease(y) = d
  BY DEF SendRelease
<1> HIDE DEF d
<1> QED BY <1>3, <1>5, <1>6, <1>7, <1>8, MovesItself DEF Sound, d

(* setstate after a message to the network, or to a state that needs none. *)
LEMMA SetStateSound ==
  ASSUME NEW y, Sane(y), Loose(y), NEW s \in States, s # y.st \/ Sound(y),
         s \in {0, 6, 19, 99} => y.net # "known"
  PROVE  /\ Sound(SetState(y, s)) /\ Moves(y, SetState(y, s)) /\ SetState(y, s).st = s
         /\ s \notin Ending => SetState(y, s).told = y.told
         /\ s # y.st /\ s \in Ending => SetState(y, s).told \in {"disconnecting", "disconnect"}
         /\ s = y.st => SetState(y, s) = y
<1> DEFINE d == SetState(y, s)
<1>1. /\ d \in Connection /\ Fits(d) /\ Moves(y, d) /\ d.st = s
      /\ s # y.st => Timed(d)
      /\ s \notin Ending => d.told = y.told
      /\ s # y.st /\ s \in Ending => d.told \in {"disconnecting", "disconnect"}
      /\ s = y.st => d = y
  BY SetStateOK DEF Sane
<1> HIDE DEF d
<1>2. CASE s = y.st
  BY <1>1, <1>2 DEF d
<1>3. CASE s # y.st
  <2>1. Sane(d)
    BY <1>1 DEF Sane, Moves
  <2>2. Known(d) /\ Heard(d)
    BY <1>1, <1>3 DEF Known, Heard, Moves
  <2> QED BY <1>1, <1>3, <2>1, <2>2 DEF Sound, d
<1> QED BY <1>2, <1>3

LEMMA TerminatedSound ==
  ASSUME NEW y, Sound(y)
  PROVE  /\ Sound(Terminated(y)) /\ Moves(y, Terminated(y))
         /\ Terminated(y).st = y.st
<1> DEFINE d == Terminated(y)
<1>1. /\ d \in Connection /\ Fits(d) /\ Moves(y, d) /\ d.run = y.run /\ d.armed = y.armed
      /\ d.st = y.st /\ d.told \in {"disconnecting", "disconnect"}
  BY TerminatedOK DEF Sound, Sane
<1> HIDE DEF d
<1>2. Sane(d)
  BY <1>1 DEF Sound, Sane, Moves
<1>3. Timed(d)
  BY <1>1 DEF Sound, Timed, Loose, Moves
<1>4. Known(d) /\ Heard(d)
  BY <1>1 DEF Sound, Known, Heard, Moves
<1> QED BY <1>1, <1>2, <1>3, <1>4 DEF Sound, d

LEMMA DiscStateOK ==
  ASSUME NEW y, y.st \in States, y.st \notin {0, 19, 99}, NEW r
  PROVE  /\ DiscStateETS(y, r) \in {11, 19, 99}
         /\ DiscState1TR6(y, r) \in {11, 12, 19}
BY DEF DiscStateETS, DiscState1TR6, States

LEMMA SendDiscSound ==
  ASSUME NEW y, Sound(y), NEW r
  PROVE  /\ Sound(SendDisc(y, r))
         /\ Moves([y EXCEPT !.net = SendDisc(y, r).net], SendDisc(y, r))
         /\ y.st \in {0, 19, 99} => SendDisc(y, r) = y
         /\ y.st # 0 => SendDisc(y, r).st \in Ending \ {0}
<1> DEFINE d == SendDisc(y, r)
<1>0. y \in Connection /\ y.st \in States
  BY Fields DEF Sound, Sane
<1>1. CASE y.st \in {0, 19, 99} \/ (y.st = 11 /\ r = 0)
  <2>1. d = y
    BY <1>1 DEF SendDisc
  <2>2. [y EXCEPT !.net = y.net] = y
    BY <1>0 DEF Connection
  <2> HIDE DEF d
  <2> QED BY <1>1, <2>1, <2>2, MovesItself DEF Ending, d
<1>2. CASE ~(y.st \in {0, 19, 99} \/ (y.st = 11 /\ r = 0))
  <2> DEFINE a == SendRelease(y)
  <2>1. PICK s \in Ending \ {0} : d = SetState(a, s)
    <3>1. DiscStateETS(y, r) \in Ending \ {0} /\ DiscState1TR6(y, r) \in Ending \ {0}
      BY <1>0, <1>2, DiscStateOK DEF Ending
    <3> QED BY <1>2, <3>1 DEF SendDisc
  <2>2. a = [y EXCEPT !.net = "released"]
    BY DEF SendRelease
  <2>3. Sound(a) /\ a.net = "released"
    BY <1>0, ReleaseSound, SendReleaseOK DEF Sound, Sane
  <2> HIDE DEF a, d
  <2>4. s \in States
    BY DEF States, Ending
  <2>5. Sound(d) /\ Moves(a, d) /\ d.st = s
    BY <2>1, <2>3, <2>4, SetStateSound DEF Sound, Timed
  <2>6. d.net = "released"
    BY <2>3, <2>5 DEF Moves
  <2> QED BY <1>2, <2>1, <2>2, <2>5, <2>6 DEF d
<1> QED BY <1>1, <1>2

-----------------------------------------------------------------------------
(* The end of a connection. *)

LEMMA SoundIs ==
  ASSUME NEW y, Sound(y)
  PROVE  /\ y \in Connection /\ Fits(y) /\ Sane(y) /\ Loose(y) /\ Timed(y)
         /\ Known(y) /\ Heard(y)
BY DEF Sound, Sane, Timed

LEMMA NetFrame ==
  ASSUME NEW y \in Connection, NEW x, NEW d, Moves([y EXCEPT !.net = x], d)
  PROVE  /\ d.prot = y.prot /\ d.ex = y.ex /\ d.up = y.up /\ d.tend = y.tend
         /\ d.delaying = y.delaying /\ d.minor = y.minor /\ d.mapped = y.mapped
         /\ d.dangling = y.dangling /\ d.bchan = y.bchan /\ d.pending = y.pending
         /\ d.net = x
BY DEF Moves, Connection

LEMMA AlikeSound ==
  ASSUME NEW y, NEW d, Sound(y), d \in Connection, Fits(d), Alike(y, d)
  PROVE  Sound(d)
BY DEF Sound, Sane, Timed, Loose, Known, Heard, Alike

LEMMA FollowsStays ==
  ASSUME NEW y, NEW d, Follows(y, d)
  PROVE  /\ Stays(y, d)
         /\ Alive(y) => Alive(d)
         /\ d.st = 0 => y.st = 0
<1>1. Stays(y, d)
  BY DEF Follows, Late, Stays, Ending
<1>2. Alive(y) => Alive(d)
  BY DEF Follows, Late, Alive, Ending
<1>3. d.st = 0 => y.st = 0
  BY DEF Follows, Late, Ending
<1> QED BY <1>1, <1>2, <1>3

LEMMA SendDiscEnds ==
  ASSUME NEW y, Sound(y), NEW r
  PROVE  /\ Sound(SendDisc(y, r))
         /\ y.st # 0 => SendDisc(y, r).st \in Ending \ {0}
         /\ y.st = 0 => SendDisc(y, r) = y
         /\ SendDisc(y, r).prot = y.prot /\ SendDisc(y, r).ex = y.ex
         /\ SendDisc(y, r).tend = y.tend /\ SendDisc(y, r).up = y.up
<1> DEFINE d == SendDisc(y, r)
<1>1. /\ Sound(d) /\ Moves([y EXCEPT !.net = d.net], d)
      /\ y.st \in {0, 19, 99} => d = y
      /\ y.st # 0 => d.st \in Ending \ {0}
  BY SendDiscSound
<1> HIDE DEF d
<1> QED BY <1>1, NetFrame, SoundIs DEF d

LEMMA QuietOK ==
  ASSUME NEW y \in Connection, Fits(y)
  PROVE  /\ Quiet(y) \in Connection /\ Fits(Quiet(y)) /\ Settles(y, Quiet(y))
         /\ Unstacked(y) => Unstacked(Quiet(y))
<1> DEFINE d == StopWatch(y)
<1>1. /\ d \in Connection /\ Fits(d) /\ Settles(y, d)
      /\ d.proto = y.proto /\ ~d.tconn /\ ~d.tdelay
  BY StopWatchOK
<1> HIDE DEF d
<1>2. Unstacked(y) => Unstacked(d)
  BY <1>1 DEF Unstacked
<1>3. Quiet(y) = y \/ Quiet(y) = d
  BY DEF Quiet, d
<1> QED BY <1>1, <1>2, <1>3, SettlesItself

LEMMA DyingOK ==
  ASSUME NEW y \in Connection, Fits(y)
  PROVE  /\ SetupDying(y, "DISCONNECT") \in Connection
         /\ Fits(SetupDying(y, "DISCONNECT"))
         /\ Settles(y, SetupDying(y, "DISCONNECT"))
         /\ (y.pending /\ ~Refuses(y)) \/ Unstacked(SetupDying(y, "DISCONNECT"))
<1> DEFINE d == SetupHeld(y, "DISCONNECT")
<1>1. /\ d \in Connection /\ Fits(d) /\ Settles(y, d)
      /\ (y.pending /\ ~Refuses(y)) \/ Unstacked(d)
  BY DisconnectOK
<1>2. SetupDying(y, "DISCONNECT") = Quiet(d)
  BY DEF SetupDying
<1> HIDE DEF d
<1> QED BY <1>1, <1>2, QuietOK, SettlesOn

LEMMA DyingSound ==
  ASSUME NEW y, Sound(y), NEW est
  PROVE  /\ Sound(SetupDying(y, est)) /\ Follows(y, SetupDying(y, est))
<1> DEFINE d == SetupHeld(y, est)
<1>1. Sound(d) /\ Follows(y, d)
  BY HeldSound
<1>2. SetupDying(y, est) = Quiet(d)
  BY DEF SetupDying
<1> HIDE DEF d
<1>3. Quiet(d) \in Connection /\ Fits(Quiet(d)) /\ Settles(d, Quiet(d))
  BY <1>1, SoundIs, QuietOK
<1> QED BY <1>1, <1>2, <1>3, SettlesSound, SettlesFollows, FollowsOn

LEMMA FreedOK ==
  ASSUME NEW y \in Connection, y.net # "known",
         y.prot = "1TR6" => y.armed = {} /\ ~y.tconn /\ ~y.tdelay /\ ~y.tend
  PROVE  /\ Good(FreedOf(y)) /\ FreedOf(y).prot = y.prot /\ FreedOf(y).st = 0
<1> DEFINE x == y.armed # {} \/ y.tconn \/ y.tdelay \/ y.tend
           n == NewConn(y.prot)
           d == [n EXCEPT !.open = y.open, !.sent = y.sent, !.att = y.att, !.told = y.told,
                          !.net = y.net, !.dangling = x]
<1>1. /\ y.prot \in {"ETS", "1TR6"} /\ y.open \in {"no", "will", "open"} /\ y.sent \in 0 .. 3
      /\ y.att \in 0 .. 3 /\ y.net \in {"none", "known", "released"}
      /\ y.told \in {"nothing", "dialled", "incoming", "conn", "disconnecting", "disconnect"}
  BY Fields
<1>2. n \in Connection
  BY <1>1, NewConnOK
<1>3. x \in BOOLEAN
  BY Fields
<1>4. y.prot = "1TR6" => ~x
  OBVIOUS
<1>5. /\ n.prot = y.prot /\ ~n.ex /\ n.st = 0 /\ n.run = {} /\ n.armed = {} /\ n.setup = 0
      /\ ~n.proto /\ ~n.mapped /\ ~n.pending /\ ~n.tend /\ ~n.tconn /\ ~n.tdelay
  BY DEF NewConn
<1>6. FreedOf(y) = d
  BY DEF FreedOf
<1> HIDE DEF n, x
<1>7. d \in Connection
  BY ZenonT(60), <1>1, <1>2, <1>3 DEF Connection
<1>8. /\ d.prot = y.prot /\ ~d.ex /\ d.st = 0 /\ d.run = {} /\ d.armed = {} /\ d.setup = 0
      /\ ~d.proto /\ ~d.mapped /\ ~d.pending /\ ~d.tend /\ d.net = y.net /\ d.dangling = x
      /\ ~d.tconn /\ ~d.tdelay
  BY <1>2, <1>5 DEF Connection
<1> HIDE DEF d
<1>9. Fits(d)
  BY <1>8 DEF Fits
<1>10. Sane(d)
  BY <1>4, <1>7, <1>8, <1>9 DEF Sane
<1>11. Timed(d)
  BY <1>8 DEF Timed, Loose, TimersOf
<1>12. Sound(d)
  BY <1>8, <1>10, <1>11 DEF Sound, Known, Heard
<1> QED BY <1>6, <1>8, <1>12 DEF Good, Alive

LEMMA TearDownSoft ==
  ASSUME NEW y, Sound(y), y.ex, y.st # 0, ~y.tend, ~y.tconn, ~y.tdelay
  PROVE  /\ Good(TearDown(y, FALSE, FALSE)) /\ Stays(y, TearDown(y, FALSE, FALSE))
<1> DEFINE a == SetupDying(y, "DISCONNECT")
           d == IF y.minor /\ y.open # "no" /\ y.mapped THEN a ELSE y
           e == KillProt(d, FALSE)
           f == [e EXCEPT !.st = 0]
<1>1. TearDown(y, FALSE, FALSE) = IF e.st = 0 THEN FreedOf(f) ELSE e
  BY DEF TearDown, Over, Unlink
<1>2. /\ Sound(d) /\ Follows(y, d)
      /\ d.prot = "1TR6" /\ d.st = 99 => ~d.tconn /\ ~d.tdelay
  <2>1. Sound(a) /\ Follows(y, a)
    BY DyingSound
  <2>2. a.prot = "1TR6" /\ a.st = 99 => ~a.tconn /\ ~a.tdelay
    BY SoundIs, DyingOK DEF Settles, Refuses, Unstacked
  <2> HIDE DEF a
  <2> QED BY <2>1, <2>2, FollowsItself
<1> HIDE DEF a, d
<1>3. d.st # 0 /\ d.ex /\ ~d.tend /\ d.prot = y.prot
  BY <1>2, FollowsStays DEF Follows
<1>4. CASE d.st = 99
  <2>1. e = SetState(d, 0)
    BY <1>4 DEF KillProt
  <2>2. 0 \in States
    BY DEF States
  <2>3. d.net # "known"
    BY <1>2, <1>4, SoundIs DEF Known
  <2> HIDE DEF e
  <2>4. Sound(e) /\ Moves(d, e) /\ e.st = 0
    <3>1. Sane(d) /\ Loose(d)
      BY <1>2, SoundIs
    <3>2. Sound(SetState(d, 0)) /\ Moves(d, SetState(d, 0)) /\ SetState(d, 0).st = 0
      BY <1>4, <2>2, <2>3, <3>1, SetStateSound
    <3> QED BY <2>1, <3>2
  <2>5. e.armed = {}
    BY <2>4, SoundIs DEF Timed, Loose, TimersOf
  <2>6. /\ f \in Connection /\ Moves(e, f) /\ f.armed = e.armed
    BY <2>2, <2>4, SetStOK, SoundIs
  <2> HIDE DEF f
  <2>7. f.net # "known" /\ f.prot = y.prot
        /\ (f.prot = "1TR6" => f.armed = {} /\ ~f.tconn /\ ~f.tdelay /\ ~f.tend)
    BY <1>2, <1>3, <1>4, <2>3, <2>4, <2>5, <2>6 DEF Moves
  <2> QED BY ZenonT(60), <1>1, <2>4, <2>6, <2>7, FreedOK DEF Stays, Ending
<1>5. CASE d.st # 99
  <2>1. e = SendDisc(d, 1)
    BY <1>3, <1>5 DEF KillProt
  <2> HIDE DEF e
  <2>2. Sound(e) /\ e.st \in Ending \ {0} /\ e.ex /\ e.prot = y.prot
    <3>1. Sound(SendDisc(d, 1)) /\ SendDisc(d, 1).st \in Ending \ {0}
          /\ SendDisc(d, 1).ex /\ SendDisc(d, 1).prot = y.prot
      BY <1>2, <1>3, SendDiscEnds
    <3> QED BY <2>1, <3>1
  <2> QED BY <1>1, <2>2 DEF Good, Alive, Stays
<1> QED BY <1>4, <1>5

LEMMA TearDownHard ==
  ASSUME NEW y, Sound(y), y.ex, ~y.tend, ~y.tconn, ~y.tdelay, ~y.pending
  PROVE  /\ Good(TearDown(y, TRUE, FALSE))
         /\ TearDown(y, TRUE, FALSE).prot = y.prot
         /\ TearDown(y, TRUE, FALSE).st = 0
<1> DEFINE a == SetupDying(y, "DISCONNECT")
           d == IF y.minor /\ y.open # "no" /\ y.mapped THEN a ELSE y
           u == Untimer(d, Timers)
           e == KillProt(u, TRUE)
           f == [e EXCEPT !.st = 0]
<1>1. TearDown(y, TRUE, FALSE) = FreedOf(f)
  BY DEF TearDown, Over, Unlink
<1>2. d \in Connection /\ Fits(d) /\ Settles(y, d) /\ ~d.tconn /\ ~d.tdelay
  <2>1. a \in Connection /\ Fits(a) /\ Settles(y, a) /\ ~a.tconn /\ ~a.tdelay
    BY SoundIs, DyingOK DEF Unstacked
  <2> HIDE DEF a
  <2> QED BY <2>1, SoundIs, SettlesItself
<1> HIDE DEF d
<1>3. d.ex /\ ~d.tend /\ d.prot = y.prot /\ d.net = y.net /\ d.st = y.st
  BY <1>2 DEF Settles
<1>4. /\ u \in Connection /\ Fits(u) /\ Moves(d, u) /\ u.st = y.st /\ u.armed = {} /\ u.run = {}
  <2>1. /\ u \in Connection /\ Fits(u) /\ Moves(d, u) /\ u.st = d.st
        /\ u.armed = d.armed \ Timers /\ u.run = d.run \ Timers
    BY <1>2, UntimerOK
  <2> HIDE DEF u
  <2> QED BY <1>2, <1>3, <2>1, Fields
<1> HIDE DEF u
<1>5. Loose(u)
  BY <1>4 DEF Loose
<1>6. 0 \in States
  BY DEF States
<1>7. /\ e \in Connection /\ e.net # "known" /\ e.armed = {} /\ e.prot = y.prot
      /\ ~e.tconn /\ ~e.tdelay /\ ~e.tend
  <2>1. CASE u.st \in {0, 99}
    <3>1. y.net # "known"
      BY <1>4, <2>1, SoundIs DEF Known
    <3>2. u.net # "known" /\ u.prot = y.prot /\ ~u.tconn /\ ~u.tdelay /\ ~u.tend
      BY <1>2, <1>3, <1>4, <3>1 DEF Moves
    <3>3. CASE u.st = 0
      <4>1. e = u
        BY <3>3 DEF KillProt
      <4> HIDE DEF e
      <4> QED BY <1>4, <3>2, <4>1
    <3>4. CASE u.st = 99
      <4> DEFINE g == SetState(u, 0)
      <4>1. e = g
        BY <3>4 DEF KillProt
      <4>2. g \in Connection /\ Moves(u, g) /\ g.st = 0 /\ Timed(g)
        BY <1>4, <1>5, <1>6, <3>4, SetStateOK
      <4> HIDE DEF e, g
      <4>3. g.armed = {}
        BY <4>2 DEF Timed, Loose, TimersOf
      <4> QED BY <3>2, <4>1, <4>2, <4>3 DEF Moves
    <3> QED BY <2>1, <3>3, <3>4
  <2>2. CASE u.st \notin {0, 99}
    <3> DEFINE g == [u EXCEPT !.net = "released"]
    <3>1. e = g
      BY <2>2 DEF KillProt, SendRelease
    <3>2. g \in Connection
      BY <1>4 DEF Connection
    <3>3. /\ g.net = "released" /\ g.armed = u.armed /\ g.prot = u.prot
          /\ g.tconn = u.tconn /\ g.tdelay = u.tdelay /\ g.tend = u.tend
      BY <1>4 DEF Connection
    <3> HIDE DEF e, g
    <3> QED BY <1>2, <1>3, <1>4, <3>1, <3>2, <3>3 DEF Moves
  <2> QED BY <2>1, <2>2
<1> HIDE DEF e
<1>8. /\ f \in Connection /\ f.net # "known" /\ f.armed = {} /\ f.prot = y.prot
      /\ ~f.tconn /\ ~f.tdelay /\ ~f.tend
  BY <1>7, Values DEF Connection, States
<1> HIDE DEF f
<1> QED BY <1>1, <1>8, FreedOK

LEMMA KillStart ==
  ASSUME NEW y, Sound(y), NEW n
  PROVE  /\ Sound([StopWatch(y) EXCEPT !.pending = @ /\ n = 0])
         /\ Settles(y, [StopWatch(y) EXCEPT !.pending = @ /\ n = 0])
         /\ ~[StopWatch(y) EXCEPT !.pending = @ /\ n = 0].tconn
         /\ ~[StopWatch(y) EXCEPT !.pending = @ /\ n = 0].tdelay
         /\ n # 0 => ~[StopWatch(y) EXCEPT !.pending = @ /\ n = 0].pending
<1> DEFINE a == StopWatch(y)
           d == [a EXCEPT !.pending = @ /\ n = 0]
<1>1. a \in Connection /\ Fits(a) /\ Settles(y, a) /\ ~a.tconn /\ ~a.tdelay
  BY SoundIs, StopWatchOK
<1> HIDE DEF a
<1>2. PICK x \in BOOLEAN : d = [a EXCEPT !.pending = x] /\ (x => a.pending) /\ (n # 0 => ~x)
  BY <1>1, Fields
<1>3. [a EXCEPT !.pending = x] \in Connection
  BY <1>1 DEF Connection
<1>4. Fits([a EXCEPT !.pending = x])
  BY <1>1, <1>2 DEF Connection, Fits
<1>5. Settles(a, [a EXCEPT !.pending = x])
  BY <1>1 DEF Connection, Settles
<1>6. /\ ~[a EXCEPT !.pending = x].tconn /\ ~[a EXCEPT !.pending = x].tdelay
      /\ n # 0 => ~[a EXCEPT !.pending = x].pending
  BY <1>1, <1>2 DEF Connection
<1> HIDE DEF d
<1>7. Settles(y, d) /\ d \in Connection /\ Fits(d) /\ ~d.tconn /\ ~d.tdelay /\ (n # 0 => ~d.pending)
  BY <1>1, <1>2, <1>3, <1>4, <1>5, <1>6, SettlesOn
<1>8. Sound(d)
  BY <1>7, SettlesSound
<1> QED BY <1>7, <1>8 DEF a, d

LEMMA DelayingSound ==
  ASSUME NEW y, Sound(y)
  PROVE  /\ Sound([y EXCEPT !.delaying = TRUE])
         /\ Alike(y, [y EXCEPT !.delaying = TRUE])
         /\ [y EXCEPT !.delaying = TRUE].delaying
         /\ [y EXCEPT !.delaying = TRUE].tconn = y.tconn
         /\ [y EXCEPT !.delaying = TRUE].tdelay = y.tdelay
         /\ [y EXCEPT !.delaying = TRUE].pending = y.pending
<1> DEFINE d == [y EXCEPT !.delaying = TRUE]
<1>1. y \in Connection /\ Fits(y)
  BY SoundIs
<1>2. d \in Connection
  BY <1>1 DEF Connection
<1>3. Fits(d)
  BY <1>1 DEF Connection, Fits
<1>4. Alike(y, d)
  BY <1>1 DEF Connection, Alike
<1>5. d.delaying /\ d.tconn = y.tconn /\ d.tdelay = y.tdelay /\ d.pending = y.pending
  BY <1>1 DEF Connection
<1> HIDE DEF d
<1> QED BY <1>2, <1>3, <1>4, <1>5, AlikeSound DEF d

LEMMA EndLaterSound ==
  ASSUME NEW y, Sound(y), y.ex, y.delaying
  PROVE  /\ Sound([y EXCEPT !.tend = TRUE, !.hup = FALSE])
         /\ [y EXCEPT !.tend = TRUE, !.hup = FALSE].prot = y.prot
         /\ [y EXCEPT !.tend = TRUE, !.hup = FALSE].ex
         /\ [y EXCEPT !.tend = TRUE, !.hup = FALSE].st = y.st
<1> DEFINE d == [y EXCEPT !.tend = TRUE, !.hup = FALSE]
<1>1. y \in Connection /\ Fits(y)
  BY SoundIs
<1>2. d \in Connection
  BY ZenonT(60), <1>1 DEF Connection
<1>3. Fits(d)
  BY <1>1 DEF Connection, Fits
<1>4. /\ d.prot = y.prot /\ d.ex = y.ex /\ d.st = y.st /\ d.run = y.run /\ d.armed = y.armed
      /\ d.up = y.up /\ d.told = y.told /\ d.net = y.net /\ d.dangling = y.dangling
  BY <1>1 DEF Connection
<1> HIDE DEF d
<1>5. Sound(d)
  BY <1>2, <1>3, <1>4 DEF Sound, Sane, Timed, Loose, Known, Heard
<1> QED BY <1>4, <1>5 DEF d

(* isdn3_killconn that waits for the call to be over.                      *)
LEMMA KillSoft ==
  ASSUME NEW y, Sound(y), y.ex, Alive(y)
  PROVE  /\ Good(KillConn(y, 0, FALSE)) /\ Stays(y, KillConn(y, 0, FALSE))
<1> DEFINE a == [StopWatch(y) EXCEPT !.pending = @ /\ 0 = 0]
           d == [a EXCEPT !.delaying = TRUE]
           w == SetupDying(d, "WILL_DISCONNECT")
           k == KillConn(y, 0, FALSE)
<1>1. k = Kill(a, 0, FALSE)
  BY DEF KillConn
<1>2. Sound(a) /\ Settles(y, a) /\ ~a.tconn /\ ~a.tdelay
  BY KillStart
<1> HIDE DEF a, k
<1>3. a.ex /\ a.st = y.st /\ a.prot = y.prot /\ Alive(a)
  BY <1>2 DEF Settles, Alive
<1>4. CASE a.delaying
  <2>1. k = a
    BY <1>1, <1>4 DEF Kill
  <2> QED BY <1>2, <1>3, <2>1 DEF Good, Stays, k
<1>5. CASE ~a.delaying
  <2>1. ~a.tend
    BY <1>2, <1>5, SoundIs DEF Fits
  <2>2. a.st # 0
    BY <1>3, <2>1 DEF Alive
  <2>3. Sound(d) /\ Alike(a, d) /\ d.delaying /\ ~d.tconn /\ ~d.tdelay
    BY <1>2, DelayingSound
  <2>4. \/ k = [w EXCEPT !.tend = TRUE, !.hup = FALSE]
        \/ k = TearDown([d EXCEPT !.tend = FALSE], 0 # 0, FALSE)
    BY <1>1, <1>5, <2>1 DEF Kill
  <2> HIDE DEF d
  <2>5. d.ex /\ ~d.tend /\ d.st = y.st /\ d.st # 0 /\ d.prot = y.prot
    BY <1>3, <2>1, <2>2, <2>3 DEF Alike
  <2>6. CASE k = [w EXCEPT !.tend = TRUE, !.hup = FALSE]
    <3>1. Sound(w) /\ Follows(d, w)
      BY <2>3, DyingSound
    <3> HIDE DEF w
    <3>2. w.ex /\ w.delaying /\ w.st # 0 /\ Stays(d, w)
      BY <2>3, <2>5, <3>1, FollowsStays DEF Follows
    <3> DEFINE e == [w EXCEPT !.tend = TRUE, !.hup = FALSE]
    <3>3. Sound(e) /\ e.prot = w.prot /\ e.ex /\ e.st = w.st
      BY <3>1, <3>2, EndLaterSound
    <3> HIDE DEF e
    <3>4. Good(e) /\ Stays(y, e)
      BY <2>5, <3>2, <3>3 DEF Good, Alive, Stays
    <3> QED BY <2>6, <3>4 DEF e, k
  <2>7. CASE k = TearDown([d EXCEPT !.tend = FALSE], 0 # 0, FALSE)
    <3>1. [d EXCEPT !.tend = FALSE] = d
      <4>1. d \in Connection
        BY <2>3, SoundIs
      <4> QED BY <2>5, <4>1 DEF Connection
    <3>2. (0 # 0) = FALSE
      OBVIOUS
    <3>3. k = TearDown(d, FALSE, FALSE)
      BY <2>7, <3>1, <3>2
    <3>4. Good(TearDown(d, FALSE, FALSE)) /\ Stays(d, TearDown(d, FALSE, FALSE))
      BY <2>3, <2>5, TearDownSoft
    <3> QED BY <2>5, <3>3, <3>4 DEF Stays, k
  <2> QED BY <2>4, <2>6, <2>7
<1> QED BY <1>4, <1>5

(* isdn3_killconn that does not wait.                                      *)
LEMMA KillHard ==
  ASSUME NEW y, Sound(y), y.ex, NEW n, n # 0, NEW held \in BOOLEAN, held => y.tend
  PROVE  /\ Good(KillConn(y, n, held)) /\ Stays(y, KillConn(y, n, held))
<1> DEFINE a == [StopWatch(y) EXCEPT !.pending = @ /\ n = 0]
           d == [a EXCEPT !.delaying = TRUE]
           k == KillConn(y, n, held)
<1>1. k = Kill(a, n, held)
  BY DEF KillConn
<1>2. Sound(a) /\ Settles(y, a) /\ ~a.tconn /\ ~a.tdelay /\ ~a.pending
  BY KillStart
<1> HIDE DEF a, k
<1>3. a.ex /\ a.st = y.st /\ a.prot = y.prot /\ a.tend = y.tend
  BY <1>2 DEF Settles
<1>4. Sound(d) /\ Alike(a, d) /\ ~d.tconn /\ ~d.tdelay /\ ~d.pending
  BY <1>2, DelayingSound
<1>5. CASE a.tend
  <2>1. k = d
    BY <1>1, <1>5 DEF Kill
  <2> HIDE DEF d
  <2> QED BY <1>3, <1>4, <1>5, <2>1 DEF Good, Alive, Stays, Alike, k
<1>6. CASE ~a.tend
  <2>1. k = TearDown([d EXCEPT !.tend = FALSE], n # 0, held)
    BY <1>1, <1>6 DEF Kill
  <2> HIDE DEF d
  <2>2. d.ex /\ ~d.tend /\ d.prot = y.prot
    BY <1>3, <1>4, <1>6 DEF Alike
  <2>3. [d EXCEPT !.tend = FALSE] = d
    <3>1. d \in Connection
      BY <1>4, SoundIs
    <3> QED BY <2>2, <3>1 DEF Connection
  <2>4. (n # 0) = TRUE /\ held = FALSE
    BY <1>3, <1>6
  <2>5. k = TearDown(d, TRUE, FALSE)
    BY <2>1, <2>3, <2>4
  <2>6. /\ Good(TearDown(d, TRUE, FALSE)) /\ TearDown(d, TRUE, FALSE).prot = d.prot
        /\ TearDown(d, TRUE, FALSE).st = 0
    BY <1>4, <2>2, TearDownHard
  <2> QED BY <2>2, <2>5, <2>6 DEF Stays, Ending, k
<1> QED BY <1>5, <1>6

-----------------------------------------------------------------------------
(* isdn3_setup_conn and what the message tables are built from. *)

LEMMA SetupSound ==
  ASSUME NEW y, Sound(y), y.ex, Alive(y), NEW est
  PROVE  /\ Sound(Setup(y, est)) /\ Follows(y, Setup(y, est))
<1> DEFINE d == SetupHeld(y, est)
<1>1. Sound(d) /\ Follows(y, d)
  BY HeldSound
<1>2. Setup(y, est) = KillIfOver(d)
  BY DEF Setup
<1> HIDE DEF d
<1>3. CASE d.st # 0
  <2>1. KillIfOver(d) = d
    BY <1>3 DEF KillIfOver
  <2> QED BY <1>1, <1>2, <2>1
<1>4. CASE d.st = 0
  <2> DEFINE a == [StopWatch(d) EXCEPT !.pending = @ /\ 0 = 0]
  <2>1. d.ex /\ d.tend
    BY <1>1, <1>4, FollowsStays DEF Follows, Alive
  <2>2. d.delaying
    BY <1>1, <2>1, SoundIs DEF Fits
  <2>3. Sound(a) /\ Settles(d, a)
    BY <1>1, KillStart
  <2>4. KillIfOver(d) = Kill(a, 0, FALSE)
    BY <1>4 DEF KillIfOver, KillConn
  <2> HIDE DEF a
  <2>5. a.delaying
    BY <2>2, <2>3 DEF Settles
  <2>6. Kill(a, 0, FALSE) = a
    BY <2>5 DEF Kill
  <2> QED BY <1>1, <1>2, <2>3, <2>4, <2>6, SettlesFollows, FollowsOn
<1> QED BY <1>3, <1>4

LEMMA SetupDiscOK ==
  ASSUME NEW y \in Connection, Fits(y), y.st # 0
  PROVE  /\ Setup(y, "DISCONNECT") \in Connection /\ Fits(Setup(y, "DISCONNECT"))
         /\ Settles(y, Setup(y, "DISCONNECT"))
<1> DEFINE d == SetupHeld(y, "DISCONNECT")
<1>1. d \in Connection /\ Fits(d) /\ Settles(y, d)
  BY DisconnectOK
<1>2. Setup(y, "DISCONNECT") = KillIfOver(d)
  BY DEF Setup
<1> HIDE DEF d
<1>3. KillIfOver(d) = d
  BY <1>1 DEF Settles, KillIfOver
<1> QED BY <1>1, <1>2, <1>3

LEMMA SetupDiscSound ==
  ASSUME NEW y, Sound(y), y.st # 0
  PROVE  /\ Sound(Setup(y, "DISCONNECT")) /\ Settles(y, Setup(y, "DISCONNECT"))
BY SoundIs, SetupDiscOK, SettlesSound

LEMMA CheckTermGood ==
  ASSUME NEW y, Sound(y), y.ex, NEW held \in BOOLEAN, held => Alive(y)
  PROVE  /\ Good(CheckTerm(y, held)) /\ Stays(y, CheckTerm(y, held))
         /\ y.st # 0 => CheckTerm(y, held) = y
<1> DEFINE d == IF y.prot = "ETS" THEN y ELSE Terminated(y)
<1>1. CASE y.st # 0
  <2>1. CheckTerm(y, held) = y
    BY <1>1 DEF CheckTerm
  <2> QED BY <1>1, <2>1 DEF Good, Alive, Stays
<1>2. CASE y.st = 0
  <2>1. CheckTerm(y, held) = KillConn(d, 1, held)
    BY <1>2 DEF CheckTerm
  <2>2. Sound(d) /\ Moves(y, d) /\ d.st = y.st
    BY TerminatedSound, MovesItself
  <2> HIDE DEF d
  <2>3. d.ex /\ d.prot = y.prot /\ (held => d.tend)
    BY <1>2, <2>2 DEF Moves, Alive
  <2>4. Good(KillConn(d, 1, held)) /\ Stays(d, KillConn(d, 1, held))
    BY <2>2, <2>3, KillHard
  <2> QED BY <1>2, <2>1, <2>2, <2>3, <2>4 DEF Stays
<1> QED BY <1>1, <1>2

(* Steps of a handler, from a connection whose timer has been stopped too.  *)

LEMMA GoSound ==
  ASSUME NEW y, Sane(y), Loose(y), NEW s \in States, s # y.st \/ Sound(y),
         s \in {0, 6, 19, 99} => y.net # "known"
  PROVE  /\ Sound(SetState(y, s)) /\ SetState(y, s).st = s
         /\ SetState(y, s).prot = y.prot /\ SetState(y, s).ex = y.ex
         /\ SetState(y, s).net = y.net /\ SetState(y, s).tend = y.tend
         /\ SetState(y, s).up = y.up
BY SetStateSound DEF Moves

LEMMA NetOK ==
  ASSUME NEW y, Sane(y), Loose(y), NEW n \in {"known", "released"}
  PROVE  /\ Sane([y EXCEPT !.net = n]) /\ Loose([y EXCEPT !.net = n])
         /\ [y EXCEPT !.net = n].net = n /\ [y EXCEPT !.net = n].prot = y.prot
         /\ [y EXCEPT !.net = n].ex = y.ex /\ [y EXCEPT !.net = n].st = y.st
         /\ [y EXCEPT !.net = n].tend = y.tend /\ [y EXCEPT !.net = n].up = y.up
         /\ [y EXCEPT !.net = n].told = y.told
         /\ [y EXCEPT !.net = n].minor = y.minor
<1> DEFINE d == [y EXCEPT !.net = n]
<1>1. y \in Connection /\ Fits(y)
  BY DEF Sane
<1>2. d \in Connection
  BY <1>1 DEF Connection
<1>3. Fits(d)
  BY <1>1 DEF Connection, Fits
<1>4. /\ d.net = n /\ d.prot = y.prot /\ d.ex = y.ex /\ d.st = y.st /\ d.tend = y.tend
      /\ d.up = y.up /\ d.told = y.told /\ d.run = y.run /\ d.armed = y.armed
      /\ d.dangling = y.dangling /\ d.minor = y.minor
  BY <1>1 DEF Connection
<1> HIDE DEF d
<1>5. Sane(d)
  BY <1>2, <1>3, <1>4 DEF Sane
<1>6. Loose(d)
  BY <1>4 DEF Loose
<1> QED BY <1>4, <1>5, <1>6 DEF d

LEMMA ReleaseTo ==
  ASSUME NEW y, Sane(y), Loose(y), NEW s \in States, s # y.st \/ Sound(y)
  PROVE  /\ Sound(SetState(SendRelease(y), s))
         /\ SetState(SendRelease(y), s).st = s
         /\ SetState(SendRelease(y), s).prot = y.prot
         /\ SetState(SendRelease(y), s).ex = y.ex
         /\ SetState(SendRelease(y), s).net = "released"
         /\ SetState(SendRelease(y), s).tend = y.tend
         /\ SetState(SendRelease(y), s).up = y.up
<1> DEFINE d == SendRelease(y)
<1> DEFINE e == [y EXCEPT !.net = "released"]
<1>1. d = e
  BY DEF SendRelease
<1>2. /\ Sane(e) /\ Loose(e) /\ e.net = "released" /\ e.prot = y.prot /\ e.ex = y.ex
      /\ e.st = y.st /\ e.tend = y.tend /\ e.up = y.up
  BY NetOK
<1> HIDE DEF e
<1>3. /\ Sane(d) /\ Loose(d) /\ d.net = "released" /\ d.prot = y.prot /\ d.ex = y.ex
      /\ d.st = y.st /\ d.tend = y.tend /\ d.up = y.up
  BY <1>2, <1>1
<1>4. Sound(y) => Sound(d)
  BY ReleaseSound
<1> HIDE DEF d
<1>5. (s # d.st \/ Sound(d)) /\ (s \in {0, 6, 19, 99} => d.net # "known")
  BY <1>3, <1>4
<1>6. /\ Sound(SetState(d, s)) /\ SetState(d, s).st = s /\ SetState(d, s).prot = d.prot
      /\ SetState(d, s).ex = d.ex /\ SetState(d, s).net = d.net
      /\ SetState(d, s).tend = d.tend /\ SetState(d, s).up = d.up
  BY <1>3, <1>5, GoSound, Zenon
<1> QED BY <1>3, <1>6 DEF d

LEMMA CallTo ==
  ASSUME NEW y, Sane(y), Loose(y), NEW s \in States \ {0, 6, 19, 99}, s # y.st
  PROVE  /\ Sound(SetState(SendCall(y), s)) /\ SetState(SendCall(y), s).st = s
         /\ SetState(SendCall(y), s).prot = y.prot
         /\ SetState(SendCall(y), s).ex = y.ex
         /\ SetState(SendCall(y), s).tend = y.tend
<1> DEFINE d == SendCall(y)
<1> DEFINE e == [y EXCEPT !.net = "known"]
<1>1. d = e
  BY DEF SendCall
<1>2. /\ Sane(e) /\ Loose(e) /\ e.net = "known" /\ e.prot = y.prot /\ e.ex = y.ex
      /\ e.st = y.st /\ e.tend = y.tend /\ e.up = y.up
  BY NetOK
<1> HIDE DEF e
<1>3. /\ Sane(d) /\ Loose(d) /\ d.prot = y.prot /\ d.ex = y.ex
      /\ d.st = y.st /\ d.tend = y.tend
  BY <1>2, <1>1
<1> HIDE DEF d
<1>4. s \in States /\ s # d.st /\ (s \in {0, 6, 19, 99} => d.net # "known")
  BY <1>3
<1>5. /\ Sound(SetState(d, s)) /\ SetState(d, s).st = s /\ SetState(d, s).prot = d.prot
      /\ SetState(d, s).ex = d.ex /\ SetState(d, s).tend = d.tend
  BY ZenonT(60), <1>3, <1>4, GoSound
<1> QED BY <1>3, <1>5 DEF d

LEMMA EndSound ==
  ASSUME NEW y, Sound(y)
  PROVE  /\ Sound(Terminated(y)) /\ Terminated(y).st = y.st
         /\ Terminated(y).prot = y.prot /\ Terminated(y).ex = y.ex
         /\ Terminated(y).net = y.net /\ Terminated(y).tend = y.tend
         /\ Terminated(y).up = y.up
BY TerminatedSound DEF Moves

LEMMA ToldSound ==
  ASSUME NEW y, Sound(y), y.st \notin Ending, NEW t \in {"incoming", "conn"}
  PROVE  /\ Sound([y EXCEPT !.told = t]) /\ [y EXCEPT !.told = t].prot = y.prot
         /\ [y EXCEPT !.told = t].ex = y.ex /\ [y EXCEPT !.told = t].st = y.st
<1> DEFINE d == [y EXCEPT !.told = t]
<1>1. y \in Connection /\ Fits(y)
  BY SoundIs
<1>2. d \in Connection
  BY <1>1 DEF Connection
<1>3. Fits(d)
  BY <1>1 DEF Connection, Fits
<1>4. /\ d.prot = y.prot /\ d.ex = y.ex /\ d.st = y.st /\ d.run = y.run /\ d.armed = y.armed
      /\ d.up = y.up /\ d.net = y.net /\ d.dangling = y.dangling
  BY <1>1 DEF Connection
<1> HIDE DEF d
<1>5. Sound(d)
  BY <1>2, <1>3, <1>4 DEF Sound, Sane, Timed, Loose, Known, Heard
<1> QED BY <1>4, <1>5 DEF d

LEMMA CarriesOn ==
  ASSUME NEW y, NEW d, NEW e, Carries(y, d), Carries(d, e)
  PROVE  Carries(y, e)
BY DEF Carries, Late

LEMMA FollowsCarries ==
  ASSUME NEW y, NEW d, Follows(y, d)
  PROVE  Carries(y, d)
BY DEF Follows, Carries

LEMMA CarriesStays ==
  ASSUME NEW y, NEW d, Carries(y, d)
  PROVE  /\ Stays(y, d)
         /\ y.st # 0 => d.st # 0
         /\ y.st \notin Ending => d.st \notin Ending
BY DEF Carries, Late, Stays, Ending

LEMMA ChanSound ==
  ASSUME NEW y, Sound(y), y.ex, y.st # 0, NEW chan
  PROVE  /\ Sound(ChanID(y, chan)) /\ Carries(y, ChanID(y, chan))
<1> DEFINE d == [y EXCEPT !.bchan = TRUE]
<1>1. y \in Connection /\ Fits(y)
  BY SoundIs
<1>2. d \in Connection
  BY <1>1 DEF Connection
<1>3. Fits(d)
  BY <1>1 DEF Connection, Fits
<1>4. Alike(y, d)
  BY <1>1 DEF Connection, Alike
<1>5. ChanID(y, chan) = y \/ ChanID(y, chan) = Setup(d, "SETUP")
  BY DEF ChanID
<1> HIDE DEF d
<1>6. Sound(d) /\ d.ex /\ d.st # 0
  BY <1>2, <1>3, <1>4, AlikeSound DEF Alike
<1>7. Sound(Setup(d, "SETUP")) /\ Follows(d, Setup(d, "SETUP"))
  BY <1>6, SetupSound DEF Alive
<1>8. Carries(y, d) /\ Carries(y, y)
  BY <1>4 DEF Alike, Carries
<1> QED BY <1>5, <1>7, <1>8, FollowsCarries, CarriesOn

LEMMA LooseAlike ==
  ASSUME NEW y, NEW d \in Connection, Fits(d), Sane(y), Loose(y), Alike(y, d)
  PROVE  /\ Sane(d) /\ Loose(d)
BY DEF Sane, Loose, Alike

LEMMA PackErrSound ==
  ASSUME NEW y, Sound(y), y.ex, y.st # 0
  PROVE  /\ Sound(PackErr(y)) /\ PackErr(y).st \in {19, 99}
         /\ PackErr(y).prot = y.prot /\ PackErr(y).ex = y.ex
<1>1. CASE y.st \in {19, 99}
  BY <1>1 DEF PackErr
<1>2. CASE y.st \notin {19, 99}
  <2> DEFINE T == TimersOf(y.st) \ {"TCONN", "TALERT"}
             u == Untimer(y, T)
             d == [u EXCEPT !.net = "released"]
             x == Setup(d, "DISCONNECT")
             e == IF y.st \in {2, 3, 4, 10, 11} THEN x ELSE d
             f == [e EXCEPT !.bchan = @ /\ y.prot = "ETS"]
  <2>1. T \in SUBSET Timers
    BY TimersOfOK, SoundIs, Fields
  <2> HIDE DEF T
  <2>2. /\ u \in Connection /\ Fits(u) /\ Moves(y, u) /\ u.st = y.st
        /\ u.run = y.run \ T /\ u.armed = y.armed \ T
    BY <2>1, UntimerOK, SoundIs
  <2> HIDE DEF u
  <2>3. Sane(u) /\ Loose(u)
    <3>1. Sane(u)
      BY <2>2, SoundIs DEF Sane, Moves
    <3>2. Loose(u)
      BY <2>2, SoundIs DEF Loose, Moves
    <3> QED BY <3>1, <3>2
  <2>4. /\ Sane(d) /\ Loose(d) /\ d.net = "released" /\ d.prot = y.prot /\ d.ex = y.ex
        /\ d.st = y.st
    BY <2>2, <2>3, NetOK DEF Moves
  <2>5. PackErr(y) = SetState(f, 19)
    BY <1>2 DEF PackErr, SendRelease, u, T
  <2> HIDE DEF d
  <2>6. e \in Connection /\ Fits(e) /\ Alike(d, e)
    <3>1. x \in Connection /\ Fits(x) /\ Settles(d, x)
      BY <2>4, SetupDiscOK DEF Sane
    <3> HIDE DEF x
    <3>2. Alike(d, x) /\ Alike(d, d)
      BY <3>1 DEF Settles, Alike
    <3> QED BY <2>4, <3>1, <3>2 DEF Sane
  <2> HIDE DEF e
  <2>7. f \in Connection /\ Fits(f) /\ Alike(e, f)
    <3>1. PICK b \in BOOLEAN : f = [e EXCEPT !.bchan = b]
      BY <2>6, Fields
    <3>2. [e EXCEPT !.bchan = b] \in Connection
      BY <2>6 DEF Connection
    <3>3. Fits([e EXCEPT !.bchan = b])
      BY <2>6 DEF Connection, Fits
    <3>4. Alike(e, [e EXCEPT !.bchan = b])
      BY <2>6 DEF Connection, Alike
    <3> QED BY <3>1, <3>2, <3>3, <3>4
  <2> HIDE DEF f
  <2>8. Alike(d, f)
    BY <2>6, <2>7 DEF Alike
  <2>9. Sane(f) /\ Loose(f)
    BY <2>4, <2>7, <2>8, LooseAlike
  <2>10. f.net = "released" /\ f.prot = y.prot /\ f.ex = y.ex /\ f.st # 19
    BY <1>2, <2>4, <2>8 DEF Alike
  <2>11. 19 \in States
    BY DEF States
  <2>12. /\ Sound(SetState(f, 19)) /\ SetState(f, 19).st = 19
         /\ SetState(f, 19).prot = f.prot /\ SetState(f, 19).ex = f.ex
    <3>1. 19 # f.st \/ Sound(f)
      BY <2>10
    <3>2. 19 \in {0, 6, 19, 99} => f.net # "known"
      BY <2>10
    <3> QED BY <2>9, <2>11, <3>1, <3>2, GoSound, Zenon
  <2> QED BY <2>5, <2>10, <2>12
<1> QED BY <1>1, <1>2

LEMMA ArriveSound ==
  ASSUME NEW y, Sound(y), y.st \notin {0, 10}, NEW s \in {Same, 2, 3, 4, 10}
  PROVE  /\ Sound(Arrive(y, s)) /\ Arrive(y, s).prot = y.prot
         /\ Arrive(y, s).ex = y.ex
<1>1. CASE s = Same
  BY <1>1 DEF Arrive, Same
<1>2. CASE s = 10
  <2> DEFINE a == [y EXCEPT !.told = "conn"]
             d == [y EXCEPT !.told = "conn", !.net = "known"]
  <2>1. y \in Connection /\ Fits(y)
    BY SoundIs
  <2>2. d \in Connection
    BY <2>1 DEF Connection
  <2>3. Fits(d)
    BY <2>1 DEF Connection, Fits
  <2>4. /\ d.prot = y.prot /\ d.ex = y.ex /\ d.st = y.st /\ d.run = y.run
        /\ d.armed = y.armed /\ d.up = y.up /\ d.dangling = y.dangling
    BY <2>1 DEF Connection
  <2>5. Arrive(y, s) = SetState(d, 10)
    BY <1>2 DEF Arrive, Same
  <2> HIDE DEF d
  <2>6. Sane(d)
    BY <2>2, <2>3, <2>4, SoundIs DEF Sane
  <2>7. Loose(d)
    BY <2>4, SoundIs DEF Loose
  <2>8. 10 \in States
    BY DEF States
  <2>9. Sound(SetState(d, 10)) /\ SetState(d, 10).prot = d.prot /\ SetState(d, 10).ex = d.ex
    BY <2>4, <2>6, <2>7, <2>8, GoSound
  <2> QED BY <2>4, <2>5, <2>9
<1>3. CASE s \in {2, 3, 4}
  <2>1. Arrive(y, s) = SetState(y, s)
    BY <1>3 DEF Arrive, Same
  <2>2. s \in States
    BY <1>3 DEF States
  <2>3. Sane(y) /\ Loose(y)
    BY SoundIs
  <2> QED BY <1>3, <2>1, <2>2, <2>3, GoSound
<1> QED BY <1>1, <1>2, <1>3

(* A message of the network that carries the call on.                       *)
LEMMA ProgressSound ==
  ASSUME NEW y, Sound(y), y.ex, y.st \notin {0, 10}, NEW ok, NEW s \in {Same, 2, 3, 4, 10}
  PROVE  /\ Sound(Progress(y, ok, s)) /\ Progress(y, ok, s).prot = y.prot
         /\ Progress(y, ok, s).ex
<1> DEFINE d == Setup(y, EstFor(s))
<1>1. Sound(d) /\ Follows(y, d)
  BY SetupSound DEF Alive
<1>2. Progress(y, ok, s) = IF Fails(y, s, ok) THEN PackErr(y) ELSE Arrive(d, s)
  BY DEF Progress
<1> HIDE DEF d
<1>3. d.ex /\ d.prot = y.prot /\ d.st \notin {0, 10}
  BY <1>1 DEF Follows
<1>4. Sound(Arrive(d, s)) /\ Arrive(d, s).prot = y.prot /\ Arrive(d, s).ex
  BY <1>1, <1>3, ArriveSound
<1>5. Sound(PackErr(y)) /\ PackErr(y).prot = y.prot /\ PackErr(y).ex
  BY PackErrSound
<1> QED BY <1>2, <1>4, <1>5

LEMMA ReleaseKeeps ==
  ASSUME NEW y, Sound(y)
  PROVE  /\ Sound(SendRelease(y)) /\ SendRelease(y).st = y.st
         /\ SendRelease(y).prot = y.prot /\ SendRelease(y).ex = y.ex
         /\ SendRelease(y).net = "released" /\ SendRelease(y).tend = y.tend
         /\ SendRelease(y).pending = y.pending
<1> DEFINE d == SendRelease(y)
           e == [y EXCEPT !.net = "released"]
<1>1. d = e
  BY DEF SendRelease
<1>2. /\ e.net = "released" /\ e.prot = y.prot /\ e.ex = y.ex /\ e.st = y.st
      /\ e.tend = y.tend
  BY NetOK, SoundIs
<1>3. e.pending = y.pending
  BY SoundIs DEF Connection
<1> HIDE DEF e
<1>4. Sound(d)
  BY ReleaseSound
<1> HIDE DEF d
<1> QED BY <1>1, <1>2, <1>3, <1>4 DEF d

LEMMA MoveTo ==
  ASSUME NEW y, Sound(y), NEW s \in States \ {0, 6, 19, 99}
  PROVE  /\ Sound(SetState(y, s)) /\ SetState(y, s).st = s
         /\ SetState(y, s).prot = y.prot /\ SetState(y, s).ex = y.ex
         /\ SetState(y, s).net = y.net /\ SetState(y, s).tend = y.tend
<1>1. Sane(y) /\ Loose(y)
  BY SoundIs
<1> QED BY <1>1, GoSound

-----------------------------------------------------------------------------

(* What a handler makes of connection k before isdn3 looks whether the     *)
(* call is over (checkterm).                                               *)
Ready(k, d) == Sound(d) /\ d.ex /\ Stays(k, d)

(* What a message, a timer or an event makes of it in the end.             *)
Done(k, d) == Good(d) /\ Stays(k, d)

-----------------------------------------------------------------------------

LEMMA ReadyDone ==
  ASSUME NEW k, NEW d, Ready(k, d)
  PROVE  Done(k, CheckTerm(d, FALSE))
BY CheckTermGood DEF Ready, Done, Stays

LEMMA ReadyHeld ==
  ASSUME NEW k, NEW d, Ready(k, d), Alive(d)
  PROVE  Done(k, CheckTerm(d, TRUE))
BY CheckTermGood DEF Ready, Done, Stays

LEMMA ReadyItself ==
  ASSUME NEW k, Sound(k), k.ex
  PROVE  Ready(k, k)
BY DEF Ready, Stays

LEMMA ReadyETS ==
  ASSUME NEW k, k.prot = "ETS", NEW d, Sound(d), d.ex, d.prot = "ETS"
  PROVE  Ready(k, d)
BY DEF Ready, Stays

(* Without a pending answer isdn3_setup_conn leaves the call alone.        *)
LEMMA HeldPlain ==
  ASSUME NEW k, Sound(k), ~k.pending, NEW est
  PROVE  /\ Sound(SetupHeld(k, est)) /\ Settles(k, SetupHeld(k, est))
         /\ ~SetupHeld(k, est).pending
<1> DEFINE d == SetupPlain(k, est)
<1>1. d \in Connection /\ Fits(d) /\ Settles(k, d) /\ ~d.pending
  BY SoundIs, SetupPlainOK
<1>2. SetupHeld(k, est) = Repeat(d)
  BY DEF SetupHeld
<1> HIDE DEF d
<1>3. Repeat(d) = d
  BY <1>1 DEF Repeat
<1> QED BY <1>1, <1>2, <1>3, SettlesSound

LEMMA SetupPending ==
  ASSUME NEW k, Sound(k), k.st # 0, ~k.pending, NEW est
  PROVE  /\ Sound(Setup(k, est)) /\ Settles(k, Setup(k, est))
         /\ ~Setup(k, est).pending
<1> DEFINE d == SetupHeld(k, est)
<1>1. Sound(d) /\ Settles(k, d) /\ ~d.pending
  BY HeldPlain
<1>2. Setup(k, est) = KillIfOver(d)
  BY DEF Setup
<1> HIDE DEF d
<1>3. KillIfOver(d) = d
  BY <1>1 DEF Settles, KillIfOver
<1> QED BY <1>1, <1>2, <1>3

LEMMA ChanPending ==
  ASSUME NEW k, Sound(k), k.ex, k.st # 0, ~k.pending, NEW chan
  PROVE  /\ Sound(ChanID(k, chan)) /\ ChanID(k, chan).st = k.st
         /\ ChanID(k, chan).prot = k.prot /\ ChanID(k, chan).ex
         /\ ~ChanID(k, chan).pending
<1> DEFINE d == [k EXCEPT !.bchan = TRUE]
<1>1. k \in Connection /\ Fits(k)
  BY SoundIs
<1>2. d \in Connection
  BY <1>1 DEF Connection
<1>3. Fits(d)
  BY <1>1 DEF Connection, Fits
<1>4. Alike(k, d) /\ ~d.pending
  BY <1>1 DEF Connection, Alike
<1>5. ChanID(k, chan) = k \/ ChanID(k, chan) = Setup(d, "SETUP")
  BY DEF ChanID
<1> HIDE DEF d
<1>6. Sound(d) /\ d.st = k.st /\ d.prot = k.prot /\ d.ex
  BY <1>2, <1>3, <1>4, AlikeSound DEF Alike
<1>7. Sound(Setup(d, "SETUP")) /\ Settles(d, Setup(d, "SETUP")) /\ ~Setup(d, "SETUP").pending
  BY <1>4, <1>6, SetupPending
<1> QED BY <1>5, <1>6, <1>7 DEF Settles

(* A connection whose timer has expired or has been stopped.               *)
LEMMA UntimerSane ==
  ASSUME NEW k, Sound(k), NEW T \in SUBSET Timers
  PROVE  /\ Sane(Untimer(k, T)) /\ Loose(Untimer(k, T)) /\ Known(Untimer(k, T))
         /\ Untimer(k, T).st = k.st /\ Untimer(k, T).prot = k.prot
         /\ Untimer(k, T).ex = k.ex /\ Untimer(k, T).run = k.run \ T
         /\ Untimer(k, T).tend = k.tend
<1> DEFINE u == Untimer(k, T)
<1>1. /\ u \in Connection /\ Fits(u) /\ Moves(k, u) /\ u.run = k.run \ T
      /\ u.armed = k.armed \ T /\ u.st = k.st
  BY UntimerOK, SoundIs
<1> HIDE DEF u
<1>2. Sane(u)
  BY <1>1, SoundIs DEF Sane, Moves
<1>3. Loose(u)
  BY <1>1, SoundIs DEF Loose, Moves
<1>4. Known(u)
  BY <1>1, SoundIs DEF Known, Moves
<1> QED BY <1>1, <1>2, <1>3, <1>4 DEF Moves, u

LEMMA AlertOK ==
  ASSUME NEW k, Sound(k), k.st = 6
  PROVE  /\ Sound(SetState(SendCall(Untimer(k, {"TALERT"})), 7))
         /\ SetState(SendCall(Untimer(k, {"TALERT"})), 7).st = 7
         /\ SetState(SendCall(Untimer(k, {"TALERT"})), 7).prot = k.prot
         /\ SetState(SendCall(Untimer(k, {"TALERT"})), 7).ex = k.ex
<1> DEFINE T == {"TALERT"}
           u == Untimer(k, T)
<1>1. T \in SUBSET Timers
  BY DEF Timers
<1> HIDE DEF T
<1>2. Sane(u) /\ Loose(u) /\ u.st = 6 /\ u.prot = k.prot /\ u.ex = k.ex
  BY <1>1, UntimerSane
<1> HIDE DEF u
<1>3. 7 \in States \ {0, 6, 19, 99}
  BY DEF States
<1>4. /\ Sound(SetState(SendCall(u), 7)) /\ SetState(SendCall(u), 7).st = 7
      /\ SetState(SendCall(u), 7).prot = u.prot /\ SetState(SendCall(u), 7).ex = u.ex
  BY <1>2, <1>3, CallTo
<1> QED BY <1>2, <1>4 DEF u, T

-----------------------------------------------------------------------------
(* Q.931, prot_ETS.c: the message table. *)

LEMMA ReleaseETSOK ==
  ASSUME NEW k, Sound(k), k.ex, k.prot = "ETS"
  PROVE  Ready(k, ReleaseETS(k))
<1>1. Sane(k) /\ Loose(k) /\ 19 \in States
  BY SoundIs DEF States
<1>2. Sound(ReleaseETS(k)) /\ ReleaseETS(k).prot = k.prot /\ ReleaseETS(k).ex = k.ex
  BY <1>1, ReleaseTo DEF ReleaseETS
<1> QED BY <1>2, ReadyETS

LEMMA GoneETSOK ==
  ASSUME NEW k, Sound(k), k.ex, k.prot = "ETS", NEW s \in {0, 99}
  PROVE  Ready(k, GoneETS(k, s))
<1> DEFINE d == SetState(SendRelease(k), s)
<1>1. Sane(k) /\ Loose(k) /\ s \in States
  BY SoundIs DEF States
<1>2. Sound(d) /\ d.prot = k.prot /\ d.ex = k.ex
  BY ZenonT(60), <1>1, ReleaseTo
<1>3. GoneETS(k, s) = Terminated(d)
  BY DEF GoneETS
<1> HIDE DEF d
<1>4. Sound(Terminated(d)) /\ Terminated(d).prot = "ETS" /\ Terminated(d).ex
  BY <1>2, EndSound
<1> QED BY <1>3, <1>4, ReadyETS

LEMMA ClearedETSOK ==
  ASSUME NEW k, Sound(k), k.ex, k.prot = "ETS"
  PROVE  Ready(k, ClearedETS(k))
<1> DEFINE a == SetState(k, 12)
           b == Terminated(a)
           d == SendDisc(b, 1)
<1>1. 12 \in States \ {0, 6, 19, 99}
  BY DEF States
<1>2. Sound(a) /\ a.prot = k.prot /\ a.ex = k.ex
  <2>1. Sound(SetState(k, 12))
    BY <1>1, MoveTo
  <2>2. SetState(k, 12).prot = k.prot
    BY <1>1, MoveTo
  <2>3. SetState(k, 12).ex = k.ex
    BY <1>1, MoveTo
  <2> QED BY <2>1, <2>2, <2>3
<1>3. ClearedETS(k) = d
  BY DEF ClearedETS
<1> HIDE DEF a
<1>4. Sound(b) /\ b.prot = "ETS" /\ b.ex
  BY <1>2, EndSound
<1> HIDE DEF b
<1>5. Sound(d) /\ d.prot = "ETS" /\ d.ex
  BY <1>4, SendDiscEnds
<1> QED BY <1>3, <1>5, ReadyETS

LEMMA EndedETSOK ==
  ASSUME NEW k, Sound(k), k.ex, k.prot = "ETS", k.net # "known"
  PROVE  Ready(k, EndedETS(k))
<1> DEFINE s == IF k.st \in {6, 7, 99} THEN 99 ELSE 0
           a == SetState(k, s)
<1>1. Sane(k) /\ Loose(k) /\ s \in States
  BY SoundIs DEF States
<1>2. EndedETS(k) = Terminated(a)
  BY DEF EndedETS
<1> HIDE DEF s
<1>3. Sound(a) /\ a.prot = k.prot /\ a.ex = k.ex
  BY <1>1, GoSound
<1> HIDE DEF a
<1>4. Sound(Terminated(a)) /\ Terminated(a).prot = "ETS" /\ Terminated(a).ex
  BY <1>3, EndSound
<1> QED BY <1>2, <1>4, ReadyETS

LEMMA AskedETSOK ==
  ASSUME NEW k, Sound(k), k.ex, k.prot = "ETS", k.st = 6, NEW immed
  PROVE  Ready(k, AskedETS(k, immed))
<1> DEFINE a == AlertETS(Untimer(k, {"TALERT"}))
           b == IF immed THEN a ELSE k
<1>1. Sound(a) /\ a.st = 7 /\ a.prot = k.prot /\ a.ex = k.ex
  BY AlertOK DEF AlertETS
<1>2. AskedETS(k, immed) = [b EXCEPT !.told = "incoming"]
  BY DEF AskedETS
<1> HIDE DEF a
<1>3. Sound(b) /\ b.st \notin Ending /\ b.prot = "ETS" /\ b.ex
  <2>1. CASE b = a
    <3>1. Sound(a) /\ a.st \notin Ending /\ a.prot = "ETS" /\ a.ex
      BY <1>1 DEF Ending
    <3> HIDE DEF b
    <3> QED BY <2>1, <3>1
  <2>2. CASE b = k
    <3> HIDE DEF b
    <3> QED BY <2>2 DEF Ending
  <2>3. b = a \/ b = k
    OBVIOUS
  <2> QED BY <2>1, <2>2, <2>3
<1> HIDE DEF b
<1> DEFINE d == [b EXCEPT !.told = "incoming"]
<1>4. Sound(d) /\ d.prot = b.prot /\ d.ex = b.ex
  BY <1>3, ToldSound
<1> HIDE DEF d
<1>5. Ready(k, d)
  BY <1>3, <1>4, ReadyETS
<1> QED BY <1>2, <1>5 DEF d

LEMMA IncomingETSOK ==
  ASSUME NEW k, Sound(k), k.ex, k.prot = "ETS", k.st = 6, ~k.pending, NEW ok, NEW immed
  PROVE  Ready(k, IncomingETS(k, ok, immed))
<1>1. CASE Fails(k, Same, ok)
  <2>1. Sane(k) /\ Loose(k) /\ 99 \in States /\ k.net # "known"
    BY SoundIs DEF States, Known
  <2>2. Sound(SetState(k, 99)) /\ SetState(k, 99).prot = k.prot /\ SetState(k, 99).ex = k.ex
    BY ZenonT(60), <2>1, GoSound
  <2>3. IncomingETS(k, ok, immed) = SetState(k, 99)
    BY <1>1 DEF IncomingETS
  <2> QED BY <2>2, <2>3, ReadyETS
<1>2. CASE ~Fails(k, Same, ok)
  <2> DEFINE d == Setup(k, EstFor(Same))
  <2>1. Sound(d) /\ Settles(k, d)
    BY SetupPending
  <2>2. IncomingETS(k, ok, immed) = AskedETS(d, immed)
    <3>1. Progress(k, ok, Same) = Arrive(d, Same)
      BY <1>2 DEF Progress
    <3> HIDE DEF d
    <3>2. Arrive(d, Same) = d
      BY DEF Arrive, Same
    <3> QED BY <1>2, <3>1, <3>2 DEF IncomingETS
  <2> HIDE DEF d
  <2>3. d.ex /\ d.prot = "ETS" /\ d.st = 6
    BY <2>1 DEF Settles
  <2>4. Ready(d, AskedETS(d, immed))
    BY <2>1, <2>3, AskedETSOK
  <2> QED BY <2>2, <2>3, <2>4 DEF Ready, Stays
<1> QED BY <1>1, <1>2

LEMMA NullStateETSOK ==
  ASSUME NEW k, Sound(k), k.ex, k.prot = "ETS", k.st = 0, NEW m, NEW ok, NEW immed,
         NEW d, m = "SETUP" => Sound(d) /\ d.ex /\ d.prot = "ETS" /\ d.st = 6 /\ ~d.pending
  PROVE  Ready(k, NullStateETS(k, d, m, ok, immed))
<1>1. CASE m = "SETUP"
  <2>1. NullStateETS(k, d, m, ok, immed) = IncomingETS(d, ok, immed)
    BY <1>1 DEF NullStateETS
  <2>2. Ready(d, IncomingETS(d, ok, immed))
    BY <1>1, IncomingETSOK
  <2> QED BY <1>1, <2>1, <2>2 DEF Ready, Stays
<1>2. CASE m = "REL"
  <2> DEFINE a == SendRelease(k)
  <2>1. NullStateETS(k, d, m, ok, immed) = Terminated(a)
    BY <1>2 DEF NullStateETS
  <2>2. Sound(a) /\ a.prot = k.prot /\ a.ex = k.ex
    BY ReleaseKeeps
  <2> HIDE DEF a
  <2>3. Sound(Terminated(a)) /\ Terminated(a).prot = "ETS" /\ Terminated(a).ex
    BY <2>2, EndSound
  <2> QED BY <2>1, <2>3, ReadyETS
<1>3. CASE m = "REL_COM"
  BY <1>3, ReadyItself DEF NullStateETS
<1>4. CASE m \notin {"SETUP", "REL", "REL_COM"}
  BY <1>4, ReleaseETSOK DEF NullStateETS
<1> QED BY <1>1, <1>2, <1>3, <1>4

LEMMA OnwardETSOK ==
  ASSUME NEW k, NEW m, OnwardETS(k, m) # None
  PROVE  /\ k.st \in {1, 2, 3, 4, 7, 8} /\ OnwardETS(k, m) \in {Same, 2, 3, 4, 10}
BY DEF OnwardETS, None

LEMMA OutgoingETSOK ==
  ASSUME NEW k, Sound(k), k.ex, k.prot = "ETS", k.st \in 1 .. 4, NEW m, NEW x,
         Sound(x), x.ex, x.prot = "ETS"
  PROVE  Ready(k, OutgoingETS(k, x, m))
<1>1. CASE k.st = 3 /\ m = "ALERT"
  <2>1. 4 \in States \ {0, 6, 19, 99}
    BY DEF States
  <2>2. Sound(SetState(k, 4)) /\ SetState(k, 4).prot = k.prot /\ SetState(k, 4).ex = k.ex
    BY ZenonT(60), <2>1, MoveTo
  <2>3. OutgoingETS(k, x, m) = SetState(k, 4)
    BY <1>1 DEF OutgoingETS
  <2> QED BY <2>2, <2>3, ReadyETS
<1>2. CASE k.st = 1 /\ m = "REL"
  <2>1. OutgoingETS(k, x, m) = GoneETS(k, 0)
    BY <1>2 DEF OutgoingETS
  <2> QED BY <2>1, GoneETSOK
<1>3. CASE k.st = 1 /\ m = "REL_COM"
  <2>1. OutgoingETS(k, x, m) = GoneETS(x, 0)
    BY <1>3 DEF OutgoingETS
  <2>2. Ready(x, GoneETS(x, 0))
    BY GoneETSOK
  <2> QED BY <2>1, <2>2 DEF Ready, Stays
<1>4. CASE ~(k.st = 3 /\ m = "ALERT") /\ ~(k.st = 1 /\ m \in {"REL", "REL_COM"})
  BY <1>4, ReadyItself DEF OutgoingETS
<1> QED BY <1>1, <1>2, <1>3, <1>4

LEMMA RingingETSOK ==
  ASSUME NEW k, Sound(k), k.ex, k.prot = "ETS", NEW m, NEW d, Sound(d), d.ex, d.prot = "ETS"
  PROVE  Ready(k, RingingETS(k, d, m))
<1>1. CASE k.st = 6 /\ m = "SETUP"
  BY <1>1, ReadyETS DEF RingingETS
<1>2. CASE k.st = 6 /\ m = "REL"
  BY <1>2, GoneETSOK DEF RingingETS
<1>3. CASE ~(k.st = 6 /\ m \in {"SETUP", "REL"})
  BY <1>3, ReadyItself DEF RingingETS
<1> QED BY <1>1, <1>2, <1>3

LEMMA ClearingETSOK ==
  ASSUME NEW k, Sound(k), k.ex, k.prot = "ETS", NEW m
  PROVE  Ready(k, ClearingETS(k, m))
<1>1. CASE k.st = 11 /\ m = "DISC"
  <2> DEFINE a == ReleaseETS(k)
  <2>1. Sound(a) /\ a.prot = "ETS" /\ a.ex
    BY ReleaseETSOK DEF Ready, Stays
  <2>2. ClearingETS(k, m) = Terminated(a)
    BY <1>1 DEF ClearingETS
  <2> HIDE DEF a
  <2>3. Sound(Terminated(a)) /\ Terminated(a).prot = "ETS" /\ Terminated(a).ex
    BY <2>1, EndSound
  <2> QED BY <2>2, <2>3, ReadyETS
<1>2. CASE ~(k.st = 11 /\ m = "DISC")
  <2>1. ClearingETS(k, m) \in {k, GoneETS(k, 0)}
    BY <1>2 DEF ClearingETS
  <2>2. Ready(k, GoneETS(k, 0))
    BY GoneETSOK
  <2> QED BY <2>1, <2>2, ReadyItself
<1> QED BY <1>1, <1>2

LEMMA InStateETSOK ==
  ASSUME NEW k, Sound(k), k.ex, k.prot = "ETS", NEW m, NEW ok, NEW immed,
         NEW d, k.st = 0 /\ m = "SETUP" => Sound(d) /\ d.ex /\ d.prot = "ETS" /\ d.st = 6 /\ ~d.pending,
         k.st # 0 => Sound(d) /\ Carries(k, d),
         NEW x, k.st # 0 => Sound(x) /\ x.ex /\ x.prot = "ETS"
  PROVE  Ready(k, InStateETS(k, d, x, m, ok, immed))
<1> DEFINE r == InStateETS(k, d, x, m, ok, immed)
<1>0. k.st \in States
  BY SoundIs, Fields
<1>1. CASE k.st = 0
  <2>1. r = NullStateETS(k, d, m, ok, immed)
    BY <1>1 DEF InStateETS, OnwardETS, None
  <2> QED BY <1>1, <2>1, NullStateETSOK
<1>2. CASE OnwardETS(k, m) # None
  <2> DEFINE s == OnwardETS(k, m)
  <2>1. k.st \in {1, 2, 3, 4, 7, 8} /\ s \in {Same, 2, 3, 4, 10}
    BY <1>2, OnwardETSOK
  <2>2. r = Progress(d, ok, s)
    BY <1>2, <2>1 DEF InStateETS
  <2> HIDE DEF s
  <2>3. Sound(d) /\ d.ex /\ d.prot = "ETS" /\ d.st \notin {0, 10}
    <3>1. k.st # 0
      BY <2>1
    <3>2. Sound(d) /\ Carries(k, d)
      BY <3>1
    <3>3. d.ex /\ d.prot = "ETS"
      BY <3>2 DEF Carries
    <3>4. d.st = k.st \/ d.st \in {7, 8}
      BY <3>2 DEF Carries
    <3> QED BY <2>1, <3>2, <3>3, <3>4
  <2>4. Sound(Progress(d, ok, s)) /\ Progress(d, ok, s).prot = d.prot /\ Progress(d, ok, s).ex
    BY <2>1, <2>3, ProgressSound
  <2> QED BY <2>2, <2>3, <2>4, ReadyETS
<1>3. CASE k.st \in 1 .. 4 /\ OnwardETS(k, m) = None
  <2>1. r = OutgoingETS(k, x, m)
    BY <1>3 DEF InStateETS
  <2> QED BY <1>3, <2>1, OutgoingETSOK
<1>4. CASE k.st \in 6 .. 8 /\ OnwardETS(k, m) = None
  <2>1. r = RingingETS(k, d, m)
    BY <1>4 DEF InStateETS
  <2>2. Sound(d) /\ d.ex /\ d.prot = "ETS"
    <3>1. k.st # 0
      BY <1>4
    <3>2. Sound(d) /\ Carries(k, d)
      BY <3>1
    <3> QED BY <3>2 DEF Carries
  <2> QED BY <2>1, <2>2, RingingETSOK
<1>5. CASE k.st = 10 /\ OnwardETS(k, m) = None
  <2>1. r \in {x, k}
    BY <1>5 DEF InStateETS, ActiveETS
  <2> QED BY <1>5, <2>1, ReadyETS, ReadyItself
<1>6. CASE k.st \in {11, 12, 19} /\ OnwardETS(k, m) = None
  <2>1. r = ClearingETS(k, m)
    BY <1>6 DEF InStateETS
  <2> QED BY <2>1, ClearingETSOK
<1>7. CASE k.st = 99 /\ OnwardETS(k, m) = None
  <2>1. r = k
    BY <1>7 DEF InStateETS
  <2> QED BY <2>1, ReadyItself
<1> QED BY <1>0, <1>1, <1>2, <1>3, <1>4, <1>5, <1>6, <1>7 DEF States



LEMMA ReactETSOK ==
  ASSUME NEW k, Sound(k), k.ex, k.prot = "ETS", NEW m, NEW ok, NEW immed,
         NEW d, k.st = 0 /\ m = "SETUP" => Sound(d) /\ d.ex /\ d.prot = "ETS" /\ d.st = 6 /\ ~d.pending,
         k.st # 0 => Sound(d) /\ Carries(k, d),
         NEW x, k.st # 0 => Sound(x) /\ x.ex /\ x.prot = "ETS",
         k.st \notin {0, 1} /\ m \in {"REL", "REL_COM"} => x.net # "known"
  PROVE  Ready(k, ReactETS(k, d, x, m, ok, immed))
<1> DEFINE r == ReactETS(k, d, x, m, ok, immed)
           cleared == m = "DISC" /\ k.st \notin {0, 11, 12, 19}
           ended == \/ m = "REL_COM" /\ k.st \notin {0, 1, 19}
                    \/ m = "REL" /\ k.st \notin {0, 1, 6, 11, 12, 19}
<1>1. CASE m \in {"STATUS", "FAC"}
  <2>1. r \in {k, ReleaseETS(k)}
    BY <1>1 DEF ReactETS
  <2> QED BY <2>1, ReleaseETSOK, ReadyItself
<1>2. CASE cleared
  <2>1. r = ClearedETS(x)
    BY <1>2 DEF ReactETS
  <2>2. Ready(x, ClearedETS(x)) /\ x.prot = k.prot
    BY <1>2, ClearedETSOK
  <2> QED BY <2>1, <2>2 DEF Ready, Stays
<1>3. CASE ended
  <2>1. r = EndedETS(x)
    BY <1>3 DEF ReactETS
  <2>2. k.st \notin {0, 1} /\ m \in {"REL", "REL_COM"}
    BY <1>3
  <2>3. Ready(x, EndedETS(x)) /\ x.prot = k.prot
    BY <2>2, EndedETSOK
  <2> QED BY <2>1, <2>3 DEF Ready, Stays
<1>4. CASE m \notin {"STATUS", "FAC"} /\ ~cleared /\ ~ended
  <2>1. r = InStateETS(k, d, x, m, ok, immed)
    BY <1>4 DEF ReactETS
  <2> QED BY <2>1, InStateETSOK
<1> QED BY <1>1, <1>2, <1>3, <1>4

LEMMA NewCallOK ==
  ASSUME NEW k, Sound(k), k.ex, k.st = 0, ~k.pending
  PROVE  /\ Sound(SetState(k, 6)) /\ SetState(k, 6).st = 6
         /\ SetState(k, 6).prot = k.prot /\ SetState(k, 6).ex
         /\ ~SetState(k, 6).pending
<1>1. Sane(k) /\ Loose(k) /\ 6 \in States /\ k.net # "known"
  BY SoundIs DEF States, Known
<1>2. Sound(SetState(k, 6)) /\ Moves(k, SetState(k, 6)) /\ SetState(k, 6).st = 6
  BY <1>1, SetStateSound
<1> QED BY <1>2 DEF Moves

LEMMA RecvETSDone ==
  ASSUME NEW k, Sound(k), k.ex, k.prot = "ETS", k.st = 0 => ~k.pending, NEW m,
         NEW chan, NEW ok, NEW immed
  PROVE  Done(k, RecvETS(k, m, chan, ok, immed))
<1> DEFINE new == IF k.st = 0 /\ m = "SETUP" THEN SetState(k, 6) ELSE k
           over == IF m \in {"REL", "REL_COM"} /\ k.st # 1 THEN SendRelease(k) ELSE k
           d == ChanID(new, chan)
           x == Setup(over, EstOfETS(m))
           r == ReactETS(k, d, x, m, ok, immed)
<1>1. k.st = 0 /\ m = "SETUP" => Sound(d) /\ d.ex /\ d.prot = "ETS" /\ d.st = 6 /\ ~d.pending
  <2> SUFFICES ASSUME k.st = 0, m = "SETUP"
               PROVE  Sound(d) /\ d.ex /\ d.prot = "ETS" /\ d.st = 6 /\ ~d.pending
    OBVIOUS
  <2> DEFINE n == SetState(k, 6)
  <2>1. Sound(n) /\ n.st = 6 /\ n.prot = k.prot /\ n.ex /\ ~n.pending
    BY NewCallOK
  <2>2. d = ChanID(n, chan)
    OBVIOUS
  <2> HIDE DEF n, d
  <2>3. /\ Sound(ChanID(n, chan)) /\ ChanID(n, chan).ex /\ ChanID(n, chan).prot = n.prot
        /\ ChanID(n, chan).st = n.st /\ ~ChanID(n, chan).pending
    BY <2>1, ChanPending
  <2> QED BY <2>1, <2>2, <2>3
<1>2. k.st # 0 => Sound(d) /\ Carries(k, d)
  <2>1. k.st # 0 => new = k
    OBVIOUS
  <2>2. k.st # 0 => Sound(ChanID(k, chan)) /\ Carries(k, ChanID(k, chan))
    BY ChanSound
  <2> QED BY <2>1, <2>2
<1>3. k.st # 0 => /\ Sound(x) /\ x.ex /\ x.prot = "ETS"
                  /\ k.st # 1 /\ m \in {"REL", "REL_COM"} => x.net # "known"
  <2> SUFFICES ASSUME k.st # 0
               PROVE  /\ Sound(x) /\ x.ex /\ x.prot = "ETS"
                      /\ k.st # 1 /\ m \in {"REL", "REL_COM"} => x.net # "known"
    OBVIOUS
  <2>1. /\ Sound(over) /\ over.ex /\ over.prot = "ETS" /\ over.st # 0
        /\ k.st # 1 /\ m \in {"REL", "REL_COM"} => over.net # "known"
    <3>1. /\ Sound(SendRelease(k)) /\ SendRelease(k).ex
          /\ SendRelease(k).prot = k.prot /\ SendRelease(k).st = k.st
          /\ SendRelease(k).net = "released"
      BY ReleaseKeeps
    <3> QED BY <3>1
  <2> HIDE DEF over
  <2>2. CASE m = "RESUMED"
    <3>1. x = Setup(over, "CONNECT")
      BY <2>2 DEF EstOfETS
    <3>2. Sound(Setup(over, "CONNECT")) /\ Follows(over, Setup(over, "CONNECT"))
      BY <2>1, SetupSound DEF Alive
    <3> HIDE DEF x
    <3> QED BY <2>1, <2>2, <3>1, <3>2 DEF Follows
  <2>3. CASE m # "RESUMED"
    <3>1. x = Setup(over, "DISCONNECT")
      BY <2>3 DEF EstOfETS
    <3>2. Sound(Setup(over, "DISCONNECT")) /\ Settles(over, Setup(over, "DISCONNECT"))
      BY <2>1, SetupDiscSound
    <3> HIDE DEF x
    <3> QED BY <2>1, <3>1, <3>2 DEF Settles
  <2> QED BY <2>2, <2>3
<1>4. RecvETS(k, m, chan, ok, immed) = CheckTerm(r, FALSE)
  BY DEF RecvETS
<1> HIDE DEF d, x
<1>5. Ready(k, r)
  BY <1>1, <1>2, <1>3, ReactETSOK
<1> HIDE DEF r
<1> QED BY <1>4, <1>5, ReadyDone

(* Its timers. *)

LEMMA TimeoutETSOK ==
  ASSUME NEW k, Sane(k), Loose(k), Known(k), k.ex, k.prot = "ETS",
         NEW t \in TimersOf(k.st), k.st \in States
  PROVE  /\ Sound(TimeoutETS(k, t)) /\ TimeoutETS(k, t).ex
         /\ TimeoutETS(k, t).prot = "ETS"
<1> DEFINE r == TimeoutETS(k, t)
<1>0. /\ 7 \in States \ {0, 6, 19, 99}
      /\ 0 \in States /\ 11 \in States /\ 19 \in States /\ 99 \in States
  BY DEF States
<1>1. CASE t = "T303"
  <2> DEFINE a == SetState(SendRelease(k), 11)
             b == Setup(a, "DISCONNECT")
             d == SetState(b, 99)
  <2>1. k.st = 1
    BY <1>1 DEF TimersOf, States
  <2>2. SendDisc(k, 0) = a
    BY <2>1 DEF SendDisc, DiscStateETS
  <2>3. Sound(a) /\ a.st = 11 /\ a.prot = k.prot /\ a.ex /\ a.net = "released"
    BY <1>0, <2>1, ReleaseTo
  <2>4. r = Terminated(d)
    BY <1>1, <2>2 DEF TimeoutETS
  <2> HIDE DEF a, r
  <2>5. Sound(b) /\ Settles(a, b)
    BY <2>3, SetupDiscSound
  <2> HIDE DEF b
  <2>6. Sane(b) /\ Loose(b) /\ b.st = 11 /\ b.net = "released" /\ b.ex /\ b.prot = "ETS"
    BY <2>3, <2>5, SoundIs DEF Settles
  <2>7. Sound(d) /\ d.prot = b.prot /\ d.ex
    BY <1>0, <2>5, <2>6, GoSound
  <2> HIDE DEF d
  <2>8. Sound(Terminated(d)) /\ Terminated(d).prot = d.prot /\ Terminated(d).ex
    BY <2>7, EndSound
  <2> QED BY <2>4, <2>6, <2>7, <2>8 DEF r
<1>2. CASE t \in {"T304", "T310", "T313"}
  <2>1. k.st # 11
    BY <1>2 DEF TimersOf, States
  <2>2. r = SetState(SendRelease(k), 11)
    BY <1>2 DEF TimeoutETS
  <2>3. /\ Sound(SetState(SendRelease(k), 11)) /\ SetState(SendRelease(k), 11).prot = k.prot
        /\ SetState(SendRelease(k), 11).ex
    BY <1>0, <2>1, ReleaseTo
  <2> QED BY <2>2, <2>3
<1>3. CASE t = "T305"
  <2>1. k.st # 19
    BY <1>3 DEF TimersOf, States
  <2>2. r = SetState(SendRelease(k), 19)
    BY <1>3 DEF TimeoutETS, ReleaseETS
  <2>3. /\ Sound(SetState(SendRelease(k), 19)) /\ SetState(SendRelease(k), 19).prot = k.prot
        /\ SetState(SendRelease(k), 19).ex
    BY <1>0, <2>1, ReleaseTo
  <2> QED BY <2>2, <2>3
<1>4. CASE t = "T308"
  <2>1. k.st # 99
    BY <1>4 DEF TimersOf, States
  <2>2. r = SetState(SendRelease(k), 99)
    BY <1>4 DEF TimeoutETS
  <2>3. /\ Sound(SetState(SendRelease(k), 99)) /\ SetState(SendRelease(k), 99).prot = k.prot
        /\ SetState(SendRelease(k), 99).ex
    BY <1>0, <2>1, ReleaseTo
  <2> QED BY <2>2, <2>3
<1>5. CASE t = "TCONN"
  <2>1. k.st \in {6, 7}
    BY <1>5 DEF TimersOf, States
  <2>2. CASE k.st = 7
    <3>1. r = SetState(SendRelease(k), 11)
      BY <1>5, <2>2 DEF TimeoutETS, SendDisc, DiscStateETS
    <3>2. /\ Sound(SetState(SendRelease(k), 11)) /\ SetState(SendRelease(k), 11).prot = k.prot
          /\ SetState(SendRelease(k), 11).ex
      BY <1>0, <2>2, ReleaseTo
    <3> QED BY <3>1, <3>2
  <2>3. CASE k.st = 6
    <3>1. r = SetState(k, 99)
      BY <1>5, <2>3 DEF TimeoutETS
    <3>2. k.net # "known"
      BY <2>3 DEF Known
    <3>3. Sound(SetState(k, 99)) /\ SetState(k, 99).prot = k.prot /\ SetState(k, 99).ex
      BY <1>0, <2>3, <3>2, GoSound
    <3> QED BY <3>1, <3>3
  <2> QED BY <2>1, <2>2, <2>3
<1>6. CASE t = "TALERT"
  <2>1. k.st = 6
    BY <1>6 DEF TimersOf, States
  <2>2. r = SetState(SendCall(k), 7)
    BY <1>6 DEF TimeoutETS, AlertETS
  <2>3. /\ Sound(SetState(SendCall(k), 7)) /\ SetState(SendCall(k), 7).prot = k.prot
        /\ SetState(SendCall(k), 7).ex
    BY <1>0, <2>1, CallTo
  <2> QED BY <2>2, <2>3
<1>7. CASE t = "TFOO"
  <2>1. k.st = 99
    BY <1>7 DEF TimersOf, States
  <2>2. r = SetState(k, 0)
    BY <1>7 DEF TimeoutETS
  <2>3. k.net # "known"
    BY <2>1 DEF Known
  <2>4. Sound(SetState(k, 0)) /\ SetState(k, 0).prot = k.prot /\ SetState(k, 0).ex
    BY <1>0, <2>1, <2>3, GoSound
  <2> QED BY <2>2, <2>4
<1>8. t \in Timers
  BY TimersOfOK
<1> QED BY <1>1, <1>2, <1>3, <1>4, <1>5, <1>6, <1>7, <1>8 DEF Timers

LEMMA ExpireETSDone ==
  ASSUME NEW k, Sound(k), k.ex, k.prot = "ETS", NEW t \in k.armed
  PROVE  Done(k, ExpireETS(k, t))
<1> DEFINE u == Untimer(k, {t})
           r == TimeoutETS(u, t)
<1>1. t \in TimersOf(k.st) /\ {t} \in SUBSET Timers /\ k.st \in States
  BY SoundIs, Fields DEF Loose
<1>2. Sane(u) /\ Loose(u) /\ Known(u) /\ u.st = k.st /\ u.prot = k.prot /\ u.ex
  BY <1>1, UntimerSane
<1>3. ExpireETS(k, t) = CheckTerm(r, FALSE)
  BY DEF ExpireETS
<1> HIDE DEF u
<1>4. Sound(r) /\ r.ex /\ r.prot = "ETS"
  BY <1>1, <1>2, TimeoutETSOK
<1> HIDE DEF r
<1> QED BY <1>3, <1>4, ReadyETS, ReadyDone

-----------------------------------------------------------------------------
(* 1TR6, prot_1TR6_1.c: the message table. *)

LEMMA ReadyEnd ==
  ASSUME NEW k, NEW d, Sound(d), d.ex, d.prot = k.prot, d.st \in Ending
  PROVE  Ready(k, d)
BY DEF Ready, Stays

LEMMA ReadyFree ==
  ASSUME NEW k, k.st \notin Ending, NEW d, Sound(d), d.ex, d.prot = k.prot
  PROVE  Ready(k, d)
BY DEF Ready, Stays

LEMMA ReadyCarries ==
  ASSUME NEW k, k.ex, NEW d, Sound(d), Carries(k, d)
  PROVE  Ready(k, d)
<1>1. d.ex
  BY DEF Carries
<1> QED BY <1>1, CarriesStays DEF Ready

LEMMA Gone1TR6OK ==
  ASSUME NEW k, Sound(k), k.ex, NEW s \in {0, 19, 99}
  PROVE  /\ Ready(k, Gone1TR6(k, s)) /\ Sound(Gone1TR6(k, s)) /\ Gone1TR6(k, s).ex
         /\ Gone1TR6(k, s).prot = k.prot /\ Gone1TR6(k, s).st = s
<1>1. Sane(k) /\ Loose(k) /\ s \in States /\ s \in Ending
  BY SoundIs DEF States, Ending
<1>2. /\ Sound(Gone1TR6(k, s)) /\ Gone1TR6(k, s).prot = k.prot /\ Gone1TR6(k, s).ex
      /\ Gone1TR6(k, s).st = s
  BY <1>1, ReleaseTo DEF Gone1TR6
<1> QED BY <1>1, <1>2, ReadyEnd

LEMMA Release1TR6OK ==
  ASSUME NEW k, Sound(k), k.ex
  PROVE  /\ Ready(k, Release1TR6(k)) /\ Sound(Release1TR6(k)) /\ Release1TR6(k).ex
         /\ Release1TR6(k).prot = k.prot /\ Release1TR6(k).st = 19
<1>1. Release1TR6(k) = Gone1TR6(k, 19)
  BY DEF Release1TR6, Gone1TR6
<1> QED BY <1>1, Gone1TR6OK

LEMMA EndReady ==
  ASSUME NEW k, NEW d, Ready(k, d)
  PROVE  Ready(k, Terminated(d))
<1>1. /\ Sound(Terminated(d)) /\ Terminated(d).st = d.st /\ Terminated(d).prot = d.prot
      /\ Terminated(d).ex
  BY EndSound DEF Ready
<1> QED BY <1>1 DEF Ready, Stays

LEMMA Cleared1TR6OK ==
  ASSUME NEW k, Sound(k), k.ex, k.st # 0
  PROVE  /\ Ready(k, Cleared1TR6(k)) /\ Cleared1TR6(k).st \in Ending
<1> DEFINE d == SendDisc(k, 1)
<1>1. Sound(d) /\ d.st \in Ending /\ d.prot = k.prot /\ d.ex
  BY SendDiscEnds
<1>2. Cleared1TR6(k) = Terminated(d)
  BY DEF Cleared1TR6
<1> HIDE DEF d
<1>3. Ready(k, d)
  BY <1>1, ReadyEnd
<1>4. Ready(k, Terminated(d)) /\ Terminated(d).st = d.st
  BY <1>1, <1>3, EndReady, EndSound
<1> QED BY <1>1, <1>2, <1>4

LEMMA Asked1TR6OK ==
  ASSUME NEW k, Sound(k), k.ex, NEW immed
  PROVE  /\ Sound(Asked1TR6(k, immed)) /\ Asked1TR6(k, immed).ex
         /\ Asked1TR6(k, immed).prot = k.prot
<1>1. CASE k.st # 6
  BY <1>1 DEF Asked1TR6
<1>2. CASE k.st = 6
  <2> DEFINE a == Alert1TR6(Untimer(k, {"TALERT"}))
             b == IF immed THEN a ELSE k
             d == [b EXCEPT !.told = "incoming"]
  <2>1. Sound(a) /\ a.st = 7 /\ a.prot = k.prot /\ a.ex
    BY <1>2, AlertOK DEF Alert1TR6
  <2>2. Asked1TR6(k, immed) = d
    BY <1>2 DEF Asked1TR6
  <2> HIDE DEF a
  <2>3. Sound(b) /\ b.st \notin Ending /\ b.prot = k.prot /\ b.ex
    <3>1. CASE b = a
      <4>1. Sound(a) /\ a.st \notin Ending /\ a.prot = k.prot /\ a.ex
        BY <2>1 DEF Ending
      <4> HIDE DEF b
      <4> QED BY <3>1, <4>1
    <3>2. CASE b = k
      <4> HIDE DEF b
      <4> QED BY <1>2, <3>2 DEF Ending
    <3>3. b = a \/ b = k
      OBVIOUS
    <3> QED BY <3>1, <3>2, <3>3
  <2> HIDE DEF b
  <2>4. Sound(d) /\ d.prot = b.prot /\ d.ex
    BY <2>3, ToldSound
  <2> HIDE DEF d
  <2> QED BY <2>2, <2>3, <2>4
<1> QED BY <1>1, <1>2

LEMMA Incoming1TR6OK ==
  ASSUME NEW k, Sound(k), k.ex, k.st = 6, NEW m, NEW ok, NEW immed
  PROVE  /\ Sound(Incoming1TR6(k, m, ok, immed))
         /\ Incoming1TR6(k, m, ok, immed).ex
         /\ Incoming1TR6(k, m, ok, immed).prot = k.prot
<1>1. CASE m = "SETUP_BAD"
  <2>1. Sane(k) /\ Loose(k) /\ 99 \in States /\ k.net # "known"
    BY SoundIs DEF States, Known
  <2>2. Sound(SetState(k, 99)) /\ SetState(k, 99).prot = k.prot /\ SetState(k, 99).ex
    BY <2>1, GoSound
  <2>3. Incoming1TR6(k, m, ok, immed) = SetState(k, 99)
    BY <1>1 DEF Incoming1TR6
  <2> QED BY <2>2, <2>3
<1>2. CASE m # "SETUP_BAD"
  <2> DEFINE d == Progress(k, ok, Same)
  <2>1. Sound(d) /\ d.prot = k.prot /\ d.ex
    BY ProgressSound
  <2>2. Incoming1TR6(k, m, ok, immed) = Asked1TR6(d, immed)
    BY <1>2 DEF Incoming1TR6
  <2> HIDE DEF d
  <2>3. /\ Sound(Asked1TR6(d, immed)) /\ Asked1TR6(d, immed).ex
        /\ Asked1TR6(d, immed).prot = d.prot
    BY <2>1, Asked1TR6OK
  <2> QED BY <2>1, <2>2, <2>3
<1> QED BY <1>1, <1>2

LEMMA NullState1TR6OK ==
  ASSUME NEW k, Sound(k), k.ex, k.st = 0, NEW m, NEW ok, NEW immed,
         NEW d, m \in {"SETUP", "SETUP_BAD"} => Sound(d) /\ d.ex /\ d.prot = k.prot /\ d.st = 6
  PROVE  /\ Sound(NullState1TR6(k, d, m, ok, immed))
         /\ NullState1TR6(k, d, m, ok, immed).ex
         /\ NullState1TR6(k, d, m, ok, immed).prot = k.prot
<1>1. CASE m \in {"SETUP", "SETUP_BAD"}
  <2>1. NullState1TR6(k, d, m, ok, immed) = Incoming1TR6(d, m, ok, immed)
    BY <1>1 DEF NullState1TR6
  <2>2. Sound(d) /\ d.ex /\ d.prot = k.prot /\ d.st = 6
    BY <1>1
  <2>3. /\ Sound(Incoming1TR6(d, m, ok, immed)) /\ Incoming1TR6(d, m, ok, immed).ex
        /\ Incoming1TR6(d, m, ok, immed).prot = d.prot
    BY <2>2, Incoming1TR6OK
  <2> QED BY <2>1, <2>2, <2>3
<1>2. CASE m = "REL"
  <2>1. NullState1TR6(k, d, m, ok, immed) = SendRelease(k)
    BY <1>2 DEF NullState1TR6
  <2> QED BY <2>1, ReleaseKeeps
<1>3. CASE m = "REL_ACK"
  BY <1>3 DEF NullState1TR6
<1>4. CASE m \notin {"SETUP", "SETUP_BAD", "REL", "REL_ACK"}
  <2>1. NullState1TR6(k, d, m, ok, immed) = Release1TR6(k)
    BY <1>4 DEF NullState1TR6
  <2> QED BY <2>1, Release1TR6OK
<1> QED BY <1>1, <1>2, <1>3, <1>4

LEMMA Onward1TR6OK ==
  ASSUME NEW k, NEW m, Onward1TR6(k, m) # None
  PROVE  /\ k.st \in {1, 2, 3, 4, 7, 8} /\ Onward1TR6(k, m) \in {Same, 2, 3, 4, 10}
BY DEF Onward1TR6, None

LEMMA Outgoing1TR6OK ==
  ASSUME NEW k, Sound(k), k.ex, k.prot = "1TR6", k.st \in 1 .. 4, NEW m
  PROVE  Ready(k, Outgoing1TR6(k, m))
<1> DEFINE r == Outgoing1TR6(k, m)
<1>1. r \in {k, SetState(k, 3), SetState(k, 4), Terminated(Gone1TR6(k, 0)),
             Gone1TR6(k, 0), Gone1TR6(k, 99)}
  BY DEF Outgoing1TR6
<1> HIDE DEF r
<1>2. k.st \notin Ending
  BY DEF Ending
<1>3. 3 \in States \ {0, 6, 19, 99} /\ 4 \in States \ {0, 6, 19, 99}
  BY DEF States
<1>4. /\ Sound(SetState(k, 3)) /\ SetState(k, 3).prot = k.prot /\ SetState(k, 3).ex
      /\ Sound(SetState(k, 4)) /\ SetState(k, 4).prot = k.prot /\ SetState(k, 4).ex
  BY <1>3, MoveTo
<1>5. Ready(k, SetState(k, 3)) /\ Ready(k, SetState(k, 4))
  BY <1>2, <1>4, ReadyFree
<1>6. /\ Ready(k, Gone1TR6(k, 0)) /\ Ready(k, Gone1TR6(k, 99))
      /\ Ready(k, Terminated(Gone1TR6(k, 0)))
  BY Gone1TR6OK, EndReady
<1> QED BY <1>1, <1>5, <1>6, ReadyItself DEF r

LEMMA Clearing1TR6OK ==
  ASSUME NEW k, Sound(k), k.ex, k.prot = "1TR6", NEW m
  PROVE  Ready(k, Clearing1TR6(k, m))
<1> DEFINE r == Clearing1TR6(k, m)
<1>1. CASE m # "REL" /\ k.st = 19 /\ m = "REL_ACK"
  <2>1. Sane(k) /\ Loose(k) /\ 0 \in States /\ 0 \in Ending /\ k.net # "known"
    BY <1>1, SoundIs DEF States, Ending, Known
  <2>2. /\ Sound(SetState(k, 0)) /\ SetState(k, 0).prot = k.prot /\ SetState(k, 0).ex
        /\ SetState(k, 0).st = 0
    BY <2>1, GoSound
  <2>3. r = SetState(k, 0)
    BY <1>1 DEF Clearing1TR6
  <2> QED BY <2>1, <2>2, <2>3, ReadyEnd
<1>2. CASE ~(m # "REL" /\ k.st = 19 /\ m = "REL_ACK")
  <2>1. r \in {k, Gone1TR6(k, 0), Gone1TR6(k, 99)}
    BY <1>2 DEF Clearing1TR6
  <2>2. Ready(k, Gone1TR6(k, 0)) /\ Ready(k, Gone1TR6(k, 99))
    BY Gone1TR6OK
  <2> QED BY <2>1, <2>2, ReadyItself
<1> QED BY <1>1, <1>2

LEMMA InState1TR6OK ==
  ASSUME NEW k, Sound(k), k.ex, k.prot = "1TR6", k.st \notin {0, 99}, NEW m
  PROVE  Ready(k, InState1TR6(k, m))
<1> DEFINE r == InState1TR6(k, m)
<1>0. k.st \in States
  BY SoundIs, Fields
<1>1. CASE k.st \in 1 .. 4
  <2>1. r = Outgoing1TR6(k, m)
    BY <1>1 DEF InState1TR6
  <2> QED BY <1>1, <2>1, Outgoing1TR6OK
<1>2. CASE k.st \in {6, 7, 8, 10}
  <2>1. r \in {k, Gone1TR6(k, 0), Gone1TR6(k, 99)}
    BY <1>2 DEF InState1TR6, Ringing1TR6, Active1TR6
  <2>2. Ready(k, Gone1TR6(k, 0)) /\ Ready(k, Gone1TR6(k, 99))
    BY Gone1TR6OK
  <2> QED BY <2>1, <2>2, ReadyItself
<1>3. CASE k.st \in {11, 12, 19}
  <2>1. r = Clearing1TR6(k, m)
    BY <1>3 DEF InState1TR6
  <2> QED BY <2>1, Clearing1TR6OK
<1> QED BY <1>0, <1>1, <1>2, <1>3 DEF States

LEMMA React1TR6OK ==
  ASSUME NEW k, Sound(k), k.ex, k.prot = "1TR6", k.st # 0, NEW m, NEW ok, NEW immed,
         NEW d, Sound(d), Carries(k, d),
         NEW x, Sound(x), x.ex, x.prot = "1TR6", x.st # 0
  PROVE  Ready(k, React1TR6(k, d, x, m, ok, immed))
<1> DEFINE r == React1TR6(k, d, x, m, ok, immed)
           onward == Onward1TR6(k, m) # None
           cleared == m = "DISC" /\ k.st \in {1, 2, 3, 4, 6, 7, 8, 10}
           ack == m = "REL_ACK" /\ k.st \notin {0, 19, 99}
           stat == m \in {"SUSPENDED", "RESUMED"} /\ k.st \in {7, 8, 10, 11, 12, 19}
<1>1. CASE k.st = 99
  <2>1. r = k
    BY <1>1 DEF React1TR6, Onward1TR6, None
  <2> QED BY <2>1, ReadyItself
<1>2. CASE onward
  <2> DEFINE s == Onward1TR6(k, m)
  <2>1. k.st \in {1, 2, 3, 4, 7, 8} /\ s \in {Same, 2, 3, 4, 10}
    BY <1>2, Onward1TR6OK
  <2>2. r = Progress(d, ok, s)
    <3>1. k.st \notin {0, 99} /\ ~cleared /\ ~ack /\ ~stat
      BY <1>2, <2>1 DEF Onward1TR6, None
    <3> QED BY <1>2, <3>1 DEF React1TR6
  <2> HIDE DEF s
  <2>3. d.ex /\ d.prot = k.prot
    BY DEF Carries
  <2>4. d.st = k.st \/ d.st \in {7, 8}
    BY DEF Carries
  <2>5. d.st \notin {0, 10}
    BY <2>1, <2>4
  <2>6. Sound(Progress(d, ok, s)) /\ Progress(d, ok, s).prot = d.prot /\ Progress(d, ok, s).ex
    BY <2>1, <2>3, <2>5, ProgressSound
  <2>7. k.st \notin Ending
    BY <2>1 DEF Ending
  <2> QED BY <2>2, <2>3, <2>6, <2>7, ReadyFree
<1>3. CASE k.st # 99 /\ ~onward /\ cleared
  <2>1. r = Cleared1TR6(x)
    BY <1>3 DEF React1TR6
  <2>2. Ready(x, Cleared1TR6(x)) /\ Cleared1TR6(x).st \in Ending
    BY Cleared1TR6OK
  <2> QED BY <2>1, <2>2 DEF Ready, Stays
<1>4. CASE k.st # 99 /\ ~onward /\ ack
  <2>1. r = ReleaseAck1TR6(k, x)
    BY <1>4 DEF React1TR6
  <2>2. r \in {Terminated(Release1TR6(x)), Release1TR6(k)}
    BY <2>1 DEF ReleaseAck1TR6
  <2>3. /\ Sound(Release1TR6(x)) /\ Release1TR6(x).ex /\ Release1TR6(x).prot = k.prot
        /\ Release1TR6(x).st \in Ending
    BY Release1TR6OK DEF Ending
  <2>4. Ready(k, Release1TR6(x)) /\ Ready(k, Release1TR6(k))
    BY <2>3, ReadyEnd, Release1TR6OK
  <2> QED BY <2>2, <2>4, EndReady
<1>5. CASE k.st # 99 /\ ~onward /\ stat
  <2>1. r = Stat1TR6(k, m)
    BY <1>5 DEF React1TR6
  <2>2. \E est : r \in {k, SetupHeld(k, est)}
    BY <2>1 DEF Stat1TR6
  <2>3. PICK est : r \in {k, SetupHeld(k, est)}
    BY <2>2
  <2>4. Ready(k, SetupHeld(k, est))
    BY HeldSound, FollowsCarries, ReadyCarries
  <2> QED BY <2>3, <2>4, ReadyItself
<1>6. CASE k.st # 99 /\ ~onward /\ ~cleared /\ ~ack /\ ~stat
  <2>1. r = InState1TR6(k, m)
    BY <1>6 DEF React1TR6
  <2> QED BY <1>6, <2>1, InState1TR6OK
<1> QED BY <1>1, <1>2, <1>3, <1>4, <1>5, <1>6

LEMMA Recv1TR6New ==
  ASSUME NEW k, Sound(k), k.ex, k.prot = "1TR6", k.st = 0, ~k.pending, NEW m, NEW chan,
         NEW ok,
         NEW immed
  PROVE  /\ Good(Recv1TR6(k, m, chan, ok, immed))
         /\ Recv1TR6(k, m, chan, ok, immed).prot = k.prot
<1> DEFINE n == SetState(k, 6)
           d == ChanID(IF k.st = 0 /\ m \in {"SETUP", "SETUP_BAD"} THEN n ELSE k, chan)
           r == NullState1TR6(k, d, m, ok, immed)
<1>1. Recv1TR6(k, m, chan, ok, immed) = CheckTerm(r, FALSE)
  <2> DEFINE over == IF k.st = 10 /\ m = "DISC" THEN SetState(k, 12) ELSE k
             x == Setup(over, "DISCONNECT")
  <2>1. Recv1TR6(k, m, chan, ok, immed) = CheckTerm(React1TR6(k, d, x, m, ok, immed), FALSE)
    BY DEF Recv1TR6
  <2> HIDE DEF d, x
  <2>2. React1TR6(k, d, x, m, ok, immed) = r
    BY DEF React1TR6, Onward1TR6, None
  <2> QED BY <2>1, <2>2
<1>2. m \in {"SETUP", "SETUP_BAD"} => Sound(d) /\ d.ex /\ d.prot = k.prot /\ d.st = 6
  <2> SUFFICES ASSUME m \in {"SETUP", "SETUP_BAD"}
               PROVE  Sound(d) /\ d.ex /\ d.prot = k.prot /\ d.st = 6
    OBVIOUS
  <2>1. Sound(n) /\ n.st = 6 /\ n.prot = k.prot /\ n.ex /\ ~n.pending
    BY NewCallOK
  <2>2. d = ChanID(n, chan)
    OBVIOUS
  <2> HIDE DEF n, d
  <2>3. /\ Sound(ChanID(n, chan)) /\ ChanID(n, chan).ex /\ ChanID(n, chan).prot = n.prot
        /\ ChanID(n, chan).st = n.st
    BY <2>1, ChanPending
  <2> QED BY <2>1, <2>2, <2>3
<1> HIDE DEF d
<1>3. Sound(r) /\ r.ex /\ r.prot = k.prot
  BY <1>2, NullState1TR6OK
<1> HIDE DEF r
<1>4. Good(CheckTerm(r, FALSE)) /\ Stays(r, CheckTerm(r, FALSE))
  BY <1>3, CheckTermGood
<1> QED BY <1>1, <1>3, <1>4 DEF Stays

LEMMA Recv1TR6Done ==
  ASSUME NEW k, Sound(k), k.ex, k.prot = "1TR6", k.st # 0, NEW m, NEW chan, NEW ok,
         NEW immed
  PROVE  Done(k, Recv1TR6(k, m, chan, ok, immed))
<1> DEFINE over == IF k.st = 10 /\ m = "DISC" THEN SetState(k, 12) ELSE k
           d == ChanID(k, chan)
           x == Setup(over, "DISCONNECT")
           r == React1TR6(k, d, x, m, ok, immed)
<1>1. Sound(d) /\ Carries(k, d)
  BY ChanSound
<1>2. Sound(x) /\ x.ex /\ x.prot = "1TR6" /\ x.st # 0
  <2>1. 12 \in States \ {0, 6, 19, 99}
    BY DEF States
  <2>2. /\ Sound(SetState(k, 12)) /\ SetState(k, 12).prot = k.prot /\ SetState(k, 12).ex
        /\ SetState(k, 12).st = 12
    BY <2>1, MoveTo
  <2>3. Sound(over) /\ over.prot = k.prot /\ over.ex /\ over.st # 0
    BY <2>2
  <2> HIDE DEF over
  <2>4. Sound(x) /\ Settles(over, x)
    BY <2>3, SetupDiscSound
  <2> HIDE DEF x
  <2> QED BY <2>3, <2>4 DEF Settles
<1>3. Recv1TR6(k, m, chan, ok, immed) = CheckTerm(r, FALSE)
  BY DEF Recv1TR6
<1> HIDE DEF d, x
<1>4. Ready(k, r)
  BY <1>1, <1>2, React1TR6OK
<1> HIDE DEF r
<1> QED BY <1>3, <1>4, ReadyDone

(* Its timers. *)

LEMMA HeardUntimed ==
  ASSUME NEW k, Sound(k), NEW T \in SUBSET Timers
  PROVE  Heard(Untimer(k, T))
<1> DEFINE u == Untimer(k, T)
<1>1. Moves(k, u) /\ u.st = k.st /\ u.told = k.told
  BY UntimerOK, SoundIs
<1>2. Heard(k)
  BY SoundIs
<1> HIDE DEF u
<1>3. Heard(u)
  BY <1>1, <1>2 DEF Heard, Moves
<1> QED BY <1>3 DEF u

LEMMA AgainOK ==
  ASSUME NEW k, Sane(k), Loose(k), Heard(k), k.ex, k.st = 19, k.prot = "1TR6"
  PROVE  /\ Sound(Timer([SendRelease(k) EXCEPT !.rep = TRUE], {"T308"}))
         /\ Timer([SendRelease(k) EXCEPT !.rep = TRUE], {"T308"}).st = 19
         /\ Timer([SendRelease(k) EXCEPT !.rep = TRUE], {"T308"}).ex
         /\ Timer([SendRelease(k) EXCEPT !.rep = TRUE], {"T308"}).prot = "1TR6"
<1> DEFINE a == [k EXCEPT !.net = "released"]
           d == [a EXCEPT !.rep = TRUE]
           T == {"T308"}
           e == Timer(d, T)
<1>1. [SendRelease(k) EXCEPT !.rep = TRUE] = d
  BY DEF SendRelease
<1>2. k \in Connection /\ Fits(k) /\ ~k.dangling
  BY DEF Sane
<1>3. a \in Connection
  BY <1>2 DEF Connection
<1>4. /\ a.st = k.st /\ a.run = k.run /\ a.armed = k.armed /\ a.up = k.up /\ a.told = k.told
      /\ a.ex = k.ex /\ a.prot = k.prot /\ a.dangling = k.dangling /\ a.net = "released"
  BY <1>2 DEF Connection
<1>5. Fits(a)
  BY <1>2 DEF Connection, Fits
<1> HIDE DEF a
<1>6. d \in Connection
  BY <1>3 DEF Connection
<1>7. /\ d.st = a.st /\ d.run = a.run /\ d.armed = a.armed /\ d.up = a.up /\ d.told = a.told
      /\ d.ex = a.ex /\ d.prot = a.prot /\ d.dangling = a.dangling /\ d.net = a.net
  BY <1>3 DEF Connection
<1>8. Fits(d)
  BY <1>3, <1>5 DEF Connection, Fits
<1> HIDE DEF d
<1>9. T \in SUBSET Timers
  BY DEF Timers
<1>10. TimersOf(19) = T
  BY DEF TimersOf
<1> HIDE DEF T
<1>11. /\ e \in Connection /\ Fits(e) /\ Moves(d, e) /\ e.run = d.run \cup T
       /\ e.armed = (IF d.up THEN d.armed \cup (T \ d.run) ELSE d.armed)
       /\ e.st = d.st /\ e.told = d.told
  BY <1>6, <1>8, <1>9, TimerOK
<1> HIDE DEF e
<1>12. /\ e.st = 19 /\ e.ex /\ e.prot = "1TR6" /\ ~e.dangling /\ e.net = "released"
       /\ e.up = k.up /\ e.told = k.told
  BY <1>2, <1>4, <1>7, <1>11 DEF Moves
<1>13. k.run \subseteq T /\ k.armed \subseteq k.run /\ (k.up => k.run = k.armed)
  BY <1>10 DEF Loose
<1>14. e.run = k.run \cup T /\ e.armed = (IF k.up THEN k.armed \cup (T \ k.run) ELSE k.armed)
  BY <1>4, <1>7, <1>11
<1>15. Loose(e)
  BY <1>10, <1>12, <1>13, <1>14 DEF Loose
<1>16. Timed(e)
  BY <1>10, <1>12, <1>14, <1>15 DEF Timed
<1>17. Known(e)
  BY <1>12 DEF Known
<1>18. Heard(e)
  BY <1>12 DEF Heard, Ending
<1>19. Sound(e)
  BY <1>11, <1>12, <1>16, <1>17, <1>18 DEF Sound, Sane
<1> QED BY <1>1, <1>12, <1>19 DEF e, T

LEMMA Timeout1TR6OK ==
  ASSUME NEW k, Sane(k), Loose(k), Known(k), Heard(k), k.ex, k.prot = "1TR6",
         NEW t \in TimersOf(k.st), k.st \in States
  PROVE  /\ Ready(k, Timeout1TR6(k, t))
         /\ t = "T305" => Timeout1TR6(k, t).st # 0
<1> DEFINE r == Timeout1TR6(k, t)
<1>0. /\ 7 \in States \ {0, 6, 19, 99}
      /\ 0 \in States /\ 11 \in States /\ 19 \in States /\ 99 \in States
      /\ 0 \in Ending /\ 11 \in Ending /\ 19 \in Ending /\ 99 \in Ending
  BY DEF States, Ending
<1>1. CASE t = "T303"
  <2> DEFINE a == SetState(SendRelease(k), 11)
             b == Setup(a, "DISCONNECT")
  <2>1. k.st = 1
    BY <1>1 DEF TimersOf, States
  <2>2. SendDisc(k, 0) = a
    BY <2>1 DEF SendDisc, DiscState1TR6
  <2>3. Sound(a) /\ a.st = 11 /\ a.prot = k.prot /\ a.ex
    BY <1>0, <2>1, ReleaseTo
  <2>4. r = Terminated(b)
    BY <1>1, <2>2 DEF Timeout1TR6
  <2> HIDE DEF a, r
  <2>5. Sound(b) /\ Settles(a, b)
    BY <2>3, SetupDiscSound
  <2> HIDE DEF b
  <2>6. b.st = 11 /\ b.ex /\ b.prot = k.prot
    BY <2>3, <2>5 DEF Settles
  <2>7. Ready(k, b)
    BY <1>0, <2>5, <2>6, ReadyEnd
  <2>8. Ready(k, Terminated(b))
    BY <2>7, EndReady
  <2> QED BY <1>1, <2>4, <2>8 DEF r
<1>2. CASE t \in {"T304", "T310", "T313"}
  <2>1. k.st # 11
    BY <1>2 DEF TimersOf, States
  <2>2. r = SetState(SendRelease(k), 11)
    BY <1>2 DEF Timeout1TR6
  <2>3. /\ Sound(SetState(SendRelease(k), 11)) /\ SetState(SendRelease(k), 11).prot = k.prot
        /\ SetState(SendRelease(k), 11).ex /\ SetState(SendRelease(k), 11).st = 11
    BY <1>0, <2>1, ReleaseTo
  <2> QED BY <1>0, <1>2, <2>2, <2>3, ReadyEnd
<1>3. CASE t = "T305"
  <2>1. k.st # 19
    BY <1>3 DEF TimersOf, States
  <2>2. r = SetState(SendRelease(k), 19)
    BY <1>3 DEF Timeout1TR6, Release1TR6
  <2>3. /\ Sound(SetState(SendRelease(k), 19)) /\ SetState(SendRelease(k), 19).prot = k.prot
        /\ SetState(SendRelease(k), 19).ex /\ SetState(SendRelease(k), 19).st = 19
    BY <1>0, <2>1, ReleaseTo
  <2> QED BY <1>0, <2>2, <2>3, ReadyEnd
<1>4. CASE t = "T308"
  <2>1. k.st = 19
    BY <1>4 DEF TimersOf, States
  <2>2. CASE k.rep
    <3>1. r = SetState(k, 99)
      BY <1>4, <2>2 DEF Timeout1TR6
    <3>2. k.net # "known"
      BY <2>1 DEF Known
    <3>3. /\ Sound(SetState(k, 99)) /\ SetState(k, 99).prot = k.prot /\ SetState(k, 99).ex
          /\ SetState(k, 99).st = 99
      BY <1>0, <2>1, <3>2, GoSound
    <3> QED BY <1>0, <1>4, <3>1, <3>3, ReadyEnd
  <2>3. CASE ~k.rep
    <3> DEFINE e == Timer([SendRelease(k) EXCEPT !.rep = TRUE], {"T308"})
    <3>1. r = e
      BY <1>4, <2>3 DEF Timeout1TR6
    <3>2. Sound(e) /\ e.st = 19 /\ e.ex /\ e.prot = "1TR6"
      BY <2>1, AgainOK
    <3> HIDE DEF e, r
    <3>3. Ready(k, e)
      BY <1>0, <3>2, ReadyEnd
    <3> QED BY <1>4, <3>1, <3>3 DEF r
  <2> QED BY <2>2, <2>3
<1>5. CASE t = "TCONN"
  <2>1. k.st \in {6, 7}
    BY <1>5 DEF TimersOf, States
  <2>2. CASE k.st = 7
    <3>1. r = SetState(SendRelease(k), 19)
      BY <1>5, <2>2 DEF Timeout1TR6, SendDisc, DiscState1TR6
    <3>2. /\ Sound(SetState(SendRelease(k), 19)) /\ SetState(SendRelease(k), 19).prot = k.prot
          /\ SetState(SendRelease(k), 19).ex /\ SetState(SendRelease(k), 19).st = 19
      BY <1>0, <2>2, ReleaseTo
    <3> QED BY <1>0, <1>5, <3>1, <3>2, ReadyEnd
  <2>3. CASE k.st = 6
    <3>1. r = SetState(k, 99)
      BY <1>5, <2>3 DEF Timeout1TR6
    <3>2. k.net # "known"
      BY <2>3 DEF Known
    <3>3. /\ Sound(SetState(k, 99)) /\ SetState(k, 99).prot = k.prot /\ SetState(k, 99).ex
          /\ SetState(k, 99).st = 99
      BY <1>0, <2>3, <3>2, GoSound
    <3> QED BY <1>0, <1>5, <3>1, <3>3, ReadyEnd
  <2> QED BY <2>1, <2>2, <2>3
<1>6. CASE t = "TALERT"
  <2>1. k.st = 6 /\ k.st \notin Ending
    BY <1>6 DEF TimersOf, States, Ending
  <2>2. r = SetState(SendCall(k), 7)
    BY <1>6 DEF Timeout1TR6, Alert1TR6
  <2>3. /\ Sound(SetState(SendCall(k), 7)) /\ SetState(SendCall(k), 7).prot = k.prot
        /\ SetState(SendCall(k), 7).ex
    BY <1>0, <2>1, CallTo
  <2> QED BY <1>6, <2>1, <2>2, <2>3, ReadyFree
<1>7. CASE t = "TFOO"
  <2>1. k.st = 99
    BY <1>7 DEF TimersOf, States
  <2>2. r = SetState(k, 0)
    BY <1>7 DEF Timeout1TR6
  <2>3. k.net # "known"
    BY <2>1 DEF Known
  <2>4. /\ Sound(SetState(k, 0)) /\ SetState(k, 0).prot = k.prot /\ SetState(k, 0).ex
        /\ SetState(k, 0).st = 0
    BY <1>0, <2>1, <2>3, GoSound
  <2> QED BY <1>0, <1>7, <2>2, <2>4, ReadyEnd
<1>8. t \in Timers
  BY TimersOfOK
<1> QED BY <1>1, <1>2, <1>3, <1>4, <1>5, <1>6, <1>7, <1>8 DEF Timers

LEMMA Expire1TR6Done ==
  ASSUME NEW k, Sound(k), k.ex, k.prot = "1TR6", NEW t \in k.armed
  PROVE  Done(k, Expire1TR6(k, t))
<1> DEFINE u == Untimer(k, {t})
           r == Timeout1TR6(u, t)
<1>1. t \in TimersOf(k.st) /\ {t} \in SUBSET Timers /\ k.st \in States
  BY SoundIs, Fields DEF Loose
<1>2. Sane(u) /\ Loose(u) /\ Known(u) /\ Heard(u) /\ u.st = k.st /\ u.prot = k.prot /\ u.ex
  BY <1>1, UntimerSane, HeardUntimed
<1>3. Expire1TR6(k, t) = IF t = "T305" THEN r ELSE CheckTerm(r, FALSE)
  BY DEF Expire1TR6, Close1TR6
<1> HIDE DEF u
<1>4. Ready(u, r) /\ (t = "T305" => r.st # 0)
  BY <1>1, <1>2, Timeout1TR6OK
<1> HIDE DEF r
<1>5. Ready(k, r)
  BY <1>2, <1>4 DEF Ready, Stays
<1>6. Done(k, CheckTerm(r, FALSE))
  BY <1>5, ReadyDone
<1>7. t = "T305" => Done(k, r)
  BY <1>4, <1>5 DEF Ready, Done, Good, Alive
<1> QED BY <1>3, <1>6, <1>7

-----------------------------------------------------------------------------
(* The commands of layer 4. *)

LEMMA AlikeReady ==
  ASSUME NEW k, Sound(k), NEW d \in Connection, Fits(d), Alike(k, d)
  PROVE  /\ Sound(d) /\ Stays(k, d)
         /\ Alive(k) => Alive(d)
<1>1. Sound(d)
  BY AlikeSound
<1>2. Stays(k, d)
  BY DEF Alike, Stays
<1>3. Alive(k) => Alive(d)
  BY DEF Alike, Alive
<1> QED BY <1>1, <1>2, <1>3

LEMMA BoundOK ==
  ASSUME NEW k, Sound(k), NEW b \in BOOLEAN
  PROVE  /\ Sound(Bound(k, b)) /\ Stays(k, Bound(k, b))
         /\ Alive(k) => Alive(Bound(k, b))
         /\ Bound(k, b).ex = k.ex /\ Bound(k, b).st = k.st
         /\ Bound(k, b).minor = (k.minor \/ b)
         /\ Bound(k, b).pending = k.pending /\ Bound(k, b).prot = k.prot
<1> DEFINE x == k.minor \/ b
           y == k.mapped \/ k.minor \/ b
           d == [k EXCEPT !.minor = x, !.mapped = y]
<1>0. Bound(k, b) = d /\ x \in BOOLEAN /\ y \in BOOLEAN /\ (y => x \/ k.mapped)
  BY DEF Bound
<1> HIDE DEF x, y
<1>1. k \in Connection /\ Fits(k)
  BY SoundIs
<1>2. d \in Connection
  BY ZenonT(60), <1>0, <1>1 DEF Connection
<1>3. y => x
  BY <1>1 DEF x, y, Fits
<1>4. Fits(d)
  BY <1>0, <1>1, <1>3 DEF Connection, Fits
<1>5. Alike(k, d)
  BY <1>0, <1>1 DEF Connection, Alike
<1>6. d.st = k.st
  BY <1>0, <1>1 DEF Connection
<1>7. d.minor = (k.minor \/ b)
  BY <1>0, <1>1 DEF Connection, x
<1>8. d.pending = k.pending
  BY <1>0, <1>1 DEF Connection
<1>9. d.prot = k.prot
  BY <1>0, <1>1 DEF Connection
<1> HIDE DEF d
<1>10. Sound(d) /\ Stays(k, d) /\ (Alive(k) => Alive(d)) /\ d.ex = k.ex
  BY <1>2, <1>4, <1>5, AlikeReady DEF Alike
<1> QED BY <1>0, <1>6, <1>7, <1>8, <1>9, <1>10 DEF d, x

LEMMA UnwantOK ==
  ASSUME NEW k, Sound(k)
  PROVE  /\ Sound([k EXCEPT !.want = FALSE]) /\ Stays(k, [k EXCEPT !.want = FALSE])
         /\ Alive(k) => Alive([k EXCEPT !.want = FALSE])
         /\ [k EXCEPT !.want = FALSE].ex = k.ex
         /\ [k EXCEPT !.want = FALSE].st = k.st
         /\ [k EXCEPT !.want = FALSE].prot = k.prot
         /\ [k EXCEPT !.want = FALSE].net = k.net
         /\ [k EXCEPT !.want = FALSE].pending = k.pending
<1> DEFINE d == [k EXCEPT !.want = FALSE]
<1>1. k \in Connection /\ Fits(k)
  BY SoundIs
<1>2. d \in Connection
  BY <1>1 DEF Connection, Bound
<1>3. Fits(d)
  BY <1>1 DEF Connection, Fits, Bound
<1>4. Alike(k, d)
  BY <1>1 DEF Connection, Alike, Bound
<1>5. d.st = k.st
  BY <1>1 DEF Connection, Bound
<1>6. d.prot = k.prot
  BY <1>1 DEF Connection, Bound
<1>7. d.net = k.net
  BY <1>1 DEF Connection, Bound
<1>8. d.pending = k.pending
  BY <1>1 DEF Connection, Bound
<1> HIDE DEF d
<1>9. Sound(d) /\ Stays(k, d) /\ (Alive(k) => Alive(d)) /\ d.ex = k.ex
  BY <1>2, <1>3, <1>4, AlikeReady DEF Alike
<1> QED BY <1>5, <1>6, <1>7, <1>8, <1>9 DEF d

LEMMA UnboundOK ==
  ASSUME NEW k, Sound(k), NEW b \in BOOLEAN
  PROVE  /\ Sound([k EXCEPT !.nominor = @ \/ b, !.pending = FALSE])
         /\ Stays(k, [k EXCEPT !.nominor = @ \/ b, !.pending = FALSE])
         /\ Alive(k) => Alive([k EXCEPT !.nominor = @ \/ b, !.pending = FALSE])
         /\ [k EXCEPT !.nominor = @ \/ b, !.pending = FALSE].ex = k.ex
         /\ ~[k EXCEPT !.nominor = @ \/ b, !.pending = FALSE].pending
         /\ [k EXCEPT !.nominor = @ \/ b, !.pending = FALSE].st = k.st
         /\ [k EXCEPT !.nominor = @ \/ b, !.pending = FALSE].prot = k.prot
<1> DEFINE d == [k EXCEPT !.nominor = @ \/ b, !.pending = FALSE]
<1>1. k \in Connection /\ Fits(k)
  BY SoundIs
<1>2. d \in Connection
  BY ZenonT(60), <1>1 DEF Connection, Bound
<1>3. Fits(d)
  BY <1>1 DEF Connection, Fits, Bound
<1>4. Alike(k, d)
  BY <1>1 DEF Connection, Alike, Bound
<1>5. ~d.pending
  BY <1>1 DEF Connection, Bound
<1>6. d.st = k.st
  BY <1>1 DEF Connection, Bound
<1>7. d.prot = k.prot
  BY <1>1 DEF Connection, Bound
<1> HIDE DEF d
<1>8. Sound(d) /\ Stays(k, d) /\ (Alive(k) => Alive(d)) /\ d.ex = k.ex
  BY <1>2, <1>3, <1>4, AlikeReady DEF Alike
<1> QED BY <1>5, <1>6, <1>7, <1>8 DEF d

LEMMA StandsOK ==
  ASSUME NEW k, Sound(k), k.protosent, NEW b \in BOOLEAN
  PROVE  /\ Sound([k EXCEPT !.proto = TRUE, !.hup = b])
         /\ Stays(k, [k EXCEPT !.proto = TRUE, !.hup = b])
         /\ Alive(k) => Alive([k EXCEPT !.proto = TRUE, !.hup = b])
         /\ [k EXCEPT !.proto = TRUE, !.hup = b].ex = k.ex
         /\ [k EXCEPT !.proto = TRUE, !.hup = b].prot = k.prot
<1> DEFINE d == [k EXCEPT !.proto = TRUE, !.hup = b]
<1>1. k \in Connection /\ Fits(k)
  BY SoundIs
<1>2. d \in Connection
  BY ZenonT(60), <1>1 DEF Connection, Bound
<1>3. Fits(d)
  BY <1>1 DEF Connection, Fits, Bound
<1>4. Alike(k, d)
  BY <1>1 DEF Connection, Alike, Bound
<1>5. d.prot = k.prot
  BY <1>1 DEF Connection, Bound
<1> HIDE DEF d
<1>6. Sound(d) /\ Stays(k, d) /\ (Alive(k) => Alive(d)) /\ d.ex = k.ex
  BY <1>2, <1>3, <1>4, AlikeReady DEF Alike
<1> QED BY <1>5, <1>6 DEF d

LEMMA NoProtOK ==
  ASSUME NEW k, Sound(k)
  PROVE  /\ Sound([k EXCEPT !.setup = 0, !.detached = TRUE, !.att = 0])
         /\ Stays(k, [k EXCEPT !.setup = 0, !.detached = TRUE, !.att = 0])
         /\ Alive(k) => Alive([k EXCEPT !.setup = 0, !.detached = TRUE, !.att = 0])
         /\ [k EXCEPT !.setup = 0, !.detached = TRUE, !.att = 0].ex = k.ex
         /\ [k EXCEPT !.setup = 0, !.detached = TRUE, !.att = 0].prot = k.prot
<1> DEFINE d == [k EXCEPT !.setup = 0, !.detached = TRUE, !.att = 0]
<1>1. k \in Connection /\ Fits(k)
  BY SoundIs
<1>2. d \in Connection
  BY <1>1, Values DEF Connection, Bound
<1>3. Fits(d)
  BY <1>1 DEF Connection, Fits, Bound
<1>4. Alike(k, d)
  BY <1>1 DEF Connection, Alike, Bound
<1>5. d.prot = k.prot
  BY <1>1 DEF Connection, Bound
<1> HIDE DEF d
<1>6. Sound(d) /\ Stays(k, d) /\ (Alive(k) => Alive(d)) /\ d.ex = k.ex
  BY <1>2, <1>3, <1>4, AlikeReady DEF Alike
<1> QED BY <1>5, <1>6 DEF d

LEMMA UnsentOK ==
  ASSUME NEW k, Sound(k)
  PROVE  /\ Sound([k EXCEPT !.sent = 0]) /\ Stays(k, [k EXCEPT !.sent = 0])
         /\ Alive(k) => Alive([k EXCEPT !.sent = 0])
         /\ [k EXCEPT !.sent = 0].ex = k.ex /\ [k EXCEPT !.sent = 0].prot = k.prot
<1> DEFINE d == [k EXCEPT !.sent = 0]
<1>1. k \in Connection /\ Fits(k)
  BY SoundIs
<1>2. d \in Connection
  BY <1>1, Values DEF Connection, Bound
<1>3. Fits(d)
  BY <1>1 DEF Connection, Fits, Bound
<1>4. Alike(k, d)
  BY <1>1 DEF Connection, Alike, Bound
<1>5. d.prot = k.prot
  BY <1>1 DEF Connection, Bound
<1> HIDE DEF d
<1>6. Sound(d) /\ Stays(k, d) /\ (Alive(k) => Alive(d)) /\ d.ex = k.ex
  BY <1>2, <1>3, <1>4, AlikeReady DEF Alike
<1> QED BY <1>5, <1>6 DEF d

LEMMA FakeOK ==
  ASSUME NEW k, Sound(k)
  PROVE  /\ Sound([k EXCEPT !.open = "will", !.mapped = FALSE])
         /\ Stays(k, [k EXCEPT !.open = "will", !.mapped = FALSE])
         /\ Alive(k) => Alive([k EXCEPT !.open = "will", !.mapped = FALSE])
         /\ [k EXCEPT !.open = "will", !.mapped = FALSE].ex = k.ex
         /\ [k EXCEPT !.open = "will", !.mapped = FALSE].prot = k.prot
         /\ [k EXCEPT !.open = "will", !.mapped = FALSE].st = k.st
         /\ [k EXCEPT !.open = "will", !.mapped = FALSE].tconn = k.tconn
         /\ [k EXCEPT !.open = "will", !.mapped = FALSE].tdelay = k.tdelay
<1> DEFINE d == [k EXCEPT !.open = "will", !.mapped = FALSE]
<1>1. k \in Connection /\ Fits(k)
  BY SoundIs
<1>2. d \in Connection
  BY ZenonT(60), <1>1 DEF Connection, Bound
<1>3. Fits(d)
  BY <1>1 DEF Connection, Fits, Bound
<1>4. Alike(k, d)
  BY <1>1 DEF Connection, Alike, Bound
<1>5. d.prot = k.prot
  BY <1>1 DEF Connection, Bound
<1>6. d.st = k.st
  BY <1>1 DEF Connection, Bound
<1>7. d.tconn = k.tconn
  BY <1>1 DEF Connection, Bound
<1>8. d.tdelay = k.tdelay
  BY <1>1 DEF Connection, Bound
<1> HIDE DEF d
<1>9. Sound(d) /\ Stays(k, d) /\ (Alive(k) => Alive(d)) /\ d.ex = k.ex
  BY <1>2, <1>3, <1>4, AlikeReady DEF Alike
<1> QED BY <1>5, <1>6, <1>7, <1>8, <1>9 DEF d

LEMMA OpenOK ==
  ASSUME NEW k, Sound(k)
  PROVE  /\ Sound([k EXCEPT !.open = "open"])
         /\ Stays(k, [k EXCEPT !.open = "open"])
         /\ Alive(k) => Alive([k EXCEPT !.open = "open"])
         /\ [k EXCEPT !.open = "open"].ex = k.ex
         /\ [k EXCEPT !.open = "open"].prot = k.prot
         /\ [k EXCEPT !.open = "open"].st = k.st
         /\ [k EXCEPT !.open = "open"].tconn = k.tconn
         /\ [k EXCEPT !.open = "open"].tdelay = k.tdelay
<1> DEFINE d == [k EXCEPT !.open = "open"]
<1>1. k \in Connection /\ Fits(k)
  BY SoundIs
<1>2. d \in Connection
  BY <1>1 DEF Connection, Bound
<1>3. Fits(d)
  BY <1>1 DEF Connection, Fits, Bound
<1>4. Alike(k, d)
  BY <1>1 DEF Connection, Alike, Bound
<1>5. d.prot = k.prot
  BY <1>1 DEF Connection, Bound
<1>6. d.st = k.st
  BY <1>1 DEF Connection, Bound
<1>7. d.tconn = k.tconn
  BY <1>1 DEF Connection, Bound
<1>8. d.tdelay = k.tdelay
  BY <1>1 DEF Connection, Bound
<1> HIDE DEF d
<1>9. Sound(d) /\ Stays(k, d) /\ (Alive(k) => Alive(d)) /\ d.ex = k.ex
  BY <1>2, <1>3, <1>4, AlikeReady DEF Alike
<1> QED BY <1>5, <1>6, <1>7, <1>8, <1>9 DEF d

LEMMA CloseOK ==
  ASSUME NEW k, Sound(k)
  PROVE  /\ Sound([k EXCEPT !.open = "no", !.sent = 0, !.att = 0])
         /\ Stays(k, [k EXCEPT !.open = "no", !.sent = 0, !.att = 0])
         /\ Alive(k) => Alive([k EXCEPT !.open = "no", !.sent = 0, !.att = 0])
         /\ [k EXCEPT !.open = "no", !.sent = 0, !.att = 0].ex = k.ex
         /\ [k EXCEPT !.open = "no", !.sent = 0, !.att = 0].prot = k.prot
         /\ [k EXCEPT !.open = "no", !.sent = 0, !.att = 0].st = k.st
         /\ [k EXCEPT !.open = "no", !.sent = 0, !.att = 0].tconn = k.tconn
         /\ [k EXCEPT !.open = "no", !.sent = 0, !.att = 0].tdelay = k.tdelay
<1> DEFINE d == [k EXCEPT !.open = "no", !.sent = 0, !.att = 0]
<1>1. k \in Connection /\ Fits(k)
  BY SoundIs
<1>2. d \in Connection
  BY <1>1, Values DEF Connection, Bound
<1>3. Fits(d)
  BY <1>1 DEF Connection, Fits, Bound
<1>4. Alike(k, d)
  BY <1>1 DEF Connection, Alike, Bound
<1>5. d.prot = k.prot
  BY <1>1 DEF Connection, Bound
<1>6. d.st = k.st
  BY <1>1 DEF Connection, Bound
<1>7. d.tconn = k.tconn
  BY <1>1 DEF Connection, Bound
<1>8. d.tdelay = k.tdelay
  BY <1>1 DEF Connection, Bound
<1> HIDE DEF d
<1>9. Sound(d) /\ Stays(k, d) /\ (Alive(k) => Alive(d)) /\ d.ex = k.ex
  BY <1>2, <1>3, <1>4, AlikeReady DEF Alike
<1> QED BY <1>5, <1>6, <1>7, <1>8, <1>9 DEF d

LEMMA UnattachOK ==
  ASSUME NEW k, Sound(k)
  PROVE  /\ Sound([k EXCEPT !.att = 0]) /\ Stays(k, [k EXCEPT !.att = 0])
         /\ Alive(k) => Alive([k EXCEPT !.att = 0])
         /\ [k EXCEPT !.att = 0].ex = k.ex /\ [k EXCEPT !.att = 0].prot = k.prot
<1> DEFINE d == [k EXCEPT !.att = 0]
<1>1. k \in Connection /\ Fits(k)
  BY SoundIs
<1>2. d \in Connection
  BY <1>1, Values DEF Connection, Bound
<1>3. Fits(d)
  BY <1>1 DEF Connection, Fits, Bound
<1>4. Alike(k, d)
  BY <1>1 DEF Connection, Alike, Bound
<1>5. d.prot = k.prot
  BY <1>1 DEF Connection, Bound
<1> HIDE DEF d
<1>6. Sound(d) /\ Stays(k, d) /\ (Alive(k) => Alive(d)) /\ d.ex = k.ex
  BY <1>2, <1>3, <1>4, AlikeReady DEF Alike
<1> QED BY <1>5, <1>6 DEF d

LEMMA UnconnOK ==
  ASSUME NEW k, Sound(k)
  PROVE  /\ Sound([k EXCEPT !.tconn = FALSE])
         /\ Stays(k, [k EXCEPT !.tconn = FALSE])
         /\ Alive(k) => Alive([k EXCEPT !.tconn = FALSE])
         /\ [k EXCEPT !.tconn = FALSE].ex = k.ex
         /\ [k EXCEPT !.tconn = FALSE].prot = k.prot
<1> DEFINE d == [k EXCEPT !.tconn = FALSE]
<1>1. k \in Connection /\ Fits(k)
  BY SoundIs
<1>2. d \in Connection
  BY <1>1 DEF Connection, Bound
<1>3. Fits(d)
  BY <1>1 DEF Connection, Fits, Bound
<1>4. Alike(k, d)
  BY <1>1 DEF Connection, Alike, Bound
<1>5. d.prot = k.prot
  BY <1>1 DEF Connection, Bound
<1> HIDE DEF d
<1>6. Sound(d) /\ Stays(k, d) /\ (Alive(k) => Alive(d)) /\ d.ex = k.ex
  BY <1>2, <1>3, <1>4, AlikeReady DEF Alike
<1> QED BY <1>5, <1>6 DEF d

LEMMA UndelayOK ==
  ASSUME NEW k, Sound(k)
  PROVE  /\ Sound([k EXCEPT !.tdelay = FALSE])
         /\ Stays(k, [k EXCEPT !.tdelay = FALSE])
         /\ Alive(k) => Alive([k EXCEPT !.tdelay = FALSE])
         /\ [k EXCEPT !.tdelay = FALSE].ex = k.ex
         /\ [k EXCEPT !.tdelay = FALSE].prot = k.prot
<1> DEFINE d == [k EXCEPT !.tdelay = FALSE]
<1>1. k \in Connection /\ Fits(k)
  BY SoundIs
<1>2. d \in Connection
  BY <1>1 DEF Connection, Bound
<1>3. Fits(d)
  BY <1>1 DEF Connection, Fits, Bound
<1>4. Alike(k, d)
  BY <1>1 DEF Connection, Alike, Bound
<1>5. d.prot = k.prot
  BY <1>1 DEF Connection, Bound
<1> HIDE DEF d
<1>6. Sound(d) /\ Stays(k, d) /\ (Alive(k) => Alive(d)) /\ d.ex = k.ex
  BY <1>2, <1>3, <1>4, AlikeReady DEF Alike
<1> QED BY <1>5, <1>6 DEF d

LEMMA UntendOK ==
  ASSUME NEW k, Sound(k)
  PROVE  /\ Sound([k EXCEPT !.tend = FALSE]) /\ [k EXCEPT !.tend = FALSE].ex = k.ex
         /\ [k EXCEPT !.tend = FALSE].prot = k.prot
         /\ [k EXCEPT !.tend = FALSE].st = k.st
<1> DEFINE d == [k EXCEPT !.tend = FALSE]
<1>1. k \in Connection /\ Fits(k) /\ Timed(k) /\ Known(k) /\ Heard(k) /\ Sane(k)
  BY SoundIs
<1>2. d \in Connection
  BY <1>1 DEF Connection
<1>3. Fits(d)
  BY <1>1 DEF Connection, Fits
<1>4. /\ d.prot = k.prot /\ d.ex = k.ex /\ d.st = k.st /\ d.run = k.run /\ d.armed = k.armed
      /\ d.up = k.up /\ d.told = k.told /\ d.net = k.net /\ d.dangling = k.dangling
  BY <1>1 DEF Connection
<1> HIDE DEF d
<1>5. Sane(d)
  BY <1>1, <1>2, <1>3, <1>4 DEF Sane
<1>6. Timed(d)
  BY <1>1, <1>4 DEF Timed, Loose
<1>7. Known(d) /\ Heard(d)
  BY <1>1, <1>4 DEF Known, Heard
<1> QED BY <1>4, <1>5, <1>6, <1>7 DEF Sound, d

(* The link goes down, and comes up again. *)
LEMMA DownOK ==
  ASSUME NEW k, Sound(k)
  PROVE  /\ Sound([k EXCEPT !.up = FALSE]) /\ [k EXCEPT !.up = FALSE].ex = k.ex
         /\ [k EXCEPT !.up = FALSE].prot = k.prot
         /\ [k EXCEPT !.up = FALSE].st = k.st
         /\ [k EXCEPT !.up = FALSE].tend = k.tend
         /\ [k EXCEPT !.up = FALSE].tconn = k.tconn
         /\ [k EXCEPT !.up = FALSE].tdelay = k.tdelay
<1> DEFINE d == [k EXCEPT !.up = FALSE]
<1>1. k \in Connection /\ Fits(k) /\ Timed(k) /\ Known(k) /\ Heard(k) /\ Sane(k)
  BY SoundIs
<1>2. d \in Connection
  BY <1>1 DEF Connection
<1>3. Fits(d)
  BY <1>1 DEF Connection, Fits
<1>4. /\ d.prot = k.prot /\ d.ex = k.ex /\ d.st = k.st /\ d.run = k.run /\ d.armed = k.armed
      /\ ~d.up /\ d.told = k.told /\ d.net = k.net /\ d.dangling = k.dangling
      /\ d.tend = k.tend /\ d.tconn = k.tconn /\ d.tdelay = k.tdelay
  BY <1>1 DEF Connection
<1> HIDE DEF d
<1>5. Sane(d)
  BY <1>1, <1>2, <1>3, <1>4 DEF Sane
<1>6. Timed(d)
  BY <1>1, <1>4 DEF Timed, Loose
<1>7. Known(d) /\ Heard(d)
  BY <1>1, <1>4 DEF Known, Heard
<1> QED BY <1>4, <1>5, <1>6, <1>7 DEF Sound, d

LEMMA DownGood ==
  ASSUME NEW k, Good(k)
  PROVE  /\ Good([k EXCEPT !.up = FALSE]) /\ Stays(k, [k EXCEPT !.up = FALSE])
<1> DEFINE d == [k EXCEPT !.up = FALSE]
<1>1. Sound(k)
  BY DEF Good
<1>2. /\ Sound(d) /\ d.ex = k.ex /\ d.prot = k.prot /\ d.st = k.st /\ d.tend = k.tend
      /\ d.tconn = k.tconn /\ d.tdelay = k.tdelay
  BY <1>1, DownOK
<1> HIDE DEF d
<1>3. Good(d)
  BY <1>2 DEF Good, Alive
<1>4. Stays(k, d)
  BY <1>2 DEF Stays
<1> QED BY <1>3, <1>4 DEF d

LEMMA UpOK ==
  ASSUME NEW k, Sane(k), Known(k), Heard(k), Alive(k), k.run = k.armed, Timed(k)
  PROVE  /\ Sound([k EXCEPT !.up = TRUE]) /\ Alive([k EXCEPT !.up = TRUE])
         /\ [k EXCEPT !.up = TRUE].ex = k.ex
         /\ [k EXCEPT !.up = TRUE].prot = k.prot
         /\ [k EXCEPT !.up = TRUE].st = k.st
         /\ [k EXCEPT !.up = TRUE].tconn = k.tconn
         /\ [k EXCEPT !.up = TRUE].tdelay = k.tdelay
<1> DEFINE d == [k EXCEPT !.up = TRUE]
<1>1. k \in Connection /\ Fits(k)
  BY DEF Sane
<1>2. d \in Connection
  BY <1>1 DEF Connection
<1>3. Fits(d)
  BY <1>1 DEF Connection, Fits
<1>4. /\ d.prot = k.prot /\ d.ex = k.ex /\ d.st = k.st /\ d.run = k.run /\ d.armed = k.armed
      /\ d.told = k.told /\ d.net = k.net /\ d.dangling = k.dangling
      /\ d.tend = k.tend /\ d.tconn = k.tconn /\ d.tdelay = k.tdelay
  BY <1>1 DEF Connection
<1> HIDE DEF d
<1>5. Sane(d)
  BY <1>2, <1>3, <1>4 DEF Sane
<1>6. Timed(d)
  BY <1>4 DEF Timed, Loose
<1>7. Known(d)
  BY <1>4 DEF Known
<1>8. Heard(d)
  BY <1>4 DEF Heard
<1>9. Alive(d)
  BY <1>4 DEF Alive
<1> QED BY <1>4, <1>5, <1>6, <1>7, <1>8, <1>9 DEF Sound, d

LEMMA UpGood ==
  ASSUME NEW k, Good(k), k.up \/ k.st = 0
  PROVE  /\ Good([k EXCEPT !.up = TRUE]) /\ Stays(k, [k EXCEPT !.up = TRUE])
<1> DEFINE d == [k EXCEPT !.up = TRUE]
<1>1. Sound(k) /\ Alive(k) /\ (~k.ex => k.st = 0 /\ ~k.tconn /\ ~k.tdelay)
  BY DEF Good
<1>2. Sane(k) /\ Known(k) /\ Heard(k) /\ Timed(k) /\ Loose(k)
  BY <1>1, SoundIs
<1>3. k.run = k.armed
  <2>1. CASE k.up
    BY <1>2, <2>1 DEF Loose
  <2>2. CASE k.st = 0
    <3>1. TimersOf(0) = {}
      BY DEF TimersOf
    <3> QED BY <1>2, <2>2, <3>1 DEF Loose
  <2> QED BY <2>1, <2>2
<1>4. /\ Sound(d) /\ Alive(d) /\ d.ex = k.ex /\ d.prot = k.prot /\ d.st = k.st
      /\ d.tconn = k.tconn /\ d.tdelay = k.tdelay
  BY <1>1, <1>2, <1>3, UpOK
<1> HIDE DEF d
<1>5. Good(d)
  BY <1>1, <1>4 DEF Good
<1>6. Stays(k, d)
  BY <1>4 DEF Stays
<1> QED BY <1>5, <1>6 DEF d

LEMMA KeptUp ==
  ASSUME NEW k, Sound(k), k.st = 0, k.tend
  PROVE  CheckTerm(k, FALSE).up = k.up
<1> DEFINE t == Terminated(k)
           Was(e) == [StopWatch(e) EXCEPT !.pending = @ /\ 1 = 0]
<1>1. CheckTerm(k, FALSE) \in {k, KillConn(k, 1, FALSE), KillConn(t, 1, FALSE)}
  BY DEF CheckTerm
<1>2. Sound(t) /\ t.tend /\ t.up = k.up
  <2>1. k \in Connection
    BY SoundIs
  <2>2. t.tend /\ t.up = k.up
    BY <2>1 DEF Terminated, Connection
  <2> QED BY <2>2, EndSound
<1> HIDE DEF t
<1>3. ASSUME NEW e, Sound(e), e.tend
      PROVE  KillConn(e, 1, FALSE).up = e.up
  <2> DEFINE a == Was(e)
  <2>1. KillConn(e, 1, FALSE) = Kill(a, 1, FALSE)
    BY DEF KillConn
  <2>2. Sound(a) /\ Settles(e, a)
    BY <1>3, KillStart
  <2> HIDE DEF a
  <2>3. a \in Connection /\ a.tend /\ a.up = e.up
    BY <1>3, <2>2, SoundIs DEF Settles
  <2>4. Kill(a, 1, FALSE) = [a EXCEPT !.delaying = TRUE]
    BY <2>3 DEF Kill
  <2>5. [a EXCEPT !.delaying = TRUE].up = a.up
    BY <2>3 DEF Connection
  <2> QED BY <2>1, <2>3, <2>4, <2>5
<1>4. KillConn(t, 1, FALSE).up = t.up /\ KillConn(k, 1, FALSE).up = k.up
  BY <1>2, <1>3
<1> QED BY <1>1, <1>2, <1>4

LEMMA DialETSGood ==
  ASSUME NEW k, Sound(k), k.ex, k.st = 0, k.minor, ~k.pending
  PROVE  Good(DialETS(k))
<1> DEFINE w == [k EXCEPT !.want = TRUE]
           d == SetupHeld(w, "SETUP")
<1>1. Sound(w) /\ w.ex /\ w.st = 0 /\ w.minor /\ ~w.pending
  BY WantSound, SoundIs DEF Connection
<1>2. DialETS(k) = CallOutETS(d)
  BY DEF DialETS
<1> HIDE DEF w
<1>3. Sound(d) /\ Settles(w, d)
  BY <1>1, HeldPlain
<1> HIDE DEF d
<1>4. Sound(d) /\ d.st = 0 /\ d.minor /\ d.ex
  BY <1>1, <1>3 DEF Settles
<1>5. CallOutETS(d) = SetState(SendCall(d), 1)
  BY <1>4 DEF CallOutETS
<1>6. 1 \in States \ {0, 6, 19, 99} /\ Sane(d) /\ Loose(d)
  BY <1>4, SoundIs DEF States
<1>7. /\ Sound(SetState(SendCall(d), 1)) /\ SetState(SendCall(d), 1).st = 1
      /\ SetState(SendCall(d), 1).ex
  BY <1>4, <1>6, CallTo
<1> QED BY <1>2, <1>5, <1>7 DEF Good, Alive

LEMMA PrepAnswerETSDone ==
  ASSUME NEW k, Sound(k), k.ex, Alive(k), NEW d, Sound(d), d.ex, Alive(d), Stays(k, d)
  PROVE  Done(k, PrepAnswerETS(d))
<1> DEFINE a == SetState(SendCall(d), 7)
           x == IF d.st = 6 THEN a ELSE d
<1>1. PrepAnswerETS(d) = CheckTerm(x, TRUE)
  BY DEF PrepAnswerETS, AlertETS
<1>2. CASE d.st = 6
  <2>1. 7 \in States \ {0, 6, 19, 99} /\ Sane(d) /\ Loose(d) /\ 6 \notin Ending
    BY SoundIs DEF States, Ending
  <2>2. Sound(a) /\ a.st = 7 /\ a.prot = d.prot /\ a.ex
    BY <1>2, <2>1, CallTo
  <2>3. x = a
    BY <1>2
  <2> HIDE DEF a, x
  <2>4. Ready(k, a) /\ Alive(a)
    BY <1>2, <2>1, <2>2 DEF Ready, Alive, Stays
  <2> QED BY <1>1, <2>3, <2>4, ReadyHeld
<1>3. CASE d.st # 6
  <2>1. x = d
    BY <1>3
  <2> HIDE DEF x
  <2>2. Ready(k, d)
    BY DEF Ready
  <2> QED BY <1>1, <2>1, <2>2, ReadyHeld
<1> QED BY <1>2, <1>3

LEMMA Dial1TR6Good ==
  ASSUME NEW k, Sound(k), k.ex, k.st = 0, k.minor, ~k.pending
  PROVE  Good(Dial1TR6(k))
<1> DEFINE w == [k EXCEPT !.want = TRUE]
           d == SetupHeld(w, "SETUP")
<1>1. Sound(w) /\ w.ex /\ w.st = 0 /\ w.minor /\ ~w.pending
  BY WantSound, SoundIs DEF Connection
<1>2. Dial1TR6(k) = CallOut1TR6(d)
  BY DEF Dial1TR6
<1> HIDE DEF w
<1>3. Sound(d) /\ Settles(w, d)
  BY <1>1, HeldPlain
<1> HIDE DEF d
<1>4. Sound(d) /\ d.st = 0 /\ d.minor /\ d.ex
  BY <1>1, <1>3 DEF Settles
<1>5. CallOut1TR6(d) = SetState(SendCall(d), 1)
  BY <1>4 DEF CallOut1TR6
<1>6. 1 \in States \ {0, 6, 19, 99} /\ Sane(d) /\ Loose(d)
  BY <1>4, SoundIs DEF States
<1>7. /\ Sound(SetState(SendCall(d), 1)) /\ SetState(SendCall(d), 1).st = 1
      /\ SetState(SendCall(d), 1).ex
  BY <1>4, <1>6, CallTo
<1> QED BY <1>2, <1>5, <1>7 DEF Good, Alive

LEMMA PrepAnswer1TR6Done ==
  ASSUME NEW k, Sound(k), k.ex, Alive(k), NEW d, Sound(d), d.ex, Alive(d), Stays(k, d)
  PROVE  Done(k, PrepAnswer1TR6(d))
<1> DEFINE a == SetState(SendCall(d), 7)
           x == IF d.st = 6 THEN a ELSE d
<1>1. PrepAnswer1TR6(d) = CheckTerm(x, TRUE)
  BY DEF PrepAnswer1TR6, Alert1TR6
<1>2. CASE d.st = 6
  <2>1. 7 \in States \ {0, 6, 19, 99} /\ Sane(d) /\ Loose(d) /\ 6 \notin Ending
    BY SoundIs DEF States, Ending
  <2>2. Sound(a) /\ a.st = 7 /\ a.prot = d.prot /\ a.ex
    BY <1>2, <2>1, CallTo
  <2>3. x = a
    BY <1>2
  <2> HIDE DEF a, x
  <2>4. Ready(k, a) /\ Alive(a)
    BY <1>2, <2>1, <2>2 DEF Ready, Alive, Stays
  <2> QED BY <1>1, <2>3, <2>4, ReadyHeld
<1>3. CASE d.st # 6
  <2>1. x = d
    BY <1>3
  <2> HIDE DEF x
  <2>2. Ready(k, d)
    BY DEF Ready
  <2> QED BY <1>1, <2>1, <2>2, ReadyHeld
<1> QED BY <1>2, <1>3

LEMMA AnswerDone ==
  ASSUME NEW k, NEW d, Sound(d), d.ex, Alive(d), Stays(k, d)
  PROVE  Done(k, Answer(d))
<1>1. Sound(Answer(d)) /\ Follows(d, Answer(d))
  BY AnswerSound
<1>2. Stays(d, Answer(d)) /\ Alive(Answer(d)) /\ Answer(d).ex
  BY <1>1, FollowsStays DEF Follows
<1>3. Stays(k, Answer(d))
  BY <1>2 DEF Stays
<1> QED BY <1>1, <1>2, <1>3 DEF Done, Good

LEMMA AnswerCallETSDone ==
  ASSUME NEW k, NEW d, Sound(d), d.ex, Alive(d), Stays(k, d)
  PROVE  Done(k, AnswerCallETS(d))
BY AnswerDone DEF AnswerCallETS

LEMMA AnswerCall1TR6Done ==
  ASSUME NEW k, NEW d, Sound(d), d.ex, Alive(d), Stays(k, d)
  PROVE  Done(k, AnswerCall1TR6(d))
<1>1. Ready(k, d)
  BY DEF Ready
<1> QED BY <1>1, AnswerDone, ReadyHeld DEF AnswerCall1TR6

LEMMA HeldDone ==
  ASSUME NEW k, NEW e, Sound(e), e.ex, Alive(e), e.prot = k.prot, e.st \in Ending
  PROVE  Done(k, CheckTerm(SetupHeld(e, "DISCONNECT"), TRUE))
<1> DEFINE f == SetupHeld(e, "DISCONNECT")
<1>1. Sound(f) /\ Follows(e, f)
  BY HeldSound
<1> HIDE DEF f
<1>2. Stays(e, f) /\ Alive(f) /\ f.ex
  BY <1>1, FollowsStays DEF Follows
<1>3. Ready(k, f)
  BY <1>1, <1>2 DEF Ready, Stays
<1> QED BY <1>2, <1>3, ReadyHeld DEF f

LEMMA OffETSDone ==
  ASSUME NEW k, NEW b, Sound(b), b.ex, Alive(b), b.prot = k.prot, NEW force,
         NEW nodisc, NEW cause
  PROVE  Done(k, OffETS(b, force, nodisc, cause))
<1> DEFINE r == IF force THEN 2 ELSE 0
           d == [b EXCEPT !.want = FALSE]
           e == IF d.st = 6 /\ ~cause THEN SetState(d, 99) ELSE SendDisc(d, r)
<1>1. Sound(d) /\ d.ex /\ Alive(d) /\ d.prot = k.prot
  BY UnwantOK
<1>2. OffETS(b, force, nodisc, cause) = CheckTerm(SetupHeld(e, "DISCONNECT"), TRUE)
  BY DEF OffETS
<1> HIDE DEF d, r
<1>3. Sound(e) /\ e.ex /\ e.prot = k.prot /\ e.st \in Ending /\ Alive(e)
  <2>1. CASE d.st = 6 /\ ~cause
    <3>1. Sane(d) /\ Loose(d) /\ 99 \in States /\ d.net # "known"
      BY <1>1, <2>1, SoundIs DEF States, Known
    <3>2. /\ Sound(SetState(d, 99)) /\ SetState(d, 99).st = 99
          /\ SetState(d, 99).prot = d.prot /\ SetState(d, 99).ex = d.ex
      BY <2>1, <3>1, GoSound
    <3>3. e = SetState(d, 99)
      BY <2>1
    <3> HIDE DEF e
    <3>4. Sound(e) /\ e.ex /\ e.prot = k.prot /\ e.st = 99
      BY <1>1, <3>2, <3>3
    <3>5. 99 \in Ending
      BY DEF Ending
    <3> QED BY <3>4, <3>5 DEF Alive
  <2>2. CASE ~(d.st = 6 /\ ~cause)
    <3> DEFINE s == SendDisc(d, r)
    <3>1. /\ Sound(s) /\ s.prot = d.prot /\ s.ex = d.ex
          /\ (d.st # 0 => s.st \in Ending \ {0}) /\ (d.st = 0 => s = d)
      BY <1>1, SendDiscEnds
    <3>2. e = s
      BY <2>2
    <3> HIDE DEF e, s
    <3>3. CASE d.st = 0
      BY <1>1, <3>1, <3>2, <3>3 DEF Ending
    <3>4. CASE d.st # 0
      BY <1>1, <3>1, <3>2, <3>4 DEF Alive
    <3> QED BY <3>3, <3>4
  <2> QED BY <2>1, <2>2
<1> HIDE DEF e
<1> QED BY <1>2, <1>3, HeldDone

LEMMA Off1TR6Done ==
  ASSUME NEW k, NEW b, Sound(b), b.ex, Alive(b), b.prot = k.prot, NEW force,
         NEW nodisc, NEW cause
  PROVE  Done(k, Off1TR6(b, force, nodisc, cause))
<1> DEFINE r == IF force /\ ~nodisc THEN 2 ELSE 1
           d == [b EXCEPT !.want = FALSE]
           e == IF d.st = 6 /\ ~cause THEN SetState(d, 99) ELSE SendDisc(d, r)
<1>1. Sound(d) /\ d.ex /\ Alive(d) /\ d.prot = k.prot
  BY UnwantOK
<1>2. Off1TR6(b, force, nodisc, cause) = CheckTerm(SetupHeld(e, "DISCONNECT"), TRUE)
  BY DEF Off1TR6
<1> HIDE DEF d, r
<1>3. Sound(e) /\ e.ex /\ e.prot = k.prot /\ e.st \in Ending /\ Alive(e)
  <2>1. CASE d.st = 6 /\ ~cause
    <3>1. Sane(d) /\ Loose(d) /\ 99 \in States /\ d.net # "known"
      BY <1>1, <2>1, SoundIs DEF States, Known
    <3>2. /\ Sound(SetState(d, 99)) /\ SetState(d, 99).st = 99
          /\ SetState(d, 99).prot = d.prot /\ SetState(d, 99).ex = d.ex
      BY <2>1, <3>1, GoSound
    <3>3. e = SetState(d, 99)
      BY <2>1
    <3> HIDE DEF e
    <3>4. Sound(e) /\ e.ex /\ e.prot = k.prot /\ e.st = 99
      BY <1>1, <3>2, <3>3
    <3>5. 99 \in Ending
      BY DEF Ending
    <3> QED BY <3>4, <3>5 DEF Alive
  <2>2. CASE ~(d.st = 6 /\ ~cause)
    <3> DEFINE s == SendDisc(d, r)
    <3>1. /\ Sound(s) /\ s.prot = d.prot /\ s.ex = d.ex
          /\ (d.st # 0 => s.st \in Ending \ {0}) /\ (d.st = 0 => s = d)
      BY <1>1, SendDiscEnds
    <3>2. e = s
      BY <2>2
    <3> HIDE DEF e, s
    <3>3. CASE d.st = 0
      BY <1>1, <3>1, <3>2, <3>3 DEF Ending
    <3>4. CASE d.st # 0
      BY <1>1, <3>1, <3>2, <3>4 DEF Alive
    <3> QED BY <3>3, <3>4
  <2> QED BY <2>1, <2>2
<1> HIDE DEF e
<1> QED BY <1>2, <1>3, HeldDone

-----------------------------------------------------------------------------
(* A new connection; the link. *)

LEMMA NewOneOK ==
  ASSUME NEW k, Good(k), ~k.ex, NEW x, x =
             [NewConn(k.prot) EXCEPT !.ex = TRUE, !.open = k.open, !.sent = k.sent, !.up = k.up,
              !.att = k.att]
  PROVE  /\ Sound(x) /\ x.ex /\ x.st = 0 /\ ~x.pending /\ x.prot = k.prot
         /\ ~x.minor
<1> DEFINE n == NewConn(k.prot)
<1>1. k \in Connection
  BY SoundIs DEF Good
<1>2. /\ k.prot \in {"ETS", "1TR6"} /\ k.open \in {"no", "will", "open"} /\ k.sent \in 0 .. 3
      /\ k.up \in BOOLEAN /\ k.att \in 0 .. 3
  BY <1>1, Fields
<1>3. n \in Connection
  BY <1>2, NewConnOK
<1>4. /\ n.prot = k.prot /\ n.st = 0 /\ n.run = {} /\ n.armed = {} /\ n.setup = 0 /\ ~n.proto
      /\ ~n.mapped /\ ~n.pending /\ ~n.tend /\ n.told = "nothing" /\ n.net = "none"
      /\ ~n.dangling /\ ~n.minor
  BY DEF NewConn
<1> HIDE DEF n
<1>5. x \in Connection
  BY ZenonT(60), <1>2, <1>3 DEF Connection, n
<1>6. /\ x.prot = k.prot /\ x.ex /\ x.st = 0 /\ x.run = {} /\ x.armed = {} /\ x.setup = 0
      /\ ~x.proto /\ ~x.mapped /\ ~x.pending /\ ~x.tend /\ x.told = "nothing"
      /\ x.net = "none" /\ ~x.dangling /\ ~x.minor
  BY <1>3, <1>4 DEF Connection, n
<1>7. Fits(x)
  BY <1>6 DEF Fits
<1>8. Sane(x)
  BY <1>5, <1>6, <1>7 DEF Sane
<1>9. TimersOf(0) = {}
  BY DEF TimersOf
<1>10. Timed(x)
  BY <1>6, <1>9 DEF Timed, Loose
<1>11. Known(x) /\ Heard(x)
  BY <1>6 DEF Known, Heard
<1> QED BY <1>6, <1>8, <1>10, <1>11 DEF Sound

LEMMA CalledOK ==
  ASSUME NEW k, Sound(k), k.ex, k.st = 0, ~k.pending, NEW b \in BOOLEAN
  PROVE  /\ Sound([Bound(k, TRUE) EXCEPT !.bchan = b, !.told = "dialled"])
         /\ [Bound(k, TRUE) EXCEPT !.bchan = b, !.told = "dialled"].ex
         /\ [Bound(k, TRUE) EXCEPT !.bchan = b, !.told = "dialled"].st = 0
         /\ [Bound(k, TRUE) EXCEPT !.bchan = b, !.told = "dialled"].minor
         /\ ~[Bound(k, TRUE) EXCEPT !.bchan = b, !.told = "dialled"].pending
         /\ [Bound(k, TRUE) EXCEPT !.bchan = b, !.told = "dialled"].prot = k.prot
<1> DEFINE d == Bound(k, TRUE)
           x == [d EXCEPT !.bchan = b, !.told = "dialled"]
<1>1. Sound(d) /\ d.ex /\ d.st = 0 /\ d.minor /\ ~d.pending /\ d.prot = k.prot
  BY BoundOK
<1> HIDE DEF d
<1>2. d \in Connection /\ Fits(d) /\ Timed(d) /\ Known(d) /\ Heard(d) /\ Sane(d)
  BY <1>1, SoundIs
<1>3. x \in Connection
  <2> DEFINE y == [d EXCEPT !.bchan = b]
             z == [y EXCEPT !.told = "dialled"]
  <2>1. y \in Connection
    BY <1>2 DEF Connection
  <2>2. x = z
    BY <1>2 DEF Connection
  <2> HIDE DEF x, y
  <2>3. z \in Connection
    BY <2>1 DEF Connection
  <2> QED BY <2>2, <2>3
<1>4. Fits(x)
  BY <1>2 DEF Connection, Fits
<1>5. /\ x.prot = d.prot /\ x.ex = d.ex /\ x.st = d.st /\ x.run = d.run /\ x.armed = d.armed
      /\ x.up = d.up /\ x.told = "dialled" /\ x.net = d.net /\ x.dangling = d.dangling
      /\ x.minor = d.minor /\ x.pending = d.pending
  BY <1>2 DEF Connection
<1> HIDE DEF x
<1>6. Sane(x)
  BY <1>2, <1>3, <1>4, <1>5 DEF Sane
<1>7. Timed(x)
  BY <1>2, <1>5 DEF Timed, Loose
<1>8. Known(x)
  BY <1>2, <1>5 DEF Known
<1>9. Heard(x)
  BY <1>5 DEF Heard
<1> QED BY <1>1, <1>5, <1>6, <1>7, <1>8, <1>9 DEF Sound, x, d

LEMMA TimerUpGood ==
  ASSUME NEW k, Good(k)
  PROVE  /\ Good([TimerUp(k) EXCEPT !.up = TRUE])
         /\ Stays(k, [TimerUp(k) EXCEPT !.up = TRUE])
<1> DEFINE a == TimerUp(k)
           d == [a EXCEPT !.up = TRUE]
<1>1. Sound(k) /\ Alive(k) /\ (~k.ex => k.st = 0 /\ ~k.tconn /\ ~k.tdelay)
  BY DEF Good
<1>2. k \in Connection /\ Fits(k) /\ Sane(k) /\ Known(k) /\ Heard(k) /\ Timed(k) /\ Loose(k)
  BY <1>1, SoundIs
<1>3. a \in Connection
  BY <1>2 DEF TimerUp, Connection
<1>4. Fits(a)
  BY <1>2 DEF TimerUp, Connection, Fits
<1>5. /\ a.prot = k.prot /\ a.ex = k.ex /\ a.st = k.st /\ a.run = k.run
      /\ a.armed = k.armed \cup k.run /\ a.up = k.up /\ a.told = k.told /\ a.net = k.net
      /\ a.dangling = k.dangling /\ a.tend = k.tend /\ a.tconn = k.tconn
      /\ a.tdelay = k.tdelay
  BY <1>2 DEF TimerUp, Connection
<1> HIDE DEF a
<1>6. a.run = a.armed
  BY <1>2, <1>5 DEF Loose
<1>7. Sane(a)
  BY <1>2, <1>3, <1>4, <1>5 DEF Sane
<1>8. Timed(a)
  BY <1>2, <1>5, <1>6 DEF Timed, Loose
<1>9. Known(a) /\ Heard(a) /\ Alive(a)
  BY <1>1, <1>2, <1>5 DEF Known, Heard, Alive
<1>10. /\ Sound(d) /\ Alive(d) /\ d.ex = a.ex /\ d.prot = a.prot /\ d.st = a.st
       /\ d.tconn = a.tconn /\ d.tdelay = a.tdelay
  BY <1>6, <1>7, <1>8, <1>9, UpOK
<1> HIDE DEF d
<1>11. Good(d)
  BY <1>1, <1>5, <1>10 DEF Good
<1>12. Stays(k, d)
  BY <1>5, <1>10 DEF Stays
<1> QED BY <1>11, <1>12 DEF d, a

LEMMA LinkUpETSDone ==
  ASSUME NEW k, Good(k), k.ex
  PROVE  /\ Good([LinkUpCheckedETS(k) EXCEPT !.up = TRUE])
         /\ Stays(k, [LinkUpCheckedETS(k) EXCEPT !.up = TRUE])
<1>1. Sound(k) /\ Alive(k)
  BY DEF Good
<1>2. CASE ~k.up
  <2>1. LinkUpCheckedETS(k) = TimerUp(k)
    BY <1>2 DEF LinkUpCheckedETS, LinkUpETS
  <2>2. /\ Good([TimerUp(k) EXCEPT !.up = TRUE])
        /\ Stays(k, [TimerUp(k) EXCEPT !.up = TRUE])
    BY TimerUpGood
  <2> QED BY <2>1, <2>2
<1>3. CASE k.up /\ k.st = 2
  <2> DEFINE a == SetState(SendRelease(k), 11)
  <2>1. Sane(k) /\ Loose(k) /\ 11 \in States /\ 2 \notin Ending
    BY <1>1, SoundIs DEF States, Ending
  <2>2. Sound(a) /\ a.st = 11 /\ a.prot = k.prot /\ a.ex = k.ex /\ a.up = k.up
    BY ZenonT(60), <1>1, <1>3, <2>1, ReleaseTo
  <2>3. LinkUpCheckedETS(k) = CheckTerm(a, FALSE)
    BY <1>3 DEF LinkUpCheckedETS, LinkUpETS
  <2> HIDE DEF a
  <2>4. CheckTerm(a, FALSE) = a
    BY <2>2 DEF CheckTerm
  <2>5. Good(a) /\ Stays(k, a) /\ a.up
    BY <1>3, <2>1, <2>2 DEF Good, Alive, Stays
  <2>6. Good([a EXCEPT !.up = TRUE]) /\ Stays(a, [a EXCEPT !.up = TRUE])
    BY <2>5, UpGood
  <2>7. Stays(k, [a EXCEPT !.up = TRUE])
    BY <2>5, <2>6 DEF Stays
  <2> QED BY <2>3, <2>4, <2>6, <2>7
<1>4. CASE k.up /\ k.st # 2
  <2> DEFINE d == CheckTerm(k, FALSE)
  <2>1. LinkUpCheckedETS(k) = d
    BY <1>4 DEF LinkUpCheckedETS, LinkUpETS
  <2>2. Good(d) /\ Stays(k, d) /\ (k.st # 0 => d = k)
    BY <1>1, CheckTermGood
  <2>3. k.st = 0 => d.up = k.up
    BY <1>1, KeptUp DEF Alive
  <2> HIDE DEF d
  <2>4. d.up
    BY <1>4, <2>2, <2>3
  <2>5. Good([d EXCEPT !.up = TRUE]) /\ Stays(d, [d EXCEPT !.up = TRUE])
    BY <2>2, <2>4, UpGood
  <2>6. Stays(k, [d EXCEPT !.up = TRUE])
    BY <2>2, <2>5 DEF Stays
  <2> QED BY <2>1, <2>5, <2>6
<1> QED BY <1>2, <1>3, <1>4

LEMMA LinkDownETSDone ==
  ASSUME NEW k, Good(k), k.ex
  PROVE  /\ Good([LinkDownETS(k) EXCEPT !.up = FALSE])
         /\ Stays(k, [LinkDownETS(k) EXCEPT !.up = FALSE])
<1> DEFINE n == IF k.net = "known" THEN "released" ELSE k.net
           b == [k EXCEPT !.net = n]
           d == SetState(b, 99)
<1>1. Sound(k)
  BY DEF Good
<1>2. /\ k \in Connection /\ Fits(k) /\ Sane(k) /\ Known(k) /\ Heard(k) /\ Timed(k) /\ Loose(k)
      /\ k.net \in {"none", "known", "released"}
  BY <1>1, SoundIs, Fields
<1>3. n \in {"none", "released"}
  BY <1>2
<1>4. LinkDownETS(k) = CheckTerm(d, FALSE)
  BY DEF LinkDownETS
<1> HIDE DEF n
<1>5. b \in Connection
  BY <1>2, <1>3 DEF Connection
<1>6. Fits(b)
  BY <1>2 DEF Connection, Fits
<1>7. /\ b.prot = k.prot /\ b.ex = k.ex /\ b.st = k.st /\ b.run = k.run /\ b.armed = k.armed
      /\ b.up = k.up /\ b.told = k.told /\ b.net = n /\ b.dangling = k.dangling
  BY <1>2 DEF Connection
<1> HIDE DEF b
<1>8. Sane(b)
  BY <1>2, <1>5, <1>6, <1>7 DEF Sane
<1>9. Timed(b) /\ Loose(b)
  BY <1>2, <1>7 DEF Timed, Loose
<1>10. Known(b) /\ Heard(b)
  BY <1>2, <1>3, <1>7 DEF Known, Heard
<1>11. Sound(b)
  BY <1>8, <1>9, <1>10 DEF Sound
<1>12. 99 \in States /\ 99 \in Ending /\ b.net # "known"
  BY <1>3, <1>7 DEF States, Ending
<1>13. Sound(d) /\ d.st = 99 /\ d.prot = b.prot /\ d.ex = b.ex
  BY <1>8, <1>9, <1>11, <1>12, GoSound
<1> HIDE DEF d
<1>14. CheckTerm(d, FALSE) = d
  BY <1>13 DEF CheckTerm
<1>15. Good(d) /\ Stays(k, d)
  BY <1>7, <1>12, <1>13 DEF Good, Alive, Stays
<1>16. Good([d EXCEPT !.up = FALSE]) /\ Stays(d, [d EXCEPT !.up = FALSE])
  BY <1>15, DownGood
<1>17. Stays(k, [d EXCEPT !.up = FALSE])
  BY <1>15, <1>16 DEF Stays
<1> QED BY <1>4, <1>14, <1>16, <1>17

LEMMA LinkUp1TR6Done ==
  ASSUME NEW k, Good(k), k.ex
  PROVE  /\ Good([LinkUpChecked1TR6(k) EXCEPT !.up = TRUE])
         /\ Stays(k, [LinkUpChecked1TR6(k) EXCEPT !.up = TRUE])
<1>1. Sound(k) /\ Alive(k)
  BY DEF Good
<1>2. CASE ~k.up
  <2>1. LinkUpChecked1TR6(k) = TimerUp(k)
    BY <1>2 DEF LinkUpChecked1TR6, LinkUp1TR6
  <2>2. /\ Good([TimerUp(k) EXCEPT !.up = TRUE])
        /\ Stays(k, [TimerUp(k) EXCEPT !.up = TRUE])
    BY TimerUpGood
  <2> QED BY <2>1, <2>2
<1>3. CASE k.up /\ k.st = 2
  <2> DEFINE a == SetState(SendRelease(k), 11)
  <2>1. Sane(k) /\ Loose(k) /\ 11 \in States /\ 2 \notin Ending
    BY <1>1, SoundIs DEF States, Ending
  <2>2. Sound(a) /\ a.st = 11 /\ a.prot = k.prot /\ a.ex = k.ex /\ a.up = k.up
    BY ZenonT(60), <1>1, <1>3, <2>1, ReleaseTo
  <2>3. LinkUpChecked1TR6(k) = CheckTerm(a, FALSE)
    BY <1>3 DEF LinkUpChecked1TR6, LinkUp1TR6
  <2> HIDE DEF a
  <2>4. CheckTerm(a, FALSE) = a
    BY <2>2 DEF CheckTerm
  <2>5. Good(a) /\ Stays(k, a) /\ a.up
    BY <1>3, <2>1, <2>2 DEF Good, Alive, Stays
  <2>6. Good([a EXCEPT !.up = TRUE]) /\ Stays(a, [a EXCEPT !.up = TRUE])
    BY <2>5, UpGood
  <2>7. Stays(k, [a EXCEPT !.up = TRUE])
    BY <2>5, <2>6 DEF Stays
  <2> QED BY <2>3, <2>4, <2>6, <2>7
<1>4. CASE k.up /\ k.st # 2
  <2> DEFINE d == CheckTerm(k, FALSE)
  <2>1. LinkUpChecked1TR6(k) = d
    BY <1>4 DEF LinkUpChecked1TR6, LinkUp1TR6
  <2>2. Good(d) /\ Stays(k, d) /\ (k.st # 0 => d = k)
    BY <1>1, CheckTermGood
  <2>3. k.st = 0 => d.up = k.up
    BY <1>1, KeptUp DEF Alive
  <2> HIDE DEF d
  <2>4. d.up
    BY <1>4, <2>2, <2>3
  <2>5. Good([d EXCEPT !.up = TRUE]) /\ Stays(d, [d EXCEPT !.up = TRUE])
    BY <2>2, <2>4, UpGood
  <2>6. Stays(k, [d EXCEPT !.up = TRUE])
    BY <2>2, <2>5 DEF Stays
  <2> QED BY <2>1, <2>5, <2>6
<1> QED BY <1>2, <1>3, <1>4

LEMMA LinkDown1TR6Done ==
  ASSUME NEW k, Good(k), k.ex
  PROVE  /\ Good([LinkDown1TR6(k) EXCEPT !.up = FALSE])
         /\ Stays(k, [LinkDown1TR6(k) EXCEPT !.up = FALSE])
<1> DEFINE n == IF k.net = "known" THEN "released" ELSE k.net
           b == [k EXCEPT !.net = n]
           d == SetState(b, 99)
<1>1. Sound(k)
  BY DEF Good
<1>2. /\ k \in Connection /\ Fits(k) /\ Sane(k) /\ Known(k) /\ Heard(k) /\ Timed(k) /\ Loose(k)
      /\ k.net \in {"none", "known", "released"}
  BY <1>1, SoundIs, Fields
<1>3. n \in {"none", "released"}
  BY <1>2
<1>4. LinkDown1TR6(k) = CheckTerm(d, FALSE)
  BY DEF LinkDown1TR6
<1> HIDE DEF n
<1>5. b \in Connection
  BY <1>2, <1>3 DEF Connection
<1>6. Fits(b)
  BY <1>2 DEF Connection, Fits
<1>7. /\ b.prot = k.prot /\ b.ex = k.ex /\ b.st = k.st /\ b.run = k.run /\ b.armed = k.armed
      /\ b.up = k.up /\ b.told = k.told /\ b.net = n /\ b.dangling = k.dangling
  BY <1>2 DEF Connection
<1> HIDE DEF b
<1>8. Sane(b)
  BY <1>2, <1>5, <1>6, <1>7 DEF Sane
<1>9. Timed(b) /\ Loose(b)
  BY <1>2, <1>7 DEF Timed, Loose
<1>10. Known(b) /\ Heard(b)
  BY <1>2, <1>3, <1>7 DEF Known, Heard
<1>11. Sound(b)
  BY <1>8, <1>9, <1>10 DEF Sound
<1>12. 99 \in States /\ 99 \in Ending /\ b.net # "known"
  BY <1>3, <1>7 DEF States, Ending
<1>13. Sound(d) /\ d.st = 99 /\ d.prot = b.prot /\ d.ex = b.ex
  BY <1>8, <1>9, <1>11, <1>12, GoSound
<1> HIDE DEF d
<1>14. CheckTerm(d, FALSE) = d
  BY <1>13 DEF CheckTerm
<1>15. Good(d) /\ Stays(k, d)
  BY <1>7, <1>12, <1>13 DEF Good, Alive, Stays
<1>16. Good([d EXCEPT !.up = FALSE]) /\ Stays(d, [d EXCEPT !.up = FALSE])
  BY <1>15, DownGood
<1>17. Stays(k, [d EXCEPT !.up = FALSE])
  BY <1>15, <1>16 DEF Stays
<1> QED BY <1>4, <1>14, <1>16, <1>17

-----------------------------------------------------------------------------
(* The actions of Calls, one by one. *)
Kept == Good(c') /\ (c.ex => Stays(c, c'))

LEMMA NetworkKeeps ==
  ASSUME Good(c), Network
  PROVE  Kept
<1>1. Sound(c) /\ Alive(c) /\ (~c.ex => c.st = 0 /\ ~c.tconn /\ ~c.tdelay)
  BY DEF Good
<1>2. PICK m \in Messages, chan \in BOOLEAN, nomem \in May("nomem"), immed \in May("immed") :
        c' = Recv(IF c.ex THEN c ELSE NewOne, m, chan, ~nomem, immed)
  BY DEF Network
<1>3. c.prot \in {"ETS", "1TR6"}
  BY <1>1, SoundIs, Fields
<1>4. CASE c.ex
  <2>1. c.st # 0
    BY <1>4 DEF Network
  <2>2. CASE c.prot = "ETS"
    <3>1. c' = RecvETS(c, m, chan, ~nomem, immed)
      BY <1>2, <1>4, <2>2 DEF Recv
    <3>2. Done(c, RecvETS(c, m, chan, ~nomem, immed))
      BY <1>1, <1>4, <2>1, <2>2, RecvETSDone
    <3> QED BY <3>1, <3>2 DEF Kept, Done
  <2>3. CASE c.prot = "1TR6"
    <3>1. c' = Recv1TR6(c, m, chan, ~nomem, immed)
      BY <1>2, <1>4, <2>3 DEF Recv
    <3>2. Done(c, Recv1TR6(c, m, chan, ~nomem, immed))
      BY <1>1, <1>4, <2>1, <2>3, Recv1TR6Done
    <3> QED BY <3>1, <3>2 DEF Kept, Done
  <2> QED BY <1>3, <2>2, <2>3
<1>5. CASE ~c.ex
  <2> DEFINE n == NewOne
  <2>1. Sound(n) /\ n.ex /\ n.st = 0 /\ ~n.pending /\ n.prot = c.prot
    BY <1>5, NewOneOK DEF NewOne
  <2> HIDE DEF n
  <2>2. CASE c.prot = "ETS"
    <3>1. c' = RecvETS(n, m, chan, ~nomem, immed)
      BY <1>2, <1>5, <2>1, <2>2 DEF Recv, n
    <3>2. Done(n, RecvETS(n, m, chan, ~nomem, immed))
      BY <2>1, <2>2, RecvETSDone
    <3> QED BY <1>5, <3>1, <3>2 DEF Kept, Done
  <2>3. CASE c.prot = "1TR6"
    <3>1. c' = Recv1TR6(n, m, chan, ~nomem, immed)
      BY <1>2, <1>5, <2>1, <2>3 DEF Recv, n
    <3>2. Good(Recv1TR6(n, m, chan, ~nomem, immed))
      BY <2>1, <2>3, Recv1TR6New
    <3> QED BY <1>5, <3>1, <3>2 DEF Kept
  <2> QED BY <1>3, <2>2, <2>3
<1> QED BY <1>4, <1>5

LEMMA TimerExpiresKeeps ==
  ASSUME Good(c), TimerExpires
  PROVE  Kept
<1>1. Sound(c) /\ Alive(c) /\ (~c.ex => c.st = 0 /\ ~c.tconn /\ ~c.tdelay)
  BY DEF Good
<1>2. PICK t \in c.armed : c' = Expire(c, t)
  BY DEF TimerExpires
<1>3. c.prot \in {"ETS", "1TR6"} /\ Loose(c)
  BY <1>1, SoundIs, Fields
<1>4. c.ex
  <2>1. c.st # 0
    <3>1. TimersOf(0) = {}
      BY DEF TimersOf
    <3> QED BY <1>2, <1>3, <3>1 DEF Loose
  <2> QED BY <1>1, <2>1
<1>5. CASE c.prot = "ETS"
  <2>1. Done(c, ExpireETS(c, t))
    BY <1>1, <1>4, <1>5, ExpireETSDone
  <2> QED BY <1>2, <1>5, <2>1 DEF Kept, Done, Expire
<1>6. CASE c.prot = "1TR6"
  <2>1. Done(c, Expire1TR6(c, t))
    BY <1>1, <1>4, <1>6, Expire1TR6Done
  <2> QED BY <1>2, <1>6, <2>1 DEF Kept, Done, Expire
<1> QED BY <1>3, <1>5, <1>6

LEMMA LinkUpKeeps ==
  ASSUME Good(c), LinkUp
  PROVE  Kept
<1>1. Sound(c) /\ Alive(c) /\ (~c.ex => c.st = 0 /\ ~c.tconn /\ ~c.tdelay)
  BY DEF Good
<1>2. c.prot \in {"ETS", "1TR6"}
  BY <1>1, SoundIs, Fields
<1>3. CASE ~c.ex
  <2>1. c' = [c EXCEPT !.up = TRUE]
    BY <1>3 DEF LinkUp
  <2>2. Good([c EXCEPT !.up = TRUE])
    BY <1>1, <1>3, UpGood
  <2> QED BY <1>3, <2>1, <2>2 DEF Kept
<1>4. CASE c.ex /\ c.prot = "ETS"
  <2>1. c' = [LinkUpCheckedETS(c) EXCEPT !.up = TRUE]
    BY <1>4 DEF LinkUp
  <2>2. /\ Good([LinkUpCheckedETS(c) EXCEPT !.up = TRUE])
        /\ Stays(c, [LinkUpCheckedETS(c) EXCEPT !.up = TRUE])
    BY <1>4, LinkUpETSDone
  <2> QED BY <2>1, <2>2 DEF Kept
<1>5. CASE c.ex /\ c.prot = "1TR6"
  <2>1. c' = [LinkUpChecked1TR6(c) EXCEPT !.up = TRUE]
    BY <1>5 DEF LinkUp
  <2>2. /\ Good([LinkUpChecked1TR6(c) EXCEPT !.up = TRUE])
        /\ Stays(c, [LinkUpChecked1TR6(c) EXCEPT !.up = TRUE])
    BY <1>5, LinkUp1TR6Done
  <2> QED BY <2>1, <2>2 DEF Kept
<1> QED BY <1>2, <1>3, <1>4, <1>5

LEMMA LinkDownKeeps ==
  ASSUME Good(c), LinkDown
  PROVE  Kept
<1>1. Sound(c) /\ Alive(c) /\ (~c.ex => c.st = 0 /\ ~c.tconn /\ ~c.tdelay)
  BY DEF Good
<1>2. c.prot \in {"ETS", "1TR6"}
  BY <1>1, SoundIs, Fields
<1>3. CASE ~c.ex
  <2>1. c' = [c EXCEPT !.up = FALSE]
    BY <1>3 DEF LinkDown
  <2>2. Good([c EXCEPT !.up = FALSE])
    BY <1>1, <1>3, DownGood
  <2> QED BY <1>3, <2>1, <2>2 DEF Kept
<1>4. CASE c.ex /\ c.prot = "ETS"
  <2>1. c' = [LinkDownETS(c) EXCEPT !.up = FALSE]
    BY <1>4 DEF LinkDown
  <2>2. /\ Good([LinkDownETS(c) EXCEPT !.up = FALSE])
        /\ Stays(c, [LinkDownETS(c) EXCEPT !.up = FALSE])
    BY <1>4, LinkDownETSDone
  <2> QED BY <2>1, <2>2 DEF Kept
<1>5. CASE c.ex /\ c.prot = "1TR6"
  <2>1. c' = [LinkDown1TR6(c) EXCEPT !.up = FALSE]
    BY <1>5 DEF LinkDown
  <2>2. /\ Good([LinkDown1TR6(c) EXCEPT !.up = FALSE])
        /\ Stays(c, [LinkDown1TR6(c) EXCEPT !.up = FALSE])
    BY <1>5, LinkDown1TR6Done
  <2> QED BY <2>1, <2>2 DEF Kept
<1> QED BY <1>2, <1>3, <1>4, <1>5

LEMMA KillDone ==
  ASSUME NEW k, Sound(k), k.ex, Alive(k), NEW d, Sound(d), d.ex, Alive(d), Stays(k, d)
  PROVE  Done(k, KillConn(d, 0, FALSE))
<1>1. Good(KillConn(d, 0, FALSE)) /\ Stays(d, KillConn(d, 0, FALSE))
  BY KillSoft
<1> QED BY <1>1 DEF Done, Stays

LEMMA SetupDone ==
  ASSUME NEW k, NEW d, Sound(d), d.ex, Alive(d), Stays(k, d), NEW est
  PROVE  Done(k, Setup(d, est))
<1> DEFINE e == Setup(d, est)
<1>1. Sound(e) /\ Follows(d, e)
  BY SetupSound
<1> HIDE DEF e
<1>2. Stays(d, e) /\ Alive(e) /\ e.ex
  BY <1>1, FollowsStays DEF Follows
<1>3. Good(e)
  BY <1>1, <1>2 DEF Good
<1>4. Stays(k, e)
  BY <1>2 DEF Stays
<1> QED BY <1>3, <1>4 DEF Done, e

(* A command first brings the attachment up to date. *)
LEMMA BroughtUp ==
  ASSUME NEW k, NEW d, Sound(d), d.ex, Alive(d), Stays(k, d), NEW est
  PROVE  /\ Sound(SetupHeld(d, est)) /\ SetupHeld(d, est).ex
         /\ Alive(SetupHeld(d, est)) /\ Stays(k, SetupHeld(d, est))
<1> DEFINE e == SetupHeld(d, est)
<1>1. Sound(e) /\ Follows(d, e)
  BY HeldSound
<1> HIDE DEF e
<1>2. Stays(d, e) /\ Alive(e) /\ e.ex
  BY <1>1, FollowsStays DEF Follows
<1>3. Stays(k, e)
  BY <1>2 DEF Stays
<1> QED BY <1>1, <1>2, <1>3 DEF e

LEMMA KillHardDone ==
  ASSUME NEW k, Sound(k), k.ex, NEW n \in {1, 3}
  PROVE  Done(k, KillConn(k, n, FALSE))
<1>1. n # 0 /\ FALSE \in BOOLEAN
  OBVIOUS
<1>2. ASSUME NEW held \in BOOLEAN, ~held
      PROVE  Good(KillConn(k, n, held)) /\ Stays(k, KillConn(k, n, held))
  BY <1>1, <1>2, KillHard
<1> QED BY <1>1, <1>2 DEF Done

LEMMA ConnTimeoutKeeps ==
  ASSUME Good(c), ConnTimeout
  PROVE  Kept
<1>1. Sound(c) /\ Alive(c) /\ (~c.ex => c.st = 0 /\ ~c.tconn /\ ~c.tdelay)
  BY DEF Good
<1> DEFINE d == [c EXCEPT !.tconn = FALSE]
<1>2. c' = KillConn(d, 0, FALSE) /\ c.ex
  BY <1>1 DEF ConnTimeout
<1>3. Sound(d) /\ d.ex /\ Alive(d) /\ Stays(c, d)
  BY <1>1, <1>2, UnconnOK
<1> HIDE DEF d
<1> QED BY <1>1, <1>2, <1>3, KillDone DEF Kept, Done

LEMMA DelayTimeoutKeeps ==
  ASSUME Good(c), DelayTimeout
  PROVE  Kept
<1>1. Sound(c) /\ Alive(c) /\ (~c.ex => c.st = 0 /\ ~c.tconn /\ ~c.tdelay)
  BY DEF Good
<1> DEFINE d == [c EXCEPT !.tdelay = FALSE]
<1>2. c' = Setup(d, "NO_CHANGE") /\ c.ex
  BY <1>1 DEF DelayTimeout
<1>3. Sound(d) /\ d.ex /\ Alive(d) /\ Stays(c, d)
  BY <1>1, <1>2, UndelayOK
<1> HIDE DEF d
<1> QED BY <1>1, <1>2, <1>3, SetupDone DEF Kept, Done

LEMMA DiscTimeoutKeeps ==
  ASSUME Good(c), DiscTimeout
  PROVE  Kept
<1>1. Sound(c) /\ Alive(c) /\ (~c.ex => c.st = 0 /\ ~c.tconn /\ ~c.tdelay)
  BY DEF Good
<1> DEFINE d == [c EXCEPT !.tend = FALSE]
<1>2. c' = KillConn(d, 3, FALSE) /\ c.tend
  BY DEF DiscTimeout
<1>3. c.ex
  BY <1>1, <1>2, SoundIs DEF Fits
<1>4. Sound(d) /\ d.ex /\ d.prot = c.prot /\ d.st = c.st
  BY <1>1, <1>3, UntendOK
<1> HIDE DEF d
<1>5. 3 \in {1, 3}
  OBVIOUS
<1>6. Done(d, KillConn(d, 3, FALSE))
  BY <1>4, <1>5, KillHardDone
<1> QED BY <1>2, <1>4, <1>6 DEF Kept, Done, Stays

LEMMA DialKeeps ==
  ASSUME Good(c), Dial
  PROVE  Kept
<1>1. Sound(c) /\ Alive(c) /\ (~c.ex => c.st = 0 /\ ~c.tconn /\ ~c.tdelay)
  BY DEF Good
<1>2. PICK b \in BOOLEAN :
        /\ ~c.ex
        /\ LET d == SetupHeld([Bound(NewOne, TRUE) EXCEPT !.bchan = b, !.told = "dialled"],
                              "NO_CHANGE")
           IN  c' = IF c.prot = "ETS" THEN DialETS(d) ELSE Dial1TR6(d)
  BY DEF Dial
<1> DEFINE n == NewOne
           x == [Bound(n, TRUE) EXCEPT !.bchan = b, !.told = "dialled"]
           d == SetupHeld(x, "NO_CHANGE")
<1>3. c' = IF c.prot = "ETS" THEN DialETS(d) ELSE Dial1TR6(d)
  BY <1>2
<1>4. Sound(n) /\ n.ex /\ n.st = 0 /\ ~n.pending
  BY <1>2, NewOneOK DEF NewOne
<1> HIDE DEF n
<1>5. Sound(x) /\ x.ex /\ x.st = 0 /\ x.minor /\ ~x.pending
  BY <1>4, CalledOK
<1> HIDE DEF x
<1>6. Sound(d) /\ Settles(x, d) /\ ~d.pending
  BY <1>5, HeldPlain
<1> HIDE DEF d
<1>7. d.ex /\ d.st = 0 /\ d.minor
  BY <1>5, <1>6 DEF Settles
<1>8. Good(DialETS(d)) /\ Good(Dial1TR6(d))
  BY <1>6, <1>7, DialETSGood, Dial1TR6Good
<1> QED BY <1>2, <1>3, <1>8 DEF Kept

LEMMA PrepAnswerKeeps ==
  ASSUME Good(c), PrepAnswer
  PROVE  Kept
<1>1. Sound(c) /\ Alive(c) /\ (~c.ex => c.st = 0 /\ ~c.tconn /\ ~c.tdelay)
  BY DEF Good
<1> DEFINE b == Bound(c, FALSE)
           d == SetupHeld(b, "NO_CHANGE")
<1>2. c.ex /\ c' = IF c.prot = "ETS" THEN PrepAnswerETS(d) ELSE PrepAnswer1TR6(d)
  BY DEF PrepAnswer
<1>3. Sound(b) /\ b.ex /\ Alive(b) /\ Stays(c, b)
  BY <1>1, <1>2, BoundOK
<1> HIDE DEF b
<1>4. Sound(d) /\ d.ex /\ Alive(d) /\ Stays(c, d)
  BY <1>3, BroughtUp
<1> HIDE DEF d
<1>5. Done(c, PrepAnswerETS(d)) /\ Done(c, PrepAnswer1TR6(d))
  BY <1>1, <1>2, <1>4, PrepAnswerETSDone, PrepAnswer1TR6Done
<1> QED BY <1>2, <1>5 DEF Kept, Done

LEMMA AnswerCommandKeeps ==
  ASSUME Good(c), AnswerCommand
  PROVE  Kept
<1>1. Sound(c) /\ Alive(c) /\ (~c.ex => c.st = 0 /\ ~c.tconn /\ ~c.tdelay)
  BY DEF Good
<1> DEFINE b == Bound(c, TRUE)
           d == SetupHeld(b, "NO_CHANGE")
<1>2. c.ex /\ c' = IF c.prot = "ETS" THEN AnswerCallETS(d) ELSE AnswerCall1TR6(d)
  BY DEF AnswerCommand
<1>3. Sound(b) /\ b.ex /\ Alive(b) /\ Stays(c, b)
  BY <1>1, <1>2, BoundOK
<1> HIDE DEF b
<1>4. Sound(d) /\ d.ex /\ Alive(d) /\ Stays(c, d)
  BY <1>3, BroughtUp
<1> HIDE DEF d
<1>5. Done(c, AnswerCallETS(d)) /\ Done(c, AnswerCall1TR6(d))
  BY <1>4, AnswerCallETSDone, AnswerCall1TR6Done
<1> QED BY <1>2, <1>5 DEF Kept, Done

LEMMA OffKeeps ==
  ASSUME Good(c), Off
  PROVE  Kept
<1>1. Sound(c) /\ Alive(c) /\ (~c.ex => c.st = 0 /\ ~c.tconn /\ ~c.tdelay)
  BY DEF Good
<1>2. PICK force, cause \in BOOLEAN, nodisc \in May("nodisc") :
        /\ c.ex
        /\ LET d == SetupHeld(Bound([c EXCEPT !.nominor = @ \/ nodisc, !.pending = FALSE],
                                    FALSE), "NO_CHANGE")
           IN  c' = IF c.prot = "ETS" THEN OffETS(d, force, nodisc, cause)
                    ELSE Off1TR6(d, force, nodisc, cause)
  BY DEF Off
<1> DEFINE a == [c EXCEPT !.nominor = @ \/ nodisc, !.pending = FALSE]
           b == Bound(a, FALSE)
           d == SetupHeld(b, "NO_CHANGE")
<1>3. c' = IF c.prot = "ETS" THEN OffETS(d, force, nodisc, cause)
           ELSE Off1TR6(d, force, nodisc, cause)
  BY <1>2
<1>4. Sound(a) /\ a.ex /\ Alive(a) /\ Stays(c, a)
  <2>1. nodisc \in BOOLEAN
    BY DEF May
  <2> QED BY ZenonT(60), <1>1, <1>2, <2>1, UnboundOK
<1> HIDE DEF a
<1>5. Sound(b) /\ b.ex /\ Alive(b) /\ Stays(a, b)
  BY <1>4, BoundOK
<1> HIDE DEF b
<1>6. Stays(c, b)
  BY <1>4, <1>5 DEF Stays
<1>7. Sound(d) /\ d.ex /\ Alive(d) /\ d.prot = c.prot
  BY <1>5, <1>6, BroughtUp DEF Stays
<1> HIDE DEF d
<1>8. Done(c, OffETS(d, force, nodisc, cause)) /\ Done(c, Off1TR6(d, force, nodisc, cause))
  BY <1>7, OffETSDone, Off1TR6Done
<1> QED BY <1>3, <1>8 DEF Kept, Done

LEMMA CardSetupKeeps ==
  ASSUME Good(c), CardSetup
  PROVE  Kept
<1>1. Sound(c) /\ Alive(c) /\ (~c.ex => c.st = 0 /\ ~c.tconn /\ ~c.tdelay)
  BY DEF Good
<1>2. PICK hup \in BOOLEAN :
        /\ c.ex /\ c.protosent
        /\ LET d == SetupHeld([c EXCEPT !.proto = TRUE, !.hup = hup], "NO_CHANGE")
           IN  c' = IF d.st = 0 /\ ~d.pending THEN KillConn(d, 0, FALSE) ELSE d
  BY DEF CardSetup
<1> DEFINE b == [c EXCEPT !.proto = TRUE, !.hup = hup]
           d == SetupHeld(b, "NO_CHANGE")
<1>3. Sound(b) /\ b.ex /\ Alive(b) /\ Stays(c, b)
  BY <1>1, <1>2, StandsOK
<1>4. c' = KillConn(d, 0, FALSE) \/ c' = d
  BY <1>2
<1> HIDE DEF b
<1>5. Sound(d) /\ d.ex /\ Alive(d) /\ Stays(c, d)
  BY <1>3, BroughtUp
<1> HIDE DEF d
<1>6. Good(d)
  BY <1>5 DEF Good
<1>7. Done(c, KillConn(d, 0, FALSE))
  BY <1>1, <1>2, <1>5, KillDone
<1> QED BY <1>4, <1>5, <1>6, <1>7 DEF Kept, Done

LEMMA NoProtKeeps ==
  ASSUME Good(c), NoProt
  PROVE  Kept
<1>1. Sound(c) /\ Alive(c) /\ (~c.ex => c.st = 0 /\ ~c.tconn /\ ~c.tdelay)
  BY DEF Good
<1> DEFINE b == [c EXCEPT !.setup = 0, !.detached = TRUE, !.att = 0]
           d == SetupHeld(b, "NO_CHANGE")
<1>2. c.ex /\ c' = d
  BY DEF NoProt
<1>3. Sound(b) /\ b.ex /\ Alive(b) /\ Stays(c, b)
  BY <1>1, <1>2, NoProtOK
<1> HIDE DEF b
<1>4. Sound(d) /\ d.ex /\ Alive(d) /\ Stays(c, d)
  BY <1>3, BroughtUp
<1> HIDE DEF d
<1> QED BY <1>2, <1>4 DEF Kept, Good

LEMMA StackDownKeeps ==
  ASSUME Good(c), StackDown
  PROVE  Kept
<1>1. Sound(c) /\ Alive(c) /\ (~c.ex => c.st = 0 /\ ~c.tconn /\ ~c.tdelay)
  BY DEF Good
<1> DEFINE d == [c EXCEPT !.sent = 0]
<1>2. c.ex /\ c' = KillConn(d, 0, FALSE)
  BY DEF StackDown
<1>3. Sound(d) /\ d.ex /\ Alive(d) /\ Stays(c, d)
  BY <1>1, <1>2, UnsentOK
<1> HIDE DEF d
<1> QED BY <1>1, <1>2, <1>3, KillDone DEF Kept, Done

LEMMA FakeOpenKeeps ==
  ASSUME Good(c), FakeOpen
  PROVE  Kept
<1>1. Sound(c) /\ Alive(c) /\ (~c.ex => c.st = 0 /\ ~c.tconn /\ ~c.tdelay)
  BY DEF Good
<1> DEFINE d == [c EXCEPT !.open = "will", !.mapped = FALSE]
<1>2. c' = d
  BY DEF FakeOpen
<1>3. /\ Sound(d) /\ d.ex = c.ex /\ Alive(d) /\ Stays(c, d) /\ d.st = c.st
      /\ d.tconn = c.tconn /\ d.tdelay = c.tdelay
  BY <1>1, FakeOK
<1> HIDE DEF d
<1> QED BY <1>1, <1>2, <1>3 DEF Kept, Good

LEMMA OpenedKeeps ==
  ASSUME Good(c), Opened
  PROVE  Kept
<1>1. Sound(c) /\ Alive(c) /\ (~c.ex => c.st = 0 /\ ~c.tconn /\ ~c.tdelay)
  BY DEF Good
<1> DEFINE d == [c EXCEPT !.open = "open"]
<1>2. c' = d \/ (c.ex /\ c' = Setup(d, "NO_CHANGE"))
  BY DEF Opened
<1>3. /\ Sound(d) /\ d.ex = c.ex /\ Alive(d) /\ Stays(c, d) /\ d.st = c.st
      /\ d.tconn = c.tconn /\ d.tdelay = c.tdelay
  BY <1>1, OpenOK
<1> HIDE DEF d
<1>4. Good(d)
  BY <1>1, <1>3 DEF Good
<1>5. c.ex => Done(c, Setup(d, "NO_CHANGE"))
  BY <1>3, SetupDone
<1> QED BY <1>2, <1>3, <1>4, <1>5 DEF Kept, Done

LEMMA ClosedKeeps ==
  ASSUME Good(c), Closed
  PROVE  Kept
<1>1. Sound(c) /\ Alive(c) /\ (~c.ex => c.st = 0 /\ ~c.tconn /\ ~c.tdelay)
  BY DEF Good
<1> DEFINE d == [c EXCEPT !.open = "no", !.sent = 0, !.att = 0]
<1>2. c' = d \/ (c.ex /\ c' = KillConn(d, 0, FALSE))
  BY DEF Closed
<1>3. /\ Sound(d) /\ d.ex = c.ex /\ Alive(d) /\ Stays(c, d) /\ d.st = c.st
      /\ d.tconn = c.tconn /\ d.tdelay = c.tdelay
  BY <1>1, CloseOK
<1> HIDE DEF d
<1>4. Good(d)
  BY <1>1, <1>3 DEF Good
<1>5. c.ex => Done(c, KillConn(d, 0, FALSE))
  BY <1>1, <1>3, KillDone
<1> QED BY <1>2, <1>3, <1>4, <1>5 DEF Kept, Done

LEMMA DetachedByLayer2Keeps ==
  ASSUME Good(c), DetachedByLayer2
  PROVE  Kept
<1>1. Sound(c) /\ Alive(c) /\ (~c.ex => c.st = 0 /\ ~c.tconn /\ ~c.tdelay)
  BY DEF Good
<1> DEFINE d == [c EXCEPT !.att = 0]
<1>2. c.ex /\ c' = KillConn(d, 0, FALSE)
  BY DEF DetachedByLayer2, Found
<1>3. Sound(d) /\ d.ex /\ Alive(d) /\ Stays(c, d)
  BY <1>1, <1>2, UnattachOK
<1> HIDE DEF d
<1> QED BY <1>1, <1>2, <1>3, KillDone DEF Kept, Done

LEMMA StackDisconnectsKeeps ==
  ASSUME Good(c), StackDisconnects
  PROVE  Kept
<1>1. Sound(c) /\ Alive(c) /\ (~c.ex => c.st = 0 /\ ~c.tconn /\ ~c.tdelay)
  BY DEF Good
<1>2. c.ex /\ c' = Setup(c, "DISCONNECT")
  BY DEF StackDisconnects, Found
<1>3. Stays(c, c)
  BY DEF Stays
<1> QED BY <1>1, <1>2, <1>3, SetupDone DEF Kept, Done

LEMMA StackSetsUpKeeps ==
  ASSUME Good(c), StackSetsUp
  PROVE  Kept
<1>1. Sound(c) /\ Alive(c) /\ (~c.ex => c.st = 0 /\ ~c.tconn /\ ~c.tdelay)
  BY DEF Good
<1>2. c.ex /\ c' = Setup(c, "SETUP")
  BY DEF StackSetsUp, Found
<1>3. Stays(c, c)
  BY DEF Stays
<1> QED BY <1>1, <1>2, <1>3, SetupDone DEF Kept, Done

LEMMA NoCardKeeps ==
  ASSUME Good(c), NoCard
  PROVE  Kept
<1>1. Sound(c) /\ Alive(c) /\ (~c.ex => c.st = 0 /\ ~c.tconn /\ ~c.tdelay)
  BY DEF Good
<1> DEFINE a == IF c.ex THEN KillConn(c, 1, FALSE) ELSE c
           b == [a EXCEPT !.up = FALSE]
           d == [b EXCEPT !.att = 0]
<1>2. Good(a) /\ Stays(c, a)
  <2>1. CASE c.ex
    <3>1. 1 \in {1, 3}
      OBVIOUS
    <3>2. Done(c, KillConn(c, 1, FALSE))
      BY <1>1, <2>1, <3>1, KillHardDone
    <3> QED BY <2>1, <3>2 DEF Done
  <2>2. CASE ~c.ex
    BY <2>2 DEF Stays
  <2> QED BY <2>1, <2>2
<1>3. c' = [a EXCEPT !.up = FALSE, !.att = 0]
  BY DEF NoCard
<1> HIDE DEF a
<1>4. a \in Connection
  BY <1>2, SoundIs DEF Good
<1>5. c' = d
  BY <1>3, <1>4 DEF Connection
<1>6. Good(b) /\ Stays(a, b)
  BY <1>2, DownGood
<1> HIDE DEF b
<1>7. Sound(b) /\ b \in Connection
  BY <1>6, SoundIs DEF Good
<1>8. Sound(d) /\ Stays(b, d) /\ (Alive(b) => Alive(d)) /\ d.ex = b.ex
  BY <1>7, UnattachOK
<1>9. d.st = b.st /\ d.tconn = b.tconn /\ d.tdelay = b.tdelay
  BY <1>7 DEF Connection
<1> HIDE DEF d
<1>10. Good(d)
  BY <1>6, <1>8, <1>9 DEF Good
<1>11. Stays(c, d)
  BY <1>2, <1>6, <1>8 DEF Stays
<1> QED BY <1>5, <1>10, <1>11 DEF Kept

-----------------------------------------------------------------------------
(* The theorems. *)
IInv == Good(c) /\ hung \in BOOLEAN

LEMMA InitGood ==
  ASSUME Init
  PROVE  IInv
<1>1. PICK p \in Protocols : c = NewConn(p) /\ hung = FALSE
  BY DEF Init
<1>2. p \in {"ETS", "1TR6"}
  BY ProtocolAssumption
<1>3. c \in Connection
  BY <1>1, <1>2, NewConnOK
<1>4. /\ c.prot = p /\ ~c.ex /\ c.st = 0 /\ c.run = {} /\ c.armed = {} /\ c.setup = 0
      /\ ~c.proto /\ ~c.mapped /\ ~c.pending /\ ~c.tend /\ ~c.tconn /\ ~c.tdelay
      /\ c.net = "none" /\ ~c.dangling
  BY <1>1 DEF NewConn
<1>5. Fits(c)
  BY <1>4 DEF Fits
<1>6. TimersOf(0) = {}
  BY DEF TimersOf
<1>7. Timed(c)
  BY <1>4, <1>6 DEF Timed, Loose
<1>8. Sound(c)
  BY <1>3, <1>4, <1>5, <1>7 DEF Sound, Sane, Known, Heard
<1> QED BY <1>1, <1>4, <1>8 DEF IInv, Good, Alive

LEMMA StepKept ==
  ASSUME IInv, [Next]_vars
  PROVE  Kept
<1>1. CASE UNCHANGED vars
  <2>1. c' = c
    BY <1>1 DEF vars
  <2> QED BY <2>1 DEF IInv, Kept, Stays
<1>2. CASE Network
  BY <1>2, NetworkKeeps DEF IInv
<1>3. CASE TimerExpires
  BY <1>3, TimerExpiresKeeps DEF IInv
<1>4. CASE LinkUp
  BY <1>4, LinkUpKeeps DEF IInv
<1>5. CASE LinkDown
  BY <1>5, LinkDownKeeps DEF IInv
<1>6. CASE ConnTimeout
  BY <1>6, ConnTimeoutKeeps DEF IInv
<1>7. CASE DelayTimeout
  BY <1>7, DelayTimeoutKeeps DEF IInv
<1>8. CASE DiscTimeout
  BY <1>8, DiscTimeoutKeeps DEF IInv
<1>9. CASE Dial
  BY <1>9, DialKeeps DEF IInv
<1>10. CASE PrepAnswer
  BY <1>10, PrepAnswerKeeps DEF IInv
<1>11. CASE AnswerCommand
  BY <1>11, AnswerCommandKeeps DEF IInv
<1>12. CASE Off
  BY <1>12, OffKeeps DEF IInv
<1>13. CASE CardSetup
  BY <1>13, CardSetupKeeps DEF IInv
<1>14. CASE NoProt
  BY <1>14, NoProtKeeps DEF IInv
<1>15. CASE StackDown
  BY <1>15, StackDownKeeps DEF IInv
<1>16. CASE FakeOpen
  BY <1>16, FakeOpenKeeps DEF IInv
<1>17. CASE Opened
  BY <1>17, OpenedKeeps DEF IInv
<1>18. CASE Closed
  BY <1>18, ClosedKeeps DEF IInv
<1>19. CASE DetachedByLayer2
  BY <1>19, DetachedByLayer2Keeps DEF IInv
<1>20. CASE StackDisconnects
  BY <1>20, StackDisconnectsKeeps DEF IInv
<1>21. CASE StackSetsUp
  BY <1>21, StackSetsUpKeeps DEF IInv
<1>22. CASE NoCard
  BY <1>22, NoCardKeeps DEF IInv
<1> QED BY <1>1, <1>2, <1>3, <1>4, <1>5, <1>6, <1>7, <1>8, <1>9, <1>10, <1>11, <1>12,
           <1>13, <1>14, <1>15, <1>16, <1>17, <1>18, <1>19, <1>20, <1>21, <1>22 DEF Next

LEMMA HungKept ==
  ASSUME IInv, [Next]_vars
  PROVE  hung' \in BOOLEAN
<1>1. CASE UNCHANGED hung
  BY <1>1 DEF IInv
<1>2. CASE NoCard
  <2>1. c.ex \in BOOLEAN /\ c.tend \in BOOLEAN
    BY SoundIs, Fields DEF IInv, Good
  <2>2. hung' = (c.ex /\ c.tend)
    BY <1>2 DEF NoCard
  <2> QED BY <2>1, <2>2
<1>3. Network => UNCHANGED hung
  BY DEF Network
<1>4. TimerExpires => UNCHANGED hung
  BY DEF TimerExpires
<1>5. LinkUp => UNCHANGED hung
  BY DEF LinkUp
<1>6. LinkDown => UNCHANGED hung
  BY DEF LinkDown
<1>7. ConnTimeout => UNCHANGED hung
  BY DEF ConnTimeout
<1>8. DelayTimeout => UNCHANGED hung
  BY DEF DelayTimeout
<1>9. DiscTimeout => UNCHANGED hung
  BY DEF DiscTimeout
<1>10. Dial => UNCHANGED hung
  BY DEF Dial
<1>11. PrepAnswer => UNCHANGED hung
  BY DEF PrepAnswer
<1>12. AnswerCommand => UNCHANGED hung
  BY DEF AnswerCommand
<1>13. Off => UNCHANGED hung
  BY DEF Off
<1>14. CardSetup => UNCHANGED hung
  BY DEF CardSetup
<1>15. NoProt => UNCHANGED hung
  BY DEF NoProt
<1>16. StackDown => UNCHANGED hung
  BY DEF StackDown
<1>17. FakeOpen => UNCHANGED hung
  BY DEF FakeOpen
<1>18. Opened => UNCHANGED hung
  BY DEF Opened
<1>19. Closed => UNCHANGED hung
  BY DEF Closed
<1>20. DetachedByLayer2 => UNCHANGED hung
  BY DEF DetachedByLayer2
<1>21. StackDisconnects => UNCHANGED hung
  BY DEF StackDisconnects
<1>22. StackSetsUp => UNCHANGED hung
  BY DEF StackSetsUp
<1> QED BY <1>1, <1>2, <1>3, <1>4, <1>5, <1>6, <1>7, <1>8, <1>9, <1>10, <1>11, <1>12,
           <1>13, <1>14, <1>15, <1>16, <1>17, <1>18, <1>19, <1>20, <1>21,
           <1>22 DEF Next, vars

(* The inductive invariant: between two handlers the connection is Good.   *)
THEOREM GoodAlways == Spec => []IInv
<1>1. Init => IInv
  BY InitGood
<1>2. IInv /\ [Next]_vars => IInv'
  <2> SUFFICES ASSUME IInv, [Next]_vars PROVE IInv'
    OBVIOUS
  <2>1. Kept /\ hung' \in BOOLEAN
    BY StepKept, HungKept
  <2> QED BY <2>1 DEF IInv, Kept
<1> QED BY <1>1, <1>2, PTL DEF Spec

(* The record stays well-formed, and the flags of its attachment, its      *)
(* protocol stack and its device fit together, for any choice of protocols *)
(* and of the rarer steps.                                                 *)
THEOREM TypesKept == Spec => []TypeOK
<1>1. IInv => TypeOK
  BY SoundIs DEF IInv, Good, Fits, TypeOK
<1> QED BY <1>1, GoodAlways, PTL

(* The timers of a call are those of its state, noted and, while the link  *)
(* is up, pending: no call waits in a state that nothing ends.             *)
THEOREM TimersKept == Spec => []TimersMatch
<1>1. IInv => TimersMatch
  BY SoundIs DEF IInv, Good, Timed, Loose, TimersMatch
<1> QED BY <1>1, GoodAlways, PTL

(* isdn3_killconn: a connection that is freed is one the network does not  *)
(* hold any more.                                                          *)
THEOREM NothingForgotten == Spec => []NotForgotten
<1>1. IInv => NotForgotten
  BY SoundIs DEF IInv, Good, Known, NotForgotten
<1> QED BY <1>1, GoodAlways, PTL

(* A connection in state 0, which isdn3_findconn does not see, waits for   *)
(* its delayed disconnection and nothing else.                             *)
THEOREM NoZombies == Spec => []NoZombie
<1>1. IInv => NoZombie
  BY DEF IInv, Good, Alive, NoZombie
<1> QED BY <1>1, GoodAlways, PTL

(* 1TR6 frees no connection record a pending callout points to.            *)
THEOREM NothingDangles == Spec => []NoDangling
<1>1. IInv => NoDangling
  BY SoundIs DEF IInv, Good, Sane, NoDangling
<1> QED BY <1>1, GoodAlways, PTL

(* 1TR6: a call that is being cleared is never taken up again, whichever   *)
(* message, timer, command or event comes next.                            *)
THEOREM ClearedStays == Spec => StaysCleared
<1> DEFINE A == c.prot = "1TR6" /\ c.ex /\ c'.ex /\ c.st \in {11, 12, 19, 99}
                => c'.st \in {0, 11, 12, 19, 99} /\ c'.told \notin {"incoming", "conn"}
<1>1. IInv /\ [Next]_vars => [A]_vars
  <2> SUFFICES ASSUME IInv, [Next]_vars, c.prot = "1TR6", c.ex, c'.ex,
                      c.st \in {11, 12, 19, 99}
               PROVE  c'.st \in {0, 11, 12, 19, 99} /\ c'.told \notin {"incoming", "conn"}
    OBVIOUS
  <2>1. Good(c') /\ Stays(c, c')
    BY StepKept DEF Kept
  <2>2. c'.st \in Ending
    BY <2>1 DEF Stays, Ending
  <2>3. c'.told \notin {"incoming", "conn"}
    BY <2>1, <2>2, SoundIs DEF Good, Heard
  <2> QED BY <2>2, <2>3 DEF Ending
<1>2. Spec => [][A]_vars
  BY <1>1, GoodAlways, PTL DEF Spec
<1> QED BY <1>2 DEF StaysCleared
=============================================================================
