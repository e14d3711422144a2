------------------------------- MODULE Daemon -------------------------------
(***************************************************************************)
(* A permanent connection, from the daemon to the call: the daemon's       *)
(* record (Conninfo), the reconnect module on the program's stream         *)
(* (Reconn), and between them layer 3, here only as the place where calls  *)
(* exist (Calls models it in full).  Daemon and layer 3 talk through the   *)
(* monitor device: commands wait in "down", indications in "up", so each   *)
(* side acts on a state the other may have left.                           *)
(***************************************************************************)
EXTENDS Conninfo, FiniteSets

CONSTANTS Refs,        \* connection numbers, a bound on the calls at a time
          MaxQueue,    \* nothing new happens while as many messages wait
          Budget,      \* of the rarer steps in a behaviour
          Cost         \* what each of them takes from it

Rare == {"incoming", "callback", "charge", "program", "kill", "freeze", "drop", "idle",
         "levels", "short", "notfound", "leased", "dialerror", "nopush", "flush", "starting"}
ASSUME DaemonAssumption ==
  Refs \subseteq Nat \ {0} /\ MaxQueue \in Nat /\ Budget \in Nat /\ Cost \in [Rare -> Nat]

VARIABLES d,        \* the daemon's record
          r,        \* the reconnect module
          calls,    \* the calls of layer 3
          cur,      \* minor2conn: the call on the program's device, or 0
          dev,      \* the device is open
          sent,     \* minorflags: what the stream was told last
          down, up, \* commands to layer 3, indications to the daemon
          dead,     \* the daemon has exited
          rare      \* what the rarer steps so far have taken
vars == <<d, r, calls, cur, dev, sent, down, up, dead, rare>>

R == INSTANCE Reconn

(* A rarer step, one whose rarer outcome is b, and a sum of outcomes. *)
Rarely(h) == rare + Cost[h] <= Budget /\ rare' = rare + Cost[h]
May(h) == IF rare + Cost[h] <= Budget THEN BOOLEAN ELSE {FALSE}
Count(n) == rare' = rare + n
Price(b, h) == IF b THEN Cost[h] ELSE 0

(* A call: how far layer 3 has brought it ("ringing" and "answered" for an *)
(* incoming one, "setup" for one that is dialled, then "listen", "conn",   *)
(* "clearing"), whether its protocol stack is set up ("no", "asked",       *)
(* "ready"), whether it is bound to the device, and MS_NOMINOR ("quiet").  *)
NoCall ==
  [st |-> "none", proto |-> "no", minor |-> FALSE, quiet |-> FALSE, charge |-> FALSE]
Ind(ind, ref, minor) ==
  [ind |-> ind, ref |-> ref, minor |-> minor, charge |-> FALSE, force |-> FALSE]

(* Connection numbers are never used twice; here a number is free again    *)
(* when nothing refers to it.                                              *)
Used == {d.ref, cur} \cup {x \in Refs : calls[x].st # "none"}
        \cup {down[i].ref : i \in DOMAIN down} \cup {up[i].ref : i \in DOMAIN up}
Free == Refs \ Used
Fresh == IF Free = {} THEN 0 ELSE CHOOSE x \in Free : \A y \in Free : x <= y
Room == Len(up) + Len(down) < MaxQueue

-----------------------------------------------------------------------------
(* A step of the daemon: the commands it wrote go to layer 3. *)
Plain == [d EXCEPT !.next = Fresh]
Ready ==
  {Plain} \cup {[Plain EXCEPT !.found = ~b] : b \in May("notfound")}
          \cup {[Plain EXCEPT !.levels = b] : b \in May("levels")}
          \cup {[Plain EXCEPT !.pushes = ~b] : b \in May("nopush")}
          \cup {[Plain EXCEPT !.short = b] : b \in May("short")}
Unusual(e) ==
  Price(~e.found, "notfound") + Price(~e.pushes, "nopush") + Price(e.levels, "levels") + Price(e.short, "short")
Commit(e) ==
  /\ \A i \in DOMAIN e.out : e.out[i].cmd = "DIAL" => e.out[i].ref # 0
  /\ d' = [e EXCEPT !.found = TRUE, !.pushes = TRUE, !.levels = FALSE, !.short = FALSE, !.next = 0, !.out = <<>>,
                    !.hup = @ /\ e.pid]
  /\ down' = down \o e.out

Dispatch(e, m) ==
  CASE m.ind = "CONN" -> Conn(e)
    [] m.ind = "CARDPROTO" -> CardProto(e, m)
    [] m.ind = "DISCONNECTING" -> DiscRun(e, c_going_down, m.force)
    [] m.ind = "DISCONNECT" -> Disc(e, m.force)
    [] m.ind = "CLOSE" -> LoseDevice(e)
    [] m.ind = "ERR" -> Error(e, m)
    [] m.ind = "INFO" -> GetInfo(e)
    [] m.ind = "HAS_ENABLE" -> HasEnable(e)
    [] m.ind = "HAS_DISABLE" -> HasDisable(e)
    [] m.ind = "HAS_CONNECTED" -> HasConnected(e)
    [] m.ind = "PROTO_DISCONNECT" -> Disconnect(e)
    [] m.ind = "HAS_DISCONNECT" -> HasDisconnect(e)
    [] m.ind = "HAS_LISTEN" -> e
    [] m.ind = "WANT_CONNECTED" -> WantConnect(e, m.force)

(* do_info for a message no record matches. *)
Unclaimed(e, m) ==
  CASE m.ind = "CARDPROTO" -> IF e.found THEN PushProt(e, m.ref) ELSE Say(e, "OFF", m.ref)
    [] m.ind = "ERR" /\ m.minor -> Say(e, "CLOSE", 0)
    [] m.ind \in {"PROTO_DISCONNECT", "HAS_DISCONNECT"} -> Say(e, "OFF", 0)
    [] OTHER -> e

(* IND_INCOMING: an incoming call for this site is served by this record   *)
(* while its program has the device open, else by a program of its own.    *)
(* runprog also handles indications (backrun) while it waits, with the     *)
(* record locked; a call that arrives then is a rarer step, "starting".    *)
Modes(m) ==
  {"plain"} \cup (IF m.ind = "INCOMING" /\ TRUE \in May("callback")
                  THEN {"prefout", "forceout"} ELSE {})
Serves(e) == e.ex /\ e.ign = 0 /\ e.pid /\ e.minor
Info ==
  /\ up # <<>>
  /\ up' = Tail(up)
  /\ LET m == Head(up)
         early == d.lock /\ m.ind = "INCOMING"
     IN  \E e \in Ready, mode \in Modes(m) :
           /\ early => TRUE \in May("starting")
           /\ Count(Unusual(e) + Price(mode # "plain", "callback") + Price(early, "starting"))
           /\ Commit(IF m.ind = "INCOMING"
                     THEN IF e.found /\ Serves(e) THEN Incoming(e, m.ref, mode)
                          ELSE Say(e, "OFF", m.ref)
                     ELSE IF Matches(e, m) THEN Dispatch(FindConn(e, m), m)
                     ELSE Unclaimed(e, m))
  /\ UNCHANGED <<r, calls, cur, dev, sent, dead>>

(* Callouts of the daemon. *)
Callout ==
  /\ \E e \in Ready :
       /\ Count(Unusual(e))
       /\ \/ d.ign = 0 /\ d.retime /\ Commit(Retime(e))
          \/ d.ign = 0 /\ d.trec /\ Commit(TimeReconn(e))
          \/ d.ign = 1 /\ Unusual(e) = 0 /\ Commit(RDropConn(e))
  /\ UNCHANGED <<r, calls, cur, dev, sent, up, dead>>
Nodown ==
  /\ d.nd > 0
  /\ dead' = TRUE
  /\ UNCHANGED <<d, r, calls, cur, dev, sent, down, up, rare>>

-----------------------------------------------------------------------------
(* The program of the connection: run_now and runprog, before and after    *)
(* the program has opened its device.  runprog locks the record, forks,    *)
(* and waits for the child in backrun, where other things go on.  A child  *)
(* that fails before it has opened the device is not modelled.             *)
NewProgram ==
  [NoRecord EXCEPT !.ex = TRUE, !.lock = TRUE, !.st = c_down, !.pid = TRUE, !.minor = TRUE]
Launch ==
  /\ ~d.ex /\ dev = "closed" /\ down = <<>> /\ up = <<>> /\ \A x \in Refs : ~calls[x].minor
  /\ Commit(NewProgram) /\ dev' = "open"
  /\ UNCHANGED <<r, calls, cur, sent, up, dead, rare>>
Launched ==
  /\ d.lock
  /\ \E e \in Ready :
       /\ Count(Unusual(e))
       /\ LET a == [e EXCEPT !.lock = FALSE]
              b == IF a.st > c_off THEN SetConnState(a, c_down) ELSE a
              there == b.minor /\ b.pid
          IN  /\ Commit(IF ~b.minor /\ ~b.pid THEN DropConn(b)
                        ELSE IF ~there THEN b
                        ELSE IF ~b.pushes THEN LoseDevice(Say(b, "CLOSE", 0))
                        ELSE SetConnState([b EXCEPT !.setup = TRUE], c_down))
              /\ r' = IF there /\ b.pushes /\ dev # "closed" THEN R!Opened ELSE r
  /\ UNCHANGED <<calls, cur, dev, sent, up, dead>>

(* deadkid; the kernel closes the device of a program that has ended. *)
ProgramEnds ==
  /\ d.pid
  /\ IF d.hup \/ dev # "open" THEN UNCHANGED rare ELSE Rarely("program")
  /\ LET e == [d EXCEPT !.pid = FALSE]
     IN  Commit(IF e.minor THEN e ELSE DropConn(e))
  /\ UNCHANGED <<r, calls, cur, dev, sent, up, dead>>
DeviceCloses ==
  /\ dev # "closed" /\ Room
  /\ ~d.pid \/ d.hup \/ dev = "hungup"
  /\ dev' = "closed" /\ r' = R!NoReconn /\ sent' = "none"
  /\ up' = Append(up, Ind("CLOSE", 0, TRUE))
  /\ calls' = IF cur = 0 THEN calls
              ELSE [calls EXCEPT ![cur].st = "clearing", ![cur].proto = "no"]
  /\ cur' = 0
  /\ UNCHANGED <<d, down, dead, rare>>

(* AT commands of the user. *)
Reenable ==      \* AT/B
  /\ d.ex /\ d.ign = 0 /\ d.minor /\ d.st = c_off /\ Room
  /\ \E e \in Ready : Count(Unusual(e)) /\ Commit(SetConnState([e EXCEPT !.retries = 0], c_down))
  /\ UNCHANGED <<r, calls, cur, dev, sent, up, dead>>
Drop ==          \* AT/X
  /\ Rarely("drop") /\ d.ex /\ d.ign = 0 /\ d.minor /\ d.st >= c_going_up
  /\ Room
  /\ Commit(Say(SetConnState(Plain, c_down), "OFF", 0))
  /\ UNCHANGED <<r, calls, cur, dev, sent, up, dead>>
Freeze ==        \* AT/F
  /\ Rarely("freeze") /\ d.ex /\ d.ign = 0 /\ d.minor
  /\ d.st >= c_going_up \/ d.st = c_down
  /\ Room
  /\ Commit(Say(SetConnState(Plain, c_forceoff), "OFF", 0))
  /\ UNCHANGED <<r, calls, cur, dev, sent, up, dead>>
Kill ==          \* AT/K
  /\ Rarely("kill") /\ d.ex /\ d.ign = 0 /\ d.minor /\ d.pid /\ Room
  /\ Commit([Say(d, "CLOSE", 0) EXCEPT !.minor = FALSE])
  /\ UNCHANGED <<r, calls, cur, dev, sent, up, dead>>

-----------------------------------------------------------------------------
(* Layer 3 passes the messages of the stream to the daemon. *)
Passed(s, ref) == [i \in DOMAIN s.up |-> Ind(s.up[i], ref, TRUE)]
Still(s) == [s EXCEPT !.up = <<>>]
Tells(s, ref) == r' = Still(s) /\ up' = up \o Passed(s, ref)

(* isdn3_setup_conn tells the stream how far the call x has come: what was *)
(* told last is not repeated, and a call with MS_NOMINOR says nothing.     *)
Speaks(x) == calls[x].minor /\ ~calls[x].quiet /\ r.on
Drops(x) == Speaks(x) /\ sent \in {"listen", "conn"}
Dropped(s, x) == IF Drops(x) THEN R!Disconnect(s) ELSE s
SentAfter(x) == IF Drops(x) THEN "none" ELSE sent
Turns(x, id) == Speaks(x) /\ calls[x].proto = "ready" /\ sent # id
Exists(x) == x # 0 /\ calls[x].st # "none"
Away(c, st) == [c EXCEPT !.st = st, !.proto = "no"]

(* IND_CARDPROTO is sent once the channel of the call is known. *)
Asks == dev # "closed"
Asked(c) == IF Asks /\ c.proto = "no" THEN [c EXCEPT !.proto = "asked"] ELSE c
CardProtoInd(x) == IF Asks /\ calls[x].proto = "no" THEN <<Ind("CARDPROTO", x, TRUE)>> ELSE <<>>

(* scan_at, isdn_3.c: a command m for the call x. *)
DialCommand(m, x) ==
  /\ m.cmd = "DIAL"
  /\ calls' = [calls EXCEPT ![x].st = "setup", ![x].minor = TRUE]
  /\ cur' = x
  /\ UNCHANGED <<r, up, dev, sent, rare>>
AnswerCommand(m, x) ==
  /\ m.cmd = "ANSWER" /\ Exists(x) /\ calls[x].st = "ringing"
  /\ calls' = [calls EXCEPT ![x] = Asked([@ EXCEPT !.st = "answered", !.minor = TRUE])]
  /\ cur' = x /\ up' = up \o CardProtoInd(x)
  /\ UNCHANGED <<r, dev, sent, rare>>
FailedCommand(m, x) ==
  /\ \/ m.cmd = "DIAL" /\ Rarely("dialerror")
     \/ /\ \/ m.cmd = "ANSWER" /\ ~(Exists(x) /\ calls[x].st = "ringing")
           \/ m.cmd = "CARDSETUP" /\ ~(Exists(x) /\ calls[x].proto = "asked")
        /\ UNCHANGED rare
  /\ up' = Append(up, Ind("ERR", x, TRUE))
  /\ UNCHANGED <<r, calls, cur, dev, sent>>
OffCommand(m, x) ==
  /\ m.cmd \in {"OFF", "OFFNODISC"}
  /\ IF ~Exists(x) THEN UNCHANGED <<r, up, calls, sent>>
     ELSE IF m.cmd = "OFFNODISC"
     THEN calls' = [calls EXCEPT ![x] = [Away(@, "clearing") EXCEPT !.quiet = TRUE]]
          /\ UNCHANGED <<r, up, sent>>
     ELSE /\ calls' = [calls EXCEPT ![x] = Away(@, "clearing")]
          /\ Tells(Dropped(r, x), cur) /\ sent' = SentAfter(x)
  /\ UNCHANGED <<cur, dev, rare>>

(* The stack of the call is set up: the stream learns the direction, and   *)
(* how far the call is.  An incoming call is answered only now.            *)
SetupCommand(m, x) ==
  /\ m.cmd = "CARDSETUP" /\ Exists(x) /\ calls[x].proto = "asked"
  /\ LET st == IF calls[x].st = "answered" THEN "listen" ELSE calls[x].st
         says == Speaks(x) /\ (calls[x].st = "answered" \/ sent # st)
     IN  /\ calls' = [calls EXCEPT ![x].proto = "ready", ![x].st = st]
         /\ \E answered \in BOOLEAN :
              LET s == IF r.on THEN R!Direction(r, answered) ELSE r
              IN  Tells(IF ~says THEN s ELSE IF st = "conn" THEN R!Connected(s) ELSE R!Listen(s), x)
         /\ sent' = IF says THEN st ELSE sent
  /\ UNCHANGED <<cur, dev, rare>>
ProtCommand(m) ==
  /\ m.cmd \in {"ENABLE", "DISABLE"}
  /\ Tells(IF ~r.on THEN r ELSE IF m.cmd = "ENABLE" THEN R!Enable(r) ELSE R!Disable(r), cur)
  /\ UNCHANGED <<calls, cur, dev, sent, rare>>
CloseCommand(m) ==
  /\ m.cmd = "CLOSE"
  /\ dev' = IF dev = "open" THEN "hungup" ELSE dev
  /\ UNCHANGED <<r, calls, cur, sent, up, rare>>
Command ==
  /\ down # <<>>
  /\ down' = Tail(down)
  /\ LET m == Head(down)
         x == IF m.ref = 0 THEN cur ELSE m.ref
     IN  \/ DialCommand(m, x) \/ AnswerCommand(m, x) \/ FailedCommand(m, x) \/ OffCommand(m, x)
         \/ SetupCommand(m, x) \/ ProtCommand(m) \/ CloseCommand(m)
  /\ UNCHANGED <<d, dead>>

(* The network. *)
Rings ==
  /\ Rarely("incoming") /\ Free # {} /\ Room
  /\ \A x \in Refs : calls[x].st # "ringing"
  /\ calls' = [calls EXCEPT ![Fresh].st = "ringing"]
  /\ up' = Append(up, Ind("INCOMING", Fresh, FALSE))
  /\ UNCHANGED <<d, r, cur, dev, sent, down, dead>>
Proceeds ==       \* the network names the channel of an outgoing call
  \E x \in Refs :
    /\ calls[x].st = "setup" /\ Room
    /\ calls' = [calls EXCEPT ![x] = Asked([@ EXCEPT !.st = "listen"])]
    /\ up' = up \o CardProtoInd(x)
    /\ UNCHANGED <<d, r, cur, dev, sent, down, dead, rare>>
Connects ==
  \E x \in Refs :
    /\ calls[x].st \in {"setup", "listen"} /\ Room
    /\ calls' = [calls EXCEPT ![x] = Asked([@ EXCEPT !.st = "conn"])]
    /\ LET s == IF Turns(x, "conn") THEN R!Connected(r) ELSE r
       IN  /\ r' = Still(s)
           /\ up' = up \o <<Ind("CONN", x, TRUE)>> \o CardProtoInd(x) \o Passed(s, cur)
    /\ sent' = IF Turns(x, "conn") THEN "conn" ELSE sent
    /\ UNCHANGED <<d, cur, dev, down, dead, rare>>
Charges ==
  \E x \in Refs :
    /\ Rarely("charge") /\ ~calls[x].charge /\ Room
    /\ calls[x].st \in {"setup", "answered", "listen", "conn"}
    /\ calls' = [calls EXCEPT ![x].charge = TRUE]
    /\ up' = Append(up, [Ind("INFO", x, calls[x].minor) EXCEPT !.charge = TRUE])
    /\ UNCHANGED <<d, r, cur, dev, sent, down, dead>>
Clears ==
  \E x \in Refs :
    /\ calls[x].st \in {"setup", "answered", "listen", "conn"} /\ Room
    /\ calls' = [calls EXCEPT ![x] = Away(@, "clearing")]
    /\ LET s == Dropped(r, x)
       IN  /\ r' = Still(s)
           /\ up' = Append(up, Ind("DISCONNECTING", x, calls[x].minor)) \o Passed(s, cur)
    /\ sent' = SentAfter(x)
    /\ UNCHANGED <<d, cur, dev, down, dead, rare>>
Cleared ==
  \E x \in Refs :
    /\ calls[x].st \in {"clearing", "ringing"} /\ Room
    /\ calls' = [calls EXCEPT ![x] = NoCall]
    /\ cur' = IF cur = x THEN 0 ELSE cur
    /\ \E force \in May("leased") :
         /\ Count(Price(force, "leased"))
         /\ LET s == IF cur = x THEN Dropped(r, x) ELSE r
            IN  /\ r' = Still(s)
                /\ up' = Append(up, [Ind("DISCONNECT", x, calls[x].minor) EXCEPT !.force = force])
                         \o Passed(s, 0)
         /\ sent' = IF cur = x THEN SentAfter(x) ELSE sent
    /\ UNCHANGED <<d, dev, down, dead>>

-----------------------------------------------------------------------------
(* The stream of the program. *)
ProgramWrites ==
  /\ dev = "open" /\ d.pid /\ r.on /\ ~r.data
  /\ r' = R!Data(r)
  /\ UNCHANGED <<d, calls, cur, dev, sent, down, up, dead, rare>>
ProgramFlushes ==
  /\ Rarely("flush") /\ dev = "open" /\ d.pid /\ r.data
  /\ r' = R!Flush(r)
  /\ UNCHANGED <<d, calls, cur, dev, sent, down, up, dead>>
Service ==
  /\ r.sched
  /\ Tells(R!Serve(r), cur)
  /\ UNCHANGED <<d, calls, cur, dev, sent, down, dead, rare>>

(* timer.c below the reconnect module has seen no data for a while: layer  *)
(* 3 takes the PROTO_DISCONNECT that answers it as an end of the call, and *)
(* drops it when the stream was last told of an end.                       *)
Idle ==
  /\ Rarely("idle") /\ r.low = "on" /\ Room
  /\ LET s == R!WillDisconnect(r)
     IN  IF cur = 0 THEN Tells(s, 0) /\ UNCHANGED <<calls, sent>>
         ELSE IF sent = "none" THEN r' = Still(s) /\ UNCHANGED <<up, calls, sent>>
         ELSE /\ Tells(Dropped(s, cur), cur)
              /\ calls' = [calls EXCEPT ![cur].proto = "no"]
              /\ sent' = SentAfter(cur)
  /\ UNCHANGED <<d, cur, dev, down, dead>>

-----------------------------------------------------------------------------
Init ==
  /\ d = NoRecord /\ r = R!NoReconn /\ calls = [x \in Refs |-> NoCall] /\ cur = 0
  /\ dev = "closed" /\ sent = "none" /\ down = <<>> /\ up = <<>> /\ dead = FALSE /\ rare = 0

Next ==
  /\ ~dead
  /\ \/ Info \/ Callout \/ Nodown \/ Launch \/ Launched \/ ProgramEnds \/ DeviceCloses
     \/ Reenable \/ Drop \/ Freeze \/ Kill \/ Command
     \/ Rings \/ Proceeds \/ Connects \/ Charges \/ Clears \/ Cleared
     \/ ProgramWrites \/ ProgramFlushes \/ Service \/ Idle
Spec == Init /\ [][Next]_vars

-----------------------------------------------------------------------------
TypeOK ==
  /\ d.st \in 0..7 /\ d.ign \in 0..2 /\ d.wr \in 0..MaxReconn /\ d.nd \in Nat
  /\ d.retries \in 0..(Limit + 2) /\ d.out = <<>>
  /\ r.low \in {"off", "on", "going_down"} /\ r.up = <<>>
  /\ cur \in Refs \cup {0} /\ dev \in {"open", "hungup", "closed"}
  /\ sent \in {"none", "listen", "conn"} /\ dead \in BOOLEAN

Quiet == up = <<>> /\ down = <<>>
Serving ==
  Quiet /\ d.ex /\ d.ign = 0 /\ ~d.lock /\ ~dead /\ d.pid /\ ~d.hup /\ d.minor /\ d.setup
  /\ dev = "open"
Active(x) == calls[x].st \in {"setup", "answered", "listen", "conn"}


(* When all messages have arrived, a record that is off or in standby has  *)
(* no call that is being set up or connected: the daemon pays for no call  *)
(* it does not know of.                                                    *)
NoUnknownCall == Serving /\ d.st <= c_down => \A x \in Refs : ~Active(x)

(* A connection that goes up or down has a call whose end or progress will *)
(* take it out of that state.                                              *)
TransitEnds ==
  Serving /\ d.st \in {c_going_up, c_going_down, c_offdown} => Exists(d.ref) \/ Exists(cur)

(* A wish for another call (want_reconn) that outlives the attempt has a   *)
(* callout or a call left whose end repeats it.                            *)
WishKept == Serving /\ d.st = c_down /\ d.wr > 0 => d.trec \/ Exists(d.ref)

(* An attempt that fails after it has cost money turns the connection off, *)
(* whichever message reports the failure first (do_updown).                *)
CostlyFailureOff ==
  [][Info /\ d.st = c_going_up /\ d.charge /\ ~d.more /\ d'.ign = 0 /\ d'.ex
     => d'.st >= c_going_up \/ d'.st \in {c_off, c_forceoff}]_vars

(* DOKU: in standby a call is set up as soon as there is a packet: when    *)
(* all messages have arrived, data that wait in a connection that is down  *)
(* have a callout left that will dial.                                     *)
Standby == Serving /\ d.st = c_down /\ r.data /\ ~r.sched => d.trec /\ d.wr > 0

(* The daemon stops itself with "Verbindung geht nicht runter! Problem!    *)
(* Nothalt" only for a call that is still there.                           *)
Nothalt == dead => up # <<>> \/ \E x \in Refs : calls[x].st # "none"
=============================================================================
