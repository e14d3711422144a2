----------------------------- MODULE CapiProofs -----------------------------
(***************************************************************************)
(* Theorems about Capi: layer 4 is told of the end of a call before the    *)
(* record is freed, whichever of the messages of the card, the timers, the *)
(* commands and the link events comes when.                                *)
(***************************************************************************)
EXTENDS Capi, TLAPS

CallFields ==
  {"prot", "ex", "st", "run", "armed", "rep", "minor", "mapped", "bchan", "want", "detached",
   "nominor", "setup", "proto", "protosent", "stack", "tconn", "tdelay", "tend", "delaying",
   "hup", "pending", "open", "sent", "up", "att", "told", "net", "dangling",
   "wf", "plci", "cid", "ncci", "ch", "modlist", "hl", "lock"}
StackFields ==
  {"setup", "att", "detached", "protosent", "stack", "proto", "sent", "tconn", "tdelay"}
ViewFields == {"c", "card", "up", "mask", "boot", "linkup"}
IsCall(c) == DOMAIN c = CallFields /\ c = [f \in CallFields |-> c[f]] /\ c.stack \in 0 .. 3
IsView(v) == DOMAIN v = ViewFields /\ v = [f \in ViewFields |-> v[f]] /\ IsCall(v.c)

(* d differs from v in the fields V, and in the fields F of the call. *)
Touches(v, d, V, F) ==
  /\ IsView(d)
  /\ \A g \in ViewFields \ ({"c"} \cup V) : d[g] = v[g]
  /\ \A g \in CallFields \ F : d.c[g] = v.c[g]

(* d differs from c in the attachment, the stack and its watchdogs only. *)
Settles(c, d) == IsCall(d) /\ \A f \in CallFields \ StackFields : d[f] = c[f]

LEMMA SettlesOn ==
  ASSUME NEW c, NEW d, NEW e, Settles(c, d), Settles(d, e)
  PROVE  Settles(c, e)
BY DEF Settles

LEMMA SettlesItself ==
  ASSUME NEW c, IsCall(c)
  PROVE  Settles(c, c)
BY DEF Settles

LEMMA One ==
  ASSUME NEW c, IsCall(c), NEW f \in StackFields, NEW x, f = "stack" => x \in 0 .. 3
  PROVE  Settles(c, [c EXCEPT ![f] = x])
BY DEF Settles, IsCall, CallFields, StackFields

LEMMA SettledFields ==
  ASSUME NEW c, NEW d, Settles(c, d)
  PROVE  /\ d.ex = c.ex /\ d.st = c.st /\ d.run = c.run /\ d.armed = c.armed
         /\ d.told = c.told /\ d.wf = c.wf /\ d.plci = c.plci /\ d.cid = c.cid
         /\ d.ncci = c.ncci /\ d.modlist = c.modlist /\ d.hl = c.hl /\ d.lock = c.lock
         /\ d.tend = c.tend /\ d.minor = c.minor /\ d.up = c.up /\ d.ch = c.ch
         /\ d.bchan = c.bchan /\ d.mapped = c.mapped /\ d.open = c.open /\ d.hup = c.hup
         /\ d.delaying = c.delaying
BY DEF Settles, CallFields, StackFields

LEMMA AttachOK ==
  ASSUME NEW c, IsCall(c), NEW est
  PROVE  Settles(c, Attach(c, est))
BY DEF Attach, Settles, IsCall, CallFields, StackFields

LEMMA InitStackOK ==
  ASSUME NEW c, IsCall(c)
  PROVE  Settles(c, InitStack(c))
BY DEF InitStack, Settles, IsCall, CallFields, StackFields

LEMMA StopWatchOK ==
  ASSUME NEW c, IsCall(c)
  PROVE  Settles(c, StopWatch(c))
BY DEF StopWatch, Settles, IsCall, CallFields, StackFields

LEMMA WatchedOK ==
  ASSUME NEW c, IsCall(c), NEW n \in 0 .. 3
  PROVE  Settles(c, Watched(c, n))
<1>1. \E x : Watched(c, n) = [c EXCEPT !.stack = n, !.tconn = x]
  BY DEF Watched
<1> QED BY <1>1 DEF Settles, IsCall, CallFields, StackFields

LEMMA IntendOK ==
  ASSUME NEW c, IsCall(c), NEW est
  PROVE  Settles(c, Intend(c, est))
<1>1. CASE est = "DISCONNECT" \/ (est = "WILL_DISCONNECT" /\ ~(c.minor /\ c.proto))
  <2> DEFINE a == StopWatch(c)
  <2>1. Settles(c, a)
    BY StopWatchOK
  <2>2. Intend(c, est) = [a EXCEPT !.proto = FALSE, !.protosent = FALSE, !.stack = 0]
    BY <1>1 DEF Intend
  <2>0. 0 \in 0 .. 3
    OBVIOUS
  <2>3. ASSUME NEW b, IsCall(b)
        PROVE  Settles(b, [b EXCEPT !.proto = FALSE, !.protosent = FALSE, !.stack = 0])
    BY <2>0, <2>3 DEF Settles, IsCall, CallFields, StackFields
  <2> HIDE DEF a
  <2>4. IsCall(a)
    BY <2>1 DEF Settles
  <2> QED BY <2>1, <2>2, <2>3, <2>4, SettlesOn
<1>2. CASE est = "CONNECT"
  <2> DEFINE a == [c EXCEPT !.tdelay = @ \/ c.stack # 3]
  <2>1. Intend(c, est) = Watched(a, 3)
    BY <1>2 DEF Intend
  <2>2. Settles(c, a)
    <3>1. \E x : a = [c EXCEPT !.tdelay = x]
      OBVIOUS
    <3> HIDE DEF a
    <3> QED BY <3>1 DEF Settles, IsCall, CallFields, StackFields
  <2> HIDE DEF a
  <2>3. Settles(a, Watched(a, 3))
    BY <2>2, WatchedOK DEF Settles
  <2> QED BY <2>1, <2>2, <2>3, SettlesOn
<1>3. CASE est \in {"SETUP", "LISTEN"}
  BY <1>3, WatchedOK DEF Intend
<1>4. CASE ~(est = "DISCONNECT" \/ (est = "WILL_DISCONNECT" /\ ~(c.minor /\ c.proto)))
           /\ est \notin {"CONNECT", "SETUP", "LISTEN"}
  BY <1>4, SettlesItself DEF Intend
<1> QED BY <1>1, <1>2, <1>3, <1>4

LEMMA TellStackOK ==
  ASSUME NEW c, IsCall(c)
  PROVE  Settles(c, TellStack(c))
<1> DEFINE d == TellStack(c)
<1>1. \/ d = c
      \/ \E n : d = [c EXCEPT !.sent = n]
      \/ d = [c EXCEPT !.sent = 3, !.tconn = FALSE]
  <2>1. c.stack = 0 \/ c.stack = 1 \/ c.stack = 2 \/ c.stack = 3
    BY DEF IsCall
  <2>2. CASE ~c.minor \/ c.nominor
    BY <2>2 DEF TellStack
  <2>3. CASE c.minor /\ ~c.nominor /\ c.stack = 0
    <3>1. d = [c EXCEPT !.sent = IF @ >= 2 THEN 0 ELSE @]
      BY <2>3 DEF TellStack
    <3> QED BY <3>1
  <2>4. CASE c.minor /\ ~c.nominor /\ (c.stack = 1 \/ c.stack = 2)
    <3>1. d = [c EXCEPT !.sent = IF c.proto THEN c.stack ELSE @]
      BY <2>4 DEF TellStack
    <3> QED BY <3>1
  <2>5. CASE c.minor /\ ~c.nominor /\ c.stack = 3
    BY <2>5 DEF TellStack
  <2> QED BY <2>1, <2>2, <2>3, <2>4, <2>5
<1> HIDE DEF d
<1>2. CASE d = c
  BY <1>2, SettlesItself DEF d
<1>3. CASE \E n : d = [c EXCEPT !.sent = n]
  <2>1. Settles(c, d)
    BY <1>3 DEF Settles, IsCall, CallFields, StackFields
  <2> QED BY <2>1 DEF d
<1>4. CASE d = [c EXCEPT !.sent = 3, !.tconn = FALSE]
  <2>1. Settles(c, d)
    BY <1>4 DEF Settles, IsCall, CallFields, StackFields
  <2> QED BY <2>1 DEF d
<1> QED BY <1>1, <1>2, <1>3, <1>4

LEMMA DetachOK ==
  ASSUME NEW c, IsCall(c), NEW before, NEW est
  PROVE  Settles(c, Detach(c, before, est))
<1> DEFINE a == StopWatch(c)
<1>1. Settles(c, a) /\ IsCall(a)
  BY StopWatchOK DEF Settles
<1>2. \/ Detach(c, before, est) = c
      \/ Detach(c, before, est)
         = [a EXCEPT !.setup = 0, !.detached = TRUE, !.proto = FALSE,
                     !.att = IF c.detached THEN @ ELSE 0]
  BY DEF Detach
<1>3. ASSUME NEW b, IsCall(b), NEW x
      PROVE  Settles(b, [b EXCEPT !.setup = 0, !.detached = TRUE, !.proto = FALSE, !.att = x])
  BY <1>3 DEF Settles, IsCall, CallFields, StackFields
<1> HIDE DEF a
<1>4. Settles(a, [a EXCEPT !.setup = 0, !.detached = TRUE, !.proto = FALSE,
                           !.att = IF c.detached THEN @ ELSE 0])
  BY <1>1, <1>3
<1> QED BY <1>1, <1>2, <1>4, SettlesItself, SettlesOn

(* isdn3_setup_conn leaves the call alone. *)
LEMMA SetupPlainOK ==
  ASSUME NEW c, IsCall(c), NEW est
  PROVE  Settles(c, SetupPlain(c, est))
<1> DEFINE a == Attach(c, est)
           b == InitStack(a)
           d == [b EXCEPT !.detached = @ /\ est \notin {"SETUP", "LISTEN", "CONNECT"}]
           e == Intend(d, est)
           f == TellStack(e)
<1>1. Settles(c, a)
  BY AttachOK
<1>2. Settles(a, b)
  BY <1>1, InitStackOK DEF Settles
<1>3. Settles(b, d)
  <2>1. \E x : d = [b EXCEPT !.detached = x]
    OBVIOUS
  <2>2. IsCall(b)
    BY <1>2 DEF Settles
  <2> HIDE DEF b, d
  <2> QED BY <2>1, <2>2 DEF Settles, IsCall, CallFields, StackFields
<1>4. Settles(d, e)
  BY <1>3, IntendOK DEF Settles
<1>5. Settles(e, f)
  BY <1>4, TellStackOK DEF Settles
<1>6. Settles(f, Detach(f, d, est))
  BY <1>5, DetachOK DEF Settles
<1>7. SetupPlain(c, est) = Detach(f, d, est)
  BY DEF SetupPlain, FollowUp
<1> HIDE DEF a, b, d, e, f
<1> QED BY <1>1, <1>2, <1>3, <1>4, <1>5, <1>6, <1>7, SettlesOn

-----------------------------------------------------------------------------
(* What the operators on a view leave alone. *)
LEMMA TouchesItself ==
  ASSUME NEW v, IsView(v), NEW V, NEW F
  PROVE  Touches(v, v, V, F)
BY DEF Touches

LEMMA TouchesOn ==
  ASSUME NEW v, NEW d, NEW e, NEW V, NEW F, Touches(v, d, V, F), Touches(d, e, V, F)
  PROVE  Touches(v, e, V, F)
BY DEF Touches

LEMMA TouchesMore ==
  ASSUME NEW v, NEW d, NEW V, NEW F, NEW W, NEW G,
         V \subseteq W, F \subseteq G, Touches(v, d, V, F)
  PROVE  Touches(v, d, W, G)
BY DEF Touches

LEMMA TouchesThen ==
  ASSUME NEW v, NEW d, NEW e, NEW V, NEW F, NEW W, NEW G,
         Touches(v, d, V, F), Touches(d, e, W, G)
  PROVE  Touches(v, e, V \cup W, F \cup G)
BY DEF Touches

LEMMA Put ==
  ASSUME NEW v, IsView(v), NEW f \in CallFields \ {"stack"}, NEW x
  PROVE  LET d == [v EXCEPT !.c[f] = x] IN Touches(v, d, {}, {f}) /\ d.c[f] = x
BY DEF Touches, IsView, IsCall, ViewFields, CallFields

LEMMA PutView ==
  ASSUME NEW v, IsView(v), NEW f \in ViewFields \ {"c"}, NEW x
  PROVE  LET d == [v EXCEPT ![f] = x] IN Touches(v, d, {f}, {}) /\ d[f] = x
BY DEF Touches, IsView, ViewFields

LEMMA PutCall ==
  ASSUME NEW v, IsView(v), NEW c, IsCall(c)
  PROVE  IsView(With(v, c)) /\ With(v, c).c = c
         /\ \A g \in ViewFields \ {"c"} : With(v, c)[g] = v[g]
BY DEF With, IsView, ViewFields

LEMMA EstOK ==
  ASSUME NEW v, IsView(v), NEW est
  PROVE  Touches(v, Est(v, est), {}, StackFields)
<1> DEFINE c == SetupPlain(v.c, est)
<1>1. Settles(v.c, c) /\ IsCall(c)
  BY SetupPlainOK DEF IsView, Settles
<1>2. Est(v, est) = With(v, c)
  BY DEF Est
<1> HIDE DEF c
<1> QED BY <1>1, <1>2, PutCall DEF Touches, Settles

Ended == {"disconnecting", "disconnect"}
LEMMA ToldOK ==
  ASSUME NEW v, IsView(v)
  PROVE  Touches(v, Told(v), {}, {"told"}) /\ Told(v).c.told \in Ended
<1>1. PICK x \in Ended : Terminated(v.c) = [v.c EXCEPT !.told = x]
  BY DEF Terminated, Ended
<1>2. Told(v) = With(v, [v.c EXCEPT !.told = x])
  BY <1>1 DEF Told
<1> DEFINE c == [v.c EXCEPT !.told = x]
<1>3. IsCall(c) /\ c.told = x /\ \A g \in CallFields \ {"told"} : c[g] = v.c[g]
  BY DEF IsView, IsCall, CallFields
<1> HIDE DEF c
<1>4. /\ IsView(With(v, c)) /\ With(v, c).c = c
      /\ \A g \in ViewFields \ {"c"} : With(v, c)[g] = v[g]
  BY <1>3, PutCall
<1>5. Told(v) = With(v, c)
  BY <1>2 DEF c
<1> QED BY <1>3, <1>4, <1>5 DEF Touches

ChannelFields == {"ch", "bchan"} \cup StackFields
LEMMA FreeChannelOK ==
  ASSUME NEW v, IsView(v)
  PROVE  Touches(v, FreeChannel(v), {"mask"}, ChannelFields)
<1>1. ASSUME NEW m
      PROVE  Touches(v, [v EXCEPT !.mask = m, !.c.ch = 0, !.c.bchan = FALSE], {"mask"}, ChannelFields)
  <2> DEFINE a == [v EXCEPT !.mask = m]
             b == [a EXCEPT !.c.ch = 0]
             d == [b EXCEPT !.c.bchan = FALSE]
  <2>1. Touches(v, a, {"mask"}, ChannelFields) /\ IsView(a)
    <3>1. Touches(v, a, {"mask"}, {})
      BY PutView DEF ViewFields
    <3> HIDE DEF a
    <3> QED BY <3>1 DEF Touches
  <2>2. [v EXCEPT !.mask = m, !.c.ch = 0, !.c.bchan = FALSE] = d
    OBVIOUS
  <2> HIDE DEF a
  <2>3. Touches(a, b, {}, {"ch"}) /\ IsView(b)
    <3>1. Touches(a, b, {}, {"ch"})
      BY <2>1, Put DEF CallFields
    <3> HIDE DEF b
    <3> QED BY <3>1 DEF Touches
  <2> HIDE DEF b
  <2>4. Touches(b, d, {}, {"bchan"})
    BY <2>3, Put DEF CallFields
  <2> HIDE DEF d
  <2> QED BY <2>1, <2>2, <2>3, <2>4 DEF Touches, ChannelFields
<1>2. Touches(v, v, {"mask"}, ChannelFields)
  BY TouchesItself
<1> QED BY <1>1, <1>2 DEF FreeChannel

LEMMA ClaimChannelOK ==
  ASSUME NEW v, IsView(v), NEW s
  PROVE  Touches(v, ClaimChannel(v, s), {"mask"}, ChannelFields)
<1>1. ClaimChannel(v, s) = v \/ \E k : ClaimChannel(v, s) = [v EXCEPT !.c.ch = k]
  BY DEF ClaimChannel
<1>2. ASSUME NEW k PROVE Touches(v, [v EXCEPT !.c.ch = k], {"mask"}, ChannelFields)
  <2>1. Touches(v, [v EXCEPT !.c.ch = k], {}, {"ch"})
    BY Put DEF CallFields
  <2>2. {} \subseteq {"mask"} /\ {"ch"} \subseteq ChannelFields
    BY DEF ChannelFields
  <2> QED BY <2>1, <2>2, TouchesMore
<1>3. Touches(v, v, {"mask"}, ChannelFields)
  BY TouchesItself
<1> QED BY <1>1, <1>2, <1>3

LEMMA UseChannelOK ==
  ASSUME NEW v, IsView(v), NEW s
  PROVE  Touches(v, UseChannel(v, s), {"mask"}, ChannelFields)
<1> DEFINE e == [v EXCEPT !.c.bchan = TRUE, !.mask = @ \cup {v.c.ch}]
<1>1. Touches(v, e, {"mask"}, ChannelFields) /\ IsView(e)
  <2> DEFINE a == [v EXCEPT !.c.bchan = TRUE]
             m == v.mask \cup {v.c.ch}
             b == [a EXCEPT !.mask = m]
  <2>1. Touches(v, a, {}, {"bchan"})
    BY Put DEF CallFields
  <2>2. e = b
    OBVIOUS
  <2> HIDE DEF a, e, m
  <2>3. Touches(a, b, {"mask"}, {})
    BY <2>1, PutView DEF ViewFields, Touches
  <2> HIDE DEF b
  <2> QED BY <2>1, <2>2, <2>3 DEF Touches, ChannelFields
<1>2. ASSUME NEW d, IsView(d), NEW est
      PROVE  Touches(d, Est(d, est), {"mask"}, ChannelFields)
  BY <1>2, EstOK, TouchesMore DEF ChannelFields
<1>3. \/ UseChannel(v, s) = v
      \/ \E est : UseChannel(v, s) = Est(v, est)
      \/ \E est : UseChannel(v, s) = Est(e, est)
  <2>1. CASE v.c.ch = 0
    BY <2>1 DEF UseChannel
  <2>2. CASE v.c.ch # 0 /\ v.c.bchan
    BY <2>2 DEF UseChannel
  <2>3. CASE v.c.ch # 0 /\ ~v.c.bchan
    BY <2>3 DEF UseChannel
  <2> QED BY <2>1, <2>2, <2>3
<1> HIDE DEF e
<1>4. ASSUME NEW est PROVE Touches(v, Est(e, est), {"mask"}, ChannelFields)
  BY <1>1, <1>2, TouchesOn
<1>5. Touches(v, v, {"mask"}, ChannelFields)
  BY TouchesItself
<1> QED BY <1>2, <1>3, <1>4, <1>5

LEMMA InChannelOK ==
  ASSUME NEW v, IsView(v), NEW s
  PROVE  Touches(v, InChannel(v, s), {"mask"}, ChannelFields)
<1>1. CASE s \in {0, 99}
  BY <1>1, FreeChannelOK DEF InChannel
<1>2. CASE s \notin {0, 99}
  <2> DEFINE d == ClaimChannel(v, s)
  <2>1. Touches(v, d, {"mask"}, ChannelFields) /\ IsView(d)
    BY ClaimChannelOK DEF Touches
  <2>2. InChannel(v, s) = UseChannel(d, s)
    BY <1>2 DEF InChannel
  <2> HIDE DEF d
  <2>3. Touches(d, UseChannel(d, s), {"mask"}, ChannelFields)
    BY <2>1, UseChannelOK
  <2> QED BY <2>1, <2>2, <2>3, TouchesOn
<1> QED BY <1>1, <1>2

(* A state change stops the timers of the old state and starts those of    *)
(* the new one: TALERT and TFOO run in their states only. *)
Timed(c) ==
  /\ c.run \cup c.armed \subseteq {"TCONN", "TALERT", "TFOO"}
  /\ "TFOO" \in c.run \cup c.armed => c.st = 99
  /\ "TALERT" \in c.run \cup c.armed => c.st = 6
ShiftFields == {"st", "run", "armed"} \cup ChannelFields

LEMMA SetStateOK ==
  ASSUME NEW v, IsView(v), NEW s
  PROVE  /\ Touches(v, CapiSetState(v, s), {"mask"}, ShiftFields)
         /\ CapiSetState(v, s).c.st = s
         /\ Timed(v.c) => Timed(CapiSetState(v, s).c)
<1>1. CASE v.c.st = s
  BY <1>1, TouchesItself DEF CapiSetState
<1>2. CASE v.c.st # s
  <2> DEFINE stop == TimersFor(v.c.st) \ TimersFor(s)
             start == TimersFor(s) \ TimersFor(v.c.st)
             a == Untimer(v.c, stop)
             b == Timer(a, start)
             c == [b EXCEPT !.st = s]
             d == With(v, c)
             e == WithStack(d, s)
  <2>1. IsCall(a) /\ a.run = v.c.run \ stop /\ a.armed = v.c.armed \ stop
        /\ \A g \in CallFields \ {"run", "armed"} : a[g] = v.c[g]
    BY DEF Untimer, IsView, IsCall, CallFields
  <2>2. /\ IsCall(b) /\ b.run = a.run \cup start /\ b.armed \subseteq a.armed \cup start
        /\ \A g \in CallFields \ {"run", "armed"} : b[g] = a[g]
    <3>1. \A x : IsCall(x) => LET y == Timer(x, start)
                             IN  /\ IsCall(y) /\ y.run = x.run \cup start
                                 /\ y.armed \subseteq x.armed \cup start
                                 /\ \A g \in CallFields \ {"run", "armed"} : y[g] = x[g]
      <4> SUFFICES ASSUME NEW x, IsCall(x)
                   PROVE  LET y == Timer(x, start)
                          IN  /\ IsCall(y) /\ y.run = x.run \cup start
                              /\ y.armed \subseteq x.armed \cup start
                              /\ \A g \in CallFields \ {"run", "armed"} : y[g] = x[g]
        OBVIOUS
      <4> DEFINE z == IF x.up THEN x.armed \cup (start \ x.run) ELSE x.armed
      <4>1. Timer(x, start) = [x EXCEPT !.run = x.run \cup start, !.armed = z]
        BY DEF Timer, IsCall, CallFields
      <4>2. z \subseteq x.armed \cup start
        OBVIOUS
      <4> HIDE DEF z, start
      <4> DEFINE y == [x EXCEPT !.run = x.run \cup start, !.armed = z]
      <4>3. /\ IsCall(y) /\ y.run = x.run \cup start /\ y.armed = z
            /\ \A g \in CallFields \ {"run", "armed"} : y[g] = x[g]
        BY DEF IsCall, CallFields
      <4> HIDE DEF y
      <4>4. Timer(x, start) = y
        BY <4>1 DEF y
      <4> QED BY <4>2, <4>3, <4>4
    <3> HIDE DEF a, start
    <3> QED BY <2>1, <3>1
  <2>3. /\ IsCall(c) /\ c.st = s /\ c.run = b.run /\ c.armed = b.armed
        /\ \A g \in CallFields \ {"st", "run", "armed"} : c[g] = v.c[g]
    <3> HIDE DEF a, b
    <3> QED BY <2>1, <2>2 DEF IsCall, CallFields
  <2>4. Timed(v.c) => Timed(c)
    <3>1. \A t \in {"TFOO", "TALERT"} : \A k : t \in TimersFor(k)
            => k = IF t = "TFOO" THEN 99 ELSE 6
      BY DEF TimersFor, Attempt
    <3>2. \A t \in {"TFOO", "TALERT"} :
            v.c.st = (IF t = "TFOO" THEN 99 ELSE 6) => t \in TimersFor(v.c.st)
      BY DEF TimersFor
    <3>3. \A t : t \in c.run \cup c.armed =>
               t \in start \/ (t \in v.c.run \cup v.c.armed /\ t \notin stop)
      <4> HIDE DEF start, stop, a, b, c
      <4> QED BY <2>1, <2>2, <2>3
    <3>4. ASSUME Timed(v.c), NEW t \in {"TFOO", "TALERT"}, t \in c.run \cup c.armed
          PROVE  s = IF t = "TFOO" THEN 99 ELSE 6
      <4>1. CASE t \in start
        BY <3>1, <4>1
      <4>2. CASE t \in v.c.run \cup v.c.armed /\ t \notin stop
        <5>1. v.c.st = IF t = "TFOO" THEN 99 ELSE 6
          BY <3>4, <4>2 DEF Timed
        <5>2. t \in TimersFor(s)
          BY <3>2, <4>2, <5>1
        <5> QED BY <3>1, <5>2
      <4> QED BY <3>3, <3>4, <4>1, <4>2
    <3>5. start \subseteq {"TCONN", "TALERT", "TFOO"}
      BY DEF TimersFor
    <3>6. Timed(v.c) => c.run \cup c.armed \subseteq {"TCONN", "TALERT", "TFOO"}
      <4> HIDE DEF start, stop, c
      <4> QED BY <3>3, <3>5 DEF Timed
    <3> HIDE DEF c
    <3> QED BY <2>3, <3>4, <3>6 DEF Timed
  <2>5. Touches(v, d, {"mask"}, ShiftFields) /\ d.c = c
    <3> HIDE DEF c
    <3> QED BY <2>3, PutCall DEF Touches, ShiftFields
  <2>6. Touches(d, e, {"mask"}, ChannelFields)
    <3>1. e = d \/ \E est : e = Est(d, est)
      <4> HIDE DEF d
      <4> QED BY DEF WithStack
    <3>2. IsView(d)
      BY <2>5 DEF Touches
    <3> HIDE DEF d, e
    <3>3. ASSUME NEW est PROVE Touches(d, Est(d, est), {"mask"}, ChannelFields)
      BY <3>2, EstOK, TouchesMore DEF ChannelFields
    <3>4. Touches(d, d, {"mask"}, ChannelFields)
      BY <3>2, TouchesItself
    <3> QED BY <3>1, <3>3, <3>4
  <2>7. CapiSetState(v, s) = InChannel(e, s)
    BY <1>2 DEF CapiSetState
  <2> HIDE DEF d, e, c
  <2>8. Touches(d, InChannel(e, s), {"mask"}, ChannelFields)
    BY <2>6, InChannelOK, TouchesOn DEF Touches
  <2>9. Touches(d, InChannel(e, s), {"mask"}, ShiftFields)
    BY <2>8, TouchesMore DEF ShiftFields
  <2>10. LET x == InChannel(e, s).c IN x.st = c.st /\ x.run = c.run /\ x.armed = c.armed
    BY <2>5, <2>8 DEF Touches, ChannelFields, StackFields, CallFields
  <2> QED BY <2>3, <2>4, <2>5, <2>7, <2>9, <2>10, TouchesOn DEF Timed
<1> QED BY <1>1, <1>2

-----------------------------------------------------------------------------
(* What is true of a view at every step of a handler, and between them.    *)
Ending == {0, 20, 21, 22, 99}
MsgTypes ==
  (Waits \ {"PROTOCOLS"}) \cup {"CONNECT_IND", "INFO_IND", "OPEN_CONF", "REGISTER_CONF",
                                "TRACE_CONF", "EAZ_CONF", "LISTEN_CONF"}
Message ==
  {m \in [t : MsgTypes, n : PLCIs \cup {0}, ok : BOOLEAN, x : 0 .. 2] :
     m.t = "CONNECT_IND" => m.x \in 0 .. 1}

Base(v) ==
  /\ IsView(v) /\ v.c.st \in CapiStates /\ v.c.plci \in PLCIs \cup {0}
  /\ v.up \in Seq(Message) /\ Timed(v.c)
  /\ v.c.lock => v.c.st = 0

(* DISCONNECTB3_CONF is awaited only by a call that is being cleared, and  *)
(* layer 4 knows of the end of such a call - unless it waits for the card. *)
Clearing(v) == "DB3_CONF" \in v.c.wf => v.c.st \in Ending
EndKnown(v) == v.c.ex /\ ~v.c.lock /\ v.c.st \in Ending => v.c.told \in Ended
Good(v) == Base(v) /\ Clearing(v) /\ EndKnown(v)

Key == {"ex", "st", "run", "armed", "wf", "plci", "told", "lock"}
Like(v, d) == IsView(d) /\ d.up = v.up /\ \A f \in Key : d.c[f] = v.c[f]

LEMMA LikeOK ==
  ASSUME NEW v, NEW d, Like(v, d)
  PROVE  /\ Base(v) => Base(d)
         /\ Good(v) => Good(d)
         /\ d.c.ex = v.c.ex /\ d.c.st = v.c.st /\ d.c.wf = v.c.wf /\ d.c.plci = v.c.plci
         /\ d.c.told = v.c.told /\ d.c.lock = v.c.lock
<1>1. /\ d.c.ex = v.c.ex /\ d.c.st = v.c.st /\ d.c.wf = v.c.wf /\ d.c.plci = v.c.plci
      /\ d.c.told = v.c.told /\ d.c.lock = v.c.lock
      /\ d.c.run = v.c.run /\ d.c.armed = v.c.armed
  BY DEF Like, Key
<1>2. IsView(d) /\ d.up = v.up
  BY DEF Like
<1> QED BY <1>1, <1>2 DEF Good, Base, Timed, Clearing, EndKnown

LEMMA SameLike ==
  ASSUME NEW v, NEW d, NEW V, NEW F, Touches(v, d, V, F), F \cap Key = {}, "up" \notin V
  PROVE  Like(v, d)
<1>1. Key \subseteq CallFields
  BY DEF Key, CallFields
<1>2. d.up = v.up
  BY DEF Touches, ViewFields
<1> QED BY <1>1, <1>2 DEF Touches, Like

LEMMA EstLike ==
  ASSUME NEW v, IsView(v), NEW est
  PROVE  Like(v, Est(v, est))
<1>1. StackFields \cap Key = {}
  BY DEF StackFields, Key
<1> QED BY <1>1, EstOK, SameLike

LEMMA ShiftOK ==
  ASSUME NEW v, Base(v), NEW s \in CapiStates, v.c.lock => s = 0
  PROVE  LET e == CapiSetState(v, s)
         IN  /\ Base(e) /\ e.c.st = s /\ e.c.ex = v.c.ex /\ e.c.wf = v.c.wf
             /\ e.c.plci = v.c.plci /\ e.c.told = v.c.told /\ e.c.lock = v.c.lock
<1> DEFINE e == CapiSetState(v, s)
<1>1. Touches(v, e, {"mask"}, ShiftFields) /\ e.c.st = s /\ Timed(e.c)
  BY SetStateOK DEF Base
<1> HIDE DEF e
<1>2. /\ e.c.ex = v.c.ex /\ e.c.wf = v.c.wf /\ e.c.plci = v.c.plci /\ e.c.told = v.c.told
      /\ e.c.lock = v.c.lock
  BY <1>1 DEF Touches, ShiftFields, ChannelFields, StackFields, CallFields
<1>3. e.up = v.up /\ IsView(e)
  BY <1>1 DEF Touches, ViewFields
<1>4. Base(e)
  BY <1>1, <1>2, <1>3 DEF Base
<1> QED BY <1>1, <1>2, <1>4 DEF e

(* A state the call lives in; one it ends in, of which layer 4 knows.      *)
LEMMA EnterOK ==
  ASSUME NEW v, Base(v), NEW s \in CapiStates \ Ending, ~v.c.lock, "DB3_CONF" \notin v.c.wf
  PROVE  LET e == CapiSetState(v, s)
         IN  /\ Good(e) /\ e.c.st = s /\ e.c.ex = v.c.ex /\ e.c.wf = v.c.wf
             /\ e.c.lock = v.c.lock /\ e.c.plci = v.c.plci /\ e.c.told = v.c.told
<1> DEFINE e == CapiSetState(v, s)
<1>1. /\ Base(e) /\ e.c.st = s /\ e.c.ex = v.c.ex /\ e.c.wf = v.c.wf
      /\ e.c.plci = v.c.plci /\ e.c.told = v.c.told /\ e.c.lock = v.c.lock
  BY ShiftOK
<1> HIDE DEF e
<1>2. Good(e)
  BY <1>1 DEF Good, Clearing, EndKnown
<1> QED BY <1>1, <1>2 DEF e

LEMMA EndOK ==
  ASSUME NEW v, Base(v), NEW s \in Ending, s = 0 \/ ~v.c.lock,
         v.c.ex /\ ~v.c.lock => v.c.told \in Ended
  PROVE  LET e == CapiSetState(v, s)
         IN  /\ Good(e) /\ e.c.st = s /\ e.c.ex = v.c.ex /\ e.c.wf = v.c.wf
             /\ e.c.lock = v.c.lock /\ e.c.plci = v.c.plci /\ e.c.told = v.c.told
<1> DEFINE e == CapiSetState(v, s)
<1>0. s \in CapiStates
  BY DEF Ending, CapiStates
<1>1. /\ Base(e) /\ e.c.st = s /\ e.c.ex = v.c.ex /\ e.c.wf = v.c.wf
      /\ e.c.plci = v.c.plci /\ e.c.told = v.c.told /\ e.c.lock = v.c.lock
  BY <1>0, ShiftOK
<1> HIDE DEF e
<1>2. Good(e)
  BY <1>1 DEF Good, Clearing, EndKnown
<1> QED BY <1>1, <1>2 DEF e

LEMMA TellOK ==
  ASSUME NEW v, Base(v)
  PROVE  LET e == Told(v)
         IN  /\ Base(e) /\ e.c.told \in Ended /\ (Clearing(v) => Good(e))
             /\ e.c.st = v.c.st /\ e.c.ex = v.c.ex /\ e.c.wf = v.c.wf
             /\ e.c.lock = v.c.lock /\ e.c.plci = v.c.plci /\ e.up = v.up
<1> DEFINE e == Told(v)
<1>1. Touches(v, e, {}, {"told"}) /\ e.c.told \in Ended
  BY ToldOK DEF Base
<1> HIDE DEF e
<1>2. /\ e.c.st = v.c.st /\ e.c.ex = v.c.ex /\ e.c.wf = v.c.wf /\ e.c.lock = v.c.lock
      /\ e.c.plci = v.c.plci /\ e.up = v.up /\ e.c.run = v.c.run /\ e.c.armed = v.c.armed
      /\ IsView(e)
  BY <1>1 DEF Touches, CallFields, ViewFields
<1>3. Base(e)
  BY <1>2 DEF Base, Timed
<1>4. Clearing(v) => Good(e)
  BY <1>1, <1>2, <1>3 DEF Good, Clearing, EndKnown
<1> QED BY <1>1, <1>2, <1>3, <1>4 DEF e

(* report_terminate after the change of state.                             *)
LEMMA ShutOK ==
  ASSUME NEW v, Base(v), NEW s \in Ending, s = 0 \/ ~v.c.lock
  PROVE  LET e == Told(CapiSetState(v, s))
         IN  /\ Good(e) /\ e.c.told \in Ended /\ e.c.st = s /\ e.c.ex = v.c.ex
             /\ e.c.wf = v.c.wf /\ e.c.lock = v.c.lock
<1> DEFINE d == CapiSetState(v, s)
<1>0. s \in CapiStates
  BY DEF Ending, CapiStates
<1>1. /\ Base(d) /\ d.c.st = s /\ d.c.ex = v.c.ex /\ d.c.wf = v.c.wf /\ d.c.lock = v.c.lock
  BY <1>0, ShiftOK
<1> HIDE DEF d
<1>2. Clearing(d)
  BY <1>1 DEF Clearing
<1>3. LET e == Told(d)
      IN  /\ Good(e) /\ e.c.told \in Ended /\ e.c.st = s /\ e.c.ex = v.c.ex
          /\ e.c.wf = v.c.wf /\ e.c.lock = v.c.lock
  BY <1>1, <1>2, TellOK
<1> QED BY <1>3 DEF d

(* A change of the messages that are awaited.                              *)
Awaits(v, e, W) ==
  /\ Base(e) /\ e.c.wf = W /\ e.c.st = v.c.st /\ e.c.ex = v.c.ex
  /\ e.c.told = v.c.told /\ e.c.lock = v.c.lock /\ e.c.plci = v.c.plci /\ e.up = v.up

LEMMA AwaitOK ==
  ASSUME NEW v, Base(v), NEW W
  PROVE  Awaits(v, [v EXCEPT !.c.wf = W], W)
<1> DEFINE e == [v EXCEPT !.c.wf = W]
<1>1. Touches(v, e, {}, {"wf"}) /\ e.c.wf = W
  BY Put DEF CallFields, Base
<1> HIDE DEF e
<1>2. /\ e.c.st = v.c.st /\ e.c.ex = v.c.ex /\ e.c.told = v.c.told /\ e.c.lock = v.c.lock
      /\ e.c.plci = v.c.plci /\ e.up = v.up /\ e.c.run = v.c.run /\ e.c.armed = v.c.armed
      /\ IsView(e)
  BY <1>1 DEF Touches, CallFields, ViewFields
<1>3. Base(e)
  BY <1>2 DEF Base, Timed
<1>4. Awaits(v, e, W)
  BY <1>1, <1>2, <1>3 DEF Awaits
<1> QED BY <1>4 DEF e

LEMMA GotOK ==
  ASSUME NEW v, Good(v), NEW t
  PROVE  LET e == Got(v, t)
         IN  /\ Good(e) /\ e.c.wf = v.c.wf \ {t} /\ e.c.st = v.c.st /\ e.c.ex = v.c.ex
             /\ e.c.told = v.c.told /\ e.c.lock = v.c.lock /\ e.c.plci = v.c.plci
             /\ e.up = v.up
<1> DEFINE W == v.c.wf \ {t}
           e == [v EXCEPT !.c.wf = W]
<1>0. Got(v, t) = e
  BY DEF Got
<1> HIDE DEF W
<1>1. Awaits(v, e, W)
  BY AwaitOK DEF Good
<1> HIDE DEF e
<1>2. Good(e)
  BY <1>1 DEF Awaits, Good, Clearing, EndKnown, W
<1> QED BY <1>0, <1>1, <1>2 DEF W, Awaits

-----------------------------------------------------------------------------
(* What is said to the card leaves the call alone; what the card says in   *)
(* answer comes up later.                                                  *)
Carded(v, e) == IsView(e) /\ e.c = v.c /\ e.up = v.up

LEMMA CardedOK ==
  ASSUME NEW v, IsView(v), NEW k
  PROVE  Carded(v, [v EXCEPT !.card = k])
<1> DEFINE d == [v EXCEPT !.card = k]
<1>1. Touches(v, d, {"card"}, {})
  BY PutView DEF ViewFields
<1> HIDE DEF d
<1>2. Carded(v, d)
  BY <1>1 DEF Touches, IsView, IsCall, ViewFields, Carded
<1> QED BY <1>2 DEF d

LEMMA SayOK ==
  ASSUME NEW v, Base(v), NEW e, Carded(v, e), NEW msgs, msgs \in Seq(Message)
  PROVE  LET d == Say(e, msgs) IN Base(d) /\ d.c = v.c /\ (Good(v) => Good(d))
<1>1. v.up \in Seq(Message)
  BY DEF Base
<1> DEFINE d == [e EXCEPT !.up = e.up \o msgs]
<1>3. IsView(d) /\ d.c = v.c /\ d.up = v.up \o msgs
  BY DEF IsView, ViewFields, Carded
<1>4. Say(e, msgs) = d
  BY DEF Say
<1>5. v.up \o msgs \in Seq(Message)
  BY <1>1
<1> HIDE DEF d
<1>6. Base(d) /\ (Good(v) => Good(d))
  BY <1>3, <1>5 DEF Base, Good, Clearing, EndKnown
<1> QED BY <1>3, <1>4, <1>6

LEMMA SayItself ==
  ASSUME NEW v, Base(v), NEW msgs, msgs \in Seq(Message)
  PROVE  LET d == Say(v, msgs) IN Base(d) /\ d.c = v.c /\ (Good(v) => Good(d))
<1>1. Carded(v, v)
  BY DEF Carded, Base
<1> QED BY <1>1, SayOK

LEMMA Tuples ==
  ASSUME NEW S, NEW a \in S, NEW b \in S
  PROVE  <<>> \in Seq(S) /\ <<a>> \in Seq(S) /\ <<a, b>> \in Seq(S)
OBVIOUS

LEMMA Joined ==
  ASSUME NEW S, NEW a \in Seq(S), NEW b \in Seq(S), NEW d \in Seq(S)
  PROVE  a \o b \o d \in Seq(S)
OBVIOUS

LEMMA MsgOK ==
  ASSUME NEW t \in MsgTypes \ {"CONNECT_IND"}, NEW n \in PLCIs \cup {0}, NEW ok \in BOOLEAN
  PROVE  Msg(t, n, ok) \in Message /\ <<Msg(t, n, ok)>> \in Seq(Message)
<1>1. Msg(t, n, ok) \in Message
  BY DEF Msg, Message
<1> QED BY <1>1

LEMMA CardClearsOK ==
  ASSUME NEW v, Base(v), NEW n \in PLCIs \cup {0}, NEW before \in Seq(Message)
  PROVE  LET d == CardClears(v, n, before)
         IN  Base(d) /\ d.c = v.c /\ (Good(v) => Good(d))
<1>1. Msg("DB3_IND", n, TRUE) \in Message /\ Msg("DISC_IND", n, TRUE) \in Message
  BY MsgOK DEF MsgTypes, Waits
<1> DEFINE a == B3Gone(v, n)
           b == <<Msg("DISC_IND", n, TRUE)>>
           e == [v EXCEPT !.card[n] = [st |-> "gone", b3 |-> "no"]]
           x == before \o a \o b
<1>2. a \in Seq(Message) /\ b \in Seq(Message)
  BY <1>1, Tuples DEF B3Gone
<1>3. Carded(v, e)
  BY CardedOK DEF Base
<1>4. CardClears(v, n, before) = Say(e, x)
  BY DEF CardClears
<1> HIDE DEF a, b, e
<1>5. x \in Seq(Message)
  BY <1>2, Joined
<1> HIDE DEF x
<1>6. LET d == Say(e, x) IN Base(d) /\ d.c = v.c /\ (Good(v) => Good(d))
  BY <1>3, <1>5, SayOK
<1> QED BY <1>4, <1>6

LEMMA DisconnectReqOK ==
  ASSUME NEW v, Base(v), NEW n \in PLCIs \cup {0}
  PROVE  LET d == DisconnectReq(v, n) IN Base(d) /\ d.c = v.c /\ (Good(v) => Good(d))
<1>1. "DISC_CONF" \in MsgTypes \ {"CONNECT_IND"}
  BY DEF MsgTypes, Waits
<1>2. /\ <<Msg("DISC_CONF", n, TRUE)>> \in Seq(Message)
      /\ <<Msg("DISC_CONF", n, FALSE)>> \in Seq(Message)
  BY <1>1, MsgOK
<1>3. CASE InCall(v, n)
  BY <1>2, <1>3, CardClearsOK DEF DisconnectReq
<1>4. CASE ~InCall(v, n)
  BY <1>2, <1>4, SayItself DEF DisconnectReq
<1> QED BY <1>3, <1>4

LEMMA DisconnectB3ReqOK ==
  ASSUME NEW v, Base(v), NEW n \in PLCIs \cup {0}
  PROVE  LET d == DisconnectB3Req(v, n) IN Base(d) /\ d.c = v.c /\ (Good(v) => Good(d))
<1>1. {"DB3_CONF", "DB3_IND"} \subseteq MsgTypes \ {"CONNECT_IND"}
  BY DEF MsgTypes, Waits
<1>2. /\ <<Msg("DB3_CONF", n, TRUE), Msg("DB3_IND", n, TRUE)>> \in Seq(Message)
      /\ <<Msg("DB3_CONF", n, FALSE)>> \in Seq(Message)
  BY <1>1, MsgOK, Tuples
<1> DEFINE e == [v EXCEPT !.card[n].b3 = "no"]
<1>3. Carded(v, e)
  BY CardedOK DEF Base
<1> HIDE DEF e
<1>4. \/ DisconnectB3Req(v, n) = Say(e, <<Msg("DB3_CONF", n, TRUE), Msg("DB3_IND", n, TRUE)>>)
      \/ DisconnectB3Req(v, n) = Say(v, <<Msg("DB3_CONF", n, FALSE)>>)
  BY DEF DisconnectB3Req, e
<1>5. LET d == Say(e, <<Msg("DB3_CONF", n, TRUE), Msg("DB3_IND", n, TRUE)>>)
      IN  Base(d) /\ d.c = v.c /\ (Good(v) => Good(d))
  BY <1>2, <1>3, SayOK
<1>6. LET d == Say(v, <<Msg("DB3_CONF", n, FALSE)>>)
      IN  Base(d) /\ d.c = v.c /\ (Good(v) => Good(d))
  BY <1>2, SayItself
<1> QED BY <1>4, <1>5, <1>6

LEMMA CardOnly ==
  ASSUME NEW v, Base(v), NEW k
  PROVE  LET d == [v EXCEPT !.card = k] IN Base(d) /\ d.c = v.c /\ (Good(v) => Good(d))
<1> DEFINE d == [v EXCEPT !.card = k]
<1>1. Touches(v, d, {"card"}, {})
  BY PutView DEF ViewFields, Base
<1>2. d.c = v.c /\ d.up = v.up /\ IsView(d)
  BY <1>1 DEF Touches, IsView, ViewFields, Base
<1> HIDE DEF d
<1>3. Base(d) /\ d.c = v.c /\ (Good(v) => Good(d))
  BY <1>2 DEF Base, Good, Clearing, EndKnown
<1> QED BY <1>3 DEF d

LEMMA RejectOK ==
  ASSUME NEW v, Base(v), NEW n \in PLCIs \cup {0}
  PROVE  LET d == Reject(v, n) IN Base(d) /\ d.c = v.c /\ (Good(v) => Good(d))
<1>1. <<>> \in Seq(Message)
  OBVIOUS
<1> QED BY <1>1, CardClearsOK DEF Reject

LEMMA AcceptOK ==
  ASSUME NEW v, Base(v), NEW n
  PROVE  LET d == Accept(v, n) IN Base(d) /\ d.c = v.c /\ (Good(v) => Good(d))
<1>1. \E k : [v EXCEPT !.card[n].st = "accepted"] = [v EXCEPT !.card = k]
  OBVIOUS
<1> QED BY <1>1, CardOnly DEF Accept

LEMMA DisconnectRespOK ==
  ASSUME NEW v, Base(v), NEW n
  PROVE  LET d == DisconnectResp(v, n) IN Base(d) /\ d.c = v.c /\ (Good(v) => Good(d))
<1>1. \E k : [v EXCEPT !.card[n].st = "free"] = [v EXCEPT !.card = k]
  OBVIOUS
<1> QED BY <1>1, CardOnly DEF DisconnectResp

LEMMA SelectReqsOK ==
  ASSUME NEW v, Base(v), NEW n \in PLCIs \cup {0}
  PROVE  LET d == SelectReqs(v, n) IN Base(d) /\ d.c = v.c /\ (Good(v) => Good(d))
<1>0. InCall(v, n) \in BOOLEAN
  BY DEF InCall
<1>1. {"B2_CONF", "B3_CONF"} \subseteq MsgTypes \ {"CONNECT_IND"}
  BY DEF MsgTypes, Waits
<1>2. <<Msg("B2_CONF", n, InCall(v, n)), Msg("B3_CONF", n, InCall(v, n))>> \in Seq(Message)
  BY <1>0, <1>1, MsgOK, Tuples
<1> QED BY <1>2, SayItself DEF SelectReqs

LEMMA ConnectB3ReqOK ==
  ASSUME NEW v, Base(v), NEW n \in PLCIs \cup {0}
  PROVE  LET d == ConnectB3Req(v, n) IN Base(d) /\ d.c = v.c /\ (Good(v) => Good(d))
<1>1. "CB3_CONF" \in MsgTypes \ {"CONNECT_IND"}
  BY DEF MsgTypes, Waits
<1>2. /\ <<Msg("CB3_CONF", n, TRUE)>> \in Seq(Message)
      /\ <<Msg("CB3_CONF", n, FALSE)>> \in Seq(Message)
  BY <1>1, MsgOK
<1> DEFINE e == [v EXCEPT !.card[n].b3 = "open"]
<1>3. Carded(v, e)
  BY CardedOK DEF Base
<1> HIDE DEF e
<1>4. \/ ConnectB3Req(v, n) = Say(e, <<Msg("CB3_CONF", n, TRUE)>>)
      \/ ConnectB3Req(v, n) = Say(v, <<Msg("CB3_CONF", n, FALSE)>>)
  BY DEF ConnectB3Req, e
<1>5. LET d == Say(e, <<Msg("CB3_CONF", n, TRUE)>>)
      IN  Base(d) /\ d.c = v.c /\ (Good(v) => Good(d))
  BY <1>2, <1>3, SayOK
<1>6. LET d == Say(v, <<Msg("CB3_CONF", n, FALSE)>>)
      IN  Base(d) /\ d.c = v.c /\ (Good(v) => Good(d))
  BY <1>2, SayItself
<1> QED BY <1>4, <1>5, <1>6

-----------------------------------------------------------------------------
(* A step of a handler that does not free the call; the news of its end is *)
(* never taken back.                                                       *)
Keeps(v, d) ==
  /\ Good(d) /\ d.c.ex = v.c.ex /\ d.c.lock = v.c.lock
  /\ v.c.told \in Ended => d.c.told \in Ended

LEMMA KeepsItself ==
  ASSUME NEW v, Good(v)
  PROVE  Keeps(v, v)
BY DEF Keeps

LEMMA KeepsOn ==
  ASSUME NEW v, NEW d, NEW e, Keeps(v, d), Keeps(d, e)
  PROVE  Keeps(v, e)
BY DEF Keeps

LEMMA LikeKeeps ==
  ASSUME NEW v, Good(v), NEW d, Like(v, d)
  PROVE  Keeps(v, d)
BY LikeOK DEF Keeps

LEMMA EstKeeps ==
  ASSUME NEW v, Good(v), NEW est
  PROVE  Keeps(v, Est(v, est))
<1>1. IsView(v)
  BY DEF Good, Base
<1> QED BY <1>1, EstLike, LikeKeeps

LEMMA TellKeeps ==
  ASSUME NEW v, Good(v)
  PROVE  Keeps(v, Told(v)) /\ Told(v).c.told \in Ended /\ Told(v).c.st = v.c.st
BY TellOK DEF Keeps, Good

LEMMA CallStates ==
  ASSUME NEW s \in CapiStates
  PROVE  \/ s = 0 \/ s >= 21
         \/ s = 2
         \/ s \in {6, 7, 8}
         \/ s \in {3, 4, 9, 15, 20}
BY DEF CapiStates

LEMMA ClearCallOK ==
  ASSUME NEW v, Base(v), v.c.told \in Ended, ~v.c.lock
  PROVE  Keeps(v, ClearCall(v)) /\ ClearCall(v).c.told \in Ended
<1> DEFINE a == DisconnectReq(v, v.c.plci)
           W == a.c.wf \cup (IF v.c.st \in {4, 9, 15} THEN {"DISC_CONF", "DISC_IND"}
                             ELSE {"DISC_CONF"})
           s == IF v.c.st < 20 THEN 21 ELSE 22
           b == [a EXCEPT !.c.wf = W]
<1>1. Base(a) /\ a.c = v.c
  BY DisconnectReqOK DEF Base
<1>2. ClearCall(v) = CapiSetState(b, s)
  BY DEF ClearCall
<1>3. s \in Ending
  BY DEF Ending
<1> HIDE DEF a, W, s
<1>4. Awaits(a, b, b.c.wf)
  <2>1. ASSUME NEW X PROVE Awaits(a, [a EXCEPT !.c.wf = X], X)
    BY <1>1, AwaitOK
  <2> QED BY <2>1 DEF Awaits
<1> HIDE DEF b
<1>5. Good(CapiSetState(b, s)) /\ CapiSetState(b, s).c.ex = b.c.ex
      /\ CapiSetState(b, s).c.lock = b.c.lock /\ CapiSetState(b, s).c.told = b.c.told
  BY <1>1, <1>3, <1>4, EndOK DEF Awaits
<1> QED BY <1>1, <1>2, <1>4, <1>5 DEF Keeps, Awaits

LEMMA ClearB3OK ==
  ASSUME NEW v, Base(v), v.c.told \in Ended, ~v.c.lock
  PROVE  Keeps(v, ClearB3(v)) /\ ClearB3(v).c.told \in Ended
<1> DEFINE a == DisconnectB3Req(v, v.c.plci)
           b == [a EXCEPT !.c.wf = {"DB3_CONF", "DB3_IND"}]
<1>1. Base(a) /\ a.c = v.c
  BY DisconnectB3ReqOK DEF Base
<1>2. ClearB3(v) = CapiSetState(b, 20)
  BY DEF ClearB3
<1>3. 20 \in Ending
  BY DEF Ending
<1> HIDE DEF a
<1>4. Awaits(a, b, b.c.wf)
  <2>1. ASSUME NEW X PROVE Awaits(a, [a EXCEPT !.c.wf = X], X)
    BY <1>1, AwaitOK
  <2> QED BY <2>1 DEF Awaits
<1> HIDE DEF b
<1>5. Good(CapiSetState(b, 20)) /\ CapiSetState(b, 20).c.ex = b.c.ex
      /\ CapiSetState(b, 20).c.lock = b.c.lock /\ CapiSetState(b, 20).c.told = b.c.told
  BY <1>1, <1>3, <1>4, EndOK DEF Awaits
<1> QED BY <1>1, <1>2, <1>4, <1>5 DEF Keeps, Awaits

LEMMA SendDisconnectOK ==
  ASSUME NEW v, Good(v), NEW l3
  PROVE  LET d == SendDisconnect(v, l3)
         IN  /\ Keeps(v, d)
             /\ d = v \/ d.c.told \in Ended
             /\ v.c.st = 2 => d.c.told \in Ended
<1> DEFINE a == [v EXCEPT !.c.wf = {}]
           d == Told(a)
<1>1. /\ Base(a) /\ a.c.wf = {} /\ a.c.st = v.c.st /\ a.c.ex = v.c.ex
      /\ a.c.lock = v.c.lock /\ a.c.plci = v.c.plci
  <2>1. Awaits(v, a, {})
    BY AwaitOK DEF Good
  <2> HIDE DEF a
  <2> QED BY <2>1 DEF Awaits
<1> HIDE DEF a
<1>2. Clearing(a)
  BY <1>1 DEF Clearing
<1>3. /\ Good(d) /\ d.c.told \in Ended /\ d.c.st = v.c.st /\ d.c.ex = v.c.ex
      /\ d.c.lock = v.c.lock /\ d.c.plci = v.c.plci
  BY <1>1, <1>2, TellOK
<1>4. SendDisconnect(v, l3) =
        CASE v.c.st = 0 \/ v.c.st >= 21 -> v
          [] v.c.st = 2 -> d
          [] v.c.st \in {6, 7, 8} -> Told(CapiSetState(Reject(d, v.c.plci), 99))
          [] v.c.st \in {3, 4, 9, 15, 20} ->
               ClearCall(IF v.c.st = 15 /\ l3 THEN ClearB3(d) ELSE d)
  BY DEF SendDisconnect, a
<1> HIDE DEF d
<1>5. v.c.st \in CapiStates /\ (v.c.lock => v.c.st = 0) /\ v.c.plci \in PLCIs \cup {0}
  BY DEF Good, Base
<1>6. CASE v.c.st = 0 \/ v.c.st >= 21
  BY <1>4, <1>6, KeepsItself
<1>7. CASE v.c.st = 2
  BY <1>3, <1>4, <1>7 DEF Keeps
<1>8. CASE v.c.st \in {6, 7, 8}
  <2> DEFINE e == Reject(d, v.c.plci)
  <2>1. Base(e) /\ e.c = d.c
    BY <1>3, <1>5, RejectOK DEF Good
  <2>2. 99 \in Ending /\ ~d.c.lock
    BY <1>3, <1>5, <1>8 DEF Ending
  <2> HIDE DEF e
  <2>3. LET x == Told(CapiSetState(e, 99))
        IN  Good(x) /\ x.c.told \in Ended /\ x.c.ex = e.c.ex /\ x.c.lock = e.c.lock
    BY <2>1, <2>2, ShutOK
  <2>4. SendDisconnect(v, l3) = Told(CapiSetState(e, 99))
    BY <1>4, <1>8 DEF e
  <2> QED BY <1>3, <1>8, <2>1, <2>3, <2>4 DEF Keeps
<1>9. CASE v.c.st \in {3, 4, 9, 15, 20}
  <2> DEFINE e == IF v.c.st = 15 /\ l3 THEN ClearB3(d) ELSE d
  <2>1. ~d.c.lock
    BY <1>3, <1>5, <1>9
  <2>2. Keeps(d, e) /\ e.c.told \in Ended
    BY <1>3, <2>1, ClearB3OK, KeepsItself DEF Good
  <2> HIDE DEF e
  <2>3. Base(e) /\ ~e.c.lock
    BY <2>1, <2>2 DEF Keeps, Good
  <2>4. Keeps(e, ClearCall(e)) /\ ClearCall(e).c.told \in Ended
    BY <2>2, <2>3, ClearCallOK
  <2>5. SendDisconnect(v, l3) = ClearCall(e)
    BY <1>4, <1>9 DEF e
  <2> QED BY <1>3, <1>9, <2>2, <2>4, <2>5 DEF Keeps
<1> QED BY <1>5, <1>6, <1>7, <1>8, <1>9, CallStates

LEMMA DropOK ==
  ASSUME NEW v, Good(v)
  PROVE  Keeps(v, Drop(v))
<1> DEFINE d == SendDisconnect(v, FALSE)
<1>1. Keeps(v, d) /\ (v.c.st = 2 => d.c.told \in Ended)
  BY SendDisconnectOK
<1> HIDE DEF d
<1>2. ASSUME v.c.st = 2
      PROVE  Keeps(d, CapiSetState(d, 99))
  <2>1. Base(d) /\ ~d.c.lock /\ d.c.told \in Ended
    BY <1>1, <1>2 DEF Keeps, Good, Base
  <2> QED BY <2>1, EndOK DEF Keeps, Ending
<1>3. Drop(v) = IF v.c.st = 2 THEN CapiSetState(d, 99) ELSE d
  BY DEF Drop, Bury, NoPlci, d
<1> QED BY <1>1, <1>2, <1>3, KeepsOn

-----------------------------------------------------------------------------
(* The steps that may free the call: layer 4 knows of its end then.        *)
Lives(v, d) == Good(d) /\ (v.c.ex => d.c.ex)
Frees(v, d) == Good(d) /\ (v.c.ex /\ ~d.c.ex => d.c.told \in Ended)

LEMMA LivesOn ==
  ASSUME NEW v, NEW d, NEW e, Lives(v, d), Lives(d, e)
  PROVE  Lives(v, e)
BY DEF Lives

LEMMA FreesOn ==
  ASSUME NEW v, NEW d, NEW e, Lives(v, d), Frees(d, e)
  PROVE  Frees(v, e)
BY DEF Lives, Frees

LEMMA KeepsLives ==
  ASSUME NEW v, NEW d, Keeps(v, d)
  PROVE  Lives(v, d)
BY DEF Lives, Keeps

LEMMA LivesFrees ==
  ASSUME NEW v, NEW d, Lives(v, d)
  PROVE  Frees(v, d)
BY DEF Lives, Frees

(* Timers are stopped, or those that run are armed.                        *)
LEMMA CallKeeps ==
  ASSUME NEW v, Good(v), NEW c, IsCall(c), \A f \in Key \ {"run", "armed"} : c[f] = v.c[f],
         c.run \cup c.armed \subseteq v.c.run \cup v.c.armed
  PROVE  Keeps(v, With(v, c)) /\ With(v, c).c.st = v.c.st
<1> DEFINE d == With(v, c)
<1>1. IsView(d) /\ d.c = c /\ \A g \in ViewFields \ {"c"} : d[g] = v[g]
  BY PutCall DEF Good, Base
<1> HIDE DEF d
<1>2. d.up = v.up
  BY <1>1 DEF ViewFields
<1>3. /\ c.ex = v.c.ex /\ c.st = v.c.st /\ c.wf = v.c.wf /\ c.plci = v.c.plci
      /\ c.told = v.c.told /\ c.lock = v.c.lock
  BY DEF Key
<1>4. Timed(v.c) => Timed(c)
  BY <1>3 DEF Timed
<1> QED BY <1>1, <1>2, <1>3, <1>4 DEF Keeps, Good, Base, Clearing, EndKnown, d

LEMMA UntimerKeeps ==
  ASSUME NEW v, Good(v), NEW c, IsCall(c), \A f \in Key : c[f] = v.c[f], NEW T
  PROVE  Keeps(v, With(v, Untimer(c, T))) /\ With(v, Untimer(c, T)).c.st = v.c.st
<1> DEFINE a == Untimer(c, T)
<1>1. /\ IsCall(a) /\ a.run = c.run \ T /\ a.armed = c.armed \ T
      /\ \A g \in CallFields \ {"run", "armed"} : a[g] = c[g]
  BY DEF Untimer, IsCall, CallFields
<1> HIDE DEF a
<1>2. \A f \in Key \ {"run", "armed"} : a[f] = v.c[f]
  BY <1>1 DEF Key, CallFields
<1>3. c.run = v.c.run /\ c.armed = v.c.armed
  BY DEF Key
<1>4. a.run \cup a.armed \subseteq v.c.run \cup v.c.armed
  BY <1>1, <1>3
<1> QED BY <1>1, <1>2, <1>4, CallKeeps DEF a

LEMMA WithKeeps ==
  ASSUME NEW v, Good(v), NEW c, IsCall(c), \A f \in Key : c[f] = v.c[f]
  PROVE  Keeps(v, With(v, c))
<1>1. c.run = v.c.run /\ c.armed = v.c.armed
  BY DEF Key
<1> QED BY <1>1, CallKeeps

LEMMA NewCapiOK ==
  /\ IsCall(NewCapi)
  /\ NewCapi.ex = FALSE /\ NewCapi.st = 0 /\ NewCapi.run = {} /\ NewCapi.armed = {}
  /\ NewCapi.wf = {} /\ NewCapi.plci = 0 /\ NewCapi.lock = FALSE /\ NewCapi.told = "nothing"
<1> DEFINE a == NewConn("CAPI")
           b == [wf |-> {}, plci |-> 0, cid |-> 0, ncci |-> FALSE, ch |-> 0,
                 modlist |-> "none", hl |-> FALSE, lock |-> FALSE]
<1>1. DOMAIN a = CallFields \ {"wf", "plci", "cid", "ncci", "ch", "modlist", "hl", "lock"}
  BY DEF NewConn, CallFields
<1>2. DOMAIN b = {"wf", "plci", "cid", "ncci", "ch", "modlist", "hl", "lock"}
  OBVIOUS
<1>3. /\ a.ex = FALSE /\ a.st = 0 /\ a.run = {} /\ a.armed = {} /\ a.told = "nothing"
      /\ a.stack = 0
  BY DEF NewConn
<1>4. b.wf = {} /\ b.plci = 0 /\ b.lock = FALSE
  OBVIOUS
<1>5. DOMAIN a \cup DOMAIN b = CallFields
  <2> HIDE DEF a, b
  <2> QED BY <1>1, <1>2 DEF CallFields
<1>6. NewCapi = [f \in CallFields |-> IF f \in DOMAIN a THEN a[f] ELSE b[f]]
  BY <1>5 DEF NewCapi, Extended
<1> HIDE DEF a, b
<1> QED BY <1>1, <1>3, <1>4, <1>6 DEF IsCall, CallFields

Filled(n, f, x, d) == IsCall(d) /\ d[f] = x /\ \A g \in CallFields \ {f} : d[g] = n[g]
LEMMA FilledOK ==
  ASSUME NEW n, IsCall(n), NEW x
  PROVE  /\ Filled(n, "open", x, [n EXCEPT !.open = x])
         /\ Filled(n, "sent", x, [n EXCEPT !.sent = x])
         /\ Filled(n, "att", x, [n EXCEPT !.att = x])
         /\ Filled(n, "told", x, [n EXCEPT !.told = x])
         /\ Filled(n, "up", x, [n EXCEPT !.up = x])
         /\ Filled(n, "ex", x, [n EXCEPT !.ex = x])
         /\ Filled(n, "plci", x, [n EXCEPT !.plci = x])
<1>1. ASSUME NEW f \in CallFields \ {"stack"}
      PROVE  Filled(n, f, x, [n EXCEPT ![f] = x])
  BY DEF IsCall, CallFields, Filled
<1> QED BY <1>1 DEF CallFields

LEMMA EmptyOK ==
  ASSUME NEW c
  PROVE  LET d == Empty(c)
         IN  /\ IsCall(d) /\ d.ex = FALSE /\ d.st = 0 /\ d.run = {} /\ d.armed = {}
             /\ d.wf = {} /\ d.plci = 0 /\ d.lock = FALSE /\ d.told = c.told
<1> DEFINE k == [NewCapi EXCEPT !.open = c.open]
           l == [k EXCEPT !.sent = c.sent]
           m == [l EXCEPT !.att = c.att]
           n == [m EXCEPT !.told = c.told]
           d == [n EXCEPT !.up = c.up]
           F == {"open", "sent", "att", "told", "up"}
<1>0. F \subseteq CallFields \ {"stack"}
  BY DEF CallFields
<1>1. Empty(c) = d
  BY DEF Empty
<1> HIDE DEF k, l, m, n, d
<1>2. IsCall(k) /\ Filled(NewCapi, "open", c.open, k)
  <2>1. Filled(NewCapi, "open", c.open, k)
    BY NewCapiOK, FilledOK DEF k
  <2> QED BY <2>1 DEF Filled
<1>3. IsCall(l) /\ Filled(k, "sent", c.sent, l)
  <2>1. Filled(k, "sent", c.sent, l)
    BY <1>2, NewCapiOK, FilledOK DEF l
  <2> QED BY <2>1 DEF Filled
<1>4. IsCall(m) /\ Filled(l, "att", c.att, m)
  <2>1. Filled(l, "att", c.att, m)
    BY <1>3, NewCapiOK, FilledOK DEF m
  <2> QED BY <2>1 DEF Filled
<1>5. IsCall(n) /\ Filled(m, "told", c.told, n)
  <2>1. Filled(m, "told", c.told, n)
    BY <1>4, NewCapiOK, FilledOK DEF n
  <2> QED BY <2>1 DEF Filled
<1>6. IsCall(d) /\ Filled(n, "up", c.up, d)
  <2>1. Filled(n, "up", c.up, d)
    BY <1>5, NewCapiOK, FilledOK DEF d
  <2> QED BY <2>1 DEF Filled
<1>7. d.told = c.told
  BY <1>5, <1>6 DEF CallFields, Filled
<1>8. \A g \in CallFields \ F : d[g] = NewCapi[g]
  BY <1>2, <1>3, <1>4, <1>5, <1>6 DEF Filled
<1>9. /\ d.ex = NewCapi.ex /\ d.st = NewCapi.st /\ d.run = NewCapi.run
      /\ d.armed = NewCapi.armed /\ d.wf = NewCapi.wf /\ d.plci = NewCapi.plci
      /\ d.lock = NewCapi.lock
  BY <1>8 DEF CallFields
<1> QED BY <1>1, <1>6, <1>7, <1>9, NewCapiOK

LEMMA GoneOK ==
  ASSUME NEW v, IsView(v), v.up \in Seq(Message)
  PROVE  Good(Gone(v)) /\ Gone(v).c.told = v.c.told
<1> DEFINE c == Empty(v.c)
           d == With(v, c)
<1>1. /\ IsCall(c) /\ c.ex = FALSE /\ c.st = 0 /\ c.run = {} /\ c.armed = {}
      /\ c.wf = {} /\ c.plci = 0 /\ c.lock = FALSE /\ c.told = v.c.told
  BY EmptyOK
<1> HIDE DEF c
<1>2. IsView(d) /\ d.c = c /\ d.up = v.up
  BY <1>1, PutCall DEF ViewFields
<1>3. Gone(v) = d
  BY DEF Gone, c
<1> HIDE DEF d
<1>4. Base(d)
  BY <1>1, <1>2 DEF Base, Timed, CapiStates
<1> QED BY <1>1, <1>2, <1>3, <1>4 DEF Good, Clearing, EndKnown

(* Layer 4 has been told before the call is taken down by force.           *)
TellsFirst(v, hard) == hard /\ v.c.ex /\ ~v.c.lock => v.c.told \in Ended
LEMMA OverOK ==
  ASSUME NEW v, Good(v), NEW hard
  PROVE  /\ Good(CapiOver(v, hard))
         /\ TellsFirst(v, hard) => Frees(v, CapiOver(v, hard))
<1> DEFINE a == [v EXCEPT !.c.st = 0]
<1>0. IsView(v) /\ v.up \in Seq(Message) /\ (v.c.lock => v.c.st = 0)
  BY DEF Good, Base
<1>1. Touches(v, a, {}, {"st"}) /\ a.c.st = 0
  <2>1. ASSUME NEW x PROVE LET d == [v EXCEPT !.c.st = x] IN Touches(v, d, {}, {"st"}) /\ d.c.st = x
    BY <1>0, Put DEF CallFields
  <2> QED BY <2>1
<1> HIDE DEF a
<1>2. /\ IsView(a) /\ a.up = v.up /\ a.c.told = v.c.told /\ a.c.lock = v.c.lock
      /\ a.c.ex = v.c.ex
  BY <1>1 DEF Touches, CallFields, ViewFields
<1>3. CASE ~(hard \/ v.c.st = 0)
  BY <1>3 DEF CapiOver, Frees
<1>4. CASE (hard \/ v.c.st = 0) /\ v.c.lock
  <2>1. Like(v, a)
    BY <1>0, <1>1, <1>2, <1>4 DEF Like, Touches, Key, CallFields
  <2> DEFINE x == a.c.mapped /\ ~(a.c.minor /\ a.c.open # "no")
             b == [a EXCEPT !.c.mapped = x]
  <2>2. Touches(a, b, {}, {"mapped"})
    <3> HIDE DEF x
    <3> QED BY <1>2, Put DEF CallFields
  <2>3. CapiOver(v, hard) = b
    BY <1>2, <1>4 DEF CapiOver, Freed, a
  <2> HIDE DEF b
  <2>4. {"mapped"} \cap Key = {}
    BY DEF Key
  <2>5. Like(a, b)
    BY <2>2, <2>4, SameLike
  <2>6. Good(a) /\ Good(b) /\ b.c.ex = v.c.ex
    BY <2>1, <2>5, LikeOK
  <2> QED BY <2>3, <2>6 DEF Frees
<1>5. CASE (hard \/ v.c.st = 0) /\ ~v.c.lock
  <2>1. CapiOver(v, hard) = Gone(a)
    BY <1>2, <1>5 DEF CapiOver, Freed, a
  <2>2. Good(Gone(a)) /\ Gone(a).c.told = v.c.told
    BY <1>0, <1>2, GoneOK
  <2>3. TellsFirst(v, hard) => (v.c.ex => v.c.told \in Ended)
    BY <1>5 DEF TellsFirst, Good, EndKnown, Ending
  <2> QED BY <2>1, <2>2, <2>3 DEF Frees
<1> QED BY <1>3, <1>4, <1>5

LEMMA SetupPlainKey ==
  ASSUME NEW c, IsCall(c), NEW est
  PROVE  LET d == SetupPlain(c, est) IN IsCall(d) /\ \A f \in Key : d[f] = c[f]
<1>1. Key \subseteq CallFields \ StackFields
  BY DEF Key, CallFields, StackFields
<1> QED BY <1>1, SetupPlainOK DEF Settles

LEMMA TearDownOK ==
  ASSUME NEW v, Good(v), NEW hard
  PROVE  /\ Good(CapiTearDown(v, hard))
         /\ TellsFirst(v, hard) => Frees(v, CapiTearDown(v, hard))
<1> DEFINE c == IF v.c.minor /\ v.c.open # "no" /\ v.c.mapped
                THEN SetupPlain(v.c, "DISCONNECT") ELSE v.c
           a == With(v, IF hard THEN Untimer(c, Timers) ELSE c)
           b == SendDisconnect(a, ~hard)
<1>1. IsCall(c) /\ \A f \in Key : c[f] = v.c[f]
  BY SetupPlainKey DEF Good, Base, IsView
<1>2. CapiTearDown(v, hard) = CapiOver(b, hard)
  BY DEF CapiTearDown
<1> HIDE DEF c
<1>3. Keeps(v, a)
  BY <1>1, UntimerKeeps, WithKeeps
<1> HIDE DEF a
<1>4. Keeps(a, b)
  BY <1>3, SendDisconnectOK DEF Keeps
<1> HIDE DEF b
<1>5. Keeps(v, b)
  BY <1>3, <1>4, KeepsOn
<1>6. /\ Good(CapiOver(b, hard))
      /\ TellsFirst(v, hard) => Frees(b, CapiOver(b, hard))
  BY <1>5, OverOK DEF Keeps, TellsFirst
<1> QED BY <1>2, <1>5, <1>6, KeepsLives, FreesOn

LEMMA KillOK ==
  ASSUME NEW v, Good(v), NEW force
  PROVE  /\ Good(CapiKill(v, force))
         /\ TellsFirst(v, force # 0) => Frees(v, CapiKill(v, force))
<1> DEFINE c == StopWatch(v.c)
           a == With(v, c)
           b == [a EXCEPT !.c.delaying = TRUE]
           s == SetupPlain(b.c, "WILL_DISCONNECT")
           will == [s EXCEPT !.tend = TRUE, !.hup = FALSE]
           e == [b EXCEPT !.c.tend = FALSE]
<1>0. Key \subseteq CallFields \ StackFields /\ "delaying" \notin Key /\ "tend" \notin Key
      /\ "hup" \notin Key
  BY DEF Key, CallFields, StackFields
<1>1. Keeps(v, a)
  <2>1. IsCall(c) /\ \A f \in Key : c[f] = v.c[f]
    BY <1>0, StopWatchOK DEF Good, Base, IsView, Settles
  <2> QED BY <2>1, WithKeeps
<1> HIDE DEF a
<1>2. Keeps(a, b)
  <2>1. Touches(a, b, {}, {"delaying"})
    BY <1>1, Put DEF CallFields, Keeps, Good, Base
  <2>2. Like(a, b)
    BY <1>0, <2>1, SameLike
  <2> QED BY <1>1, <2>2, LikeKeeps DEF Keeps
<1> HIDE DEF b
<1>3. Keeps(b, e)
  <2>1. Touches(b, e, {}, {"tend"})
    BY <1>2, Put DEF CallFields, Keeps, Good, Base
  <2>2. Like(b, e)
    BY <1>0, <2>1, SameLike
  <2> QED BY <1>2, <2>2, LikeKeeps DEF Keeps
<1> HIDE DEF e
<1>4. Keeps(b, With(b, will))
  <2>1. IsCall(s) /\ \A f \in Key : s[f] = b.c[f]
    BY <1>2, SetupPlainKey DEF Keeps, Good, Base, IsView
  <2> HIDE DEF s
  <2>2. IsCall(will) /\ \A f \in Key : will[f] = s[f]
    BY <2>1 DEF IsCall, CallFields, Key
  <2> HIDE DEF will
  <2>3. \A f \in Key : will[f] = b.c[f]
    BY <2>1, <2>2
  <2> QED BY <1>2, <2>2, <2>3, WithKeeps DEF Keeps
<1>5. /\ Good(CapiTearDown(e, force # 0))
      /\ TellsFirst(v, force # 0) => Frees(e, CapiTearDown(e, force # 0))
  <2>1. Keeps(v, e)
    BY <1>1, <1>2, <1>3, KeepsOn
  <2> DEFINE hard == force # 0
  <2> HIDE DEF hard
  <2>2. /\ Good(CapiTearDown(e, hard))
        /\ TellsFirst(e, hard) => Frees(e, CapiTearDown(e, hard))
    BY <2>1, TearDownOK DEF Keeps
  <2>3. TellsFirst(v, hard) => TellsFirst(e, hard)
    BY <2>1 DEF Keeps, TellsFirst
  <2> QED BY <2>2, <2>3 DEF hard
<1>6. \/ CapiKill(v, force) = a
      \/ CapiKill(v, force) = b
      \/ CapiKill(v, force) = With(b, will)
      \/ CapiKill(v, force) = CapiTearDown(e, force # 0)
  <2>1. CapiKill(v, force) =
          CASE force = 0 /\ v.c.delaying -> a
            [] force = 0 /\ ~v.c.delaying /\ v.c.hup /\ SentOf(v.c) >= 2 /\ v.c.proto ->
                 IF v.c.tend THEN b ELSE With(b, will)
            [] force # 0 /\ v.c.tend -> b
            [] OTHER -> CapiTearDown(e, force # 0)
    BY DEF CapiKill, a, b, e
  <2> QED BY <2>1
<1>7. Frees(v, a) /\ Frees(v, b) /\ Frees(v, With(b, will))
  BY <1>1, <1>2, <1>4, KeepsOn, KeepsLives, LivesFrees
<1>8. Lives(v, e)
  BY <1>1, <1>2, <1>3, KeepsOn, KeepsLives
<1>9. TellsFirst(v, force # 0) => Frees(v, CapiTearDown(e, force # 0))
  BY <1>5, <1>8, FreesOn
<1>10. Good(a) /\ Good(b) /\ Good(With(b, will))
  BY <1>7 DEF Frees
<1> QED BY <1>5, <1>6, <1>7, <1>9, <1>10

LEMMA CheckTermOK ==
  ASSUME NEW v, Base(v), Clearing(v), v.c.st # 0 => EndKnown(v)
  PROVE  Frees(v, CapiCheckTerm(v))
<1>1. CASE v.c.st # 0
  BY <1>1 DEF CapiCheckTerm, Frees, Good
<1>2. CASE v.c.st = 0
  <2> DEFINE d == Told(v)
  <2>1. Good(d) /\ d.c.told \in Ended /\ d.c.ex = v.c.ex
    BY TellOK
  <2> HIDE DEF d
  <2>2. Frees(d, CapiKill(d, 1))
    BY <2>1, KillOK DEF TellsFirst
  <2>3. CapiCheckTerm(v) = CapiKill(d, 1)
    BY <1>2 DEF CapiCheckTerm, d
  <2> QED BY <2>1, <2>2, <2>3 DEF Frees
<1> QED BY <1>1, <1>2

LEMMA CapiSetupOK ==
  ASSUME NEW v, Good(v), NEW est
  PROVE  Frees(v, CapiSetup(v, est))
<1> DEFINE d == Est(v, est)
<1>1. Keeps(v, d)
  BY EstKeeps
<1> HIDE DEF d
<1>2. Frees(d, CapiKill(d, 0))
  BY <1>1, KillOK DEF Keeps, TellsFirst
<1>3. CapiSetup(v, est) = IF d.c.st = 0 THEN CapiKill(d, 0) ELSE d
  BY DEF CapiSetup, CapiKillIfOver, d
<1> QED BY <1>1, <1>2, <1>3, KeepsLives, LivesFrees, FreesOn

-----------------------------------------------------------------------------
(* The messages of the card: none of them frees the call.                  *)
LEMMA Unlocked ==
  ASSUME NEW v, Good(v), v.c.st # 0
  PROVE  ~v.c.lock /\ v.c.st \in CapiStates /\ v.c.plci \in PLCIs \cup {0}
BY DEF Good, Base

LEMMA GotLives ==
  ASSUME NEW v, Good(v), NEW t
  PROVE  /\ Lives(v, Got(v, t)) /\ Got(v, t).c.st = v.c.st /\ Got(v, t).c.lock = v.c.lock
         /\ Got(v, t).c.told = v.c.told /\ Got(v, t).c.wf = v.c.wf \ {t}
         /\ Got(v, t).c.plci = v.c.plci
BY GotOK DEF Lives

LEMMA LivesItself ==
  ASSUME NEW v, Good(v)
  PROVE  Lives(v, v)
BY DEF Lives

LEMMA TellLives ==
  ASSUME NEW v, NEW d, Lives(v, d)
  PROVE  Lives(v, Told(d))
BY TellKeeps, KeepsLives, LivesOn DEF Lives

LEMMA EstLives ==
  ASSUME NEW v, NEW d, Lives(v, d), NEW est
  PROVE  Lives(v, Est(d, est)) /\ Est(d, est).c.st = d.c.st /\ Est(d, est).c.lock = d.c.lock
<1>1. Like(d, Est(d, est))
  BY EstLike DEF Lives, Good, Base
<1> QED BY <1>1, LikeOK DEF Lives

LEMMA ClearLives ==
  ASSUME NEW v, NEW d, Lives(v, d), NEW l3
  PROVE  Lives(v, SendDisconnect(d, l3))
BY SendDisconnectOK, KeepsLives, LivesOn DEF Lives

LEMMA DropLives ==
  ASSUME NEW v, NEW d, Lives(v, d)
  PROVE  Lives(v, Drop(d))
BY DropOK, KeepsLives, LivesOn DEF Lives

LEMMA ShutLives ==
  ASSUME NEW v, NEW d, Lives(v, d), NEW s \in Ending, s = 0 \/ ~d.c.lock
  PROVE  Lives(v, Told(CapiSetState(d, s)))
BY ShutOK DEF Lives, Good

LEMMA SlamOK ==
  ASSUME NEW v, Good(v), NEW n \in PLCIs \cup {0}
  PROVE  Lives(v, Slam(v, n))
<1>1. LET d == DisconnectReq(v, n) IN d.c = v.c /\ Good(d)
  BY DisconnectReqOK DEF Good
<1> QED BY <1>1 DEF Slam, Lives

LEMMA DisconnectB3ConfOK ==
  ASSUME NEW v, Good(v), NEW m, m.t = "DB3_CONF"
  PROVE  Lives(v, DisconnectB3Conf(v, m))
<1>1. CASE ~Finds3(v, m.n) \/ m.t \notin v.c.wf
  BY <1>1, LivesItself DEF DisconnectB3Conf
<1>2. CASE Finds3(v, m.n) /\ m.t \in v.c.wf
  <2> DEFINE d == Got(v, m.t)
             e == CapiSetState(d, 0)
  <2>1. Lives(v, d) /\ d.c.told = v.c.told
    BY GotLives
  <2>2. v.c.told \in Ended
    BY <1>2, Unlocked DEF Finds3, Finds, Good, Clearing, EndKnown
  <2>3. DisconnectB3Conf(v, m) = IF d.c.wf = {} THEN e ELSE d
    BY <1>2 DEF DisconnectB3Conf
  <2> HIDE DEF d
  <2>4. Good(e) /\ e.c.ex = d.c.ex
    BY <2>1, <2>2, EndOK DEF Lives, Good, Ending
  <2> HIDE DEF e
  <2> QED BY <2>1, <2>3, <2>4 DEF Lives
<1> QED BY <1>1, <1>2

LEMMA DisconnectB3IndOK ==
  ASSUME NEW v, Good(v), NEW m
  PROVE  Lives(v, DisconnectB3Ind(v, m))
<1> DEFINE d == Got(v, m.t)
           a == Told(SendDisconnect(d, FALSE))
           b == Told(CapiSetState(d, 99))
           g == Told(SendDisconnect(Est(v, "DISCONNECT"), FALSE))
           e == IF d.c.wf # {} THEN d ELSE IF v.c.st = 20 THEN a ELSE b
           f == CASE Expected(v, m) -> e
                  [] ~Expected(v, m) /\ (~m.ok \/ v.c.st >= 20) -> g
                  [] OTHER -> v
<1>1. CASE ~Finds3(v, m.n)
  BY <1>1, LivesItself DEF DisconnectB3Ind
<1>2. CASE Finds3(v, m.n)
  <2>1. Lives(v, v) /\ Lives(v, d) /\ ~d.c.lock
    BY <1>2, Unlocked, GotLives, LivesItself DEF Finds3, Finds
  <2>2. DisconnectB3Ind(v, m) = SendDisconnect(f, FALSE)
    BY <1>2 DEF DisconnectB3Ind
  <2> HIDE DEF d
  <2>3. Lives(v, a)
    BY <2>1, ClearLives, TellLives
  <2>4. Lives(v, b)
    BY <2>1, ShutLives DEF Ending
  <2>5. Lives(v, g)
    BY <2>1, EstLives, ClearLives, TellLives
  <2> HIDE DEF a, b, g
  <2>6. f = d \/ f = a \/ f = b \/ f = g \/ f = v
    OBVIOUS
  <2> HIDE DEF f
  <2>7. Lives(v, f)
    BY <2>1, <2>3, <2>4, <2>5, <2>6
  <2> QED BY <2>2, <2>7, ClearLives
<1> QED BY <1>1, <1>2

LEMMA DisconnectIndOK ==
  ASSUME NEW v, Good(v), NEW m
  PROVE  Lives(v, DisconnectInd(v, m))
<1> DEFINE d == Got(v, m.t)
           a == Told(CapiSetState(d, 99))
           b == Told(Est(CapiSetState(d, 99), "DISCONNECT"))
           g == Told(CapiSetState(v, 99))
           e == CASE m.t \in v.c.wf -> IF d.c.wf = {} THEN a ELSE d
                  [] m.t \notin v.c.wf /\ v.c.st # 99 /\ (~m.ok \/ v.c.st >= 21) -> b
                  [] m.t \notin v.c.wf /\ v.c.st # 99 /\ m.ok /\ v.c.st < 21 -> g
                  [] OTHER -> v
<1>1. CASE ~Finds(v, m.n)
  BY <1>1, LivesItself DEF DisconnectInd
<1>2. CASE Finds(v, m.n)
  <2>1. Lives(v, v) /\ Lives(v, d) /\ ~d.c.lock /\ ~v.c.lock
    BY <1>2, Unlocked, GotLives, LivesItself DEF Finds
  <2>2. DisconnectInd(v, m) = DisconnectResp(e, m.n)
    BY <1>2 DEF DisconnectInd
  <2>0. 99 \in Ending /\ 99 \in CapiStates
    BY DEF Ending, CapiStates
  <2> HIDE DEF d
  <2>3. Lives(v, a) /\ Lives(v, g)
    BY <2>0, <2>1, ShutLives
  <2>4. Lives(v, b)
    <3> DEFINE x == CapiSetState(d, 99)
               y == Est(x, "DISCONNECT")
    <3>1. Base(x) /\ x.c.st = 99 /\ x.c.ex = d.c.ex
      BY <2>0, <2>1, ShiftOK DEF Lives, Good
    <3> HIDE DEF x
    <3>2. Base(y) /\ y.c.st = 99 /\ y.c.ex = d.c.ex
      BY <3>1, EstLike, LikeOK DEF Base
    <3> HIDE DEF y
    <3>3. Clearing(y)
      BY <3>2, <2>0 DEF Clearing
    <3>4. Good(Told(y)) /\ Told(y).c.ex = y.c.ex
      BY <3>2, <3>3, TellOK
    <3> QED BY <2>1, <3>2, <3>4 DEF Lives, x, y
  <2> HIDE DEF a, b, g
  <2>6. e = d \/ e = a \/ e = b \/ e = g \/ e = v
    OBVIOUS
  <2> HIDE DEF e
  <2>7. Lives(v, e)
    BY <2>1, <2>3, <2>4, <2>6
  <2>8. LET x == DisconnectResp(e, m.n) IN Good(x) /\ x.c = e.c
    BY <2>7, DisconnectRespOK DEF Lives, Good
  <2> QED BY <2>2, <2>7, <2>8 DEF Lives
<1> QED BY <1>1, <1>2

LEMMA DisconnectConfOK ==
  ASSUME NEW v, Good(v), NEW m
  PROVE  Lives(v, DisconnectConf(v, m))
<1> DEFINE d == Got(v, m.t)
           a == Told(CapiSetState(d, 99))
           b == Told(CapiSetState(Est(v, "DISCONNECT"), 0))
<1>1. CASE ~Finds(v, m.n)
  BY <1>1, LivesItself DEF DisconnectConf
<1>2. CASE Finds(v, m.n)
  <2>1. Lives(v, v) /\ Lives(v, d) /\ ~d.c.lock
    BY <1>2, Unlocked, GotLives, LivesItself DEF Finds
  <2>2. DisconnectConf(v, m) = d \/ DisconnectConf(v, m) = a \/ DisconnectConf(v, m) = b
    BY <1>2 DEF DisconnectConf
  <2> HIDE DEF d
  <2>3. Lives(v, a)
    BY <2>1, ShutLives DEF Ending
  <2>4. Lives(v, b)
    BY <2>1, EstLives, ShutLives DEF Ending
  <2> HIDE DEF a, b
  <2> QED BY <2>1, <2>2, <2>3, <2>4
<1> QED BY <1>1, <1>2

LEMMA PlciOK ==
  ASSUME NEW v, Good(v), NEW n \in PLCIs \cup {0}
  PROVE  LET d == [v EXCEPT !.c.plci = n]
         IN  /\ Good(d) /\ d.c.ex = v.c.ex /\ d.c.st = v.c.st /\ d.c.wf = v.c.wf
             /\ d.c.lock = v.c.lock /\ d.c.told = v.c.told
<1> DEFINE d == [v EXCEPT !.c.plci = n]
<1>1. Touches(v, d, {}, {"plci"}) /\ d.c.plci = n
  <2>1. ASSUME NEW x
        PROVE  LET y == [v EXCEPT !.c.plci = x] IN Touches(v, y, {}, {"plci"}) /\ y.c.plci = x
    BY Put DEF CallFields, Good, Base
  <2> QED BY <2>1
<1> HIDE DEF d
<1>2. /\ d.c.ex = v.c.ex /\ d.c.st = v.c.st /\ d.c.wf = v.c.wf /\ d.c.lock = v.c.lock
      /\ d.c.told = v.c.told /\ d.c.run = v.c.run /\ d.c.armed = v.c.armed
      /\ d.up = v.up /\ IsView(d)
  BY <1>1 DEF Touches, CallFields, ViewFields
<1>3. Good(d)
  BY <1>1, <1>2 DEF Good, Base, Timed, Clearing, EndKnown
<1> QED BY <1>2, <1>3 DEF d

(* send_setup: SELECTB2_REQ and SELECTB3_REQ.                              *)
LEMMA SendSetupOK ==
  ASSUME NEW v, Good(v)
  PROVE  LET d == SendSetup(v)
         IN  Lives(v, d) /\ d.c.wf = {"B2_CONF", "B3_CONF"} /\ d.c.ex = v.c.ex
<1> DEFINE a == SelectReqs(v, v.c.plci)
           W == {"B2_CONF", "B3_CONF"}
           b == [a EXCEPT !.c.wf = W]
           s == IF v.c.st = 2 THEN 3 ELSE IF v.c.st = 7 THEN 8 ELSE v.c.st
           d == CapiSetState(b, s)
<1>1. Base(a) /\ a.c = v.c
  BY SelectReqsOK DEF Good, Base
<1>2. SendSetup(v) = d
  BY DEF SendSetup
<1> HIDE DEF a, W
<1>3. /\ Base(b) /\ b.c.wf = W /\ b.c.st = v.c.st /\ b.c.ex = v.c.ex
      /\ b.c.told = v.c.told /\ b.c.lock = v.c.lock
  <2>1. Awaits(a, b, W)
    BY <1>1, AwaitOK
  <2> HIDE DEF b
  <2> QED BY <1>1, <2>1 DEF Awaits
<1> HIDE DEF b
<1>4. "DB3_CONF" \notin b.c.wf
  BY <1>3 DEF W
<1>5. Good(b)
  BY <1>3, <1>4 DEF Good, Clearing, EndKnown
<1>6. CASE v.c.st = 2 \/ v.c.st = 7
  <2>1. s \in CapiStates \ Ending /\ ~b.c.lock
    BY <1>3, <1>6, Unlocked DEF Ending, CapiStates
  <2> HIDE DEF s
  <2>2. Good(d) /\ d.c.ex = b.c.ex /\ d.c.wf = b.c.wf
    BY <1>3, <1>4, <2>1, EnterOK
  <2> HIDE DEF d
  <2> QED BY <1>2, <1>3, <2>2 DEF Lives, W
<1>7. CASE ~(v.c.st = 2 \/ v.c.st = 7)
  <2>1. d = b
    BY <1>3, <1>7 DEF CapiSetState
  <2> HIDE DEF d
  <2> QED BY <1>2, <1>3, <1>5, <2>1 DEF Lives, W
<1> QED BY <1>6, <1>7

LEMMA ConnectConfOK ==
  ASSUME NEW v, Good(v), NEW m, m.n \in PLCIs \cup {0}
  PROVE  Lives(v, ConnectConf(v, m))
<1> DEFINE d == [v EXCEPT !.c.plci = m.n]
           e == Got(d, m.t)
           s == SendSetup(e)
           a == Told(CapiSetState(v, 0))
           b == Told(Drop(Est(d, "DISCONNECT")))
           g == Drop(e)
           h == [s EXCEPT !.c.wf = @ \cup {"ACTIVE_IND"}]
<1>1. Lives(v, v) /\ Lives(v, Slam(v, m.n))
  BY LivesItself, SlamOK
<1>2. Lives(v, d)
  BY PlciOK DEF Lives
<1>3. \/ ConnectConf(v, m) = a \/ ConnectConf(v, m) = Slam(v, m.n) \/ ConnectConf(v, m) = b
      \/ ConnectConf(v, m) = e \/ ConnectConf(v, m) = g \/ ConnectConf(v, m) = h
  BY DEF ConnectConf
<1> HIDE DEF d
<1>4. Lives(v, e)
  BY <1>2, GotLives, LivesOn DEF Lives
<1> HIDE DEF e
<1>5. Lives(v, a)
  BY <1>1, ShutLives DEF Ending
<1>6. Lives(v, b)
  BY <1>2, EstLives, DropLives, TellLives
<1>7. Lives(v, g)
  BY <1>4, DropLives
<1>8. Lives(v, h)
  <2>1. Lives(v, s) /\ s.c.wf = {"B2_CONF", "B3_CONF"}
    BY <1>4, SendSetupOK, LivesOn DEF Lives
  <2> DEFINE W == s.c.wf \cup {"ACTIVE_IND"}
  <2>2. h = [s EXCEPT !.c.wf = W]
    BY <2>1 DEF Lives, Good, Base, IsView, ViewFields
  <2>3. "DB3_CONF" \notin W
    BY <2>1
  <2> HIDE DEF s, h, W
  <2>4. Awaits(s, h, W)
    BY <2>1, <2>2, AwaitOK DEF Lives, Good
  <2>5. Good(h)
    BY <2>1, <2>3, <2>4 DEF Awaits, Lives, Good, Clearing, EndKnown
  <2> QED BY <2>1, <2>4, <2>5 DEF Lives, Awaits
<1> HIDE DEF a, b, g, h
<1> QED BY <1>1, <1>3, <1>4, <1>5, <1>6, <1>7, <1>8

-----------------------------------------------------------------------------
(* after_active: the call moves on.                                        *)
LEMMA ReportedLives ==
  ASSUME NEW v, Good(v), v.c.st \notin Ending, NEW what
  PROVE  LET d == Reported(v, what)
         IN  Lives(v, d) /\ d.c.st = v.c.st /\ d.c.lock = v.c.lock
<1> DEFINE d == [v EXCEPT !.c.told = what]
<1>1. Touches(v, d, {}, {"told"})
  BY Put DEF CallFields, Good, Base
<1>0. Reported(v, what) = d
  BY DEF Reported
<1> HIDE DEF d
<1>2. /\ d.c.ex = v.c.ex /\ d.c.st = v.c.st /\ d.c.wf = v.c.wf /\ d.c.lock = v.c.lock
      /\ d.c.plci = v.c.plci /\ d.c.run = v.c.run /\ d.c.armed = v.c.armed
      /\ d.up = v.up /\ IsView(d)
  BY <1>1 DEF Touches, CallFields, ViewFields
<1>3. Good(d)
  BY <1>2 DEF Good, Base, Timed, Clearing, EndKnown
<1> QED BY <1>0, <1>2, <1>3 DEF Lives

LEMMA MovesOn ==
  ASSUME NEW v, Base(v), NEW W, "DB3_CONF" \notin W, NEW s \in CapiStates \ Ending, ~v.c.lock
  PROVE  LET d == CapiSetState([v EXCEPT !.c.wf = W], s)
         IN  Good(d) /\ d.c.st = s /\ d.c.ex = v.c.ex /\ d.c.wf = W
<1> DEFINE a == [v EXCEPT !.c.wf = W]
<1>1. Awaits(v, a, W)
  BY AwaitOK
<1> HIDE DEF a
<1>2. LET d == CapiSetState(a, s) IN Good(d) /\ d.c.st = s /\ d.c.ex = a.c.ex /\ d.c.wf = a.c.wf
  BY <1>1, EnterOK DEF Awaits
<1> QED BY <1>1, <1>2 DEF Awaits, a

LEMMA OpenB3OK ==
  ASSUME NEW v, Good(v), ~v.c.lock
  PROVE  Lives(v, OpenB3(v))
<1> DEFINE a == ConnectB3Req(v, v.c.plci)
           W == {"CB3_CONF", "B3ACTIVE_IND"}
<1>1. Base(a) /\ a.c = v.c
  BY ConnectB3ReqOK DEF Good, Base
<1>2. "DB3_CONF" \notin W
  OBVIOUS
<1>3. OpenB3(v) = CapiSetState([a EXCEPT !.c.wf = W], 4)
  BY DEF OpenB3
<1>4. 4 \in CapiStates \ Ending
  BY DEF CapiStates, Ending
<1> HIDE DEF a, W
<1>5. LET d == CapiSetState([a EXCEPT !.c.wf = W], 4)
      IN  Good(d) /\ d.c.st = 4 /\ d.c.ex = a.c.ex /\ d.c.wf = W
  <2>1. ~a.c.lock /\ Base(a)
    BY <1>1
  <2> QED BY <1>2, <1>4, <2>1, MovesOn
<1> QED BY <1>1, <1>3, <1>5 DEF Lives

LEMMA AcceptCallOK ==
  ASSUME NEW v, Good(v), ~v.c.lock
  PROVE  Lives(v, AcceptCall(v)) /\ AcceptCall(v).c.st = 9
<1> DEFINE b == Accept(v, v.c.plci)
           a == ConnectB3Req(b, v.c.plci)
           W == {"CB3_CONF", "ACTIVE_IND", "B3ACTIVE_IND"}
<1>1. Base(b) /\ b.c = v.c
  BY AcceptOK DEF Good
<1>2. Base(a) /\ a.c = v.c
  <2> HIDE DEF b
  <2>1. v.c.plci \in PLCIs \cup {0}
    BY DEF Good, Base
  <2> QED BY <1>1, <2>1, ConnectB3ReqOK
<1>3. "DB3_CONF" \notin W
  OBVIOUS
<1>4. AcceptCall(v) = CapiSetState([a EXCEPT !.c.wf = W], 9)
  BY DEF AcceptCall
<1>5. 9 \in CapiStates \ Ending
  BY DEF CapiStates, Ending
<1> HIDE DEF a, W
<1>6. LET d == CapiSetState([a EXCEPT !.c.wf = W], 9)
      IN  Good(d) /\ d.c.ex = a.c.ex /\ d.c.st = 9
  BY <1>2, <1>3, <1>5, MovesOn
<1> QED BY <1>2, <1>4, <1>6 DEF Lives

LEMMA StandsOK ==
  ASSUME NEW v, Good(v), ~v.c.lock
  PROVE  Lives(v, Stands(v))
<1> DEFINE a == CapiSetState(v, 15)
           b == Reported(a, "conn")
<1>1. 15 \in CapiStates \ Ending
  BY DEF CapiStates, Ending
<1>2. CASE v.c.wf # {}
  BY <1>2, LivesItself DEF Stands
<1>3. CASE v.c.wf = {}
  <2>1. Good(a) /\ a.c.st = 15 /\ a.c.ex = v.c.ex
    BY <1>1, <1>3, EnterOK DEF Good
  <2>2. Stands(v) = Est(b, "CONNECT")
    BY <1>3 DEF Stands
  <2> HIDE DEF a
  <2>3. Lives(a, b)
    BY <1>1, <2>1, ReportedLives
  <2> HIDE DEF b
  <2>4. Lives(a, Est(b, "CONNECT"))
    BY <2>3, EstLives
  <2> QED BY <2>1, <2>2, <2>4 DEF Lives
<1> QED BY <1>2, <1>3

LEMMA JoinOK ==
  ASSUME NEW v, Good(v), ~v.c.lock, NEW assoc
  PROVE  Lives(v, Join(v, assoc))
<1> DEFINE a == Est(v, "LISTEN")
<1>1. Lives(v, v)
  BY LivesItself
<1>2. Lives(v, a) /\ a.c.lock = v.c.lock
  BY <1>1, EstLives
<1>3. Join(v, assoc) = v \/ Join(v, assoc) = Stands(a) \/ Join(v, assoc) = Stands(v)
  BY DEF Join
<1> HIDE DEF a
<1>4. Lives(v, Stands(a)) /\ Lives(v, Stands(v))
  BY <1>2, StandsOK, LivesOn DEF Lives
<1> QED BY <1>1, <1>3, <1>4

LEMMA AfterActiveOK ==
  ASSUME NEW v, Good(v), v.c.st # 0, NEW assoc
  PROVE  Lives(v, AfterActive(v, assoc))
<1> DEFINE a == AcceptCall(v)
<1>1. ~v.c.lock /\ Lives(v, v)
  BY Unlocked, LivesItself
<1>2. Lives(v, a) /\ a.c.st = 9
  BY <1>1, AcceptCallOK
<1>3. Lives(v, OpenB3(v)) /\ Lives(v, Drop(v)) /\ Lives(v, Join(v, assoc))
  BY <1>1, OpenB3OK, DropLives, JoinOK
<1>4. \/ AfterActive(v, assoc) = OpenB3(v) \/ AfterActive(v, assoc) = v
      \/ AfterActive(v, assoc) = Join(v, assoc) \/ AfterActive(v, assoc) = Join(a, assoc)
      \/ AfterActive(v, assoc) = Drop(v)
  BY DEF AfterActive
<1> HIDE DEF a
<1>5. Lives(v, Join(a, assoc))
  BY <1>2, Unlocked, JoinOK, LivesOn DEF Lives
<1> QED BY <1>1, <1>3, <1>4, <1>5

(* The answers while a call is set up.                                     *)
LEMMA SetupMessageOK ==
  ASSUME NEW v, Good(v), NEW m \in Message,
         m.t \in {"B2_CONF", "B3_CONF", "ACTIVE_IND", "CB3_CONF", "B3ACTIVE_IND"},
         NEW next, v.c.st # 0 => Lives(v, next), NEW drop, Lives(v, drop)
  PROVE  Lives(v, SetupMessage(v, m, next, drop))
<1> DEFINE d == SetupMessage(v, m, next, drop)
<1>1. Lives(v, v) /\ Lives(v, Slam(v, m.n)) /\ Lives(v, Told(drop))
  BY LivesItself, SlamOK, TellLives DEF Message
<1>2. \/ d = SelectConf(v, m, next, drop) \/ d = ConnectActiveInd(v, m, next, drop)
      \/ d = ConnectB3Conf(v, m, next, drop) \/ d = ConnectB3ActiveInd(v, m, next, drop)
  BY DEF SetupMessage
<1>3. Expected(v, m) \/ ~Expected(v, m)
  OBVIOUS
<1>4. Finds(v, m.n) => Lives(v, next)
  BY DEF Finds
<1>5. Lives(v, SelectConf(v, m, next, drop))
  BY <1>1, <1>3, <1>4 DEF SelectConf
<1>6. Lives(v, ConnectActiveInd(v, m, next, drop))
  BY <1>1, <1>3, <1>4 DEF ConnectActiveInd
<1>7. Lives(v, ConnectB3ActiveInd(v, m, next, drop))
  <2>1. Finds3(v, m.n) => Lives(v, next)
    BY <1>4 DEF Finds3
  <2> QED BY <1>1, <1>3, <2>1 DEF ConnectB3ActiveInd
<1> HIDE DEF d
<1> QED BY <1>2, <1>5, <1>6, <1>7 DEF d, ConnectB3Conf

(* A new call.                                                             *)
LEMMA NewRecordOK ==
  ASSUME NEW c
  PROVE  LET d == NewRecord(c)
         IN  /\ IsCall(d) /\ d.ex = TRUE /\ d.st = 0 /\ d.run = {} /\ d.armed = {}
             /\ d.wf = {} /\ d.plci = 0 /\ d.lock = FALSE /\ d.told = "nothing"
<1> DEFINE a == Empty(c)
           b == [a EXCEPT !.ex = TRUE]
           d == [b EXCEPT !.told = "nothing"]
<1>1. /\ IsCall(a) /\ a.st = 0 /\ a.run = {} /\ a.armed = {} /\ a.wf = {}
      /\ a.plci = 0 /\ a.lock = FALSE
  BY EmptyOK
<1>2. NewRecord(c) = d
  BY DEF NewRecord
<1> HIDE DEF a
<1>3. Filled(a, "ex", TRUE, b)
  BY <1>1, FilledOK
<1> HIDE DEF b
<1>4. IsCall(b)
  BY <1>3 DEF Filled
<1>5. Filled(b, "told", "nothing", d)
  BY <1>4, FilledOK
<1> HIDE DEF d
<1>6. /\ IsCall(d) /\ d.told = "nothing" /\ d.ex = TRUE
      /\ \A g \in CallFields \ {"ex", "told"} : d[g] = a[g]
  BY <1>3, <1>5 DEF Filled, CallFields
<1>7. /\ d.st = a.st /\ d.run = a.run /\ d.armed = a.armed /\ d.wf = a.wf
      /\ d.plci = a.plci /\ d.lock = a.lock
  BY <1>6 DEF CallFields
<1> QED BY <1>1, <1>2, <1>6, <1>7

LEMMA FreshOK ==
  ASSUME NEW v, Base(v), NEW c, IsCall(c), c.ex = TRUE, c.st = 0, c.run = {}, c.armed = {},
         c.wf = {}, c.plci \in PLCIs \cup {0}, c.lock = FALSE
  PROVE  LET d == With(v, c)
         IN  Base(d) /\ d.c = c /\ d.up = v.up
<1> DEFINE d == With(v, c)
<1>1. IsView(d) /\ d.c = c /\ d.up = v.up
  BY PutCall DEF ViewFields, Base
<1> HIDE DEF d
<1>2. Base(d)
  BY <1>1 DEF Base, Timed, CapiStates
<1> QED BY <1>1, <1>2 DEF d

LEMMA ConnectIndOK ==
  ASSUME NEW v, Good(v), NEW m \in Message, m.t = "CONNECT_IND"
  PROVE  Lives(v, ConnectInd(v, m))
<1> DEFINE a == NewRecord(v.c)
           c == [a EXCEPT !.plci = m.n]
           d == With(v, c)
<1>1. /\ IsCall(a) /\ a.ex = TRUE /\ a.st = 0 /\ a.run = {} /\ a.armed = {} /\ a.wf = {}
      /\ a.lock = FALSE
  BY NewRecordOK
<1>0. m.n \in PLCIs \cup {0} /\ (m.x = 0 \/ m.x = 1)
  BY DEF Message
<1>2. ConnectInd(v, m) =
        CASE Finds(v, m.n) -> v
          [] ~Finds(v, m.n) /\ m.x = 1 -> Reported(CapiSetState(d, 7), "incoming")
          [] ~Finds(v, m.n) /\ m.x = 0 ->
               IF "pbx" \in Happenings THEN CapiSetState(d, 6)
               ELSE Reported(CapiSetState(d, 6), "incoming")
  BY DEF ConnectInd
<1> HIDE DEF a
<1>3. Filled(a, "plci", m.n, c)
  BY <1>1, FilledOK
<1> HIDE DEF c
<1>4. /\ IsCall(c) /\ c.ex = TRUE /\ c.st = 0 /\ c.run = {} /\ c.armed = {} /\ c.wf = {}
      /\ c.lock = FALSE /\ c.plci \in PLCIs \cup {0}
  BY <1>0, <1>1, <1>3 DEF Filled, CallFields
<1>5. Base(d) /\ d.c = c
  <2>1. Base(v)
    BY DEF Good
  <2> QED BY <1>4, <2>1, FreshOK
<1> HIDE DEF d
<1>6. \A s \in {6, 7} : /\ Lives(v, CapiSetState(d, s))
                        /\ Lives(v, Reported(CapiSetState(d, s), "incoming"))
  <2> SUFFICES ASSUME NEW s \in {6, 7}
               PROVE  /\ Lives(v, CapiSetState(d, s))
                      /\ Lives(v, Reported(CapiSetState(d, s), "incoming"))
    OBVIOUS
  <2> DEFINE e == CapiSetState(d, s)
  <2>1. s \in CapiStates \ Ending
    BY DEF CapiStates, Ending
  <2>2. Good(e) /\ e.c.st = s /\ e.c.ex = TRUE
    BY <1>4, <1>5, <2>1, EnterOK
  <2> HIDE DEF e
  <2>3. Lives(e, Reported(e, "incoming"))
    BY <2>1, <2>2, ReportedLives
  <2> QED BY <2>2, <2>3 DEF Lives, e
<1>7. Lives(v, v)
  BY LivesItself
<1> QED BY <1>0, <1>2, <1>6, <1>7

LEMMA InfoIndOK ==
  ASSUME NEW v, Good(v), NEW m \in Message
  PROVE  Lives(v, InfoInd(v, m))
<1>1. Lives(v, v) /\ Lives(v, Slam(v, m.n))
  BY LivesItself, SlamOK DEF Message
<1>2. v.c.st = 6 => Lives(v, Reported(v, "incoming"))
  BY ReportedLives DEF Ending
<1> QED BY <1>1, <1>2 DEF InfoInd

-----------------------------------------------------------------------------
(* The start of the card, and recv.                                        *)
LEMMA BootOK ==
  ASSUME NEW v, Good(v), NEW b, NEW msgs, msgs \in Seq(Message)
  PROVE  /\ Lives(v, [v EXCEPT !.boot = b])
         /\ Lives(v, Say([v EXCEPT !.boot = b], msgs))
<1> DEFINE e == [v EXCEPT !.boot = b]
<1>1. Carded(v, e)
  BY DEF Carded, Good, Base, IsView, ViewFields
<1> HIDE DEF e
<1>2. Good(e)
  BY <1>1 DEF Carded, Good, Base, Clearing, EndKnown
<1>3. LET d == Say(e, msgs) IN Base(d) /\ d.c = v.c /\ (Good(v) => Good(d))
  BY <1>1, SayOK DEF Good
<1>4. Lives(v, e) /\ Lives(v, Say(e, msgs))
  BY <1>1, <1>2, <1>3 DEF Lives, Carded
<1> QED BY <1>4 DEF e

LEMMA BootMessages ==
  /\ Mapping \in Seq(Message)
  /\ <<Msg("REGISTER_CONF", 0, TRUE)>> \in Seq(Message)
  /\ Mapping \o <<Msg("LISTEN_CONF", 0, TRUE)>> \in Seq(Message)
  /\ Mapping \o <<Msg("TRACE_CONF", 0, TRUE)>> \in Seq(Message)
<1>1. {"REGISTER_CONF", "LISTEN_CONF", "TRACE_CONF", "EAZ_CONF"}
        \subseteq MsgTypes \ {"CONNECT_IND"}
  BY DEF MsgTypes
<1>2. \A t \in {"REGISTER_CONF", "LISTEN_CONF", "TRACE_CONF", "EAZ_CONF"} :
        <<Msg(t, 0, TRUE)>> \in Seq(Message)
  BY <1>1, MsgOK
<1>3. Mapping \in Seq(Message)
  <2>1. <<Msg("EAZ_CONF", 0, TRUE)>> \in Seq(Message)
    BY <1>2
  <2>2. <<>> \in Seq(Message)
    OBVIOUS
  <2> QED BY <2>1, <2>2 DEF Mapping
<1>4. ASSUME NEW S, NEW a \in Seq(S), NEW b \in Seq(S)
      PROVE  a \o b \in Seq(S)
  OBVIOUS
<1> QED BY <1>2, <1>3, <1>4

LEMMA ListenOK ==
  ASSUME NEW v, Good(v)
  PROVE  Lives(v, Listen(v))
BY BootMessages, BootOK DEF Listen

LEMMA StartOK ==
  ASSUME NEW v, Good(v), NEW m
  PROVE  /\ Lives(v, ApiOpenConf(v, m)) /\ Lives(v, RegisterConf(v, m))
         /\ Lives(v, TraceConf(v, m)) /\ Lives(v, EazConf(v, m)) /\ Lives(v, ListenConf(v, m))
<1>1. Lives(v, v) /\ Lives(v, Listen(v))
  BY LivesItself, ListenOK
<1>2. \A b : Lives(v, [v EXCEPT !.boot = b])
  BY BootMessages, BootOK
<1>3. Lives(v, ApiOpenConf(v, m))
  BY <1>1, <1>2, BootMessages, BootOK DEF ApiOpenConf
<1>4. Lives(v, RegisterConf(v, m))
  <2> DEFINE msgs == Mapping \o <<Msg("TRACE_CONF", 0, TRUE)>>
             a == Say([v EXCEPT !.boot = "trace"], msgs)
  <2>1. msgs \in Seq(Message)
    BY BootMessages
  <2>2. RegisterConf(v, m) = v \/ RegisterConf(v, m) = a \/ RegisterConf(v, m) = Listen(v)
    BY DEF RegisterConf
  <2> HIDE DEF msgs
  <2>3. Lives(v, a)
    BY <2>1, BootOK
  <2> HIDE DEF a
  <2> QED BY <1>1, <2>2, <2>3
<1>5. Lives(v, TraceConf(v, m))
  BY <1>1 DEF TraceConf
<1>6. Lives(v, EazConf(v, m)) /\ Lives(v, ListenConf(v, m))
  <2>1. \E b : EazConf(v, m) = [v EXCEPT !.boot = b]
    BY DEF EazConf
  <2>2. \E b : ListenConf(v, m) = [v EXCEPT !.boot = b]
    BY DEF ListenConf
  <2> QED BY <1>2, <2>1, <2>2
<1> QED BY <1>3, <1>4, <1>5, <1>6

LEMMA RecvOK ==
  ASSUME NEW v, Good(v), NEW m \in Message
  PROVE  Lives(v, Recv(v, m))
<1>0. m.t \in MsgTypes /\ m.n \in PLCIs \cup {0}
  BY DEF Message
<1>1. CASE v.boot = "dead"
  BY <1>1, LivesItself DEF Recv
<1>2. CASE v.boot # "dead"
  <2>1. CASE m.t = "DB3_CONF"
    BY <1>2, <2>1, DisconnectB3ConfOK DEF Recv
  <2>2. CASE m.t = "DB3_IND"
    BY <1>2, <2>2, DisconnectB3IndOK DEF Recv
  <2>3. CASE m.t = "DISC_IND"
    BY <1>2, <2>3, DisconnectIndOK DEF Recv
  <2>4. CASE m.t = "DISC_CONF"
    BY <1>2, <2>4, DisconnectConfOK DEF Recv
  <2>5. CASE m.t = "CONNECT_CONF"
    BY <1>0, <1>2, <2>5, ConnectConfOK DEF Recv
  <2>6. CASE m.t \in {"B2_CONF", "B3_CONF", "ACTIVE_IND", "CB3_CONF", "B3ACTIVE_IND"}
    <3> DEFINE assoc == m.t = "CB3_CONF"
               a == Got(v, m.t)
               x == a.c.ncci \/ assoc
               b == [a EXCEPT !.c.ncci = x]
               next == AfterActive(b, assoc)
    <3>1. Recv(v, m) = SetupMessage(v, m, next, Drop(v))
      BY <1>2, <2>6 DEF Recv
    <3>2. Lives(v, a) /\ a.c.st = v.c.st
      BY GotLives
    <3> HIDE DEF a, assoc, x
    <3>3. Touches(a, b, {}, {"ncci"})
      BY <3>2, Put DEF Lives, CallFields, Good, Base
    <3>4. {"ncci"} \cap Key = {}
      BY DEF Key
    <3> HIDE DEF b
    <3>5. Like(a, b)
      BY <3>3, <3>4, SameLike
    <3>6. Lives(v, b) /\ b.c.st = v.c.st
      BY <3>2, <3>5, LikeOK DEF Lives
    <3>7. v.c.st # 0 => Lives(v, next)
      BY <3>6, AfterActiveOK, LivesOn DEF Lives
    <3>8. Lives(v, Drop(v))
      BY LivesItself, DropLives
    <3> HIDE DEF next
    <3> QED BY <2>6, <3>1, <3>7, <3>8, SetupMessageOK
  <2>7. CASE m.t = "CONNECT_IND"
    BY <1>2, <2>7, ConnectIndOK DEF Recv
  <2>8. CASE m.t = "INFO_IND"
    BY <1>2, <2>8, InfoIndOK DEF Recv
  <2>9. CASE m.t \in {"OPEN_CONF", "REGISTER_CONF", "TRACE_CONF", "EAZ_CONF", "LISTEN_CONF"}
    BY <1>2, <2>9, StartOK DEF Recv
  <2> QED BY <1>0, <2>1, <2>2, <2>3, <2>4, <2>5, <2>6, <2>7, <2>8, <2>9 DEF MsgTypes, Waits
<1> QED BY <1>1, <1>2

-----------------------------------------------------------------------------
(* The actions.                                                            *)
LEMMA ViewOK ==
  ASSUME NEW v, Good(v), NEW e, Carded(v, e)
  PROVE  Lives(v, e)
BY DEF Carded, Lives, Good, Base, Clearing, EndKnown

LEMMA PutOK ==
  ASSUME NEW v, IsView(v), NEW f \in CallFields \ (Key \cup {"stack"}), NEW x
  PROVE  Like(v, [v EXCEPT !.c[f] = x])
<1> DEFINE d == [v EXCEPT !.c[f] = x]
<1>1. Touches(v, d, {}, {f})
  BY Put
<1> HIDE DEF d
<1>2. Like(v, d)
  BY <1>1, SameLike
<1> QED BY <1>2 DEF d

LEMMA LikeLives ==
  ASSUME NEW v, NEW d, Lives(v, d), NEW e, Like(d, e)
  PROVE  Lives(v, e) /\ e.c.st = d.c.st /\ e.c.wf = d.c.wf /\ e.c.lock = d.c.lock
BY LikeOK DEF Lives

LEMMA KillFrees ==
  ASSUME NEW v, NEW d, Lives(v, d)
  PROVE  Frees(v, CapiKill(d, 0))
<1>1. Frees(d, CapiKill(d, 0))
  BY KillOK DEF TellsFirst, Lives
<1> QED BY <1>1, FreesOn

LEMMA SetupFrees ==
  ASSUME NEW v, NEW d, Lives(v, d), NEW est
  PROVE  Frees(v, CapiSetup(d, est))
BY CapiSetupOK, FreesOn DEF Lives

LEMMA DeliverOK ==
  ASSUME Good(w), Deliver
  PROVE  Frees(w, w')
<1>1. PICK bad \in BOOLEAN :
        w' = Recv([w EXCEPT !.up = Tail(@)], [Head(w.up) EXCEPT !.ok = @ /\ ~bad])
  BY DEF Deliver
<1> DEFINE a == [w EXCEPT !.up = Tail(w.up)]
           h == Head(w.up)
           m == [h EXCEPT !.ok = h.ok /\ ~bad]
<1>2. w.up \in Seq(Message) /\ w.up # <<>> /\ IsView(w)
  BY DEF Deliver, Good, Base
<1>3. h \in Message /\ Tail(w.up) \in Seq(Message)
  BY <1>2
<1>4. IsView(a) /\ a.c = w.c /\ a.up = Tail(w.up)
  BY <1>2 DEF IsView, ViewFields
<1>5. w' = Recv(a, m)
  BY <1>1, <1>2, <1>3 DEF IsView, ViewFields, Message
<1> HIDE DEF h
<1>6. m \in Message
  BY <1>3 DEF Message
<1> HIDE DEF a, m
<1>7. Good(a) /\ a.c.ex = w.c.ex
  BY <1>3, <1>4 DEF Good, Base, Clearing, EndKnown
<1>8. Lives(a, Recv(a, m))
  BY <1>6, <1>7, RecvOK
<1> QED BY <1>5, <1>7, <1>8 DEF Lives, Frees

LEMMA TimerOK ==
  ASSUME Good(w), TimerExpires
  PROVE  Frees(w, w')
<1>1. PICK t \in w.c.armed :
        LET d == With(w, Untimer(w.c, {t}))
        IN  w' = CASE t = "TCONN" -> SendDisconnect(d, FALSE)
                   [] t = "TALERT" -> Reported(CapiSetState(d, 7), "incoming")
                   [] t = "TFOO" -> CapiKill(CapiSetState(d, 0), 1)
  BY DEF TimerExpires
<1> DEFINE d == With(w, Untimer(w.c, {t}))
<1>2. Keeps(w, d) /\ d.c.st = w.c.st
  <2>1. IsCall(w.c) /\ \A f \in Key : w.c[f] = w.c[f]
    BY DEF Good, Base, IsView
  <2> QED BY <2>1, UntimerKeeps
<1>3. w' = CASE t = "TCONN" -> SendDisconnect(d, FALSE)
             [] t = "TALERT" -> Reported(CapiSetState(d, 7), "incoming")
             [] t = "TFOO" -> CapiKill(CapiSetState(d, 0), 1)
  BY <1>1
<1> HIDE DEF d
<1>4. t \in {"TCONN", "TALERT", "TFOO"} /\ (t = "TALERT" => w.c.st = 6)
      /\ (t = "TFOO" => w.c.st = 99)
  BY DEF Good, Base, Timed
<1>5. Lives(w, d)
  BY <1>2, KeepsLives
<1>6. CASE t = "TCONN"
  BY <1>3, <1>5, <1>6, ClearLives, LivesFrees
<1>7. CASE t = "TALERT"
  <2> DEFINE e == CapiSetState(d, 7)
  <2>1. 7 \in CapiStates \ Ending /\ 6 \notin Ending
    BY DEF CapiStates, Ending
  <2>2. ~d.c.lock /\ "DB3_CONF" \notin d.c.wf /\ Base(d)
    BY <1>2, <1>4, <1>5, <1>7, <2>1, Unlocked DEF Lives, Good, Clearing
  <2>3. Good(e) /\ e.c.st = 7 /\ e.c.ex = d.c.ex
    BY <2>1, <2>2, EnterOK
  <2>4. w' = Reported(e, "incoming")
    BY <1>3, <1>7
  <2> HIDE DEF e
  <2>5. Lives(e, Reported(e, "incoming"))
    BY <2>1, <2>3, ReportedLives
  <2> QED BY <1>5, <2>3, <2>4, <2>5, LivesFrees DEF Lives
<1>8. CASE t = "TFOO"
  <2> DEFINE e == CapiSetState(d, 0)
  <2>1. 0 \in Ending /\ 99 \in Ending
    BY DEF Ending
  <2>2. ~d.c.lock /\ Base(d) /\ (d.c.ex => d.c.told \in Ended)
    BY <1>2, <1>4, <1>5, <1>8, <2>1, Unlocked DEF Lives, Good, EndKnown
  <2>3. Good(e) /\ e.c.ex = d.c.ex /\ e.c.told = d.c.told
    BY <2>1, <2>2, EndOK
  <2>4. w' = CapiKill(e, 1)
    BY <1>3, <1>8
  <2> HIDE DEF e
  <2>5. Frees(e, CapiKill(e, 1))
    BY <2>2, <2>3, KillOK DEF TellsFirst
  <2> QED BY <1>5, <2>3, <2>4, <2>5 DEF Lives, Frees
<1> QED BY <1>4, <1>6, <1>7, <1>8

LEMMA CardSteps ==
  ASSUME Good(w), Answered \/ B3Active \/ RemoteClears \/ RemoteCalls \/ MoreDigits
  PROVE  Frees(w, w')
<1>0. Base(w) /\ IsView(w)
  BY DEF Good, Base
<1>1. ASSUME NEW msgs, msgs \in Seq(Message), NEW k, w' = Say([w EXCEPT !.card = k], msgs)
      PROVE  Frees(w, w')
  <2> DEFINE e == [w EXCEPT !.card = k]
  <2>1. Carded(w, e)
    BY <1>0, CardedOK
  <2> HIDE DEF e
  <2>2. LET d == Say(e, msgs) IN Base(d) /\ d.c = w.c /\ (Good(w) => Good(d))
    BY <1>0, <1>1, <2>1, SayOK
  <2> QED BY <1>1, <2>2 DEF Frees, e
<1>2. ASSUME NEW t \in MsgTypes \ {"CONNECT_IND"}, NEW n \in PLCIs
      PROVE  <<Msg(t, n, TRUE)>> \in Seq(Message)
  BY MsgOK
<1>3. {"ACTIVE_IND", "B3ACTIVE_IND", "INFO_IND"} \subseteq MsgTypes \ {"CONNECT_IND"}
  BY DEF MsgTypes, Waits
<1>4. CASE Answered
  <2>1. PICK n \in PLCIs : w' = Say([w EXCEPT !.card[n].st = "active"], <<Msg("ACTIVE_IND", n, TRUE)>>)
    BY <1>4 DEF Answered
  <2>2. \E k : [w EXCEPT !.card[n].st = "active"] = [w EXCEPT !.card = k]
    OBVIOUS
  <2>3. <<Msg("ACTIVE_IND", n, TRUE)>> \in Seq(Message)
    BY <1>2, <1>3
  <2> QED BY <1>1, <2>1, <2>2, <2>3
<1>5. CASE B3Active
  <2>1. PICK n \in PLCIs : w' = Say([w EXCEPT !.card[n].b3 = "active"], <<Msg("B3ACTIVE_IND", n, TRUE)>>)
    BY <1>5 DEF B3Active
  <2>2. \E k : [w EXCEPT !.card[n].b3 = "active"] = [w EXCEPT !.card = k]
    OBVIOUS
  <2>3. <<Msg("B3ACTIVE_IND", n, TRUE)>> \in Seq(Message)
    BY <1>2, <1>3
  <2> QED BY <1>1, <2>1, <2>2, <2>3
<1>6. CASE RemoteClears
  <2>1. PICK n \in PLCIs : w' = CardClears(w, n, <<>>)
    BY <1>6 DEF RemoteClears
  <2>2. <<>> \in Seq(Message)
    OBVIOUS
  <2>3. LET d == CardClears(w, n, <<>>) IN Base(d) /\ d.c = w.c /\ (Good(w) => Good(d))
    BY <1>0, <2>2, CardClearsOK
  <2> QED BY <2>1, <2>3 DEF Frees
<1>7. CASE RemoteCalls
  <2>1. PICK n \in PLCIs, eaz \in 0 .. 1 :
          w' = Say([w EXCEPT !.card[n].st = "ringing"],
                   <<[Msg("CONNECT_IND", n, TRUE) EXCEPT !.x = eaz]>>)
    BY <1>7 DEF RemoteCalls, Idle
  <2>2. \E k : [w EXCEPT !.card[n].st = "ringing"] = [w EXCEPT !.card = k]
    OBVIOUS
  <2>3. [Msg("CONNECT_IND", n, TRUE) EXCEPT !.x = eaz] \in Message
    <3> DEFINE m == Msg("CONNECT_IND", n, TRUE)
    <3>3. m \in [t : MsgTypes, n : PLCIs \cup {0}, ok : BOOLEAN, x : 0 .. 2]
      BY DEF Msg, MsgTypes
    <3>4. m.t = "CONNECT_IND"
      BY DEF Msg
    <3> HIDE DEF m
    <3>2. eaz \in 0 .. 2
      OBVIOUS
    <3> QED BY <3>2, <3>3, <3>4 DEF Message, m
  <2>4. <<[Msg("CONNECT_IND", n, TRUE) EXCEPT !.x = eaz]>> \in Seq(Message)
    BY <2>3, Tuples
  <2> QED BY <1>1, <2>1, <2>2, <2>4
<1>8. CASE MoreDigits
  <2>1. PICK n \in PLCIs : w' = Say(w, <<Msg("INFO_IND", n, TRUE)>>)
    BY <1>8 DEF MoreDigits
  <2>2. <<Msg("INFO_IND", n, TRUE)>> \in Seq(Message)
    BY <1>2, <1>3
  <2>3. LET d == Say(w, <<Msg("INFO_IND", n, TRUE)>>)
        IN  Base(d) /\ d.c = w.c /\ (Good(w) => Good(d))
    BY <1>0, <2>2, SayItself
  <2> QED BY <2>1, <2>3 DEF Frees
<1> QED BY <1>4, <1>5, <1>6, <1>7, <1>8

LEMMA LinkUpOK ==
  ASSUME Good(w), LinkUp
  PROVE  Frees(w, w')
<1> DEFINE a == With(w, TimerUp(w.c))
           b == [a EXCEPT !.linkup = TRUE]
           d == [b EXCEPT !.c.up = TRUE]
           e == [d EXCEPT !.mask = {}, !.boot = "opening"]
           msgs == <<Msg("OPEN_CONF", 0, TRUE)>>
<1>1. w' = d \/ w' = Say(e, msgs)
  BY DEF LinkUp
<1>2. Lives(w, a)
  <2> DEFINE c == TimerUp(w.c)
  <2>1. /\ IsCall(c) /\ c.run = w.c.run /\ c.armed = w.c.armed \cup w.c.run
        /\ \A g \in CallFields \ {"armed"} : c[g] = w.c[g]
    BY DEF TimerUp, Good, Base, IsView, IsCall, CallFields
  <2> HIDE DEF c
  <2>2. \A f \in Key \ {"run", "armed"} : c[f] = w.c[f]
    BY <2>1 DEF Key, CallFields
  <2>3. c.run \cup c.armed \subseteq w.c.run \cup w.c.armed
    BY <2>1
  <2> QED BY <2>1, <2>2, <2>3, CallKeeps, KeepsLives DEF c
<1> HIDE DEF a
<1>3. Lives(a, b)
  <2>1. Carded(a, b)
    BY <1>2 DEF Carded, Lives, Good, Base, IsView, ViewFields
  <2> QED BY <1>2, <2>1, ViewOK DEF Lives
<1> HIDE DEF b
<1>4. Like(b, d)
  BY <1>3, PutOK DEF Lives, Good, Base, Key, CallFields
<1> HIDE DEF d
<1>5. Lives(w, d)
  BY <1>2, <1>3, <1>4, LivesOn, LikeLives
<1>6. Carded(d, e)
  BY <1>5 DEF Carded, Lives, Good, Base, IsView, ViewFields
<1> HIDE DEF e
<1>7. msgs \in Seq(Message)
  <2>1. "OPEN_CONF" \in MsgTypes \ {"CONNECT_IND"}
    BY DEF MsgTypes
  <2> QED BY <2>1, MsgOK
<1> HIDE DEF msgs
<1>8. LET x == Say(e, msgs) IN Base(x) /\ x.c = d.c /\ (Good(d) => Good(x))
  BY <1>5, <1>6, <1>7, SayOK DEF Lives, Good
<1> QED BY <1>1, <1>5, <1>8 DEF Lives, Frees

LEMMA LinkDownOK ==
  ASSUME Good(w), LinkDown
  PROVE  Frees(w, w')
<1> DEFINE a == [w EXCEPT !.linkup = FALSE]
           b == [a EXCEPT !.c.up = FALSE]
           d == [b EXCEPT !.boot = "booting", !.card = Calm, !.up = <<>>]
           e == CapiSetState(d, 0)
<1>1. w' = IF w.c.ex THEN CapiCheckTerm(e) ELSE d
  BY DEF LinkDown
<1>2. Lives(w, a)
  <2>1. Carded(w, a)
    BY DEF Carded, Good, Base, IsView, ViewFields
  <2> QED BY <2>1, ViewOK
<1> HIDE DEF a
<1>3. Like(a, b)
  BY <1>2, PutOK DEF Lives, Good, Base, Key, CallFields
<1> HIDE DEF b
<1>4. Lives(w, b)
  BY <1>2, <1>3, LikeLives
<1>5. IsView(d) /\ d.c = b.c /\ d.up = <<>>
  BY <1>4 DEF Lives, Good, Base, IsView, ViewFields
<1> HIDE DEF d
<1>6. Good(d)
  BY <1>4, <1>5 DEF Lives, Good, Base, Clearing, EndKnown
<1>7. Base(e) /\ e.c.st = 0 /\ e.c.ex = d.c.ex
  BY <1>6, ShiftOK DEF Good, CapiStates
<1> HIDE DEF e
<1>8. Frees(e, CapiCheckTerm(e))
  BY <1>7, CheckTermOK DEF Clearing, Ending
<1> QED BY <1>1, <1>4, <1>5, <1>6, <1>7, <1>8 DEF Lives, Frees

LEMMA TimeoutsOK ==
  ASSUME Good(w), ConnTimeout \/ DelayTimeout \/ DiscTimeout
  PROVE  Good(w') /\ (~DiscTimeout => Frees(w, w'))
<1>0. {"tconn", "tdelay", "tend"} \subseteq CallFields \ (Key \cup {"stack"})
  BY DEF CallFields, Key
<1>1. IsView(w)
  BY DEF Good, Base
<1>2. CASE ConnTimeout
  <2> DEFINE a == [w EXCEPT !.c.tconn = FALSE]
  <2>1. w' = CapiKill(a, 0)
    BY <1>2 DEF ConnTimeout
  <2>2. Like(w, a)
    BY <1>0, <1>1, PutOK
  <2> HIDE DEF a
  <2>3. Lives(w, a)
    BY <2>2, LivesItself, LikeLives
  <2> QED BY <2>1, <2>3, KillFrees DEF Frees
<1>3. CASE DelayTimeout
  <2> DEFINE a == [w EXCEPT !.c.tdelay = FALSE]
  <2>1. w' = CapiSetup(a, "NO_CHANGE")
    BY <1>3 DEF DelayTimeout
  <2>2. Like(w, a)
    BY <1>0, <1>1, PutOK
  <2> HIDE DEF a
  <2>3. Lives(w, a)
    BY <2>2, LivesItself, LikeLives
  <2> QED BY <2>1, <2>3, SetupFrees DEF Frees
<1>4. CASE DiscTimeout
  <2> DEFINE a == [w EXCEPT !.c.tend = FALSE]
  <2>1. w' = CapiKill(a, 3)
    BY <1>4 DEF DiscTimeout
  <2>2. Like(w, a)
    BY <1>0, <1>1, PutOK
  <2> HIDE DEF a
  <2>3. Good(a)
    BY <2>2, LikeOK
  <2> QED BY <1>4, <2>1, <2>3, KillOK
<1> QED BY <1>2, <1>3, <1>4

-----------------------------------------------------------------------------
(* Commands of layer 4 and messages of layer 2.                            *)
LEMMA BoundLike ==
  ASSUME NEW v, IsView(v), NEW minor
  PROVE  Like(v, Bound(v, minor))
<1> DEFINE x == v.c.minor \/ minor
           a == [v EXCEPT !.c.minor = x]
           y == a.c.mapped \/ v.c.minor \/ minor
           b == [a EXCEPT !.c.mapped = y]
<1>0. {"minor", "mapped"} \subseteq CallFields \ (Key \cup {"stack"})
  BY DEF CallFields, Key
<1>1. Bound(v, minor) = b
  BY DEF Bound, IsView, IsCall, ViewFields, CallFields
<1> HIDE DEF x
<1>2. Like(v, a)
  BY <1>0, PutOK
<1> HIDE DEF a, y
<1>3. Like(a, b)
  <2>1. IsView(a)
    BY <1>2 DEF Like
  <2> QED BY <1>0, <2>1, PutOK
<1> HIDE DEF b
<1> QED BY <1>1, <1>2, <1>3 DEF Like

LEMMA LikeOn ==
  ASSUME NEW v, NEW d, NEW e, Like(v, d), Like(d, e)
  PROVE  Like(v, e)
BY DEF Like

LEMMA SendDialoutOK ==
  ASSUME NEW v, Base(v), ~v.c.lock, NEW n \in PLCIs \cup {0}, NEW id \in Ids
  PROVE  Good(SendDialout(v, n, id))
<1> DEFINE conf == [Msg("CONNECT_CONF", n, n # 0) EXCEPT !.x = id]
           k == [v EXCEPT !.card[n].st = "calling"]
           e == IF n = 0 THEN v ELSE k
           d == Say(e, <<conf>>)
           a == [d EXCEPT !.c.cid = id]
           W == {"CONNECT_CONF", "PROTOCOLS"}
           b == [a EXCEPT !.c.wf = W]
<1>1. SendDialout(v, n, id) = CapiSetState(b, 2)
  BY DEF SendDialout
<1>2. <<conf>> \in Seq(Message)
  <2> DEFINE m == Msg("CONNECT_CONF", n, n # 0)
  <2>1. m \in [t : MsgTypes, n : PLCIs \cup {0}, ok : BOOLEAN, x : 0 .. 2]
    BY DEF Msg, MsgTypes, Waits
  <2>2. m.t = "CONNECT_CONF"
    BY DEF Msg
  <2>3. id \in 0 .. 2
    BY DEF Ids
  <2> HIDE DEF m
  <2>4. [m EXCEPT !.x = id] \in Message
    BY <2>1, <2>2, <2>3 DEF Message
  <2> QED BY <2>4, Tuples DEF m
<1>3. Carded(v, e)
  <2>1. \E j : k = [v EXCEPT !.card = j]
    OBVIOUS
  <2>2. Carded(v, k)
    BY <2>1, CardedOK DEF Base
  <2> HIDE DEF k
  <2> QED BY <2>2 DEF Carded, Base
<1> HIDE DEF conf, e
<1>4. Base(d) /\ d.c = v.c
  BY <1>2, <1>3, SayOK
<1> HIDE DEF d
<1>5. Like(d, a)
  <2>1. ASSUME NEW x PROVE Like(d, [d EXCEPT !.c.cid = x])
    BY <1>4, PutOK DEF Base, CallFields, Key
  <2> QED BY <2>1
<1> HIDE DEF a
<1>6. Base(a) /\ ~a.c.lock
  BY <1>4, <1>5, LikeOK
<1>7. "DB3_CONF" \notin W /\ 2 \in CapiStates \ Ending
  BY DEF CapiStates, Ending
<1> HIDE DEF W
<1>8. LET x == CapiSetState([a EXCEPT !.c.wf = W], 2)
      IN  Good(x) /\ x.c.st = 2 /\ x.c.ex = a.c.ex /\ x.c.wf = W
  BY <1>6, <1>7, MovesOn
<1> QED BY <1>1, <1>8

LEMMA DialOK ==
  ASSUME Good(w), Dial
  PROVE  Frees(w, w')
<1> DEFINE a == NewRecord(w.c)
           c == [a EXCEPT !.told = "dialled"]
           new == With(w, c)
           b == Bound(new, TRUE)
           d == Est(b, "NO_CHANGE")
           id == CHOOSE i \in Ids : ~InFlight(i)
           e == [d EXCEPT !.c.want = TRUE]
           f == Est(e, "SETUP")
           g == [d EXCEPT !.c.lock = TRUE]
<1>1. PICK n \in PLCIs \cup {0} : w' = Est(SendDialout(f, n, id), "NO_CHANGE") \/ w' = g
  BY DEF Dial, Idle
<1>2. id \in Ids
  BY DEF Dial
<1>3. /\ IsCall(a) /\ a.ex = TRUE /\ a.st = 0 /\ a.run = {} /\ a.armed = {} /\ a.wf = {}
      /\ a.lock = FALSE /\ a.plci = 0
  BY NewRecordOK
<1> HIDE DEF a, id
<1>4. Filled(a, "told", "dialled", c)
  BY <1>3, FilledOK
<1> HIDE DEF c
<1>5. /\ IsCall(c) /\ c.ex = TRUE /\ c.st = 0 /\ c.run = {} /\ c.armed = {} /\ c.wf = {}
      /\ c.lock = FALSE /\ c.plci \in PLCIs \cup {0}
  BY <1>3, <1>4 DEF Filled, CallFields
<1>6. Base(new) /\ new.c = c
  <2>1. Base(w)
    BY DEF Good
  <2> QED BY <1>5, <2>1, FreshOK
<1> HIDE DEF new
<1>7. Like(new, b) /\ IsView(b)
  BY <1>6, BoundLike DEF Base, Like
<1> HIDE DEF b
<1>8. Like(new, d)
  BY <1>7, EstLike, LikeOn
<1> HIDE DEF d
<1>9. Base(d) /\ d.c.st = 0 /\ d.c.wf = {} /\ ~d.c.lock
  BY <1>5, <1>6, <1>8, LikeOK
<1>10. ASSUME w' = Est(SendDialout(f, n, id), "NO_CHANGE")
       PROVE  Good(w')
  <2>1. Like(d, e)
    BY <1>9, PutOK DEF Base, CallFields, Key
  <2> HIDE DEF e
  <2>2. Like(e, f)
    BY <2>1, EstLike DEF Like
  <2> HIDE DEF f
  <2>3. Base(f) /\ ~f.c.lock
    BY <1>9, <2>1, <2>2, LikeOn, LikeOK
  <2>4. Good(SendDialout(f, n, id))
    BY <1>2, <2>3, SendDialoutOK
  <2> QED BY <1>10, <2>4, EstKeeps DEF Keeps
<1>11. ASSUME w' = g
       PROVE  Good(w')
  <2>1. Touches(d, g, {}, {"lock"}) /\ g.c.lock = TRUE
    <3>1. ASSUME NEW v, IsView(v), NEW x
          PROVE  LET y == [v EXCEPT !.c.lock = x] IN Touches(v, y, {}, {"lock"}) /\ y.c.lock = x
      BY <3>1, Put DEF CallFields
    <3>2. IsView(d)
      BY <1>9 DEF Base
    <3> QED BY <3>1, <3>2
  <2> HIDE DEF g
  <2>2. /\ g.c.ex = d.c.ex /\ g.c.st = d.c.st /\ g.c.wf = d.c.wf /\ g.c.plci = d.c.plci
        /\ g.c.run = d.c.run /\ g.c.armed = d.c.armed /\ g.up = d.up /\ IsView(g)
    BY <2>1 DEF Touches, CallFields, ViewFields
  <2> QED BY <1>9, <1>11, <2>1, <2>2 DEF Good, Base, Timed, Clearing, EndKnown
<1>12. ~w.c.ex
  BY DEF Dial
<1> QED BY <1>1, <1>10, <1>11, <1>12 DEF Frees

LEMMA AnswerOK ==
  ASSUME Good(w), AnswerCall
  PROVE  Frees(w, w')
<1> DEFINE b == Bound(w, TRUE)
           d == Est(b, "NO_CHANGE")
           a == [d EXCEPT !.c.want = TRUE]
           W == a.c.wf \cup {"PROTOCOLS"}
           e == [a EXCEPT !.c.wf = W]
           f == CapiSetState(e, 7)
           x == [d EXCEPT !.c.want = TRUE, !.c.wf = @ \cup {"PROTOCOLS"}]
<1>0. w' = IF w.c.st \in {6, 7} THEN Est(CapiSetState(x, 7), "SETUP") ELSE d
  BY DEF AnswerCall
<1>1. Like(w, b) /\ IsView(b)
  BY BoundLike DEF Good, Base, Like
<1> HIDE DEF b
<1>2. Like(w, d) /\ IsView(d)
  BY <1>1, EstLike, LikeOn DEF Like
<1>3. w' = IF w.c.st \in {6, 7} THEN Est(f, "SETUP") ELSE d
  <2> HIDE DEF d
  <2>1. x = e
    BY <1>2 DEF IsView, IsCall, ViewFields, CallFields
  <2> HIDE DEF x, e
  <2> QED BY <1>0, <2>1
<1> HIDE DEF x
<1> HIDE DEF d
<1>4. Like(d, a)
  BY <1>2, PutOK DEF CallFields, Key
<1> HIDE DEF a
<1>5. Lives(w, d) /\ Lives(w, a) /\ a.c.st = w.c.st /\ a.c.wf = w.c.wf /\ a.c.lock = w.c.lock
  BY <1>2, <1>4, LikeOn, LikeLives, LivesItself
<1>6. ASSUME w.c.st \in {6, 7}
      PROVE  Lives(w, Est(f, "SETUP"))
  <2>1. 7 \in CapiStates \ Ending /\ 6 \notin Ending
    BY DEF CapiStates, Ending
  <2>2. "DB3_CONF" \notin W /\ ~a.c.lock /\ Base(a)
    BY <1>5, <1>6, <2>1, Unlocked DEF Good, Clearing, Lives
  <2> HIDE DEF W
  <2>3. LET y == CapiSetState([a EXCEPT !.c.wf = W], 7)
        IN  Good(y) /\ y.c.st = 7 /\ y.c.ex = a.c.ex /\ y.c.wf = W
    BY <2>1, <2>2, MovesOn
  <2>4. Lives(w, f)
    BY <1>5, <2>3 DEF Lives
  <2> HIDE DEF f
  <2> QED BY <2>4, EstLives
<1> HIDE DEF f
<1> QED BY <1>3, <1>5, <1>6, LivesFrees

LEMMA OffOK ==
  ASSUME Good(w), Off
  PROVE  Frees(w, w')
<1> DEFINE a == Bound(w, FALSE)
           b == Est(a, "NO_CHANGE")
           c == [b EXCEPT !.c.want = FALSE]
           d == Est(c, "DISCONNECT")
<1>1. PICK force \in BOOLEAN :
        w' = CapiCheckTerm(Bury(SendDisconnect(d, ~force), NoPlci(d), 0))
  BY DEF Off
<1>2. Like(w, a) /\ IsView(a)
  BY BoundLike DEF Good, Base, Like
<1> HIDE DEF a
<1>3. Like(w, b) /\ IsView(b)
  BY <1>2, EstLike, LikeOn DEF Like
<1> HIDE DEF b
<1>4. Like(b, c) /\ IsView(c)
  <2>1. Like(b, c)
    BY <1>3, PutOK DEF CallFields, Key
  <2> QED BY <2>1 DEF Like
<1> HIDE DEF c
<1>5. Like(c, d)
  BY <1>4, EstLike
<1> HIDE DEF d
<1>6. Lives(w, d)
  BY <1>3, <1>4, <1>5, LikeOn, LikeLives, LivesItself
<1> DEFINE e == SendDisconnect(d, ~force)
           f == CapiSetState(e, 0)
<1>7. Keeps(d, e) /\ (d.c.st = 2 => e.c.told \in Ended)
  BY <1>6, SendDisconnectOK DEF Lives
<1>8. w' = CapiCheckTerm(IF d.c.st = 2 THEN f ELSE e)
  BY <1>1 DEF Bury, NoPlci
<1> HIDE DEF e
<1>9. d.c.st = 2 => Good(f) /\ f.c.ex = e.c.ex
  BY <1>7, EndOK DEF Keeps, Good, Ending
<1> HIDE DEF f
<1>10. ASSUME NEW x, Good(x), x.c.ex = d.c.ex
       PROVE  Frees(w, CapiCheckTerm(x))
  <2>1. Frees(x, CapiCheckTerm(x))
    BY <1>10, CheckTermOK DEF Good
  <2> QED BY <1>6, <1>10, <2>1 DEF Frees, Lives
<1> QED BY <1>7, <1>8, <1>9, <1>10 DEF Keeps

LEMMA ProtoOK ==
  ASSUME Good(w), ProtoMessage \/ CardSetup
  PROVE  Frees(w, w')
<1>0. {"modlist", "hl", "proto", "hup"} \subseteq CallFields \ (Key \cup {"stack"})
  BY DEF CallFields, Key
<1>1. IsView(w)
  BY DEF Good, Base
<1>2. CASE ProtoMessage
  <2>1. PICK d : /\ d \in IF w.c.modlist = "none" THEN {[w EXCEPT !.c.modlist = k] : k \in Stacks}
                          ELSE {[w EXCEPT !.c.hl = (w.c.modlist = "ppp")]}
                 /\ LET e == Got(d, "PROTOCOLS")
                    IN  w' = IF ~SetupComplete(d.c) \/ "PROTOCOLS" \notin w.c.wf THEN d
                             ELSE IF e.c.wf = {} THEN SendSetup(e) ELSE e
    BY <1>2 DEF ProtoMessage
  <2> DEFINE e == Got(d, "PROTOCOLS")
  <2>2. Like(w, d)
    <3>1. ASSUME NEW x
          PROVE  Like(w, [w EXCEPT !.c.modlist = x]) /\ Like(w, [w EXCEPT !.c.hl = x])
      BY <1>0, <1>1, PutOK
    <3> QED BY <2>1, <3>1
  <2>3. Lives(w, d)
    BY <2>2, LikeLives, LivesItself
  <2>4. Lives(w, e)
    BY <2>3, GotLives, LivesOn DEF Lives
  <2>5. w' = d \/ w' = e \/ w' = SendSetup(e)
    BY <2>1
  <2> HIDE DEF e
  <2>6. Lives(w, SendSetup(e))
    BY <2>4, SendSetupOK, LivesOn DEF Lives
  <2> QED BY <2>3, <2>4, <2>5, <2>6, LivesFrees
<1>3. CASE CardSetup
  <2>1. PICK hup : w' = CapiSetup([w EXCEPT !.c.proto = TRUE, !.c.hup = hup], "NO_CHANGE")
    BY <1>3 DEF CardSetup
  <2> DEFINE a == [w EXCEPT !.c.proto = TRUE]
             b == [a EXCEPT !.c.hup = hup]
  <2>2. w' = CapiSetup(b, "NO_CHANGE")
    BY <2>1
  <2>3. Like(w, a)
    BY <1>0, <1>1, PutOK
  <2> HIDE DEF a
  <2>4. Like(a, b)
    <3>1. IsView(a)
      BY <2>3 DEF Like
    <3> QED BY <1>0, <3>1, PutOK
  <2> HIDE DEF b
  <2>5. Lives(w, b)
    BY <2>3, <2>4, LikeOn, LikeLives, LivesItself
  <2> QED BY <2>2, <2>5, SetupFrees
<1> QED BY <1>2, <1>3

LEMMA Layer2OK ==
  ASSUME Good(w), Opened \/ Closed \/ DetachedByLayer2 \/ StackDisconnects
  PROVE  Frees(w, w')
<1>0. {"open", "sent", "att"} \subseteq CallFields \ (Key \cup {"stack"})
  BY DEF CallFields, Key
<1>1. IsView(w) /\ Lives(w, w)
  BY LivesItself DEF Good, Base
<1>2. CASE Opened
  <2> DEFINE d == [w EXCEPT !.c.open = "open"]
  <2>1. Like(w, d)
    BY <1>0, <1>1, PutOK
  <2>2. w' = d \/ w' = CapiSetup(d, "NO_CHANGE")
    BY <1>2 DEF Opened
  <2> HIDE DEF d
  <2>3. Lives(w, d)
    BY <1>1, <2>1, LikeLives
  <2> QED BY <2>2, <2>3, SetupFrees, LivesFrees
<1>3. CASE Closed
  <2> DEFINE a == [w EXCEPT !.c.open = "no"]
             b == [a EXCEPT !.c.sent = 0]
             d == [b EXCEPT !.c.att = 0]
  <2>1. w' = d \/ w' = CapiKill(d, 0)
    BY <1>3 DEF Closed
  <2>2. Like(w, a)
    BY <1>0, <1>1, PutOK
  <2> HIDE DEF a
  <2>3. Like(a, b)
    <3>0. IsView(a)
      BY <2>2 DEF Like
    <3>1. ASSUME NEW x PROVE Like(a, [a EXCEPT !.c.sent = x])
      BY <1>0, <3>0, PutOK
    <3> QED BY <3>1
  <2> HIDE DEF b
  <2>4. Like(b, d)
    <3>0. IsView(b)
      BY <2>3 DEF Like
    <3>1. ASSUME NEW x PROVE Like(b, [b EXCEPT !.c.att = x])
      BY <1>0, <3>0, PutOK
    <3> QED BY <3>1
  <2> HIDE DEF d
  <2>5. Lives(w, d)
    BY <1>1, <2>2, <2>3, <2>4, LikeOn, LikeLives
  <2> QED BY <2>1, <2>5, KillFrees, LivesFrees
<1>4. CASE DetachedByLayer2
  <2> DEFINE a == [w EXCEPT !.c.att = 0]
  <2>1. w' = CapiKill(a, 0)
    BY <1>4 DEF DetachedByLayer2
  <2>2. Like(w, a)
    <3>1. ASSUME NEW x PROVE Like(w, [w EXCEPT !.c.att = x])
      BY <1>0, <1>1, PutOK
    <3> QED BY <3>1
  <2> HIDE DEF a
  <2>3. Lives(w, a)
    BY <1>1, <2>2, LikeLives
  <2> QED BY <2>1, <2>3, KillFrees
<1>5. CASE StackDisconnects
  BY <1>1, <1>5, SetupFrees DEF StackDisconnects
<1> QED BY <1>2, <1>3, <1>4, <1>5

-----------------------------------------------------------------------------
LEMMA InitGood == Init => Good(w)
<1> SUFFICES ASSUME Init PROVE Good(w)
  OBVIOUS
<1>1. w = [c |-> NewCapi, card |-> Calm, up |-> <<>>, mask |-> {}, boot |-> "booting",
           linkup |-> FALSE]
  BY DEF Init
<1>2. /\ DOMAIN w = ViewFields /\ w = [f \in ViewFields |-> w[f]]
      /\ w.c = NewCapi /\ w.up = <<>>
  BY <1>1 DEF ViewFields
<1>3. w.up \in Seq(Message)
  <2>1. <<>> \in Seq(Message)
    OBVIOUS
  <2> QED BY <1>2, <2>1
<1> QED BY <1>2, <1>3, NewCapiOK
        DEF Good, Base, IsView, Timed, Clearing, EndKnown, CapiStates

LEMMA NextGood ==
  ASSUME Good(w), [Next]_vars
  PROVE  Good(w') /\ (w.c.ex /\ ~w'.c.ex /\ ~DiscTimeout => w'.c.told \in Ended)
<1>1. CASE Deliver
  BY <1>1, DeliverOK DEF Frees
<1>2. CASE TimerExpires
  BY <1>2, TimerOK DEF Frees
<1>3. CASE Answered \/ B3Active \/ RemoteClears \/ RemoteCalls \/ MoreDigits
  BY <1>3, CardSteps DEF Frees
<1>4. CASE LinkUp
  BY <1>4, LinkUpOK DEF Frees
<1>5. CASE LinkDown
  BY <1>5, LinkDownOK DEF Frees
<1>6. CASE ConnTimeout \/ DelayTimeout \/ DiscTimeout
  BY <1>6, TimeoutsOK DEF Frees
<1>7. CASE Dial
  BY <1>7, DialOK DEF Frees
<1>8. CASE AnswerCall
  BY <1>8, AnswerOK DEF Frees
<1>9. CASE Off
  BY <1>9, OffOK DEF Frees
<1>10. CASE ProtoMessage \/ CardSetup
  BY <1>10, ProtoOK DEF Frees
<1>11. CASE Opened \/ Closed \/ DetachedByLayer2 \/ StackDisconnects
  BY <1>11, Layer2OK DEF Frees
<1>12. CASE UNCHANGED vars
  BY <1>12 DEF vars
<1> QED BY <1>1, <1>2, <1>3, <1>4, <1>5, <1>6, <1>7, <1>8, <1>9, <1>10, <1>11, <1>12 DEF Next

(* The states of a call, its timers and the messages between capi.c and    *)
(* the card are of their types; layer 4 knows of the end of every call     *)
(* that is being cleared.                                                  *)
THEOREM EndKnownKept == Spec => [](Base(w) /\ Clearing(w) /\ EndKnown(w))
<1>1. Good(w) /\ [Next]_vars => Good(w)'
  BY NextGood
<1>2. Good(w) => Base(w) /\ Clearing(w) /\ EndKnown(w)
  BY DEF Good
<1> QED BY <1>1, <1>2, InitGood, PTL DEF Spec

(* report_terminate has been called for every call that is freed, on every *)
(* path through capi.c but the timer behind a delayed disconnection.       *)
THEOREM EndIsTold == Spec => EndTold
<1>1. Good(w) /\ [Next]_vars => Good(w)'
  BY NextGood
<1>2. Good(w) /\ [Next]_vars
        => [w.c.ex /\ ~w'.c.ex /\ ~DiscTimeout
            => w'.c.told \in {"disconnecting", "disconnect"}]_vars
  BY NextGood DEF Ended
<1> QED BY <1>1, <1>2, InitGood, PTL DEF Spec, EndTold
=============================================================================
