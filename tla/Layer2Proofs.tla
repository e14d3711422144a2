---------------------------- MODULE Layer2Proofs ----------------------------
(***************************************************************************)
(* The layer 2 driver keeps its card, its timers, its table of channels    *)
(* and layer 3's view of the card in step, for any number of channels,     *)
(* devices and services and whichever of the rarer events happen.          *)
(*                                                                         *)
(* The functions of isdn_2.c nest: Sane is what every function keeps, and  *)
(* Counted, that no intelligent card waits for the end of its D channel,   *)
(* what the outermost one restores.                                        *)
(***************************************************************************)
EXTENDS Layer2, TLAPS

Timed(x) ==
  /\ x.timeup <=> "re_up" \in x.timers
  /\ "re_up" \in x.timers <=> x.status = "wont_up"
  /\ "takedown" \in x.timers <=> x.timedown = 1
  /\ x.timedown = 1 => x.status = "up"
Sane(x) == x \in State /\ Timed(x)
Counted(x) == x.timedown = 1 => x.reg /\ x.status = "up" /\ ~x.intel
Placed(x) == x.reg \/ x.status = "down"
Announcing(x) == "sendcards" \in x.timers <=> x.notsent /\ x.master

(* What layer 3 takes the card for, and what the driver said of the line.  *)
Seen(x) ==
  /\ x.master /\ ~x.lost =>
       /\ x.view = "down" => x.status # "up"
       /\ x.view = "up" => x.status # "wont_up"
  /\ ~x.master => x.view = "none"
Lined(x) == x.status = "up" /\ x.line # "up" => x.lost

(* The inductive invariant. *)
Kept(x) ==
  Sane(x) /\ Counted(x) /\ Placed(x) /\ Announcing(x) /\ Seen(x) /\ Lined(x)
IInv == Kept(g)

(* y is x but for layer 1: its status, its timers, what the driver was     *)
(* asked for. *)
Same(x, y) ==
  /\ y.reg = x.reg /\ y.intel = x.intel /\ y.line = x.line /\ y.ent = x.ent
  /\ y.bmode = x.bmode /\ y.chan = x.chan /\ y.dev = x.dev /\ y.master = x.master
  /\ y.notsent = x.notsent /\ y.view = x.view /\ y.lost = x.lost
  /\ "sendcards" \in y.timers <=> "sendcards" \in x.timers
(* The table of channels and the devices are as they were; B channels may  *)
(* have been switched off. *)
Steady(x, y) ==
  /\ y.reg = x.reg /\ y.chan = x.chan /\ y.dev = x.dev
  /\ y.bmode = x.bmode \/ y.bmode = [b \in Bs |-> "off"]
(* The status does not rise: y counts as up, or as tried in vain, only if  *)
(* x does. *)
Lower(x, y) ==
  /\ Same(x, y)
  /\ y.status \in {"up", "wont_up"} => y.status = x.status

-----------------------------------------------------------------------------
LEMMA SameItself == ASSUME NEW x PROVE Same(x, x) /\ Lower(x, x)
BY DEF Same, Lower
LEMMA SteadyOn == ASSUME NEW x, NEW y, NEW z, Steady(x, y), Steady(y, z) PROVE Steady(x, z)
BY DEF Steady
LEMMA SameOn == ASSUME NEW x, NEW y, NEW z, Same(x, y), Same(y, z) PROVE Same(x, z)
BY DEF Same
LEMMA LowerOn == ASSUME NEW x, NEW y, NEW z, Lower(x, y), Lower(y, z) PROVE Lower(x, z)
BY DEF Same, Lower

(* A card that is not up has no end of an idle D channel to wait for.      *)
LEMMA NotUp == ASSUME NEW x, Sane(x), x.status # "up" PROVE Counted(x)
BY DEF Sane, Timed, Counted

(* Only what layer 1 did counts. *)
LEMMA LowerKept ==
  ASSUME NEW x, NEW y, Placed(x), Announcing(x), Seen(x), Lined(x),
         Sane(y), Counted(y), Placed(y), Lower(x, y)
  PROVE  Kept(y) /\ Steady(x, y)
<1>1. Announcing(y) /\ Steady(x, y)
  BY DEF Announcing, Lower, Same, Steady
<1>2. Seen(y)
  BY DEF Seen, Lower, Same
<1>3. Lined(y)
  BY DEF Lined, Lower, Same
<1> QED BY <1>1, <1>2, <1>3 DEF Kept

LEMMA Types ==
  ASSUME NEW x \in State
  PROVE  /\ x.reg \in BOOLEAN /\ x.intel \in BOOLEAN /\ x.status \in Status
         /\ x.timedown \in 0 .. 2 /\ x.timeup \in BOOLEAN
         /\ x.timers \in SUBSET {"takedown", "re_up", "sendcards"}
         /\ x.mode \in {"off", "standby", "on"} /\ x.line \in {"down", "up", "broken"}
         /\ x.ent \in [Sapis -> {"none", "down", "busy", "up"}]
         /\ x.bmode \in [Bs -> {"off", "on"}] /\ x.chan \in [Chans -> {0} \cup Devs]
         /\ x.dev \in [Devs -> Device] /\ x.master \in BOOLEAN /\ x.notsent \in BOOLEAN
         /\ x.view \in {"none", "missed", "card", "up", "down"} /\ x.lost \in BOOLEAN
BY DEF State

(* Callouts are set and removed, their flags change. *)
LEMMA StopOK ==
  ASSUME NEW x \in State, NEW t \in {"takedown", "re_up"}
  PROVE  /\ Stop(x, t) \in State /\ Same(x, Stop(x, t))
         /\ Stop(x, t).timers = x.timers \ {t} /\ Stop(x, t).status = x.status
         /\ Stop(x, t).mode = x.mode /\ Stop(x, t).timeup = x.timeup
         /\ Stop(x, t).timedown = x.timedown
<1>1. Stop(x, t) = [x EXCEPT !.timers = x.timers \ {t}]
  BY DEF Stop, State
<1>2. x.timers \ {t} \in SUBSET {"takedown", "re_up", "sendcards"}
  BY Types
<1>3. [x EXCEPT !.timers = x.timers \ {t}] \in State
  BY <1>2 DEF State
<1> QED BY <1>1, <1>3 DEF State, Same

LEMMA StartOK ==
  ASSUME NEW x \in State, NEW t \in {"takedown", "re_up"}
  PROVE  /\ Start(x, t) \in State /\ Same(x, Start(x, t))
         /\ Start(x, t).timers = x.timers \cup {t} /\ Start(x, t).status = x.status
         /\ Start(x, t).mode = x.mode /\ Start(x, t).timeup = x.timeup
         /\ Start(x, t).timedown = x.timedown
<1>1. Start(x, t) = [x EXCEPT !.timers = x.timers \cup {t}]
  BY DEF Start, State
<1>2. x.timers \cup {t} \in SUBSET {"takedown", "re_up", "sendcards"}
  BY Types
<1>3. [x EXCEPT !.timers = x.timers \cup {t}] \in State
  BY <1>2 DEF State
<1> QED BY <1>1, <1>3 DEF State, Same

LEMMA HoldOK ==
  ASSUME NEW x \in State, NEW n \in 0 .. 2
  PROVE  LET y == [x EXCEPT !.timedown = n]
         IN  /\ y \in State /\ Same(x, y) /\ y.timedown = n /\ y.status = x.status
             /\ y.mode = x.mode /\ y.timeup = x.timeup /\ y.timers = x.timers
BY DEF State, Same

LEMMA FlagOK ==
  ASSUME NEW x \in State, NEW b \in BOOLEAN
  PROVE  LET y == [x EXCEPT !.timeup = b]
         IN  /\ y \in State /\ Same(x, y) /\ y.timeup = b /\ y.status = x.status
             /\ y.mode = x.mode /\ y.timedown = x.timedown /\ y.timers = x.timers
BY DEF State, Same

(* An idle D channel that is not to end yet: the callout and its flag go.  *)
LEMMA QuietOK ==
  ASSUME NEW x \in State, NEW n \in {0, 2}
  PROVE  LET y == Stop([x EXCEPT !.timedown = n], "takedown")
         IN  /\ y \in State /\ Same(x, y) /\ y.timedown = n /\ y.status = x.status
             /\ y.mode = x.mode /\ y.timeup = x.timeup
             /\ y.timers = x.timers \ {"takedown"}
<1> DEFINE a == [x EXCEPT !.timedown = n]
<1>1. n \in 0 .. 2
  OBVIOUS
<1>2. /\ a \in State /\ Same(x, a) /\ a.timedown = n /\ a.status = x.status
      /\ a.mode = x.mode /\ a.timeup = x.timeup /\ a.timers = x.timers
  BY <1>1, HoldOK
<1> HIDE DEF a
<1>3. Same(x, Stop(a, "takedown"))
  BY <1>2, StopOK, SameOn
<1> QED BY <1>2, <1>3, StopOK DEF a

LEMMA CheckActiveOK ==
  ASSUME NEW x, Sane(x), Placed(x)
  PROVE  /\ Sane(CheckActive(x)) /\ Counted(CheckActive(x)) /\ Placed(CheckActive(x))
         /\ Lower(x, CheckActive(x))
         /\ CheckActive(x).status = x.status /\ CheckActive(x).mode = x.mode
<1> DEFINE y == IF x.timedown = 1 THEN Stop([x EXCEPT !.timedown = 0], "takedown") ELSE x
           z == Start([y EXCEPT !.timedown = 1], "takedown")
<1>1. x \in State /\ Timed(x)
  BY DEF Sane
<1>2. CASE x.status # "up"
  <2>1. CheckActive(x) = x
    BY <1>2 DEF CheckActive
  <2> QED BY <2>1, <1>2, NotUp, SameItself
<1>3. CASE x.status = "up"
  <2>1. y \in State /\ "takedown" \notin y.timers /\ y.timedown \in {0, 2}
    <3>1. CASE x.timedown = 1
      <4>1. y = Stop([x EXCEPT !.timedown = 0], "takedown") /\ 0 \in {0, 2}
        BY <3>1
      <4> QED BY <1>1, <4>1, QuietOK
    <3>2. CASE x.timedown # 1
      <4>1. y = x /\ x.timedown \in 0 .. 2
        BY <1>1, <3>2, Types
      <4> QED BY <1>1, <3>2, <4>1 DEF Timed
    <3> QED BY <3>1, <3>2
  <2>2. /\ Same(x, y) /\ y.status = x.status /\ y.mode = x.mode /\ y.timeup = x.timeup
        /\ "re_up" \in y.timers <=> "re_up" \in x.timers
    BY <1>1, QuietOK, SameItself
  <2>3. CheckActive(x) = IF Idle(y) /\ ~y.intel /\ y.timedown = 0 THEN z ELSE y
    BY <1>3 DEF CheckActive
  <2> HIDE DEF y
  <2>4. CASE Idle(y) /\ ~y.intel /\ y.timedown = 0
    <3> DEFINE a == [y EXCEPT !.timedown = 1]
    <3>1. /\ a \in State /\ Same(y, a) /\ a.timedown = 1 /\ a.status = y.status
          /\ a.mode = y.mode /\ a.timeup = y.timeup /\ a.timers = y.timers
      <4>1. 1 \in 0 .. 2
        OBVIOUS
      <4> QED BY <2>1, <4>1, HoldOK
    <3> HIDE DEF a
    <3>2. z \in State
      BY <3>1, StartOK DEF a
    <3>3. /\ Same(y, z) /\ z.status = y.status /\ z.mode = y.mode /\ z.timeup = y.timeup
          /\ "re_up" \in z.timers <=> "re_up" \in y.timers
          /\ z.timedown = 1 /\ "takedown" \in z.timers
      BY <3>1, StartOK, SameOn DEF a
    <3>4. CheckActive(x) = z
      BY <2>3, <2>4
    <3> HIDE DEF z
    <3>5. Timed(z)
      BY <1>1, <1>3, <2>2, <3>3 DEF Timed
    <3>6. x.reg /\ z.reg /\ z.status = "up" /\ ~z.intel /\ Idle(z)
      BY <1>3, <2>2, <2>4, <3>3 DEF Placed, Same, Idle
    <3>7. Counted(z) /\ Placed(z)
      BY <3>3, <3>6 DEF Counted, Placed
    <3>8. Lower(x, z)
      BY <2>2, <3>3, SameOn DEF Lower
    <3> QED BY <2>2, <3>2, <3>3, <3>4, <3>5, <3>7, <3>8 DEF Sane
  <2>5. CASE ~(Idle(y) /\ ~y.intel /\ y.timedown = 0)
    <3>1. CheckActive(x) = y
      BY <2>3, <2>5
    <3>2. Timed(y)
      BY <1>1, <1>3, <2>1, <2>2 DEF Timed
    <3>3. Counted(y) /\ Placed(y)
      BY <1>3, <2>1, <2>2, <2>5 DEF Counted, Placed, Same
    <3> QED BY <2>1, <2>2, <3>1, <3>2, <3>3 DEF Sane, Lower
  <2> QED BY <2>4, <2>5
<1> QED BY <1>2, <1>3

LEMMA SetStatusOK ==
  ASSUME NEW x, Sane(x), NEW s \in Status
  PROVE  /\ Sane(SetStatus(x, s)) /\ Same(x, SetStatus(x, s))
         /\ SetStatus(x, s).status = s /\ SetStatus(x, s).mode = x.mode
<1> DEFINE y == IF x.status = "wont_up" THEN Stop([x EXCEPT !.timeup = FALSE], "re_up") ELSE x
           z == IF s # "up" /\ y.timedown = 1
                THEN Stop([y EXCEPT !.timedown = 0], "takedown") ELSE y
           w == [z EXCEPT !.status = s]
           v == Start([w EXCEPT !.timeup = TRUE], "re_up")
<1>1. x \in State /\ Timed(x)
  BY DEF Sane
<1>2. CASE s = x.status
  BY <1>2, SameItself DEF SetStatus
<1>3. CASE s # x.status
  <2>1. /\ y \in State /\ Same(x, y) /\ y.timedown = x.timedown /\ y.mode = x.mode
        /\ "re_up" \notin y.timers /\ ~y.timeup
        /\ "takedown" \in y.timers <=> "takedown" \in x.timers
    <3>1. CASE x.status = "wont_up"
      <4> DEFINE a == [x EXCEPT !.timeup = FALSE]
      <4>1. /\ a \in State /\ Same(x, a) /\ ~a.timeup /\ a.mode = x.mode
            /\ a.timedown = x.timedown /\ a.timers = x.timers
        BY <1>1, FlagOK
      <4> HIDE DEF a
      <4>2. y = Stop(a, "re_up")
        BY <3>1 DEF a
      <4> QED BY <4>1, <4>2, StopOK, SameOn
    <3>2. CASE x.status # "wont_up"
      BY <1>1, <3>2, SameItself DEF Timed
    <3> QED BY <3>1, <3>2
  <2> HIDE DEF y
  <2>2. /\ z \in State /\ Same(y, z) /\ z.timeup = y.timeup /\ z.mode = y.mode
        /\ "re_up" \in z.timers <=> "re_up" \in y.timers
        /\ "takedown" \in z.timers <=> z.timedown = 1
        /\ z.timedown = 1 => s = "up"
    <3>1. CASE s # "up" /\ y.timedown = 1
      <4>1. z = Stop([y EXCEPT !.timedown = 0], "takedown")
        BY <3>1
      <4>2. 0 \in {0, 2} /\ 0 # 1
        OBVIOUS
      <4>3. /\ z \in State /\ Same(y, z) /\ z.timedown = 0 /\ z.timeup = y.timeup
            /\ z.mode = y.mode /\ z.timers = y.timers \ {"takedown"}
        BY <2>1, <4>1, <4>2, QuietOK
      <4> QED BY <4>2, <4>3
    <3>2. CASE ~(s # "up" /\ y.timedown = 1)
      <4>1. z = y
        BY <3>2
      <4> QED BY <1>1, <2>1, <3>2, <4>1, SameItself DEF Timed
    <3> QED BY <3>1, <3>2
  <2> HIDE DEF z
  <2>3. /\ w \in State /\ Same(z, w) /\ w.timeup = z.timeup /\ w.mode = z.mode
        /\ w.timers = z.timers /\ w.timedown = z.timedown /\ w.status = s
    BY <2>2 DEF State, Same
  <2>4. SetStatus(x, s) = IF s = "wont_up" THEN v ELSE w
    BY <1>3 DEF SetStatus, y, z
  <2> HIDE DEF w
  <2>5. Same(x, w)
    BY <2>1, <2>2, <2>3, SameOn
  <2>6. CASE s # "wont_up"
    <3>1. Timed(w)
      BY <2>1, <2>2, <2>3, <2>6 DEF Timed
    <3> QED BY <2>1, <2>2, <2>3, <2>4, <2>5, <2>6, <3>1 DEF Sane
  <2>7. CASE s = "wont_up"
    <3>1. /\ v \in State /\ Same(w, v) /\ v.timeup /\ v.mode = w.mode
          /\ "re_up" \in v.timers /\ v.timedown = w.timedown /\ v.status = w.status
          /\ "takedown" \in v.timers <=> "takedown" \in w.timers
      BY <2>3 DEF State, Same, Start
    <3> HIDE DEF v
    <3>2. Timed(v)
      BY <2>2, <2>3, <2>7, <3>1 DEF Timed
    <3>3. Same(x, v)
      BY <2>5, <3>1, SameOn
    <3> QED BY <2>1, <2>2, <2>3, <2>4, <2>7, <3>1, <3>2, <3>3 DEF Sane
  <2> QED BY <2>6, <2>7
<1> QED BY <1>2, <1>3

LEMMA ModeOK ==
  ASSUME NEW x, Sane(x), NEW m \in {"off", "standby", "on"}
  PROVE  /\ Sane(Mode(x, m)) /\ Same(x, Mode(x, m)) /\ Mode(x, m).status = x.status
         /\ Mode(x, m).timedown = x.timedown
<1>1. x \in State /\ Timed(x)
  BY DEF Sane
<1>2. Mode(x, m) \in State
  BY <1>1 DEF State, Mode
<1>3. /\ Same(x, Mode(x, m)) /\ Mode(x, m).timers = x.timers
      /\ Mode(x, m).timeup = x.timeup /\ Mode(x, m).timedown = x.timedown
      /\ Mode(x, m).status = x.status
  BY <1>1 DEF State, Same, Mode
<1> QED BY <1>1, <1>2, <1>3 DEF Sane, Timed

(* Two steps of layer 1, neither of which raises the status. *)
LEMMA MovedOK ==
  ASSUME NEW x, Sane(x), NEW s \in Status \ {"up", "wont_up"},
         NEW m \in {"off", "standby", "on"}
  PROVE  LET y == Mode(SetStatus(x, s), m)
         IN  /\ Sane(y) /\ Counted(y) /\ Lower(x, y) /\ y.status = s
<1> DEFINE a == SetStatus(x, s)
<1>1. Sane(a) /\ Same(x, a) /\ a.status = s
  BY SetStatusOK
<1> HIDE DEF a
<1>2. /\ Sane(Mode(a, m)) /\ Same(a, Mode(a, m)) /\ Mode(a, m).status = s
  BY <1>1, ModeOK
<1>3. Counted(Mode(a, m))
  BY <1>2, NotUp
<1>4. Lower(x, Mode(a, m))
  BY <1>1, <1>2, SameOn DEF Lower
<1> QED BY <1>2, <1>3, <1>4 DEF a

LEMMA L1UpOK ==
  ASSUME NEW x, Sane(x), Placed(x), x.reg
  PROVE  Sane(L1Up(x)) /\ Counted(L1Up(x)) /\ Placed(L1Up(x)) /\ Lower(x, L1Up(x))
<1>1. CASE x.status = "wont_up"
  <2>1. L1Up(x) = x
    BY <1>1 DEF L1Up
  <2> QED BY <1>1, <2>1, NotUp, SameItself
<1>2. CASE x.status \in {"await_down", "back_up"} /\ ~x.intel
  <2> DEFINE y == SetStatus(x, "back_up")
  <2>1. "back_up" \in Status
    BY DEF Status
  <2>2. Sane(y) /\ Same(x, y) /\ y.status = "back_up"
    BY <2>1, SetStatusOK
  <2>3. L1Up(x) = y
    BY <1>2 DEF L1Up
  <2> HIDE DEF y
  <2>4. Counted(y) /\ Placed(y) /\ Lower(x, y)
    BY <2>2, NotUp DEF Lower, Placed, Same
  <2> QED BY <2>2, <2>3, <2>4
<1>3. CASE x.status \in {"down", "wont_down"} /\ ~x.intel
  <2> DEFINE y == Mode(SetStatus(x, "await_up"), "on")
  <2>1. "await_up" \in Status \ {"up", "wont_up"}
    BY DEF Status
  <2>2. Sane(y) /\ Counted(y) /\ Lower(x, y) /\ y.status = "await_up"
    BY <2>1, MovedOK
  <2>3. L1Up(x) = y
    BY <1>3 DEF L1Up
  <2> HIDE DEF y
  <2>4. Placed(y)
    BY <2>2 DEF Lower, Placed, Same
  <2> QED BY <2>2, <2>3, <2>4
<1>4. CASE /\ x.status # "wont_up"
           /\ ~(x.status \in {"await_down", "back_up"} /\ ~x.intel)
           /\ ~(x.status \in {"down", "wont_down"} /\ ~x.intel)
  <2>1. L1Up(x) = CheckActive(x)
    BY <1>4 DEF L1Up
  <2> QED BY <2>1, CheckActiveOK
<1> QED BY <1>1, <1>2, <1>3, <1>4

LEMMA L1DownOK ==
  ASSUME NEW x, Sane(x), Placed(x)
  PROVE  /\ Sane(L1Down(x)) /\ Counted(L1Down(x)) /\ Placed(L1Down(x)) /\ Lower(x, L1Down(x))
<1>1. x.status \in Status /\ (~x.reg => x.status = "down")
  BY Types DEF Sane, Placed
<1>2. CASE x.status \in {"await_down", "back_up", "down", "wont_up"}
  <2>1. L1Down(x) = Mode(x, "off")
    BY <1>2 DEF L1Down
  <2>2. Sane(Mode(x, "off")) /\ Same(x, Mode(x, "off")) /\ Mode(x, "off").status = x.status
    BY ModeOK
  <2>3. Counted(Mode(x, "off"))
    BY <1>2, <2>2, NotUp
  <2> QED BY <2>1, <2>2, <2>3 DEF Lower, Placed, Same
<1>3. CASE x.status = "wont_down"
  <2>1. L1Down(x) = x
    BY <1>3 DEF L1Down
  <2> QED BY <1>3, <2>1, NotUp, SameItself
<1>4. CASE x.status \in {"await_up", "up"}
  <2>1. PICK s \in Status \ {"up", "wont_up"}, m \in {"off", "standby", "on"} :
          L1Down(x) = Mode(SetStatus(x, s), m)
    <3>1. {"down", "await_down"} \subseteq Status \ {"up", "wont_up"}
      BY DEF Status
    <3>2. CASE x.status = "await_up"
      <4>1. L1Down(x) = Mode(SetStatus(x, "down"), IF x.master THEN "standby" ELSE "off")
        BY <3>2 DEF L1Down
      <4> QED BY <3>1, <4>1
    <3>3. CASE x.status = "up" /\ x.master
      <4>1. L1Down(x) = Mode(SetStatus(x, IF x.intel THEN "down" ELSE "await_down"), "standby")
        BY <3>3 DEF L1Down
      <4> QED BY <3>1, <4>1
    <3>4. CASE x.status = "up" /\ ~x.master
      <4>1. L1Down(x) = Mode(SetStatus(x, "down"), "off")
        BY <3>4 DEF L1Down
      <4> QED BY <3>1, <4>1
    <3> QED BY <1>4, <3>2, <3>3, <3>4
  <2>2. Sane(L1Down(x)) /\ Counted(L1Down(x)) /\ Lower(x, L1Down(x))
    BY <2>1, MovedOK
  <2> QED BY <1>1, <1>4, <2>2 DEF Lower, Placed, Same
<1> QED BY <1>1, <1>2, <1>3, <1>4 DEF Status

-----------------------------------------------------------------------------
(* The notices to layer 3. *)
Unheard(x) == ~x.master => x.view = "none"

Notified(x, y, v) ==
  /\ Sane(y) /\ y.reg = x.reg /\ y.intel = x.intel /\ y.line = x.line
  /\ y.ent = x.ent /\ y.bmode = x.bmode /\ y.chan = x.chan /\ y.dev = x.dev
  /\ y.master = x.master /\ y.notsent = x.notsent /\ y.timers = x.timers
  /\ y.status = x.status /\ y.timedown = x.timedown
  /\ \/ y.lost /\ y.view = x.view
     \/ x.master /\ ~Knows(x) /\ y.view = x.view /\ y.lost = x.lost
     \/ x.master /\ y.view = v
LEMMA NoticeOK ==
  ASSUME NEW x, Sane(x), NEW room \in BOOLEAN,
         NEW v \in {"none", "missed", "card", "up", "down"}
  PROVE  Notified(x, Notice(x, v, room), v)
<1>1. x \in State /\ Timed(x)
  BY DEF Sane
<1>2. CASE x.master /\ ~Knows(x)
  <2>1. Notice(x, v, room) = x
    BY <1>2 DEF Notice
  <2> QED BY <1>1, <1>2, <2>1 DEF Notified, Sane
<1>3. CASE x.master /\ Knows(x) /\ room
  <2> DEFINE y == [x EXCEPT !.view = v, !.lost = FALSE]
  <2>1. Notice(x, v, room) = y
    BY <1>3 DEF Notice
  <2>2. y \in State
    BY <1>1 DEF State
  <2>3. Timed(y)
    BY <1>1 DEF Timed, State
  <2>4. /\ y.reg = x.reg /\ y.intel = x.intel /\ y.line = x.line
        /\ y.ent = x.ent /\ y.bmode = x.bmode /\ y.chan = x.chan /\ y.dev = x.dev
        /\ y.master = x.master /\ y.notsent = x.notsent /\ y.timers = x.timers
        /\ y.status = x.status /\ y.timedown = x.timedown /\ y.view = v
    BY <1>1 DEF State
  <2> QED BY <1>3, <2>1, <2>2, <2>3, <2>4 DEF Sane, Notified
<1>4. CASE ~(x.master /\ ~Knows(x)) /\ ~(x.master /\ Knows(x) /\ room)
  <2> DEFINE y == [x EXCEPT !.lost = TRUE]
  <2>1. Notice(x, v, room) = y
    BY <1>4 DEF Notice
  <2>2. y \in State
    BY <1>1 DEF State
  <2>3. Timed(y)
    BY <1>1 DEF Timed, State
  <2>4. /\ y.reg = x.reg /\ y.intel = x.intel /\ y.line = x.line
        /\ y.ent = x.ent /\ y.bmode = x.bmode /\ y.chan = x.chan /\ y.dev = x.dev
        /\ y.master = x.master /\ y.notsent = x.notsent /\ y.timers = x.timers
        /\ y.status = x.status /\ y.timedown = x.timedown /\ y.view = x.view /\ y.lost
    BY <1>1 DEF State
  <2> QED BY <2>1, <2>2, <2>3, <2>4 DEF Sane, Notified
<1> QED BY <1>2, <1>3, <1>4

(* What isdn2_sendcard leaves of the card. *)
LEMMA SendCardOK ==
  ASSUME NEW x, Sane(x), NEW room \in BOOLEAN
  PROVE  LET y == SendCard(x, room)
         IN  /\ Sane(y) /\ y.reg = x.reg /\ y.intel = x.intel /\ y.line = x.line
             /\ y.ent = x.ent /\ y.chan = x.chan /\ y.dev = x.dev /\ y.lost = x.lost
             /\ y.master = x.master /\ y.notsent = x.notsent /\ y.timers = x.timers
             /\ y.status = x.status /\ y.timedown = x.timedown
             /\ y.bmode = [b \in Bs |-> "off"]
             /\ y.view = x.view \/ (x.master /\ y.view \in {"card", "missed"})
<1> DEFINE a == [x EXCEPT !.bmode = [b \in Bs |-> "off"]]
           v == IF x.master /\ room THEN "card"
                ELSE IF x.master /\ ~Knows(x) THEN "missed" ELSE x.view
           b == [a EXCEPT !.view = v]
           m == IF x.master /\ room THEN "standby" ELSE "off"
<1>1. x \in State /\ Timed(x)
  BY DEF Sane
<1>2. v = x.view \/ (x.master /\ v \in {"card", "missed"})
  <2>1. CASE x.master /\ room
    BY <2>1
  <2>2. CASE ~(x.master /\ room) /\ x.master /\ ~Knows(x)
    <3>1. v = "missed"
      BY <2>2
    <3> QED BY <2>2, <3>1
  <2>3. CASE ~(x.master /\ room) /\ ~(x.master /\ ~Knows(x))
    <3>1. v = x.view
      BY <2>3
    <3> QED BY <3>1
  <2> QED BY <2>1, <2>2, <2>3
<1>3. v \in {"none", "missed", "card", "up", "down"}
  BY <1>1, <1>2, Types
<1>4. m \in {"off", "standby", "on"}
  OBVIOUS
<1>5. /\ a \in State /\ a.reg = x.reg /\ a.intel = x.intel /\ a.line = x.line
      /\ a.ent = x.ent /\ a.chan = x.chan /\ a.dev = x.dev /\ a.lost = x.lost
      /\ a.master = x.master /\ a.notsent = x.notsent /\ a.timers = x.timers
      /\ a.status = x.status /\ a.timedown = x.timedown /\ a.timeup = x.timeup
      /\ a.view = x.view /\ a.bmode = [d \in Bs |-> "off"]
  BY <1>1 DEF State
<1>6. SendCard(x, room) = Mode(b, m)
  BY <1>5 DEF SendCard, Knows
<1> HIDE DEF v, m, a
<1>7. /\ b \in State /\ b.reg = a.reg /\ b.intel = a.intel /\ b.line = a.line
      /\ b.ent = a.ent /\ b.chan = a.chan /\ b.dev = a.dev /\ b.lost = a.lost
      /\ b.master = a.master /\ b.notsent = a.notsent /\ b.timers = a.timers
      /\ b.status = a.status /\ b.timedown = a.timedown /\ b.timeup = a.timeup
      /\ b.view = v /\ b.bmode = a.bmode
  BY <1>3, <1>5 DEF State
<1> HIDE DEF b
<1>8. Sane(b)
  BY <1>1, <1>5, <1>7 DEF Sane, Timed
<1>9. Mode(b, m).timers = b.timers
  BY <1>7 DEF Mode, State
<1>10. /\ Sane(Mode(b, m)) /\ Same(b, Mode(b, m)) /\ Mode(b, m).status = b.status
       /\ Mode(b, m).timedown = b.timedown
  BY <1>4, <1>8, ModeOK
<1> QED BY <1>2, <1>5, <1>6, <1>7, <1>9, <1>10 DEF Same

-----------------------------------------------------------------------------
(* Ending connections and attachments leaves layer 1 alone. *)
Base(x, y) ==
  /\ y.reg = x.reg /\ y.intel = x.intel /\ y.line = x.line /\ y.master = x.master
  /\ y.notsent = x.notsent /\ y.status = x.status
  /\ "sendcards" \in y.timers <=> "sendcards" \in x.timers

LEMMA BaseOn == ASSUME NEW x, NEW y, NEW z, Base(x, y), Base(y, z) PROVE Base(x, z)
BY DEF Base

LEMMA EntitiesOK ==
  ASSUME NEW x, Sane(x), NEW e \in [Sapis -> {"none", "down", "busy", "up"}]
  PROVE  LET y == [x EXCEPT !.ent = e]
         IN  /\ Sane(y) /\ Base(x, y) /\ y.ent = e /\ y.view = x.view /\ y.lost = x.lost
             /\ y.chan = x.chan /\ y.dev = x.dev /\ y.bmode = x.bmode
             /\ y.timedown = x.timedown
<1>1. x \in State /\ Timed(x)
  BY DEF Sane
<1> DEFINE y == [x EXCEPT !.ent = e]
<1>2. y \in State
  BY <1>1 DEF State
<1>3. /\ Base(x, y) /\ y.ent = e /\ y.view = x.view /\ y.lost = x.lost
      /\ y.chan = x.chan /\ y.dev = x.dev /\ y.bmode = x.bmode
      /\ y.timers = x.timers /\ y.timeup = x.timeup /\ y.timedown = x.timedown
  BY <1>1 DEF State, Base
<1> HIDE DEF y
<1>4. Timed(y)
  BY <1>1, <1>3 DEF Timed, Base
<1> QED BY <1>2, <1>3, <1>4 DEF Sane, y

(* The channels and what is attached to them. *)
Tabled(x, y, c, b, d) ==
  /\ Sane(y) /\ Base(x, y) /\ y.ent = x.ent /\ y.view = x.view /\ y.lost = x.lost
  /\ y.timedown = x.timedown /\ y.chan = c /\ y.bmode = b /\ y.dev = d

LEMMA ChannelsOK ==
  ASSUME NEW x, Sane(x), NEW c \in [Chans -> {0} \cup Devs], NEW b \in [Bs -> {"off",
         "on"}],
         NEW d \in [Devs -> Device]
  PROVE  Tabled(x, [x EXCEPT !.chan = c, !.bmode = b, !.dev = d], c, b, d)
<1>1. x \in State /\ Timed(x)
  BY DEF Sane
<1> DEFINE y == [x EXCEPT !.chan = c, !.bmode = b, !.dev = d]
<1>2. y \in State
  BY <1>1 DEF State
<1>3. /\ Base(x, y) /\ y.ent = x.ent /\ y.view = x.view /\ y.lost = x.lost
      /\ y.chan = c /\ y.dev = d /\ y.bmode = b
      /\ y.timers = x.timers /\ y.timeup = x.timeup /\ y.timedown = x.timedown
  BY <1>1 DEF State, Base
<1> HIDE DEF y
<1>4. Timed(y)
  BY <1>1, <1>3 DEF Timed, Base
<1>5. Tabled(x, y, c, b, d)
  BY <1>2, <1>3, <1>4 DEF Sane, Tabled
<1> QED BY <1>5 DEF y

(* A device without a channel, and one that is opened. *)
LEMMA FreeOK == Free \in Device
<1>1. 0 \in {0} \cup Chans /\ 0 \in Refs /\ FALSE \in BOOLEAN
  BY DEF Refs
<1> QED BY <1>1 DEF Free, Device
LEMMA OpenOK == ASSUME NEW r \in Device, NEW o \in BOOLEAN
                PROVE  [r EXCEPT !.open = o] \in Device
BY DEF Device

Gone(x) == {d \in Devs : \E c \in Chans : x.chan[c] = d}
LEMMA DisconnectAllOK ==
  ASSUME NEW x, Sane(x)
  PROVE  LET y == DisconnectAll(x)
         IN  /\ Sane(y) /\ Base(x, y) /\ y.ent = x.ent /\ y.view = x.view /\ y.lost = x.lost
             /\ y.chan = [c \in Chans |-> 0]
             /\ y.bmode = [b \in Bs |-> IF x.chan[b] # 0 THEN "off" ELSE x.bmode[b]]
             /\ y.dev = [d \in Devs |-> IF d \in Gone(x) THEN [Free EXCEPT !.open = TRUE]
                                        ELSE x.dev[d]]
<1> DEFINE c == [i \in Chans |-> 0]
           b == [i \in Bs |-> IF x.chan[i] # 0 THEN "off" ELSE x.bmode[i]]
           d == [i \in Devs |-> IF i \in Gone(x) THEN [Free EXCEPT !.open = TRUE]
                                ELSE x.dev[i]]
<1>1. x \in State
  BY DEF Sane
<1>2. c \in [Chans -> {0} \cup Devs]
  OBVIOUS
<1>3. b \in [Bs -> {"off", "on"}]
  BY <1>1, Types
<1>4. d \in [Devs -> Device]
  <2>1. [Free EXCEPT !.open = TRUE] \in Device
    BY FreeOK, OpenOK
  <2>2. x.dev \in [Devs -> Device]
    BY <1>1, Types
  <2> QED BY <2>1, <2>2
<1>5. DisconnectAll(x) = [x EXCEPT !.chan = c, !.bmode = b, !.dev = d]
  BY <1>1 DEF DisconnectAll, Gone, State
<1> HIDE DEF c, b, d
<1> DEFINE y == [x EXCEPT !.chan = c, !.bmode = b, !.dev = d]
<1>6. /\ Sane(y) /\ Base(x, y) /\ y.ent = x.ent /\ y.view = x.view /\ y.lost = x.lost
      /\ y.chan = c /\ y.bmode = b /\ y.dev = d
  <2>1. Tabled(x, y, c, b, d)
    BY <1>2, <1>3, <1>4, ChannelsOK
  <2> HIDE DEF y
  <2> QED BY <2>1 DEF Tabled
<1> HIDE DEF y
<1> QED BY <1>5, <1>6 DEF c, b, d, y

(* What D_kill_all does to the entities and the attachments, before it     *)
(* looks whether the D channel is idle. *)
Killed(x, ind) ==
  CASE ind = "up" -> x
    [] ind = "remove" -> [x EXCEPT !.ent = [s \in Sapis |-> "none"]]
    [] ind = "down" ->
         DisconnectAll([x EXCEPT !.ent = [s \in Sapis |->
           IF x.intel \/ @[s] = "none" THEN @[s] ELSE "down"]])
LEMMA KilledOK ==
  ASSUME NEW x, Sane(x), NEW ind \in {"up", "remove", "down"}
  PROVE  LET y == Killed(x, ind)
         IN  /\ Sane(y) /\ Base(x, y) /\ y.view = x.view /\ y.lost = x.lost
             /\ ind # "down" => y.chan = x.chan /\ y.dev = x.dev /\ y.bmode = x.bmode
             /\ ind = "down" =>
                  /\ y.chan = [c \in Chans |-> 0]
                  /\ y.bmode = [b \in Bs |-> IF x.chan[b] # 0 THEN "off" ELSE x.bmode[b]]
                  /\ y.dev = [d \in Devs |->
                       IF d \in Gone(x) THEN [Free EXCEPT !.open = TRUE] ELSE x.dev[d]]
<1>1. x \in State
  BY DEF Sane
<1>2. CASE ind = "up"
  BY <1>2 DEF Killed, Base
<1>3. CASE ind = "remove"
  <2>1. [s \in Sapis |-> "none"] \in [Sapis -> {"none", "down", "busy", "up"}]
    OBVIOUS
  <2>2. Killed(x, ind) = [x EXCEPT !.ent = [s \in Sapis |-> "none"]]
    BY <1>3 DEF Killed
  <2> DEFINE y == [x EXCEPT !.ent = [s \in Sapis |-> "none"]]
  <2>3. /\ Sane(y) /\ Base(x, y) /\ y.view = x.view /\ y.lost = x.lost
        /\ y.chan = x.chan /\ y.dev = x.dev /\ y.bmode = x.bmode
    BY <2>1, EntitiesOK
  <2> HIDE DEF y
  <2>4. ind # "down"
    BY <1>3
  <2> QED BY <2>2, <2>3, <2>4 DEF y
<1>4. CASE ind = "down"
  <2> DEFINE e == [s \in Sapis |-> IF x.intel \/ x.ent[s] = "none" THEN x.ent[s] ELSE "down"]
             a == [x EXCEPT !.ent = e]
  <2>1. e \in [Sapis -> {"none", "down", "busy", "up"}]
    BY <1>1, Types
  <2>2. Killed(x, ind) = DisconnectAll(a)
    BY <1>1, <1>4 DEF Killed, State
  <2> HIDE DEF e
  <2>3. /\ Sane(a) /\ Base(x, a) /\ a.view = x.view /\ a.lost = x.lost
        /\ a.chan = x.chan /\ a.dev = x.dev /\ a.bmode = x.bmode
    BY <2>1, EntitiesOK
  <2> HIDE DEF a
  <2>4. Gone(a) = Gone(x)
    BY <2>3 DEF Gone
  <2> QED BY <1>4, <2>2, <2>3, <2>4, DisconnectAllOK, BaseOn
<1> QED BY <1>2, <1>3, <1>4

LEMMA KillAllOK ==
  ASSUME NEW x, Sane(x), Placed(x), NEW ind \in {"up", "remove", "down"}
  PROVE  LET y == KillAll(x, ind)
             k == Killed(x, ind)
         IN  /\ Sane(y) /\ Counted(y) /\ Placed(y) /\ Base(x, y)
             /\ y.view = x.view /\ y.lost = x.lost
             /\ y.chan = k.chan /\ y.dev = k.dev /\ y.bmode = k.bmode
<1> DEFINE k == Killed(x, ind)
<1>1. Sane(k) /\ Base(x, k) /\ k.view = x.view /\ k.lost = x.lost
  BY KilledOK
<1>2. KillAll(x, ind) = CheckActive(k)
  BY DEF KillAll, Killed
<1> HIDE DEF k
<1>3. Placed(k)
  BY <1>1 DEF Placed, Base
<1>4. /\ Sane(CheckActive(k)) /\ Counted(CheckActive(k)) /\ Placed(CheckActive(k))
      /\ Lower(k, CheckActive(k)) /\ CheckActive(k).status = k.status
  BY <1>1, <1>3, CheckActiveOK
<1> QED BY <1>1, <1>2, <1>4 DEF Lower, Same, Base, k

LEMMA KillAllStays ==
  ASSUME NEW x, Sane(x), Placed(x)
  PROVE  LET y == KillAll(x, "remove")
         IN  /\ Sane(y) /\ Placed(y) /\ Base(x, y) /\ y.view = x.view /\ y.lost = x.lost
             /\ y.chan = x.chan /\ y.dev = x.dev /\ y.bmode = x.bmode
<1>1. "remove" \in {"up", "remove", "down"} /\ "remove" # "down"
  OBVIOUS
<1> DEFINE k == Killed(x, "remove")
<1>2. k.chan = x.chan /\ k.dev = x.dev /\ k.bmode = x.bmode
  BY <1>1, KilledOK
<1> QED BY <1>1, <1>2, KillAllOK

Reaches(x, y, k, v) ==
  /\ Sane(y) /\ Counted(y) /\ Placed(y) /\ Base(x, y)
  /\ y.chan = k.chan /\ y.dev = k.dev /\ y.bmode = k.bmode
  /\ \/ y.lost /\ y.view = x.view
     \/ x.master /\ ~Knows(x) /\ y.view = x.view /\ y.lost = x.lost
     \/ x.master /\ y.view = v
LEMMA ToldOK ==
  ASSUME NEW x, Sane(x), Placed(x), NEW ind \in {"up", "remove", "down"},
         NEW room \in BOOLEAN,
         NEW v \in {"none", "missed", "card", "up", "down"}
  PROVE  Reaches(x, Told(x, ind, v, room), Killed(x, ind), v)
<1> DEFINE k == KillAll(x, ind)
           n == Notice(k, v, room)
<1>1. /\ Sane(k) /\ Placed(k) /\ Base(x, k) /\ k.view = x.view /\ k.lost = x.lost
      /\ k.chan = Killed(x, ind).chan /\ k.dev = Killed(x, ind).dev
      /\ k.bmode = Killed(x, ind).bmode
  BY KillAllOK
<1>2. Told(x, ind, v, room) = CheckActive(n)
  BY DEF Told
<1> HIDE DEF k
<1>3. /\ Sane(n) /\ n.reg = k.reg /\ n.intel = k.intel /\ n.line = k.line
      /\ n.bmode = k.bmode /\ n.chan = k.chan /\ n.dev = k.dev
      /\ n.master = k.master /\ n.notsent = k.notsent /\ n.timers = k.timers
      /\ n.status = k.status
      /\ \/ n.lost /\ n.view = k.view
         \/ k.master /\ ~Knows(k) /\ n.view = k.view /\ n.lost = k.lost
         \/ k.master /\ n.view = v
  <2>1. Notified(k, n, v)
    BY <1>1, NoticeOK
  <2> HIDE DEF n
  <2> QED BY <2>1 DEF Notified
<1> HIDE DEF n
<1>4. Placed(n)
  BY <1>1, <1>3 DEF Placed
<1>5. /\ Sane(CheckActive(n)) /\ Counted(CheckActive(n)) /\ Placed(CheckActive(n))
      /\ Lower(n, CheckActive(n)) /\ CheckActive(n).status = n.status
  BY <1>3, <1>4, CheckActiveOK
<1>6. Base(x, CheckActive(n))
  BY <1>1, <1>3, <1>5 DEF Lower, Same, Base
<1>7. Knows(k) <=> Knows(x)
  BY <1>1 DEF Knows
<1> QED BY <1>1, <1>2, <1>3, <1>5, <1>6, <1>7 DEF Lower, Same, Base, Reaches

-----------------------------------------------------------------------------
(* What the driver says of layer 1 and layer 3 is told.  The line may be   *)
(* anything before the report is dealt with. *)
Reported(x) ==
  Sane(x) /\ Counted(x) /\ Placed(x) /\ Announcing(x) /\ Seen(x) /\ x.reg

LEMMA ToldKept ==
  ASSUME NEW x, Sane(x), Placed(x), Announcing(x), Unheard(x),
         NEW ind \in {"up", "remove", "down"}, NEW room \in BOOLEAN,
         NEW v \in {"none", "missed", "card", "up", "down"},
         x.status = "up" => x.line = "up",
         v = "down" => x.status # "up", v = "up" => x.status # "wont_up"
  PROVE  Kept(Told(x, ind, v, room))
<1> DEFINE y == Told(x, ind, v, room)
<1>1. /\ Sane(y) /\ Counted(y) /\ Placed(y) /\ Base(x, y)
      /\ \/ y.lost /\ y.view = x.view
         \/ x.master /\ ~Knows(x) /\ y.view = x.view /\ y.lost = x.lost
         \/ x.master /\ y.view = v
  <2>1. Reaches(x, y, Killed(x, ind), v)
    BY ToldOK
  <2> HIDE DEF y
  <2> QED BY <2>1 DEF Reaches
<1> HIDE DEF y
<1>2. Announcing(y)
  BY <1>1 DEF Announcing, Base
<1>3. Lined(y)
  BY <1>1 DEF Lined, Base
<1>4. Seen(y)
  <2>1. CASE y.lost /\ y.view = x.view
    BY <1>1, <2>1 DEF Seen, Base, Unheard
  <2>2. CASE x.master /\ ~Knows(x) /\ y.view = x.view /\ y.lost = x.lost
    BY <1>1, <2>2 DEF Seen, Base, Knows
  <2>3. CASE x.master /\ y.view = v
    BY <1>1, <2>3 DEF Seen, Base
  <2> QED BY <1>1, <2>1, <2>2, <2>3
<1> QED BY <1>1, <1>2, <1>3, <1>4 DEF Kept, y

(* An indication that layer 1 is down clears the table; layer 3 learns of  *)
(* it, or the notice is lost, or it does not know the card. *)
Cleared(x, y) ==
  /\ y.reg = x.reg /\ y.chan = [c \in Chans |-> 0]
  /\ y.bmode = [b \in Bs |-> IF x.chan[b] # 0 THEN "off" ELSE x.bmode[b]]
  /\ y.dev = [d \in Devs |-> IF d \in Gone(x) THEN [Free EXCEPT !.open = TRUE] ELSE x.dev[d]]
  /\ y.lost \/ y.view = "down" \/ ~Knows(x)
Effect(x, y) == Steady(x, y) \/ Cleared(x, y)

LEMMA EffectFrom == ASSUME NEW x, NEW b, NEW y, Same(x, b), Effect(b, y) PROVE Effect(x, y)
BY DEF Effect, Same, Steady, Cleared, Gone, Knows

LEMMA ToldDownKept ==
  ASSUME NEW x, Sane(x), Placed(x), Announcing(x), Unheard(x), NEW room \in BOOLEAN,
         x.status # "up"
  PROVE  Kept(Told(x, "down", "down", room)) /\ Effect(x, Told(x, "down", "down", room))
<1> DEFINE y == Told(x, "down", "down", room)
           k == Killed(x, "down")
<1>1. Kept(y)
  BY ToldKept
<1>2. Reaches(x, y, k, "down")
  BY ToldOK
<1>3. /\ k.chan = [c \in Chans |-> 0]
      /\ k.bmode = [b \in Bs |-> IF x.chan[b] # 0 THEN "off" ELSE x.bmode[b]]
      /\ k.dev = [d \in Devs |-> IF d \in Gone(x) THEN [Free EXCEPT !.open = TRUE] ELSE x.dev[d]]
  BY KilledOK
<1> HIDE DEF k, y
<1>4. Cleared(x, y)
  BY <1>2, <1>3 DEF Cleared, Reaches, Base
<1> QED BY <1>1, <1>4 DEF Effect, y

LEMMA ToldUpKept ==
  ASSUME NEW x, Sane(x), Placed(x), Announcing(x), Unheard(x), NEW room \in BOOLEAN,
         NEW v \in {"none", "missed", "card", "up", "down"}, x.status = "up" => x.line = "up",
         v = "down" => x.status # "up", v = "up" => x.status # "wont_up"
  PROVE  /\ Kept(Told(x, "up", v, room)) /\ Steady(x, Told(x, "up", v, room))
         /\ Effect(x, Told(x, "up", v, room))
<1> DEFINE y == Told(x, "up", v, room)
           k == Killed(x, "up")
<1>1. Kept(y)
  BY ToldKept
<1>2. Reaches(x, y, k, v)
  BY ToldOK
<1>3. k = x
  BY DEF Killed
<1> HIDE DEF k, y
<1>4. Steady(x, y)
  BY <1>2, <1>3 DEF Steady, Reaches, Base
<1> QED BY <1>1, <1>4 DEF Effect, y

(* A step of layer 1 before the notice. *)
LEMMA SameReported ==
  ASSUME NEW x, NEW y, Reported(x), Same(x, y)
  PROVE  Announcing(y) /\ Unheard(y) /\ y.reg /\ Placed(y) /\ y.line = x.line
BY DEF Reported, Same, Announcing, Unheard, Seen, Placed

LEMMA BouncingOK ==
  ASSUME NEW x, Reported(x), NEW room \in BOOLEAN, x.status = "up" => x.line # "up"
  PROVE  Kept(Bouncing(x, room)) /\ Effect(x, Bouncing(x, room))
<1>0. Sane(x)
  BY DEF Reported
<1>1. CASE x.status = "wont_up"
  <2>1. Bouncing(x, room) = x
    BY <1>1 DEF Bouncing
  <2> QED BY <1>1, <2>1 DEF Kept, Reported, Lined, Effect, Steady
<1>2. CASE x.status \in {"up", "await_up"}
  <2> DEFINE a == Mode(x, "standby")
             b == SetStatus(a, "wont_up")
  <2>1. Bouncing(x, room) = Told(b, "down", "down", room)
    BY <1>2 DEF Bouncing
  <2>2. Sane(a) /\ Same(x, a)
    BY <1>0, ModeOK
  <2> HIDE DEF a
  <2>3. "wont_up" \in Status
    BY DEF Status
  <2>4. Sane(b) /\ Same(a, b) /\ b.status = "wont_up"
    BY <2>2, <2>3, SetStatusOK
  <2> HIDE DEF b
  <2>5. Announcing(b) /\ Unheard(b) /\ Placed(b) /\ Same(x, b)
    BY <2>2, <2>4, SameOn, SameReported
  <2> QED BY <2>1, <2>4, <2>5, ToldDownKept, EffectFrom
<1>3. CASE x.status \notin {"wont_up", "up", "await_up"}
  <2> DEFINE b == SetStatus(x, "down")
  <2>1. Bouncing(x, room) = Told(b, "down", "down", room)
    BY <1>3 DEF Bouncing
  <2>2. "down" \in Status
    BY DEF Status
  <2>3. Sane(b) /\ Same(x, b) /\ b.status = "down"
    BY <1>0, <2>2, SetStatusOK
  <2> HIDE DEF b
  <2>4. Announcing(b) /\ Unheard(b) /\ Placed(b)
    BY <2>3, SameReported
  <2> QED BY <2>1, <2>3, <2>4, ToldDownKept, EffectFrom
<1> QED BY <1>1, <1>2, <1>3

LEMMA LineDownOK ==
  ASSUME NEW x, Reported(x), NEW room \in BOOLEAN
  PROVE  Kept(LineDown(x, room)) /\ Effect(x, LineDown(x, room))
<1>0. Sane(x)
  BY DEF Reported
<1>1. "down" \in Status
  BY DEF Status
<1>2. CASE x.status \in {"await_up", "down"}
  <2>1. LineDown(x, room) = x
    BY <1>2 DEF LineDown
  <2> QED BY <1>2, <2>1 DEF Kept, Reported, Lined, Effect, Steady
<1>3. CASE x.status = "back_up"
  <2> DEFINE b == SetStatus(x, "down")
  <2>1. LineDown(x, room) = L1Up(b)
    BY <1>3 DEF LineDown
  <2>2. Sane(b) /\ Same(x, b) /\ b.status = "down"
    BY <1>0, <1>1, SetStatusOK
  <2> HIDE DEF b
  <2>3. Announcing(b) /\ Unheard(b) /\ Placed(b) /\ b.reg
    BY <2>2, SameReported
  <2>4. Seen(b) /\ Lined(b)
    BY <2>2, <2>3 DEF Seen, Lined, Unheard
  <2>5. Sane(L1Up(b)) /\ Counted(L1Up(b)) /\ Placed(L1Up(b)) /\ Lower(b, L1Up(b))
    BY <2>2, <2>3, L1UpOK
  <2>6. Effect(b, L1Up(b))
    BY <2>3, <2>4, <2>5, LowerKept DEF Effect
  <2> QED BY <2>1, <2>2, <2>3, <2>4, <2>5, <2>6, LowerKept, EffectFrom
<1>4. CASE x.status = "up"
  <2> DEFINE a == Mode(x, "standby")
             b == SetStatus(a, "down")
  <2>1. LineDown(x, room) = Told(b, "down", "down", room)
    BY <1>4 DEF LineDown
  <2>2. Sane(a) /\ Same(x, a)
    BY <1>0, ModeOK
  <2> HIDE DEF a
  <2>3. Sane(b) /\ Same(a, b) /\ b.status = "down"
    BY <1>1, <2>2, SetStatusOK
  <2> HIDE DEF b
  <2>4. Announcing(b) /\ Unheard(b) /\ Placed(b) /\ Same(x, b)
    BY <2>2, <2>3, SameOn, SameReported
  <2> QED BY <2>1, <2>3, <2>4, ToldDownKept, EffectFrom
<1>5. CASE x.status = "wont_up"
  <2>1. LineDown(x, room) = Told(x, "down", "down", room)
    BY <1>5 DEF LineDown
  <2>2. Announcing(x) /\ Unheard(x) /\ Placed(x)
    BY SameItself, SameReported
  <2> QED BY <1>0, <1>5, <2>1, <2>2, ToldDownKept, EffectFrom
<1>6. CASE x.status \notin {"await_up", "down", "back_up", "up", "wont_up"}
  <2> DEFINE b == SetStatus(x, "down")
  <2>1. LineDown(x, room) = Told(b, "down", "down", room)
    BY <1>6 DEF LineDown
  <2>2. Sane(b) /\ Same(x, b) /\ b.status = "down"
    BY <1>0, <1>1, SetStatusOK
  <2> HIDE DEF b
  <2>3. Announcing(b) /\ Unheard(b) /\ Placed(b)
    BY <2>2, SameReported
  <2> QED BY <2>1, <2>2, <2>3, ToldDownKept, EffectFrom
<1> QED BY <1>2, <1>3, <1>4, <1>5, <1>6

LEMMA LineUpOK ==
  ASSUME NEW x, Reported(x), NEW room \in BOOLEAN, x.line = "up"
  PROVE  Kept(LineUp(x, room)) /\ Effect(x, LineUp(x, room))
<1>0. Sane(x) /\ x.status \in Status /\ x.view \in {"none", "missed", "card", "up", "down"}
  BY Types DEF Reported, Sane
<1>1. "up" \in Status /\ "wont_down" \in Status
  BY DEF Status
<1>2. CASE x.status \in {"up", "wont_down"}
  <2>1. LineUp(x, room) = x
    BY <1>2 DEF LineUp
  <2> QED BY <2>1 DEF Kept, Reported, Lined, Effect, Steady
<1>3. CASE x.status = "await_up"
  <2> DEFINE a == SetStatus(x, "up")
             b == Mode(a, "on")
  <2>1. LineUp(x, room) = Told(b, "up", "up", room)
    BY <1>3 DEF LineUp
  <2>2. Sane(a) /\ Same(x, a) /\ a.status = "up"
    BY <1>0, <1>1, SetStatusOK
  <2> HIDE DEF a
  <2>3. Sane(b) /\ Same(a, b) /\ b.status = "up"
    BY <2>2, ModeOK
  <2> HIDE DEF b
  <2>4. Announcing(b) /\ Unheard(b) /\ Placed(b) /\ b.line = "up" /\ Same(x, b)
    BY <2>2, <2>3, SameOn, SameReported
  <2> QED BY <2>1, <2>3, <2>4, ToldUpKept, EffectFrom
<1>4. CASE x.status \in {"down", "back_up", "await_down"} /\ x.intel
  <2> DEFINE b == SetStatus(x, "up")
  <2>1. LineUp(x, room) = Told(b, "up", "up", room)
    BY <1>4 DEF LineUp
  <2>2. Sane(b) /\ Same(x, b) /\ b.status = "up"
    BY <1>0, <1>1, SetStatusOK
  <2> HIDE DEF b
  <2>3. Announcing(b) /\ Unheard(b) /\ Placed(b) /\ b.line = "up"
    BY <2>2, SameReported
  <2> QED BY <2>1, <2>2, <2>3, ToldUpKept, EffectFrom
<1>5. CASE x.status \in {"down", "back_up", "await_down"} /\ ~x.intel
  <2> DEFINE b == SetStatus(x, "wont_down")
  <2>1. LineUp(x, room) = Told(b, "up", x.view, room)
    BY <1>5 DEF LineUp
  <2>2. Sane(b) /\ Same(x, b) /\ b.status = "wont_down"
    BY <1>0, <1>1, SetStatusOK
  <2> HIDE DEF b
  <2>3. Announcing(b) /\ Unheard(b) /\ Placed(b)
    BY <2>2, SameReported
  <2> QED BY <1>0, <2>1, <2>2, <2>3, ToldUpKept, EffectFrom
<1>6. CASE x.status = "wont_up"
  <2> DEFINE a == IF x.notsent THEN x ELSE SendCard(x, room)
             b == SetStatus(a, "up")
  <2>1. LineUp(x, room) = Told(b, "up", "up", room)
    BY <1>6 DEF LineUp
  <2>2. /\ Sane(a) /\ a.reg = x.reg /\ a.line = x.line /\ a.master = x.master
        /\ a.notsent = x.notsent /\ a.timers = x.timers
        /\ a.view = x.view \/ (x.master /\ a.view \in {"card", "missed"})
        /\ Steady(x, a)
    BY <1>0, SendCardOK DEF Steady
  <2> HIDE DEF a
  <2>3. Sane(b) /\ Same(a, b) /\ b.status = "up"
    BY <1>1, <2>2, SetStatusOK
  <2> HIDE DEF b
  <2>4. Announcing(x) /\ Unheard(x) /\ x.reg
    BY SameItself, SameReported
  <2>5. Announcing(b) /\ Unheard(b) /\ Placed(b) /\ b.line = "up"
    BY <2>2, <2>3, <2>4 DEF Same, Announcing, Unheard, Placed
  <2> DEFINE y == Told(b, "up", "up", room)
  <2>6. Kept(y) /\ Steady(b, y)
    BY <2>3, <2>5, ToldUpKept
  <2>7. Steady(x, y)
    BY <2>2, <2>3, <2>6, SteadyOn DEF Same, Steady
  <2> QED BY <2>1, <2>6, <2>7 DEF Effect
<1> QED BY <1>0, <1>2, <1>3, <1>4, <1>5, <1>6 DEF Status

-----------------------------------------------------------------------------
(* Reports of the driver. *)
LEMMA ReportKept == ASSUME IInv, Report PROVE IInv' /\ Effect(g, g')
<1>1. PICK line \in {"down", "up", "broken"}, nomem \in May("nomem"), room \in Loss :
        NewState(line, ~nomem, room)
  BY DEF Report
<1> DEFINE x == [g EXCEPT !.line = line]
<1>2. room \in BOOLEAN /\ nomem \in BOOLEAN
  BY <1>1 DEF Loss, May
<1>3. g \in State /\ Timed(g) /\ g.reg
  BY <1>1 DEF IInv, Kept, Sane, NewState
<1>4. x \in State
  BY <1>3 DEF State
<1>5. /\ x.reg = g.reg /\ x.intel = g.intel /\ x.status = g.status /\ x.timedown = g.timedown
      /\ x.timeup = g.timeup /\ x.timers = g.timers /\ x.ent = g.ent
      /\ x.master = g.master /\ x.notsent = g.notsent /\ x.view = g.view /\ x.lost = g.lost
      /\ x.line = line /\ x.chan = g.chan /\ x.dev = g.dev /\ x.bmode = g.bmode
  BY <1>3 DEF State
<1>6. g' = IF nomem THEN [(IF line = "up" THEN x ELSE KillAll(x, "down")) EXCEPT !.lost = TRUE]
           ELSE CASE line = "broken" -> Bouncing(x, room)
                  [] line = "down" -> LineDown(x, room)
                  [] line = "up" -> LineUp(x, room)
  BY <1>1, <1>2 DEF NewState
<1> HIDE DEF x
<1>7. Reported(x)
  <2>1. Sane(x)
    BY <1>3, <1>4, <1>5 DEF Sane, Timed
  <2>2. Counted(x) /\ Placed(x) /\ Announcing(x) /\ Seen(x)
    BY <1>5 DEF IInv, Kept, Counted, Placed, Announcing, Seen, Idle
  <2> QED BY <1>3, <1>5, <2>1, <2>2 DEF Reported
<1>8. \A y : Effect(x, y) => Effect(g, y)
  BY <1>5 DEF Effect, Steady, Cleared, Gone, Knows
<1>9. CASE nomem
  <2> DEFINE y == IF line = "up" THEN x ELSE KillAll(x, "down")
             z == [y EXCEPT !.lost = TRUE]
  <2>1. /\ Sane(y) /\ Counted(y) /\ Placed(y) /\ Base(x, y) /\ y.view = x.view
    <3>1. CASE line = "up"
      BY <1>7, <3>1 DEF Reported, Base
    <3>2. CASE line # "up"
      BY <1>7, <3>2, KillAllOK DEF Reported
    <3> QED BY <3>1, <3>2
  <2>2. Steady(x, y) \/ (/\ y.reg = x.reg /\ y.chan = [c \in Chans |-> 0]
          /\ y.bmode = [b \in Bs |-> IF x.chan[b] # 0 THEN "off" ELSE x.bmode[b]]
          /\ y.dev = [d \in Devs |-> IF d \in Gone(x) THEN [Free EXCEPT !.open = TRUE]
                                     ELSE x.dev[d]])
    <3>1. CASE line = "up"
      BY <3>1 DEF Steady
    <3>2. CASE line # "up"
      <4>1. y = KillAll(x, "down")
        BY <3>2
      <4> HIDE DEF y
      <4>2. /\ y.chan = Killed(x, "down").chan /\ y.dev = Killed(x, "down").dev
            /\ y.bmode = Killed(x, "down").bmode /\ Base(x, y)
        BY <1>7, <4>1, KillAllOK DEF Reported
      <4> QED BY <1>7, <4>2, KilledOK DEF Reported, Base
    <3> QED BY <3>1, <3>2
  <2>3. Announcing(y) /\ Unheard(y)
    BY <1>7, <2>1 DEF Reported, Announcing, Unheard, Base, Seen
  <2>4. g' = z
    BY <1>6, <1>9
  <2> HIDE DEF y
  <2>5. z \in State
    BY <2>1 DEF Sane, State
  <2>6. /\ z.reg = y.reg /\ z.intel = y.intel /\ z.status = y.status
        /\ z.timedown = y.timedown /\ z.timeup = y.timeup /\ z.timers = y.timers
        /\ z.ent = y.ent /\ z.master = y.master /\ z.notsent = y.notsent /\ z.view = y.view
        /\ z.lost /\ z.chan = y.chan /\ z.dev = y.dev /\ z.bmode = y.bmode
    BY <2>1 DEF Sane, State
  <2> HIDE DEF z
  <2>7. Sane(z)
    BY <2>1, <2>5, <2>6 DEF Sane, Timed
  <2>8. Counted(z) /\ Placed(z) /\ Announcing(z) /\ Seen(z) /\ Lined(z)
    BY <2>1, <2>3, <2>6 DEF Counted, Placed, Announcing, Seen, Lined, Idle, Unheard
  <2>9. Effect(x, z)
    BY <2>6, <2>2 DEF Effect, Steady, Cleared
  <2> QED BY <1>8, <2>4, <2>7, <2>8, <2>9 DEF IInv, Kept
<1>10. CASE ~nomem /\ line = "broken"
  <2>1. g' = Bouncing(x, room)
    BY <1>6, <1>10
  <2>2. Kept(Bouncing(x, room)) /\ Effect(x, Bouncing(x, room))
    BY <1>2, <1>5, <1>7, <1>10, BouncingOK
  <2> QED BY <1>8, <2>1, <2>2 DEF IInv
<1>11. CASE ~nomem /\ line = "down"
  <2>1. g' = LineDown(x, room)
    BY <1>6, <1>11
  <2>2. Kept(LineDown(x, room)) /\ Effect(x, LineDown(x, room))
    BY <1>2, <1>7, LineDownOK
  <2> QED BY <1>8, <2>1, <2>2 DEF IInv
<1>12. CASE ~nomem /\ line = "up"
  <2>1. g' = LineUp(x, room)
    BY <1>6, <1>12
  <2>2. Kept(LineUp(x, room)) /\ Effect(x, LineUp(x, room))
    BY <1>2, <1>5, <1>7, <1>12, LineUpOK
  <2> QED BY <1>8, <2>1, <2>2 DEF IInv
<1> QED BY <1>2, <1>9, <1>10, <1>11, <1>12

(* The callouts. *)
LEMMA ReUpKept == ASSUME IInv, ReUp PROVE IInv' /\ Steady(g, g')
<1> DEFINE x == Stop(g, "re_up")
           a == [x EXCEPT !.timeup = FALSE]
           y == SetStatus(a, "down")
<1>1. g \in State /\ Timed(g) /\ g.timeup /\ g.status = "wont_up" /\ g.timedown # 1
  BY DEF IInv, Kept, Sane, Timed, ReUp
<1>2. g' = IF ~x.timeup THEN x ELSE IF g.master THEN L1Up(y) ELSE y
  BY DEF ReUp
<1>3. /\ x \in State /\ Same(g, x) /\ x.timers = g.timers \ {"re_up"}
      /\ x.status = "wont_up" /\ x.timeup /\ x.timedown = g.timedown
  BY <1>1, StopOK
<1> HIDE DEF x
<1>4. /\ a \in State /\ Same(x, a) /\ ~a.timeup /\ a.status = "wont_up"
      /\ a.timedown = x.timedown /\ a.timers = x.timers
  BY <1>3, FlagOK
<1> HIDE DEF a
<1> DEFINE b == [a EXCEPT !.timeup = FALSE]
           c == Stop(b, "re_up")
           w == [c EXCEPT !.status = "down"]
<1>5. /\ b \in State /\ Same(a, b) /\ ~b.timeup /\ b.status = "wont_up"
      /\ b.timedown = a.timedown /\ b.timers = a.timers
  BY <1>4, FlagOK
<1> HIDE DEF b
<1>6. /\ c \in State /\ Same(b, c) /\ c.timers = b.timers \ {"re_up"} /\ ~c.timeup
      /\ c.timedown = b.timedown
  BY <1>5, StopOK
<1>7. y = w
  <2>1. c.timedown # 1 /\ "down" # a.status /\ "wont_up" # "down"
    BY <1>1, <1>3, <1>4, <1>5, <1>6
  <2> QED BY <1>4, <2>1 DEF SetStatus, b
<1> HIDE DEF c
<1>8. w \in State /\ Same(c, w) /\ w.status = "down" /\ w.timers = c.timers
      /\ w.timeup = c.timeup /\ w.timedown = c.timedown
  BY <1>6 DEF State, Status, Same
<1> HIDE DEF w, y
<1>9. Same(g, w)
  BY <1>3, <1>4, <1>5, <1>6, <1>8, SameOn
<1>10. Sane(w)
  BY <1>1, <1>3, <1>4, <1>5, <1>6, <1>8 DEF Sane, Timed
<1>11. Counted(w)
  BY <1>8, <1>10, NotUp
<1>12. Placed(w) /\ Lower(g, w)
  BY <1>8, <1>9 DEF Placed, Lower
<1>13. g' = IF g.master THEN L1Up(w) ELSE w
  BY <1>2, <1>3, <1>7
<1>14. g.reg /\ w.reg
  BY <1>1, <1>9 DEF IInv, Kept, Placed, Same
<1>15. CASE g.master
  <2>1. Sane(L1Up(w)) /\ Counted(L1Up(w)) /\ Placed(L1Up(w)) /\ Lower(w, L1Up(w))
    BY <1>10, <1>12, <1>14, L1UpOK
  <2>2. Lower(g, L1Up(w))
    BY <1>12, <2>1, LowerOn
  <2>3. Kept(L1Up(w)) /\ Steady(g, L1Up(w))
    BY <2>1, <2>2, LowerKept DEF IInv, Kept
  <2> QED BY <1>13, <1>15, <2>3 DEF IInv
<1>16. CASE ~g.master
  <2>1. Kept(w) /\ Steady(g, w)
    BY <1>10, <1>11, <1>12, LowerKept DEF IInv, Kept
  <2> QED BY <1>13, <1>16, <2>1 DEF IInv
<1> QED BY <1>15, <1>16

LEMMA TakedownKept == ASSUME IInv, Takedown PROVE IInv' /\ Steady(g, g')
<1> DEFINE x == Stop(g, "takedown")
           a == [x EXCEPT !.timedown = 0]
<1>1. g \in State /\ Timed(g) /\ g.timedown = 1 /\ g.status = "up"
  BY DEF IInv, Kept, Sane, Timed, Takedown
<1>2. g' = IF x.timedown = 1 THEN L1Down(a) ELSE x
  BY DEF Takedown
<1>3. /\ x \in State /\ Same(g, x) /\ x.timers = g.timers \ {"takedown"}
      /\ x.status = g.status /\ x.timeup = g.timeup /\ x.timedown = g.timedown
  BY <1>1, StopOK
<1> HIDE DEF x
<1>4. 0 \in 0 .. 2 /\ 0 # 1
  OBVIOUS
<1>5. /\ a \in State /\ Same(x, a) /\ a.timedown = 0 /\ a.status = x.status
      /\ a.timeup = x.timeup /\ a.timers = x.timers
  BY <1>3, <1>4, HoldOK
<1>6. g' = L1Down(a)
  BY <1>1, <1>2, <1>3
<1> HIDE DEF a
<1>7. Sane(a)
  BY <1>1, <1>3, <1>4, <1>5 DEF Sane, Timed
<1>8. Same(g, a) /\ Lower(g, a) /\ Placed(a)
  BY <1>3, <1>5, SameOn DEF Lower, Placed, IInv, Kept, Same
<1>9. Sane(L1Down(a)) /\ Counted(L1Down(a)) /\ Placed(L1Down(a)) /\ Lower(a, L1Down(a))
  BY <1>7, <1>8, L1DownOK
<1>10. Kept(L1Down(a)) /\ Steady(g, L1Down(a))
  BY <1>8, <1>9, LowerOn, LowerKept DEF IInv, Kept
<1> QED BY <1>6, <1>10 DEF IInv

(* The notices of isdn2_sendcard: the line is what it was. *)
LEMMA SendCardKept ==
  ASSUME NEW x, Kept(x), NEW room \in BOOLEAN
  PROVE  /\ Kept(SendCard(x, room)) /\ Steady(x, SendCard(x, room))
         /\ SendCard(x, room).bmode = [b \in Bs |-> "off"]
<1> DEFINE y == SendCard(x, room)
<1>1. /\ Sane(y) /\ y.reg = x.reg /\ y.intel = x.intel /\ y.line = x.line
      /\ y.ent = x.ent /\ y.lost = x.lost /\ y.chan = x.chan /\ y.dev = x.dev
      /\ y.master = x.master /\ y.notsent = x.notsent /\ y.timers = x.timers
      /\ y.status = x.status /\ y.timedown = x.timedown /\ y.bmode = [b \in Bs |-> "off"]
      /\ y.view = x.view \/ (x.master /\ y.view \in {"card", "missed"})
  BY SendCardOK DEF Kept
<1> HIDE DEF y
<1>2. Counted(y) /\ Placed(y) /\ Announcing(y) /\ Lined(y) /\ Steady(x, y)
  BY <1>1 DEF Kept, Counted, Placed, Announcing, Lined, Idle, Steady
<1>3. Seen(y)
  BY <1>1 DEF Kept, Seen
<1> QED BY <1>1, <1>2, <1>3 DEF Kept, y

LEMMA SendCardsKept == ASSUME IInv, SendCards PROVE IInv' /\ Steady(g, g')
<1> DEFINE a == [g EXCEPT !.notsent = FALSE]
           x == Stop(a, "sendcards")
<1>1. g \in State /\ Timed(g)
  BY DEF IInv, Kept, Sane
<1>2. a \in State
  BY <1>1 DEF State
<1>3. /\ x \in State /\ x.reg = g.reg /\ x.intel = g.intel /\ x.line = g.line
      /\ x.chan = g.chan /\ x.dev = g.dev /\ x.bmode = g.bmode
      /\ x.ent = g.ent /\ x.lost = g.lost /\ x.view = g.view
      /\ x.master = g.master /\ ~x.notsent /\ x.timers = g.timers \ {"sendcards"}
      /\ x.status = g.status /\ x.timedown = g.timedown /\ x.timeup = g.timeup
  <2>1. /\ a.reg = g.reg /\ a.intel = g.intel /\ a.line = g.line
        /\ a.chan = g.chan /\ a.dev = g.dev /\ a.bmode = g.bmode
        /\ a.ent = g.ent /\ a.lost = g.lost /\ a.view = g.view
        /\ a.master = g.master /\ ~a.notsent /\ a.timers = g.timers
        /\ a.status = g.status /\ a.timedown = g.timedown /\ a.timeup = g.timeup
    BY <1>1 DEF State
  <2> HIDE DEF a
  <2>2. x = [a EXCEPT !.timers = a.timers \ {"sendcards"}]
    BY <1>2 DEF Stop, State
  <2>3. a.timers \ {"sendcards"} \in SUBSET {"takedown", "re_up", "sendcards"}
    BY <1>2, Types
  <2>4. x \in State
    BY <1>2, <2>2, <2>3 DEF State
  <2>5. /\ x.reg = a.reg /\ x.intel = a.intel /\ x.line = a.line
        /\ x.chan = a.chan /\ x.dev = a.dev /\ x.bmode = a.bmode
        /\ x.ent = a.ent /\ x.lost = a.lost /\ x.view = a.view
        /\ x.master = a.master /\ x.notsent = a.notsent
        /\ x.timers = a.timers \ {"sendcards"}
        /\ x.status = a.status /\ x.timedown = a.timedown /\ x.timeup = a.timeup
    BY <1>2, <2>2 DEF State
  <2> QED BY <2>1, <2>4, <2>5
<1>4. g' \in IF g.reg THEN {SendCard(x, room) : room \in Loss} ELSE {x}
  BY DEF SendCards
<1> HIDE DEF x
<1>5. Kept(x) /\ Steady(g, x)
  <2>1. Sane(x)
    BY <1>1, <1>3 DEF Sane, Timed
  <2>2. Counted(x) /\ Placed(x) /\ Announcing(x) /\ Seen(x) /\ Lined(x)
    BY <1>3 DEF IInv, Kept, Counted, Placed, Announcing, Seen, Lined, Idle
  <2> QED BY <1>3, <2>1, <2>2 DEF Kept, Steady
<1>6. \A room \in Loss : room \in BOOLEAN
  BY DEF Loss
<1>7. g' = x \/ \E room \in BOOLEAN : g' = SendCard(x, room)
  BY <1>4, <1>6
<1> QED BY <1>5, <1>7, SendCardKept, SteadyOn DEF IInv

(* Registration, and the master device. *)
LEMMA RegisterKept ==
  ASSUME IInv, Register
  PROVE  /\ IInv' /\ g'.reg /\ g'.chan = g.chan /\ g'.dev = g.dev
         /\ g'.bmode = [b \in Bs |-> "off"]
<1> DEFINE x == [g EXCEPT !.reg = TRUE, !.status = "down", !.mode = "off",
                          !.line = "down", !.timedown = 0]
<1>1. g \in State /\ Timed(g) /\ ~g.reg /\ g.status = "down" /\ g.timedown # 1
  BY DEF IInv, Kept, Sane, Timed, Placed, Register
<1>2. x \in State
  <2>1. "down" \in Status /\ 0 \in 0 .. 2
    BY DEF Status
  <2> QED BY <1>1, <2>1 DEF State
<1>3. /\ x.reg /\ x.chan = g.chan /\ x.dev = g.dev
      /\ x.intel = g.intel /\ x.ent = g.ent /\ x.lost = g.lost /\ x.view = g.view
      /\ x.master = g.master /\ x.notsent = g.notsent /\ x.timers = g.timers
      /\ x.status = "down" /\ x.timedown = 0 /\ x.timeup = g.timeup
  BY <1>1 DEF State
<1>4. g' \in {SendCard(x, room) : room \in Loss}
  BY DEF Register
<1> HIDE DEF x
<1>5. Sane(x)
  BY <1>1, <1>2, <1>3 DEF Sane, Timed
<1>6. Counted(x)
  BY <1>3, <1>5, NotUp
<1>7. Placed(x) /\ Announcing(x) /\ Seen(x) /\ Lined(x)
  BY <1>3 DEF IInv, Kept, Placed, Announcing, Seen, Lined
<1>8. PICK room \in BOOLEAN : g' = SendCard(x, room)
  BY <1>4 DEF Loss
<1>9. Kept(x)
  BY <1>5, <1>6, <1>7 DEF Kept
<1> QED BY <1>3, <1>8, <1>9, SendCardKept DEF IInv, Steady

LEMMA UnregisterKept ==
  ASSUME IInv, Unregister
  PROVE  /\ IInv' /\ ~g'.reg /\ g'.chan = [c \in Chans |-> 0] /\ g'.dev = g.dev
         /\ g'.bmode = [b \in Bs |-> "off"]
<1> DEFINE a == SetStatus(g, "down")
<1>1. Sane(g) /\ Placed(g) /\ g.reg /\ Announcing(g) /\ Unheard(g)
  BY DEF IInv, Kept, Seen, Unheard, Unregister
<1>2. PICK room \in BOOLEAN :
        g' = [KillAll(Notice(a, "none", room), "remove")
              EXCEPT !.reg = FALSE, !.mode = "off",
                     !.chan = [c \in Chans |-> 0],
                     !.bmode = [b \in Bs |-> "off"]]
  BY DEF Unregister, Loss
<1>3. "down" \in Status
  BY DEF Status
<1>4. Sane(a) /\ Same(g, a) /\ a.status = "down"
  BY <1>1, <1>3, SetStatusOK
<1> HIDE DEF a
<1> DEFINE n == Notice(a, "none", room)
           k == KillAll(n, "remove")
           y == [k EXCEPT !.reg = FALSE, !.mode = "off", !.chan = [c \in Chans |-> 0],
                          !.bmode = [b \in Bs |-> "off"]]
<1>5. Notified(a, n, "none")
  BY <1>4, NoticeOK
<1> HIDE DEF n
<1>6. Sane(n) /\ Placed(n)
  BY <1>4, <1>5 DEF Notified, Placed
<1>7. Sane(k) /\ Base(n, k) /\ k.view = n.view /\ k.lost = n.lost /\ k.dev = n.dev
  BY <1>6, KillAllStays
<1>8. g' = y
  BY <1>2 DEF k, n
<1> HIDE DEF k
<1>9. y \in State
  BY <1>7 DEF Sane, State
<1>10. /\ ~y.reg /\ y.master = k.master /\ y.notsent = k.notsent /\ y.status = k.status
       /\ y.timedown = k.timedown /\ y.timers = k.timers /\ y.timeup = k.timeup
       /\ y.view = k.view /\ y.lost = k.lost /\ y.dev = k.dev
       /\ y.chan = [c \in Chans |-> 0] /\ y.bmode = [b \in Bs |-> "off"]
  BY <1>7 DEF Sane, State
<1> HIDE DEF y
<1>11. Sane(y)
  BY <1>7, <1>9, <1>10 DEF Sane, Timed
<1>12. y.status = "down" /\ y.master = g.master /\ y.notsent = g.notsent
  BY <1>4, <1>5, <1>7, <1>10 DEF Base, Notified, Same
<1>13. "sendcards" \in y.timers <=> "sendcards" \in g.timers
  BY <1>4, <1>5, <1>7, <1>10 DEF Base, Notified, Same
<1>14. y.view = g.view \/ g.master
  BY <1>4, <1>5, <1>7, <1>10 DEF Notified, Same
<1>15. y.dev = g.dev
  BY <1>4, <1>5, <1>7, <1>10 DEF Notified, Same
<1>16. Counted(y) /\ Placed(y) /\ Announcing(y) /\ Seen(y) /\ Lined(y)
  <2>1. Counted(y)
    BY <1>11, <1>12, NotUp
  <2>2. Announcing(y)
    BY <1>1, <1>12, <1>13 DEF Announcing
  <2>3. Seen(y)
    BY <1>1, <1>12, <1>14 DEF Seen, Unheard
  <2>4. Placed(y) /\ Lined(y)
    BY <1>12 DEF Placed, Lined
  <2> QED BY <2>1, <2>2, <2>3, <2>4
<1> QED BY <1>8, <1>10, <1>11, <1>15, <1>16 DEF IInv, Kept

LEMMA OpenMasterKept == ASSUME IInv, OpenMaster PROVE IInv' /\ Steady(g, g')
<1> DEFINE a == [g EXCEPT !.master = TRUE, !.notsent = TRUE]
           y == Start(a, "sendcards")
<1>1. g \in State /\ Timed(g) /\ g.view = "none"
  BY DEF IInv, Kept, Sane, Seen, OpenMaster
<1>2. a \in State
  BY <1>1 DEF State
<1>3. /\ a.reg = g.reg /\ a.intel = g.intel /\ a.line = g.line
      /\ a.chan = g.chan /\ a.dev = g.dev /\ a.bmode = g.bmode
      /\ a.ent = g.ent /\ a.lost = g.lost /\ a.view = g.view
      /\ a.master /\ a.notsent /\ a.timers = g.timers
      /\ a.status = g.status /\ a.timedown = g.timedown /\ a.timeup = g.timeup
  BY <1>1 DEF State
<1>4. g' = y
  BY DEF OpenMaster
<1> HIDE DEF a
<1>5. y = [a EXCEPT !.timers = a.timers \cup {"sendcards"}]
  BY <1>2 DEF Start, State
<1>6. a.timers \cup {"sendcards"} \in SUBSET {"takedown", "re_up", "sendcards"}
  BY <1>2, Types
<1>7. y \in State
  BY <1>2, <1>5, <1>6 DEF State
<1>8. /\ y.reg = a.reg /\ y.intel = a.intel /\ y.line = a.line
      /\ y.chan = a.chan /\ y.dev = a.dev /\ y.bmode = a.bmode
      /\ y.ent = a.ent /\ y.lost = a.lost /\ y.view = a.view
      /\ y.master = a.master /\ y.notsent = a.notsent
      /\ y.timers = a.timers \cup {"sendcards"}
      /\ y.status = a.status /\ y.timedown = a.timedown /\ y.timeup = a.timeup
  BY <1>2, <1>5 DEF State
<1> HIDE DEF y
<1>9. Sane(y)
  BY <1>1, <1>3, <1>7, <1>8 DEF Sane, Timed
<1>10. Counted(y) /\ Placed(y) /\ Announcing(y) /\ Seen(y) /\ Lined(y) /\ Steady(g, y)
  BY <1>1, <1>3, <1>8 DEF IInv, Steady, Kept, Counted, Placed, Announcing, Seen, Lined, Idle
<1> QED BY <1>4, <1>9, <1>10 DEF IInv, Kept

LEMMA CloseMasterKept == ASSUME IInv, CloseMaster PROVE IInv' /\ Steady(g, g')
<1> DEFINE x == [g EXCEPT !.master = FALSE, !.view = "none"]
           k == KillAll(x, "remove")
           y == IF g.reg THEN L1Down(k) ELSE x
           z == [y EXCEPT !.timers = y.timers \ {"sendcards"}]
<1>1. g \in State /\ Timed(g)
  BY DEF IInv, Kept, Sane
<1>2. /\ x \in State /\ x.reg = g.reg /\ x.intel = g.intel /\ x.line = g.line
      /\ x.chan = g.chan /\ x.dev = g.dev /\ x.bmode = g.bmode
      /\ x.ent = g.ent /\ x.lost = g.lost /\ x.view = "none"
      /\ ~x.master /\ x.notsent = g.notsent /\ x.timers = g.timers
      /\ x.status = g.status /\ x.timedown = g.timedown /\ x.timeup = g.timeup
  BY <1>1 DEF State
<1>3. g' = IF g.notsent THEN Stop(y, "sendcards") ELSE y
  BY DEF CloseMaster
<1> HIDE DEF x
<1>4. Sane(x) /\ Placed(x) /\ Counted(x) /\ Lined(x)
  BY <1>1, <1>2 DEF IInv, Kept, Sane, Timed, Placed, Counted, Lined, Idle
<1>5. /\ Sane(y) /\ Counted(y) /\ Placed(y) /\ ~y.master /\ y.view = "none" /\ Lined(y)
      /\ y.notsent = g.notsent /\ Steady(g, y)
      /\ "sendcards" \in y.timers <=> "sendcards" \in g.timers
  <2>1. CASE g.reg
    <3>1. /\ Sane(k) /\ Placed(k) /\ Base(x, k) /\ k.view = x.view /\ k.lost = x.lost
          /\ k.chan = x.chan /\ k.dev = x.dev /\ k.bmode = x.bmode
      BY <1>4, KillAllStays
    <3>2. y = L1Down(k)
      BY <2>1
    <3> HIDE DEF k, y
    <3>3. Sane(L1Down(k)) /\ Counted(L1Down(k)) /\ Placed(L1Down(k)) /\ Lower(k, L1Down(k))
      BY <3>1, L1DownOK
    <3>4. ~y.master /\ y.view = "none" /\ y.notsent = g.notsent
      BY <1>2, <3>1, <3>2, <3>3 DEF Base, Lower, Same
    <3>5. "sendcards" \in y.timers <=> "sendcards" \in g.timers
      BY <1>2, <3>1, <3>2, <3>3 DEF Base, Lower, Same
    <3>6. Lined(y)
      BY <1>4, <3>1, <3>2, <3>3 DEF Base, Lower, Same, Lined
    <3>7. Steady(g, y)
      BY <1>2, <3>1, <3>2, <3>3 DEF Base, Lower, Same, Steady
    <3> QED BY <3>2, <3>3, <3>4, <3>5, <3>6, <3>7
  <2>2. CASE ~g.reg
    BY <1>2, <1>4, <2>2 DEF Steady
  <2> QED BY <2>1, <2>2
<1> HIDE DEF y
<1>6. CASE ~g.notsent
  <2>1. Announcing(y) /\ Seen(y)
    BY <1>5, <1>6 DEF IInv, Kept, Announcing, Seen
  <2> QED BY <1>3, <1>5, <1>6, <2>1 DEF IInv, Kept
<1>7. CASE g.notsent
  <2>1. y \in State /\ Timed(y)
    BY <1>5 DEF Sane
  <2>2. y.timers \ {"sendcards"} \in SUBSET {"takedown", "re_up", "sendcards"}
    BY <2>1, Types
  <2>3. g' = z
    BY <1>3, <1>7, <2>1 DEF Stop, State
  <2>4. z \in State
    BY <2>1, <2>2 DEF State
  <2>5. /\ z.reg = y.reg /\ z.intel = y.intel /\ z.line = y.line
        /\ z.chan = y.chan /\ z.dev = y.dev /\ z.bmode = y.bmode
        /\ z.ent = y.ent /\ z.lost = y.lost /\ z.view = y.view
        /\ z.master = y.master /\ z.notsent = y.notsent
        /\ z.timers = y.timers \ {"sendcards"}
        /\ z.status = y.status /\ z.timedown = y.timedown /\ z.timeup = y.timeup
    BY <2>1 DEF State
  <2> HIDE DEF z
  <2>6. Sane(z)
    BY <2>1, <2>4, <2>5 DEF Sane, Timed
  <2>7. Counted(z) /\ Placed(z) /\ Announcing(z) /\ Seen(z) /\ Lined(z) /\ Steady(g, z)
    BY <1>5, <2>5 DEF Steady, Counted, Placed, Announcing, Seen, Lined, Idle
  <2> QED BY <2>3, <2>6, <2>7 DEF IInv, Kept
<1> QED BY <1>6, <1>7

-----------------------------------------------------------------------------
(* The commands of layer 3, and what the entities do. *)
LEMMA UpKept == ASSUME NEW x, Kept(x), x.reg
                PROVE  Kept(L1Up(x)) /\ Steady(x, L1Up(x))
<1>1. Sane(L1Up(x)) /\ Counted(L1Up(x)) /\ Placed(L1Up(x)) /\ Lower(x, L1Up(x))
  BY L1UpOK DEF Kept
<1> QED BY <1>1, LowerKept DEF Kept
LEMMA DownKept == ASSUME NEW x, Kept(x)
                PROVE  Kept(L1Down(x)) /\ Steady(x, L1Down(x))
<1>1. Sane(L1Down(x)) /\ Counted(L1Down(x)) /\ Placed(L1Down(x)) /\ Lower(x, L1Down(x))
  BY L1DownOK DEF Kept
<1> QED BY <1>1, LowerKept DEF Kept
LEMMA CheckKept == ASSUME NEW x, Kept(x)
                PROVE  Kept(CheckActive(x)) /\ Steady(x, CheckActive(x))
<1>1. /\ Sane(CheckActive(x)) /\ Counted(CheckActive(x)) /\ Placed(CheckActive(x))
      /\ Lower(x, CheckActive(x))
  BY CheckActiveOK DEF Kept
<1> QED BY <1>1, LowerKept DEF Kept

LEMMA CardUpKept == ASSUME IInv, CardUp PROVE IInv' /\ Steady(g, g')
<1>1. g.reg /\ g' = IF g.status # "up" THEN L1Up(g) ELSE g
  BY DEF CardUp, Command
<1> QED BY <1>1, UpKept DEF IInv, Steady
LEMMA CardDownKept == ASSUME IInv, CardDown PROVE IInv' /\ Steady(g, g')
BY DownKept DEF CardDown, IInv
LEMMA TransmitKept == ASSUME IInv, Transmit PROVE IInv' /\ Steady(g, g')
<1>1. g.reg /\ g' = IF g.status # "up" THEN L1Up(g) ELSE CheckActive(g)
  BY DEF Transmit
<1> QED BY <1>1, UpKept, CheckKept DEF IInv, Steady
LEMMA ReceiveKept == ASSUME IInv, Receive PROVE IInv' /\ Steady(g, g')
<1>1. g.reg /\ g' = IF g.status \notin {"up", "wont_down"} THEN L1Up(g) ELSE g
  BY DEF Receive, Awake
<1> QED BY <1>1, UpKept DEF IInv, Steady

LEMMA HoldUpKept == ASSUME IInv, HoldUp PROVE IInv' /\ Steady(g, g')
<1> DEFINE x == IF g.timedown = 1 THEN Stop([g EXCEPT !.timedown = 2], "takedown")
                ELSE [g EXCEPT !.timedown = 2]
<1>1. g \in State /\ Timed(g) /\ g.reg
  BY DEF IInv, Kept, Sane, HoldUp, Command
<1>2. g' = L1Up(x)
  BY DEF HoldUp
<1>3. /\ x \in State /\ Same(g, x) /\ x.timedown = 2 /\ x.status = g.status
      /\ x.timeup = g.timeup /\ "takedown" \notin x.timers
      /\ "re_up" \in x.timers <=> "re_up" \in g.timers
  <2>1. 2 \in {0, 2} /\ 2 \in 0 .. 2
    OBVIOUS
  <2>2. CASE g.timedown = 1
    BY <1>1, <2>1, <2>2, QuietOK
  <2>3. CASE g.timedown # 1
    <3>1. x = [g EXCEPT !.timedown = 2] /\ "takedown" \notin g.timers
      BY <1>1, <2>3 DEF Timed
    <3> HIDE DEF x
    <3> QED BY <1>1, <2>1, <3>1, HoldOK
  <2> QED BY <2>2, <2>3
<1> HIDE DEF x
<1>4. 2 # 1
  OBVIOUS
<1>5. Sane(x) /\ Lower(g, x) /\ Placed(x) /\ x.reg
  BY <1>1, <1>3, <1>4 DEF Sane, Timed, Lower, Placed, Same
<1>6. Sane(L1Up(x)) /\ Counted(L1Up(x)) /\ Placed(L1Up(x)) /\ Lower(x, L1Up(x))
  BY <1>5, L1UpOK
<1>7. Lower(g, L1Up(x))
  BY <1>5, <1>6, LowerOn
<1> QED BY <1>2, <1>6, <1>7, LowerKept DEF IInv, Kept

LEMMA LetGoKept == ASSUME IInv, LetGo PROVE IInv' /\ Steady(g, g')
<1> DEFINE n == IF g.timedown = 2 THEN 0 ELSE g.timedown
           x == [g EXCEPT !.timedown = n]
<1>1. g \in State /\ Timed(g)
  BY DEF IInv, Kept, Sane
<1>2. g' = CheckActive(L1Down(x))
  BY <1>1 DEF LetGo, State
<1>3. n \in 0 .. 2 /\ (n = 1 <=> g.timedown = 1)
  BY <1>1, Types
<1> HIDE DEF n
<1>4. /\ x \in State /\ Same(g, x) /\ x.timedown = n /\ x.status = g.status
      /\ x.timeup = g.timeup /\ x.timers = g.timers
  BY <1>1, <1>3, HoldOK
<1> HIDE DEF x
<1>5. Sane(x) /\ Lower(g, x) /\ Placed(x)
  BY <1>1, <1>3, <1>4 DEF Sane, Timed, Lower, Placed, Same, IInv, Kept
<1>6. Sane(L1Down(x)) /\ Counted(L1Down(x)) /\ Placed(L1Down(x)) /\ Lower(x, L1Down(x))
  BY <1>5, L1DownOK
<1>7. Lower(g, L1Down(x))
  BY <1>5, <1>6, LowerOn
<1>8. Kept(L1Down(x)) /\ Steady(g, L1Down(x))
  BY <1>6, <1>7, LowerKept DEF IInv, Kept
<1> QED BY <1>2, <1>8, CheckKept, SteadyOn DEF IInv

(* An entity that moves, and the look at the D channel that follows. *)
LEMMA EntityKept ==
  ASSUME NEW x, NEW e, Kept(x), x.reg,
         e \in [Sapis -> {"none", "down", "busy", "up"}]
  PROVE  LET y == [x EXCEPT !.ent = e]
         IN  /\ Sane(y) /\ Placed(y) /\ Announcing(y) /\ Seen(y) /\ Lined(y)
             /\ y.reg /\ y.status = x.status /\ Steady(x, y) /\ Kept(y)
             /\ Kept(CheckActive(y)) /\ Steady(x, CheckActive(y))
<1> DEFINE y == [x EXCEPT !.ent = e]
<1>1. /\ Sane(y) /\ Base(x, y) /\ y.view = x.view /\ y.lost = x.lost
      /\ y.chan = x.chan /\ y.dev = x.dev /\ y.bmode = x.bmode
      /\ y.timedown = x.timedown
  BY EntitiesOK DEF Kept
<1> HIDE DEF y
<1>2. Placed(y) /\ Announcing(y) /\ Seen(y) /\ Lined(y) /\ y.reg /\ y.status = x.status
      /\ Counted(y)
  BY <1>1 DEF Kept, Base, Placed, Announcing, Seen, Lined, Sane, Timed, Counted
<1>3. /\ Sane(CheckActive(y)) /\ Counted(CheckActive(y)) /\ Placed(CheckActive(y))
      /\ Lower(y, CheckActive(y))
  BY <1>1, <1>2, CheckActiveOK
<1>4. Kept(CheckActive(y)) /\ Steady(y, CheckActive(y))
  BY <1>2, <1>3, LowerKept
<1>5. Steady(x, y)
  BY <1>1 DEF Base, Steady
<1>6. Steady(x, CheckActive(y))
  BY <1>4, <1>5, SteadyOn
<1> QED BY <1>1, <1>2, <1>4, <1>5, <1>6 DEF y, Kept

LEMMA OneEntity ==
  ASSUME NEW x \in State, NEW s \in Sapis, NEW t \in {"none", "down", "busy", "up"}
  PROVE  LET e == [x.ent EXCEPT ![s] = t]
         IN  e \in [Sapis -> {"none", "down", "busy", "up"}]
             /\ [x EXCEPT !.ent[s] = t] = [x EXCEPT !.ent = e]
<1>1. x.ent \in [Sapis -> {"none", "down", "busy", "up"}]
  BY Types
<1> QED BY <1>1 DEF State

LEMMA OpenProtKept ==
  ASSUME IInv, NEW s \in Sapis, OpenProt(s) PROVE IInv' /\ Steady(g, g')
<1>1. g.reg /\ g' = CheckActive([g EXCEPT !.ent[s] = "down"]) /\ g \in State
  BY DEF OpenProt, Command, IInv, Kept, Sane
<1> QED BY <1>1, OneEntity, EntityKept DEF IInv
LEMMA CloseProtKept ==
  ASSUME IInv, NEW s \in Sapis, CloseProt(s) PROVE IInv' /\ Steady(g, g')
<1>1. g.reg /\ g' = CheckActive([g EXCEPT !.ent[s] = "none"]) /\ g \in State
  BY DEF CloseProt, Command, IInv, Kept, Sane
<1> QED BY <1>1, OneEntity, EntityKept DEF IInv

(* The states an entity's step passes through are all Kept. *)
Fit(x) == Kept(x) /\ Steady(g, x)
AllFit(X) == \A x \in X : Fit(x)
LEMMA FitSelf == ASSUME IInv PROVE AllFit({g})
BY DEF IInv, Fit, AllFit, Steady
LEMMA FitJoin == ASSUME NEW X, NEW Y, AllFit(X), AllFit(Y) PROVE AllFit(X \cup Y)
BY DEF AllFit
LEMMA FitUp == ASSUME NEW x, g.reg, Fit(x) PROVE Fit(L1Up(x))
<1>1. x.reg
  BY DEF Fit, Steady
<1> QED BY <1>1, UpKept, SteadyOn DEF Fit
LEMMA FitCheck == ASSUME NEW x, Fit(x) PROVE Fit(CheckActive(x))
BY CheckKept, SteadyOn DEF Fit
LEMMA FitGo ==
  ASSUME NEW x, g.reg, Fit(x), NEW s \in Sapis, NEW t \in {"none", "down", "busy", "up"}
  PROVE  Fit([x EXCEPT !.ent[s] = t])
<1> DEFINE e == [x.ent EXCEPT ![s] = t]
<1>1. x \in State /\ x.reg /\ Kept(x) /\ Steady(g, x)
  BY DEF Fit, Kept, Sane, Steady
<1>2. e \in [Sapis -> {"none", "down", "busy", "up"}]
      /\ [x EXCEPT !.ent[s] = t] = [x EXCEPT !.ent = e]
  BY <1>1, OneEntity
<1> HIDE DEF e
<1>3. Kept([x EXCEPT !.ent = e]) /\ Steady(x, [x EXCEPT !.ent = e])
  BY <1>1, <1>2, EntityKept
<1> QED BY <1>1, <1>2, <1>3, SteadyOn DEF Fit
LEMMA SendsFit == ASSUME NEW X, g.reg, AllFit(X) PROVE AllFit(Sends(X))
BY FitUp DEF AllFit, Sends
LEMMA SaysFit == ASSUME NEW X, AllFit(X) PROVE AllFit(Says(X))
BY FitCheck DEF AllFit, Says
LEMMA GoesFit ==
  ASSUME NEW X, g.reg, AllFit(X), NEW s \in Sapis, NEW t \in {"down", "busy", "up"}
  PROVE  AllFit(Goes(X, s, t))
<1> SUFFICES ASSUME NEW y \in Goes(X, s, t)
             PROVE  Fit(y)
  BY DEF AllFit
<1>1. PICK x \in X : y = [x EXCEPT !.ent[s] = t]
  BY DEF Goes
<1>2. Fit(x)
  BY DEF AllFit
<1>3. Fit([x EXCEPT !.ent[s] = t])
  BY <1>2, FitGo
<1> QED BY <1>1, <1>3
LEMMA ReestablishedFit ==
  ASSUME NEW X, g.reg, AllFit(X), NEW s \in Sapis
  PROVE  AllFit(Reestablished(X, s))
<1>1. AllFit(Goes(X, s, "busy")) /\ AllFit(Goes(X, s, "down"))
  BY GoesFit
<1>2. AllFit(Sends(Goes(X, s, "busy"))) /\ AllFit(Says(Goes(X, s, "down")))
  BY <1>1, SendsFit, SaysFit
<1> QED BY <1>2, FitJoin DEF Reestablished
LEMMA AwakeFit == ASSUME IInv, g.reg PROVE AllFit({Awake(g)})
<1>1. Fit(g)
  BY FitSelf DEF AllFit
<1>2. Fit(L1Up(g))
  BY <1>1, FitUp
<1> QED BY <1>1, <1>2 DEF Awake, AllFit
LEMMA FitKept == ASSUME NEW X, AllFit(X), g' \in X PROVE IInv' /\ Steady(g, g')
BY DEF AllFit, Fit, IInv

LEMMA EstablishKept ==
  ASSUME IInv, NEW s \in Sapis, Establish(s) PROVE IInv' /\ Steady(g, g')
<1>1. g.reg /\ g' \in Says(Reestablished({g}, s))
  BY DEF Establish, Command
<1>2. AllFit(Says(Reestablished({g}, s)))
  BY <1>1, FitSelf, ReestablishedFit, SaysFit
<1> QED BY <1>1, <1>2, FitKept
LEMMA ReleaseKept ==
  ASSUME IInv, NEW s \in Sapis, Release(s) PROVE IInv' /\ Steady(g, g')
<1>1. g.reg /\ (g' \in Says(Sends(Goes({g}, s, "busy"))) \/ g' \in Says({g}))
  BY DEF Release, Command
<1>2. AllFit(Says(Sends(Goes({g}, s, "busy"))))
  BY <1>1, FitSelf, GoesFit, SendsFit, SaysFit
<1>3. AllFit(Says({g}))
  BY FitSelf, SaysFit
<1> QED BY <1>1, <1>2, <1>3, FitKept
LEMMA PeerFrameKept ==
  ASSUME IInv, NEW s \in Sapis, PeerFrame(s) PROVE IInv' /\ Steady(g, g')
<1> DEFINE X == {Awake(g)}
           A == Sends(Goes(Says(Sends(X)), s, "up"))
           B == Reestablished(X, s)
           C == Sends(Goes(X \cup Says(X), s, "up"))
           D == Goes(Says(X), s, "down")
           E == Goes(Says(Sends(X)), s, "down")
           F == Reestablished(Says(X), s)
<1>1. g.reg /\ g' \in A \cup B \cup C \cup D \cup E \cup F
  BY DEF PeerFrame
<1>2. AllFit(X)
  BY <1>1, AwakeFit
<1>3. AllFit(Says(X)) /\ AllFit(Says(Sends(X))) /\ AllFit(X \cup Says(X))
  BY <1>1, <1>2, SendsFit, SaysFit, FitJoin
<1> HIDE DEF X
<1>4. AllFit(A) /\ AllFit(B)
  BY <1>1, <1>2, <1>3, GoesFit, SendsFit, ReestablishedFit
<1>5. AllFit(C) /\ AllFit(D)
  BY <1>1, <1>3, GoesFit, SendsFit
<1>6. AllFit(E) /\ AllFit(F)
  BY <1>1, <1>3, GoesFit, ReestablishedFit
<1> HIDE DEF A, B, C, D, E, F
<1> QED BY <1>1, <1>4, <1>5, <1>6, FitKept
LEMMA ExpiresKept ==
  ASSUME IInv, NEW s \in Sapis, Expires(s) PROVE IInv' /\ Steady(g, g')
<1>1. g.reg /\ (g' \in Goes(Says({g}), s, "down") \/ g' \in Reestablished(Says({g}), s))
  BY DEF Expires
<1>2. AllFit(Says({g}))
  BY FitSelf, SaysFit
<1>3. AllFit(Goes(Says({g}), s, "down")) /\ AllFit(Reestablished(Says({g}), s))
  BY <1>1, <1>2, GoesFit, ReestablishedFit
<1> QED BY <1>1, <1>3, FitKept
LEMMA AllMove ==
  ASSUME IInv, g.reg, NEW e \in [Sapis -> {"none", "down", "busy", "up"}]
  PROVE  Fit([g EXCEPT !.ent = e])
BY EntityKept DEF IInv, Fit
LEMMA AssignedKept == ASSUME IInv, Assigned PROVE IInv' /\ Steady(g, g')
<1> DEFINE e(failed) == [s \in Sapis |-> IF s \in failed THEN "down"
                                   ELSE IF g.ent[s] = "up" THEN "busy" ELSE g.ent[s]]
<1>1. g.reg /\ g \in State /\ g.ent \in [Sapis -> {"none", "down", "busy", "up"}]
  BY Types DEF Assigned, Command, IInv, Kept, Sane
<1>2. PICK failed : LET x == [g EXCEPT !.ent = e(failed)]
                    IN  g' \in Sends({x}) \/ g' \in Says(Sends({x}))
  BY <1>1 DEF Assigned, State
<1>3. e(failed) \in [Sapis -> {"none", "down", "busy", "up"}]
  BY <1>1
<1> DEFINE x == [g EXCEPT !.ent = e(failed)]
<1>4. AllFit({x})
  BY <1>1, <1>3, AllMove DEF AllFit
<1> HIDE DEF x
<1>5. AllFit(Sends({x})) /\ AllFit(Says(Sends({x})))
  BY <1>1, <1>4, SendsFit, SaysFit
<1> QED BY <1>2, <1>5, FitKept DEF x
LEMMA WithdrawnKept == ASSUME IInv, Withdrawn PROVE IInv' /\ Steady(g, g')
<1> DEFINE e == [s \in Sapis |-> IF g.ent[s] = "none" THEN "none" ELSE "down"]
           x == [g EXCEPT !.ent = e]
<1>1. g.reg /\ g \in State
  BY DEF Withdrawn, Command, IInv, Kept, Sane
<1>2. g' = x \/ g' = CheckActive(x)
  BY <1>1 DEF Withdrawn, State
<1>3. e \in [Sapis -> {"none", "down", "busy", "up"}]
  OBVIOUS
<1>4. Fit(x)
  BY <1>1, <1>3, AllMove
<1> HIDE DEF x
<1>5. Fit(CheckActive(x))
  BY <1>4, FitCheck
<1> QED BY <1>2, <1>4, <1>5 DEF Fit, IInv

-----------------------------------------------------------------------------
(* The devices and the table of channels: layer 1 does not notice. *)
Tab(x, y) ==
  /\ Sane(y) /\ Base(x, y) /\ y.ent = x.ent /\ y.view = x.view /\ y.lost = x.lost
  /\ y.timedown = x.timedown

LEMMA TabOn == ASSUME NEW x, NEW y, NEW z, Tab(x, y), Tab(y, z) PROVE Tab(x, z)
BY DEF Tab, Base
LEMMA TabItself == ASSUME NEW x, Sane(x) PROVE Tab(x, x)
BY DEF Tab, Base
LEMMA TabKept == ASSUME NEW x, NEW y, Kept(x), Tab(x, y) PROVE Kept(y)
<1>1. Counted(y) /\ Placed(y) /\ Announcing(y) /\ Seen(y) /\ Lined(y)
  BY DEF Kept, Tab, Base, Counted, Placed, Announcing, Seen, Lined, Idle
<1> QED BY <1>1 DEF Kept, Tab

LEMMA ChanOK ==
  ASSUME NEW x, Sane(x), NEW c \in [Chans -> {0} \cup Devs]
  PROVE  LET y == [x EXCEPT !.chan = c]
         IN  Tab(x, y) /\ y.chan = c /\ y.dev = x.dev /\ y.bmode = x.bmode
<1> DEFINE y == [x EXCEPT !.chan = c]
<1>1. x \in State /\ Timed(x)
  BY DEF Sane
<1>2. y \in State
  BY <1>1 DEF State
<1>3. /\ Base(x, y) /\ y.ent = x.ent /\ y.view = x.view /\ y.lost = x.lost
      /\ y.chan = c /\ y.dev = x.dev /\ y.bmode = x.bmode
      /\ y.timers = x.timers /\ y.timeup = x.timeup /\ y.timedown = x.timedown
  BY <1>1 DEF State, Base
<1> HIDE DEF y
<1>4. Timed(y)
  BY <1>1, <1>3 DEF Timed, Base
<1> QED BY <1>2, <1>3, <1>4 DEF Sane, Tab, y

LEMMA BmodeOK ==
  ASSUME NEW x, Sane(x), NEW b \in [Bs -> {"off", "on"}]
  PROVE  LET y == [x EXCEPT !.bmode = b]
         IN  Tab(x, y) /\ y.chan = x.chan /\ y.dev = x.dev /\ y.bmode = b
<1> DEFINE y == [x EXCEPT !.bmode = b]
<1>1. x \in State /\ Timed(x)
  BY DEF Sane
<1>2. y \in State
  BY <1>1 DEF State
<1>3. /\ Base(x, y) /\ y.ent = x.ent /\ y.view = x.view /\ y.lost = x.lost
      /\ y.chan = x.chan /\ y.dev = x.dev /\ y.bmode = b
      /\ y.timers = x.timers /\ y.timeup = x.timeup /\ y.timedown = x.timedown
  BY <1>1 DEF State, Base
<1> HIDE DEF y
<1>4. Timed(y)
  BY <1>1, <1>3 DEF Timed, Base
<1> QED BY <1>2, <1>3, <1>4 DEF Sane, Tab, y

LEMMA DevOK ==
  ASSUME NEW x, Sane(x), NEW d \in [Devs -> Device]
  PROVE  LET y == [x EXCEPT !.dev = d]
         IN  Tab(x, y) /\ y.chan = x.chan /\ y.dev = d /\ y.bmode = x.bmode
<1> DEFINE y == [x EXCEPT !.dev = d]
<1>1. x \in State /\ Timed(x)
  BY DEF Sane
<1>2. y \in State
  BY <1>1 DEF State
<1>3. /\ Base(x, y) /\ y.ent = x.ent /\ y.view = x.view /\ y.lost = x.lost
      /\ y.chan = x.chan /\ y.dev = d /\ y.bmode = x.bmode
      /\ y.timers = x.timers /\ y.timeup = x.timeup /\ y.timedown = x.timedown
  BY <1>1 DEF State, Base
<1> HIDE DEF y
<1>4. Timed(y)
  BY <1>1, <1>3 DEF Timed, Base
<1> QED BY <1>2, <1>3, <1>4 DEF Sane, Tab, y

LEMMA DetachedOK ==
  ASSUME NEW r \in Device
  PROVE  LET q == [r EXCEPT !.status = "free", !.chan = 0, !.ref = 0]
         IN  q \in Device /\ q.open = r.open /\ q.status = "free" /\ q.chan = 0
<1> DEFINE a == [r EXCEPT !.status = "free"]
           b == [a EXCEPT !.chan = 0]
           e == [b EXCEPT !.ref = 0]
<1>1. 0 \in {0} \cup Chans /\ 0 \in Refs /\ "free" \in {"free", "B", "D"}
  BY DEF Refs
<1>2. [r EXCEPT !.status = "free", !.chan = 0, !.ref = 0] = e
  OBVIOUS
<1>3. a \in Device /\ a.open = r.open /\ a.status = "free"
  BY <1>1 DEF Device
<1> HIDE DEF a
<1>4. b \in Device /\ b.open = a.open /\ b.status = a.status /\ b.chan = 0
  BY <1>1, <1>3 DEF Device
<1> HIDE DEF b
<1>5. e \in Device /\ e.open = b.open /\ e.status = b.status /\ e.chan = b.chan
  BY <1>1, <1>4 DEF Device
<1> HIDE DEF e
<1> QED BY <1>2, <1>3, <1>4, <1>5

(* isdn2_disconnect, part by part: the table, the B channel, the device.   *)
Unlisted(x, d) ==
  IF x.dev[d].status = "free" THEN x.chan
  ELSE [x.chan EXCEPT ![x.dev[d].chan] =
          IF x.chan[x.dev[d].chan] = d THEN 0 ELSE x.chan[x.dev[d].chan]]
Quieted(x, d) ==
  IF x.dev[d].status = "B" THEN [x.bmode EXCEPT ![x.dev[d].chan] = "off"] ELSE x.bmode
Loosened(x, d) ==
  [x.dev EXCEPT ![d] = [x.dev[d] EXCEPT !.status = "free", !.chan = 0, !.ref = 0]]

LEMMA DisconnectOK ==
  ASSUME NEW x, Sane(x), NEW d \in Devs
  PROVE  LET w == Disconnect(x, d)
         IN  /\ Tab(x, w)
             /\ w.chan = Unlisted(x, d) /\ w.bmode = Quieted(x, d) /\ w.dev = Loosened(x, d)
<1> DEFINE c == x.dev[d].chan
           y == IF x.dev[d].status = "free" THEN x
                ELSE [x EXCEPT !.chan[c] = IF @ = d THEN 0 ELSE @]
           z == IF x.dev[d].status = "B" THEN [y EXCEPT !.bmode[c] = "off"] ELSE y
           w == [z EXCEPT !.dev[d].status = "free", !.dev[d].chan = 0, !.dev[d].ref = 0]
<1>1. /\ x \in State /\ x.chan \in [Chans -> {0} \cup Devs] /\ x.bmode \in [Bs -> {"off", "on"}]
      /\ x.dev \in [Devs -> Device]
  BY Types DEF Sane
<1>2. Disconnect(x, d) = w
  BY DEF Disconnect
<1>3. Unlisted(x, d) \in [Chans -> {0} \cup Devs]
  <2>1. (IF x.chan[c] = d THEN 0 ELSE x.chan[c]) \in {0} \cup Devs \/ c \notin Chans
    BY <1>1
  <2> QED BY <1>1, <2>1 DEF Unlisted
<1>4. Quieted(x, d) \in [Bs -> {"off", "on"}]
  BY <1>1 DEF Quieted
<1>5. Loosened(x, d) \in [Devs -> Device]
  BY <1>1, DetachedOK DEF Loosened
<1>6. Tab(x, y) /\ y.chan = Unlisted(x, d) /\ y.bmode = x.bmode /\ y.dev = x.dev
  <2>1. CASE x.dev[d].status = "free"
    <3>1. y = x
      BY <2>1
    <3> QED BY <2>1, <3>1, TabItself DEF Unlisted
  <2>2. CASE x.dev[d].status # "free"
    <3>1. y = [x EXCEPT !.chan = Unlisted(x, d)]
      BY <1>1, <2>2 DEF Unlisted, State
    <3> HIDE DEF y
    <3> QED BY <1>3, <3>1, ChanOK
  <2> QED BY <2>1, <2>2
<1> HIDE DEF y
<1>7. Tab(y, z) /\ z.chan = y.chan /\ z.bmode = Quieted(x, d) /\ z.dev = y.dev
  <2>0. Sane(y) /\ y \in State
    BY <1>6 DEF Tab, Sane
  <2>1. CASE x.dev[d].status # "B"
    <3>1. z = y
      BY <2>1
    <3> QED BY <1>6, <2>0, <2>1, <3>1, TabItself DEF Quieted
  <2>2. CASE x.dev[d].status = "B"
    <3>1. z = [y EXCEPT !.bmode = Quieted(x, d)]
      BY <1>6, <2>0, <2>2 DEF Quieted, State
    <3> HIDE DEF z
    <3> QED BY <1>4, <2>0, <3>1, BmodeOK
  <2> QED BY <2>1, <2>2
<1> HIDE DEF z
<1>8. Tab(z, w) /\ w.chan = z.chan /\ w.bmode = z.bmode /\ w.dev = Loosened(x, d)
  <2>1. Sane(z) /\ z \in State /\ z.dev = x.dev
    BY <1>6, <1>7 DEF Tab, Sane
  <2>2. w = [z EXCEPT !.dev = Loosened(x, d)]
    <3>1. w = [z EXCEPT !.dev = [z.dev EXCEPT ![d] =
                 [z.dev[d] EXCEPT !.status = "free", !.chan = 0, !.ref = 0]]]
      BY ZenonT(60), <2>1 DEF State
    <3> QED BY <2>1, <3>1 DEF Loosened
  <2> HIDE DEF w
  <2> QED BY <1>5, <2>1, <2>2, DevOK
<1> HIDE DEF w
<1> QED BY <1>2, <1>6, <1>7, <1>8, TabOn

(* A device enters a channel: Entered, part by part. *)
Onto(r, kind, i, ref) == [r EXCEPT !.status = kind, !.chan = i, !.ref = ref]
LEMMA AttachedOK ==
  ASSUME NEW r \in Device, NEW kind \in {"B", "D"}, NEW i \in Chans, NEW ref \in Refs
  PROVE  /\ Onto(r, kind, i, ref) \in Device /\ Onto(r, kind, i, ref).open = r.open
         /\ Onto(r, kind, i, ref).status = kind /\ Onto(r, kind, i, ref).chan = i
<1> DEFINE a == [r EXCEPT !.status = kind]
           b == [a EXCEPT !.chan = i]
           e == [b EXCEPT !.ref = ref]
<1>1. Onto(r, kind, i, ref) = e
  BY DEF Onto
<1>2. a \in Device /\ a.open = r.open /\ a.status = kind
  BY DEF Device
<1> HIDE DEF a
<1>3. b \in Device /\ b.open = a.open /\ b.status = a.status /\ b.chan = i
  BY <1>2 DEF Device
<1> HIDE DEF b
<1>4. e \in Device /\ e.open = b.open /\ e.status = b.status /\ e.chan = b.chan
  BY <1>3 DEF Device
<1> HIDE DEF e
<1> QED BY <1>1, <1>2, <1>3, <1>4

Listed(x, d, i) == [x.chan EXCEPT ![i] = d]
Taken(x, d, i, kind, ref) ==
  [x.dev EXCEPT ![d] = Onto(x.dev[d], kind, i, ref)]

LEMMA EnteredOK ==
  ASSUME NEW x, Sane(x), NEW d \in Devs, NEW i \in Chans, NEW kind \in {"B", "D"},
         NEW ref \in Refs
  PROVE  LET w == Entered(x, d, i, kind, ref)
         IN  /\ Tab(x, w)
             /\ w.chan = Listed(x, d, i) /\ w.bmode = x.bmode /\ w.dev = Taken(x, d, i, kind, ref)
<1> DEFINE y == [x EXCEPT !.chan[i] = d]
           w == [y EXCEPT !.dev[d].status = kind, !.dev[d].chan = i, !.dev[d].ref = ref]
<1>1. x \in State /\ x.chan \in [Chans -> {0} \cup Devs] /\ x.dev \in [Devs -> Device]
  BY Types DEF Sane
<1>2. Entered(x, d, i, kind, ref) = w
  BY DEF Entered
<1>3. Listed(x, d, i) \in [Chans -> {0} \cup Devs]
  BY <1>1 DEF Listed
<1>4. Taken(x, d, i, kind, ref) \in [Devs -> Device]
  BY <1>1, AttachedOK DEF Taken
<1>5. Tab(x, y) /\ y.chan = Listed(x, d, i) /\ y.bmode = x.bmode /\ y.dev = x.dev
  <2>1. y = [x EXCEPT !.chan = Listed(x, d, i)]
    BY <1>1 DEF State, Listed
  <2> HIDE DEF y
  <2> QED BY <1>3, <2>1, ChanOK
<1> HIDE DEF y
<1>6. Tab(y, w) /\ w.chan = y.chan /\ w.bmode = y.bmode /\ w.dev = Taken(x, d, i, kind, ref)
  <2>1. Sane(y) /\ y \in State /\ y.dev = x.dev
    BY <1>5 DEF Tab, Sane
  <2>2. w = [y EXCEPT !.dev = Taken(x, d, i, kind, ref)]
    <3>1. w = [y EXCEPT !.dev = [y.dev EXCEPT ![d] =
                 [y.dev[d] EXCEPT !.status = kind, !.chan = i, !.ref = ref]]]
      BY ZenonT(60), <2>1 DEF State
    <3> QED BY <2>1, <3>1 DEF Taken, Onto
  <2> HIDE DEF w
  <2> QED BY <1>4, <2>1, <2>2, DevOK
<1> HIDE DEF w
<1> QED BY <1>2, <1>5, <1>6, TabOn

(* What the actions on devices do to the table and to the devices. *)
LEMMA OpenDevIs ==
  ASSUME Sane(g), NEW d \in Devs, OpenDev(d)
  PROVE  /\ Tab(g, g') /\ g'.chan = g.chan /\ g'.bmode = g.bmode
         /\ g'.dev = [g.dev EXCEPT ![d] = [g.dev[d] EXCEPT !.open = TRUE]]
<1> DEFINE e == [g.dev EXCEPT ![d] = [g.dev[d] EXCEPT !.open = TRUE]]
           y == [g EXCEPT !.dev = e]
<1>1. g \in State /\ g.dev \in [Devs -> Device]
  BY Types DEF Sane
<1>2. g' = y
  BY <1>1 DEF OpenDev, State
<1>3. e \in [Devs -> Device]
  BY <1>1, OpenOK
<1> HIDE DEF e
<1>4. Tab(g, y) /\ y.chan = g.chan /\ y.dev = e /\ y.bmode = g.bmode
  BY <1>3, DevOK
<1> QED BY <1>2, <1>4 DEF e

LEMMA CloseDevIs ==
  ASSUME Sane(g), NEW d \in Devs, CloseDev(d)
  PROVE  /\ Tab(g, g') /\ g'.chan = Unlisted(g, d) /\ g'.bmode = Quieted(g, d)
         /\ g'.dev = [g.dev EXCEPT ![d] = Free]
<1> DEFINE w == Disconnect(g, d)
           y == [w EXCEPT !.dev = [w.dev EXCEPT ![d] = Free]]
<1>1. /\ Tab(g, w) /\ w.chan = Unlisted(g, d) /\ w.bmode = Quieted(g, d)
      /\ w.dev = Loosened(g, d)
  BY DisconnectOK
<1>2. g' = [w EXCEPT !.dev[d] = Free]
  BY DEF CloseDev
<1> HIDE DEF w
<1>3. Sane(w) /\ w \in State /\ w.dev \in [Devs -> Device]
  BY <1>1, Types DEF Tab, Sane
<1>4. g' = y
  BY <1>2, <1>3 DEF State
<1>5. [w.dev EXCEPT ![d] = Free] \in [Devs -> Device]
  BY <1>3, FreeOK
<1>6. Tab(w, y) /\ y.chan = w.chan /\ y.dev = [w.dev EXCEPT ![d] = Free] /\ y.bmode = w.bmode
  BY <1>3, <1>5, DevOK
<1>7. [w.dev EXCEPT ![d] = Free] = [g.dev EXCEPT ![d] = Free]
  <2>1. g.dev \in [Devs -> Device]
    BY Types DEF Sane
  <2> QED BY <1>1, <2>1 DEF Loosened
<1> HIDE DEF y
<1> QED BY <1>1, <1>4, <1>6, <1>7, TabOn

LEMMA DetachIs ==
  ASSUME Sane(g), NEW d \in Devs, Detach(d)
  PROVE  /\ Tab(g, g') /\ g'.chan = Unlisted(g, d) /\ g'.bmode = Quieted(g, d)
         /\ g'.dev = Loosened(g, d)
BY DisconnectOK DEF Detach

LEMMA SwitchedOK ==
  ASSUME Sane(g), NEW setup, NEW force, NEW x \in Switched(setup, force)
  PROVE  Tab(g, x) /\ x.chan = g.chan /\ x.bmode = g.bmode /\ x.dev = g.dev
<1>1. x = g \/ x = Mode(g, "on")
  BY DEF Switched
<1>2. CASE x = g
  BY <1>2, TabItself
<1>3. CASE x = Mode(g, "on")
  BY <1>3, ModeOK DEF Tab, Base, Same
<1> QED BY <1>1, <1>2, <1>3

LEMMA BsIn == Bs \subseteq Chans
BY Layer2Assumption DEF Bs, Chans

(* An attachment: refused, or entered on a channel that is free or d's.    *)
LEMMA AttachBIs ==
  ASSUME Sane(g), NEW d \in Devs, NEW b \in Bs, AttachB(d, b)
  PROVE  /\ Tab(g, g') /\ MayAttach(d, b)
         /\ \/ g'.chan = g.chan /\ g'.bmode = g.bmode /\ g'.dev = g.dev
            \/ \E ref \in Refs :
                 /\ g'.chan = Listed(g, d, b) /\ g'.dev = Taken(g, d, b, "B", ref)
                 /\ g'.bmode = [g.bmode EXCEPT ![b] = "on"]
<1>1. PICK ref \in Refs, setup \in BOOLEAN, force \in BOOLEAN : \E x \in Switched(setup, force) :
       /\ MayAttach(d, b)
       /\ g' \in {x, [Entered(x, d, b, "B", IF ref # 0 THEN ref ELSE g.dev[d].ref)
                      EXCEPT !.bmode[b] = "on"]}
  BY ZenonT(60) DEF AttachB, May
<1>2. PICK x \in Switched(setup, force) :
        /\ MayAttach(d, b)
        /\ g' \in {x, [Entered(x, d, b, "B", IF ref # 0 THEN ref ELSE g.dev[d].ref)
                       EXCEPT !.bmode[b] = "on"]}
  BY <1>1
<1> DEFINE n == IF ref # 0 THEN ref ELSE g.dev[d].ref
           w == Entered(x, d, b, "B", n)
           y == [w EXCEPT !.bmode = [w.bmode EXCEPT ![b] = "on"]]
<1>3. Tab(g, x) /\ x.chan = g.chan /\ x.bmode = g.bmode /\ x.dev = g.dev
  BY SwitchedOK
<1>4. Sane(x) /\ b \in Chans /\ n \in Refs
  <2>1. g.dev \in [Devs -> Device]
    BY Types DEF Sane
  <2>2. g.dev[d].ref \in Refs
    BY <2>1 DEF Device
  <2> QED BY <1>3, <2>2, BsIn DEF Tab
<1>5. g' = x \/ g' = [w EXCEPT !.bmode[b] = "on"]
  BY <1>2
<1> HIDE DEF n
<1>6. /\ Tab(x, w) /\ w.chan = Listed(x, d, b) /\ w.bmode = x.bmode
      /\ w.dev = Taken(x, d, b, "B", n)
  BY <1>4, EnteredOK
<1> HIDE DEF w
<1>7. Sane(w) /\ w \in State /\ w.bmode \in [Bs -> {"off", "on"}]
  BY <1>6, Types DEF Tab, Sane
<1>8. [w EXCEPT !.bmode[b] = "on"] = y
  BY <1>7 DEF State
<1>9. [w.bmode EXCEPT ![b] = "on"] \in [Bs -> {"off", "on"}]
  BY <1>7
<1>10. /\ Tab(w, y) /\ y.chan = w.chan /\ y.dev = w.dev
       /\ y.bmode = [w.bmode EXCEPT ![b] = "on"]
  BY <1>7, <1>9, BmodeOK
<1> HIDE DEF y
<1>11. CASE g' = x
  BY <1>2, <1>3, <1>11
<1>12. CASE g' = y
  <2>1. Tab(g, y)
    BY <1>3, <1>6, <1>10, TabOn
  <2>2. /\ y.chan = Listed(g, d, b) /\ y.dev = Taken(g, d, b, "B", n)
        /\ y.bmode = [g.bmode EXCEPT ![b] = "on"]
    BY <1>3, <1>6, <1>10 DEF Listed, Taken
  <2> QED BY <1>2, <1>4, <1>12, <2>1, <2>2
<1> QED BY <1>5, <1>8, <1>11, <1>12

LEMMA AttachDIs ==
  ASSUME Sane(g), NEW d \in Devs, AttachD(d)
  PROVE  \E i \in Chans \ Bs, ref \in Refs :
           /\ Tab(g, g') /\ MayAttach(d, i) /\ g'.bmode = g.bmode
           /\ g'.chan = Listed(g, d, i) /\ g'.dev = Taken(g, d, i, "D", ref)
<1>1. PICK ref \in Refs, setup \in BOOLEAN, force \in BOOLEAN, i \in Chans \ Bs :
        \E x \in Switched(setup, force) :
          MayAttach(d, i) /\ g' = Entered(x, d, i, "D", ref)
  BY DEF AttachD, May
<1>2. PICK x \in Switched(setup, force) : MayAttach(d, i) /\ g' = Entered(x, d, i, "D", ref)
  BY <1>1
<1> DEFINE w == Entered(x, d, i, "D", ref)
<1>3. Tab(g, x) /\ x.chan = g.chan /\ x.bmode = g.bmode /\ x.dev = g.dev /\ Sane(x)
  BY SwitchedOK DEF Tab
<1>4. /\ Tab(x, w) /\ w.chan = Listed(x, d, i) /\ w.bmode = x.bmode
      /\ w.dev = Taken(x, d, i, "D", ref)
  BY <1>3, EnteredOK
<1>5. g' = w
  BY <1>2
<1> HIDE DEF w
<1>6. /\ Tab(g, w) /\ Listed(x, d, i) = Listed(g, d, i)
      /\ Taken(x, d, i, "D", ref) = Taken(g, d, i, "D", ref)
  BY <1>3, <1>4, TabOn DEF Listed, Taken
<1> QED BY <1>2, <1>3, <1>4, <1>5, <1>6

LEMMA DevicesKept ==
  ASSUME IInv, NEW d \in Devs,
         OpenDev(d) \/ CloseDev(d) \/ AttachD(d) \/ Detach(d) \/ \E b \in Bs : AttachB(d, b)
  PROVE  IInv'
<1>1. Sane(g)
  BY DEF IInv, Kept
<1>2. Tab(g, g')
  BY <1>1, OpenDevIs, CloseDevIs, AttachDIs, DetachIs, AttachBIs
<1> QED BY <1>2, TabKept DEF IInv

-----------------------------------------------------------------------------
LEMMA InitKept == Init => IInv
<1> SUFFICES ASSUME Init PROVE IInv
  OBVIOUS
<1>1. PICK intel \in BOOLEAN :
        g = [reg |-> FALSE, intel |-> intel, status |-> "down", timedown |-> 0,
             timeup |-> FALSE, timers |-> {}, mode |-> "off", line |-> "down",
             ent |-> [s \in Sapis |-> "none"], bmode |-> [b \in Bs |-> "off"],
             chan |-> [c \in Chans |-> 0], dev |-> [d \in Devs |-> Free],
             master |-> FALSE, notsent |-> FALSE, view |-> "none", lost |-> FALSE]
  BY DEF Init
<1>2. "down" \in Status /\ 0 \in 0 .. 2 /\ {} \in SUBSET {"takedown", "re_up", "sendcards"}
  BY DEF Status
<1>3. [d \in Devs |-> Free] \in [Devs -> Device]
  BY FreeOK
<1>4. g \in State
  BY <1>1, <1>2, <1>3 DEF State
<1>5. /\ ~g.reg /\ g.status = "down" /\ g.timedown = 0 /\ ~g.timeup /\ g.timers = {}
      /\ ~g.master /\ ~g.notsent /\ g.view = "none"
  BY <1>1
<1>6. Sane(g)
  BY <1>4, <1>5 DEF Sane, Timed
<1>7. Counted(g) /\ Placed(g) /\ Announcing(g) /\ Seen(g) /\ Lined(g)
  BY <1>5 DEF Counted, Placed, Announcing, Seen, Lined
<1> QED BY <1>6, <1>7 DEF IInv, Kept

LEMMA StepKept == ASSUME IInv, [Next]_vars PROVE IInv'
<1>1. CASE Report
  BY <1>1, ReportKept
<1>2. CASE ReUp
  BY <1>2, ReUpKept
<1>3. CASE Takedown
  BY <1>3, TakedownKept
<1>4. CASE SendCards
  BY <1>4, SendCardsKept
<1>5. CASE Register
  BY <1>5, RegisterKept
<1>6. CASE Unregister
  BY <1>6, UnregisterKept
<1>7. CASE OpenMaster
  BY <1>7, OpenMasterKept
<1>8. CASE CloseMaster
  BY <1>8, CloseMasterKept
<1>9. CASE CardUp \/ CardDown \/ Transmit \/ Receive
  BY <1>9, CardUpKept, CardDownKept, TransmitKept, ReceiveKept
<1>10. CASE HoldUp \/ LetGo \/ Assigned \/ Withdrawn
  BY <1>10, HoldUpKept, LetGoKept, AssignedKept, WithdrawnKept
<1>11. CASE \E s \in Sapis : \/ OpenProt(s) \/ Establish(s) \/ Release(s) \/ CloseProt(s)
                            \/ PeerFrame(s) \/ Expires(s)
  BY <1>11, OpenProtKept, EstablishKept, ReleaseKept, CloseProtKept, PeerFrameKept,
     ExpiresKept
<1>12. CASE \E d \in Devs : OpenDev(d) \/ CloseDev(d) \/ AttachD(d) \/ Detach(d)
  BY <1>12, DevicesKept
<1>13. CASE \E d \in Devs, b \in Bs : AttachB(d, b)
  BY <1>13, DevicesKept
<1>14. CASE UNCHANGED vars
  BY <1>14 DEF IInv, vars
<1> QED BY <1>1, <1>2, <1>3, <1>4, <1>5, <1>6, <1>7, <1>8, <1>9, <1>10, <1>11, <1>12,
           <1>13, <1>14 DEF Next

(* Between two handlers the card is Kept. *)
THEOREM KeptAlways == Spec => []IInv
<1>1. IInv /\ [Next]_vars => IInv'
  BY StepKept
<1> QED BY <1>1, InitKept, PTL DEF Spec

(* The record of the card stays well-formed, whichever messages are lost,  *)
(* and its flags go with its callouts (D_L1_re_up, isdn2_sendcards). *)
THEOREM TypesKept == Spec => []TypeOK
<1>1. IInv => TypeOK
  BY DEF IInv, Kept, Sane, Timed, Announcing, TypeOK
<1> QED BY <1>1, KeptAlways, PTL

(* D_checkactive and set_card_status: the two callouts of a card run only  *)
(* while its status calls for them, and as its flags say. *)
THEOREM TimersKept == Spec => []TimersMatch
<1>1. IInv => TimersMatch
  BY DEF IInv, Kept, Sane, Timed, Counted, TimersMatch
<1> QED BY <1>1, KeptAlways, PTL

(* isdn2_new_state and D_L1_up: a card that counts as up has its line up,  *)
(* and what layer 3 was told last of the card is not contradicted by its   *)
(* status, unless a report or a notice was lost. *)
THEOREM ViewsKept == Spec => []ViewAgrees
<1>1. IInv => ViewAgrees
  BY DEF IInv, Kept, Seen, Lined, ViewAgrees
<1> QED BY <1>1, KeptAlways, PTL

-----------------------------------------------------------------------------
(* The table of channels.  A driver that goes while its devices are        *)
(* attached, and a layer 3 that attaches a device to a second channel, do  *)
(* leave stale entries (isdn_2.c:268, 2828): neither happens here.         *)
Orderly == "inuse" \notin Rare /\ "reattach" \notin Rare

Agree(x) ==
  /\ \A d \in Devs, i \in Chans :
       x.chan[i] = d <=> x.dev[d].status # "free" /\ x.dev[d].chan = i
  /\ \A b \in Bs : x.bmode[b] = "on" => x.chan[b] # 0
  /\ \A d \in Devs : x.dev[d].status # "free" => x.dev[d].open /\ x.reg
  /\ \A d \in Devs : /\ x.dev[d].status = "B" => x.dev[d].chan \in Bs
                     /\ x.dev[d].status = "D" => x.dev[d].chan \in Chans \ Bs
AInv == IInv /\ Agree(g)

LEMMA AgreeSteady ==
  ASSUME NEW x, NEW y, Agree(x), y.chan = x.chan, y.dev = x.dev, x.reg => y.reg,
         y.bmode = x.bmode \/ y.bmode = [b \in Bs |-> "off"]
  PROVE  Agree(y)
BY DEF Agree

LEMMA AgreeCleared ==
  ASSUME NEW x, NEW y, x \in State, Agree(x), Cleared(x, y) PROVE Agree(y)
<1>1. /\ x.chan \in [Chans -> {0} \cup Devs] /\ x.dev \in [Devs -> Device]
      /\ x.bmode \in [Bs -> {"off", "on"}]
  BY Types
<1> DEFINE f == [Free EXCEPT !.open = TRUE]
<1>2. f.status = "free"
  BY DEF Free
<1> HIDE DEF f
<1>3. \A d \in Devs : y.dev[d] = f \/ (y.dev[d] = x.dev[d] /\ x.dev[d].status = "free")
  <2> SUFFICES ASSUME NEW d \in Devs
               PROVE  y.dev[d] = f \/ (y.dev[d] = x.dev[d] /\ x.dev[d].status = "free")
    OBVIOUS
  <2>1. CASE d \in Gone(x)
    BY <2>1 DEF Cleared, f
  <2>2. CASE d \notin Gone(x)
    <3>1. \A i \in Chans : x.chan[i] # d
      BY <2>2 DEF Gone
    <3>2. x.dev[d].status = "free"
      <4>1. x.dev[d].status \in {"free", "B", "D"} /\ x.dev[d].chan \in {0} \cup Chans
        BY <1>1 DEF Device
      <4>2. x.dev[d].status # "free" => x.dev[d].chan \in Chans
        BY <4>1, BsIn DEF Agree
      <4> QED BY <3>1, <4>2 DEF Agree
    <3> QED BY <2>2, <3>2 DEF Cleared
  <2> QED BY <2>1, <2>2
<1>4. \A d \in Devs : y.dev[d].status = "free"
  BY <1>2, <1>3
<1>5. \A d \in Devs, i \in Chans : y.chan[i] # d
  BY Layer2Assumption DEF Cleared
<1>6. \A b \in Bs : y.bmode[b] # "on"
  BY <1>1 DEF Agree, Cleared
<1> QED BY <1>4, <1>5, <1>6 DEF Agree

(* isdn2_disconnect: both entries go, and the B channel is switched off.   *)
LEMMA AgreeUnlisted ==
  ASSUME NEW x, NEW y, NEW d \in Devs, x \in State, Agree(x),
         y.reg = x.reg, y.chan = Unlisted(x, d), y.bmode = Quieted(x, d),
         y.dev \in [Devs -> Device], y.dev[d].status = "free",
         \A e \in Devs \ {d} : y.dev[e] = x.dev[e]
  PROVE  Agree(y)
<1>1. /\ x.chan \in [Chans -> {0} \cup Devs] /\ x.dev \in [Devs -> Device]
      /\ x.bmode \in [Bs -> {"off", "on"}]
  BY Types
<1>2. x.dev[d].status \in {"free", "B", "D"}
  BY <1>1 DEF Device
<1>3. \A i \in Chans : y.chan[i] = IF x.chan[i] = d THEN 0 ELSE x.chan[i]
  <2> SUFFICES ASSUME NEW i \in Chans PROVE y.chan[i] = IF x.chan[i] = d THEN 0 ELSE x.chan[i]
    OBVIOUS
  <2>1. CASE x.dev[d].status = "free"
    <3>1. x.chan[i] # d
      BY <2>1 DEF Agree
    <3> QED BY <2>1, <3>1 DEF Unlisted
  <2>2. CASE x.dev[d].status # "free" /\ x.dev[d].chan = i
    BY <1>1, <2>2 DEF Unlisted
  <2>3. CASE x.dev[d].status # "free" /\ x.dev[d].chan # i
    <3>1. x.chan[i] # d
      BY <2>3 DEF Agree
    <3> QED BY <1>1, <2>3, <3>1 DEF Unlisted
  <2> QED BY <2>1, <2>2, <2>3
<1>4. \A e \in Devs, i \in Chans :
        y.chan[i] = e <=> y.dev[e].status # "free" /\ y.dev[e].chan = i
  <2> SUFFICES ASSUME NEW e \in Devs, NEW i \in Chans
               PROVE  y.chan[i] = e <=> y.dev[e].status # "free" /\ y.dev[e].chan = i
    OBVIOUS
  <2>1. e # 0
    BY Layer2Assumption
  <2>2. CASE e = d
    <3>1. y.chan[i] # d
      BY <1>3, <2>1, <2>2
    <3> QED BY <2>2, <3>1
  <2>3. CASE e # d
    <3>1. y.chan[i] = e <=> x.chan[i] = e
      BY <1>3, <2>1, <2>3
    <3>2. y.dev[e] = x.dev[e]
      BY <2>3
    <3> QED BY <3>1, <3>2 DEF Agree
  <2> QED BY <2>2, <2>3
<1>5. \A b \in Bs : y.bmode[b] = "on" => y.chan[b] # 0
  <2> SUFFICES ASSUME NEW b \in Bs, y.bmode[b] = "on" PROVE y.chan[b] # 0
    OBVIOUS
  <2>1. x.bmode[b] = "on" /\ (x.dev[d].status = "B" => x.dev[d].chan # b)
    BY <1>1 DEF Quieted
  <2>2. b \in Chans /\ x.chan[b] # 0
    BY <2>1, BsIn DEF Agree
  <2>3. x.chan[b] # d
    BY <1>2, <2>1, <2>2 DEF Agree
  <2> QED BY <1>3, <2>2, <2>3
<1>6. \A e \in Devs : y.dev[e].status # "free" => e # d /\ y.dev[e] = x.dev[e]
  OBVIOUS
<1>7. \A e \in Devs : y.dev[e].status # "free" => y.dev[e].open /\ y.reg
  BY <1>6 DEF Agree
<1>8. \A e \in Devs : /\ y.dev[e].status = "B" => y.dev[e].chan \in Bs
                      /\ y.dev[e].status = "D" => y.dev[e].chan \in Chans \ Bs
  BY <1>6 DEF Agree
<1> QED BY <1>4, <1>5, <1>7, <1>8 DEF Agree

LEMMA TakenIs ==
  ASSUME NEW x \in State, NEW d \in Devs, NEW i \in Chans, NEW kind \in {"B", "D"},
         NEW ref \in Refs
  PROVE  /\ Taken(x, d, i, kind, ref)[d].status = kind /\ Taken(x, d, i, kind, ref)[d].chan = i
         /\ Taken(x, d, i, kind, ref)[d].open = x.dev[d].open
         /\ \A e \in Devs \ {d} : Taken(x, d, i, kind, ref)[e] = x.dev[e]
<1>1. x.dev \in [Devs -> Device] /\ x.dev[d] \in Device
  BY Types
<1>2. Taken(x, d, i, kind, ref)[d] = Onto(x.dev[d], kind, i, ref)
  BY <1>1 DEF Taken
<1>3. \A e \in Devs \ {d} : Taken(x, d, i, kind, ref)[e] = x.dev[e]
  BY <1>1 DEF Taken
<1> QED BY <1>1, <1>2, <1>3, AttachedOK

(* An attachment: the channel is free or the device's own, and the device  *)
(* has no other. *)
LEMMA AgreeListed ==
  ASSUME NEW x, NEW y, NEW d \in Devs, NEW i \in Chans, NEW kind \in {"B", "D"},
         NEW ref \in Refs,
         x \in State, Agree(x), x.reg, x.dev[d].open, x.chan[i] \in {0, d},
         x.dev[d].status = "free" \/ x.dev[d].chan = i, kind = "B" <=> i \in Bs,
         y.reg, y.chan = Listed(x, d, i), y.dev = Taken(x, d, i, kind, ref),
         \A b \in Bs : y.bmode[b] = "on" => b = i \/ x.bmode[b] = "on"
  PROVE  Agree(y)
<1>1. /\ x.chan \in [Chans -> {0} \cup Devs] /\ x.dev \in [Devs -> Device]
  BY Types
<1>2. \A j \in Chans : y.chan[j] = IF j = i THEN d ELSE x.chan[j]
  BY <1>1 DEF Listed
<1>3. y.dev[d].status = kind /\ y.dev[d].chan = i /\ y.dev[d].open
  BY TakenIs
<1>4. \A e \in Devs \ {d} : y.dev[e] = x.dev[e]
  BY TakenIs
<1>5. d # 0 /\ kind # "free"
  BY Layer2Assumption
<1>6. \A e \in Devs, j \in Chans :
        y.chan[j] = e <=> y.dev[e].status # "free" /\ y.dev[e].chan = j
  <2> SUFFICES ASSUME NEW e \in Devs, NEW j \in Chans
               PROVE  y.chan[j] = e <=> y.dev[e].status # "free" /\ y.dev[e].chan = j
    OBVIOUS
  <2>1. CASE e = d
    <3>1. x.chan[j] = d => j = i
      BY DEF Agree
    <3>2. y.chan[j] = d <=> j = i
      BY <1>2, <3>1
    <3> QED BY <1>3, <1>5, <2>1, <3>2
  <2>2. CASE e # d
    <3>1. y.dev[e] = x.dev[e]
      BY <1>4, <2>2
    <3>2. x.chan[j] = e <=> x.dev[e].status # "free" /\ x.dev[e].chan = j
      BY DEF Agree
    <3>3. e # 0
      BY Layer2Assumption
    <3>4. y.chan[j] = e <=> x.chan[j] = e
      BY <1>2, <2>2, <3>3
    <3> QED BY <3>1, <3>2, <3>4
  <2> QED BY <2>1, <2>2
<1>7. \A b \in Bs : y.bmode[b] = "on" => y.chan[b] # 0
  BY <1>2, <1>5, BsIn DEF Agree
<1>8. \A e \in Devs : y.dev[e].status # "free" => y.dev[e].open /\ y.reg
  BY <1>3, <1>4 DEF Agree
<1>9. \A e \in Devs : /\ y.dev[e].status = "B" => y.dev[e].chan \in Bs
                      /\ y.dev[e].status = "D" => y.dev[e].chan \in Chans \ Bs
  BY <1>3, <1>4 DEF Agree
<1> QED BY <1>6, <1>7, <1>8, <1>9 DEF Agree

LEMMA OpenDevAgrees == ASSUME AInv, NEW d \in Devs, OpenDev(d) PROVE Agree(g)'
<1> DEFINE y == g'
<1>1. g \in State /\ g.dev \in [Devs -> Device] /\ Sane(g)
  BY Types DEF AInv, IInv, Kept, Sane
<1>2. /\ Tab(g, y) /\ y.chan = g.chan /\ y.bmode = g.bmode
      /\ y.dev = [g.dev EXCEPT ![d] = [g.dev[d] EXCEPT !.open = TRUE]]
  BY <1>1, OpenDevIs
<1>3. \A e \in Devs : /\ y.dev[e].status = g.dev[e].status /\ y.dev[e].chan = g.dev[e].chan
                      /\ g.dev[e].open => y.dev[e].open
  BY <1>1, <1>2 DEF Device
<1>4. y.reg = g.reg
  BY <1>2 DEF Tab, Base
<1> HIDE DEF y
<1>5. Agree(y)
  BY <1>2, <1>3, <1>4 DEF AInv, Agree
<1> QED BY <1>5 DEF y, Agree

LEMMA LeaveAgrees ==
  ASSUME AInv, NEW d \in Devs, CloseDev(d) \/ Detach(d) PROVE Agree(g)'
<1> DEFINE y == g'
<1>1. g \in State /\ g.dev \in [Devs -> Device] /\ Sane(g) /\ Agree(g)
  BY Types DEF AInv, IInv, Kept, Sane
<1>2. /\ Tab(g, y) /\ y.chan = Unlisted(g, d) /\ y.bmode = Quieted(g, d)
      /\ y.dev = [g.dev EXCEPT ![d] = Free] \/ y.dev = Loosened(g, d)
  BY <1>1, CloseDevIs, DetachIs
<1>3. Free.status = "free"
  BY DEF Free
<1>4. y.dev[d].status = "free"
  <2>1. CASE y.dev = [g.dev EXCEPT ![d] = Free]
    BY <1>1, <1>3, <2>1
  <2>2. CASE y.dev = Loosened(g, d)
    <3> DEFINE r == g.dev[d]
    <3>1. r \in Device /\ y.dev[d] = [r EXCEPT !.status = "free", !.chan = 0, !.ref = 0]
      BY <1>1, <2>2 DEF Loosened
    <3> HIDE DEF r
    <3> QED BY <3>1, DetachedOK
  <2> QED BY <1>2, <2>1, <2>2
<1>5. \A e \in Devs \ {d} : y.dev[e] = g.dev[e]
  BY <1>1, <1>2 DEF Loosened
<1>6. y.reg = g.reg /\ y.dev \in [Devs -> Device]
  BY <1>2, Types DEF Tab, Base, Sane
<1> HIDE DEF y
<1>7. Agree(y)
  BY <1>1, <1>2, <1>4, <1>5, <1>6, AgreeUnlisted
<1> QED BY <1>7 DEF y, Agree

LEMMA AttachAgrees ==
  ASSUME Orderly, AInv, NEW d \in Devs, AttachD(d) \/ \E b \in Bs : AttachB(d, b)
  PROVE  Agree(g)'
<1> DEFINE y == g'
<1>1. g \in State /\ Sane(g) /\ Agree(g) /\ g.bmode \in [Bs -> {"off", "on"}]
  BY Types DEF AInv, IInv, Kept, Sane
<1>2. CASE AttachD(d)
  <2>1. PICK i \in Chans \ Bs, ref \in Refs :
           /\ Tab(g, y) /\ MayAttach(d, i) /\ y.bmode = g.bmode
           /\ y.chan = Listed(g, d, i) /\ y.dev = Taken(g, d, i, "D", ref)
    BY <1>1, <1>2, AttachDIs
  <2> HIDE DEF y
  <2>2. /\ g.reg /\ g.dev[d].open /\ g.chan[i] \in {0, d}
        /\ g.dev[d].status = "free" \/ g.dev[d].chan = i
    BY <2>1 DEF Orderly, MayAttach, Command
  <2>3. y.reg
    BY <2>1, <2>2 DEF Tab, Base
  <2>4. "D" = "B" <=> i \in Bs
    OBVIOUS
  <2>5. "D" \in {"B", "D"} /\ i \in Chans
    OBVIOUS
  <2>6. Agree(y)
    BY <1>1, <2>1, <2>2, <2>3, <2>4, <2>5, AgreeListed
  <2> QED BY <2>6 DEF y, Agree
<1>3. CASE \E b \in Bs : AttachB(d, b)
  <2>1. PICK b \in Bs : AttachB(d, b)
    BY <1>3
  <2> DEFINE Stays == y.chan = g.chan /\ y.bmode = g.bmode /\ y.dev = g.dev
             Enters(ref) == /\ y.chan = Listed(g, d, b) /\ y.dev = Taken(g, d, b, "B", ref)
                            /\ y.bmode = [g.bmode EXCEPT ![b] = "on"]
  <2>2. /\ Tab(g, y) /\ MayAttach(d, b) /\ (Stays \/ \E ref \in Refs : Enters(ref))
    BY <1>1, <2>1, AttachBIs
  <2> HIDE DEF y
  <2>3. /\ g.reg /\ g.dev[d].open /\ g.chan[b] \in {0, d}
        /\ g.dev[d].status = "free" \/ g.dev[d].chan = b
    BY <2>2 DEF Orderly, MayAttach, Command
  <2>4. y.reg
    BY <2>2, <2>3 DEF Tab, Base
  <2>5. ASSUME Stays PROVE Agree(y)
    <3>1. y.chan = g.chan /\ y.dev = g.dev /\ y.bmode = g.bmode
      BY <2>5
    <3> HIDE DEF Stays
    <3> QED BY <1>1, <2>4, <3>1, AgreeSteady
  <2>6. ASSUME NEW ref \in Refs, Enters(ref) PROVE Agree(y)
    <3>1. /\ y.chan = Listed(g, d, b) /\ y.dev = Taken(g, d, b, "B", ref)
          /\ y.bmode = [g.bmode EXCEPT ![b] = "on"]
      BY <2>6
    <3> HIDE DEF Enters
    <3>2. \A c \in Bs : y.bmode[c] = "on" => c = b \/ g.bmode[c] = "on"
      BY <1>1, <3>1
    <3>3. "B" = "B" <=> b \in Bs
      OBVIOUS
    <3>4. "B" \in {"B", "D"} /\ b \in Chans
      BY BsIn
    <3>5. y.chan = Listed(g, d, b) /\ y.dev = Taken(g, d, b, "B", ref)
      BY <3>1
    <3> QED BY <1>1, <2>3, <2>4, <3>2, <3>3, <3>4, <3>5, AgreeListed
  <2>7. Agree(y)
    <3> HIDE DEF Stays, Enters
    <3> QED BY <2>2, <2>5, <2>6
  <2> QED BY <2>7 DEF y, Agree
<1> QED BY <1>2, <1>3

LEMMA InitAgrees == Init => Agree(g)
<1> SUFFICES ASSUME Init PROVE Agree(g)
  OBVIOUS
<1>1. /\ g.chan = [c \in Chans |-> 0] /\ g.bmode = [b \in Bs |-> "off"]
      /\ g.dev = [d \in Devs |-> Free]
  BY DEF Init
<1>2. Free.status = "free"
  BY DEF Free
<1>3. \A d \in Devs : g.dev[d].status = "free" /\ d # 0
  BY <1>1, <1>2, Layer2Assumption
<1> QED BY <1>1, <1>3 DEF Agree

(* Every action but the reports, the registration and those on devices     *)
(* leaves the table alone. *)
Calm ==
  \/ ReUp \/ Takedown \/ SendCards \/ OpenMaster \/ CloseMaster
  \/ CardUp \/ CardDown \/ HoldUp \/ LetGo \/ Assigned \/ Withdrawn \/ Transmit \/ Receive
  \/ \E s \in Sapis : \/ OpenProt(s) \/ Establish(s) \/ Release(s) \/ CloseProt(s)
                       \/ PeerFrame(s) \/ Expires(s)
  \/ UNCHANGED vars
LEMMA CalmSteady == ASSUME IInv, Calm PROVE Steady(g, g')
<1>1. CASE ReUp \/ Takedown \/ SendCards \/ OpenMaster \/ CloseMaster
  BY <1>1, ReUpKept, TakedownKept, SendCardsKept, OpenMasterKept, CloseMasterKept
<1>2. CASE \/ CardUp \/ CardDown \/ HoldUp \/ LetGo \/ Assigned \/ Withdrawn
           \/ Transmit \/ Receive
  BY <1>2, CardUpKept, CardDownKept, HoldUpKept, LetGoKept, AssignedKept, WithdrawnKept,
     TransmitKept, ReceiveKept
<1>3. CASE \E s \in Sapis : \/ OpenProt(s) \/ Establish(s) \/ Release(s) \/ CloseProt(s)
                           \/ PeerFrame(s) \/ Expires(s)
  BY <1>3, OpenProtKept, EstablishKept, ReleaseKept, CloseProtKept, PeerFrameKept,
     ExpiresKept
<1>4. CASE UNCHANGED vars
  BY <1>4 DEF vars, Steady
<1> QED BY <1>1, <1>2, <1>3, <1>4 DEF Calm
Moves(d) ==
  OpenDev(d) \/ CloseDev(d) \/ AttachD(d) \/ Detach(d) \/ \E b \in Bs : AttachB(d, b)
LEMMA Steps ==
  [Next]_vars <=> Report \/ Register \/ Unregister \/ Calm \/ \E d \in Devs : Moves(d)
BY DEF Next, Calm, Moves

LEMMA StepAgrees == ASSUME Orderly, AInv, [Next]_vars PROVE AInv'
<1>1. IInv' /\ IInv /\ g \in State /\ Agree(g)
  BY StepKept DEF AInv, IInv, Kept, Sane
<1> DEFINE y == g'
<1>2. CASE Report
  <2>1. Effect(g, y)
    BY <1>1, <1>2, ReportKept
  <2> HIDE DEF y
  <2>2. Agree(y)
    BY <1>1, <2>1, AgreeSteady, AgreeCleared DEF Effect, Steady
  <2> QED BY <1>1, <2>2 DEF AInv, Agree, y
<1>3. CASE Register
  <2>1. y.reg /\ y.chan = g.chan /\ y.dev = g.dev /\ y.bmode = [b \in Bs |-> "off"]
    BY <1>1, <1>3, RegisterKept
  <2> HIDE DEF y
  <2>2. Agree(y)
    BY <1>1, <2>1, AgreeSteady
  <2> QED BY <1>1, <2>2 DEF AInv, Agree, y
<1>4. CASE Unregister
  <2>1. y.chan = [c \in Chans |-> 0] /\ y.dev = g.dev /\ y.bmode = [b \in Bs |-> "off"]
    BY <1>1, <1>4, UnregisterKept
  <2>2. \A d \in Devs : g.dev[d].status = "free" /\ d # 0
    BY <1>4, Layer2Assumption DEF Orderly, Unregister
  <2> HIDE DEF y
  <2>3. Agree(y)
    BY <2>1, <2>2 DEF Agree
  <2> QED BY <1>1, <2>3 DEF AInv, Agree, y
<1>5. CASE Calm
  <2>1. Steady(g, y)
    BY <1>1, <1>5, CalmSteady
  <2> HIDE DEF y
  <2>2. Agree(y)
    BY <1>1, <2>1, AgreeSteady DEF Steady
  <2> QED BY <1>1, <2>2 DEF AInv, Agree, y
<1>6. CASE \E d \in Devs : Moves(d)
  <2>1. Agree(g)'
    BY <1>6, OpenDevAgrees, LeaveAgrees, AttachAgrees DEF Moves
  <2> QED BY <1>1, <2>1 DEF AInv
<1> QED BY <1>2, <1>3, <1>4, <1>5, <1>6, Steps

(* The table of the card and the records of the devices keep step.         *)
THEOREM AgreeAlways == Orderly /\ Spec => []AInv
<1>1. Orderly /\ AInv /\ [Next]_vars => AInv'
  BY StepAgrees
<1>2. Init => AInv
  BY InitKept, InitAgrees DEF AInv
<1>3. Orderly => []Orderly
  <2>1. Orderly => Orderly'
    BY DEF Orderly
  <2> QED BY <2>1, PTL
<1> QED BY <1>1, <1>2, <1>3, PTL DEF Spec

(* isdn2_wsrv, isdn2_disconnect and D_kill_all: as long as no driver goes  *)
(* while its devices are attached and layer 3 detaches a device before it  *)
(* moves it, the card's table of channels and the devices say the same and *)
(* no B channel is on for nobody. *)
THEOREM ChannelsKept == Orderly /\ Spec => []ChannelsAgree
<1>1. AInv => ChannelsAgree
  BY DEF AInv, Agree, ChannelsAgree
<1> QED BY <1>1, AgreeAlways, PTL

(* isdn2_unregister: under the same condition an attached device never     *)
(* refers to a card that has been unregistered.                            *)
THEOREM NoneStale == Orderly /\ Spec => []NoStaleCard
<1>1. AInv => NoStaleCard
  BY DEF AInv, Agree, NoStaleCard
<1> QED BY <1>1, AgreeAlways, PTL

LEMMA OthersStay ==
  ASSUME Sane(g), NEW e \in Devs, Moves(e), NEW d \in Devs,
         g.dev[d].status # "free", g'.dev[d].status = "free"
  PROVE  CloseDev(d) \/ Detach(d)
<1>1. g \in State /\ g.dev \in [Devs -> Device]
  BY Types DEF Sane
<1>2. CASE OpenDev(e)
  <2>1. g'.dev = [g.dev EXCEPT ![e] = [g.dev[e] EXCEPT !.open = TRUE]]
    BY <1>2, OpenDevIs
  <2>2. g'.dev[d].status = g.dev[d].status
    BY <1>1, <2>1 DEF Device
  <2> QED BY <2>2
<1>3. CASE CloseDev(e) /\ d # e
  <2>1. g'.dev = [g.dev EXCEPT ![e] = Free]
    BY <1>3, CloseDevIs
  <2> QED BY <1>1, <1>3, <2>1
<1>4. CASE Detach(e) /\ d # e
  <2>1. g'.dev = Loosened(g, e)
    BY <1>4, DetachIs
  <2> QED BY <1>1, <1>4, <2>1 DEF Loosened
<1>5. CASE AttachD(e) \/ \E b \in Bs : AttachB(e, b)
  <2>1. \/ g'.dev = g.dev
        \/ \E i \in Chans, kind \in {"B", "D"}, ref \in Refs : g'.dev = Taken(g, e, i, kind, ref)
    BY ZenonT(60), <1>5, AttachDIs, AttachBIs, BsIn
  <2>2. ASSUME NEW i \in Chans, NEW kind \in {"B", "D"}, NEW ref \in Refs,
               g'.dev = Taken(g, e, i, kind, ref)
        PROVE  FALSE
    <3>1. kind # "free"
      OBVIOUS
    <3>2. CASE d = e
      BY <1>1, <2>2, <3>1, <3>2, TakenIs
    <3>3. CASE d # e
      BY <1>1, <2>2, <3>3, TakenIs
    <3> QED BY <3>2, <3>3
  <2> QED BY <2>1, <2>2
<1> QED BY <1>2, <1>3, <1>4, <1>5 DEF Moves

(* Whatever happens: a device that loses its channel without having asked  *)
(* for it loses it to a line of which layer 3 is told, unless that notice  *)
(* found no memory or no room, or layer 3 does not know the card. *)
THEOREM LossTold == Spec => DetachTold
<1> DEFINE Told1(d) ==
      g.dev[d].status # "free" /\ g'.dev[d].status = "free"
        => Detach(d) \/ CloseDev(d) \/ g'.view = "down" \/ g'.lost
           \/ ~g'.master \/ ~Knows(g)
<1>1. ASSUME IInv, [Next]_vars, NEW d \in Devs PROVE Told1(d)
  <2>1. Sane(g)
    BY <1>1 DEF IInv, Kept
  <2>2. CASE Report
    BY <1>1, <2>2, ReportKept DEF Effect, Steady, Cleared
  <2>3. CASE Register \/ Unregister
    BY <1>1, <2>3, RegisterKept, UnregisterKept
  <2>4. CASE Calm
    BY <1>1, <2>4, CalmSteady DEF Steady
  <2>5. CASE \E e \in Devs : Moves(e)
    BY <2>1, <2>5, OthersStay
  <2> QED BY <1>1, <2>2, <2>3, <2>4, <2>5, Steps
<1>2. IInv /\ [Next]_vars => [\A d \in Devs : Told1(d)]_vars
  BY <1>1
<1> QED BY <1>2, KeptAlways, PTL DEF Spec, DetachTold
=============================================================================
