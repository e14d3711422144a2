-------------------------------- MODULE Capi --------------------------------
(***************************************************************************)
(* src/isdn_3/capi.c: calls on a card that runs the whole call control     *)
(* itself and is spoken to with CAPI 1.1 messages.  capi.c keeps, for each *)
(* connection, the set of messages it still waits for (waitflags); a call  *)
(* moves on when the set is empty.  The connection is that of Conn (its    *)
(* timers, B channel, device and protocol stack) with the fields of        *)
(* capi.c.  The card is external: it answers a message when it gets it,    *)
(* and its answers and its own messages come up in order, later.           *)
(*                                                                         *)
(* The card has one D channel, and one connection record is in use at a    *)
(* time; calls the card still holds for an older record live on there.     *)
(* Memory is there.                                                        *)
(***************************************************************************)
EXTENDS Conn, Sequences, TLC, SequencesExt

CONSTANTS PLCIs,       \* the call references of the card
          Stacks,      \* the kinds of protocol stack: plain, ppp, other
          Channels,    \* the bits of talk->chanmask (there are 32)
          Happenings   \* which of the rarer steps may happen

(* bad: the card refuses something; early, slow: see below; reuse: it uses *)
(* the reference of a call whose record waits in state 99; hup: a profile  *)
(* delays the end of a call; down: the card's link fails; boot: a call is  *)
(* dialled meanwhile; pbx, eaz, trace: the configuration of the card. *)
Rare == {"bad", "early", "slow", "reuse", "hup", "down", "boot", "pbx", "eaz", "trace"}
ASSUME CapiAssumption ==
  PLCIs \subseteq Nat \ {0} /\ Channels \subseteq Nat \ {0} /\ Happenings \subseteq Rare
  /\ Stacks \subseteq {"plain", "ppp", "other"}

VARIABLE w    \* c: the connection; card, up: the card's calls and its messages;
              \* mask: chanmask; boot: tstate; linkup: IS_UP
vars == <<w>>

Waits == {"CONNECT_CONF", "PROTOCOLS", "B2_CONF", "B3_CONF", "ACTIVE_IND", "CB3_CONF",
          "B3ACTIVE_IND", "DB3_CONF", "DB3_IND", "DISC_CONF", "DISC_IND"}
CapiStates == {0, 2, 3, 4, 6, 7, 8, 9, 15, 20, 21, 22, 99}
Boots == {"booting", "opening", "register", "trace", "stuck", "listen", "running", "dead"}
Ids == 1 .. 2                    \* message ids of CONNECT_REQ that may be in flight

(* A connection with the fields that capi.c keeps behind it (p_data).      *)
Extended(r, s) == [f \in DOMAIN r \cup DOMAIN s |-> IF f \in DOMAIN r THEN r[f] ELSE s[f]]
NewCapi ==
  Extended(NewConn("CAPI"),
           [wf |-> {}, plci |-> 0, cid |-> 0, ncci |-> FALSE, ch |-> 0, modlist |-> "none",
            hl |-> FALSE, lock |-> FALSE])
Empty(c) ==
  [NewCapi EXCEPT !.open = c.open, !.sent = c.sent, !.att = c.att, !.told = c.told,
                  !.up = c.up]
NewRecord(c) == [Empty(c) EXCEPT !.ex = TRUE, !.told = "nothing"]

With(v, c) == [v EXCEPT !.c = c]
Say(v, msgs) == [v EXCEPT !.up = @ \o msgs]
Msg(t, n, ok) == [t |-> t, n |-> n, ok |-> ok, x |-> 0]
Told(v) == With(v, Terminated(v.c))            \* report_terminate
Reported(v, what) == [v EXCEPT !.c.told = what] \* report_conn, report_incoming
Est(v, est) == With(v, SetupPlain(v.c, est))   \* isdn3_setup_conn, state not 0

-----------------------------------------------------------------------------
(* The card, as capi.c uses it. *)
InCall(v, n) == n # 0 /\ v.card[n].st \in {"calling", "ringing", "accepted", "active"}
Idle(v) == {n \in PLCIs : v.card[n].st = "free"}
B3Gone(v, n) ==
  IF v.card[n].b3 = "no" THEN <<>> ELSE <<Msg("DB3_IND", n, TRUE)>>
CardClears(v, n, before) ==
  Say([v EXCEPT !.card[n] = [st |-> "gone", b3 |-> "no"]],
      before \o B3Gone(v, n) \o <<Msg("DISC_IND", n, TRUE)>>)

DisconnectReq(v, n) ==
  IF InCall(v, n) THEN CardClears(v, n, <<Msg("DISC_CONF", n, TRUE)>>)
  ELSE Say(v, <<Msg("DISC_CONF", n, FALSE)>>)
DisconnectB3Req(v, n) ==
  IF InCall(v, n) /\ v.card[n].b3 # "no"
  THEN Say([v EXCEPT !.card[n].b3 = "no"], <<Msg("DB3_CONF", n, TRUE), Msg("DB3_IND", n, TRUE)>>)
  ELSE Say(v, <<Msg("DB3_CONF", n, FALSE)>>)
Reject(v, n) == IF InCall(v, n) THEN CardClears(v, n, <<>>) ELSE v
Accept(v, n) == IF InCall(v, n) THEN [v EXCEPT !.card[n].st = "accepted"] ELSE v
SelectReqs(v, n) ==
  Say(v, <<Msg("B2_CONF", n, InCall(v, n)), Msg("B3_CONF", n, InCall(v, n))>>)
ConnectB3Req(v, n) ==
  IF InCall(v, n) THEN Say([v EXCEPT !.card[n].b3 = "open"], <<Msg("CB3_CONF", n, TRUE)>>)
  ELSE Say(v, <<Msg("CB3_CONF", n, FALSE)>>)
DisconnectResp(v, n) ==
  IF v.card[n].st = "gone" THEN [v EXCEPT !.card[n].st = "free"] ELSE v

-----------------------------------------------------------------------------
(* setstate: the timers, and the fake B channel. *)
Attempt == 1 .. 14
TimersFor(s) ==
  (IF s \in Attempt THEN {"TCONN"} ELSE {}) \cup (IF s = 6 THEN {"TALERT"} ELSE {})
  \cup (IF s = 99 THEN {"TFOO"} ELSE {})      \* TALERT stands for CAPI_TWAITLOCAL

FreeChannel(v) ==
  IF v.c.ch = 0 THEN v
  ELSE [v EXCEPT !.mask = @ \ {v.c.ch}, !.c.ch = 0, !.c.bchan = FALSE]
ClaimChannel(v, s) ==
  LET free == Channels \ v.mask
  IN  IF v.c.ch = 0 /\ free # {} /\ s <= 15
      THEN [v EXCEPT !.c.ch = CHOOSE k \in free : \A j \in free : k <= j] ELSE v
UseChannel(v, s) ==
  CASE v.c.ch = 0 -> v
    [] v.c.ch # 0 /\ v.c.bchan -> Est(v, "NO_CHANGE")
    [] v.c.ch # 0 /\ ~v.c.bchan ->
         Est([v EXCEPT !.c.bchan = TRUE, !.mask = @ \cup {v.c.ch}],
             IF s = 6 THEN "NO_CHANGE" ELSE "SETUP")

InChannel(v, s) == IF s \in {0, 99} THEN FreeChannel(v) ELSE UseChannel(ClaimChannel(v, s), s)
WithStack(v, s) ==
  IF s >= 20 \/ (s = 7 /\ "PROTOCOLS" \in v.c.wf)
  THEN Est(v, IF s = 7 THEN "SETUP" ELSE "DISCONNECT") ELSE v
CapiSetState(v, s) ==
  LET stop == TimersFor(v.c.st) \ TimersFor(s)
      start == TimersFor(s) \ TimersFor(v.c.st)
      d == With(v, [Timer(Untimer(v.c, stop), start) EXCEPT !.st = s])
  IN  IF v.c.st = s THEN v ELSE InChannel(WithStack(d, s), s)

-----------------------------------------------------------------------------
(* send_disconnect; its callers see the error when there is no PLCI yet. *)
NoPlci(v) == v.c.st = 2
ClearCall(v) ==                   \* DISCONNECT_REQ
  LET more == IF v.c.st \in {4, 9, 15} THEN {"DISC_CONF", "DISC_IND"} ELSE {"DISC_CONF"}
      d == DisconnectReq(v, v.c.plci)
  IN  CapiSetState([d EXCEPT !.c.wf = @ \cup more], IF v.c.st < 20 THEN 21 ELSE 22)
ClearB3(v) ==                     \* DISCONNECTB3_REQ
  CapiSetState([DisconnectB3Req(v, v.c.plci) EXCEPT !.c.wf = {"DB3_CONF", "DB3_IND"}], 20)
SendDisconnect(v, doL3) ==
  LET d == Told([v EXCEPT !.c.wf = {}])
  IN  CASE v.c.st = 0 \/ v.c.st >= 21 -> v
        [] v.c.st = 2 -> d
        [] v.c.st \in {6, 7, 8} -> Told(CapiSetState(Reject(d, v.c.plci), 99))
        [] v.c.st \in {3, 4, 9, 15, 20} -> ClearCall(IF v.c.st = 15 /\ doL3 THEN ClearB3(d) ELSE d)

(* The answer to a message that cannot be used, where send_disconnect does *)
(* not know the call. *)
Bury(v, noplci, s) == IF noplci THEN CapiSetState(v, s) ELSE v
Drop(v) == Bury(SendDisconnect(v, FALSE), NoPlci(v), 99)

-----------------------------------------------------------------------------
(* isdn3_killconn with capi.c's killconn; no record is freed in between. *)
Gone(v) == With(v, Empty(v.c))
Freed(v) ==
  IF v.c.lock THEN [v EXCEPT !.c.mapped = @ /\ ~(v.c.minor /\ v.c.open # "no")] ELSE Gone(v)
CapiOver(v, hard) == IF hard \/ v.c.st = 0 THEN Freed([v EXCEPT !.c.st = 0]) ELSE v
CapiTearDown(v, hard) ==
  LET c == IF v.c.minor /\ v.c.open # "no" /\ v.c.mapped THEN SetupPlain(v.c, "DISCONNECT")
           ELSE v.c
  IN  CapiOver(SendDisconnect(With(v, IF hard THEN Untimer(c, Timers) ELSE c), ~hard), hard)
CapiKill(v, force) ==
  LET a == With(v, StopWatch(v.c))
      b == [a EXCEPT !.c.delaying = TRUE]
      will == [SetupPlain(b.c, "WILL_DISCONNECT") EXCEPT !.tend = TRUE, !.hup = FALSE]
  IN  CASE force = 0 /\ v.c.delaying -> a
        [] force = 0 /\ ~v.c.delaying /\ v.c.hup /\ SentOf(v.c) >= 2 /\ v.c.proto ->
             IF v.c.tend THEN b ELSE With(b, will)
        [] force # 0 /\ v.c.tend -> b
        [] OTHER -> CapiTearDown([b EXCEPT !.c.tend = FALSE], force # 0)
CapiKillIfOver(v) == IF v.c.st = 0 THEN CapiKill(v, 0) ELSE v
CapiSetup(v, est) == CapiKillIfOver(Est(v, est))   \* isdn3_setup_conn as isdn_3.c calls it
CapiCheckTermMute(v) == IF v.c.st = 0 THEN CapiKill(v, 1) ELSE v    \* mutant: untold
CapiCheckTermTells(v) == IF v.c.st = 0 THEN Told(v) ELSE v          \* mutant: not freed
CapiCheckTerm(v) == IF v.c.st = 0 THEN CapiKill(Told(v), 1) ELSE v

-----------------------------------------------------------------------------
(* send_setup, and after_active: the next message when all have come. *)
SendSetup(v) ==
  LET d == [SelectReqs(v, v.c.plci) EXCEPT !.c.wf = {"B2_CONF", "B3_CONF"}]
  IN  CapiSetState(d, IF v.c.st = 2 THEN 3 ELSE IF v.c.st = 7 THEN 8 ELSE v.c.st)

OpenB3(v) ==
  CapiSetState([ConnectB3Req(v, v.c.plci) EXCEPT !.c.wf = {"CB3_CONF", "B3ACTIVE_IND"}], 4)
AcceptCall(v) ==
  LET d == ConnectB3Req(Accept(v, v.c.plci), v.c.plci)
  IN  CapiSetState([d EXCEPT !.c.wf = {"CB3_CONF", "ACTIVE_IND", "B3ACTIVE_IND"}], 9)
Stands(v) == IF v.c.wf # {} THEN v ELSE Est(Reported(CapiSetState(v, 15), "conn"), "CONNECT")
Join(v, assoc) ==
  IF assoc /\ ~v.c.minor THEN v ELSE Stands(IF assoc THEN Est(v, "LISTEN") ELSE v)
AfterActive(v, assoc) ==
  LET done == v.c.wf = {}
  IN  CASE v.c.st = 3 -> IF done THEN OpenB3(v) ELSE v
        [] v.c.st = 8 /\ ~done -> v
        [] v.c.st \in {4, 9} \/ (v.c.st = 8 /\ done) ->
             Join(IF v.c.st = 8 THEN AcceptCall(v) ELSE v, assoc)
        [] OTHER -> Drop(v)

-----------------------------------------------------------------------------
(* recv, one operator per message.  capi_findconn and capi_findconn3 do    *)
(* not see records in state 0. *)
Finds(v, n) == v.c.ex /\ v.c.st # 0 /\ v.c.plci = n
Finds3(v, n) == Finds(v, n) /\ v.c.ncci
Slam(v, n) == IF n = 0 THEN v ELSE DisconnectReq(v, n)

Got(v, t) == [v EXCEPT !.c.wf = @ \ {t}]
Expected(v, m) == m.ok /\ m.t \in v.c.wf

DisconnectB3Conf(v, m) ==
  IF ~Finds3(v, m.n) \/ m.t \notin v.c.wf THEN v
  ELSE LET d == Got(v, m.t) IN IF d.c.wf = {} THEN CapiSetState(d, 0) ELSE d
DisconnectB3Ind(v, m) ==
  LET d == Got(v, m.t)
      e == IF d.c.wf # {} THEN d
           ELSE IF v.c.st = 20 THEN Told(SendDisconnect(d, FALSE))
           ELSE Told(CapiSetState(d, 99))
      f == CASE Expected(v, m) -> e
             [] ~Expected(v, m) /\ (~m.ok \/ v.c.st >= 20) ->
                  Told(SendDisconnect(Est(v, "DISCONNECT"), FALSE))
             [] OTHER -> v
  IN  IF Finds3(v, m.n) THEN SendDisconnect(f, FALSE) ELSE v
DisconnectInd(v, m) ==
  LET d == Got(v, m.t)
      e == CASE m.t \in v.c.wf -> IF d.c.wf = {} THEN Told(CapiSetState(d, 99)) ELSE d
             [] m.t \notin v.c.wf /\ v.c.st # 99 /\ (~m.ok \/ v.c.st >= 21) ->
                  Told(Est(CapiSetState(d, 99), "DISCONNECT"))
             [] m.t \notin v.c.wf /\ v.c.st # 99 /\ m.ok /\ v.c.st < 21 ->
                  Told(CapiSetState(v, 99))
             [] OTHER -> v
  IN  IF Finds(v, m.n) THEN DisconnectResp(e, m.n) ELSE v
DisconnectConf(v, m) ==
  LET d == Got(v, m.t)
  IN  CASE ~Finds(v, m.n) -> v
        [] Finds(v, m.n) /\ (m.ok \/ m.t \in v.c.wf) ->
             IF d.c.wf = {} THEN Told(CapiSetState(d, 99)) ELSE d
        [] OTHER -> Told(CapiSetState(Est(v, "DISCONNECT"), 0))

(* A call that was dropped meanwhile is refused by its message id. *)
ConnectConfKeeps(v, m) ==         \* mutant: an unknown answer is ignored
  IF ~(v.c.ex /\ v.c.st # 0 /\ v.c.cid = m.x) THEN v
  ELSE LET d == [v EXCEPT !.c.plci = m.n] IN
       IF Expected(d, m) THEN Got(d, m.t) ELSE Told(Drop(Est(d, "DISCONNECT")))
ConnectConf(v, m) ==
  LET d == [v EXCEPT !.c.plci = m.n]
      e == Got(d, m.t)
      s == SendSetup(e)
  IN  CASE m.ok /\ Finds(v, m.n) -> Told(CapiSetState(v, 0))
        [] ~(m.ok /\ Finds(v, m.n)) /\ ~(v.c.ex /\ v.c.st # 0 /\ v.c.cid = m.x) -> Slam(v, m.n)
        [] OTHER ->
             IF ~Expected(d, m) THEN Told(Drop(Est(d, "DISCONNECT")))
             ELSE IF e.c.wf # {} THEN e
             ELSE IF e.c.modlist = "none" THEN Drop(e)
             ELSE [s EXCEPT !.c.wf = @ \cup {"ACTIVE_IND"}]
(* next, drop: what after_active and a message that fails make of the call. *)
SelectConf(v, m, next, drop) ==
  CASE ~Finds(v, m.n) -> Slam(v, m.n)
    [] Finds(v, m.n) /\ Expected(v, m) -> next
    [] Finds(v, m.n) /\ ~Expected(v, m) ->
         IF m.t = "B3_CONF" /\ v.c.st >= 15 THEN v ELSE Told(drop)
ConnectActiveInd(v, m, next, drop) ==
  CASE ~Finds(v, m.n) -> Slam(v, m.n)
    [] Finds(v, m.n) /\ Expected(v, m) -> next
    [] Finds(v, m.n) /\ ~Expected(v, m) -> drop
ConnectB3Conf(v, m, next, drop) == ConnectActiveInd(v, m, next, drop)
ConnectB3ActiveInd(v, m, next, drop) ==
  CASE ~Finds3(v, m.n) -> v
    [] Finds3(v, m.n) /\ Expected(v, m) -> next
    [] Finds3(v, m.n) /\ ~Expected(v, m) -> drop
SetupMessage(v, m, next, drop) ==
  CASE m.t \in {"B2_CONF", "B3_CONF"} -> SelectConf(v, m, next, drop)
    [] m.t = "ACTIVE_IND" -> ConnectActiveInd(v, m, next, drop)
    [] m.t = "CB3_CONF" -> ConnectB3Conf(v, m, next, drop)
    [] m.t = "B3ACTIVE_IND" -> ConnectB3ActiveInd(v, m, next, drop)

(* A new call; x = 1: the card names the called number (the EAZ). *)
ConnectInd(v, m) ==
  LET d == With(v, [NewRecord(v.c) EXCEPT !.plci = m.n])
  IN  CASE Finds(v, m.n) -> v
        [] ~Finds(v, m.n) /\ m.x = 1 -> Reported(CapiSetState(d, 7), "incoming")
        [] ~Finds(v, m.n) /\ m.x = 0 ->
             (IF "pbx" \in Happenings THEN CapiSetState(d, 6) ELSE Reported(CapiSetState(d, 6), "incoming"))
(* More digits of the called number: checknrlen. *)
InfoInd(v, m) ==
  IF ~(v.c.ex /\ v.c.plci = m.n) THEN Slam(v, m.n)
  ELSE IF v.c.st = 6 /\ "pbx" \in Happenings THEN Reported(v, "incoming") ELSE v

(* Start of the card: API_OPEN, REGISTER, TRACEREC_ON, EAZMAPPING, LISTEN; *)
(* the EAZMAPPINGs are sent again after the trace is on. *)
ApiOpenConf(v, m) ==
  IF v.boot # "opening" THEN v
  ELSE IF ~m.ok THEN [v EXCEPT !.boot = "dead"]
  ELSE Say([v EXCEPT !.boot = "register"], <<Msg("REGISTER_CONF", 0, TRUE)>>)
Mapping == IF "eaz" \in Happenings THEN <<Msg("EAZ_CONF", 0, TRUE)>> ELSE <<>>
Listen(v) == Say([v EXCEPT !.boot = "listen"], Mapping \o <<Msg("LISTEN_CONF", 0, TRUE)>>)
RegisterConf(v, m) ==
  CASE v.boot # "register" -> v
    [] v.boot = "register" /\ "trace" \in Happenings ->
         Say([v EXCEPT !.boot = "trace"], Mapping \o <<Msg("TRACE_CONF", 0, TRUE)>>)
    [] v.boot = "register" /\ "trace" \notin Happenings -> Listen(v)
TraceConf(v, m) == IF v.boot = "trace" THEN Listen(v) ELSE v
EazConf(v, m) ==                  \* in STATE_DO_TRACE it spoils the state
  [v EXCEPT !.boot = IF @ = "listen" THEN "running" ELSE IF @ = "trace" THEN "stuck" ELSE @]
ListenConf(v, m) ==
  IF ~m.ok THEN [v EXCEPT !.boot = "dead"]
  ELSE [v EXCEPT !.boot = IF @ = "listen" THEN "running" ELSE @]

Recv(v, m) ==
  CASE v.boot = "dead" -> v
    [] v.boot # "dead" /\ m.t = "DB3_CONF" -> DisconnectB3Conf(v, m)
    [] v.boot # "dead" /\ m.t = "DB3_IND" -> DisconnectB3Ind(v, m)
    [] v.boot # "dead" /\ m.t = "DISC_IND" -> DisconnectInd(v, m)
    [] v.boot # "dead" /\ m.t = "DISC_CONF" -> DisconnectConf(v, m)
    [] v.boot # "dead" /\ m.t = "CONNECT_CONF" -> ConnectConf(v, m)
    [] v.boot # "dead" /\ m.t \in {"B2_CONF", "B3_CONF", "ACTIVE_IND", "CB3_CONF", "B3ACTIVE_IND"} ->
         LET assoc == m.t = "CB3_CONF"
         IN  SetupMessage(v, m, AfterActive([Got(v, m.t) EXCEPT !.c.ncci = @ \/ assoc], assoc), Drop(v))
    [] v.boot # "dead" /\ m.t = "CONNECT_IND" -> ConnectInd(v, m)
    [] v.boot # "dead" /\ m.t = "INFO_IND" -> InfoInd(v, m)
    [] v.boot # "dead" /\ m.t = "OPEN_CONF" -> ApiOpenConf(v, m)
    [] v.boot # "dead" /\ m.t = "REGISTER_CONF" -> RegisterConf(v, m)
    [] v.boot # "dead" /\ m.t = "TRACE_CONF" -> TraceConf(v, m)
    [] v.boot # "dead" /\ m.t = "EAZ_CONF" -> EazConf(v, m)
    [] v.boot # "dead" /\ m.t = "LISTEN_CONF" -> ListenConf(v, m)

(* A refusal may take the place of these messages. *)
Refusable == {"B2_CONF", "B3_CONF", "DISC_IND", "DB3_IND", "OPEN_CONF", "LISTEN_CONF"}
Deliver ==
  /\ w.up # <<>>
  /\ \E bad \in (IF "bad" \in Happenings /\ Head(w.up).t \in Refusable THEN BOOLEAN ELSE {FALSE}) :
       w' = Recv([w EXCEPT !.up = Tail(@)], [Head(w.up) EXCEPT !.ok = @ /\ ~bad])

-----------------------------------------------------------------------------
(* The card's own steps; the other side answers, calls, or hangs up. *)
(* "early": in state 2 the call is given up, or answered, before both the  *)
(* PLCI and the protocols are there.  send_disconnect then says nothing to *)
(* the card, which keeps the call. *)
Soon == w.c.st = 2 => "early" \in Happenings
Pending(t) == \E i \in DOMAIN w.up : w.up[i].t = t
Answered ==
  \E n \in PLCIs : /\ w.card[n].st \in {"calling", "accepted"} /\ Soon
                   /\ w' = Say([w EXCEPT !.card[n].st = "active"], <<Msg("ACTIVE_IND", n, TRUE)>>)
B3Active ==
  \E n \in PLCIs : /\ w.card[n] = [st |-> "active", b3 |-> "open"]
                   /\ w' = Say([w EXCEPT !.card[n].b3 = "active"], <<Msg("B3ACTIVE_IND", n, TRUE)>>)
RemoteClears == \E n \in PLCIs : InCall(w, n) /\ w' = CardClears(w, n, <<>>)
RemoteCalls ==
  \E n \in Idle(w), eaz \in 0 .. 1 :
    /\ w.boot = "running" /\ ~Pending("CONNECT_IND")
    /\ w.c.ex => "reuse" \in Happenings /\ w.c.st = 99 /\ w.c.plci = n
    /\ w' = Say([w EXCEPT !.card[n].st = "ringing"],
                <<[Msg("CONNECT_IND", n, TRUE) EXCEPT !.x = eaz]>>)
MoreDigits ==
  \E n \in PLCIs : /\ "pbx" \in Happenings /\ w.card[n].st = "ringing" /\ ~Pending("INFO_IND")
                   /\ w' = Say(w, <<Msg("INFO_IND", n, TRUE)>>)

-----------------------------------------------------------------------------
(* chstate. *)
Calm == [n \in PLCIs |-> [st |-> "free", b3 |-> "no"]]
LinkUp ==
  /\ ~w.linkup
  /\ LET d == [With(w, TimerUp(w.c)) EXCEPT !.linkup = TRUE, !.c.up = TRUE]
     IN  w' = IF w.boot # "booting" THEN d
              ELSE Say([d EXCEPT !.mask = {}, !.boot = "opening"], <<Msg("OPEN_CONF", 0, TRUE)>>)
LinkDown ==
  /\ w.linkup /\ "down" \in Happenings
  /\ LET d == [w EXCEPT !.linkup = FALSE, !.c.up = FALSE, !.boot = "booting", !.card = Calm,
                        !.up = <<>>]
     IN  w' = IF w.c.ex THEN CapiCheckTerm(CapiSetState(d, 0)) ELSE d

(* What the card has sent is read within the ten seconds of TFOO, unless   *)
(* it is "slow". *)
TimerExpires ==
  \E t \in w.c.armed :
    /\ Soon
    /\ t = "TFOO" /\ w.up # <<>> => "slow" \in Happenings
    /\ LET d == With(w, Untimer(w.c, {t}))
       IN  w' = CASE t = "TCONN" -> SendDisconnect(d, FALSE)
                 [] t = "TALERT" -> Reported(CapiSetState(d, 7), "incoming")
                 [] t = "TFOO" -> CapiKill(CapiSetState(d, 0), 1)

ConnTimeout == w.c.tconn /\ Soon /\ w' = CapiKill([w EXCEPT !.c.tconn = FALSE], 0)
DelayTimeout == w.c.tdelay /\ w' = CapiSetup([w EXCEPT !.c.tdelay = FALSE], "NO_CHANGE")
DiscTimeout == w.c.tend /\ w' = CapiKill([w EXCEPT !.c.tend = FALSE], 3)

-----------------------------------------------------------------------------
(* Commands of layer 4, sendcmd behind scan_at. *)
Bound(v, minor) ==
  [v EXCEPT !.c.minor = @ \/ minor, !.c.mapped = @ \/ v.c.minor \/ minor]

(* n = 0: the card refuses the call. *)
SendDialout(v, n, id) ==
  LET conf == [Msg("CONNECT_CONF", n, n # 0) EXCEPT !.x = id]
      d == Say(IF n = 0 THEN v ELSE [v EXCEPT !.card[n].st = "calling"], <<conf>>)
  IN  CapiSetState([d EXCEPT !.c.cid = id, !.c.wf = {"CONNECT_CONF", "PROTOCOLS"}], 2)
InFlight(id) == \E i \in DOMAIN w.up : w.up[i].t = "CONNECT_CONF" /\ w.up[i].x = id
Dial ==
  \E n \in Idle(w) \cup {0} :
    /\ ~w.c.ex /\ ~Pending("CONNECT_IND")
    /\ n = 0 => "bad" \in Happenings \/ Idle(w) = {}
    /\ LET new == With(w, [NewRecord(w.c) EXCEPT !.told = "dialled"])
           d == Est(Bound(new, TRUE), "NO_CHANGE")
           id == CHOOSE i \in Ids : ~InFlight(i)
       IN  /\ \E i \in Ids : ~InFlight(i)
           /\ IF w.boot = "running"
              THEN w' = Est(SendDialout(Est([d EXCEPT !.c.want = TRUE], "SETUP"), n, id),
                            "NO_CHANGE")
              ELSE "boot" \in Happenings /\ w.boot # "dead" /\ w' = [d EXCEPT !.c.lock = TRUE]
AnswerCall ==
  /\ w.c.ex /\ w.boot = "running" /\ (~w.c.minor => w.c.open # "no")
  /\ LET d == Est(Bound(w, TRUE), "NO_CHANGE")
         e == [d EXCEPT !.c.want = TRUE, !.c.wf = @ \cup {"PROTOCOLS"}]
     IN  w' = IF w.c.st \in {6, 7} THEN Est(CapiSetState(e, 7), "SETUP") ELSE d
Off ==
  \E force \in BOOLEAN :
    /\ w.c.ex /\ ~w.c.lock /\ (w.c.plci = 0 \/ Soon)
    /\ LET d == Est([Est(Bound(w, FALSE), "NO_CHANGE") EXCEPT !.c.want = FALSE], "DISCONNECT")
       IN  w' = CapiCheckTerm(Bury(SendDisconnect(d, ~force), NoPlci(d), 0))

(* setup_complete: frame, trans and transalaw are complete at once, with   *)
(* ppp the module of that name must have come; others never are. *)
SetupComplete(c) == c.modlist = "plain" \/ (c.modlist = "ppp" /\ c.hl)

(* A message of the protocol stack passes proto: the module list, which    *)
(* layer 4 sends once, or one of its modules. *)
ProtoMessage ==
  /\ w.c.ex /\ w.c.protosent
  /\ \E d \in IF w.c.modlist = "none" THEN {[w EXCEPT !.c.modlist = k] : k \in Stacks}
              ELSE {[w EXCEPT !.c.hl = (w.c.modlist = "ppp")]} :
       LET e == Got(d, "PROTOCOLS")
       IN  w' = IF ~SetupComplete(d.c) \/ "PROTOCOLS" \notin w.c.wf THEN d
                ELSE IF e.c.wf = {} THEN SendSetup(e) ELSE e
CardSetup ==
  \E hup \in (IF "hup" \in Happenings THEN BOOLEAN ELSE {FALSE}) :
    /\ w.c.ex /\ w.c.protosent /\ ~w.c.proto
    /\ w' = CapiSetup([w EXCEPT !.c.proto = TRUE, !.c.hup = hup], "NO_CHANGE")

(* Messages of layer 2, isdn3_rsrv. *)
Opened ==
  /\ w.c.open # "open"
  /\ LET d == [w EXCEPT !.c.open = "open"]
     IN  w' = IF w.c.ex /\ w.c.minor /\ w.c.mapped THEN CapiSetup(d, "NO_CHANGE") ELSE d
Closed ==
  /\ w.c.open # "no" /\ Soon
  /\ LET d == [w EXCEPT !.c.open = "no", !.c.sent = 0, !.c.att = 0]
     IN  w' = IF w.c.ex /\ w.c.minor THEN CapiKill(d, 0) ELSE d
Found == w.c.ex /\ w.c.minor /\ w.c.mapped /\ w.c.open # "no"
DetachedByLayer2 ==
  /\ Found /\ w.c.att > 0 /\ Soon
  /\ w' = CapiKill([w EXCEPT !.c.att = 0], 0)
StackDisconnects == Found /\ w.c.sent # 0 /\ w' = CapiSetup(w, "DISCONNECT")

Init ==
  w = [c |-> NewCapi, card |-> Calm, up |-> <<>>, mask |-> {}, boot |-> "booting",
       linkup |-> FALSE]
Next ==
  \/ Deliver \/ TimerExpires
  \/ Answered \/ B3Active \/ RemoteClears \/ RemoteCalls \/ MoreDigits
  \/ LinkUp \/ LinkDown \/ ConnTimeout \/ DelayTimeout \/ DiscTimeout
  \/ Dial \/ AnswerCall \/ Off \/ ProtoMessage \/ CardSetup
  \/ Opened \/ Closed \/ DetachedByLayer2 \/ StackDisconnects
Spec == Init /\ [][Next]_vars
Fairness ==
  WF_vars(Deliver) /\ WF_vars(TimerExpires) /\ WF_vars(DiscTimeout) /\ WF_vars(LinkUp)
FairSpec == Spec /\ Fairness

-----------------------------------------------------------------------------
(* The record is well-formed; a call has a channel exactly while its bit   *)
(* of the mask is set, and only a call that is alive waits for messages.   *)
TypeOK ==
  /\ w.c.st \in CapiStates /\ w.c.wf \subseteq Waits /\ w.c.plci \in PLCIs \cup {0}
  /\ w.boot \in Boots /\ w.mask \subseteq Channels /\ w.linkup \in BOOLEAN
  /\ w.c.bchan = (w.c.ch # 0)
  /\ w.c.wf # {} => w.c.ex

(* The timers that run are those of the state. *)
TimersMatch ==
  w.c.ex => /\ w.c.run \subseteq TimersFor(w.c.st)
            /\ TimersFor(w.c.st) \ {"TCONN", "TALERT"} \subseteq w.c.run
            /\ w.c.armed = IF w.linkup THEN w.c.run ELSE {}

(* The card has a call of which capi.c has no record and of which no       *)
(* message is on its way that would tell it. *)
Known(v, n) ==
  \/ v.c.ex /\ v.c.plci = n /\ v.c.st \notin {0, 99}
  \/ \E i \in DOMAIN v.up : v.up[i].n = n
Orphans(v) == {n \in PLCIs : InCall(v, n) /\ ~Known(v, n)}

(* The call is given up in state 2, where send_disconnect takes it that    *)
(* there is no reference yet. *)
GivenUpEarly(n) ==
  /\ w.c.ex /\ w.c.st = 2
  /\ w.c.plci = n \/ (w.up # <<>> /\ Head(w.up).t = "CONNECT_CONF" /\ Head(w.up).n = n)
(* A record that is past its end stands in the way of the card's messages: *)
(* that of a call given up so, or one whose reference the card uses again. *)
Shadowed(n) ==
  /\ w.c.ex /\ w.c.st \in {0, 99} /\ w.c.plci = n
  /\ w.card[n].st = "ringing" \/ (w.c.cid # 0 /\ w.card[n].b3 = "no")

(* No step makes capi.c forget a call that the card still has, whichever   *)
(* path frees the record or gives up in the middle of a negotiation, and   *)
(* whatever crosses - except for the two holes named above. *)
NoOtherOrphan ==
  [][w'.boot = "running" =>
       \A n \in Orphans(w') \ Orphans(w) : GivenUpEarly(n) \/ Shadowed(n)]_vars

(* A record in state 0, which no message finds, is freed in the same step, *)
(* unless a DIAL or ANSWER on a starting card has left it locked. *)
NoZombie == w.c.ex /\ ~w.c.lock => w.c.st # 0 \/ w.c.tend

(* Every path that frees a record gives back the bit of its channel, of    *)
(* which there are 32 - but not the timer behind a delayed disconnection.  *)
ChannelReturned ==
  [][w.c.ex /\ ~w'.c.ex /\ ~DiscTimeout => w.c.ch \notin w'.mask]_vars

(* Layer 4 believes a call connected only while the card has it active on  *)
(* both levels, or the news that it ended is on its way. *)
ConnMeansActive ==
  w.c.ex /\ w.c.st = 15 =>
    \/ w.card[w.c.plci] = [st |-> "active", b3 |-> "active"]
    \/ \E i \in DOMAIN w.up : w.up[i].n = w.c.plci /\ w.up[i].t \in {"DB3_IND", "DISC_IND"}

(* Layer 4 has been told of the end of every call that is freed. *)
EndTold ==
  [][w.c.ex /\ ~w'.c.ex /\ ~DiscTimeout => w'.c.told \in {"disconnecting", "disconnect"}]_vars

(* A call that is set up or cleared does not stay so for ever: the card    *)
(* answers, or a timer gives up. *)
Underway == w.c.ex /\ w.c.st \notin {0, 15}
UnderwayEnds == Underway ~> ~Underway

(* The comment on state 2: an outgoing call waits for CONNECTACTIVE_IND.   *)
(* So that message never makes capi.c drop a call that is being set up.    *)
ActiveExpected ==
  [][Deliver /\ Head(w.up).t = "ACTIVE_IND" /\ Finds(w, Head(w.up).n) /\ w.c.st \in {3, 4}
     => w'.c.st # 21]_vars
=============================================================================
