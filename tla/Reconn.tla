------------------------------- MODULE Reconn -------------------------------
(***************************************************************************)
(* The module "reconnect" on the stream of a permanent connection,         *)
(* src/reconnect/reconnect.c: it hides from the program that the call goes *)
(* up and down, and asks for a call when there are data to be sent.        *)
(*                                                                         *)
(* The record is the module's; "data" is whether its write queue holds     *)
(* data, "sched" whether the queue is scheduled, and "up" collects the     *)
(* protocol messages it sends down the stream, to layer 3.                 *)
(*                                                                         *)
(* The modules above confirm a CONNECTED (proto.c) or not (str_if).  The   *)
(* confirmation is expedited, so it is back before any data are served;    *)
(* only after Direction does it find a call still wanted.  PROTO_INTERRUPT *)
(* from above, which no module of the repository sends, is left out.       *)
(***************************************************************************)
EXTENDS Sequences

NoReconn ==
  [on |-> FALSE, inited |-> FALSE, wanted |-> FALSE, disabled |-> FALSE, low |-> "off",
   data |-> FALSE, sched |-> FALSE, up |-> <<>>]
Opened == [NoReconn EXCEPT !.on = TRUE, !.inited = TRUE]

Tell(r, id) == [r EXCEPT !.up = Append(@, id)]
Enabled(r) ==
  [r EXCEPT !.disabled = FALSE, !.inited = FALSE, !.wanted = FALSE, !.sched = @ \/ r.data]

(* reconn_proto: messages that come up from layer 3, and HAS_CONNECTED,    *)
(* which comes down.                                                       *)
HasConnected(r) == IF r.low # "on" /\ r.wanted THEN Tell(r, "WANT_CONNECTED") ELSE r
Direction(r, answered) ==
  LET e == [r EXCEPT !.low = "off"]
  IN  IF ~r.inited THEN r ELSE IF answered THEN HasConnected(e) ELSE e
Listen(r) == Tell([r EXCEPT !.low = "off"], "HAS_LISTEN")
Enable(r) == Tell(Enabled(r), "HAS_ENABLE")
Disable(r) ==
  Tell([r EXCEPT !.disabled = TRUE, !.inited = FALSE, !.wanted = FALSE, !.data = FALSE],
       "HAS_DISABLE")
Connected(r) == Tell([Enabled(r) EXCEPT !.low = "on"], "HAS_CONNECTED")
Disconnect(r) ==
  LET e == Tell([r EXCEPT !.low = "off"], "HAS_DISCONNECT")
  IN  IF r.wanted THEN Tell(e, "WANT_CONNECTED") ELSE e
WillDisconnect(r) == Tell([r EXCEPT !.low = "going_down"], "PROTO_DISCONNECT")

(* reconn_wput and reconn_wsrv: data of the program, and M_FLUSH. *)
Flush(r) == [r EXCEPT !.data = FALSE]
Data(r) == [r EXCEPT !.data = TRUE, !.sched = TRUE]
Serve(r) ==
  LET e == [r EXCEPT !.sched = FALSE]
  IN  IF r.disabled THEN [e EXCEPT !.data = FALSE]
      ELSE IF r.low = "on" THEN [e EXCEPT !.data = FALSE]
      ELSE IF r.low = "going_down" THEN [e EXCEPT !.wanted = TRUE]
      ELSE IF r.wanted THEN e
      ELSE Tell([e EXCEPT !.wanted = TRUE], "WANT_CONNECTED")
=============================================================================
