---------------------------- MODULE MCX75Entity -----------------------------
(***************************************************************************)
(* Small instances of X75Entity for TLC.  The frames are all I and S       *)
(* frames with every N(R), N(S) and P/F bit, and every U frame in the      *)
(* forms that x75_recv tells apart.                                        *)
(***************************************************************************)
EXTENDS X75Entity

F(t, cmd, pf, nr, ns, body) ==
  [t |-> t, cmd |-> cmd, pf |-> pf, nr |-> nr, ns |-> ns, body |-> body, bc |-> FALSE]

SomeData == CHOOSE d \in Data : TRUE

MCInformation ==
  {F("I", TRUE, pf, nr, ns, SomeData) : pf \in BOOLEAN, nr \in SeqNo, ns \in SeqNo}
    \cup {F("I", TRUE, TRUE, 0, 0, None)}
MCSupervisory ==
  {F(t, cmd, pf, nr, 0, None) :
     t \in {"RR", "RNR", "REJ"}, cmd \in BOOLEAN, pf \in BOOLEAN, nr \in SeqNo}
MCUnnumbered ==
  {F(t, TRUE, TRUE, 0, 0, None) : t \in {"SABM", "SABMX", "DISC", "UX"}}
    \cup {F(t, FALSE, pf, 0, 0, None) : t \in {"UA", "DM"}, pf \in BOOLEAN}
    \cup {F("FRMR", FALSE, FALSE, 0, 0, None), F("XID", TRUE, TRUE, 0, 0, None),
          F("UI", TRUE, FALSE, 0, 0, SomeData), F("SX", TRUE, TRUE, 0, 0, None)}
MCMalformed ==
  {F("I", FALSE, FALSE, 0, 0, SomeData), F("Half", TRUE, TRUE, 0, 0, None),
   F("SABM", TRUE, TRUE, 0, 0, SomeData), F("UI", TRUE, FALSE, 0, 0, None),
   [F("UI", TRUE, FALSE, 0, 0, SomeData) EXCEPT !.bc = TRUE],
   [F("SABM", TRUE, TRUE, 0, 0, None) EXCEPT !.bc = TRUE]}

AllFrames == MCInformation \cup MCSupervisory \cup MCUnnumbered \cup MCMalformed

(* A peer that never says DM without being asked, and sends no malformed,  *)
(* unnumbered information or unknown frames (AllFrames has them).          *)
PoliteFrames ==
  {f \in AllFrames \ MCMalformed :
     /\ f.t \notin {"SABMX", "UX", "XID", "SX", "UI"}
     /\ f # F("DM", FALSE, FALSE, 0, 0, None)}

(* The link takes everything, is full or fails; upstream is full or not. *)
MCEnvs ==
  {[room |-> 3, accept |-> 9, fail |-> "EIO", space |-> 2, recvok |-> TRUE],
   [room |-> 0, accept |-> 9, fail |-> "EIO", space |-> 0, recvok |-> TRUE],
   [room |-> 3, accept |-> 1, fail |-> "EAGAIN", space |-> 1, recvok |-> FALSE]}

Req(ind, isabort) == [ind |-> ind, isabort |-> isabort]
AllRequests ==
  {r \in Request : ~r.isabort} \cup {Req("PH_DEACTIVATE_IND", TRUE), Req("DL_RELEASE_CONF", TRUE)}

(* Without the two calls whose effect the upper layer is not told of. *)
PoliteRequests ==
  {r \in AllRequests : r.ind \notin {"DL_ESTABLISH_CONF", "PH_DEACTIVATE_IND"}}
NoDeactivate == {r \in AllRequests : r.ind # "PH_DEACTIVATE_IND"}
UnforcedRequests == {r \in AllRequests : r.ind # "DL_ESTABLISH_CONF"}

NoUI == {<<0, SomeData>>, <<0, None>>}
OnlyUI == {1, 3} \X (Data \cup {None})
=============================================================================
