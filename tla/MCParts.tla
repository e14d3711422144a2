------------------------------ MODULE MCParts ------------------------------
(***************************************************************************)
(* The parts of the system that need no other to be understood, each taken *)
(* alone: how the daemon finds a way to connect (Match), the messages and  *)
(* queues of the STREAMS framework (Messages), the arguments of a message  *)
(* (Params) and the callouts of the user-level kernel (Callouts).  They    *)
(* share no state, and "part" says which of them moves.                    *)
(***************************************************************************)
EXTENDS Integers, Sequences, TLC

CONSTANTS None, BUSY, Slots

VARIABLES part,
          conns, numidx, cardidx, isup, theclass,    \* Match
          memory, held, queue, said, line, made,     \* Messages
          size, text, stage, wrote, got,             \* Params
          list, age, wait, phase, due, sooner        \* Callouts

-----------------------------------------------------------------------------
(* Two cards, one with one channel and one with two; site a has two        *)
(* numbers and a backup, site b an extension and may be called only at     *)
(* times, and others may call in.                                          *)
Nr(pre, base, ext) == [pre |-> pre, base |-> base, open |-> TRUE, ext |-> ext]
Cards == <<"k1", "k2">>
NrBchan == [k \in {"k1", "k2"} |-> IF k = "k1" THEN 1 ELSE 2]
Sites == {"a", "b", "unknown"}
Keys == {"x", "y"}
Every == [site |-> Sites, card |-> {"k1", "k2"}, class |-> Keys]

Pre == {"=", "-"}
DPs == <<[card |-> {"k1", "k2"}, pre |-> Pre]>>
Dl(k, base) == [site |-> Sites, card |-> {k}, class |-> Keys, nr |-> Nr(Pre, base, {})]
DLs == <<Dl("k1", "91"), Dl("k2", "91")>>

D(site, class, mods, nr, level) ==
  [Every EXCEPT !.site = {site}, !.class = class] @@ [mods |-> mods, nr |-> nr, level |-> level]
Ds == <<D("a", {"x"}, {}, Nr(Pre, "11", None), 0),
          D("b", {"y"}, {}, Nr({"="}, "20", {"1", "2"}), 0),
          D("a", {"x", "y"}, {}, Nr({"-"}, "12", None), 0),
          D("a", {"x"}, {"o"}, Nr(Pre, "13", None), 1),
          D("unknown", Keys, {"i"}, Nr(Pre, "*", {}), 0)>>

P(site, mods, num, args) ==
  [Every EXCEPT !.site = site] @@ [mods |-> mods, num |-> num, args |-> args]
A(id, val) == [id |-> id, val |-> val]
Suffix(x) == [rest |-> {x}]
Ps == <<P({"a", "b"}, {}, 1, <<A("sv", 7), A("lr", Suffix("5"))>>),
          P({"b"}, {"R"}, 0, <<A("sv", 8)>>),
          P({"b"}, {"M"}, 0, <<A("om", 0), A("nr", Suffix("1"))>>),
          P({"b"}, {"i", "X"}, 0, <<A("vr", 0), A("fr", 0)>>),
          P({"unknown"}, {"X"}, 0, <<A("vl", 0), A("sv", 7)>>)>>

CLs == <<[Every EXCEPT !.site = {"a", "b"}] @@ [num |-> 1]>>

SiteOf == [p \in {"pa", "pb"} |-> IF p = "pa" THEN "a" ELSE "b"]
CardOf == [p \in {"pa", "pb"} |-> {"k1", "k2"}]
Callers == {[nr |-> Nr({"-"}, "12", None), in |-> {A("sv", 7)}],
              [nr |-> Nr({"="}, "20", {"2"}), in |-> {A("sv", 7)}],
              [nr |-> None, in |-> {}]}
LNr == Nr(Pre, "91", {"5"})
Times == {{"x"}, {"x", "y"}}
Programs == {"pa"}
Calls == {"i1"}
Loose == {"k1"}

(* Three headers and blocks, two messages held, three made. *)
Headers == 1 .. 3
Blocks == 1 .. 3
SlotsAlike == Permutations(Slots)    \* the variables of a module are interchangeable
Texts == {<<1, 2>>}
Spare == {0}
Lefts == {2, 9}
Pulls == {-1, 0, 1, 2}
MaxText == 4
MaxMade == 3

(* Messages of every length up to one that holds all its arguments. *)
Arg(id, put, val) == [id |-> id, put |-> put, val |-> val]
Sizes == {12, 14, 17, 20, 40}
Header == <<"h", "h">>
Module == <<"m", "d">>
Error == <<"e", "r">>
Errors == {0, 5, 111}
Names == {<<"x", "7">>, <<"x", "7", "5">>}
Args == {Arg(<<"n", "r">>, "s", <<"1", "2">>), Arg(<<"n", "r">>, "s", <<>>),
         Arg(<<"c", "t">>, "i", 0), Arg(<<"c", "t">>, "i", -57), Arg(<<"c", "t">>, "i", 12345),
         Arg(<<"f", "g">>, "x", 171), Arg(<<"p", "r">>, "sx2", <<"x", "y">>),
         Arg(<<"b", "c">>, "hex", <<4, 160>>), Arg(<<"b", "c">>, "hex", <<>>),
         Arg(<<"c", "d">>, "l", <<"k", "1", "3", "4">>), Arg(Module, "s", <<"x", "7", "5">>)}
MaxArgs == 3

(* Three callouts. *)
Timers == 1 .. 3
Delays == {1, 3}
Works == {1, 2}
MaxAge == 2
MaxSooner == 1

-----------------------------------------------------------------------------
Way == INSTANCE Match
Msg == INSTANCE Messages
Par == INSTANCE Params
Call == INSTANCE Callouts

matchVars == <<conns, numidx, cardidx, isup, theclass>>
messagesVars == <<memory, held, queue, said, line, made>>
paramsVars == <<size, text, stage, wrote, got>>
calloutsVars == <<list, age, wait, phase, due, sooner>>
vars == <<part, matchVars, messagesVars, paramsVars, calloutsVars>>

Init ==
  /\ part \in {"match", "messages", "params", "callouts"}
  /\ Way!Init /\ Msg!Init /\ Par!Init /\ Call!Init
  /\ part = "match" \/ theclass = {"x"}

Next ==
  /\ UNCHANGED part
  /\ \/ /\ part = "match" /\ Way!Next
        /\ UNCHANGED <<messagesVars, paramsVars, calloutsVars>>
     \/ /\ part = "messages" /\ Msg!Next
        /\ UNCHANGED <<matchVars, paramsVars, calloutsVars>>
     \/ /\ part = "params" /\ Par!Next
        /\ UNCHANGED <<matchVars, messagesVars, calloutsVars>>
     \/ /\ part = "callouts" /\ Call!Next
        /\ UNCHANGED <<matchVars, messagesVars, paramsVars>>

Spec == Init /\ [][Next]_vars

-----------------------------------------------------------------------------
(* The properties of the parts. *)
LimitsKept == Way!LimitsKept
FindsAWay == Way!FindsAWay
MessagesKept == Msg!MessagesKept
NothingLeaks == Msg!NothingLeaks
ReadBack == Par!ReadBack
NotEarly == Call!NotEarly
=============================================================================
