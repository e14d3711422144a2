------------------------------- MODULE Match -------------------------------
(***************************************************************************)
(* How the ISDN daemon finds a way to connect, src/isdn_4/match.c and nr.c *)
(* with the level part of conn.c: the D, DL, DP, P and CL lines of the     *)
(* configuration are matched against a connection ("grab"), numbers and    *)
(* cards being tried in rotation, and the connections use what is found.   *)
(*                                                                         *)
(* A pattern is the set of the names it matches, a key the set of its      *)
(* letters ("+" keys are left out), a number a base, written with the      *)
(* prefixes "pre", and the set of the extensions its pattern allows.  A    *)
(* card has one interface.  Leased lines, which have no number, and the    *)
(* lack of memory are left out.                                            *)
(***************************************************************************)
EXTENDS Integers, FiniteSets, Sequences, SequencesExt

CONSTANTS Cards,         \* isdn4_card, in its order
          NrBchan,       \* channels of a card, 0: not known
          Sites,         \* <Art>/<Partner>
          Keys,          \* letters of a <Key>
          DPs, DLs, Ds, Ps, CLs,   \* the lines of the configuration
          Programs,      \* connections of permanent programs ('p' in the R line)
          SiteOf, CardOf, \* what the R line of a program names
          Calls,         \* records for incoming calls
          Callers,       \* [site, nr]: who may call, and from which number
          LNr,           \* the number they call
          Times,         \* the values of theclass
          Loose,         \* the cards that may come and go
          None, BUSY     \* NULL; "0BUSY"

VARIABLES conns, numidx, cardidx, isup, theclass

vars == <<conns, numidx, cardidx, isup, theclass>>

Conns == Programs \cup Calls
CardSet == {Cards[i] : i \in DOMAIN Cards}

-----------------------------------------------------------------------------
(* util.c. *)
WildMatch(a, b) == IF a \subseteq b THEN a ELSE IF b \subseteq a THEN b ELSE {}
ClassMatch(a, b) == a \cap b

(* matchflag: the letters of a line against the flags of a connection; {} when they do not fit. *)
Adds == [u |-> "initial", a |-> "later", i |-> "in", o |-> "out",
         f |-> "leased", p |-> "perm", d |-> "dial", m |-> "multi"]
Only(mods, x, y) == x \in mods /\ y \notin mods
MatchFlag(flags, mods) ==
  LET refused == \/ "initial" \in flags /\ Only(mods, "a", "u")
                 \/ "later" \in flags /\ Only(mods, "u", "a")
                 \/ "out" \in flags /\ Only(mods, "i", "o")
                 \/ "in" \in flags /\ Only(mods, "o", "i")
      kind == \/ mods \cap {"f", "d", "p"} = {}
              \/ flags \cap {"leased", "perm", "multi", "dial"} = {}
              \/ \E x \in mods \cap {"f", "p", "d", "m"} : Adds[x] \in flags
  IN  IF refused \/ ~kind THEN {} ELSE flags \cup {Adds[x] : x \in mods \cap DOMAIN Adds}

-----------------------------------------------------------------------------
(* nr.c.  "open": the extension is still marked off by '.' or '/'. *)
Number(pre, base, ext) == [pre |-> pre, base |-> base, open |-> TRUE, ext |-> ext]
Plain == {}                                    \* no extension at all
Complete(nr) == nr.base # "*" /\ (nr.ext = None \/ Cardinality(nr.ext) = 1)

(* match_nr: what of the caller's number the line leaves over, or None. *)
MatchNr(nr, line, pre) ==
  IF nr.pre \cap line.pre \cap pre = {} THEN None
  ELSE IF line.base = "*" THEN [rest |-> {nr.base}]
  ELSE IF nr.base # line.base THEN None
  ELSE IF nr.ext = None THEN IF line.ext \in {None, {}} THEN [rest |-> Plain] ELSE None
  ELSE IF line.ext = None THEN None
  ELSE IF line.ext = {} \/ nr.ext \subseteq line.ext THEN [rest |-> nr.ext]
  ELSE None
MatchSuffix(suf, pat) == suf.rest \subseteq pat.rest /\ (suf.rest = {} <=> pat.rest = {})

(* build_nr: the number to dial, when the two are written with a common prefix. *)
BuildNr(line, local, pre) == IF line.pre \cap local.pre \cap pre = {} THEN None ELSE line

(* append_nr: the extension of a P line fills the gap the D line leaves. *)
AppendNr(nr, suf) ==
  IF ~nr.open \/ nr.ext = None \/ (nr.ext # {} /\ WildMatch(nr.ext, suf.rest) = {}) THEN None
  ELSE [nr EXCEPT !.ext = suf.rest, !.open = FALSE]

-----------------------------------------------------------------------------
(* A grab: what is known of a connection while the configuration is read. *)
NewGrab(site, card, flags) ==
  [site |-> site, card |-> card, class |-> Keys, flags |-> flags, nr |-> None, lnr |-> None,
   nrsuf |-> None, lnrsuf |-> None, in |-> None, out |-> None, retries |-> 0,
   level |-> 0, next |-> 0]

In(g) == "in" \in g.flags
Out(g) == "out" \in g.flags

(* The preliminary match of a line, common to all of them. *)
Basic(g, line) ==
  [g EXCEPT !.site = WildMatch(@, line.site), !.card = WildMatch(@, line.card),
            !.class = ClassMatch(@, line.class)]
Fits(g) == g.site # {} /\ g.card # {} /\ ClassMatch(g.class, theclass) # {}

(* pmatch1, one argument of a P line: "no" leaves the line, "bad" the whole search. *)
Leave(a) == [a EXCEPT !.res = "no"]
NrArg(a, val) ==
  LET g == a.g   i == In(g) /\ "in" \in a.use   o == Out(g) /\ "out" \in a.use
      grown == AppendNr(g.nr, val)
  IN  IF (i \/ o) /\ g.nrsuf # None /\ ~MatchSuffix(g.nrsuf, val) THEN Leave(a)
      ELSE IF ~(i \/ o) THEN a
      ELSE LET s == [g EXCEPT !.nrsuf = IF @ = None THEN val ELSE @]
           IN  IF ~o \/ g.nr = None \/ "nrcomplete" \in g.flags THEN [a EXCEPT !.g = s]
               ELSE IF grown = None THEN Leave(a)
               ELSE [a EXCEPT !.g = [s EXCEPT !.nr = grown,
                       !.flags = IF Complete(grown) THEN @ \cup {"nrcomplete"} ELSE @]]
LNrArg(a, val) ==
  LET g == a.g   i == In(g) /\ "in" \in a.use   o == Out(g) /\ "out" \in a.use
      grown == AppendNr(g.lnr, val)
  IN  IF i /\ (g.lnrsuf = None \/ ~MatchSuffix(g.lnrsuf, val)) THEN Leave(a)
      ELSE IF ~o THEN a
      ELSE IF g.lnrsuf # None /\ ~MatchSuffix(g.lnrsuf, val) THEN Leave(a)
      ELSE LET s == [g EXCEPT !.lnrsuf = IF @ = None THEN val ELSE @]
           IN  IF g.lnr = None \/ "lnrcomplete" \in g.flags THEN [a EXCEPT !.g = s]
               ELSE IF grown = None THEN Leave(a)
               ELSE [a EXCEPT !.g = [s EXCEPT !.lnr = grown,
                       !.flags = IF Complete(grown) THEN @ \cup {"lnrcomplete"} ELSE @]]

Given(list, id) == list # None /\ \E x \in list : x.id = id
Agrees(list, arg) == \A x \in list : x.id = arg.id => x.val = arg.val
ValueArg(a, arg) ==
  LET g == a.g
      o == Out(g) /\ "out" \in a.use /\ g.out # None
      i == In(g) /\ "in" \in a.use /\ g.in # None
  IN  IF (o /\ ~Agrees(g.out, arg)) \/ (i /\ ~Agrees(g.in, arg)) THEN [a EXCEPT !.res = "bad"]
      ELSE IF o /\ "outcomplete" \notin g.flags THEN [a EXCEPT !.g.out = @ \cup {arg}]
      ELSE a
FlagArg(a, arg) ==
  [a EXCEPT !.g.flags = @ \cup {arg.id},
            !.g.out = IF "outcomplete" \in a.g.flags \/ Given(@, arg.id) THEN @ ELSE @ \cup {arg}]

NeedArg(a, id) ==
  LET nr == IF id \in {"vr", "Vr"} THEN a.g.nr ELSE a.g.lnr
  IN  IF In(a.g) /\ ((nr = None) <=> (id \in {"vr", "vl"})) THEN Leave(a) ELSE a

Arg(a, arg) ==
  IF a.res # "ok" THEN a
  ELSE IF arg.id = "im" THEN [a EXCEPT !.use = {"in"}]
  ELSE IF arg.id = "om" THEN [a EXCEPT !.use = {"out"}]
  ELSE IF arg.id = "bm" THEN [a EXCEPT !.use = {"in", "out"}]
  ELSE IF arg.id \in {"vr", "vl", "Vr", "Vl"} THEN NeedArg(a, arg.id)
  ELSE IF arg.id = "nr" THEN NrArg(a, arg.val)
  ELSE IF arg.id = "lr" THEN LNrArg(a, arg.val)
  ELSE IF arg.id \in {"ib", "fr", "il", "xi", "yi"} THEN FlagArg(a, arg)
  ELSE ValueArg(a, arg)

(* pmatch1, one line: its arguments go into a copy that is kept only if all of them fit. *)
Line(g, line, first) ==
  LET b == Basic(g, line)
      c == [(IF first THEN b ELSE [b EXCEPT !.flags = MatchFlag(g.flags, line.mods)])
             EXCEPT !.retries = IF @ = 0 THEN line.num ELSE @,
                    !.out = IF @ = None THEN {} ELSE @]
  IN  FoldLeft(Arg, [g |-> c, use |-> {"in", "out"}, res |-> "ok"], line.args)

Skipped(g, line, first) ==       \* not even looked at, whatever its X says
  \/ MatchFlag(g.flags, line.mods) = {}
  \/ ~first /\ "R" \notin line.mods /\ ~Fits(Basic(g, line))

(* The lines below the first one add to it, up to an X. *)
Follow(r, line) ==
  IF r.done \/ Skipped(r.g, line, FALSE) THEN r
  ELSE LET l == Line(r.g, line, FALSE)
           cut == "X" \in line.mods
       IN  IF "R" \in line.mods \/ l.res = "no" THEN [r EXCEPT !.done = cut]
           ELSE IF l.res = "bad" THEN [r EXCEPT !.ok = FALSE, !.done = TRUE]
           ELSE [r EXCEPT !.g = l.g, !.done = cut]

Block(g, n, l) ==
  LET p == Ps[n]
  IN  IF ~Fits(Basic(g, p)) \/ MatchFlag(g.flags, p.mods) = {} \/ "M" \in p.mods \/ l.res # "ok"
      THEN [ok |-> FALSE, g |-> g, done |-> TRUE]
      ELSE FoldLeft(Follow, [ok |-> TRUE, g |-> l.g, done |-> "X" \in p.mods],
                    SubSeq(Ps, n + 1, Len(Ps)))
PMatch1(g, n) == Block(g, n, Line(g, Ps[n], TRUE))

(* pmatch: the first line that starts a block that fits. *)
PMatch(g) ==
  FoldLeft(LAMBDA r, n : IF r.ok THEN r ELSE PMatch1(g, n),
           [ok |-> FALSE, g |-> g, done |-> TRUE], [n \in DOMAIN Ps |-> n])

-----------------------------------------------------------------------------
(* findsite: is the way found free?  A connection that is not on its way  *)
(* up holds no channel.                                                    *)
Going == {"going_up", "up"}
Active == {c \in Conns : conns[c].st \in Going}
ChannelFreeUp(g) ==              \* mutant: a call that is being set up does not count
  \A k \in g.card : NrBchan[k] = 0 \/
     Cardinality({c \in Active : /\ conns[c].st = "up"
                                 /\ WildMatch(conns[c].cg.card, g.card) # {}}) < NrBchan[k]
ChannelFree(g) ==
  \A k \in g.card : NrBchan[k] = 0 \/
     Cardinality({c \in Active : WildMatch(conns[c].cg.card, g.card) # {}}) < NrBchan[k]

Covers(cl, g) == Fits(Basic(g, cl))
(* A call to the same site that is being set up may be this very one. *)
Counted(cl, g, c) ==
  LET x == conns[c]
  IN  /\ Covers(cl, x.cg)
      /\ ~(x.st = "going_up" /\ WildMatch(WildMatch(x.cg.site, cl.site), g.site) # {})
      /\ "il" \notin x.cg.flags
Limited(g, cl) ==
  /\ Covers(cl, g)
  /\ Cardinality({c \in Active : Counted(cl, g, c)}) >= cl.num
  /\ "il" \notin g.flags
WithinLimits(g) == \A i \in DOMAIN CLs : ~Limited(g, CLs[i])

(* The numbers of the two sides, from the D, the DL and the DP line. *)
NumbersFit(g, d, dl, pre) ==
  /\ IF g.nr # None THEN MatchNr(g.nr, d.nr, pre) # None
     ELSE IF In(g) THEN g.site = {"unknown"}
     ELSE BuildNr(d.nr, dl.nr, pre) # None
  /\ IF g.lnr # None THEN MatchNr(g.lnr, dl.nr, pre) # None
     ELSE In(g) \/ BuildNr(dl.nr, dl.nr, pre) # None
Numbered(g, d, dl, pre) ==
  [g EXCEPT !.nr = IF @ = None /\ ~In(g) THEN BuildNr(d.nr, dl.nr, pre) ELSE @,
            !.nrsuf = IF g.nr = None THEN @ ELSE MatchNr(g.nr, d.nr, pre),
            !.lnr = IF @ = None /\ ~In(g) THEN BuildNr(dl.nr, dl.nr, pre) ELSE @,
            !.lnrsuf = IF g.lnr = None THEN @ ELSE MatchNr(g.lnr, dl.nr, pre)]

(* A number that is not complete is of no use. *)
Dialable(g) ==
  LET closed(nr, flag) == nr = None \/ flag \in g.flags \/ Complete(nr)
  IN  In(g) \/ Out(g) => closed(g.nr, "nrcomplete") /\ closed(g.lnr, "lnrcomplete")
Closed(g) ==
  IF ~In(g) /\ ~Out(g) THEN g
  ELSE [g EXCEPT !.flags = @ \cup (IF g.nr = None THEN {} ELSE {"nrcomplete"})
                             \cup (IF g.lnr = None THEN {} ELSE {"lnrcomplete"})]

(* One D line whose level is right: the way it leads to, BUSY if that is   *)
(* not free, None if there is none; and what is left in the working grab.  *)
Meets(g, d) == Fits(Basic(g, d)) /\ MatchFlag(g.flags, d.mods) # {}
Outcome(b, fits, p, ignbusy) ==
  LET way == Closed(p.g)
  IN  [way |-> IF ~fits \/ ~p.ok \/ ~Dialable(p.g) THEN None
               ELSE IF ignbusy \/ (ChannelFree(way) /\ WithinLimits(way)) THEN way ELSE BUSY,
       left |-> IF fits /\ p.ok THEN p.g ELSE b]
Try(g, d, dl, dp, ignbusy) ==
  LET b == [Basic(g, d) EXCEPT !.flags = MatchFlag(g.flags, d.mods)]
  IN  Outcome(b, NumbersFit(b, d, dl, dp.pre), PMatch(Numbered(b, d, dl, dp.pre)), ignbusy)

Taken(t, found) ==
  IF found.way \in {None, BUSY} THEN [t EXCEPT !.cg = found.left]
  ELSE [t EXCEPT !.ok = TRUE, !.g = found.way]

(* One turn of the loop over the D lines.  numidx counts the turns in      *)
(* which the working grab, as the last turn left it, is not one for an     *)
(* incoming call.                                                          *)
Turn(s, n, card, class, dl, dp, ignbusy) ==
  LET d == Ds[n]
      t == [s EXCEPT !.idx = IF In(s.cg) THEN @ ELSE @ + 1]
      g == [s.g EXCEPT !.card = card, !.class = class]
      higher == [s.g EXCEPT !.next = IF s.g.level < d.level /\ @ < d.level THEN d.level ELSE @]
  IN  IF ~Meets(g, d) THEN [t EXCEPT !.cg = s.g]
      ELSE IF g.level # d.level THEN [t EXCEPT !.g = higher, !.cg = higher]
      ELSE Taken(t, Try(g, d, dl, dp, ignbusy))

(* The D lines are taken from where the last search left off, and then     *)
(* from the beginning; an incoming call takes them as they are.            *)
From(n) == [i \in 1 .. Len(Ds) - n |-> n + i]
ScanOnce(r, dl, dp, ignbusy) ==  \* mutant: the search ends after the last line
  LET card == WildMatch(r.cg.card, dp.card)   class == ClassMatch(r.cg.class, dl.class)
      step(s, n) == IF s.ok THEN s ELSE Turn(s, n, card, class, dl, dp, ignbusy)
  IN  FoldLeft(step, r, From(IF In(r.cg) THEN 0 ELSE r.idx))
Scan(r, dl, dp, ignbusy) ==
  LET card == WildMatch(r.cg.card, dp.card)   class == ClassMatch(r.cg.class, dl.class)
      step(s, n) == IF s.ok THEN s ELSE Turn(s, n, card, class, dl, dp, ignbusy)
      over(s, n) == FoldLeft(step, s, From(n))
      again(s) == IF s.ok \/ In(r.cg) THEN s ELSE over([s EXCEPT !.idx = 0], 0)
  IN  again(over(r, IF In(r.cg) THEN 0 ELSE r.idx))

DialPrefix(g) == SelectSeq(DPs, LAMBDA dp : WildMatch(g.card, dp.card) # {})

(* findsite: a DL line and its dial prefix, then the D lines.  The DL      *)
(* lines are matched against the working grab as the D lines of the one    *)
(* before have left it.                                                    *)
FindSite(r, ignbusy) ==
  FoldLeft(LAMBDA s, dl :
             IF s.ok \/ ~Fits(Basic(s.cg, dl)) \/ DialPrefix(s.cg) = <<>>
             THEN s ELSE Scan(s, dl, Head(DialPrefix(s.cg)), ignbusy),
           [r EXCEPT !.cg = r.g], DLs)

(* findit: the cards, in rotation too. *)
Rotated(idx, n) == [i \in 1 .. n |-> ((idx + i - 1) % n) + 1]
FindIt(g, ignbusy) ==
  LET n == Len(Cards)
      done(s, k) ==
        IF s.ok THEN [s EXCEPT !.card = k, !.g.flags = @ \cup {"outcomplete"}] ELSE s
      try(r, k) ==
        IF r.ok \/ Cards[k] \notin isup THEN r
        ELSE done(FindSite([r EXCEPT !.g = [g EXCEPT !.card = {Cards[k]}]], ignbusy), k)
      r == FoldLeft(try, [ok |-> FALSE, g |-> g, cg |-> g, idx |-> numidx, card |-> n],
                    Rotated(IF In(g) THEN 0 ELSE cardidx, n))
  IN  r

Moved(r) == numidx' = r.idx /\ cardidx' = r.card

-----------------------------------------------------------------------------
(* conn.c, try_reconn: the grab is made ready for a new search.  Nothing   *)
(* reads the rest of it once the connection is given up, so that the model *)
(* does this at once.                                                      *)
Redialled(g, c) ==
  LET kinds == {"leased", "perm", "dial", "multi"}
      f == (g.flags \ {"in", "nrcomplete", "outcomplete", "lnrcomplete"}) \cup {"out"}
  IN  [g EXCEPT !.nr = None, !.nrsuf = None, !.lnr = None, !.lnrsuf = None,
                !.card = CardOf[c], !.class = Keys, !.in = None, !.out = {},
                !.flags = IF Cardinality(f \cap kinds) > 1 THEN f \ kinds ELSE f]

(* conn.c, Xsetconnstate: the dial level and the count of tries. *)
SetState(c, x, s) ==
  LET y == [x EXCEPT !.cg = IF c \in Programs THEN Redialled(@, c) ELSE @,
                     !.retries = IF x.st = "off" THEN 0 ELSE @]
  IN  IF s = "up" THEN [x EXCEPT !.st = "up", !.cg.level = 0, !.cg.next = 0, !.retries = 0]
      ELSE IF s # "off" THEN [y EXCEPT !.st = s]
      ELSE IF x.cg.level < x.cg.next
      THEN [y EXCEPT !.st = "down", !.cg.level = x.cg.next, !.retries = 0]
      ELSE [y EXCEPT !.st = "off", !.cg.level = 0, !.cg.next = 0]

(* info.c, do_updown: a try has failed. *)
SetUpDown(c, x) ==
  LET y == [x EXCEPT !.retries = @ + 1]
  IN  SetState(c, y, IF x.cg.retries > 0 /\ x.retries >= x.cg.retries THEN "off" ELSE "down")

Idle == [st |-> "none", cg |-> NewGrab({}, {}, {}), retries |-> 0]

Init ==
  /\ conns = [c \in Conns |-> Idle]
  /\ numidx = 0 /\ cardidx = 0
  /\ isup = CardSet
  /\ theclass \in Times

(* work.c, run_now and runprog: the program of a permanent connection is started. *)
Ready(c, r) ==
  /\ Moved(r)
  /\ conns' = [conns EXCEPT ![c] = IF r.ok THEN SetState(c, [Idle EXCEPT !.cg = r.g], "down") ELSE Idle]
RunProg(c) ==
  /\ conns[c].st = "none"
  /\ Ready(c, FindIt(NewGrab({SiteOf[c]}, CardOf[c], {"perm"}), TRUE))
  /\ UNCHANGED <<isup, theclass>>

(* startconn: the way is looked for when the connection is made.           *)
Along(c, r) ==
  /\ Moved(r)
  /\ conns' = [conns EXCEPT ![c] =
       IF r.ok THEN [@ EXCEPT !.st = "going_up", !.cg = r.g] ELSE SetState(c, @, "off")]
Start(c, g) == Along(c, FindIt(g, FALSE))

Dial(c) ==
  /\ conns[c].st = "down"
  /\ Start(c, conns[c].cg)
  /\ UNCHANGED <<isup, theclass>>

(* info.c, do_incoming: the call goes to the program of its site, which    *)
(* gives up its own try, or to a new record.                               *)
CallGrab(x) ==
  [NewGrab(IF x.nr = None THEN {"unknown"} ELSE Sites, CardSet, {"in", "perm", "multi", "dial", "nrcomplete", "lnrcomplete"})
     EXCEPT !.nr = x.nr, !.lnr = LNr, !.in = x.in]
Owners(g) ==
  {c \in Programs : conns[c].st # "none" /\ WildMatch(conns[c].cg.site, g.site) # {}}
HandOver(c, again) ==
  /\ again.ok
  /\ conns' = [conns EXCEPT ![c] =
       [@ EXCEPT !.st = "going_up", !.cg = again.g, !.retries = IF conns[c].st = "off" THEN 0 ELSE @]]
Assign(r) ==
  \/ /\ Owners(r.g) = {}
     /\ \E c \in Calls :
          /\ conns[c].st = "none"
          /\ conns' = [conns EXCEPT ![c] = [Idle EXCEPT !.st = "down", !.cg = r.g]]
  \/ \E c \in Owners(r.g) :
       /\ conns[c].st \in {"off", "down", "going_up"}
       /\ conns[c].st = "going_up" => Out(conns[c].cg)
       /\ HandOver(c, FindIt(r.g, FALSE))
Found(r) == r.ok /\ Assign(r)
Incoming(x) ==
  /\ Found(FindIt(CallGrab(x), FALSE))
  /\ UNCHANGED <<numidx, cardidx, isup, theclass>>

(* The program of an incoming call is up and takes it, if there still is a channel. *)
Took(c, r) ==
  conns' = [conns EXCEPT ![c] = IF r.ok THEN [@ EXCEPT !.st = "going_up", !.cg = r.g] ELSE Idle]
Answer(c) ==
  /\ c \in Calls /\ conns[c].st = "down"
  /\ Took(c, FindIt(conns[c].cg, FALSE))
  /\ UNCHANGED <<numidx, cardidx, isup, theclass>>

(* What becomes of a connection. *)
Set(c, x) == conns' = [conns EXCEPT ![c] = x] /\ UNCHANGED <<numidx, cardidx, isup, theclass>>
Up(c) == conns[c].st = "going_up" /\ Set(c, SetState(c, conns[c], "up"))
Fail(c) ==
  /\ conns[c].st = "going_up"
  /\ Set(c, IF c \in Calls THEN Idle ELSE SetUpDown(c, conns[c]))
HangUp(c) == conns[c].st = "up" /\ Set(c, SetState(c, conns[c], "going_down"))
Down(c) ==
  /\ conns[c].st = "going_down"
  /\ Set(c, IF c \in Calls THEN Idle ELSE SetState(c, conns[c], "down"))
Retime(c) == conns[c].st = "off" /\ Set(c, SetState(c, conns[c], "down"))

(* A card comes or goes; the time of day changes. *)
CardUpDown(k) ==
  /\ isup' = IF k \in isup THEN isup \ {k} ELSE isup \cup {k}
  /\ UNCHANGED <<conns, numidx, cardidx, theclass>>
Time(t) ==
  /\ t # theclass /\ theclass' = t
  /\ UNCHANGED <<conns, numidx, cardidx, isup>>

Next ==
  \/ \E c \in Programs : RunProg(c) \/ Dial(c) \/ Retime(c)
  \/ \E x \in Callers : Incoming(x)
  \/ \E c \in Conns : Answer(c) \/ Up(c) \/ Fail(c) \/ HangUp(c) \/ Down(c)
  \/ \E k \in Loose : CardUpDown(k)
  \/ \E t \in Times : Time(t)

Spec == Init /\ [][Next]_vars

-----------------------------------------------------------------------------
(* No card carries more connections than it has channels, and no CL line   *)
(* lets through connections to more sites than it names: whatever order    *)
(* calls of both directions are found, answered, given up and retried in.  *)
(* (match.c:653-731; two calls being set up to one site are not held       *)
(* against each other, so the limit is one on sites; a connection is       *)
(* counted while its key fits the time of day.)                            *)
Overloaded(c) ==
  LET g == conns[c].cg
      on == {a \in Active : conns[a].cg.card = g.card}
  IN  \/ \E k \in g.card : NrBchan[k] > 0 /\ Cardinality(on) > NrBchan[k]
      \/ \E i \in DOMAIN CLs :
           /\ Covers(CLs[i], g) /\ "il" \notin g.flags
           /\ Cardinality({conns[a].cg.site : a \in
                {b \in Active : Covers(CLs[i], conns[b].cg) /\ "il" \notin conns[b].cg.flags}})
              > CLs[i].num
LimitsKept ==
  [][\A c \in Conns : conns[c].st \notin Going /\ conns'[c].st \in Going => ~Overloaded(c)']_vars

(* A connection that is not made has no way to be made: when a search      *)
(* fails, no card that is up leads, with any DL line and D line of the     *)
(* level asked for, to a number with a free channel -- wherever the two    *)
(* rotating positions were left (match.c:528-549, 818-832).                *)
Ways(g) ==
  {<<k, dl, d>> \in isup \X (DOMAIN DLs) \X (DOMAIN Ds) :
     LET h == [g EXCEPT !.card = {k}]
     IN  /\ DialPrefix(h) # <<>> /\ Fits(Basic(h, DLs[dl]))
         /\ Ds[d].level = g.level /\ Meets(Basic(h, DLs[dl]), Ds[d])
         /\ Try(Basic(h, DLs[dl]), Ds[d], DLs[dl], Head(DialPrefix(h)), FALSE).way \notin {None, BUSY}}
Refused(c) ==
  /\ conns[c].st = "down"
  /\ conns'[c].st = "off" \/ conns'[c].cg.level > conns[c].cg.level
FindsAWay ==
  [][\A c \in Programs : Refused(c) => Ways(conns[c].cg) = {}]_vars
=============================================================================
