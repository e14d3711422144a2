------------------------------- MODULE Params -------------------------------
(***************************************************************************)
(* The arguments of a message between the modules and the ISDN daemon,     *)
(* src/ksupport/streamlib.c: " :id value value ...", written into one      *)
(* block of fixed size and read back.  A putter for which there is no room *)
(* writes nothing and says nothing.                                        *)
(*                                                                         *)
(* The text is a sequence of characters; an id is two of them.  Numbers    *)
(* have up to nine digits, written in capital letters; a value that is     *)
(* written as it is ("l", "c") does not begin with a blank or a colon.     *)
(* What follows the delimiter is not read here.                            *)
(***************************************************************************)
EXTENDS Integers, Sequences, SequencesExt

CONSTANTS Sizes,                 \* what messages are allocated with
          Header,                \* the id that a message begins with
          Args,                  \* [id, put, val]: what may be written
          MaxArgs,               \* bound on their number
          Module, Names,         \* PROTO_MODULE; the names of modules
          Error, Errors          \* PROTO_ERROR; error numbers, and 0

VARIABLES size, text,            \* of the message, which is full at "size"
          stage,                 \* "none", "write", "read", "done"
          wrote, got             \* the arguments as written, as read

vars == <<size, text, stage, wrote, got>>

Blank == " "
Colon == ":"
Digit == <<"0", "1", "2", "3", "4", "5", "6", "7", "8", "9", "A", "B", "C", "D", "E", "F">>
Hex(n) == Digit[n + 1]

-----------------------------------------------------------------------------
(* Writing.  A putter says how much room it wants and what it writes. *)
Digits(n, base) ==
  LET d[k \in 0 .. n] == IF k < base THEN <<Hex(k)>> ELSE Append(d[k \div base], Hex(k % base))
  IN  d[n]
Decimal(n) == IF n < 0 THEN <<"-">> \o Digits(-n, 10) ELSE Digits(n, 10)

PutI(n) ==
  [wants |-> IF n > 0 /\ n < 10 THEN 2 ELSE IF n > -10 /\ n < 100 THEN 3
             ELSE IF n > -100 /\ n < 1000 THEN 4 ELSE IF n > -1000 /\ n < 10000 THEN 5 ELSE 15,
   text |-> Decimal(n), cut |-> FALSE]
PutX(n) == [wants |-> 10, text |-> Digits(n, 16), cut |-> FALSE]
PutHex(b) ==
  LET c == IF b = <<>> THEN <<0>> ELSE b
  IN  [wants |-> 2 * Len(c) + 1, cut |-> FALSE,
       text |-> FlattenSeq([i \in DOMAIN c |-> <<Hex(c[i] \div 16), Hex(c[i] % 16)>>])]
PutS(s) == [wants |-> 3, text |-> s, cut |-> TRUE]          \* m_puts, m_putsz
PutRaw(s) == [wants |-> Len(s) + 1, text |-> s, cut |-> FALSE]     \* m_putsx2, m_putlx, m_putc
Put(put, val) ==
  CASE put = "i" -> PutI(val) [] put = "x" -> PutX(val) [] put = "hex" -> PutHex(val)
    [] put = "s" -> PutS(val) [] put \in {"sx2", "l", "c"} -> PutRaw(val)

(* n is the size of the block, t what is in it. *)
PutSxTight(n, t, id) ==          \* mutant: the room is checked for the id alone
  IF n - Len(t) < 2 THEN t ELSE t \o <<Blank, Colon>> \o id
PutSx(n, t, id) == IF n - Len(t) < 4 THEN t ELSE t \o <<Blank, Colon>> \o id
PutDelim(n, t) == IF n - Len(t) < 3 THEN t ELSE t \o <<Blank, Colon, Colon>>
PutVal(n, t, put, val) ==
  LET p == Put(put, val)
      room == n - Len(t)
      all == <<Blank>> \o p.text
  IN  IF room < p.wants THEN t
      ELSE t \o IF p.cut /\ Len(all) > room THEN SubSeq(all, 1, room) ELSE all

-----------------------------------------------------------------------------
(* Reading: a getter takes what is left of the text, and leaves "rest". *)
Fail(t) == [ok |-> FALSE, val |-> <<>>, rest |-> t]
Read(val, t) == [ok |-> TRUE, val |-> val, rest |-> t]
From(t, n) == SubSeq(t, n, Len(t))
Until(t, Stop(_)) ==             \* how far, before the first character that stops it
  LET n == SelectInSeq(t, Stop) IN IF n = 0 THEN Len(t) ELSE n - 1
Skip(t) == From(t, Until(t, LAMBDA c : c # Blank) + 1)              \* m_getskip
HexVal(c) == SelectInSeq(Digit, LAMBDA d : d = c) - 1
Value(ds, base) == FoldLeft(LAMBDA n, c : n * base + HexVal(c), 0, ds)

(* m_getsx: to the next word that begins with ':'. *)
GetSx(t) ==
  LET at == SelectInSeq([i \in DOMAIN t |-> i],
              LAMBDA i : t[i] = Colon /\ (i = 1 \/ t[i - 1] = Blank))
      r == From(t, at + 1)
  IN  IF at = 0 \/ Len(r) < 2 \/ Head(r) = Colon THEN Fail(<<>>)
      ELSE Read(SubSeq(r, 1, 2), From(r, 3))

(* m_getid passes over colons, too. *)
GetId(t) ==
  LET r == From(Skip(t), Until(Skip(t), LAMBDA c : c # Colon) + 1)
  IN  IF Len(r) < 2 THEN Fail(r) ELSE Read(SubSeq(r, 1, 2), From(r, 3))

GetNum(t, base) ==               \* m_getx, and the digits of m_geti
  LET n == Until(t, LAMBDA c : HexVal(c) \notin 0 .. base - 1)
  IN  IF n = 0 THEN Fail(t) ELSE Read(Value(SubSeq(t, 1, n), base), From(t, n + 1))
GetI(t) ==
  LET minus == t # <<>> /\ Head(t) = "-"
      r == GetNum(IF minus THEN Tail(t) ELSE t, 10)
  IN  IF r.ok /\ minus THEN [r EXCEPT !.val = -@] ELSE r
GetHex(t) ==                     \* m_gethexlen and m_gethex
  LET n == Until(t, LAMBDA c : HexVal(c) \notin 0 .. 15)
  IN  IF n = 0 \/ n % 2 = 1 THEN Fail(t)
      ELSE Read([i \in 1 .. n \div 2 |-> Value(SubSeq(t, 2 * i - 1, 2 * i), 16)], From(t, n + 1))
GetRaw(t, n) ==                  \* m_getlx, m_getc
  IF Len(t) < n THEN Fail(t) ELSE Read(SubSeq(t, 1, n), From(t, n + 1))
GetStr(t) == LET n == Until(t, LAMBDA c : c = Blank) IN Read(SubSeq(t, 1, n), From(t, n + 1))

Get(put, t) ==
  LET r == Skip(t)
  IN  IF put = "sx2" THEN GetId(t)
      ELSE IF r = <<>> \/ Head(r) = Colon THEN Fail(r)
      ELSE CASE put = "i" -> GetI(r) [] put = "x" -> GetNum(r, 16)
             [] put = "hex" -> GetHex(r) [] put = "s" -> GetStr(r)
             [] put = "l" -> GetRaw(r, 4) [] put = "c" -> GetRaw(r, 1)
PutOf(id) == IF id = Error THEN "i" ELSE (CHOOSE a \in Args : a.id = id).put

(* strnamecmp: is the message for the module of this name? *)
ForMe(name) ==
  LET find[t \in {From(text, i) : i \in 3 .. Len(text) + 1}] ==
        LET r == GetSx(t)
        IN  IF ~r.ok THEN <<>> ELSE IF r.val = Module THEN GetStr(Skip(r.rest)).val ELSE find[r.rest]
  IN  find[From(text, 3)] = name

-----------------------------------------------------------------------------
(* A message is made, written, passed on and read. *)
Init ==
  /\ size = 0 /\ text = <<>> /\ stage = "none"
  /\ wrote = <<>> /\ got = <<>>

Begin(n) ==                      \* allocb, m_putid
  /\ stage = "none" /\ stage' = "write"
  /\ size' = n /\ text' = Header
  /\ UNCHANGED <<wrote, got>>

(* "has": the id was written; "whole": its value, too. *)
Stored(n, t, a) ==
  LET u == PutSx(n, t, a.id)   v == PutVal(n, u, a.put, a.val)
  IN  [text |-> v,
       arg |-> [arg |-> a, has |-> u # t, whole |-> v # u,
                cut |-> a.put = "s" /\ Len(v) < Len(u) + 1 + Len(a.val)]]
Write(a) ==
  /\ stage = "write" /\ Len(wrote) < MaxArgs
  /\ LET s == Stored(size, text, a) IN text' = s.text /\ wrote' = Append(wrote, s.arg)
  /\ UNCHANGED <<size, stage, got>>

(* make_reply, m_reply: an answer that says what went wrong. *)
Reply(err) ==
  LET n == IF err = 0 THEN 8 ELSE 16
      s == Stored(n, Header, [id |-> Error, put |-> "i", val |-> err])
  IN  /\ stage = "none" /\ stage' = "read" /\ size' = n
      /\ text' = PutDelim(n, IF err = 0 THEN Header ELSE s.text)
      /\ wrote' = IF err = 0 THEN <<>> ELSE <<s.arg>>
      /\ UNCHANGED got

Send(delim) ==
  /\ stage = "write" /\ stage' = "read"
  /\ text' = IF delim THEN PutDelim(size, text) ELSE text
  /\ UNCHANGED <<size, wrote, got>>

(* The receiver looks at the header and then at the arguments, by their ids. *)
Receive ==
  /\ stage = "read" /\ stage' = "done"
  /\ LET all[t \in {From(text, i) : i \in 1 .. Len(text) + 1}] ==
           LET id == GetSx(t)   r == Get(PutOf(id.val), id.rest)
           IN  IF ~id.ok THEN <<>>
               ELSE <<[id |-> id.val, ok |-> r.ok, val |-> r.val]>> \o all[r.rest]
     IN  got' = all[GetId(text).rest]
  /\ UNCHANGED <<size, text, wrote>>
Again ==
  /\ stage = "done" /\ stage' = "none"
  /\ size' = 0 /\ text' = <<>> /\ wrote' = <<>> /\ got' = <<>>

Next ==
  \/ \E n \in Sizes : Begin(n)
  \/ \E a \in Args : Write(a)
  \/ \E delim \in BOOLEAN : Send(delim)
  \/ \E err \in Errors : Reply(err)
  \/ Receive \/ Again

Spec == Init /\ [][Next]_vars

-----------------------------------------------------------------------------
(* What w says, and what that should be read as: no string at all is no    *)
(* value, no bytes are read as one zero.                                   *)
Bare(w) == ~w.whole \/ (w.arg.put = "s" /\ w.arg.val = <<>>)
Is(g, w) ==
  LET byte == w.arg.put = "hex" /\ w.arg.val = <<>>
  IN  /\ g.id = w.arg.id
      /\ IF Bare(w) THEN ~g.ok ELSE g.ok /\ g.val = IF byte THEN <<0>> ELSE w.arg.val
Whole(w) == w.has /\ w.whole /\ ~w.cut
Lost == SelectInSeq(wrote, LAMBDA w : ~Whole(w))

(* The arguments of a message are read as they were written.  In a message *)
(* that is too small nothing is written behind its end; the arguments up   *)
(* to the first that did not fit are read back; and even after that a      *)
(* value is read for that of another argument only where an id was stored  *)
(* without a value of its own (streamlib.c:480-803: the putters leave out, *)
(* one by one, what does not fit).  A module takes a message for its own   *)
(* only if its name was written, or a name that was cut off.               *)
ReadBack ==
  /\ stage # "none" => Len(text) <= size
  /\ stage = "read" => \A n \in Names : ForMe(n) =>
       \E j \in DOMAIN wrote : LET w == wrote[j]
         IN  w.arg.id = Module /\ (w.arg.val = n \/ w.cut \/ ~w.whole)
  /\ stage = "done" =>
       LET n == IF Lost = 0 THEN Len(wrote) ELSE Lost - 1
       IN  /\ Len(got) >= n /\ (Lost = 0 => Len(got) = n)
           /\ \A i \in 1 .. n : Is(got[i], wrote[i]) \/ (Bare(wrote[i]) /\ Lost # 0)
           /\ \A i \in DOMAIN got : got[i].ok =>
                \E j \in DOMAIN wrote : LET w == wrote[j]
                  IN  /\ w.arg.id = got[i].id
                      /\ \/ Is(got[i], w)
                         \/ w.cut /\ IsPrefix(got[i].val, w.arg.val)
                         \/ Bare(w) /\ Lost # 0
=============================================================================
