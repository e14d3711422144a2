------------------------------ MODULE Messages ------------------------------
(***************************************************************************)
(* The messages of the STREAMS framework: chains of headers that point     *)
(* into counted data blocks, and the doubly linked list of a queue         *)
(* (streams/streams_sys.c, with dsize and pullupm of                       *)
(* ksupport/streamlib.c), used by the routines of one module, which holds  *)
(* some messages and has one queue.                                        *)
(*                                                                         *)
(* An operator takes the memory and returns it as the function of its name *)
(* leaves it, with the pointer that the function returns.  "left" is how   *)
(* many of its calls of kmalloc can succeed.  What the flags of a queue    *)
(* do, and who is woken, is in module Queues.                              *)
(***************************************************************************)
EXTENDS Integers, Sequences, FiniteSets, SequencesExt

CONSTANTS Headers, Blocks,     \* addresses, numbers from 1 on
          Slots,               \* the variables of the module
          Texts,               \* what is written into a new message
          Spare,               \* room that is allocated beyond it
          Lefts,               \* how many allocations succeed
          Pulls,               \* the lengths pullupm and adjmsg are called with
          MaxText,             \* bound: no message grows longer
          MaxMade              \* bound on the messages that are made

VARIABLES memory, held, queue,
          said, line,          \* what the messages held and those in the queue should say
          made                 \* how many were made, as a bound

vars == <<memory, held, queue, said, line, made>>
NULL == 0

-----------------------------------------------------------------------------
(* Memory. *)
Without(f, x) == [y \in DOMAIN f \ {x} |-> f[y]]
Lowest(S) == CHOOSE x \in S : \A y \in S : x <= y
Ptr(m, p) == [m |-> m, p |-> p]
Set(m, x, field, v) == [m EXCEPT !.msg[x][field] = v]

Walk(next, p) ==
  LET go[x \in DOMAIN next \cup {NULL}] == IF x = NULL THEN <<>> ELSE <<x>> \o go[next[x]]
  IN  go[p]
Chain(m, p) == Walk([x \in DOMAIN m.msg |-> m.msg[x].cont], p)     \* along b_cont

Data(m, x) == m.data[m.msg[x].data]
Bytes(m, x) == m.msg[x].w - m.msg[x].r
Text(m, p) ==
  FoldLeft(LAMBDA t, x : t \o SubSeq(Data(m, x).bytes, m.msg[x].r + 1, m.msg[x].w), <<>>, Chain(m, p))
DSize(m, p) == FoldLeft(LAMBDA n, x : n + Bytes(m, x), 0, Chain(m, p))
(* xmsgsize: only the leading blocks that are of the type of the first. *)
XMsgSize(m, p) ==
  FoldLeft(LAMBDA s, x : IF s.over \/ Data(m, x).type # Data(m, p).type THEN [s EXCEPT !.over = TRUE]
                         ELSE [s EXCEPT !.n = @ + Bytes(m, x)],
           [n |-> 0, over |-> FALSE], Chain(m, p)).n

NewHeader(m, header) ==          \* kmalloc of a struct msgb
  LET x == Lowest(Headers \ DOMAIN m.msg)
  IN  Ptr([m EXCEPT !.msg = [y \in DOMAIN @ \cup {x} |-> IF y = x THEN header ELSE @[y]],
                    !.left = @ - 1], x)
Room(m, n) == m.left >= n /\ DOMAIN m.msg # Headers

AllocB(m, size) ==
  IF ~Room(m, 2) \/ DOMAIN m.data = Blocks THEN Ptr(m, NULL)
  ELSE LET d == Lowest(Blocks \ DOMAIN m.data)
           block == [refs |-> 1, size |-> size, type |-> "data", bytes |-> [i \in 1 .. size |-> 0]]
       IN  NewHeader([m EXCEPT !.data = [y \in DOMAIN @ \cup {d} |-> IF y = d THEN block ELSE @[y]],
                               !.left = @ - 1],
                     [data |-> d, r |-> 0, w |-> 0, cont |-> NULL, next |-> NULL, prev |-> NULL])
Write(m, x, t) ==
  LET d == m.msg[x].data   w == m.msg[x].w
  IN  [m EXCEPT !.data[d].bytes = [i \in DOMAIN @ |-> IF i \in w + 1 .. w + Len(t) THEN t[i - w] ELSE @[i]],
                !.msg[x].w = @ + Len(t)]

FreeBShared(m, x) ==             \* mutant: the block goes with its first header
  LET d == m.msg[x].data
  IN  [m EXCEPT !.msg = Without(@, x), !.data = IF d \in DOMAIN @ THEN Without(@, d) ELSE @]
FreeB(m, x) ==
  LET d == m.msg[x].data
  IN  [m EXCEPT !.msg = Without(@, x),
                !.data = IF @[d].refs <= 1 THEN Without(@, d) ELSE [@ EXCEPT ![d].refs = @ - 1]]
FreeMsg(m, p) == FoldLeft(FreeB, m, Chain(m, p))

-----------------------------------------------------------------------------
(* Duplicates share the data, copies have their own: copyb leaves the free *)
(* space out and does not copy an empty block, copybufb keeps it.  dupb    *)
(* relies on kmalloc.                                                      *)
DupB(m, x) ==
  LET d == m.msg[x].data
  IN  NewHeader([m EXCEPT !.data[d].refs = @ + 1],
                [m.msg[x] EXCEPT !.cont = NULL, !.next = NULL, !.prev = NULL])
CopyB(m, x) ==
  LET a == AllocB(m, Bytes(m, x))
  IN  IF Bytes(m, x) <= 0 \/ a.p = NULL THEN Ptr(m, NULL)
      ELSE Ptr(Write(a.m, a.p, SubSeq(Data(m, x).bytes, m.msg[x].r + 1, m.msg[x].w)), a.p)
CopyBufB(m, x) ==
  LET a == AllocB(m, Data(m, x).size)
      r == m.msg[x].r
      moved == [a.m EXCEPT !.msg[a.p].r = r, !.msg[a.p].w = r]
  IN  IF Data(m, x).size <= 0 \/ a.p = NULL THEN Ptr(m, NULL)
      ELSE Ptr(Write(moved, a.p, SubSeq(Data(m, x).bytes, r + 1, m.msg[x].w)), a.p)

(* dupmsg, copymsg and copybufmsg: block after block; when one cannot be   *)
(* had, what there is of the new message is freed.                         *)
EachBlock(m, p, One(_, _)) ==
  LET step(s, x) ==
        LET c == One(s.m, x)
        IN  IF ~s.ok THEN s
            ELSE IF c.p = NULL
            THEN [m |-> IF s.head = NULL THEN s.m ELSE FreeMsg(s.m, s.head),
                  head |-> NULL, last |-> NULL, ok |-> FALSE]
            ELSE [m |-> IF s.head = NULL THEN c.m ELSE Set(c.m, s.last, "cont", c.p),
                  head |-> IF s.head = NULL THEN c.p ELSE s.head, last |-> c.p, ok |-> TRUE]
      r == FoldLeft(step, [m |-> m, head |-> NULL, last |-> NULL, ok |-> TRUE], Chain(m, p))
  IN  Ptr(r.m, r.head)
DupMsg(m, p) == EachBlock(m, p, DupB)
CopyMsg(m, p) == EachBlock(m, p, CopyB)
CopyBufMsg(m, p) == EachBlock(m, p, CopyBufB)

LinkB(m, p, q) == Set(m, Last(Chain(m, p)), "cont", q)
UnlinkB(m, p) == Ptr(Set(m, p, "cont", NULL), m.msg[p].cont)
RmvB(m, p, x) ==
  LET before == {y \in ToSet(Chain(m, p)) : m.msg[y].cont = x}
      cut == FoldSet(LAMBDA y, n : Set(n, y, "cont", m.msg[x].cont), m, before)
  IN  Ptr(Set(cut, x, "cont", NULL), IF p = x THEN m.msg[p].cont ELSE p)

(* adjmsg, which is only called to cut something off at the beginning. *)
AdjMsg(m, p, n) ==
  LET cut(s, x) == LET k == IF Bytes(m, x) < s.n THEN Bytes(m, x) ELSE s.n
                   IN  [m |-> Set(s.m, x, "r", m.msg[x].r + k), n |-> s.n - k]
  IN  IF XMsgSize(m, p) < n THEN m ELSE FoldLeft(cut, [m |-> m, n |-> n], Chain(m, p)).m

(* pullupm: empty blocks in front are dropped; then the first n bytes come *)
(* into one block, a new one unless the first has them all.  n < 0: the    *)
(* whole message, with room for -n bytes in front of it.                   *)
Trim(m, p) ==
  FoldLeft(LAMBDA s, x : IF s.p = x /\ Bytes(s.m, x) <= 0 /\ s.m.msg[x].cont # NULL
                         THEN Ptr(FreeB(s.m, x), s.m.msg[x].cont) ELSE s,
           Ptr(m, p), Chain(m, p))
PullStepLost(s, x) ==            \* mutant: what is left of the last block is dropped
  LET n == IF Bytes(s.m, x) < s.n THEN Bytes(s.m, x) ELSE s.n
      m == Write(s.m, s.new, SubSeq(Data(s.m, x).bytes, s.m.msg[x].r + 1, s.m.msg[x].r + n))
  IN  IF s.p # x \/ s.n = 0 THEN s
      ELSE [s EXCEPT !.m = FreeB(m, x), !.n = @ - n, !.p = s.m.msg[x].cont]
PullStep(s, x) ==
  LET n == IF Bytes(s.m, x) < s.n THEN Bytes(s.m, x) ELSE s.n
      m == Write(s.m, s.new, SubSeq(Data(s.m, x).bytes, s.m.msg[x].r + 1, s.m.msg[x].r + n))
  IN  IF s.p # x \/ s.n = 0 THEN s
      ELSE IF n < Bytes(s.m, x) THEN [s EXCEPT !.m = Set(m, x, "r", m.msg[x].r + n), !.n = 0]
      ELSE [s EXCEPT !.m = FreeB(m, x), !.n = @ - n, !.p = s.m.msg[x].cont]
Pulled(m, p, offset, length) ==
  LET a == AllocB(m, offset + length)
      start == [a.m EXCEPT !.msg[a.p].r = offset, !.msg[a.p].w = offset,
                           !.data[a.m.msg[a.p].data].type = Data(m, p).type]
      r == FoldLeft(PullStep, [m |-> start, p |-> p, new |-> a.p, n |-> length], Chain(m, p))
      skip == r.p # NULL /\ Bytes(r.m, r.p) <= 0
  IN  IF a.p = NULL THEN Ptr(m, NULL)
      ELSE IF skip THEN Ptr(FreeB(Set(r.m, a.p, "cont", r.m.msg[r.p].cont), r.p), a.p)
      ELSE Ptr(Set(r.m, a.p, "cont", r.p), a.p)
PullUpM(m, q, n) ==
  LET t == Trim(m, q)   p == t.p
      offset == IF n < 0 THEN -n ELSE 0
      length == IF n < 0 THEN DSize(t.m, p) ELSE n
  IN  IF n = 0 /\ t.m.msg[p].cont = NULL
      THEN IF Bytes(t.m, p) <= 0 THEN Ptr(FreeB(t.m, p), NULL) ELSE t
      ELSE IF Bytes(t.m, p) >= length /\ offset <= t.m.msg[p].r THEN t
      ELSE Pulled(t.m, p, offset, length)

-----------------------------------------------------------------------------
(* The list of a queue, linked in both directions. *)
Urgent(m, x) == Data(m, x).type = "pri"                          \* queclass
NoLess(m, x, y) == Urgent(m, x) \/ ~Urgent(m, y)
List(m, q) == Walk([x \in DOMAIN m.msg |-> m.msg[x].next], q.first)
Sizes(m, x) == FoldLeft(LAMBDA n, y : n + Data(m, y).size, 0, Chain(m, x))
With(m, q) == [m |-> m, q |-> q]
PutPost(w, x) == [w EXCEPT !.q.count = @ + Sizes(w.m, x)]
RmvPost(w, x) == [w EXCEPT !.q.count = @ - Sizes(w.m, x)]

Between(m, q, a, x, b) ==        \* x between a and b, of which either may be NULL
  LET m1 == Set(Set(m, x, "prev", a), x, "next", b)
      m2 == IF a = NULL THEN m1 ELSE Set(m1, a, "next", x)
      m3 == IF b = NULL THEN m2 ELSE Set(m2, b, "prev", x)
  IN  With(m3, [q EXCEPT !.first = IF a = NULL THEN x ELSE @, !.last = IF b = NULL THEN x ELSE @])
InsQ(m, q, old, x) == PutPost(Between(m, q, IF old = NULL THEN q.last ELSE m.msg[old].prev, x, old), x)
AppQ(m, q, old, x) == PutPost(Between(m, q, old, x, IF old = NULL THEN q.first ELSE m.msg[old].next), x)

(* putq goes behind the messages that are no less urgent, putbq in front   *)
(* of those that are no more urgent.                                       *)
PutQ(m, q, x) ==
  LET less == SelectInSeq(List(m, q), LAMBDA y : ~NoLess(m, y, x))
  IN  InsQ(m, q, IF less = 0 THEN NULL ELSE List(m, q)[less], x)
PutBQ(m, q, x) ==
  LET more == SelectLastInSeq(List(m, q), LAMBDA y : ~NoLess(m, x, y))
  IN  AppQ(m, q, IF more = 0 THEN NULL ELSE List(m, q)[more], x)

Unlinked(m, q, x) ==             \* rmvq, and getq for the first message
  LET a == m.msg[x].prev   b == m.msg[x].next
      m1 == IF a = NULL THEN m ELSE Set(m, a, "next", b)
      m2 == IF b = NULL THEN m1 ELSE Set(m1, b, "prev", a)
      m3 == Set(Set(m2, x, "prev", NULL), x, "next", NULL)
  IN  With(m3, [q EXCEPT !.first = IF a = NULL THEN b ELSE @, !.last = IF b = NULL THEN a ELSE @])
RmvQ(m, q, x) == RmvPost(Unlinked(m, q, x), x)
FlushQ(m, q, all) ==
  FoldLeft(LAMBDA w, x : IF ~all /\ Data(w.m, x).type # "data" THEN PutQ(w.m, w.q, x)
                         ELSE With(FreeMsg(w.m, x), w.q),
           With(m, [first |-> NULL, last |-> NULL, count |-> 0]), List(m, q))

-----------------------------------------------------------------------------
(* A routine of the module. *)
Init ==
  /\ memory = [msg |-> <<>>, data |-> <<>>, left |-> 0]
  /\ held = [s \in Slots |-> NULL] /\ said = [s \in Slots |-> <<>>]
  /\ queue = [first |-> NULL, last |-> NULL, count |-> 0] /\ line = <<>>
  /\ made = 0

With0(n) == [memory EXCEPT !.left = n]
Plenty == 2 * Cardinality(Headers)
Now(m) == memory' = [m EXCEPT !.left = 0]
Keep(s, p, t) == held' = [held EXCEPT ![s] = p] /\ said' = [said EXCEPT ![s] = IF p = NULL THEN <<>> ELSE t]
Free2(s, t) == held[s] # NULL /\ held[t] = NULL
Making == made < MaxMade /\ made' = made + 1
Makes == Making /\ UNCHANGED <<queue, line>>
Rest == UNCHANGED <<queue, line, made>>

Allocate(s, t, spare, type) ==   \* allocb, and the message is written
  /\ held[s] = NULL
  /\ \E n \in Lefts :
       LET a == AllocB(With0(n), Len(t) + spare)
       IN  /\ Now(IF a.p = NULL THEN a.m
                  ELSE [Write(a.m, a.p, t) EXCEPT !.data[a.m.msg[a.p].data].type = type])
           /\ Keep(s, a.p, t)
  /\ Makes
Duplicate(s, t) ==
  /\ Free2(s, t)
  /\ Cardinality(Headers \ DOMAIN memory.msg) >= Len(Chain(memory, held[s]))
  /\ LET a == DupMsg(With0(Plenty), held[s]) IN Now(a.m) /\ Keep(t, a.p, said[s])
  /\ Makes
Copied(s, t) ==
  /\ Free2(s, t)
  /\ \E n \in Lefts : LET a == CopyMsg(With0(n), held[s]) IN Now(a.m) /\ Keep(t, a.p, said[s])
  /\ Makes
CopiedBuf(s, t) ==
  /\ Free2(s, t)
  /\ \E n \in Lefts : LET a == CopyBufMsg(With0(n), held[s]) IN Now(a.m) /\ Keep(t, a.p, said[s])
  /\ Makes
Link(s, t) ==
  /\ s # t /\ held[s] # NULL /\ held[t] # NULL
  /\ Len(said[s]) + Len(said[t]) <= MaxText
  /\ Now(LinkB(memory, held[s], held[t]))
  /\ held' = [held EXCEPT ![t] = NULL]
  /\ said' = [said EXCEPT ![s] = @ \o said[t], ![t] = <<>>]
  /\ Rest
Split(s, t) ==                   \* unlinkb: the header of a message is taken off
  /\ Free2(s, t) /\ memory.msg[held[s]].cont # NULL
  /\ LET a == UnlinkB(memory, held[s])   n == Bytes(memory, held[s])
     IN  /\ Now(a.m)
         /\ held' = [held EXCEPT ![t] = a.p]
         /\ said' = [said EXCEPT ![s] = SubSeq(@, 1, n), ![t] = SubSeq(said[s], n + 1, Len(said[s]))]
  /\ Rest
TakeOut(s, t) ==                 \* rmvb: the second block
  /\ Free2(s, t) /\ memory.msg[held[s]].cont # NULL
  /\ LET x == memory.msg[held[s]].cont   a == RmvB(memory, held[s], x)
         i == Bytes(memory, held[s])   j == i + Bytes(memory, x)
     IN  /\ Now(a.m)
         /\ held' = [held EXCEPT ![s] = a.p, ![t] = x]
         /\ said' = [said EXCEPT ![s] = SubSeq(@, 1, i) \o SubSeq(@, j + 1, Len(@)),
                                 ![t] = SubSeq(said[s], i + 1, j)]
  /\ Rest
Release(s) == held[s] # NULL /\ Now(FreeMsg(memory, held[s])) /\ Keep(s, NULL, <<>>) /\ Rest
Adjust(s, n) ==
  /\ held[s] # NULL /\ n > 0
  /\ Now(AdjMsg(memory, held[s], n))
  /\ Keep(s, held[s], IF XMsgSize(memory, held[s]) < n THEN said[s] ELSE SubSeq(said[s], n + 1, Len(said[s])))
  /\ Rest
PullUp(s, n) ==                  \* there is memory
  /\ held[s] # NULL
  /\ DOMAIN memory.msg # Headers /\ DOMAIN memory.data # Blocks
  /\ LET a == PullUpM(With0(Plenty), held[s], n) IN Now(a.m) /\ Keep(s, a.p, said[s])
  /\ Makes

(* The queue; "line" is what it should hold, as a sequence. *)
Entry(s) == [text |-> said[s], urgent |-> Urgent(memory, held[s])]
To(s, w, l) ==
  /\ Now(w.m) /\ queue' = w.q /\ line' = l /\ UNCHANGED made
  /\ Keep(s, NULL, <<>>)
From(s, x, i) ==
  LET w == RmvQ(memory, queue, x)
  IN  /\ Now(w.m) /\ queue' = w.q /\ UNCHANGED made
      /\ Keep(s, x, line[i].text) /\ line' = RemoveAt(line, i)
Urgents(l) == SelectSeq(l, LAMBDA e : e.urgent)
Others(l) == SelectSeq(l, LAMBDA e : ~e.urgent)
Sorted(l) == l = Urgents(l) \o Others(l)

Put(s) ==
  /\ held[s] # NULL /\ Sorted(line)
  /\ LET e == Entry(s)
     IN  To(s, PutQ(memory, queue, held[s]),
            IF e.urgent THEN Urgents(line) \o <<e>> \o Others(line) ELSE Append(line, e))
PutBack(s) ==
  /\ held[s] # NULL /\ Sorted(line)
  /\ LET e == Entry(s)
     IN  To(s, PutBQ(memory, queue, held[s]),
            IF e.urgent THEN <<e>> \o line ELSE Urgents(line) \o <<e>> \o Others(line))
PutFirst(s) ==                   \* as the stream head does: appq (q, NULL, mp)
  held[s] # NULL /\ To(s, AppQ(memory, queue, NULL, held[s]), <<Entry(s)>> \o line)
PutBefore(s, i) ==
  /\ held[s] # NULL /\ i \in DOMAIN line
  /\ To(s, InsQ(memory, queue, List(memory, queue)[i], held[s]), InsertAt(line, i, Entry(s)))
Get(s) == held[s] = NULL /\ queue.first # NULL /\ From(s, queue.first, 1)
FromMiddle(s, i) == held[s] = NULL /\ i \in DOMAIN line /\ From(s, List(memory, queue)[i], i)
Flush(all) ==
  /\ LET w == FlushQ(memory, queue, all) IN Now(w.m) /\ queue' = w.q
  /\ line' = IF all THEN <<>> ELSE Urgents(line)
  /\ UNCHANGED <<held, said, made>>

Next ==
  \/ \E s \in Slots :
       \/ \E t \in Texts, n \in Spare, type \in {"data", "pri"} : Allocate(s, t, n, type)
       \/ \E t \in Slots : \/ Duplicate(s, t) \/ Copied(s, t) \/ CopiedBuf(s, t)
                           \/ Link(s, t) \/ Split(s, t) \/ TakeOut(s, t)
       \/ Release(s) \/ Put(s) \/ PutBack(s) \/ PutFirst(s) \/ Get(s)
       \/ \E n \in Pulls : Adjust(s, n) \/ PullUp(s, n)
       \/ \E i \in 1 .. Cardinality(Headers) : PutBefore(s, i) \/ FromMiddle(s, i)
  \/ \E all \in BOOLEAN : Flush(all)

Spec == Init /\ [][Next]_vars

-----------------------------------------------------------------------------
(* A message says what was written into it, whatever was done since with   *)
(* the messages it shares its blocks with, and through pullupm, linkb and  *)
(* the rest; the queue holds its messages in the order in which they were  *)
(* put, urgent ones first, reads the same from both ends, and q_count is   *)
(* the size of all the blocks in it (streams_sys.c:977-1101, 1384-1703).   *)
MessagesKept ==
  LET l == List(memory, queue)
  IN  /\ \A s \in Slots : held[s] # NULL => Text(memory, held[s]) = said[s]
      /\ [i \in DOMAIN l |-> [text |-> Text(memory, l[i]), urgent |-> Urgent(memory, l[i])]] = line
      /\ Walk([x \in DOMAIN memory.msg |-> memory.msg[x].prev], queue.last) = Reverse(l)
      /\ queue.count = FoldLeft(LAMBDA n, x : n + Sizes(memory, x), 0, l)

(* No header and no block is lost or freed twice: every header belongs to  *)
(* exactly one message that somebody holds, and a block counts the headers *)
(* that point to it, also after a copy was given up half-way               *)
(* (streams_sys.c:194-249, 385-598).                                       *)
NothingLeaks ==
  LET heads == {held[s] : s \in {t \in Slots : held[t] # NULL}} \cup ToSet(List(memory, queue))
      all == FoldSet(LAMBDA p, c : c \o Chain(memory, p), <<>>, heads)
  IN  /\ IsInjective(all) /\ ToSet(all) = DOMAIN memory.msg
      /\ \A d \in DOMAIN memory.data :
           memory.data[d].refs = Cardinality({x \in DOMAIN memory.msg : memory.msg[x].data = d})
      /\ \A x \in DOMAIN memory.msg : memory.msg[x].data \in DOMAIN memory.data
=============================================================================
