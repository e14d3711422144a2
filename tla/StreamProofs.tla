---------------------------- MODULE StreamProofs ----------------------------
(***************************************************************************)
(* Theorems about Stream: no message is left waiting without somebody who  *)
(* will serve its queue, an ioctl returns its own reply, and data arrive   *)
(* in order and complete, for all water marks, processes and modules.      *)
(* First the operators of Queues, one lemma per function of streams_sys.c, *)
(* then the head, then the actions; for the data again, after the theory   *)
(* of the sequences they need, in the same order.                          *)
(***************************************************************************)
EXTENDS Stream, WellFoundedInduction, TLAPS

(* What the proofs look at. *)
Parts == {"q", "count", "full", "wantw", "wantr", "enab", "sched", "retry", "running",
          "mod", "dev", "io", "ioctl", "ioctlid", "iocblk", "reply"}
Shaped(x) == /\ Parts \subseteq DOMAIN x
             /\ x.q = [q \in Queue |-> x.q[q]]
             /\ x.count \in [Queue -> Int]
(* What the queue operators leave alone. *)
Frame(x, y) == /\ DOMAIN y = DOMAIN x
               /\ y.mod = x.mod /\ y.dev = x.dev /\ y.running = x.running
               /\ y.io = x.io /\ y.ioctl = x.ioctl /\ y.ioctlid = x.ioctlid
               /\ y.iocblk = x.iocblk /\ y.reply = x.reply

LEMMA FrameTransitive ==
  ASSUME NEW x, NEW y, NEW z, Frame(x, y), Frame(y, z)
  PROVE  Frame(x, z)
BY DEF Frame

-----------------------------------------------------------------------------
(* How the queues of an open stream are linked.                            *)
Served(x) == {"wh", "dw", "dr"} \cup (IF x.mod = "buffer" THEN {"bw", "br"} ELSE {})

LEMMA Links ==
  ASSUME NEW x, x.dev
  PROVE  /\ Below(x, "wh") = IF x.mod = "buffer" THEN "bw" ELSE "dw"
         /\ Below(x, "bw") = "dw"
         /\ Below(x, "dr") = IF x.mod = "buffer" THEN "br" ELSE "rh"
         /\ Below(x, "br") = "rh"
BY DEF Below, QNext, HasService, NoQueue

LEMMA FeederFound ==
  ASSUME NEW x, x.dev, NEW p \in Served(x) \ {"dw"}
  PROVE  Below(x, p) \in Queue /\ Feeder(x, Below(x, p)) = p /\ HasService(x, p)
<1> DEFINE n == Below(x, p)
           fed == {r \in Queue : HasService(x, r) /\ Below(x, r) = n /\ x.dev
                                  /\ (r \in {"bw", "br"} => x.mod # "none")}
<1>1. Below(x, "dw") = NoQueue /\ Below(x, "rh") = NoQueue
  BY DEF Below, QNext, HasService, NoQueue
<1>2. n \in Queue /\ HasService(x, p)
  BY Links DEF Served, Queue, HasService
<1>3. fed = {p}
  BY Links, <1>1, <1>2 DEF Served, Queue, HasService, NoQueue
<1>4. Feeder(x, n) = p
  BY <1>3 DEF Feeder
<1> QED BY <1>2, <1>4

-----------------------------------------------------------------------------
(* A queue is attended if it is on the run list, due for a retry or being  *)
(* served, or if it has left word with the next queue, which drains.       *)
HeldUp(x, p) == Below(x, p) \in x.wantw /\ x.count[Below(x, p)] > Lowat[Below(x, p)]
Attended(x, p) == \/ p \in x.enab \cup x.retry \cup {x.running}
                  \/ p # "dw" /\ HeldUp(x, p)
FullOK(x) == x.full \subseteq Queue /\ \A p \in x.full : x.count[p] > Hiwat[p]

(* y is x with other contents of q, and nobody who waits is left behind. *)
Keeps(x, y, q) ==
  /\ Shaped(y) /\ FullOK(y) /\ Frame(x, y)
  /\ x.enab \subseteq y.enab /\ y.retry = x.retry
  /\ \A p \in Queue \ {q} : /\ y.q[p] = x.q[p] /\ y.count[p] = x.count[p]
                            /\ p \in x.wantr => p \in y.wantr
  /\ \A p \in Served(x) \ {"dw"} : HeldUp(x, p) => p \in y.enab \/ HeldUp(y, p)
(* y is x with other contents of q. *)
Alters(x, y, q) ==
  /\ Shaped(y) /\ FullOK(y) /\ Frame(x, y)
  /\ x.enab \subseteq y.enab /\ y.retry = x.retry /\ y.wantw = x.wantw
  /\ \A p \in Queue \ {q} : /\ y.q[p] = x.q[p] /\ y.count[p] = x.count[p]
                            /\ p \in x.wantr => p \in y.wantr

LEMMA SameBelow ==
  ASSUME NEW x, NEW y, Frame(x, y), NEW p
  PROVE  /\ Below(y, p) = Below(x, p) /\ Feeder(y, p) = Feeder(x, p)
         /\ HasService(y, p) <=> HasService(x, p)
<1> DEFINE fed(z) == {r \in Queue : HasService(z, r) /\ Below(z, r) = p /\ z.dev
                                     /\ (r \in {"bw", "br"} => z.mod # "none")}
<1>1. \A r : QNext(y, r) = QNext(x, r) /\ (HasService(y, r) <=> HasService(x, r))
  BY DEF QNext, HasService, Frame
<1>2. \A r : Below(y, r) = Below(x, r)
  BY <1>1 DEF Below
<1>3. fed(y) = fed(x)
  BY <1>1, <1>2 DEF Frame
<1> DEFINE pick(S) == IF S = {} THEN NoQueue ELSE CHOOSE r \in S : TRUE
<1>4. Feeder(y, p) = pick(fed(y)) /\ Feeder(x, p) = pick(fed(x))
  BY DEF Feeder
<1>5. pick(fed(y)) = pick(fed(x))
  <2> HIDE DEF fed
  <2> QED BY <1>3
<1> HIDE DEF pick, fed
<1> QED BY <1>1, <1>2, <1>4, <1>5

LEMMA EnableOK ==
  ASSUME NEW x, Shaped(x), NEW q
  PROVE  /\ Shaped(Enable(x, q)) /\ Frame(x, Enable(x, q))
         /\ x.enab \subseteq Enable(x, q).enab
         /\ q # NoQueue /\ HasService(x, q) => q \in Enable(x, q).enab
         /\ Enable(x, q).q = x.q /\ Enable(x, q).count = x.count
         /\ Enable(x, q).full = x.full /\ Enable(x, q).retry = x.retry
         /\ Enable(x, q).wantw = x.wantw /\ Enable(x, q).wantr = x.wantr
BY DEF Enable, Shaped, Frame, Parts

(* What is put into a queue holds nobody up who was not.                   *)
LEMMA FilledKeeps ==
  ASSUME NEW x, NEW y, NEW q \in Queue, x.dev, Shaped(x),
         Alters(x, y, q), y.count[q] >= x.count[q]
  PROVE  Keeps(x, y, q)
<1>1. ASSUME NEW p \in Served(x) \ {"dw"}, HeldUp(x, p)
      PROVE  HeldUp(y, p)
  <2>1. Below(x, p) \in Queue /\ Below(y, p) = Below(x, p)
    BY FeederFound, SameBelow DEF Alters
  <2>2. y.count[Below(x, p)] >= x.count[Below(x, p)]
    <3>1. CASE Below(x, p) = q
      BY <3>1
    <3>2. CASE Below(x, p) # q
      BY <2>1, <3>2 DEF Alters, Shaped
    <3> QED BY <3>1, <3>2
  <2>3. Lowat[Below(x, p)] \in Int
    BY <2>1, WaterMarks
  <2>4. x.count[Below(x, p)] \in Int /\ y.count[Below(x, p)] \in Int
    BY <2>1 DEF Shaped, Alters
  <2> QED BY <1>1, <2>1, <2>2, <2>3, <2>4 DEF HeldUp, Alters
<1> QED BY <1>1 DEF Keeps, Alters

(* get_post wakes who waited for the queue to drain. *)
LEMMA GetPostOK ==
  ASSUME NEW x, NEW y, NEW q \in Queue, x.dev, Alters(x, y, q)
  PROVE  /\ Keeps(x, GetPost(y, q), q)
         /\ GetPost(y, q).q = y.q /\ GetPost(y, q).count = y.count
         /\ GetPost(y, q).full = y.full /\ GetPost(y, q).wantr = y.wantr
<1> DEFINE z == GetPost(y, q)
           low == y.count[q] <= Lowat[q] /\ q \in y.wantw
           w == [y EXCEPT !.wantw = @ \ {q}]
<1>1. /\ Shaped(w) /\ Frame(y, w) /\ w.enab = y.enab /\ w.retry = y.retry
      /\ w.q = y.q /\ w.count = y.count /\ w.full = y.full /\ w.wantr = y.wantr
      /\ w.wantw = y.wantw \ {q}
  BY DEF Alters, Shaped, Frame, Parts
<1>2. z = IF low THEN Enable(w, Feeder(y, q)) ELSE y
  BY DEF GetPost
<1>3. /\ Shaped(z) /\ Frame(y, z) /\ y.enab \subseteq z.enab /\ z.retry = y.retry
      /\ z.q = y.q /\ z.count = y.count /\ z.full = y.full /\ z.wantr = y.wantr
      /\ y.wantw \ {q} \subseteq z.wantw
      /\ ~low => z = y
  <2>1. CASE low
    <3> HIDE DEF w
    <3>1. z = Enable(w, Feeder(y, q))
      BY <1>2, <2>1
    <3> HIDE DEF z
    <3>2. /\ Shaped(z) /\ Frame(w, z) /\ w.enab \subseteq z.enab /\ z.retry = w.retry
          /\ z.q = w.q /\ z.count = w.count /\ z.full = w.full /\ z.wantr = w.wantr
          /\ z.wantw = w.wantw
      BY <3>1, <1>1, EnableOK
    <3> QED BY <1>1, <3>2, <2>1, FrameTransitive
  <2>2. CASE ~low
    BY <1>2, <2>2 DEF Alters, Frame
  <2> QED BY <2>1, <2>2
<1>4. Frame(x, z)
  BY <1>3, FrameTransitive DEF Alters
<1>5. ASSUME NEW p \in Served(x) \ {"dw"}, HeldUp(x, p)
      PROVE  p \in z.enab \/ HeldUp(z, p)
  <2>1. /\ Below(x, p) \in Queue /\ Feeder(x, Below(x, p)) = p /\ HasService(x, p)
        /\ p # NoQueue
    BY FeederFound DEF Served, NoQueue
  <2>2. /\ Below(z, p) = Below(x, p) /\ Feeder(y, q) = Feeder(x, q)
        /\ HasService(w, p)
    <3> HIDE DEF z, w
    <3>1. Frame(x, w)
      BY <1>1, FrameTransitive DEF Alters
    <3> QED BY <1>4, <3>1, <2>1, SameBelow DEF Alters
  <2>3. CASE Below(x, p) # q
    <3>1. Below(x, p) \in z.wantw
      BY <1>3, <1>5, <2>3 DEF HeldUp, Alters
    <3>2. z.count[Below(x, p)] = x.count[Below(x, p)]
      BY <1>3, <2>1, <2>3 DEF Alters
    <3> QED BY <3>1, <3>2, <2>2, <1>5 DEF HeldUp
  <2>4. CASE Below(x, p) = q /\ low
    <3>1. z = Enable(w, p)
      BY <1>2, <2>4, <2>1, <2>2
    <3> HIDE DEF z, w
    <3>2. p \in Enable(w, p).enab
      <4>1. Shaped(w)
        BY <1>1
      <4>2. p # NoQueue /\ HasService(w, p)
        BY <2>1, <2>2
      <4> QED BY <4>1, <4>2, EnableOK
    <3> QED BY <3>1, <3>2
  <2>5. CASE Below(x, p) = q /\ ~low
    <3>1. z = y /\ q \in y.wantw
      BY <1>3, <2>5, <1>5 DEF HeldUp, Alters
    <3>2. y.count[q] \in Int /\ Lowat[q] \in Int
      BY WaterMarks DEF Alters, Shaped
    <3>3. y.count[q] > Lowat[q]
      BY <3>1, <3>2, <2>5
    <3> QED BY <3>1, <3>3, <2>2, <2>5 DEF HeldUp
  <2> QED BY <2>3, <2>4, <2>5
<1>6. /\ FullOK(z)
      /\ \A p \in Queue \ {q} : /\ z.q[p] = x.q[p] /\ z.count[p] = x.count[p]
                                /\ p \in x.wantr => p \in z.wantr
  <2> HIDE DEF z
  <2>1. FullOK(z)
    BY <1>3 DEF Alters, FullOK
  <2> QED BY <1>3, <2>1 DEF Alters
<1>7. x.enab \subseteq z.enab /\ z.retry = x.retry
  BY <1>3 DEF Alters
<1> HIDE DEF z
<1>8. Keeps(x, z, q)
  BY <1>3, <1>4, <1>5, <1>6, <1>7 DEF Keeps
<1> QED BY <1>3, <1>8 DEF z

LEMMA EnabKept ==
  ASSUME NEW y, Shaped(y), NEW q
  PROVE  y.enab \subseteq GetPost(y, q).enab
<1> DEFINE w == [y EXCEPT !.wantw = @ \ {q}]
<1>1. Shaped(w) /\ w.enab = y.enab
  BY DEF Shaped, Parts
<1>2. GetPost(y, q) = Enable(w, Feeder(y, q)) \/ GetPost(y, q) = y
  BY DEF GetPost
<1> HIDE DEF w
<1> QED BY <1>1, <1>2, EnableOK

-----------------------------------------------------------------------------
(* The functions of streams_sys.c: each keeps what concerns other queues.  *)
LEMMA EnableKeeps ==
  ASSUME NEW x, NEW y, NEW q, Keeps(x, y, q), NEW p
  PROVE  /\ Keeps(x, Enable(y, p), q)
         /\ Enable(y, p).q = y.q /\ Enable(y, p).wantr = y.wantr
         /\ y.enab \subseteq Enable(y, p).enab
         /\ p # NoQueue /\ HasService(x, p) => p \in Enable(y, p).enab
<1> DEFINE z == Enable(y, p)
<1>1. Shaped(y) /\ FullOK(y) /\ Frame(x, y)
  BY DEF Keeps
<1>2. /\ Shaped(z) /\ Frame(y, z) /\ y.enab \subseteq z.enab
      /\ z.q = y.q /\ z.count = y.count /\ z.full = y.full /\ z.retry = y.retry
      /\ z.wantw = y.wantw /\ z.wantr = y.wantr
  BY <1>1, EnableOK
<1>3. p # NoQueue /\ HasService(x, p) => p \in z.enab
  BY <1>1, SameBelow, EnableOK
<1> HIDE DEF z
<1>4. Frame(x, z)
  BY <1>1, <1>2, FrameTransitive
<1>5. FullOK(z)
  BY <1>1, <1>2 DEF FullOK
<1>6. ASSUME NEW r \in Served(x) \ {"dw"}, HeldUp(x, r)
      PROVE  r \in z.enab \/ HeldUp(z, r)
  <2>1. Below(z, r) = Below(y, r)
    BY <1>2, SameBelow
  <2>2. r \in y.enab \/ HeldUp(y, r)
    BY <1>6 DEF Keeps
  <2> QED BY <1>2, <2>1, <2>2 DEF HeldUp
<1>7. Keeps(x, z, q)
  BY <1>2, <1>4, <1>5, <1>6 DEF Keeps
<1> QED BY <1>2, <1>3, <1>7 DEF z

LEMMA OverOK ==
  ASSUME NEW x, Shaped(x), NEW q \in Queue, NEW n \in Int
  PROVE  /\ Shaped(Over(x, q, n)) /\ Frame(x, Over(x, q, n))
         /\ Over(x, q, n).q = x.q
         /\ Over(x, q, n).enab = x.enab /\ Over(x, q, n).retry = x.retry
         /\ Over(x, q, n).wantw = x.wantw /\ x.wantr \subseteq Over(x, q, n).wantr
         /\ Over(x, q, n).count[q] = n
         /\ \A p \in Queue \ {q} : Over(x, q, n).count[p] = x.count[p]
         /\ n > Hiwat[q] => Over(x, q, n).full = x.full \cup {q}
         /\ ~(n > Hiwat[q]) => Over(x, q, n).full = x.full
<1> DEFINE y == Over(x, q, n)
<1>1. y.count = [x.count EXCEPT ![q] = n]
  BY DEF Over, Shaped, Parts
<1>2. y.count \in [Queue -> Int]
  BY <1>1 DEF Shaped
<1>3. /\ y.q = x.q /\ y.enab = x.enab /\ y.retry = x.retry /\ y.wantw = x.wantw
      /\ x.wantr \subseteq y.wantr
      /\ y.full = IF n > Hiwat[q] THEN x.full \cup {q} ELSE x.full
  BY DEF Over, Shaped, Parts
<1>4. Frame(x, y) /\ DOMAIN y = DOMAIN x
  BY DEF Over, Shaped, Frame, Parts
<1>5. \A p \in Queue : y.count[p] = IF p = q THEN n ELSE x.count[p]
  BY <1>1 DEF Shaped
<1> HIDE DEF y
<1>6. Shaped(y)
  BY <1>2, <1>3, <1>4 DEF Shaped
<1>7. y.count[q] = n /\ \A p \in Queue \ {q} : y.count[p] = x.count[p]
  BY <1>5
<1> QED BY <1>3, <1>4, <1>6, <1>7 DEF y

(* One queue gets other contents. *)
LEMMA ContentsOK ==
  ASSUME NEW x, Shaped(x), FullOK(x), NEW q \in Queue, NEW s
  PROVE  /\ Alters(x, [x EXCEPT !.q[q] = s], q)
         /\ [x EXCEPT !.q[q] = s].q[q] = s /\ [x EXCEPT !.q[q] = s].count = x.count
         /\ [x EXCEPT !.q[q] = s].full = x.full /\ [x EXCEPT !.q[q] = s].wantr = x.wantr
<1> DEFINE y == [x EXCEPT !.q[q] = s]
<1>1. y.q = [x.q EXCEPT ![q] = s]
  BY DEF Shaped, Parts
<1>2. /\ y.count = x.count /\ y.full = x.full /\ y.wantr = x.wantr /\ y.enab = x.enab
      /\ y.retry = x.retry /\ y.wantw = x.wantw /\ DOMAIN y = DOMAIN x
  BY DEF Shaped, Parts
<1>3. Frame(x, y)
  BY DEF Shaped, Frame, Parts
<1>4. y.q = [p \in Queue |-> IF p = q THEN s ELSE x.q[p]]
  BY <1>1 DEF Shaped
<1> HIDE DEF y
<1>5. \A p \in Queue : y.q[p] = IF p = q THEN s ELSE x.q[p]
  BY <1>4
<1>6. y.q = [p \in Queue |-> y.q[p]]
  BY <1>4
<1>7. Shaped(y) /\ FullOK(y)
  BY <1>2, <1>6 DEF Shaped, FullOK
<1>8. Alters(x, y, q)
  BY <1>2, <1>3, <1>5, <1>7 DEF Alters
<1> QED BY <1>2, <1>5, <1>8 DEF y

(* putq, putbq: a message more, and a queue that wants one is scheduled. *)
LEMMA FilledOK ==
  ASSUME NEW x, Shaped(x), FullOK(x), x.dev, NEW q \in Queue, NEW s, NEW m, NEW y,
         y = Woken(Added([x EXCEPT !.q[q] = s], q, m), q, m)
  PROVE  /\ Keeps(x, y, q)
         /\ HasService(x, q) /\ q \in x.wantr => q \in y.enab
<1> DEFINE a == [x EXCEPT !.q[q] = s]
           n == a.count[q] + Size(m)
           b == Over(a, q, n)
<1>1. /\ Alters(x, a, q) /\ a.q[q] = s /\ a.count = x.count /\ a.full = x.full
      /\ a.wantr = x.wantr
  BY ContentsOK
<1>2. y = IF Urgent(m) \/ q \in b.wantr THEN Enable(b, q) ELSE b
  BY DEF Woken, Added
<1> HIDE DEF a
<1>3. n \in Int /\ n >= a.count[q]
  BY <1>1 DEF Alters, Shaped, Size
<1> HIDE DEF n
<1>4. Shaped(a)
  BY <1>1 DEF Alters
<1>5. /\ Shaped(b) /\ Frame(a, b) /\ b.q = a.q /\ b.enab = a.enab /\ b.retry = a.retry
      /\ b.wantw = a.wantw /\ a.wantr \subseteq b.wantr /\ b.count[q] = n
      /\ \A p \in Queue \ {q} : b.count[p] = a.count[p]
      /\ n > Hiwat[q] => b.full = a.full \cup {q}
      /\ ~(n > Hiwat[q]) => b.full = a.full
  BY <1>3, <1>4, OverOK
<1> HIDE DEF b
<1>6. FullOK(b)
  <2>1. ASSUME NEW p \in b.full
        PROVE  p \in Queue /\ b.count[p] > Hiwat[p]
    <3>1. CASE p = q /\ n > Hiwat[q]
      BY <3>1, <1>5
    <3>2. CASE ~(p = q /\ n > Hiwat[q])
      <4>1. p \in x.full
        BY <3>2, <2>1, <1>5, <1>1
      <4>2. p \in Queue /\ x.count[p] > Hiwat[p] /\ Hiwat[p] \in Int /\ x.count[p] \in Int
        BY <4>1, WaterMarks DEF FullOK, Shaped
      <4>3. b.count[p] = x.count[p] \/ p = q
        BY <4>2, <1>5, <1>1
      <4> QED BY <4>2, <4>3, <1>3, <1>5, <1>1
    <3> QED BY <3>1, <3>2
  <2> QED BY <2>1 DEF FullOK
<1>7. Alters(x, b, q)
  <2>1. Frame(x, b)
    BY <1>1, <1>5, FrameTransitive DEF Alters
  <2> QED BY <2>1, <1>1, <1>5, <1>6 DEF Alters
<1>8. Keeps(x, b, q)
  BY <1>1, <1>3, <1>5, <1>7, FilledKeeps
<1>9. HasService(x, q) /\ q \in x.wantr => q \in b.wantr /\ q # NoQueue
  BY <1>1, <1>5 DEF Queue, NoQueue
<1> QED BY <1>2, <1>8, <1>9, EnableKeeps

LEMMA PutQOK ==
  ASSUME NEW x, Shaped(x), FullOK(x), x.dev, NEW q \in Queue, NEW m
  PROVE  /\ Keeps(x, PutQ(x, q, m), q)
         /\ HasService(x, q) /\ q \in x.wantr => q \in PutQ(x, q, m).enab
<1>1. [x EXCEPT !.q[q] = Ahead(@, m) \o <<m>> \o Behind(@, m)]
        = [x EXCEPT !.q[q] = Ahead(x.q[q], m) \o <<m>> \o Behind(x.q[q], m)]
  OBVIOUS
<1>2. PutQ(x, q, m) = Woken(Added([x EXCEPT !.q[q] = Ahead(x.q[q], m) \o <<m>>
                                                  \o Behind(x.q[q], m)], q, m), q, m)
  BY <1>1 DEF PutQ
<1> QED BY <1>2, FilledOK

LEMMA PutBackOK ==
  ASSUME NEW x, Shaped(x), FullOK(x), x.dev, NEW q \in Queue, NEW m
  PROVE  Keeps(x, PutBack(x, q, m), q)
<1> DEFINE first == IF Urgent(m) THEN <<>> ELSE OfKind(x.q[q], Urgents)
           rest == IF Urgent(m) THEN x.q[q]
                   ELSE OfKind(x.q[q], Ordinary)
           s == first \o <<m>> \o rest
<1>1. PutBack(x, q, m) = Woken(Added([x EXCEPT !.q[q] = s], q, m), q, m)
  BY DEF PutBack
<1> HIDE DEF s
<1> QED BY <1>1, FilledOK

LEMMA GetQOK ==
  ASSUME NEW x, Shaped(x), FullOK(x), x.dev, NEW q \in Queue
  PROVE  /\ Keeps(x, GetQ(x, q), q)
         /\ x.q[q] = <<>> => GetQ(x, q).q[q] = <<>> /\ q \in GetQ(x, q).wantr
<1>1. CASE x.q[q] = <<>>
  <2> DEFINE y == [x EXCEPT !.wantr = @ \cup {q}]
  <2>1. GetQ(x, q) = GetPost(y, q)
    BY <1>1 DEF GetQ
  <2>2. /\ y.q = x.q /\ y.count = x.count /\ y.full = x.full /\ y.enab = x.enab
        /\ y.retry = x.retry /\ y.wantw = x.wantw /\ y.wantr = x.wantr \cup {q}
        /\ DOMAIN y = DOMAIN x /\ Frame(x, y)
    BY DEF Shaped, Frame, Parts
  <2> HIDE DEF y
  <2>3. Alters(x, y, q)
    BY <2>2 DEF Alters, Shaped, FullOK
  <2> QED BY <1>1, <2>1, <2>2, <2>3, GetPostOK
<1>2. CASE x.q[q] # <<>>
  <2> DEFINE a == [x EXCEPT !.q[q] = Tail(x.q[q])]
             b == [a EXCEPT !.wantr = @ \ {q}]
             m == Head(x.q[q])
             n == b.count[q] - Size(m)
             y == [b EXCEPT !.count[q] = n,
                            !.full = IF n <= Hiwat[q] THEN @ \ {q} ELSE @]
  <2>0. [x EXCEPT !.q[q] = Tail(@), !.wantr = @ \ {q}] = b
    BY DEF Shaped, Parts
  <2>1. GetQ(x, q) = GetPost(y, q)
    BY <1>2, <2>0 DEF GetQ, Removed
  <2>2. Alters(x, a, q) /\ a.count = x.count /\ a.full = x.full /\ a.wantr = x.wantr
    BY ContentsOK
  <2> HIDE DEF a
  <2>3. /\ b.q = a.q /\ b.count = a.count /\ b.full = a.full /\ b.enab = a.enab
        /\ b.retry = a.retry /\ b.wantw = a.wantw /\ b.wantr = a.wantr \ {q}
        /\ DOMAIN b = DOMAIN a /\ Frame(a, b) /\ Shaped(b)
    BY <2>2 DEF Alters, Shaped, Frame, Parts
  <2> HIDE DEF b
  <2>4. n \in Int
    BY <2>3 DEF Shaped, Size
  <2> HIDE DEF n
  <2>5. /\ y.q = b.q /\ y.count = [b.count EXCEPT ![q] = n] /\ y.enab = b.enab
        /\ y.full = (IF n <= Hiwat[q] THEN b.full \ {q} ELSE b.full)
        /\ y.retry = b.retry /\ y.wantw = b.wantw /\ y.wantr = b.wantr
        /\ DOMAIN y = DOMAIN b /\ Frame(b, y)
    BY <2>3 DEF Shaped, Frame, Parts
  <2> HIDE DEF y
  <2>6. Shaped(y) /\ \A p \in Queue : y.count[p] = IF p = q THEN n ELSE x.count[p]
    BY <2>2, <2>3, <2>4, <2>5 DEF Shaped
  <2>7. FullOK(y)
    <3>1. ASSUME NEW p \in y.full
          PROVE  p \in Queue /\ y.count[p] > Hiwat[p]
      <4>1. p \in x.full /\ p \in Queue /\ x.count[p] > Hiwat[p]
        BY <3>1, <2>2, <2>3, <2>5 DEF FullOK
      <4>2. p = q => ~(n <= Hiwat[q])
        BY <3>1, <2>5
      <4>3. Hiwat[p] \in Int
        BY <4>1, WaterMarks
      <4> QED BY <4>1, <4>2, <4>3, <2>4, <2>6
    <3> QED BY <3>1 DEF FullOK
  <2>8. Frame(x, y)
    <3>1. Frame(x, b)
      BY <2>2, <2>3, FrameTransitive DEF Alters
    <3> QED BY <3>1, <2>5, FrameTransitive
  <2>9. Alters(x, y, q)
    <3>1. \A p \in Queue \ {q} : /\ y.q[p] = x.q[p] /\ y.count[p] = x.count[p]
                                 /\ p \in x.wantr => p \in y.wantr
      BY <2>2, <2>3, <2>5, <2>6 DEF Alters
    <3>2. x.enab \subseteq y.enab /\ y.retry = x.retry /\ y.wantw = x.wantw
      BY <2>2, <2>3, <2>5 DEF Alters
    <3> QED BY <3>1, <3>2, <2>6, <2>7, <2>8 DEF Alters
  <2> QED BY <1>2, <2>1, <2>9, GetPostOK
<1> QED BY <1>1, <1>2

LEMMA EmptiedOK ==
  ASSUME NEW x, Shaped(x), FullOK(x), NEW q \in Queue
  PROVE  /\ Alters(x, Emptied(x, q), q)
         /\ Emptied(x, q).q[q] = <<>> /\ Emptied(x, q).count[q] = 0
         /\ q \notin Emptied(x, q).full /\ Emptied(x, q).wantr = x.wantr
         /\ Emptied(x, q).full \subseteq x.full
<1> DEFINE none == <<>>
           a == [x EXCEPT !.q[q] = none]
           y == [a EXCEPT !.count[q] = 0, !.full = @ \ {q}]
<1>1. Emptied(x, q) = y
  BY DEF Emptied, Shaped, Parts
<1> HIDE DEF none
<1>2. /\ Alters(x, a, q) /\ a.q[q] = none /\ a.count = x.count /\ a.full = x.full
      /\ a.wantr = x.wantr
  BY ContentsOK
<1> HIDE DEF a
<1>3. /\ y.q = a.q /\ y.count = [a.count EXCEPT ![q] = 0] /\ y.enab = a.enab
      /\ y.full = a.full \ {q}
      /\ y.retry = a.retry /\ y.wantw = a.wantw /\ y.wantr = a.wantr
      /\ DOMAIN y = DOMAIN a /\ Frame(a, y)
  BY <1>2 DEF Alters, Shaped, Frame, Parts
<1> HIDE DEF y
<1>4. Shaped(y) /\ \A p \in Queue : y.count[p] = IF p = q THEN 0 ELSE x.count[p]
  BY <1>2, <1>3 DEF Alters, Shaped
<1>5. FullOK(y)
  BY <1>2, <1>3, <1>4 DEF FullOK
<1>6. Frame(x, y)
  BY <1>2, <1>3, FrameTransitive DEF Alters
<1>7. Alters(x, y, q)
  BY <1>2, <1>3, <1>4, <1>5, <1>6 DEF Alters
<1> QED BY <1>1, <1>2, <1>3, <1>4, <1>7 DEF none

LEMMA RefilledOK ==
  ASSUME NEW x, Shaped(x), FullOK(x), x.dev, NEW q \in Queue, NEW s
  PROVE  /\ Alters(x, Refilled(x, q, s), q)
         /\ HasService(x, q) /\ q \in x.wantr => q \in Refilled(x, q, s).enab
<1> DEFINE a == Emptied(x, q)
           c == OfKind(s, Urgents) \o OfKind(s, Ordinary)
           b == [a EXCEPT !.q[q] = c]
           n == Len(OfKind(s, Ordinary \cup {"ack"}))
           y == Over(b, q, n)
<1>1. Refilled(x, q, s) = y \/ Refilled(x, q, s) = Enable(y, q)
  BY DEF Refilled
<1>2. q \in y.wantr => Refilled(x, q, s) = Enable(y, q)
  BY DEF Refilled
<1>3. n \in Int
  BY SMT
<1> HIDE DEF n, c
<1>4. /\ Alters(x, a, q) /\ a.count[q] = 0 /\ q \notin a.full /\ a.wantr = x.wantr
      /\ a.full \subseteq x.full
  BY EmptiedOK
<1> HIDE DEF a
<1>5. Alters(a, b, q) /\ b.count = a.count /\ b.full = a.full /\ b.wantr = a.wantr
  BY <1>4, ContentsOK DEF Alters
<1> HIDE DEF b
<1>6. Shaped(b)
  BY <1>5 DEF Alters
<1>7. /\ Shaped(y) /\ Frame(b, y) /\ y.q = b.q /\ y.enab = b.enab /\ y.retry = b.retry
      /\ y.wantw = b.wantw /\ b.wantr \subseteq y.wantr /\ y.count[q] = n
      /\ \A p \in Queue \ {q} : y.count[p] = b.count[p]
      /\ n > Hiwat[q] => y.full = b.full \cup {q}
      /\ ~(n > Hiwat[q]) => y.full = b.full
  BY <1>3, <1>6, OverOK
<1> HIDE DEF y
<1>8. FullOK(y)
  <2>1. ASSUME NEW p \in y.full
        PROVE  p \in Queue /\ y.count[p] > Hiwat[p]
    <3>1. CASE p = q
      BY <3>1, <2>1, <1>4, <1>5, <1>7
    <3>2. CASE p # q
      <4>1. p \in a.full
        BY <3>2, <2>1, <1>5, <1>7
      <4> QED BY <4>1, <3>2, <1>4, <1>5, <1>7 DEF Alters, FullOK
    <3> QED BY <3>1, <3>2
  <2> QED BY <2>1 DEF FullOK
<1>9. Frame(x, y)
  <2>1. Frame(x, b)
    BY <1>4, <1>5, FrameTransitive DEF Alters
  <2> QED BY <2>1, <1>7, FrameTransitive
<1>10. Alters(x, y, q)
  <2>1. \A p \in Queue \ {q} : /\ y.q[p] = x.q[p] /\ y.count[p] = x.count[p]
                               /\ p \in x.wantr => p \in y.wantr
    BY <1>4, <1>5, <1>7 DEF Alters
  <2>2. x.enab \subseteq y.enab /\ y.retry = x.retry /\ y.wantw = x.wantw
    BY <1>4, <1>5, <1>7 DEF Alters
  <2> QED BY <2>1, <2>2, <1>7, <1>8, <1>9 DEF Alters
<1>11. q \in x.wantr => q \in y.wantr
  BY <1>4, <1>5, <1>7
<1>12. Shaped(y) /\ q # NoQueue
  BY <1>7 DEF Queue, NoQueue
<1> DEFINE z == Enable(y, q)
<1>13. /\ Shaped(z) /\ Frame(y, z) /\ y.enab \subseteq z.enab
       /\ HasService(y, q) => q \in z.enab
       /\ z.q = y.q /\ z.count = y.count /\ z.full = y.full /\ z.retry = y.retry
       /\ z.wantw = y.wantw /\ z.wantr = y.wantr
  BY <1>12, EnableOK
<1>14. HasService(y, q) <=> HasService(x, q)
  BY <1>9, SameBelow
<1> HIDE DEF z
<1>15. Frame(x, z) /\ FullOK(z)
  BY <1>8, <1>9, <1>13, FrameTransitive DEF FullOK
<1>16. Alters(x, z, q)
  BY <1>10, <1>13, <1>15 DEF Alters
<1>17. Refilled(x, q, s) = y \/ Refilled(x, q, s) = z
  BY <1>1 DEF z
<1>18. q \in x.wantr => Refilled(x, q, s) = z
  BY <1>2, <1>11 DEF z
<1> QED BY <1>10, <1>13, <1>14, <1>16, <1>17, <1>18

LEMMA FlushOK ==
  ASSUME NEW x, Shaped(x), FullOK(x), x.dev, NEW q \in Queue, NEW all
  PROVE  /\ Keeps(x, Flush(x, q, all), q)
         /\ HasService(x, q) /\ q \in x.wantr =>
              \/ q \in Flush(x, q, all).enab
              \/ Flush(x, q, all).q[q] = <<>> /\ q \in Flush(x, q, all).wantr
         /\ all = TRUE => Flush(x, q, all).q[q] = <<>> /\ Flush(x, q, all).count[q] = 0
<1> DEFINE kept == Kept(x, q, all)
<1>1. CASE kept = <<>>
  <2> DEFINE y == Emptied(x, q)
  <2>1. Flush(x, q, all) = GetPost(y, q)
    BY <1>1 DEF Flush
  <2>2. Alters(x, y, q) /\ y.q[q] = <<>> /\ y.count[q] = 0 /\ y.wantr = x.wantr
    BY EmptiedOK
  <2> HIDE DEF y
  <2> QED BY <2>1, <2>2, GetPostOK
<1>2. CASE kept # <<>>
  <2> DEFINE y == Refilled(x, q, kept)
  <2>1. Flush(x, q, all) = GetPost(y, q)
    BY <1>2 DEF Flush
  <2>2. Alters(x, y, q) /\ (HasService(x, q) /\ q \in x.wantr => q \in y.enab)
    BY RefilledOK
  <2>3. all # TRUE
    BY <1>2 DEF Kept
  <2> HIDE DEF y
  <2>4. Keeps(x, GetPost(y, q), q)
    BY <2>2, GetPostOK
  <2>5. y.enab \subseteq GetPost(y, q).enab
    BY <2>2, EnabKept DEF Alters
  <2> QED BY <2>1, <2>2, <2>3, <2>4, <2>5
<1> QED BY <1>1, <1>2

-----------------------------------------------------------------------------
(* An open stream on which nobody waits for ever: a queue that is served   *)
(* is attended, or it is empty and its next message schedules it. *)
Tended(x, p) == Attended(x, p) \/ (x.q[p] = <<>> /\ p \in x.wantr)
Bare(x) == x.mod # "buffer" => x.q["bw"] = <<>> /\ x.q["br"] = <<>>
Fine(x) == /\ Shaped(x) /\ x.dev /\ FullOK(x) /\ x.retry \subseteq {"dw"} /\ Bare(x)
           /\ \A p \in Served(x) : Tended(x, p)

LEMMA ServedOK ==
  ASSUME NEW x, NEW p \in Served(x)
  PROVE  p \in Queue /\ p # NoQueue /\ HasService(x, p) /\ p # "rh"
BY DEF Served, Queue, NoQueue, HasService

LEMMA KeepsTended ==
  ASSUME NEW x, NEW y, NEW q, Keeps(x, y, q), NEW p \in Served(x)
  PROVE  /\ Attended(x, p) => Attended(y, p)
         /\ p # q /\ Tended(x, p) => Tended(y, p)
<1>1. Attended(x, p) => Attended(y, p)
  BY DEF Keeps, Attended, Frame
<1>2. p # q /\ x.q[p] = <<>> /\ p \in x.wantr => y.q[p] = <<>> /\ p \in y.wantr
  BY ServedOK DEF Keeps
<1> QED BY <1>1, <1>2 DEF Tended

LEMMA KeepsFine ==
  ASSUME NEW x, NEW y, NEW q \in Queue, Fine(x), Keeps(x, y, q),
         q \in Served(x) => Tended(y, q),
         q \in {"bw", "br"} /\ x.mod # "buffer" => y.q[q] = <<>>
  PROVE  Fine(y)
<1>1. Served(y) = Served(x)
  BY DEF Keeps, Frame, Served
<1>2. \A p \in Served(y) : Tended(y, p)
  BY <1>1, KeepsTended DEF Fine
<1>3. Bare(y)
  BY DEF Fine, Keeps, Frame, Bare, Queue
<1>4. Shaped(y) /\ y.dev /\ FullOK(y) /\ y.retry \subseteq {"dw"}
  BY DEF Fine, Keeps, Frame
<1> QED BY <1>2, <1>3, <1>4 DEF Fine

LEMMA PutQFine ==
  ASSUME NEW x, Fine(x), NEW q \in Served(x) \cup {"rh"}, NEW m
  PROVE  Fine(PutQ(x, q, m)) /\ Frame(x, PutQ(x, q, m))
<1>1. q \in Queue /\ (q \in Served(x) => HasService(x, q) /\ q # "rh")
  BY ServedOK DEF Queue
<1>2. Shaped(x) /\ FullOK(x) /\ x.dev
  BY DEF Fine
<1> DEFINE y == PutQ(x, q, m)
<1>3. Keeps(x, y, q) /\ (HasService(x, q) /\ q \in x.wantr => q \in y.enab)
  BY <1>1, <1>2, PutQOK
<1> HIDE DEF y
<1>4. ASSUME q \in Served(x)
      PROVE  Tended(y, q)
  <2>1. CASE Attended(x, q)
    BY <1>3, <1>4, <2>1, KeepsTended DEF Tended
  <2>2. CASE ~Attended(x, q)
    <3>1. q \in x.wantr
      BY <1>4, <2>2 DEF Fine, Tended
    <3> QED BY <3>1, <1>1, <1>3, <1>4 DEF Tended, Attended
  <2> QED BY <2>1, <2>2
<1>5. ~(q \in {"bw", "br"} /\ x.mod # "buffer")
  BY DEF Served
<1>6. Fine(y)
  BY <1>1, <1>3, <1>4, <1>5, KeepsFine
<1> QED BY <1>3, <1>6 DEF Keeps, y

(* A queue is read by its service procedure, the head's by streams_read. *)
LEMMA GetQFine ==
  ASSUME NEW x, Fine(x), NEW q \in Queue, q \in {x.running, "rh"},
         q \in {"bw", "br"} /\ x.mod # "buffer" => x.q[q] = <<>>
  PROVE  /\ Fine(GetQ(x, q)) /\ Frame(x, GetQ(x, q))
         /\ x.q[q] = <<>> => GetQ(x, q).q[q] = <<>> /\ q \in GetQ(x, q).wantr
<1>1. Shaped(x) /\ FullOK(x) /\ x.dev
  BY DEF Fine
<1> DEFINE y == GetQ(x, q)
<1>2. Keeps(x, y, q) /\ (x.q[q] = <<>> => y.q[q] = <<>> /\ q \in y.wantr)
  BY <1>1, GetQOK
<1> HIDE DEF y
<1>3. ASSUME q \in Served(x)
      PROVE  Tended(y, q)
  BY <1>2, <1>3, ServedOK DEF Tended, Attended, Keeps, Frame
<1>4. Fine(y)
  BY <1>2, <1>3, KeepsFine
<1> QED BY <1>2, <1>4 DEF Keeps, y

LEMMA FlushFine ==
  ASSUME NEW x, Fine(x), NEW q \in Served(x) \cup {"rh"}, NEW all
  PROVE  Fine(Flush(x, q, all)) /\ Frame(x, Flush(x, q, all))
<1>1. q \in Queue /\ (q \in Served(x) => HasService(x, q))
  BY ServedOK DEF Queue
<1>2. Shaped(x) /\ FullOK(x) /\ x.dev
  BY DEF Fine
<1> DEFINE y == Flush(x, q, all)
<1>3. /\ Keeps(x, y, q)
      /\ HasService(x, q) /\ q \in x.wantr =>
           q \in y.enab \/ (y.q[q] = <<>> /\ q \in y.wantr)
  BY <1>1, <1>2, FlushOK
<1> HIDE DEF y
<1>4. ASSUME q \in Served(x)
      PROVE  Tended(y, q)
  <2>1. CASE Attended(x, q)
    BY <1>3, <1>4, <2>1, KeepsTended DEF Tended
  <2>2. CASE ~Attended(x, q)
    <3>1. q \in x.wantr
      BY <1>4, <2>2 DEF Fine, Tended
    <3> QED BY <3>1, <1>1, <1>3, <1>4 DEF Tended, Attended
  <2> QED BY <2>1, <2>2
<1>5. ~(q \in {"bw", "br"} /\ x.mod # "buffer")
  BY DEF Served
<1>6. Fine(y)
  BY <1>1, <1>3, <1>4, <1>5, KeepsFine
<1> QED BY <1>3, <1>6 DEF Keeps, y

LEMMA EnableFine ==
  ASSUME NEW x, Fine(x), NEW q
  PROVE  Fine(Enable(x, q)) /\ Frame(x, Enable(x, q))
<1> DEFINE y == Enable(x, q)
<1>1. /\ Shaped(y) /\ Frame(x, y) /\ x.enab \subseteq y.enab
      /\ y.q = x.q /\ y.count = x.count /\ y.full = x.full /\ y.retry = x.retry
      /\ y.wantw = x.wantw /\ y.wantr = x.wantr
  BY EnableOK DEF Fine
<1> HIDE DEF y
<1>2. ASSUME NEW p \in Served(x)
      PROVE  Tended(y, p)
  BY <1>1, <1>2, SameBelow DEF Fine, Tended, Attended, HeldUp, Frame
<1> QED BY <1>1, <1>2 DEF Fine, FullOK, Bare, Served, Frame, y

(* Whatever concerns neither queues nor their order. *)
Still(x, y) == /\ DOMAIN y = DOMAIN x
               /\ y.q = x.q /\ y.count = x.count /\ y.full = x.full /\ y.wantr = x.wantr
               /\ y.enab = x.enab /\ y.retry = x.retry /\ y.running = x.running
               /\ y.mod = x.mod /\ y.dev = x.dev
LEMMA StillFine ==
  ASSUME NEW x, NEW y, Fine(x), Still(x, y), x.wantw \subseteq y.wantw
  PROVE  Fine(y)
<1>1. \A r : QNext(y, r) = QNext(x, r) /\ (HasService(y, r) <=> HasService(x, r))
  BY DEF QNext, HasService, Still
<1>2. \A r : Below(y, r) = Below(x, r)
  BY <1>1 DEF Below
<1>3. ASSUME NEW p \in Served(x)
      PROVE  Tended(y, p)
  BY <1>2, <1>3 DEF Fine, Tended, Attended, HeldUp, Still
<1> QED BY <1>3 DEF Fine, FullOK, Bare, Served, Shaped, Still

LEMMA WantFine ==
  ASSUME NEW x, Fine(x), NEW n
  PROVE  /\ Fine([x EXCEPT !.wantw = @ \cup {n}])
         /\ Frame(x, [x EXCEPT !.wantw = @ \cup {n}])
         /\ Still(x, [x EXCEPT !.wantw = @ \cup {n}])
         /\ [x EXCEPT !.wantw = @ \cup {n}].wantw = x.wantw \cup {n}
<1> DEFINE y == [x EXCEPT !.wantw = @ \cup {n}]
<1>1. Still(x, y) /\ Frame(x, y) /\ y.wantw = x.wantw \cup {n}
  BY DEF Fine, Shaped, Parts, Still, Frame
<1> HIDE DEF y
<1>2. Fine(y)
  BY <1>1, StillFine
<1> QED BY <1>1, <1>2 DEF y

(* canput that fails leaves word with a queue that has to drain first. *)
LEMMA RefusedFine ==
  ASSUME NEW x, Fine(x), NEW q \in Served(x), q # "dw", ~CanPut(x, q)
  PROVE  Fine(Refused(x, q)) /\ Frame(x, Refused(x, q)) /\ HeldUp(Refused(x, q), q)
<1> DEFINE n == Below(x, q)
           y == [x EXCEPT !.wantw = @ \cup {n}]
<1>1. Fine(y) /\ Frame(x, y) /\ Still(x, y) /\ y.wantw = x.wantw \cup {n}
  BY WantFine
<1>2. n \in Queue /\ x.count[n] > Hiwat[n]
  BY DEF CanPut, Fine, FullOK
<1>3. x.count[n] > Lowat[n]
  <2>1. x.count[n] \in Int /\ Hiwat[n] \in Int /\ Lowat[n] \in Int /\ Lowat[n] <= Hiwat[n]
    BY <1>2, WaterMarks DEF Fine, Shaped
  <2> QED BY <1>2, <2>1
<1>4. Refused(x, q) = y
  BY DEF Refused
<1> HIDE DEF y
<1>5. HeldUp(y, q)
  BY <1>1, <1>3, SameBelow DEF HeldUp, Still
<1> QED BY <1>1, <1>4, <1>5

(* A service procedure ends: its queue is looked after without it. *)
Settled(x, q) == \/ q \in x.enab \cup x.retry
                 \/ q # "dw" /\ HeldUp(x, q)
                 \/ x.q[q] = <<>> /\ q \in x.wantr
LEMMA DoneFine ==
  ASSUME NEW x, Fine(x), x.running \in Served(x) => Settled(x, x.running)
  PROVE  Fine(Done(x))
<1> DEFINE y == Done(x)
<1>1. /\ DOMAIN y = DOMAIN x
      /\ y.q = x.q /\ y.count = x.count /\ y.full = x.full /\ y.wantr = x.wantr
      /\ y.enab = x.enab /\ y.retry = x.retry /\ y.wantw = x.wantw
      /\ y.mod = x.mod /\ y.dev = x.dev
  BY DEF Done, Fine, Shaped, Parts
<1> HIDE DEF y
<1>2. \A r : QNext(y, r) = QNext(x, r) /\ (HasService(y, r) <=> HasService(x, r))
  BY <1>1 DEF QNext, HasService
<1>3. \A r : Below(y, r) = Below(x, r)
  BY <1>2 DEF Below
<1>4. ASSUME NEW p \in Served(x)
      PROVE  Tended(y, p)
  <2>1. Settled(x, p)
    BY <1>4 DEF Fine, Settled, Tended, Attended
  <2> QED BY <2>1, <1>1, <1>3 DEF Settled, Tended, Attended, HeldUp
<1>5. Fine(y)
  BY <1>1, <1>4 DEF Fine, FullOK, Bare, Served, Shaped
<1> QED BY <1>5 DEF y

LEMMA PutBackFine ==
  ASSUME NEW x, Fine(x), NEW q \in Served(x), q # "dw", HeldUp(x, q), NEW m
  PROVE  /\ Fine(PutBack(x, q, m)) /\ Frame(x, PutBack(x, q, m))
         /\ Settled(PutBack(x, q, m), q)
<1> DEFINE y == PutBack(x, q, m)
<1>1. Keeps(x, y, q)
  BY ServedOK, PutBackOK DEF Fine
<1> HIDE DEF y
<1>2. q \in y.enab \/ HeldUp(y, q)
  BY <1>1 DEF Keeps
<1>3. Tended(y, q)
  BY <1>2 DEF Tended, Attended
<1>4. ~(q \in {"bw", "br"} /\ x.mod # "buffer") /\ q \in Queue
  BY ServedOK DEF Served
<1>5. Fine(y)
  BY <1>1, <1>3, <1>4, KeepsFine
<1> QED BY <1>1, <1>2, <1>5 DEF Keeps, Settled, y

(* What the card refuses is tried again: qretry. *)
LEMMA PutBackRetryFine ==
  ASSUME NEW x, Fine(x), x.running = "dw", NEW m
  PROVE  /\ Fine(PutBackRetry(x, "dw", m)) /\ Frame(x, PutBackRetry(x, "dw", m))
         /\ Settled(PutBackRetry(x, "dw", m), "dw")
<1> DEFINE z == [x EXCEPT !.enab = @ \cup {"dw"}]
           y == PutBack(z, "dw", m)
           v == [y EXCEPT !.wantr = @ \cup {"dw"}]
           w == [y EXCEPT !.enab = @ \ {"dw"}, !.wantr = @ \cup {"dw"},
                          !.retry = @ \cup {"dw"}]
<1>1. PutBackRetry(x, "dw", m) = IF "dw" \in x.enab THEN v ELSE w
  BY DEF PutBackRetry
<1>2. /\ DOMAIN z = DOMAIN x /\ Frame(x, z)
      /\ z.q = x.q /\ z.count = x.count /\ z.full = x.full /\ z.wantr = x.wantr
      /\ z.enab = x.enab \cup {"dw"} /\ z.retry = x.retry /\ z.wantw = x.wantw
      /\ z.running = "dw" /\ z.mod = x.mod /\ z.dev = x.dev
  BY DEF Fine, Shaped, Parts, Frame
<1> HIDE DEF z
<1>3. Fine(z)
  <2>1. ASSUME NEW p \in Served(x)
        PROVE  Tended(z, p)
    BY <1>2, <2>1, SameBelow DEF Fine, Tended, Attended, HeldUp
  <2> QED BY <1>2, <2>1 DEF Fine, FullOK, Bare, Served, Shaped
<1>4. Keeps(z, y, "dw")
  BY <1>3, PutBackOK DEF Fine, Queue
<1> HIDE DEF y
<1>5. Tended(y, "dw") /\ "dw" \in y.enab /\ y.running = "dw"
  BY <1>2, <1>4 DEF Keeps, Frame, Tended, Attended
<1>6. Fine(y)
  BY <1>3, <1>4, <1>5, KeepsFine DEF Queue
<1>7. Frame(x, y)
  BY <1>2, <1>4, FrameTransitive DEF Keeps
<1>8. CASE "dw" \in x.enab
  <2>1. /\ DOMAIN v = DOMAIN y /\ Frame(y, v)
        /\ v.q = y.q /\ v.count = y.count /\ v.full = y.full
        /\ v.wantr = y.wantr \cup {"dw"}
        /\ v.enab = y.enab /\ v.retry = y.retry /\ v.wantw = y.wantw
        /\ v.running = y.running /\ v.mod = y.mod /\ v.dev = y.dev
    BY <1>6 DEF Fine, Shaped, Parts, Frame
  <2> HIDE DEF v
  <2>2. ASSUME NEW p \in Served(y)
        PROVE  Tended(v, p)
    BY <1>6, <2>1, <2>2, SameBelow DEF Fine, Tended, Attended, HeldUp
  <2>3. Fine(v) /\ Settled(v, "dw")
    BY <1>5, <1>6, <2>1, <2>2 DEF Fine, FullOK, Bare, Served, Shaped, Settled
  <2> QED BY <1>1, <1>7, <1>8, <2>1, <2>3, FrameTransitive
<1>9. CASE "dw" \notin x.enab
  <2>1. /\ DOMAIN w = DOMAIN y /\ Frame(y, w)
        /\ w.q = y.q /\ w.count = y.count /\ w.full = y.full
        /\ w.wantr = y.wantr \cup {"dw"} /\ w.enab = y.enab \ {"dw"}
        /\ w.retry = y.retry \cup {"dw"} /\ w.wantw = y.wantw
        /\ w.running = y.running /\ w.mod = y.mod /\ w.dev = y.dev
    BY <1>6 DEF Fine, Shaped, Parts, Frame
  <2> HIDE DEF w
  <2>2. ASSUME NEW p \in Served(y)
        PROVE  Tended(w, p)
    BY <1>6, <2>1, <2>2, SameBelow DEF Fine, Tended, Attended, HeldUp
  <2>3. Fine(w) /\ Settled(w, "dw")
    BY <1>6, <2>1, <2>2 DEF Fine, FullOK, Bare, Served, Shaped, Settled
  <2> QED BY <1>1, <1>7, <1>9, <2>1, <2>3, FrameTransitive
<1> QED BY <1>8, <1>9

-----------------------------------------------------------------------------
(* The head and the modules. *)
Place(x, y) == DOMAIN y = DOMAIN x /\ y.mod = x.mod /\ y.dev = x.dev /\ y.running = x.running

LEMMA WakesStill ==
  ASSUME NEW x, Shaped(x)
  PROVE  /\ Still(x, WakeIoctl(x)) /\ WakeIoctl(x).wantw = x.wantw
         /\ Still(x, WakeReader(x)) /\ WakeReader(x).wantw = x.wantw
         /\ Still(x, WakeWriter(x)) /\ WakeWriter(x).wantw = x.wantw
         /\ Still(x, WakeCloser(x)) /\ WakeCloser(x).wantw = x.wantw
BY DEF Shaped, Parts, Still, WakeIoctl, WakeReader, WakeWriter, WakeCloser

LEMMA WakesFine ==
  ASSUME NEW x, Fine(x)
  PROVE  /\ Fine(WakeIoctl(x)) /\ Place(x, WakeIoctl(x))
         /\ Fine(WakeReader(x)) /\ Place(x, WakeReader(x))
         /\ Fine(WakeWriter(x)) /\ Place(x, WakeWriter(x))
         /\ Fine(WakeCloser(x)) /\ Place(x, WakeCloser(x))
<1>1. Shaped(x)
  BY DEF Fine
<1>2. \A y : Still(x, y) => Place(x, y)
  BY DEF Still, Place
<1> QED BY <1>1, <1>2, WakesStill, StillFine

LEMMA HeadPutFine ==
  ASSUME NEW x, Fine(x), NEW m
  PROVE  Fine(HeadPut(x, m)) /\ Place(x, HeadPut(x, m))
<1>1. CASE m.kind = "data"
  <2>1. HeadPut(x, m) = WakeReader(PutQ(x, "rh", m))
    BY <1>1 DEF HeadPut
  <2>2. Fine(PutQ(x, "rh", m)) /\ Place(x, PutQ(x, "rh", m))
    BY PutQFine DEF Frame, Place
  <2> QED BY <2>1, <2>2, WakesFine DEF Place
<1>2. CASE m.kind = "ack"
  <2> DEFINE y == [x EXCEPT !.iocblk = m.n]
  <2>1. HeadPut(x, m) = x \/ HeadPut(x, m) = WakeIoctl(y)
    BY <1>2 DEF HeadPut
  <2>2. Still(x, y) /\ y.wantw = x.wantw
    BY DEF Still, Fine, Shaped, Parts
  <2> HIDE DEF y
  <2>3. Fine(y) /\ Place(x, y)
    BY <2>2, StillFine DEF Still, Place
  <2>4. Place(x, x)
    BY DEF Place
  <2> QED BY <2>1, <2>3, <2>4, WakesFine DEF Place
<1>3. CASE m.kind = "hangup"
  <2> DEFINE y == [x EXCEPT !.hup = TRUE]
  <2>1. HeadPut(x, m) = WakeCloser(WakeReader(WakeWriter(WakeIoctl(y))))
    BY <1>3 DEF HeadPut
  <2>2. Still(x, y) /\ y.wantw = x.wantw
    BY DEF Still, Fine, Shaped, Parts
  <2> HIDE DEF y
  <2>3. Fine(y) /\ Place(x, y)
    BY <2>2, StillFine DEF Still, Place
  <2> DEFINE a == WakeIoctl(y)
             b == WakeWriter(a)
             c == WakeReader(b)
  <2>4. Fine(a) /\ Place(y, a)
    BY <2>3, WakesFine
  <2> HIDE DEF a
  <2>5. Fine(b) /\ Place(a, b)
    BY <2>4, WakesFine
  <2> HIDE DEF b
  <2>6. Fine(c) /\ Place(b, c)
    BY <2>5, WakesFine
  <2> HIDE DEF c
  <2>7. Fine(WakeCloser(c)) /\ Place(c, WakeCloser(c))
    BY <2>6, WakesFine
  <2>8. Place(x, WakeCloser(c))
    BY <2>3, <2>4, <2>5, <2>6, <2>7 DEF Place
  <2> QED BY <2>1, <2>7, <2>8 DEF a, b, c
<1>4. CASE m.kind \notin {"data", "ack", "hangup"}
  <2>1. HeadPut(x, m) = x
    BY <1>4 DEF HeadPut
  <2> QED BY <2>1 DEF Place
<1> QED BY <1>1, <1>2, <1>3, <1>4

LEMMA PutUpFine ==
  ASSUME NEW x, Fine(x), NEW q \in {"dr", "br"}, NEW m
  PROVE  Fine(PutUp(x, q, m)) /\ Place(x, PutUp(x, q, m))
<1>1. Below(x, q) = "br" => "br" \in Served(x)
  BY Links DEF Fine, Served
<1> QED BY <1>1, PutQFine, HeadPutFine DEF PutUp, Frame, Place

LEMMA DevicePutFine ==
  ASSUME NEW x, Fine(x), NEW m
  PROVE  Fine(DevicePut(x, m)) /\ Place(x, DevicePut(x, m))
<1>1. "dw" \in Served(x)
  BY DEF Served
<1> QED BY <1>1, PutQFine, PutUpFine DEF DevicePut, Frame, Place

LEMMA PutDownFine ==
  ASSUME NEW x, Fine(x), NEW q \in {"wh", "bw"}, NEW m
  PROVE  Fine(PutDown(x, q, m)) /\ Place(x, PutDown(x, q, m))
<1>1. Below(x, q) = "bw" => "bw" \in Served(x)
  BY Links DEF Fine, Served
<1> QED BY <1>1, PutQFine, DevicePutFine DEF PutDown, Frame, Place

LEMMA FlushDownFine ==
  ASSUME NEW x, Fine(x), NEW r \in BOOLEAN, NEW w \in BOOLEAN
  PROVE  Fine(FlushDown(x, r, w)) /\ Frame(x, FlushDown(x, r, w))
<1> DEFINE a == IF w /\ x.mod = "buffer" THEN Flush(x, "bw", FALSE) ELSE x
           b == IF w THEN Flush(a, "dw", FALSE) ELSE a
           c == IF r THEN Flush(b, "dr", FALSE) ELSE b
           d == IF r /\ x.mod = "buffer" THEN Flush(c, "br", FALSE) ELSE c
           e == IF r THEN Flush(d, "rh", TRUE) ELSE d
<1>1. FlushDown(x, r, w) = e
  BY DEF FlushDown
<1>2. Frame(x, x) /\ \A y : Frame(x, y) => y.mod = x.mod
  BY DEF Frame
<1>3. Fine(a) /\ Frame(x, a)
  BY <1>2, FlushFine DEF Served
<1> HIDE DEF a
<1>4. Fine(b) /\ Frame(x, b)
  <2>1. "dw" \in Served(a)
    BY DEF Served
  <2> QED BY <1>3, <2>1, FlushFine, FrameTransitive
<1> HIDE DEF b
<1>5. Fine(c) /\ Frame(x, c)
  <2>1. "dr" \in Served(b)
    BY DEF Served
  <2> QED BY <1>4, <2>1, FlushFine, FrameTransitive
<1> HIDE DEF c
<1>6. Fine(d) /\ Frame(x, d)
  <2>1. x.mod = "buffer" => "br" \in Served(c)
    BY <1>5 DEF Served, Frame
  <2> QED BY <1>5, <2>1, FlushFine, FrameTransitive
<1> HIDE DEF d
<1>7. Fine(e) /\ Frame(x, e)
  BY <1>6, FlushFine, FrameTransitive
<1> QED BY <1>1, <1>7

-----------------------------------------------------------------------------
(* The ioctls, on a stream that is open or is being closed: no operator of *)
(* a queue touches them, whatever the queues hold. *)
Named(x) == Parts \subseteq DOMAIN x

LEMMA EnableFrame ==
  ASSUME NEW x, Named(x), NEW q
  PROVE  Frame(x, Enable(x, q)) /\ Named(Enable(x, q))
BY DEF Named, Parts, Enable, Frame

LEMMA FrameNamed ==
  ASSUME NEW x, NEW y, Named(x), Frame(x, y)
  PROVE  Named(y)
BY DEF Named, Frame

LEMMA GetPostFrame ==
  ASSUME NEW x, Named(x), NEW q
  PROVE  Frame(x, GetPost(x, q)) /\ Named(GetPost(x, q))
<1> DEFINE w == [x EXCEPT !.wantw = @ \ {q}]
<1>1. GetPost(x, q) = Enable(w, Feeder(x, q)) \/ GetPost(x, q) = x
  BY DEF GetPost
<1>2. Frame(x, w) /\ Named(w) /\ Frame(x, x)
  BY DEF Named, Parts, Frame
<1> HIDE DEF w
<1> QED BY <1>1, <1>2, EnableFrame, FrameTransitive

LEMMA OverFrame ==
  ASSUME NEW x, Named(x), NEW q, NEW n
  PROVE  Frame(x, Over(x, q, n)) /\ Named(Over(x, q, n))
BY DEF Named, Parts, Over, Frame

LEMMA GetQFrame ==
  ASSUME NEW x, Named(x), NEW q
  PROVE  Frame(x, GetQ(x, q)) /\ Named(GetQ(x, q))
<1> DEFINE y == [x EXCEPT !.wantr = @ \cup {q}]
           b == [x EXCEPT !.q[q] = Tail(@), !.wantr = @ \ {q}]
           z == Removed(b, q, Head(x.q[q]))
<1>1. GetQ(x, q) = GetPost(y, q) \/ GetQ(x, q) = GetPost(z, q)
  BY DEF GetQ
<1>2. Frame(x, y) /\ Named(y)
  BY DEF Named, Parts, Frame
<1>3. Frame(x, b) /\ Named(b)
  BY DEF Named, Parts, Frame
<1> HIDE DEF b, y
<1>4. Frame(b, z) /\ Named(z)
  BY <1>3 DEF Named, Parts, Frame, Removed
<1> HIDE DEF z
<1> QED BY <1>1, <1>2, <1>3, <1>4, GetPostFrame, FrameTransitive

LEMMA FilledFrame ==
  ASSUME NEW x, Named(x), NEW q, NEW s, NEW m, NEW y,
         y = Woken(Added([x EXCEPT !.q[q] = s], q, m), q, m)
  PROVE  Frame(x, y) /\ Named(y)
<1> DEFINE a == [x EXCEPT !.q[q] = s]
           b == Over(a, q, a.count[q] + Size(m))
<1>1. y = Enable(b, q) \/ y = b
  BY DEF Woken, Added
<1>2. Frame(x, a) /\ Named(a)
  BY DEF Named, Parts, Frame
<1> HIDE DEF a
<1>3. Frame(a, b) /\ Named(b)
  BY <1>2, OverFrame
<1> HIDE DEF b
<1> QED BY <1>1, <1>2, <1>3, EnableFrame, FrameTransitive

LEMMA PutQFrame ==
  ASSUME NEW x, Named(x), NEW q, NEW m
  PROVE  Frame(x, PutQ(x, q, m)) /\ Named(PutQ(x, q, m))
<1>1. PutQ(x, q, m) = Woken(Added([x EXCEPT !.q[q] = Ahead(x.q[q], m) \o <<m>>
                                                  \o Behind(x.q[q], m)], q, m), q, m)
  BY DEF PutQ
<1> QED BY <1>1, FilledFrame

LEMMA PutBackFrame ==
  ASSUME NEW x, Named(x), NEW q, NEW m
  PROVE  Frame(x, PutBack(x, q, m)) /\ Named(PutBack(x, q, m))
<1> DEFINE first == IF Urgent(m) THEN <<>> ELSE OfKind(x.q[q], Urgents)
           rest == IF Urgent(m) THEN x.q[q]
                   ELSE OfKind(x.q[q], Ordinary)
           s == first \o <<m>> \o rest
<1>1. PutBack(x, q, m) = Woken(Added([x EXCEPT !.q[q] = s], q, m), q, m)
  BY DEF PutBack
<1> HIDE DEF s
<1> QED BY <1>1, FilledFrame

LEMMA PutBackRetryFrame ==
  ASSUME NEW x, Named(x), NEW q, NEW m
  PROVE  Frame(x, PutBackRetry(x, q, m)) /\ Named(PutBackRetry(x, q, m))
<1> DEFINE z == [x EXCEPT !.enab = @ \cup {q}]
           y == PutBack(z, q, m)
           v == [y EXCEPT !.wantr = @ \cup {q}]
           w == [y EXCEPT !.enab = @ \ {q}, !.wantr = @ \cup {q}, !.retry = @ \cup {q}]
<1>1. PutBackRetry(x, q, m) = v \/ PutBackRetry(x, q, m) = w
  BY DEF PutBackRetry
<1>2. Frame(x, z) /\ Named(z)
  BY DEF Named, Parts, Frame
<1> HIDE DEF z
<1>3. Frame(z, y) /\ Named(y)
  BY <1>2, PutBackFrame
<1> HIDE DEF y
<1>4. Frame(y, v) /\ Named(v) /\ Frame(y, w) /\ Named(w)
  BY <1>3 DEF Named, Parts, Frame
<1> HIDE DEF v, w
<1> QED BY <1>1, <1>2, <1>3, <1>4, FrameTransitive

LEMMA FlushFrame ==
  ASSUME NEW x, Named(x), NEW q, NEW all
  PROVE  Frame(x, Flush(x, q, all)) /\ Named(Flush(x, q, all))
<1> DEFINE s == Kept(x, q, all)
           a == Emptied(x, q)
           c == OfKind(s, Urgents) \o OfKind(s, Ordinary)
           b == [a EXCEPT !.q[q] = c]
           n == Len(OfKind(s, Ordinary \cup {"ack"}))
           y == Over(b, q, n)
           r == Refilled(x, q, s)
<1>1. r = y \/ r = Enable(y, q)
  BY DEF Refilled
<1>2. Flush(x, q, all) = GetPost(a, q) \/ Flush(x, q, all) = GetPost(r, q)
  BY DEF Flush
<1> HIDE DEF n, c, r, s
<1>3. Frame(x, a) /\ Named(a)
  BY DEF Named, Parts, Frame, Emptied
<1> HIDE DEF a
<1>4. Frame(a, b) /\ Named(b)
  BY <1>3 DEF Named, Parts, Frame
<1> HIDE DEF b
<1>5. Frame(b, y) /\ Named(y)
  BY <1>4, OverFrame
<1> HIDE DEF y
<1>6. Frame(x, r) /\ Named(r)
  <2>1. Frame(x, y)
    BY <1>3, <1>4, <1>5, FrameTransitive
  <2> QED BY <2>1, <1>1, <1>5, EnableFrame, FrameTransitive
<1> QED BY <1>2, <1>3, <1>6, GetPostFrame, FrameTransitive

LEMMA FlushDownFrame ==
  ASSUME NEW x, Named(x), NEW r, NEW w
  PROVE  Frame(x, FlushDown(x, r, w)) /\ Named(FlushDown(x, r, w))
<1> DEFINE a == IF w /\ x.mod = "buffer" THEN Flush(x, "bw", FALSE) ELSE x
           b == IF w THEN Flush(a, "dw", FALSE) ELSE a
           c == IF r THEN Flush(b, "dr", FALSE) ELSE b
           d == IF r /\ x.mod = "buffer" THEN Flush(c, "br", FALSE) ELSE c
           e == IF r THEN Flush(d, "rh", TRUE) ELSE d
<1>1. FlushDown(x, r, w) = e
  BY DEF FlushDown
<1>0. Frame(x, x)
  BY DEF Frame
<1>2. Frame(x, a) /\ Named(a)
  BY <1>0, FlushFrame
<1> HIDE DEF a
<1>3. Frame(x, b) /\ Named(b)
  BY <1>2, FlushFrame, FrameTransitive
<1> HIDE DEF b
<1>4. Frame(x, c) /\ Named(c)
  BY <1>3, FlushFrame, FrameTransitive
<1> HIDE DEF c
<1>5. Frame(x, d) /\ Named(d)
  BY <1>4, FlushFrame, FrameTransitive
<1> HIDE DEF d
<1>6. Frame(x, e) /\ Named(e)
  BY <1>5, FlushFrame, FrameTransitive
<1> QED BY <1>1, <1>6

(* The one ioctl that waits is the one whose answer is let in: there is no *)
(* other, and what has come in is its answer. *)
Waits(x, p) == x.io[p].at \in {"wait", "wait woken"}
Owned(x) ==
  /\ Named(x)
  /\ x.io = [p \in Procs |-> x.io[p]] /\ \A p \in Procs : {"at", "id"} \subseteq DOMAIN x.io[p]
  /\ \A p \in Procs : Waits(x, p) => x.ioctl /\ x.io[p].id = x.ioctlid
  /\ \A p, r \in Procs : Waits(x, p) /\ Waits(x, r) => p = r
  /\ x.iocblk \in {0, x.ioctlid}
  /\ x.reply.own = x.reply.got
Aside(x, y) == /\ DOMAIN y = DOMAIN x /\ y.io = x.io /\ y.ioctl = x.ioctl
               /\ y.ioctlid = x.ioctlid /\ y.iocblk = x.iocblk /\ y.reply = x.reply

LEMMA AsideOwned ==
  ASSUME NEW x, NEW y, Owned(x), Aside(x, y)
  PROVE  Owned(y)
BY DEF Owned, Aside, Named, Waits

LEMMA FrameOwned ==
  ASSUME NEW x, NEW y, Owned(x), Frame(x, y)
  PROVE  Owned(y) /\ Place(x, y)
<1>1. Aside(x, y) /\ Place(x, y)
  BY DEF Frame, Aside, Place
<1> QED BY <1>1, AsideOwned

LEMMA WakesAside ==
  ASSUME NEW x, Named(x)
  PROVE  /\ Aside(x, WakeReader(x)) /\ Place(x, WakeReader(x))
         /\ Aside(x, WakeWriter(x)) /\ Place(x, WakeWriter(x))
         /\ Aside(x, WakeCloser(x)) /\ Place(x, WakeCloser(x))
BY DEF Named, Parts, Aside, Place, WakeReader, WakeWriter, WakeCloser

LEMMA WakeIoctlOwned ==
  ASSUME NEW x, Owned(x)
  PROVE  Owned(WakeIoctl(x)) /\ Place(x, WakeIoctl(x))
<1> DEFINE y == WakeIoctl(x)
<1>1. /\ DOMAIN y = DOMAIN x /\ y.ioctl = x.ioctl /\ y.ioctlid = x.ioctlid
      /\ y.iocblk = x.iocblk /\ y.reply = x.reply /\ Place(x, y)
  BY DEF WakeIoctl, Owned, Named, Parts, Place
<1>2. y.io = [p \in Procs |-> [x.io[p] EXCEPT !.at = Roused(x.io[p].at)]]
  BY DEF WakeIoctl, Owned, Named, Parts
<1> HIDE DEF y
<1>3. ASSUME NEW p \in Procs
      PROVE  /\ DOMAIN y.io[p] = DOMAIN x.io[p] /\ y.io[p].id = x.io[p].id
             /\ Waits(y, p) <=> Waits(x, p)
  <2>1. y.io[p] = [x.io[p] EXCEPT !.at = Roused(x.io[p].at)]
    BY <1>2
  <2>2. {"at", "id"} \subseteq DOMAIN x.io[p]
    BY DEF Owned
  <2>3. y.io[p].at = Roused(x.io[p].at) /\ y.io[p].id = x.io[p].id
    BY <2>1, <2>2
  <2>4. Roused(x.io[p].at) \in {"wait", "wait woken"}
          <=> x.io[p].at \in {"wait", "wait woken"}
    BY DEF Roused
  <2> QED BY <2>1, <2>3, <2>4 DEF Waits
<1>4. y.io = [p \in Procs |-> y.io[p]]
  BY <1>2
<1>5. Owned(y)
  BY <1>1, <1>3, <1>4 DEF Owned, Named
<1> QED BY <1>1, <1>5 DEF y

LEMMA WakesOwned ==
  ASSUME NEW x, Owned(x)
  PROVE  /\ Owned(WakeReader(x)) /\ Place(x, WakeReader(x))
         /\ Owned(WakeWriter(x)) /\ Place(x, WakeWriter(x))
         /\ Owned(WakeCloser(x)) /\ Place(x, WakeCloser(x))
BY WakesAside, AsideOwned DEF Owned

LEMMA PlaceTransitive ==
  ASSUME NEW x, NEW y, NEW z, Place(x, y), Place(y, z)
  PROVE  Place(x, z)
BY DEF Place

LEMMA HeadPutOwned ==
  ASSUME NEW x, Owned(x), NEW m
  PROVE  Owned(HeadPut(x, m)) /\ Place(x, HeadPut(x, m))
<1>1. CASE m.kind = "data"
  <2>1. HeadPut(x, m) = WakeReader(PutQ(x, "rh", m))
    BY <1>1 DEF HeadPut
  <2>2. Frame(x, PutQ(x, "rh", m))
    BY PutQFrame DEF Owned
  <2>3. Owned(PutQ(x, "rh", m)) /\ Place(x, PutQ(x, "rh", m))
    BY <2>2, FrameOwned
  <2> QED BY <2>1, <2>3, WakesOwned, PlaceTransitive
<1>2. CASE m.kind = "ack"
  <2> DEFINE y == [x EXCEPT !.iocblk = m.n]
             taken == x.ioctl /\ x.iocblk = 0 /\ m.n = x.ioctlid
  <2>1. HeadPut(x, m) = x \/ (taken /\ HeadPut(x, m) = WakeIoctl(y))
    BY <1>2 DEF HeadPut
  <2>2. /\ DOMAIN y = DOMAIN x /\ y.io = x.io /\ y.ioctl = x.ioctl
        /\ y.ioctlid = x.ioctlid /\ y.iocblk = m.n /\ y.reply = x.reply /\ Place(x, y)
    BY DEF Owned, Named, Parts, Place
  <2> HIDE DEF y
  <2>3. taken => Owned(y)
    BY <2>2 DEF Owned, Named, Waits
  <2>4. Place(x, x)
    BY DEF Place
  <2> QED BY <2>1, <2>2, <2>3, <2>4, WakeIoctlOwned, PlaceTransitive
<1>3. CASE m.kind = "hangup"
  <2> DEFINE y == [x EXCEPT !.hup = TRUE]
             a == WakeIoctl(y)
             b == WakeWriter(a)
             c == WakeReader(b)
  <2>1. HeadPut(x, m) = WakeCloser(c)
    BY <1>3 DEF HeadPut
  <2>2. Aside(x, y) /\ Place(x, y)
    BY DEF Aside, Place, Owned, Named, Parts
  <2> HIDE DEF y
  <2>3. Owned(y) /\ Place(x, y)
    BY <2>2, AsideOwned
  <2>4. Owned(a) /\ Place(x, a)
    BY <2>3, WakeIoctlOwned, PlaceTransitive
  <2> HIDE DEF a
  <2>5. Owned(b) /\ Place(x, b)
    BY <2>4, WakesOwned, PlaceTransitive
  <2> HIDE DEF b
  <2>6. Owned(c) /\ Place(x, c)
    BY <2>5, WakesOwned, PlaceTransitive
  <2> HIDE DEF c
  <2> QED BY <2>1, <2>6, WakesOwned, PlaceTransitive
<1>4. CASE m.kind \notin {"data", "ack", "hangup"}
  <2>1. HeadPut(x, m) = x
    BY <1>4 DEF HeadPut
  <2> QED BY <2>1 DEF Place
<1> QED BY <1>1, <1>2, <1>3, <1>4

LEMMA PutQOwned ==
  ASSUME NEW x, Owned(x), NEW q, NEW m
  PROVE  Owned(PutQ(x, q, m)) /\ Place(x, PutQ(x, q, m))
<1>1. Frame(x, PutQ(x, q, m))
  BY PutQFrame DEF Owned
<1> QED BY <1>1, FrameOwned

LEMMA PutUpOwned ==
  ASSUME NEW x, Owned(x), NEW q, NEW m
  PROVE  Owned(PutUp(x, q, m)) /\ Place(x, PutUp(x, q, m))
BY PutQOwned, HeadPutOwned DEF PutUp

LEMMA PutDownOwned ==
  ASSUME NEW x, Owned(x), NEW q, NEW m
  PROVE  Owned(PutDown(x, q, m)) /\ Place(x, PutDown(x, q, m))
<1>1. Owned(DevicePut(x, m)) /\ Place(x, DevicePut(x, m))
  BY PutQOwned, PutUpOwned DEF DevicePut
<1> QED BY <1>1, PutQOwned DEF PutDown

LEMMA QueuesOwned ==
  ASSUME NEW x, Owned(x), NEW q
  PROVE  /\ Owned(GetQ(x, q)) /\ Place(x, GetQ(x, q))
         /\ Owned(Enable(x, q)) /\ Place(x, Enable(x, q))
         /\ \A all : Owned(Flush(x, q, all)) /\ Place(x, Flush(x, q, all))
         /\ \A m : Owned(PutBack(x, q, m)) /\ Place(x, PutBack(x, q, m))
         /\ \A m : Owned(PutBackRetry(x, q, m)) /\ Place(x, PutBackRetry(x, q, m))
         /\ Owned(Refused(x, q)) /\ Place(x, Refused(x, q))
<1>1. Named(x)
  BY DEF Owned
<1>2. Frame(x, Refused(x, q))
  BY DEF Owned, Named, Parts, Refused, Frame
<1> QED BY <1>1, <1>2, GetQFrame, EnableFrame, FlushFrame, PutBackFrame, PutBackRetryFrame,
           FrameOwned

LEMMA DoneOwned ==
  ASSUME NEW x, Owned(x)
  PROVE  Owned(Done(x)) /\ Done(x).dev = x.dev /\ DOMAIN Done(x) = DOMAIN x
<1>1. Aside(x, Done(x)) /\ Done(x).dev = x.dev
  BY DEF Owned, Named, Parts, Done, Aside
<1> QED BY <1>1, AsideOwned DEF Aside

-----------------------------------------------------------------------------
(* What holds of every state: the ioctls are in order, and so is an open   *)
(* stream unless modules are pushed while data are held up. *)
Live(x) == x.dev /\ "blocked push" \notin Rare
Good(x) == Owned(x) /\ (Live(x) => Fine(x))

(* A step that changes fields no queue operator looks at. *)
LEMMA AsideGood ==
  ASSUME NEW x, NEW y, Good(x), Aside(x, y), Still(x, y), x.wantw \subseteq y.wantw
  PROVE  Good(y)
BY AsideOwned, StillFine DEF Good, Live, Still

LEMMA PlaceGood ==
  ASSUME NEW x, NEW y, Place(x, y), Owned(y), Live(x) => Fine(y)
  PROVE  Good(y)
BY DEF Good, Live, Place

(* do_runqueues. *)
LEMMA RunGood ==
  ASSUME Good(g), Run
  PROVE  Good(g')
<1> DEFINE h == Head(g.sched)
<1>1. /\ DOMAIN g' = DOMAIN g /\ g'.running = h /\ g'.enab = g.enab \ {h}
      /\ g'.q = g.q /\ g'.count = g.count /\ g'.full = g.full /\ g'.wantr = g.wantr
      /\ g'.retry = g.retry /\ g'.wantw = g.wantw /\ g'.mod = g.mod /\ g'.dev = g.dev
      /\ Aside(g, g') /\ g.running = NoQueue
  BY DEF Run, Good, Live, Owned, Named, Parts, Aside
<1> HIDE DEF h
<1>2. \A r : QNext(g', r) = QNext(g, r) /\ (HasService(g', r) <=> HasService(g, r))
  BY <1>1 DEF QNext, HasService
<1>3. \A r : Below(g', r) = Below(g, r)
  BY <1>2 DEF Below
<1>4. ASSUME Live(g)
      PROVE  Fine(g')
  <2>1. Fine(g)
    BY <1>4 DEF Good, Live
  <2>2. ASSUME NEW p \in Served(g)
        PROVE  Tended(g', p)
    BY <1>1, <1>3, <2>1, <2>2, ServedOK DEF Fine, Tended, Attended, HeldUp
  <2> QED BY <1>1, <2>1, <2>2 DEF Fine, FullOK, Bare, Served, Shaped
<1> QED BY <1>1, <1>4, AsideOwned DEF Good, Live

(* stream_wsrv *)
LEMMA ServeHeadWriteGood ==
  ASSUME Good(g), ServeHeadWrite
  PROVE  Good(g')
<1> DEFINE sends == g.dev /\ CanPut(g, "wh") /\ g.q["wh"] # <<>>
           x == IF ~g.dev THEN g ELSE IF ~CanPut(g, "wh") THEN Refused(g, "wh")
                ELSE GetQ(g, "wh")
           v == [x EXCEPT !.wantw = @ \cup {"wh"}]
           w == WakeWriter(Done(x))
<1>1. /\ g.running = "wh"
      /\ g' = IF sends THEN PutDown(x, "wh", First("wh"))
              ELSE IF "wh" \in x.full THEN Done(v)
              ELSE IF w.closer # "no" THEN WakeCloser(w) ELSE w
  BY DEF ServeHeadWrite
<1>2. Owned(g) /\ (Live(g) => Fine(g))
  BY DEF Good, Live
<1>3. Place(g, g)
  BY DEF Place, Live
<1>4. Owned(x) /\ Place(g, x)
  BY <1>2, <1>3, QueuesOwned
<1>5. Live(g) => Fine(x) /\ (~sends => Settled(x, "wh"))
  <2>1. CASE Live(g) /\ ~CanPut(g, "wh")
    BY <1>2, <2>1, RefusedFine DEF Served, Settled, Live
  <2>2. CASE Live(g) /\ CanPut(g, "wh")
    BY <1>1, <1>2, <2>2, GetQFine DEF Queue, Settled, Live
  <2> QED BY <2>1, <2>2
<1> HIDE DEF x
<1>6. CASE sends
  <2>1. Live(g) => Fine(PutDown(x, "wh", First("wh")))
    BY <1>5, <1>6, PutDownFine
  <2>2. Owned(PutDown(x, "wh", First("wh"))) /\ Place(x, PutDown(x, "wh", First("wh")))
    BY <1>4, PutDownOwned
  <2> QED BY <1>1, <1>4, <1>6, <2>1, <2>2 DEF Good, Live, Place
<1>7. CASE ~sends /\ "wh" \in x.full
  <2>1. Aside(x, v) /\ Place(x, v) /\ Still(x, v) /\ v.wantw = x.wantw \cup {"wh"}
    BY <1>4 DEF Owned, Named, Parts, Aside, Place, Live, Still
  <2> HIDE DEF v
  <2>2. Owned(v) /\ Owned(Done(v)) /\ Done(v).dev = g.dev
    BY <1>4, <2>1, AsideOwned, DoneOwned DEF Place, Live
  <2>3. ASSUME Live(g)
        PROVE  Fine(Done(v))
    <3>1. Fine(v) /\ v.running = "wh"
      BY <1>1, <1>4, <1>5, <2>1, <2>3, StillFine DEF Place, Live
    <3>2. \A r : QNext(v, r) = QNext(x, r) /\ (HasService(v, r) <=> HasService(x, r))
      BY <2>1 DEF QNext, HasService, Still
    <3>3. Below(v, "wh") = Below(x, "wh")
      BY <3>2 DEF Below
    <3>4. Settled(v, "wh")
      BY <1>5, <1>7, <2>1, <2>3, <3>3 DEF Settled, HeldUp, Still
    <3> QED BY <3>1, <3>4, DoneFine
  <2> QED BY <1>1, <1>7, <2>2, <2>3 DEF Good, Live
<1>8. CASE ~sends /\ "wh" \notin x.full
  <2>1. Owned(Done(x)) /\ Done(x).dev = g.dev
    BY <1>4, DoneOwned DEF Place, Live
  <2>2. Live(g) => Fine(Done(x))
    BY <1>1, <1>4, <1>5, <1>8, DoneFine DEF Place, Live
  <2>3. Good(w)
    BY <2>1, <2>2, WakesOwned, WakesFine DEF Good, Live, Place
  <2> HIDE DEF w
  <2>4. Good(WakeCloser(w))
    BY <2>3, WakesOwned, WakesFine DEF Good, Live, Place
  <2> QED BY <1>1, <1>8, <2>3, <2>4
<1> QED BY <1>6, <1>7, <1>8

(* stream_rsrv leaves the head's queue to streams_read. *)
LEMMA ServeHeadReadGood ==
  ASSUME Good(g), ServeHeadRead
  PROVE  Good(g')
<1>1. g.running = "rh" /\ g' = Done(g)
  BY DEF ServeHeadRead
<1>2. Owned(Done(g)) /\ Done(g).dev = g.dev
  BY DoneOwned DEF Good, Live
<1>3. Live(g) => Fine(Done(g))
  BY <1>1, ServedOK, DoneFine DEF Good, Live
<1> QED BY <1>1, <1>2, <1>3 DEF Good, Live

(* buf_wsrv, buf_rsrv, isdn2_rsrv *)
LEMMA ForwardGood ==
  ASSUME Good(g), NEW q \in {"bw", "br", "dr"}, Forward(q)
  PROVE  Good(g')
<1> DEFINE x == GetQ(g, q)
           m == First(q)
           put == IF q = "bw" THEN PutDown(x, q, m) ELSE PutUp(x, q, m)
           r == Refused(x, q)
           back == PutBack(r, q, m)
<1>1. /\ g.running = q
      /\ g' = IF g.q[q] = <<>> THEN Done(x)
              ELSE IF Urgent(m) \/ CanPut(x, q) THEN put ELSE Done(back)
  BY DEF Forward
<1>2. Owned(g) /\ (Live(g) => Fine(g)) /\ q \in Queue /\ q # "dw"
  BY DEF Good, Live, Queue
<1>3. Owned(x) /\ Place(g, x)
  BY <1>2, QueuesOwned
<1>4. q \in {"bw", "br"} /\ g.mod # "buffer" /\ Live(g) => g.q[q] = <<>>
  BY <1>2 DEF Fine, Bare
<1>5. Live(g) => Fine(x) /\ (g.q[q] = <<>> => Settled(x, q))
  BY <1>1, <1>2, <1>4, GetQFine DEF Settled
<1> HIDE DEF x
<1>6. CASE g.q[q] = <<>>
  <2>1. Owned(Done(x)) /\ Done(x).dev = g.dev
    BY <1>3, DoneOwned DEF Place, Live
  <2>2. Live(g) => Fine(Done(x))
    BY <1>1, <1>3, <1>5, <1>6, DoneFine DEF Place, Live
  <2> QED BY <1>1, <1>6, <2>1, <2>2 DEF Good, Live
<1> HIDE DEF m
<1>7. CASE g.q[q] # <<>> /\ (Urgent(m) \/ CanPut(x, q))
  <2>1. Owned(put) /\ Place(x, put)
    BY <1>3, PutDownOwned, PutUpOwned
  <2>2. Live(g) => Fine(put)
    BY <1>5, PutDownFine, PutUpFine
  <2> HIDE DEF put
  <2> QED BY <1>1, <1>3, <1>7, <2>1, <2>2 DEF Good, Live, Place
<1>8. CASE g.q[q] # <<>> /\ ~(Urgent(m) \/ CanPut(x, q))
  <2>1. Owned(r) /\ Place(x, r) /\ Owned(back) /\ Place(r, back)
    BY <1>3, QueuesOwned
  <2>2. Owned(Done(back)) /\ Done(back).dev = g.dev /\ back.running = q
    BY <1>1, <1>3, <2>1, DoneOwned DEF Place, Live
  <2>3. ASSUME Live(g)
        PROVE  Fine(Done(back))
    <3>1. q \in Served(x) /\ Served(x) = Served(r)
      BY <1>3, <1>4, <1>8, <2>1, <2>3 DEF Served, Place, Live
    <3>2. Fine(r) /\ HeldUp(r, q)
      BY <1>2, <1>5, <1>8, <2>3, <3>1, RefusedFine
    <3> HIDE DEF r
    <3>3. Fine(back) /\ Settled(back, q)
      BY <1>2, <3>1, <3>2, PutBackFine
    <3> HIDE DEF back
    <3> QED BY <2>2, <3>3, DoneFine
  <2> HIDE DEF back
  <2> QED BY <1>1, <1>8, <2>2, <2>3 DEF Good, Live
<1> QED BY <1>6, <1>7, <1>8

(* isdn2_wsrv *)
LEMMA TransmitGood ==
  ASSUME Good(g), Transmit
  PROVE  Good(g')
<1> DEFINE x == GetQ(g, "dw")
           m == First("dw")
           sent == [x EXCEPT !.room = FALSE, !.sent = Append(@, m.n)]
           back == PutBackRetry(x, "dw", m)
<1>1. /\ g.running = "dw"
      /\ g' = IF g.q["dw"] = <<>> THEN Done(x) ELSE IF g.room THEN sent ELSE Done(back)
  BY DEF Transmit
<1>2. Owned(g) /\ (Live(g) => Fine(g))
  BY DEF Good, Live
<1>3. Owned(x) /\ Place(g, x) /\ x.running = "dw"
  BY <1>1, <1>2, QueuesOwned DEF Place, Live
<1>4. Live(g) => Fine(x) /\ (g.q["dw"] = <<>> => Settled(x, "dw"))
  BY <1>1, <1>2, GetQFine DEF Settled, Queue
<1> HIDE DEF x, m
<1>5. Owned(Done(x)) /\ Done(x).dev = g.dev
  BY <1>3, DoneOwned DEF Place, Live
<1>6. g.q["dw"] = <<>> /\ Live(g) => Fine(Done(x))
  BY <1>3, <1>4, DoneFine
<1>7. Aside(x, sent) /\ Still(x, sent) /\ sent.wantw = x.wantw
  BY <1>3 DEF Owned, Named, Parts, Aside, Still
<1>8. Good(sent)
  BY <1>3, <1>4, <1>7, AsideGood DEF Good, Live, Place
<1>9. Owned(back) /\ Place(x, back)
  BY <1>3, QueuesOwned
<1>10. Live(g) => Fine(back) /\ Settled(back, "dw")
  BY <1>3, <1>4, PutBackRetryFine
<1> HIDE DEF back, sent
<1>11. Owned(Done(back)) /\ Done(back).dev = g.dev
  BY <1>3, <1>9, DoneOwned DEF Place, Live
<1>12. Live(g) => Fine(Done(back))
  BY <1>3, <1>9, <1>10, DoneFine DEF Place, Live
<1> QED BY <1>1, <1>5, <1>6, <1>8, <1>11, <1>12 DEF Good, Live

-----------------------------------------------------------------------------
(* Interrupts. *)
LEMMA EnableGood ==
  ASSUME NEW x, Good(x), NEW q
  PROVE  Good(Enable(x, q))
<1>1. Owned(Enable(x, q)) /\ Place(x, Enable(x, q))
  BY QueuesOwned DEF Good, Live
<1>2. Live(x) => Fine(Enable(x, q))
  BY EnableFine DEF Good, Live
<1> QED BY <1>1, <1>2, PlaceGood

LEMMA PutQGood ==
  ASSUME NEW x, Good(x), NEW q \in {"wh", "dw", "dr", "rh"}, NEW m
  PROVE  Good(PutQ(x, q, m)) /\ Place(x, PutQ(x, q, m))
<1>1. Owned(PutQ(x, q, m)) /\ Place(x, PutQ(x, q, m))
  BY PutQOwned DEF Good, Live
<1>2. Live(x) => Fine(PutQ(x, q, m))
  BY PutQFine DEF Good, Live, Served
<1> QED BY <1>1, <1>2, PlaceGood

LEMMA InterruptGood ==
  ASSUME Good(g), Interrupt
  PROVE  Good(g')
<1>1. ASSUME CardReady PROVE Good(g')
  <2> DEFINE y == [g EXCEPT !.room = TRUE]
  <2>1. Aside(g, y) /\ Still(g, y) /\ y.wantw = g.wantw
    BY DEF Good, Live, Owned, Named, Parts, Aside, Still
  <2>2. g' = Enable(y, "dw") \/ g' = y
    BY <1>1 DEF CardReady
  <2> HIDE DEF y
  <2>3. Good(y)
    BY <2>1, AsideGood
  <2> QED BY <2>2, <2>3, EnableGood
<1>2. ASSUME Receive PROVE Good(g')
  <2> DEFINE w == [g EXCEPT !.wantw = @ \cup {"dr"}]
             y == [g EXCEPT !.received = @ + 1]
             m == [kind |-> "data", n |-> g.received + 1]
  <2>1. /\ Aside(g, y) /\ Still(g, y) /\ y.wantw = g.wantw
        /\ Aside(g, w) /\ Still(g, w) /\ w.wantw = g.wantw \cup {"dr"}
    BY DEF Good, Live, Owned, Named, Parts, Aside, Still
  <2>2. g' = w \/ g' = PutQ(y, "dr", m)
    BY <1>2 DEF Receive
  <2> HIDE DEF y, w, m
  <2>3. Good(y) /\ Good(w)
    BY <2>1, AsideGood
  <2> QED BY <2>2, <2>3, PutQGood
<1>3. ASSUME Hangup PROVE Good(g')
  <2> DEFINE m == [kind |-> "hangup", n |-> 0]
  <2>1. Aside(g, Fl) /\ Still(g, Fl) /\ Fl.wantw = g.wantw
    BY DEF Good, Live, Owned, Named, Parts, Aside, Still, Fl
  <2>2. g' = PutUp(Fl, "dr", m)
    BY <1>3 DEF Hangup
  <2> HIDE DEF m
  <2>3. Good(Fl)
    BY <2>1, AsideGood
  <2> QED BY <2>2, <2>3, PutUpOwned, PutUpFine, PlaceGood DEF Good, Live
<1>4. ASSUME Retry PROVE Good(g')
  <2>1. PICK q \in g.retry : g' = Enable([g EXCEPT !.retry = @ \ {q}], q)
    BY <1>4 DEF Retry
  <2> DEFINE y == [g EXCEPT !.retry = @ \ {q}]
             z == Enable(y, q)
  <2>2. /\ DOMAIN y = DOMAIN g /\ y.retry = g.retry \ {q} /\ y.enab = g.enab
        /\ y.q = g.q /\ y.count = g.count /\ y.full = g.full /\ y.wantr = g.wantr
        /\ y.running = g.running /\ y.wantw = g.wantw /\ y.mod = g.mod /\ y.dev = g.dev
        /\ Frame(g, y) /\ Named(y)
    BY DEF Good, Live, Owned, Named, Parts, Frame
  <2> HIDE DEF y
  <2>3. Owned(y) /\ Owned(z) /\ Place(g, z)
    BY <2>2, FrameOwned, QueuesOwned, PlaceTransitive DEF Good, Live
  <2>4. ASSUME Live(g)
        PROVE  Fine(z)
    <3>1. Fine(g) /\ q = "dw"
      BY <2>4, <2>1 DEF Good, Live, Fine
    <3>2. HasService(y, q) /\ q # NoQueue /\ Shaped(y)
      BY <2>2, <3>1 DEF HasService, NoQueue, Fine, Shaped
    <3>3. /\ Shaped(z) /\ Frame(y, z) /\ y.enab \subseteq z.enab /\ q \in z.enab
          /\ z.q = y.q /\ z.count = y.count /\ z.full = y.full /\ z.retry = y.retry
          /\ z.wantw = y.wantw /\ z.wantr = y.wantr
      BY <3>2, EnableOK
    <3> HIDE DEF z
    <3>4. Frame(g, z)
      BY <2>2, <3>3, FrameTransitive
    <3>5. ASSUME NEW p \in Served(g)
          PROVE  Tended(z, p)
      <4>1. Below(z, p) = Below(g, p)
        BY <3>4, SameBelow
      <4>2. HeldUp(g, p) => HeldUp(z, p)
        BY <2>2, <3>3, <4>1 DEF HeldUp
      <4>3. p \in g.enab \cup g.retry \cup {g.running}
              => p \in z.enab \cup z.retry \cup {z.running}
        BY <2>2, <3>3, <3>4 DEF Frame
      <4>4. Tended(g, p)
        BY <3>1, <3>5 DEF Fine
      <4> QED BY <2>2, <3>3, <4>2, <4>3, <4>4 DEF Tended, Attended
    <3> QED BY <2>2, <3>1, <3>3, <3>4, <3>5
            DEF Fine, FullOK, Bare, Served, Frame
  <2> HIDE DEF z
  <2>5. g' = z
    BY <2>1 DEF y, z
  <2> QED BY <2>3, <2>4, <2>5, PlaceGood
<1> QED BY <1>1, <1>2, <1>3, <1>4 DEF Interrupt

-----------------------------------------------------------------------------
(* What processes do. *)
LEMMA WriteGood ==
  ASSUME Good(g), Write
  PROVE  Good(g')
<1> DEFINE a == [g EXCEPT !.writer = "idle"]
           b == [g EXCEPT !.writer = "sleep", !.wantw = @ \cup {"wh"}]
           c == [g EXCEPT !.writer = "idle", !.written = @ + 1]
           m == [kind |-> "data", n |-> g.written + 1]
<1>1. g' = a \/ g' = b \/ g' = PutQ(c, "wh", m)
  BY DEF Write
<1>2. /\ Aside(g, a) /\ Still(g, a) /\ a.wantw = g.wantw
      /\ Aside(g, b) /\ Still(g, b) /\ b.wantw = g.wantw \cup {"wh"}
      /\ Aside(g, c) /\ Still(g, c) /\ c.wantw = g.wantw
  BY DEF Good, Live, Owned, Named, Parts, Aside, Still
<1> HIDE DEF a, b, c, m
<1>3. Good(a) /\ Good(b) /\ Good(c)
  BY <1>2, AsideGood
<1> QED BY <1>1, <1>3, PutQGood

LEMMA ReadGood ==
  ASSUME Good(g), Read
  PROVE  Good(g')
<1> DEFINE x == GetQ(g, "rh")
           a == [g EXCEPT !.reader = "idle"]
           b == [x EXCEPT !.reader = "sleep"]
           c == [x EXCEPT !.reader = "idle", !.got = Append(@, First("rh").n)]
<1>1. g' = a \/ g' = b \/ g' = c
  BY DEF Read
<1>2. Owned(x) /\ Place(g, x)
  BY QueuesOwned DEF Good, Live
<1>3. Live(g) => Fine(x)
  BY GetQFine DEF Good, Live, Queue
<1>4. Good(x)
  BY <1>2, <1>3, PlaceGood
<1> HIDE DEF x
<1>5. /\ Aside(g, a) /\ Still(g, a) /\ a.wantw = g.wantw
      /\ Aside(x, b) /\ Still(x, b) /\ b.wantw = x.wantw
      /\ Aside(x, c) /\ Still(x, c) /\ c.wantw = x.wantw
  BY <1>4 DEF Good, Live, Owned, Named, Parts, Aside, Still
<1> HIDE DEF a, b, c
<1> QED BY <1>1, <1>4, <1>5, AsideGood

LEMMA WorkGood ==
  ASSUME Good(g)
  PROVE  Good(Fl) /\ Place(g, Fl)
<1>1. Aside(g, Fl) /\ Still(g, Fl) /\ Fl.wantw = g.wantw
  BY DEF Good, Live, Owned, Named, Parts, Aside, Still, Fl
<1> QED BY <1>1, AsideGood DEF Still, Place, Live

LEMMA SignalGood ==
  ASSUME Good(g), Signal
  PROVE  Good(g')
<1> DEFINE a == [Fl EXCEPT !.writer = "idle"]
           b == [Fl EXCEPT !.reader = "idle"]
<1>1. g' = a \/ g' = b
  BY DEF Signal
<1>2. Good(Fl)
  BY WorkGood
<1>3. /\ Aside(Fl, a) /\ Still(Fl, a) /\ a.wantw = Fl.wantw
      /\ Aside(Fl, b) /\ Still(Fl, b) /\ b.wantw = Fl.wantw
  BY <1>2 DEF Good, Live, Owned, Named, Parts, Aside, Still
<1> HIDE DEF a, b
<1> QED BY <1>1, <1>2, <1>3, AsideGood

LEMMA FlushByGood ==
  ASSUME Good(g), FlushBy
  PROVE  Good(g')
<1>1. PICK r \in BOOLEAN, w \in BOOLEAN :
        g' = [FlushDown(Fl, r, w) EXCEPT !.lossyw = @ \/ w, !.lossyr = @ \/ r]
  BY DEF FlushBy
<1> DEFINE x == FlushDown(Fl, r, w)
           y == [x EXCEPT !.lossyw = @ \/ w, !.lossyr = @ \/ r]
<1>2. Good(Fl)
  BY WorkGood
<1>3. Frame(Fl, x)
  BY <1>2, FlushDownFrame DEF Good, Live, Owned
<1>4. Owned(x) /\ Place(Fl, x)
  BY <1>2, <1>3, FrameOwned DEF Good, Live
<1>5. Live(Fl) => Fine(x)
  BY <1>2, FlushDownFine DEF Good, Live
<1>6. Good(x)
  BY <1>4, <1>5, PlaceGood
<1> HIDE DEF x
<1>7. Aside(x, y) /\ Still(x, y) /\ y.wantw = x.wantw
  BY <1>6 DEF Good, Live, Owned, Named, Parts, Aside, Still
<1>8. g' = y
  BY <1>1 DEF x
<1> HIDE DEF y
<1> QED BY <1>6, <1>7, <1>8, AsideGood

(* do_ioctl *)
LEMMA IoctlGood ==
  ASSUME Good(g), NEW p \in Procs, Ioctl(p)
  PROVE  Good(g')
<1>1. CASE g.ioctl
  <2> DEFINE y == [g EXCEPT !.io[p].at = "slot"]
  <2>1. g' = y
    BY <1>1 DEF Ioctl
  <2>2. /\ DOMAIN y = DOMAIN g /\ y.ioctl = g.ioctl /\ y.ioctlid = g.ioctlid
        /\ y.iocblk = g.iocblk /\ y.reply = g.reply /\ Still(g, y) /\ y.wantw = g.wantw
    BY DEF Good, Live, Owned, Named, Parts, Still
  <2>3. y.io = [g.io EXCEPT ![p] = [g.io[p] EXCEPT !.at = "slot"]]
    BY DEF Good, Live, Owned, Named, Parts
  <2> HIDE DEF y
  <2>4. y.io = [r \in Procs |-> IF r = p THEN [g.io[p] EXCEPT !.at = "slot"] ELSE g.io[r]]
    BY <2>3 DEF Good, Live, Owned
  <2>5. y.io[p].at = "slot" /\ {"at", "id"} \subseteq DOMAIN y.io[p]
    <3>1. y.io[p] = [g.io[p] EXCEPT !.at = "slot"] /\ {"at", "id"} \subseteq DOMAIN g.io[p]
      BY <2>4 DEF Good, Live, Owned
    <3> QED BY <3>1
  <2>6. \A r \in Procs : /\ {"at", "id"} \subseteq DOMAIN y.io[r]
                         /\ Waits(y, r) => Waits(g, r) /\ y.io[r] = g.io[r]
    BY <2>4, <2>5 DEF Good, Live, Owned, Waits
  <2>7. y.io = [r \in Procs |-> y.io[r]]
    BY <2>4
  <2>8. Owned(y)
    BY <2>2, <2>6, <2>7 DEF Good, Live, Owned, Named
  <2> QED BY <2>1, <2>2, <2>8, StillFine DEF Good, Live, Still
<1>2. CASE ~g.ioctl
  <2> DEFINE id == g.lastid + 1
             io == [at |-> "wait", id |-> id]
             y == [g EXCEPT !.ioctl = TRUE, !.iocblk = 0, !.lastid = id,
                            !.ioctlid = id, !.io[p] = io]
             m == [kind |-> "ioctl", n |-> id]
  <2>1. g' = PutQ(y, "wh", m)
    BY <1>2 DEF Ioctl
  <2> HIDE DEF id, m
  <2>2. /\ DOMAIN y = DOMAIN g /\ y.ioctl = TRUE /\ y.ioctlid = id
        /\ y.iocblk = 0 /\ y.reply = g.reply /\ Still(g, y) /\ y.wantw = g.wantw
    BY DEF Good, Live, Owned, Named, Parts, Still
  <2>3. io.id = id /\ {"at", "id"} \subseteq DOMAIN io
    OBVIOUS
  <2> HIDE DEF io
  <2>4. y.io = [g.io EXCEPT ![p] = io]
    BY DEF Good, Live, Owned, Named, Parts
  <2> HIDE DEF y
  <2>5. y.io = [r \in Procs |-> IF r = p THEN io ELSE g.io[r]]
    BY <2>4 DEF Good, Live, Owned
  <2>6. \A r \in Procs : ~Waits(g, r)
    BY <1>2 DEF Good, Live, Owned
  <2>7. \A r \in Procs : Waits(y, r) => r = p /\ y.io[r].id = id
    BY <2>3, <2>5, <2>6 DEF Waits
  <2>8. /\ y.io = [r \in Procs |-> y.io[r]]
        /\ \A r \in Procs : {"at", "id"} \subseteq DOMAIN y.io[r]
    BY <2>3, <2>5 DEF Good, Live, Owned
  <2>9. Owned(y)
    BY <2>2, <2>7, <2>8 DEF Good, Live, Owned, Named
  <2>10. Good(y)
    BY <2>2, <2>9, StillFine DEF Good, Live, Still
  <2> QED BY <2>1, <2>10, PutQGood
<1> QED BY <1>1, <1>2

LEMMA FreedOwned ==
  ASSUME NEW x, Good(x), NEW p \in Procs, NEW y,
         /\ DOMAIN y = DOMAIN x /\ y.io = [x.io EXCEPT ![p] = Free]
         /\ y.ioctlid = x.ioctlid /\ y.reply = x.reply /\ Still(x, y) /\ y.wantw = x.wantw,
         \/ y.ioctl = x.ioctl /\ y.iocblk = x.iocblk
         \/ Waits(x, p) /\ y.ioctl = FALSE /\ y.iocblk = 0
  PROVE  Good(y)
<1>1. Free.at = "idle" /\ {"at", "id"} \subseteq DOMAIN Free
  BY DEF Free
<1>2. y.io = [r \in Procs |-> IF r = p THEN Free ELSE x.io[r]]
  BY DEF Good, Live, Owned
<1>3. \A r \in Procs : Waits(y, r) => r # p /\ Waits(x, r) /\ y.io[r] = x.io[r]
  BY <1>1, <1>2 DEF Waits
<1>4. /\ y.io = [r \in Procs |-> y.io[r]]
      /\ \A r \in Procs : {"at", "id"} \subseteq DOMAIN y.io[r]
  BY <1>1, <1>2 DEF Good, Live, Owned
<1>5. Owned(y)
  BY <1>3, <1>4 DEF Good, Live, Owned, Named
<1> QED BY <1>5, StillFine DEF Good, Live, Still

LEMMA IoctlEndGood ==
  ASSUME Good(g), NEW p \in Procs, Waits(g, p)
  PROVE  Good(IoctlEnd(g, p))
<1> DEFINE y == [g EXCEPT !.io[p] = Free, !.ioctl = FALSE, !.iocblk = 0]
<1>1. /\ DOMAIN y = DOMAIN g /\ y.io = [g.io EXCEPT ![p] = Free]
      /\ y.ioctlid = g.ioctlid /\ y.reply = g.reply /\ Still(g, y) /\ y.wantw = g.wantw
      /\ y.ioctl = FALSE /\ y.iocblk = 0
  BY DEF Good, Live, Owned, Named, Parts, Still
<1>2. IoctlEnd(g, p) = WakeIoctl(y)
  BY DEF IoctlEnd
<1> HIDE DEF y
<1>3. Good(y)
  BY <1>1, FreedOwned
<1> QED BY <1>2, <1>3, WakeIoctlOwned, WakesFine, PlaceGood DEF Good, Live

LEMMA IoctlGivesUpGood ==
  ASSUME Good(g), NEW p \in Procs, IoctlGivesUp(p)
  PROVE  Good(g')
<1> DEFINE y == [g EXCEPT !.io[p] = Free]
<1>1. g' = y \/ (Waits(g, p) /\ g' = IoctlEnd(g, p))
  BY DEF IoctlGivesUp, Waits
<1>2. /\ DOMAIN y = DOMAIN g /\ y.io = [g.io EXCEPT ![p] = Free]
      /\ y.ioctlid = g.ioctlid /\ y.reply = g.reply /\ Still(g, y) /\ y.wantw = g.wantw
      /\ y.ioctl = g.ioctl /\ y.iocblk = g.iocblk
  BY DEF Good, Live, Owned, Named, Parts, Still
<1> HIDE DEF y
<1>3. Good(y)
  BY <1>2, FreedOwned
<1> QED BY <1>1, <1>3, IoctlEndGood

LEMMA IoctlReplyGood ==
  ASSUME Good(g), NEW p \in Procs, IoctlReply(p)
  PROVE  Good(g')
<1> DEFINE y == [g EXCEPT !.io[p].at = "wait"]
           r == [own |-> g.io[p].id, got |-> g.iocblk]
           x == IoctlEnd(g, p)
           z == [x EXCEPT !.reply = r]
<1>1. /\ Waits(g, p) /\ g.io[p].at = "wait woken"
      /\ \/ g' = y
         \/ g.iocblk # 0 /\ g' = z
  BY DEF IoctlReply, Waits
<1>2. Good(y)
  <2>1. /\ DOMAIN y = DOMAIN g /\ y.ioctl = g.ioctl /\ y.ioctlid = g.ioctlid
        /\ y.iocblk = g.iocblk /\ y.reply = g.reply /\ Still(g, y) /\ y.wantw = g.wantw
    BY DEF Good, Live, Owned, Named, Parts, Still
  <2>2. y.io = [g.io EXCEPT ![p] = [g.io[p] EXCEPT !.at = "wait"]]
    BY DEF Good, Live, Owned, Named, Parts
  <2> HIDE DEF y
  <2>3. y.io = [q \in Procs |-> IF q = p THEN [g.io[p] EXCEPT !.at = "wait"] ELSE g.io[q]]
    BY <2>2 DEF Good, Live, Owned
  <2>4. /\ y.io[p].at = "wait" /\ y.io[p].id = g.io[p].id
        /\ {"at", "id"} \subseteq DOMAIN y.io[p]
    <3>1. y.io[p] = [g.io[p] EXCEPT !.at = "wait"] /\ {"at", "id"} \subseteq DOMAIN g.io[p]
      BY <2>3 DEF Good, Live, Owned
    <3> QED BY <3>1
  <2>5. \A q \in Procs : /\ {"at", "id"} \subseteq DOMAIN y.io[q]
                         /\ Waits(y, q) => Waits(g, q) /\ y.io[q].id = g.io[q].id
    BY <1>1, <2>3, <2>4 DEF Good, Live, Owned, Waits
  <2>6. y.io = [q \in Procs |-> y.io[q]]
    BY <2>3
  <2>7. Owned(y)
    BY <2>1, <2>5, <2>6 DEF Good, Live, Owned, Named
  <2> QED BY <2>1, <2>7, StillFine DEF Good, Live, Still
<1>3. ASSUME g.iocblk # 0
      PROVE  Good(z)
  <2>1. Good(x)
    BY <1>1, IoctlEndGood
  <2>2. r.own = r.got
    BY <1>1, <1>3 DEF Good, Live, Owned
  <2> HIDE DEF x, r
  <2>3. /\ DOMAIN z = DOMAIN x /\ z.io = x.io /\ z.ioctl = x.ioctl
        /\ z.ioctlid = x.ioctlid /\ z.iocblk = x.iocblk /\ z.reply = r
        /\ Still(x, z) /\ z.wantw = x.wantw
    BY <2>1 DEF Good, Live, Owned, Named, Parts, Still
  <2> HIDE DEF z
  <2>4. Owned(z)
    BY <2>1, <2>2, <2>3 DEF Good, Live, Owned, Named, Waits
  <2> QED BY <2>1, <2>3, <2>4, StillFine DEF Good, Live, Still
<1> QED BY <1>1, <1>2, <1>3

-----------------------------------------------------------------------------
(* Modules come and go. *)
LEMMA CalmPushGood ==
  ASSUME Good(g), Push, "blocked push" \notin Rare
  PROVE  Good(g')
<1>1. PICK kind \in Kinds : g' = Attach(Fl, kind)
  BY DEF Push
<1> DEFINE x == Attach(Fl, kind)
<1>2. /\ g.dev /\ g.mod = "none" /\ g.running = NoQueue
      /\ "dw" \notin g.wantw /\ "rh" \notin g.wantw
  BY DEF Push, User
<1>3. Good(Fl) /\ Fl.dev = g.dev /\ Fl.mod = g.mod /\ Fl.wantw = g.wantw
  <2>1. Fl.wantw = g.wantw
    BY DEF Good, Live, Owned, Named, Parts, Fl
  <2> QED BY <2>1, WorkGood DEF Place, Live
<1> DEFINE f == Fl
<1>4. g' = x
  BY <1>1
<1>5. x = [f EXCEPT !.mod = kind, !.wantr = @ \cup {"bw", "br"}]
  BY DEF Attach
<1> HIDE DEF f, x
<1>6. /\ Aside(f, x) /\ x.q = f.q /\ x.count = f.count /\ x.full = f.full
      /\ x.wantr = f.wantr \cup {"bw", "br"} /\ x.enab = f.enab /\ x.retry = f.retry
      /\ x.running = f.running /\ x.wantw = f.wantw /\ x.dev = f.dev
  BY <1>3, <1>5 DEF Good, Live, Owned, Named, Parts, Aside, f
<1>7. /\ Fine(f) /\ f.dev /\ f.mod = "none"
      /\ "dw" \notin f.wantw /\ "rh" \notin f.wantw
  BY <1>2, <1>3 DEF Good, Live, f
<1>8. Owned(x)
  BY <1>3, <1>6, AsideOwned DEF Good, Live, f
<1>9. /\ Below(f, "wh") = "dw" /\ Below(f, "dr") = "rh"
      /\ ~HeldUp(f, "wh") /\ ~HeldUp(f, "dr")
  BY <1>7, Links DEF HeldUp
<1>10. Shaped(x) /\ FullOK(x) /\ x.retry \subseteq {"dw"} /\ x.dev
  BY <1>6, <1>7 DEF Fine, Shaped, FullOK, Aside
<1>11. x.q["bw"] = <<>> /\ x.q["br"] = <<>>
  BY <1>6, <1>7 DEF Fine, Bare
<1>12. \A p \in Served(x) : Tended(x, p)
  <2>1. Tended(f, "wh") /\ Tended(f, "dw") /\ Tended(f, "dr")
    BY <1>7 DEF Fine, Served
  <2>2. Tended(x, "wh") /\ Tended(x, "dw") /\ Tended(x, "dr")
    BY <1>6, <1>9, <2>1 DEF Tended, Attended
  <2>3. Tended(x, "bw") /\ Tended(x, "br")
    BY <1>6, <1>11 DEF Tended
  <2> QED BY <2>2, <2>3 DEF Served
<1>13. Fine(x)
  BY <1>10, <1>11, <1>12 DEF Fine, Bare
<1> QED BY <1>4, <1>8, <1>13 DEF Good, Live

LEMMA PushGood ==
  ASSUME Good(g), Push
  PROVE  Good(g')
<1>1. CASE "blocked push" \notin Rare
  BY <1>1, CalmPushGood
<1>2. CASE "blocked push" \in Rare
  <2>1. PICK kind \in Kinds : g' = Attach(Fl, kind)
    BY DEF Push
  <2> DEFINE x == Attach(Fl, kind)
  <2>2. Good(Fl)
    BY WorkGood
  <2>3. Aside(Fl, x)
    BY <2>2 DEF Good, Owned, Named, Parts, Aside, Attach
  <2> HIDE DEF x
  <2>4. Owned(x)
    BY <2>2, <2>3, AsideOwned DEF Good
  <2> QED BY <1>2, <2>1, <2>4 DEF Good, Live, x
<1> QED BY <1>1, <1>2

(* qdetach: the queues are emptied, which wakes who waited for room. *)
LEMMA DetachOwned ==
  ASSUME NEW x, Owned(x), NEW q
  PROVE  /\ Owned(Detach(x, q))
         /\ q = "dw" => ~Detach(x, q).dev
<1> DEFINE r == [x EXCEPT !.retry = @ \ Pair(q)]
           y == Unlisted(r, q)
           a == Flush(y, Other(q), TRUE)
           z == Flush(a, q, TRUE)
           w == [z EXCEPT !.full = @ \ Pair(q), !.wantr = @ \ Pair(q), !.wantw = @ \ Pair(q),
                          !.mod = IF q \in {"bw", "br"} THEN "none" ELSE @,
                          !.dev = @ /\ q \notin {"dw", "dr"}]
<1>2. Detach(x, q) = w
  BY DEF Detach
<1>3. Aside(x, r) /\ Owned(r)
  <2>1. Aside(x, r)
    BY DEF Owned, Named, Parts, Aside
  <2> QED BY <2>1, AsideOwned
<1> HIDE DEF r
<1>4. Owned(y)
  <2>1. Aside(r, y)
    BY <1>3 DEF Owned, Named, Parts, Aside, Unlisted
  <2> QED BY <1>3, <2>1, AsideOwned
<1> HIDE DEF y
<1>5. Owned(a)
  BY <1>4, QueuesOwned
<1> HIDE DEF a
<1>6. Owned(z)
  BY <1>5, QueuesOwned
<1> HIDE DEF z
<1>7. Aside(z, w) /\ (q = "dw" => ~w.dev)
  BY <1>6 DEF Owned, Named, Parts, Aside
<1> HIDE DEF w
<1> QED BY <1>2, <1>6, <1>7, AsideOwned

LEMMA DetachFine ==
  ASSUME NEW x, Fine(x), x.running = NoQueue
  PROVE  Fine(Detach(x, "bw"))
<1> DEFINE two == {"bw", "br"}
           r == [x EXCEPT !.retry = @ \ two]
           y == [r EXCEPT !.enab = @ \ two,
                          !.sched = SelectSeq(@, LAMBDA p : p \notin Pair("bw"))]
           a == Flush(y, "br", TRUE)
           z == Flush(a, "bw", TRUE)
           w == [z EXCEPT !.full = @ \ two, !.wantr = @ \ two, !.wantw = @ \ two,
                          !.mod = "none", !.dev = @ /\ TRUE]
<1>1. Pair("bw") = two /\ Other("bw") = "br"
  BY DEF Pair, Other
<1>2. Unlisted(r, "bw") = y
  BY <1>1 DEF Unlisted
<1>3. Detach(x, "bw") = w
  <2> DEFINE v == [z EXCEPT !.full = @ \ Pair("bw"), !.wantr = @ \ Pair("bw"),
                            !.wantw = @ \ Pair("bw"),
                            !.mod = IF "bw" \in {"bw", "br"} THEN "none" ELSE @,
                            !.dev = @ /\ "bw" \notin {"dw", "dr"}]
  <2>1. Detach(x, "bw") = v
    BY <1>1, <1>2 DEF Detach
  <2> HIDE DEF z
  <2>2. v = w
    BY <1>1
  <2> QED BY <2>1, <2>2
<1>4. /\ DOMAIN y = DOMAIN x /\ y.q = x.q /\ y.count = x.count /\ y.full = x.full
      /\ y.wantr = x.wantr /\ y.wantw = x.wantw /\ y.enab = x.enab \ two
      /\ y.retry = x.retry \ two /\ y.running = x.running /\ y.mod = x.mod /\ y.dev = x.dev
  BY DEF Fine, Shaped, Parts
<1> HIDE DEF r, y
<1>5. Shaped(y) /\ FullOK(y) /\ y.dev
  BY <1>4 DEF Fine, Shaped, FullOK
<1>6. \A p : QNext(y, p) = QNext(x, p)
  BY <1>4 DEF QNext
<1>7. \A p : (HasService(y, p) <=> HasService(x, p)) /\ Below(y, p) = Below(x, p)
  BY <1>4, <1>6 DEF Below, HasService
<1>8. \A p \in {"wh", "dw", "dr"} : p \in Served(y) /\ Tended(y, p)
  <2>1. ASSUME NEW p \in {"wh", "dw", "dr"}
        PROVE  p \in Served(y) /\ Tended(y, p)
    <3>1. p \in Served(x) /\ p \in Served(y)
      BY DEF Served
    <3>2. Tended(x, p)
      BY <3>1 DEF Fine
    <3>3. HeldUp(x, p) => HeldUp(y, p)
      BY <1>4, <1>7 DEF HeldUp
    <3>4. x.retry \subseteq {"dw"}
      BY DEF Fine
    <3> QED BY <1>4, <3>1, <3>2, <3>3, <3>4 DEF Tended, Attended
  <2> QED BY <2>1
<1>9. Keeps(y, a, "br") /\ a.q["br"] = <<>> /\ a.count["br"] = 0
  BY <1>5, FlushOK DEF Queue
<1> HIDE DEF a
<1>10. Shaped(a) /\ FullOK(a) /\ a.dev /\ Served(a) = Served(y)
  BY <1>5, <1>9 DEF Keeps, Frame, Served
<1>11. Keeps(a, z, "bw") /\ z.q["bw"] = <<>> /\ z.count["bw"] = 0
  BY <1>10, FlushOK DEF Queue
<1> HIDE DEF z
<1>12. z.q["br"] = <<>> /\ z.count["br"] = 0
  BY <1>9, <1>11 DEF Keeps, Queue
<1>13. \A p \in {"wh", "dw", "dr"} : Tended(z, p)
  BY <1>8, <1>9, <1>10, <1>11, KeepsTended
<1>14. Shaped(z) /\ FullOK(z) /\ z.dev /\ z.running = NoQueue /\ z.retry \subseteq {"dw"}
  BY <1>4, <1>9, <1>10, <1>11 DEF Keeps, Frame, Fine
<1>15. /\ DOMAIN w = DOMAIN z /\ w.q = z.q /\ w.count = z.count /\ w.full = z.full \ two
       /\ w.wantr = z.wantr \ two /\ w.wantw = z.wantw \ two /\ w.enab = z.enab
       /\ w.retry = z.retry /\ w.running = z.running /\ w.mod = "none" /\ w.dev
  BY <1>14 DEF Shaped, Parts
<1> HIDE DEF w
<1>16. Shaped(w) /\ FullOK(w) /\ Bare(w) /\ w.retry \subseteq {"dw"}
  BY <1>11, <1>12, <1>14, <1>15 DEF Shaped, FullOK, Bare
<1>17. Served(w) = {"wh", "dw", "dr"}
  BY <1>15 DEF Served
<1>18. ASSUME NEW p \in {"wh", "dr"}, HeldUp(z, p)
       PROVE  HeldUp(w, p)
  <2>1. Below(z, p) \notin two
    <3>1. Lowat["bw"] \in Nat /\ Lowat["br"] \in Nat
      BY WaterMarks DEF Queue
    <3>2. ~(0 > Lowat["bw"]) /\ ~(0 > Lowat["br"])
      BY <3>1
    <3> QED BY <1>11, <1>12, <1>18, <3>2 DEF HeldUp
  <2>2. Below(w, p) = Below(z, p)
    BY <1>14, <1>15, <2>1, Links
  <2> QED BY <1>15, <1>18, <2>1, <2>2 DEF HeldUp
<1>19. ASSUME NEW p \in {"wh", "dw", "dr"}
       PROVE  Tended(w, p)
  BY <1>13, <1>15, <1>18, <1>19 DEF Tended, Attended
<1> QED BY <1>3, <1>15, <1>16, <1>17, <1>19 DEF Fine

LEMMA PopGood ==
  ASSUME Good(g), Pop
  PROVE  Good(g')
<1> DEFINE x == Detach(Fl, "bw")
           y == [x EXCEPT !.lossyw = @ \/ g.q["bw"] # <<>>, !.lossyr = @ \/ g.q["br"] # <<>>]
<1>1. g' = y /\ g.dev /\ g.running = NoQueue
  BY DEF Pop, User
<1>2. Good(Fl) /\ Fl.dev /\ Fl.running = NoQueue
  BY <1>1, WorkGood DEF Place, Live
<1>3. Good(x)
  BY <1>2, DetachOwned, DetachFine DEF Good, Live
<1> HIDE DEF x
<1>4. Aside(x, y) /\ Still(x, y) /\ y.wantw = x.wantw
  BY <1>3 DEF Good, Live, Owned, Named, Parts, Aside, Still
<1> HIDE DEF y
<1> QED BY <1>1, <1>3, <1>4, AsideGood

-----------------------------------------------------------------------------
(* Open and close. *)
LEMMA StartGood ==
  Owned(Start) /\ Fine(Start)
<1>1. Named(Start)
  BY DEF Start, Named, Parts
<1>2. /\ Start.io = [p \in Procs |-> Free] /\ Start.ioctl = FALSE
      /\ Start.iocblk = 0 /\ Start.reply = [own |-> 0, got |-> 0]
  BY DEF Start
<1>3. Free.at = "idle" /\ {"at", "id"} \subseteq DOMAIN Free
  BY DEF Free
<1> DEFINE s == Start
<1>4. Owned(s)
  <2>1. s.io = [p \in Procs |-> s.io[p]] /\ \A p \in Procs : s.io[p] = Free
    BY <1>2
  <2>2. s.reply.own = s.reply.got
    BY <1>2
  <2> HIDE DEF s
  <2>3. \A p \in Procs : ~Waits(s, p)
    BY <1>3, <2>1 DEF Waits
  <2> QED BY <1>1, <1>2, <1>3, <2>1, <2>2, <2>3 DEF Owned, s
<1>5. /\ Start.q = [q \in Queue |-> <<>>] /\ Start.count = [q \in Queue |-> 0]
      /\ Start.full = {} /\ Start.retry = {} /\ Start.wantr = Queue \ {"bw", "br"}
      /\ Start.mod = "none" /\ Start.dev = TRUE
  BY DEF Start
<1>6. Shaped(Start)
  <2>1. Start.q = [q \in Queue |-> Start.q[q]]
    BY <1>5
  <2>2. Start.count \in [Queue -> Int]
    BY <1>5
  <2> QED BY <1>1, <2>1, <2>2 DEF Shaped, Named
<1>7. \A p \in Served(Start) : Tended(Start, p)
  BY <1>5 DEF Served, Tended, Queue
<1>8. Fine(Start)
  BY <1>5, <1>6, <1>7 DEF Fine, FullOK, Bare, Queue
<1> QED BY <1>4, <1>8

LEMMA InitGood ==
  ASSUME Init
  PROVE  Good(g)
<1> DEFINE x == Attach(Start, "buffer")
           s == Start
<1>1. g = Start \/ g = x
  BY DEF Init
<1>2. x = [s EXCEPT !.mod = "buffer", !.wantr = @ \cup {"bw", "br"}]
  BY DEF Attach
<1>3. /\ Owned(s) /\ Fine(s) /\ s.q = [q \in Queue |-> <<>>] /\ s.full = {} /\ s.retry = {}
      /\ s.wantr = Queue \ {"bw", "br"}
  BY StartGood DEF Start
<1> HIDE DEF s, x
<1>4. /\ Aside(s, x) /\ x.q = s.q /\ x.count = s.count /\ x.full = s.full
      /\ x.retry = s.retry /\ x.dev = s.dev /\ x.wantr = s.wantr \cup {"bw", "br"}
  BY <1>2, <1>3 DEF Owned, Named, Parts, Aside
<1>5. Shaped(x) /\ FullOK(x) /\ Bare(x)
  BY <1>3, <1>4 DEF Fine, Shaped, FullOK, Bare, Aside, Queue
<1>6. \A p \in Served(x) : Tended(x, p)
  BY <1>3, <1>4 DEF Served, Tended, Queue
<1>7. Fine(x)
  BY <1>3, <1>4, <1>5, <1>6 DEF Fine
<1>8. Owned(x)
  BY <1>3, <1>4, AsideOwned DEF Good, Live
<1> QED BY <1>1, <1>3, <1>7, <1>8 DEF Good, Live, s

LEMMA CloseGood ==
  ASSUME Good(g), Close
  PROVE  Good(g')
<1>1. /\ DOMAIN g' = DOMAIN g /\ g'.io = g.io /\ g'.ioctlid = g.ioctlid
      /\ g'.iocblk = g.iocblk /\ g'.reply = g.reply /\ Still(g, g') /\ g'.wantw = g.wantw
  BY DEF Close, Good, Live, Owned, Named, Parts, Still
<1>2. \A p \in Procs : g.io[p] = Free
  BY DEF Close
<1>3. \A p \in Procs : ~Waits(g', p)
  <2>1. Free.at = "idle"
    BY DEF Free
  <2> QED BY <1>1, <1>2, <2>1 DEF Waits
<1>4. Owned(g')
  BY <1>1, <1>3 DEF Good, Live, Owned, Named
<1> QED BY <1>1, <1>4, StillFine DEF Good, Live, Still

LEMMA CloseStepGood ==
  ASSUME Good(g), CloseStep
  PROVE  Good(g')
<1> DEFINE q == QNext(g, "wh")
           a == [g EXCEPT !.closer = "sleep"]
           x == Detach(g, q)
           y == [x EXCEPT !.closer = "check"]
<1>1. g.running = NoQueue /\ g.dev /\ (g' = a \/ g' = y)
  BY DEF CloseStep
<1>2. q \in {"bw", "dw"}
  BY <1>1 DEF QNext
<1>3. Aside(g, a) /\ Still(g, a) /\ a.wantw = g.wantw
  BY DEF Good, Live, Owned, Named, Parts, Aside, Still
<1> HIDE DEF a, q
<1>4. Good(x)
  BY <1>1, <1>2, DetachOwned, DetachFine DEF Good, Live
<1> HIDE DEF x
<1>5. Aside(x, y) /\ Still(x, y) /\ y.wantw = x.wantw
  BY <1>4 DEF Good, Live, Owned, Named, Parts, Aside, Still
<1> HIDE DEF y
<1> QED BY <1>1, <1>3, <1>4, <1>5, AsideGood

LEMMA CloseTimeoutGood ==
  ASSUME Good(g), CloseTimeout
  PROVE  Good(g')
<1>1. Aside(g, g') /\ Still(g, g') /\ g'.wantw = g.wantw
  BY DEF CloseTimeout, Good, Live, Owned, Named, Parts, Aside, Still
<1> QED BY <1>1, AsideGood

LEMMA CloseHeadGood ==
  ASSUME Good(g), CloseHead
  PROVE  Good(g')
<1> DEFINE a == Flush(g, "wh", TRUE)
           b == Flush(a, "rh", TRUE)
           x == Unlisted(b, "wh")
           y == [x EXCEPT !.closer = "no", !.full = {}, !.wantw = {}, !.wantr = {}]
<1>1. ~g.dev /\ g' = y
  BY DEF CloseHead
<1>2. Owned(a) /\ Place(g, a)
  BY QueuesOwned DEF Good, Live
<1> HIDE DEF a
<1>3. Owned(b) /\ Place(a, b)
  BY <1>2, QueuesOwned
<1> HIDE DEF b
<1>4. Aside(b, x) /\ x.dev = b.dev
  BY <1>3 DEF Owned, Named, Parts, Aside, Unlisted
<1>5. Owned(x)
  BY <1>3, <1>4, AsideOwned
<1> HIDE DEF x
<1>6. Aside(x, y) /\ y.dev = x.dev
  BY <1>5 DEF Owned, Named, Parts, Aside
<1> HIDE DEF y
<1>7. Owned(y) /\ ~y.dev
  BY <1>1, <1>2, <1>3, <1>4, <1>5, <1>6, AsideOwned DEF Place, Live
<1> QED BY <1>1, <1>7 DEF Good, Live

LEMMA OpenGood ==
  ASSUME Good(g), Open
  PROVE  Good(g')
<1> DEFINE s == Start
           y == [s EXCEPT !.lastid = g.lastid, !.user = g.user + g.written + g.received]
<1>1. g' = y
  BY DEF Open
<1>2. Good(s)
  BY StartGood DEF Good
<1> HIDE DEF s
<1>3. Aside(s, y) /\ Still(s, y) /\ y.wantw = s.wantw
  BY <1>2 DEF Good, Live, Owned, Named, Parts, Aside, Still
<1> HIDE DEF y
<1> QED BY <1>1, <1>2, <1>3, AsideGood

-----------------------------------------------------------------------------
LEMMA StepGood ==
  ASSUME Good(g), [Next]_vars
  PROVE  Good(g')
<1>1. CASE Service
  BY <1>1, RunGood, ServeHeadWriteGood, ServeHeadReadGood, TransmitGood, ForwardGood DEF Service
<1>2. CASE Interrupt
  BY <1>2, InterruptGood
<1>3. CASE Process
  BY <1>3, WriteGood, ReadGood, SignalGood, FlushByGood, PushGood, PopGood, IoctlGood,
     IoctlGivesUpGood, IoctlReplyGood, CloseGood, CloseStepGood, CloseTimeoutGood,
     CloseHeadGood, OpenGood DEF Process
<1>4. CASE UNCHANGED vars
  BY <1>4 DEF vars
<1> QED BY <1>1, <1>2, <1>3, <1>4 DEF Next

(* No message waits in a queue that nobody will serve again, however       *)
(* queues fill and drain, modules are pushed and popped and the line comes *)
(* and goes: the search for who waits (get_post, streams_sys.c:1117) finds *)
(* the right queue.  That a module is pushed while data are held up, on the*)
(* write or on the read side, is excluded: it is not true then (I_PUSH,    *)
(* streams_io.c:1376).                                                     *)
THEOREM WakeupsKept ==
  ASSUME "blocked push" \notin Rare
  PROVE  Spec => []NoLostWakeup
<1>1. Init => Good(g)
  BY InitGood
<1>2. Good(g) /\ [Next]_vars => Good(g)'
  BY StepGood
<1>3. Good(g) => NoLostWakeup
  <2>1. ASSUME Good(g), g.dev, NEW q \in Queue \ {"rh"}, g.q[q] # <<>>
        PROVE  \/ q \in g.enab \cup g.retry \cup {g.running}
               \/ q # "dw" /\ Waiting(q)
    <3>1. Fine(g)
      BY <2>1 DEF Good, Live
    <3>2. q \in Served(g)
      BY <2>1, <3>1 DEF Fine, Bare, Served, Queue
    <3>3. Attended(g, q)
      BY <2>1, <3>1, <3>2 DEF Fine, Tended
    <3> QED BY <3>3 DEF Attended, HeldUp, Waiting
  <2> QED BY <2>1 DEF NoLostWakeup
<1> QED BY <1>1, <1>2, <1>3, PTL DEF Spec

(* The reply an ioctl returns is the one to its own request, also when it  *)
(* or others were given up before (streams_io.c:812).                      *)
THEOREM RepliesOwn == Spec => []OwnReply
<1>1. Init => Good(g)
  BY InitGood
<1>2. Good(g) /\ [Next]_vars => Good(g)'
  BY StepGood
<1>3. Good(g) => OwnReply
  BY DEF Good, Live, Owned, OwnReply
<1> QED BY <1>1, <1>2, <1>3, PTL DEF Spec

-----------------------------------------------------------------------------
(* The data.  What OfKind and Numbers make of a sequence needs induction   *)
(* over its length.                                                        *)
(* Induction over the numbers, stated with a set, and over the sequences   *)
(* over a set. *)
LEMMA Smallest ==
  ASSUME NEW T, T \subseteq Nat, T # {}
  PROVE  \E n \in T : \A k \in T : n <= k
<1> DEFINE R == {ss \in Nat \X Nat : ss[1] < ss[2]}
<1>1. R = OpToRel(<, Nat)
  BY DEF OpToRel
<1>2. IsWellFoundedOn(R, Nat)
  BY <1>1, NatLessThanWellFounded
<1> HIDE DEF R
<1>3. PICK n \in T : \A k \in T : <<k, n>> \notin R
  BY <1>2, WFMin
<1>4. \A k \in T : ~(k < n)
  BY <1>3 DEF R
<1> QED BY <1>4

LEMMA Induction ==
  ASSUME NEW S, 0 \in S, \A n \in Nat : n \in S => n + 1 \in S
  PROVE  Nat \subseteq S
<1> DEFINE T == {n \in Nat : n \notin S}
<1>1. SUFFICES ASSUME T # {} PROVE FALSE
  OBVIOUS
<1>2. PICK n \in T : \A k \in T : n <= k
  BY <1>1, Smallest
<1>3. n # 0 /\ n - 1 \in Nat /\ n - 1 \notin T
  BY <1>2
<1> QED BY <1>3

LEMMA FromTheLeft ==
  ASSUME NEW M, NEW T, <<>> \in T, \A s \in Seq(M), m \in M : s \in T => Append(s, m) \in T
  PROVE  Seq(M) \subseteq T
<1> DEFINE S == {n \in Nat : \A s \in Seq(M) : Len(s) = n => s \in T}
<1>1. 0 \in S
  <2>1. ASSUME NEW s \in Seq(M), Len(s) = 0 PROVE s \in T
    <3>1. s = <<>>
      BY <2>1
    <3> QED BY <3>1
  <2> QED BY <2>1
<1>2. ASSUME NEW n \in Nat, n \in S PROVE n + 1 \in S
  <2>1. ASSUME NEW s \in Seq(M), Len(s) = n + 1 PROVE s \in T
    <3> DEFINE t == [i \in 1 .. n |-> s[i]]
    <3>1. t \in Seq(M) /\ Len(t) = n /\ s[n + 1] \in M
      BY <2>1
    <3>2. s = Append(t, s[n + 1])
      BY <2>1, <3>1
    <3>3. t \in T
      BY <1>2, <3>1
    <3> HIDE DEF t
    <3> QED BY <3>1, <3>2, <3>3
  <2> QED BY <2>1
<1> HIDE DEF S
<1>3. Nat \subseteq S
  BY <1>1, <1>2, Induction
<1> QED
  <2>1. ASSUME NEW s \in Seq(M) PROVE s \in T
    <3>1. Len(s) \in S
      BY <1>3
    <3> QED BY <3>1 DEF S
  <2> QED BY <2>1

-----------------------------------------------------------------------------
(* OfKind: what its recursive function is, one message after the other. *)
Filters(f, s, kinds) ==
  f = [i \in 0 .. Len(s) |->
         IF i = 0 THEN <<>> ELSE IF s[i].kind \in kinds THEN Append(f[i - 1], s[i]) ELSE f[i - 1]]

LEMMA FilterFound ==
  ASSUME NEW s \in Seq(Message), NEW kinds
  PROVE  \E f : Filters(f, s, kinds)
<1> DEFINE Upto(f, n) ==
             f = [i \in 0 .. n |-> IF i = 0 THEN <<>>
                                   ELSE IF s[i].kind \in kinds THEN Append(f[i - 1], s[i])
                                   ELSE f[i - 1]]
           S == {n \in Nat : \E f : Upto(f, n)}
<1>1. 0 \in S
  <2> DEFINE f == [i \in 0 .. 0 |-> <<>>]
  <2>1. Upto(f, 0)
    OBVIOUS
  <2> QED BY <2>1
<1>2. ASSUME NEW n \in Nat, n \in S PROVE n + 1 \in S
  <2>1. PICK f : Upto(f, n)
    BY <1>2
  <2> DEFINE last == IF s[n + 1].kind \in kinds THEN Append(f[n], s[n + 1]) ELSE f[n]
             h == [i \in 0 .. n + 1 |-> IF i = n + 1 THEN last ELSE f[i]]
             k == [i \in 0 .. n + 1 |-> IF i = 0 THEN <<>>
                                   ELSE IF s[i].kind \in kinds THEN Append(h[i - 1], s[i])
                                   ELSE h[i - 1]]
  <2>2. ASSUME NEW i \in 0 .. n + 1 PROVE h[i] = k[i]
    <3>1. CASE i = n + 1
      <4>1. h[i - 1] = f[n] /\ i # 0
        BY <3>1
      <4> QED BY <3>1, <4>1
    <3>2. CASE i # n + 1
      <4>1. i \in 0 .. n /\ h[i] = f[i] /\ (i # 0 => h[i - 1] = f[i - 1])
        BY <3>2
      <4>2. f[i] = IF i = 0 THEN <<>>
                   ELSE IF s[i].kind \in kinds THEN Append(f[i - 1], s[i]) ELSE f[i - 1]
        BY <2>1, <4>1
      <4> HIDE DEF h
      <4> QED BY <4>1, <4>2
    <3> QED BY <3>1, <3>2
  <2>3. h = k
    <3>1. h = [i \in 0 .. n + 1 |-> h[i]] /\ k = [i \in 0 .. n + 1 |-> k[i]]
      OBVIOUS
    <3> HIDE DEF h, k
    <3> QED BY <3>1, <2>2
  <2> HIDE DEF h
  <2>4. Upto(h, n + 1)
    BY <2>3
  <2> HIDE DEF Upto
  <2> QED BY <2>4
<1>3. Nat \subseteq S
  <2> HIDE DEF S
  <2> QED BY <1>1, <1>2, Induction
<1>4. Len(s) \in S
  <2> HIDE DEF S
  <2> QED BY <1>3
<1>5. \E f : Upto(f, Len(s))
  <2> HIDE DEF Upto
  <2> QED BY <1>4
<1> QED BY <1>5 DEF Filters

LEMMA FiltersAgree ==
  ASSUME NEW s \in Seq(Message), NEW t \in Seq(Message), NEW kinds, NEW f, NEW h,
         Filters(f, s, kinds), Filters(h, t, kinds), NEW n \in Nat,
         n <= Len(s), n <= Len(t), \A i \in 1 .. n : s[i] = t[i]
  PROVE  f[n] = h[n]
<1> DEFINE S == {k \in Nat : k <= n => f[k] = h[k]}
<1>1. 0 \in S
  BY DEF Filters
<1>2. ASSUME NEW k \in Nat, k \in S PROVE k + 1 \in S
  <2>1. SUFFICES ASSUME k + 1 <= n PROVE f[k + 1] = h[k + 1]
    OBVIOUS
  <2>2. /\ k + 1 \in 0 .. Len(s) /\ k + 1 \in 0 .. Len(t) /\ k + 1 # 0 /\ (k + 1) - 1 = k
        /\ f[k] = h[k] /\ s[k + 1] = t[k + 1]
    BY <1>2, <2>1
  <2>3. f[k + 1] = IF s[k + 1].kind \in kinds THEN Append(f[k], s[k + 1]) ELSE f[k]
    BY <2>2 DEF Filters
  <2>4. h[k + 1] = IF t[k + 1].kind \in kinds THEN Append(h[k], t[k + 1]) ELSE h[k]
    BY <2>2 DEF Filters
  <2> QED BY <2>2, <2>3, <2>4
<1>3. Nat \subseteq S
  <2> HIDE DEF S
  <2> QED BY <1>1, <1>2, Induction
<1> QED BY <1>3

LEMMA OfKindIs ==
  ASSUME NEW s \in Seq(Message), NEW kinds, NEW f, Filters(f, s, kinds)
  PROVE  OfKind(s, kinds) = f[Len(s)]
<1> DEFINE c == CHOOSE h : h = [i \in 0 .. Len(s) |->
              IF i = 0 THEN <<>> ELSE IF s[i].kind \in kinds THEN Append(h[i - 1], s[i])
                                      ELSE h[i - 1]]
<1>1. OfKind(s, kinds) = c[Len(s)]
  BY DEF OfKind
<1>2. c = CHOOSE h : Filters(h, s, kinds)
  BY DEF Filters
<1> HIDE DEF c
<1>3. Filters(c, s, kinds)
  BY <1>2
<1>4. c[Len(s)] = f[Len(s)]
  BY <1>3, FiltersAgree
<1> QED BY <1>1, <1>4

LEMMA OfKindNone ==
  ASSUME NEW kinds
  PROVE  OfKind(<<>>, kinds) = <<>>
<1>1. <<>> \in Seq(Message)
  OBVIOUS
<1>2. PICK f : Filters(f, <<>>, kinds)
  BY <1>1, FilterFound
<1>3. f[0] = <<>>
  BY <1>2 DEF Filters
<1> QED BY <1>1, <1>2, <1>3, OfKindIs

LEMMA OfKindAppend ==
  ASSUME NEW s \in Seq(Message), NEW m \in Message, NEW kinds
  PROVE  OfKind(Append(s, m), kinds) =
           IF m.kind \in kinds THEN Append(OfKind(s, kinds), m) ELSE OfKind(s, kinds)
<1> DEFINE t == Append(s, m)
           n == Len(s)
<1>1. t \in Seq(Message) /\ Len(t) = n + 1 /\ t[n + 1] = m /\ n \in Nat
      /\ \A i \in 1 .. n : s[i] = t[i]
  OBVIOUS
<1> HIDE DEF t
<1>2. PICK f : Filters(f, s, kinds)
  BY FilterFound
<1>3. PICK h : Filters(h, t, kinds)
  BY <1>1, FilterFound
<1>4. f[n] = h[n]
  <2>1. n <= Len(s) /\ n <= Len(t)
    BY <1>1
  <2> HIDE DEF n
  <2> QED BY <2>1, <1>1, <1>2, <1>3, FiltersAgree
<1>5. h[n + 1] = IF m.kind \in kinds THEN Append(h[n], m) ELSE h[n]
  <2>1. n + 1 \in 0 .. Len(t) /\ n + 1 # 0 /\ (n + 1) - 1 = n
    BY <1>1
  <2> QED BY <1>1, <1>3, <2>1 DEF Filters
<1>6. OfKind(s, kinds) = f[n] /\ OfKind(t, kinds) = h[n + 1]
  BY <1>1, <1>2, <1>3, OfKindIs
<1> QED BY <1>4, <1>5, <1>6 DEF t

-----------------------------------------------------------------------------
(* Sequences put together.                                                 *)
LEMMA Joined ==
  ASSUME NEW M, NEW s \in Seq(M), NEW t \in Seq(M)
  PROVE  /\ s \o t \in Seq(M) /\ Len(s \o t) = Len(s) + Len(t)
         /\ \A i \in 1 .. Len(s) + Len(t) :
              (s \o t)[i] = IF i <= Len(s) THEN s[i] ELSE t[i - Len(s)]
OBVIOUS

LEMMA SameSequence ==
  ASSUME NEW M, NEW s \in Seq(M), NEW t \in Seq(M), Len(s) = Len(t),
         \A i \in 1 .. Len(s) : s[i] = t[i]
  PROVE  s = t
<1>1. s = [i \in 1 .. Len(s) |-> s[i]] /\ t = [i \in 1 .. Len(t) |-> t[i]]
  OBVIOUS
<1> QED BY <1>1

LEMMA Associative ==
  ASSUME NEW M, NEW s \in Seq(M), NEW t \in Seq(M), NEW u \in Seq(M)
  PROVE  (s \o t) \o u = s \o (t \o u)
<1> DEFINE a == (s \o t) \o u
           b == s \o (t \o u)
<1>1. s \o t \in Seq(M) /\ t \o u \in Seq(M)
  BY Joined
<1>2. a \in Seq(M) /\ Len(a) = Len(s) + Len(t) + Len(u)
  BY <1>1, Joined
<1>3. b \in Seq(M) /\ Len(b) = Len(s) + Len(t) + Len(u)
  BY <1>1, Joined
<1>4. ASSUME NEW i \in 1 .. Len(s) + Len(t) + Len(u) PROVE a[i] = b[i]
  <2>1. Len(s) \in Nat /\ Len(t) \in Nat /\ Len(u) \in Nat
    OBVIOUS
  <2>2. a[i] = IF i <= Len(s) + Len(t) THEN (s \o t)[i] ELSE u[i - (Len(s) + Len(t))]
    BY <1>1, <2>1, Joined
  <2>3. b[i] = IF i <= Len(s) THEN s[i] ELSE (t \o u)[i - Len(s)]
    BY <1>1, <2>1, Joined
  <2>4. i <= Len(s) + Len(t) => (s \o t)[i] = IF i <= Len(s) THEN s[i] ELSE t[i - Len(s)]
    BY <2>1, Joined
  <2>5. i > Len(s) => (t \o u)[i - Len(s)] = IF i - Len(s) <= Len(t) THEN t[i - Len(s)]
                                            ELSE u[i - Len(s) - Len(t)]
    <3>1. SUFFICES ASSUME i > Len(s)
                   PROVE  (t \o u)[i - Len(s)] = IF i - Len(s) <= Len(t) THEN t[i - Len(s)]
                                                 ELSE u[i - Len(s) - Len(t)]
      OBVIOUS
    <3>2. i - Len(s) \in 1 .. Len(t) + Len(u)
      BY <3>1, <2>1
    <3> QED BY <3>2, Joined
  <2> HIDE DEF a, b
  <2>6. i - (Len(s) + Len(t)) = i - Len(s) - Len(t)
    BY <2>1
  <2> QED BY <2>1, <2>2, <2>3, <2>4, <2>5, <2>6
<1> HIDE DEF a, b
<1>5. a = b
  BY <1>2, <1>3, <1>4, SameSequence
<1> QED BY <1>5 DEF a, b

LEMMA NothingJoined ==
  ASSUME NEW M, NEW s \in Seq(M)
  PROVE  s \o <<>> = s /\ <<>> \o s = s /\ <<>> \in Seq(M)
<1>1. <<>> \in Seq(M) /\ Len(<<>>) = 0
  OBVIOUS
<1>2. /\ s \o <<>> \in Seq(M) /\ Len(s \o <<>>) = Len(s)
      /\ <<>> \o s \in Seq(M) /\ Len(<<>> \o s) = Len(s)
  BY <1>1, Joined
<1>3. \A i \in 1 .. Len(s) : (s \o <<>>)[i] = s[i]
  BY <1>1, Joined
<1>4. \A i \in 1 .. Len(s) : (<<>> \o s)[i] = s[i]
  BY <1>1, Joined
<1> QED BY <1>1, <1>2, <1>3, <1>4, SameSequence

LEMMA Single ==
  ASSUME NEW M, NEW s \in Seq(M), NEW m \in M
  PROVE  <<m>> \in Seq(M) /\ Append(s, m) = s \o <<m>> /\ Append(s, m) \in Seq(M)
<1>1. <<m>> \in Seq(M) /\ Len(<<m>>) = 1 /\ <<m>>[1] = m
  OBVIOUS
<1>2. Append(s, m) \in Seq(M) /\ Len(Append(s, m)) = Len(s) + 1
  OBVIOUS
<1>3. s \o <<m>> \in Seq(M) /\ Len(s \o <<m>>) = Len(s) + 1
  BY <1>1, Joined
<1>4. ASSUME NEW i \in 1 .. Len(s) + 1 PROVE Append(s, m)[i] = (s \o <<m>>)[i]
  <2>1. (s \o <<m>>)[i] = IF i <= Len(s) THEN s[i] ELSE <<m>>[i - Len(s)]
    BY <1>1, Joined
  <2>2. Append(s, m)[i] = IF i <= Len(s) THEN s[i] ELSE m
    OBVIOUS
  <2>3. i <= Len(s) \/ i - Len(s) = 1
    OBVIOUS
  <2> QED BY <1>1, <2>1, <2>2, <2>3
<1>5. Append(s, m) = s \o <<m>>
  BY <1>2, <1>3, <1>4, SameSequence
<1> QED BY <1>1, <1>2, <1>5

LEMMA Split ==
  ASSUME NEW M, NEW s \in Seq(M), s # <<>>
  PROVE  /\ Head(s) \in M /\ Tail(s) \in Seq(M) /\ s = <<Head(s)>> \o Tail(s)
         /\ s[1] = Head(s)
<1>1. Head(s) \in M /\ Tail(s) \in Seq(M) /\ Len(Tail(s)) = Len(s) - 1 /\ Len(s) \in Nat \ {0}
      /\ s[1] = Head(s) /\ \A i \in 1 .. Len(s) - 1 : Tail(s)[i] = s[i + 1]
  OBVIOUS
<1> DEFINE h == Head(s)
           t == Tail(s)
           b == <<h>> \o t
<1> HIDE DEF h, t
<1>2. <<h>> \in Seq(M) /\ Len(<<h>>) = 1 /\ <<h>>[1] = h
  BY <1>1 DEF h
<1>3. b \in Seq(M) /\ Len(b) = Len(s)
  BY <1>1, <1>2, Joined DEF h, t
<1>4. ASSUME NEW i \in 1 .. Len(s) PROVE s[i] = b[i]
  <2>1. b[i] = IF i <= 1 THEN <<h>>[i] ELSE t[i - 1]
    BY <1>1, <1>2, Joined DEF t
  <2>2. CASE i = 1
    BY <1>1, <1>2, <2>1, <2>2 DEF h
  <2>3. CASE i # 1
    <3>1. i - 1 \in 1 .. Len(s) - 1 /\ (i - 1) + 1 = i
      BY <1>1, <2>3
    <3>2. t[i - 1] = s[i]
      BY <1>1, <3>1 DEF t
    <3> HIDE DEF b
    <3> QED BY <2>1, <2>3, <3>2
  <2> QED BY <2>2, <2>3
<1> HIDE DEF b
<1>5. s = b
  BY <1>3, <1>4, SameSequence
<1> QED BY <1>1, <1>5 DEF b, h, t

-----------------------------------------------------------------------------
(* What OfKind keeps. *)
LEMMA OfKindType ==
  ASSUME NEW s \in Seq(Message), NEW kinds
  PROVE  OfKind(s, kinds) \in Seq(Message)
<1> DEFINE T == {t \in Seq(Message) : OfKind(t, kinds) \in Seq(Message)}
<1>1. <<>> \in T
  <2>1. <<>> \in Seq(Message)
    OBVIOUS
  <2> QED BY <2>1, OfKindNone
<1>2. ASSUME NEW t \in Seq(Message), NEW m \in Message, t \in T PROVE Append(t, m) \in T
  <2>1. Append(t, m) \in Seq(Message)
    OBVIOUS
  <2>2. OfKind(t, kinds) \in Seq(Message) /\ Append(OfKind(t, kinds), m) \in Seq(Message)
    BY <1>2, Single
  <2>3. OfKind(Append(t, m), kinds) =
          IF m.kind \in kinds THEN Append(OfKind(t, kinds), m) ELSE OfKind(t, kinds)
    BY OfKindAppend
  <2> QED BY <2>1, <2>2, <2>3
<1> HIDE DEF T
<1>3. Seq(Message) \subseteq T
  BY <1>1, <1>2, FromTheLeft
<1> QED BY <1>3 DEF T

LEMMA OfKindJoined ==
  ASSUME NEW s \in Seq(Message), NEW t \in Seq(Message), NEW kinds
  PROVE  OfKind(s \o t, kinds) = OfKind(s, kinds) \o OfKind(t, kinds)
<1> DEFINE F(u) == OfKind(u, kinds)
           T == {u \in Seq(Message) : F(s \o u) = F(s) \o F(u)}
<1>0. \A u \in Seq(Message) : F(u) \in Seq(Message)
  BY OfKindType
<1>1. <<>> \in T
  <2>1. s \o <<>> = s /\ <<>> \in Seq(Message) /\ F(s) \o <<>> = F(s)
    BY <1>0, NothingJoined
  <2>2. F(<<>>) = <<>>
    BY OfKindNone
  <2> QED BY <2>1, <2>2
<1>2. ASSUME NEW u \in Seq(Message), NEW m \in Message, u \in T PROVE Append(u, m) \in T
  <2>1. Append(u, m) \in Seq(Message) /\ s \o u \in Seq(Message) /\ <<m>> \in Seq(Message)
    BY Single, Joined
  <2>2. s \o Append(u, m) = Append(s \o u, m)
    <3>1. Append(u, m) = u \o <<m>> /\ Append(s \o u, m) = (s \o u) \o <<m>>
      BY <2>1, Single
    <3> QED BY <2>1, <3>1, Associative
  <2>3. F(Append(s \o u, m)) = IF m.kind \in kinds THEN Append(F(s \o u), m) ELSE F(s \o u)
    BY <2>1, OfKindAppend
  <2>4. F(Append(u, m)) = IF m.kind \in kinds THEN Append(F(u), m) ELSE F(u)
    BY OfKindAppend
  <2>5. F(s \o u) = F(s) \o F(u) /\ F(s) \in Seq(Message) /\ F(u) \in Seq(Message)
    BY <1>0, <1>2
  <2>6. F(s) \o Append(F(u), m) = Append(F(s) \o F(u), m)
    <3> HIDE DEF F
    <3>0. F(s) \o F(u) \in Seq(Message)
      BY <2>5, Joined
    <3>1. Append(F(u), m) = F(u) \o <<m>>
      BY <2>5, Single
    <3>2. Append(F(s) \o F(u), m) = (F(s) \o F(u)) \o <<m>>
      BY <3>0, Single
    <3> QED BY <2>1, <2>5, <3>1, <3>2, Associative
  <2>7. F(s \o Append(u, m)) = F(s) \o F(Append(u, m))
    <3> HIDE DEF F
    <3> QED BY <2>2, <2>3, <2>4, <2>5, <2>6
  <2> QED BY <2>1, <2>7
<1>3. Seq(Message) \subseteq T
  <2> HIDE DEF T
  <2> QED BY <1>1, <1>2, FromTheLeft
<1> QED BY <1>3

LEMMA OfKindTwice ==
  ASSUME NEW s \in Seq(Message), NEW A, NEW B
  PROVE  OfKind(OfKind(s, A), B) = OfKind(s, A \cap B)
<1> DEFINE T == {t \in Seq(Message) : OfKind(OfKind(t, A), B) = OfKind(t, A \cap B)}
<1>1. <<>> \in T
  <2>1. <<>> \in Seq(Message)
    OBVIOUS
  <2> QED BY <2>1, OfKindNone
<1>2. ASSUME NEW t \in Seq(Message), NEW m \in Message, t \in T PROVE Append(t, m) \in T
  <2>1. Append(t, m) \in Seq(Message) /\ OfKind(t, A) \in Seq(Message)
    BY OfKindType, Single
  <2>2. OfKind(Append(t, m), A) =
          IF m.kind \in A THEN Append(OfKind(t, A), m) ELSE OfKind(t, A)
    BY OfKindAppend
  <2>3. OfKind(Append(OfKind(t, A), m), B) =
          IF m.kind \in B THEN Append(OfKind(OfKind(t, A), B), m) ELSE OfKind(OfKind(t, A), B)
    BY <2>1, OfKindAppend
  <2>4. OfKind(Append(t, m), A \cap B) =
          IF m.kind \in A \cap B THEN Append(OfKind(t, A \cap B), m) ELSE OfKind(t, A \cap B)
    BY OfKindAppend
  <2>5. OfKind(OfKind(t, A), B) = OfKind(t, A \cap B)
    BY <1>2
  <2>6. OfKind(OfKind(Append(t, m), A), B) = OfKind(Append(t, m), A \cap B)
    <3> DEFINE u == OfKind(t, A)
               v == OfKind(t, A \cap B)
    <3>1. CASE m.kind \in A
      <4>1. OfKind(Append(t, m), A) = Append(u, m)
        BY <2>2, <3>1
      <4>2. OfKind(Append(u, m), B) = IF m.kind \in B THEN Append(v, m) ELSE v
        BY <2>3, <2>5
      <4>3. OfKind(Append(t, m), A \cap B) = IF m.kind \in B THEN Append(v, m) ELSE v
        BY <2>4, <3>1
      <4> HIDE DEF u, v
      <4> QED BY <4>1, <4>2, <4>3
    <3>2. CASE m.kind \notin A
      BY <2>2, <2>4, <2>5, <3>2
    <3> QED BY <3>1, <3>2
  <2> QED BY <2>1, <2>6
<1> HIDE DEF T
<1>3. Seq(Message) \subseteq T
  BY <1>1, <1>2, FromTheLeft
<1> QED BY <1>3 DEF T

LEMMA OfNoKind ==
  ASSUME NEW s \in Seq(Message)
  PROVE  OfKind(s, {}) = <<>>
<1> DEFINE T == {t \in Seq(Message) : OfKind(t, {}) = <<>>}
<1>1. <<>> \in T
  <2>1. <<>> \in Seq(Message)
    OBVIOUS
  <2> QED BY <2>1, OfKindNone
<1>2. ASSUME NEW t \in Seq(Message), NEW m \in Message, t \in T PROVE Append(t, m) \in T
  <2>1. Append(t, m) \in Seq(Message)
    BY Single
  <2> QED BY <2>1, <1>2, OfKindAppend
<1> HIDE DEF T
<1>3. Seq(Message) \subseteq T
  BY <1>1, <1>2, FromTheLeft
<1> QED BY <1>3 DEF T

LEMMA OfKindElements ==
  ASSUME NEW s \in Seq(Message), NEW kinds, NEW i \in 1 .. Len(OfKind(s, kinds))
  PROVE  OfKind(s, kinds)[i].kind \in kinds
<1> DEFINE F(t) == OfKind(t, kinds)
           Fit(t) == \A j \in 1 .. Len(F(t)) : F(t)[j].kind \in kinds
           T == {t \in Seq(Message) : Fit(t)}
<1>1. <<>> \in T
  <2>1. <<>> \in Seq(Message) /\ Len(<<>>) = 0
    OBVIOUS
  <2> QED BY <2>1, OfKindNone
<1>2. ASSUME NEW t \in Seq(Message), NEW m \in Message, t \in T PROVE Append(t, m) \in T
  <2>1. Append(t, m) \in Seq(Message) /\ F(t) \in Seq(Message)
    BY Single, OfKindType
  <2>2. F(Append(t, m)) = IF m.kind \in kinds THEN Append(F(t), m) ELSE F(t)
    BY OfKindAppend
  <2>3. Fit(t)
    BY <1>2
  <2>4. ASSUME NEW j \in 1 .. Len(F(Append(t, m))) PROVE F(Append(t, m))[j].kind \in kinds
    <3> HIDE DEF F
    <3>1. CASE m.kind \in kinds
      <4>1. F(Append(t, m)) = Append(F(t), m)
        BY <2>2, <3>1
      <4>2. j \in 1 .. Len(F(t)) + 1
        BY <4>1, <2>1
      <4>3. Append(F(t), m)[j] = IF j <= Len(F(t)) THEN F(t)[j] ELSE m
        BY <4>2, <2>1
      <4> QED BY <4>1, <4>2, <4>3, <3>1, <2>3
    <3>2. CASE m.kind \notin kinds
      <4>1. F(Append(t, m)) = F(t)
        BY <2>2, <3>2
      <4> QED BY <4>1, <2>3
    <3> QED BY <3>1, <3>2
  <2> HIDE DEF F
  <2> QED BY <2>1, <2>4
<1>3. Seq(Message) \subseteq T
  <2> HIDE DEF T
  <2> QED BY <1>1, <1>2, FromTheLeft
<1>4. Fit(s)
  <2> HIDE DEF Fit
  <2> QED BY <1>3
<1> QED BY <1>4

-----------------------------------------------------------------------------
(* Numbers, of queues put together, filtered, and taken from. *)
LEMMA NumbersType ==
  ASSUME NEW s \in Seq(Message)
  PROVE  /\ Numbers(s) \in Seq(Nat) /\ Len(Numbers(s)) = Len(OfKind(s, {"data"}))
         /\ \A i \in 1 .. Len(Numbers(s)) : Numbers(s)[i] = OfKind(s, {"data"})[i].n
<1> DEFINE d == OfKind(s, {"data"})
<1>1. d \in Seq(Message)
  BY OfKindType
<1>2. Numbers(s) = [i \in 1 .. Len(d) |-> d[i].n]
  BY DEF Numbers
<1> HIDE DEF d
<1>3. \A i \in 1 .. Len(d) : d[i].n \in Nat
  <2>1. \A i \in 1 .. Len(d) : d[i] \in Message
    BY <1>1
  <2>2. \A m \in Message : m.n \in Nat
    BY DEF Message
  <2> QED BY <2>1, <2>2
<1>4. Numbers(s) \in Seq(Nat) /\ Len(Numbers(s)) = Len(d)
  BY <1>1, <1>2, <1>3
<1>5. \A i \in 1 .. Len(d) : Numbers(s)[i] = d[i].n
  BY <1>2
<1> QED BY <1>4, <1>5 DEF d

LEMMA NumbersNone == Numbers(<<>>) = <<>>
<1>1. <<>> \in Seq(Message)
  OBVIOUS
<1>2. Numbers(<<>>) \in Seq(Nat) /\ Len(Numbers(<<>>)) = Len(OfKind(<<>>, {"data"}))
  BY <1>1, NumbersType
<1>3. OfKind(<<>>, {"data"}) = <<>> /\ Len(<<>>) = 0
  BY OfKindNone
<1>4. Len(Numbers(<<>>)) = 0
  BY <1>2, <1>3
<1> QED BY <1>2, <1>4

LEMMA NumbersOne ==
  ASSUME NEW m \in Message
  PROVE  Numbers(<<m>>) = IF m.kind = "data" THEN <<m.n>> ELSE <<>>
<1>1. <<>> \in Seq(Message) /\ <<m>> \in Seq(Message) /\ <<m>> = Append(<<>>, m)
  OBVIOUS
<1>2. OfKind(<<m>>, {"data"}) = IF m.kind = "data" THEN Append(<<>>, m) ELSE <<>>
  <2>1. OfKind(Append(<<>>, m), {"data"}) =
          IF m.kind \in {"data"} THEN Append(OfKind(<<>>, {"data"}), m)
          ELSE OfKind(<<>>, {"data"})
    BY <1>1, OfKindAppend
  <2>2. OfKind(<<>>, {"data"}) = <<>>
    BY OfKindNone
  <2> QED BY <1>1, <2>1, <2>2
<1>3. CASE m.kind = "data"
  <2>1. OfKind(<<m>>, {"data"}) = <<m>>
    BY <1>1, <1>2, <1>3
  <2>2. Numbers(<<m>>) \in Seq(Nat) /\ Len(Numbers(<<m>>)) = 1 /\ Numbers(<<m>>)[1] = m.n
    <3>1. Len(<<m>>) = 1 /\ <<m>>[1] = m /\ 1 \in 1 .. 1
      OBVIOUS
    <3>2. /\ Numbers(<<m>>) \in Seq(Nat) /\ Len(Numbers(<<m>>)) = Len(OfKind(<<m>>, {"data"}))
          /\ \A i \in 1 .. Len(Numbers(<<m>>)) :
               Numbers(<<m>>)[i] = OfKind(<<m>>, {"data"})[i].n
      BY <1>1, NumbersType
    <3>3. Len(Numbers(<<m>>)) = 1
      BY <2>1, <3>1, <3>2
    <3> QED BY <2>1, <3>1, <3>2, <3>3
  <2>3. <<m.n>> \in Seq(Nat) /\ Len(<<m.n>>) = 1 /\ <<m.n>>[1] = m.n
    BY DEF Message
  <2> QED BY <1>3, <2>2, <2>3, SameSequence
<1>4. CASE m.kind # "data"
  <2>1. Numbers(<<m>>) \in Seq(Nat) /\ Len(Numbers(<<m>>)) = 0
    BY <1>1, <1>2, <1>4, NumbersType
  <2> QED BY <1>4, <2>1
<1> QED BY <1>3, <1>4

LEMMA NumbersJoined ==
  ASSUME NEW s \in Seq(Message), NEW t \in Seq(Message)
  PROVE  Numbers(s \o t) = Numbers(s) \o Numbers(t)
<1> DEFINE a == OfKind(s, {"data"})
           b == OfKind(t, {"data"})
           c == OfKind(s \o t, {"data"})
<1>1. s \o t \in Seq(Message) /\ a \in Seq(Message) /\ b \in Seq(Message) /\ c = a \o b
  BY Joined, OfKindType, OfKindJoined
<1>2. /\ Numbers(s \o t) \in Seq(Nat) /\ Len(Numbers(s \o t)) = Len(c)
      /\ \A i \in 1 .. Len(Numbers(s \o t)) : Numbers(s \o t)[i] = c[i].n
  BY <1>1, NumbersType
<1>3. /\ Numbers(s) \in Seq(Nat) /\ Len(Numbers(s)) = Len(a)
      /\ \A i \in 1 .. Len(Numbers(s)) : Numbers(s)[i] = a[i].n
  BY NumbersType
<1>4. /\ Numbers(t) \in Seq(Nat) /\ Len(Numbers(t)) = Len(b)
      /\ \A i \in 1 .. Len(Numbers(t)) : Numbers(t)[i] = b[i].n
  BY NumbersType
<1> HIDE DEF a, b, c
<1> DEFINE x == Numbers(s \o t)
           y == Numbers(s)
           z == Numbers(t)
<1> HIDE DEF x, y, z
<1>5. /\ y \o z \in Seq(Nat) /\ Len(y \o z) = Len(y) + Len(z)
      /\ \A i \in 1 .. Len(y) + Len(z) : (y \o z)[i] = IF i <= Len(y) THEN y[i] ELSE z[i - Len(y)]
  <2>1. y \in Seq(Nat) /\ z \in Seq(Nat)
    BY <1>3, <1>4 DEF y, z
  <2> QED BY <2>1, Joined
<1>6. /\ Len(c) = Len(a) + Len(b)
      /\ \A i \in 1 .. Len(a) + Len(b) : c[i] = IF i <= Len(a) THEN a[i] ELSE b[i - Len(a)]
  BY <1>1, Joined
<1>7. ASSUME NEW i \in 1 .. Len(x) PROVE x[i] = (y \o z)[i]
  <2>1. Len(x) = Len(a) + Len(b) /\ Len(a) \in Nat /\ Len(b) \in Nat /\ Len(y) = Len(a)
        /\ Len(z) = Len(b)
    BY <1>1, <1>2, <1>3, <1>4, <1>6 DEF x, y, z
  <2>2. x[i] = c[i].n
    BY <1>2 DEF x
  <2>3. CASE i <= Len(a)
    <3>1. c[i] = a[i] /\ (y \o z)[i] = y[i] /\ i \in 1 .. Len(y)
      BY <1>5, <1>6, <2>1, <2>3
    <3>2. y[i] = a[i].n
      BY <1>3, <3>1 DEF y
    <3> QED BY <2>2, <3>1, <3>2
  <2>4. CASE i > Len(a)
    <3>1. c[i] = b[i - Len(a)] /\ (y \o z)[i] = z[i - Len(a)] /\ i - Len(a) \in 1 .. Len(z)
      BY <1>5, <1>6, <2>1, <2>4
    <3>2. z[i - Len(a)] = b[i - Len(a)].n
      BY <1>4, <3>1 DEF z
    <3> QED BY <2>2, <3>1, <3>2
  <2> QED BY <2>1, <2>3, <2>4
<1>8. x \in Seq(Nat) /\ Len(x) = Len(y \o z)
  BY <1>2, <1>3, <1>4, <1>5, <1>6 DEF x, y, z
<1>9. x = y \o z
  BY <1>5, <1>7, <1>8, SameSequence
<1> QED BY <1>9 DEF x, y, z

LEMMA NumbersOfKind ==
  ASSUME NEW s \in Seq(Message), NEW kinds
  PROVE  Numbers(OfKind(s, kinds)) = IF "data" \in kinds THEN Numbers(s) ELSE <<>>
<1>1. OfKind(s, kinds) \in Seq(Message)
      /\ OfKind(OfKind(s, kinds), {"data"}) = OfKind(s, kinds \cap {"data"})
  BY OfKindType, OfKindTwice
<1>2. CASE "data" \in kinds
  <2>1. kinds \cap {"data"} = {"data"}
    BY <1>2
  <2>2. OfKind(OfKind(s, kinds), {"data"}) = OfKind(s, {"data"})
    BY <1>1, <2>1
  <2> QED BY <1>2, <2>2 DEF Numbers
<1>3. CASE "data" \notin kinds
  <2>1. kinds \cap {"data"} = {}
    BY <1>3
  <2>2. OfKind(OfKind(s, kinds), {"data"}) = <<>>
    BY <1>1, <2>1, OfNoKind
  <2>3. Numbers(OfKind(s, kinds)) \in Seq(Nat) /\ Len(Numbers(OfKind(s, kinds))) = 0
    BY <1>1, <2>2, NumbersType
  <2> QED BY <1>3, <2>3
<1> QED BY <1>2, <1>3

(* A queue that holds nothing but data. *)
Pure(s) == OfKind(s, {"data"}) = s

LEMMA PureGrows ==
  ASSUME NEW s \in Seq(Message), Pure(s), NEW m \in Message, m.kind = "data"
  PROVE  Pure(s \o <<m>>) /\ Pure(<<m>> \o s) /\ Pure(<<>>)
<1>1. <<m>> \in Seq(Message) /\ <<>> \in Seq(Message) /\ <<m>> = Append(<<>>, m)
  OBVIOUS
<1>2. OfKind(<<m>>, {"data"}) = <<m>>
  <2>1. OfKind(Append(<<>>, m), {"data"}) =
          IF m.kind \in {"data"} THEN Append(OfKind(<<>>, {"data"}), m)
          ELSE OfKind(<<>>, {"data"})
    BY <1>1, OfKindAppend
  <2>2. OfKind(<<>>, {"data"}) = <<>>
    BY OfKindNone
  <2> QED BY <1>1, <2>1, <2>2
<1>3. /\ OfKind(s \o <<m>>, {"data"}) = OfKind(s, {"data"}) \o OfKind(<<m>>, {"data"})
      /\ OfKind(<<m>> \o s, {"data"}) = OfKind(<<m>>, {"data"}) \o OfKind(s, {"data"})
  <2>1. <<m>> \in Seq(Message)
    BY <1>1
  <2> QED BY <2>1, OfKindJoined
<1>4. OfKind(s, {"data"}) = s
  BY DEF Pure
<1>5. OfKind(s \o <<m>>, {"data"}) = s \o <<m>> /\ OfKind(<<m>> \o s, {"data"}) = <<m>> \o s
  BY <1>2, <1>3, <1>4
<1> QED BY <1>5, OfKindNone DEF Pure

LEMMA PureSplit ==
  ASSUME NEW s \in Seq(Message), Pure(s), s # <<>>
  PROVE  Head(s).kind = "data" /\ Pure(Tail(s))
<1> DEFINE h == Head(s)
           t == Tail(s)
           u == OfKind(t, {"data"})
<1>1. h \in Message /\ t \in Seq(Message) /\ s = <<h>> \o t /\ s[1] = h /\ 1 \in 1 .. Len(s)
      /\ <<h>> \in Seq(Message) /\ Len(<<h>>) = 1
  BY Split
<1>2. h.kind = "data"
  BY <1>1, OfKindElements DEF Pure
<1>3. u \in Seq(Message)
  BY <1>1, OfKindType
<1>4. OfKind(<<h>>, {"data"}) = <<h>>
  <2>1. Pure(<<>>) /\ <<>> \in Seq(Message)
    BY OfKindNone DEF Pure
  <2>2. Pure(<<h>> \o <<>>)
    BY <1>1, <1>2, <2>1, PureGrows
  <2>3. <<h>> \o <<>> = <<h>>
    BY <1>1, NothingJoined
  <2> QED BY <2>2, <2>3 DEF Pure
<1>5. <<h>> \o u = <<h>> \o t
  <2>1. OfKind(<<h>> \o t, {"data"}) = OfKind(<<h>>, {"data"}) \o u
    BY <1>1, OfKindJoined
  <2>2. OfKind(<<h>> \o t, {"data"}) = <<h>> \o t
    BY <1>1 DEF Pure
  <2> HIDE DEF u, t, h
  <2> QED BY <1>4, <2>1, <2>2
<1> HIDE DEF h, t, u
<1>6. Len(u) = Len(t) /\ Len(t) \in Nat
  BY <1>1, <1>3, <1>5, Joined
<1>7. ASSUME NEW i \in 1 .. Len(u) PROVE u[i] = t[i]
  <2>1. i + 1 \in 1 .. 1 + Len(t) /\ ~(i + 1 <= 1) /\ (i + 1) - 1 = i
    BY <1>6
  <2>2. (<<h>> \o u)[i + 1] = u[i]
    BY <1>1, <1>3, <1>6, <2>1, Joined
  <2>3. (<<h>> \o t)[i + 1] = t[i]
    BY <1>1, <1>6, <2>1, Joined
  <2> QED BY <1>5, <2>2, <2>3
<1>8. u = t
  BY <1>1, <1>3, <1>6, <1>7, SameSequence
<1> QED BY <1>2, <1>8 DEF Pure, h, t, u

-----------------------------------------------------------------------------
(* Numbers in line: they increase, and the last is at most n; they are all *)
(* there if exact. *)
Line(s, n, exact) == /\ \A i \in 1 .. Len(s) : s[i] \in 1 .. n
                     /\ Increasing(s) /\ (exact => s = UpTo(n))

LEMMA LineGrows ==
  ASSUME NEW n \in Nat, NEW s \in Seq(Nat), NEW exact \in BOOLEAN, Line(s, n, exact)
  PROVE  Line(s \o <<n + 1>>, n + 1, exact)
<1> DEFINE t == s \o <<n + 1>>
<1>1. <<n + 1>> \in Seq(Nat) /\ Len(<<n + 1>>) = 1 /\ <<n + 1>>[1] = n + 1 /\ Len(s) \in Nat
  OBVIOUS
<1>2. /\ t \in Seq(Nat) /\ Len(t) = Len(s) + 1
      /\ \A i \in 1 .. Len(s) + 1 : t[i] = IF i <= Len(s) THEN s[i] ELSE <<n + 1>>[i - Len(s)]
  BY <1>1, Joined
<1> HIDE DEF t
<1>3. \A i \in 1 .. Len(s) + 1 : t[i] = IF i <= Len(s) THEN s[i] ELSE n + 1
  <2>1. ASSUME NEW i \in 1 .. Len(s) + 1, ~(i <= Len(s)) PROVE i - Len(s) = 1
    BY <1>1, <2>1
  <2> QED BY <1>1, <1>2, <2>1
<1>4. \A i \in 1 .. Len(s) : s[i] \in Nat /\ 1 <= s[i] /\ s[i] <= n
  BY DEF Line
<1>0. Len(t) = Len(s) + 1 /\ Len(s) \in Nat
  BY <1>1, <1>2
<1>5. \A i \in 1 .. Len(t) : t[i] \in 1 .. n + 1
  <2>1. ASSUME NEW i \in 1 .. Len(t) PROVE t[i] \in 1 .. n + 1
    <3>1. CASE i <= Len(s)
      <4>1. i \in 1 .. Len(s) /\ i \in 1 .. Len(s) + 1
        BY <1>0, <3>1
      <4>2. t[i] = s[i]
        BY <1>3, <3>1, <4>1
      <4> QED BY <1>4, <4>1, <4>2
    <3>2. CASE ~(i <= Len(s))
      BY <1>0, <1>3, <3>2
    <3> QED BY <3>1, <3>2
  <2> QED BY <2>1
<1>6. Increasing(t)
  <2>1. ASSUME NEW i \in 1 .. Len(t), NEW j \in 1 .. Len(t), i < j PROVE t[i] < t[j]
    <3>0. i \in 1 .. Len(s) + 1 /\ j \in 1 .. Len(s) + 1 /\ i <= Len(s) /\ i \in 1 .. Len(s)
      BY <1>0, <2>1
    <3>1. t[i] = s[i]
      BY <1>3, <3>0
    <3>2. CASE j <= Len(s)
      <4>1. j \in 1 .. Len(s) /\ t[j] = s[j]
        BY <1>3, <3>0, <3>2
      <4> QED BY <2>1, <3>0, <3>1, <4>1 DEF Line, Increasing
    <3>3. CASE ~(j <= Len(s))
      <4>1. t[j] = n + 1
        BY <1>3, <3>0, <3>3
      <4> QED BY <1>4, <3>0, <3>1, <4>1
    <3> QED BY <3>2, <3>3
  <2> QED BY <2>1 DEF Increasing
<1>7. ASSUME exact PROVE t = UpTo(n + 1)
  <2>1. s = UpTo(n) /\ Len(s) = n
    BY <1>7 DEF Line, UpTo
  <2>2. \A i \in 1 .. n : s[i] = i
    BY <2>1 DEF UpTo
  <2>3. UpTo(n + 1) \in Seq(Nat) /\ Len(UpTo(n + 1)) = n + 1
        /\ \A i \in 1 .. n + 1 : UpTo(n + 1)[i] = i
    BY DEF UpTo
  <2>4. ASSUME NEW i \in 1 .. Len(t) PROVE t[i] = UpTo(n + 1)[i]
    <3>1. CASE i <= n
      BY <1>2, <1>3, <2>1, <2>2, <2>3, <3>1
    <3>2. CASE i = n + 1
      BY <1>2, <1>3, <2>1, <2>3, <3>2
    <3> QED BY <1>2, <2>1, <3>1, <3>2
  <2> QED BY <1>2, <2>1, <2>3, <2>4, SameSequence
<1> QED BY <1>5, <1>6, <1>7 DEF Line, t

LEMMA LineCut ==
  ASSUME NEW n \in Nat, NEW a \in Seq(Nat), NEW b \in Seq(Nat), NEW c \in Seq(Nat),
         NEW exact \in BOOLEAN, NEW still \in BOOLEAN,
         Line((a \o b) \o c, n, exact), still => exact /\ b = <<>>
  PROVE  Line(a \o c, n, still)
<1> DEFINE ab == a \o b
           s == ab \o c
           t == a \o c
           la == Len(a)
           lb == Len(b)
           lc == Len(c)
           up(i) == IF i <= la THEN i ELSE i + lb
<1>1. /\ ab \in Seq(Nat) /\ Len(ab) = la + lb /\ la \in Nat /\ lb \in Nat /\ lc \in Nat
      /\ \A i \in 1 .. la + lb : ab[i] = IF i <= la THEN a[i] ELSE b[i - la]
  BY Joined
<1>2. /\ s \in Seq(Nat) /\ Len(s) = (la + lb) + lc
      /\ \A i \in 1 .. (la + lb) + lc : s[i] = IF i <= la + lb THEN ab[i] ELSE c[i - (la + lb)]
  <2> HIDE DEF ab
  <2>1. /\ ab \o c \in Seq(Nat) /\ Len(ab \o c) = Len(ab) + Len(c)
        /\ \A i \in 1 .. Len(ab) + Len(c) :
             (ab \o c)[i] = IF i <= Len(ab) THEN ab[i] ELSE c[i - Len(ab)]
    <3>1. ab \in Seq(Nat)
      BY <1>1
    <3> QED BY <3>1, Joined
  <2>2. Len(ab) = la + lb /\ Len(c) = lc
    BY <1>1
  <2> HIDE DEF la, lb, lc
  <2> QED BY <2>1, <2>2
<1>3. /\ t \in Seq(Nat) /\ Len(t) = la + lc
      /\ \A i \in 1 .. la + lc : t[i] = IF i <= la THEN a[i] ELSE c[i - la]
  BY Joined
<1>0. Line(s, n, exact)
  OBVIOUS
<1> HIDE DEF ab, s, t, la, lb, lc
<1>4. ASSUME NEW i \in 1 .. la + lc PROVE t[i] = s[up(i)] /\ up(i) \in 1 .. Len(s)
  <2>1. CASE i <= la
    <3>1. i \in 1 .. la + lb /\ i <= la + lb /\ i \in 1 .. (la + lb) + lc
      BY <1>1, <2>1
    <3>2. s[i] = ab[i] /\ ab[i] = a[i] /\ t[i] = a[i]
      BY <1>1, <1>2, <1>3, <2>1, <3>1
    <3> QED BY <1>2, <2>1, <3>1, <3>2
  <2>2. CASE ~(i <= la)
    <3>1. ~(i + lb <= la + lb) /\ i + lb \in 1 .. (la + lb) + lc /\ i + lb - (la + lb) = i - la
      BY <1>1, <2>2
    <3>2. s[i + lb] = c[i - la]
      <4>1. ASSUME NEW k, k = i + lb PROVE s[k] = c[i - la]
        <5>1. k \in 1 .. (la + lb) + lc /\ ~(k <= la + lb) /\ k - (la + lb) = i - la
          <6>1. la \in Nat /\ lb \in Nat /\ lc \in Nat /\ i \in Int
            BY <1>1
          <6> QED BY <2>2, <4>1, <6>1
        <5>2. s[k] = IF k <= la + lb THEN ab[k] ELSE c[k - (la + lb)]
          BY <1>2, <5>1
        <5> QED BY <5>1, <5>2
      <4> QED BY <4>1
    <3>3. t[i] = c[i - la]
      BY <1>3, <2>2
    <3> QED BY <1>2, <2>2, <3>1, <3>2, <3>3
  <2> QED BY <2>1, <2>2
<1>5. \A i \in 1 .. Len(t) : t[i] \in 1 .. n
  BY <1>0, <1>3, <1>4 DEF Line
<1>6. Increasing(t)
  <2>1. ASSUME NEW i \in 1 .. Len(t), NEW j \in 1 .. Len(t), i < j PROVE t[i] < t[j]
    <3>1. up(i) \in 1 .. Len(s) /\ up(j) \in 1 .. Len(s) /\ t[i] = s[up(i)] /\ t[j] = s[up(j)]
      BY <1>3, <1>4
    <3>2. up(i) < up(j)
      <4>1. la \in Nat /\ lb \in Nat /\ lc \in Nat
        BY <1>1
      <4>2. Len(t) \in Nat
        <5>1. Len(t) = la + lc
          BY <1>3
        <5> QED BY <4>1, <5>1
      <4>3. i \in Nat /\ j \in Nat
        BY <4>2
      <4> QED BY <2>1, <4>1, <4>3
    <3> HIDE DEF up
    <3> QED BY <1>0, <3>1, <3>2 DEF Line, Increasing
  <2> QED BY <2>1 DEF Increasing
<1>7. ASSUME still PROVE t = UpTo(n)
  <2>1. b = <<>> /\ s = UpTo(n)
    BY <1>0, <1>7 DEF Line
  <2>2. t = s
    BY <2>1, NothingJoined DEF t, s, ab
  <2> QED BY <2>1, <2>2
<1> QED BY <1>5, <1>6, <1>7 DEF Line, t

-----------------------------------------------------------------------------
(* What a step has to do with the data: the queues and the books, which    *)
(* say what was written, sent, received, read and lost.                    *)
Books == {"q", "mod", "dev", "sent", "got", "written", "received", "lossyw", "lossyr", "closer",
          "lastid"}
Booked(x) == Books \subseteq DOMAIN x
Beside(x, y) ==
  /\ DOMAIN y = DOMAIN x /\ y.mod = x.mod /\ y.dev = x.dev
  /\ y.sent = x.sent /\ y.got = x.got /\ y.written = x.written /\ y.received = x.received
  /\ y.lossyw = x.lossyw /\ y.lossyr = x.lossyr /\ y.lastid = x.lastid
  /\ (y.closer = "no" <=> x.closer = "no")
Same(x, y) == Beside(x, y) /\ y.q = x.q
Refits(x, y, q, s) == Beside(x, y) /\ y.q = [x.q EXCEPT ![q] = s]

LEMMA SameChain ==
  ASSUME NEW x, NEW y, NEW z, Booked(x), Same(x, y)
  PROVE  /\ Same(x, x) /\ Booked(y)
         /\ Same(y, z) => Same(x, z)
         /\ \A q, s : Refits(y, z, q, s) => Refits(x, z, q, s) /\ Booked(z)
BY DEF Same, Beside, Booked, Refits

LEMMA RefitsSame ==
  ASSUME NEW x, NEW y, NEW z, NEW q, NEW s, Booked(x), Refits(x, y, q, s)
  PROVE  Booked(y) /\ (Same(y, z) => Refits(x, z, q, s))
BY DEF Same, Beside, Booked, Refits

LEMMA EnableSame ==
  ASSUME NEW x, Booked(x), NEW q
  PROVE  Same(x, Enable(x, q))
BY DEF Same, Beside, Booked, Books, Enable

LEMMA OverSame ==
  ASSUME NEW x, Booked(x), NEW q, NEW n
  PROVE  Same(x, Over(x, q, n))
BY DEF Same, Beside, Booked, Books, Over

LEMMA GetPostSame ==
  ASSUME NEW x, Booked(x), NEW q
  PROVE  Same(x, GetPost(x, q))
<1> DEFINE w == [x EXCEPT !.wantw = @ \ {q}]
<1>1. GetPost(x, q) = Enable(w, Feeder(x, q)) \/ GetPost(x, q) = x
  BY DEF GetPost
<1>2. Same(x, w) /\ Same(x, x)
  BY DEF Same, Beside, Booked, Books
<1> HIDE DEF w
<1>3. Same(w, Enable(w, Feeder(x, q)))
  BY <1>2, SameChain, EnableSame
<1> QED BY <1>1, <1>2, <1>3, SameChain

LEMMA RefusedSame ==
  ASSUME NEW x, Booked(x), NEW q
  PROVE  Same(x, Refused(x, q)) /\ Same(x, Done(x))
BY DEF Same, Beside, Booked, Books, Refused, Done

LEMMA WakesSame ==
  ASSUME NEW x, Booked(x)
  PROVE  /\ Same(x, WakeReader(x)) /\ Same(x, WakeWriter(x)) /\ Same(x, WakeIoctl(x))
         /\ Same(x, WakeCloser(x))
BY DEF Same, Beside, Booked, Books, WakeReader, WakeWriter, WakeIoctl, WakeCloser, WakeUp

LEMMA GetQRefits ==
  ASSUME NEW x, Booked(x), NEW q
  PROVE  /\ x.q[q] = <<>> => Same(x, GetQ(x, q))
         /\ x.q[q] # <<>> => Refits(x, GetQ(x, q), q, Tail(x.q[q]))
         /\ Booked(GetQ(x, q))
<1> DEFINE y == [x EXCEPT !.wantr = @ \cup {q}]
           b == [x EXCEPT !.q[q] = Tail(@), !.wantr = @ \ {q}]
           z == Removed(b, q, Head(x.q[q]))
<1>1. CASE x.q[q] = <<>>
  <2>1. GetQ(x, q) = GetPost(y, q)
    BY <1>1 DEF GetQ
  <2>2. Same(x, y)
    BY DEF Same, Beside, Booked, Books
  <2> HIDE DEF y
  <2> QED BY <1>1, <2>1, <2>2, SameChain, GetPostSame
<1>2. CASE x.q[q] # <<>>
  <2>1. GetQ(x, q) = GetPost(z, q)
    BY <1>2 DEF GetQ
  <2>2. Refits(x, b, q, Tail(x.q[q]))
    BY DEF Refits, Beside, Booked, Books
  <2> HIDE DEF b
  <2>3. Same(b, z)
    <3>1. Booked(b)
      BY <2>2, RefitsSame
    <3> QED BY <3>1 DEF Same, Beside, Booked, Books, Removed
  <2> HIDE DEF z
  <2>4. Refits(x, z, q, Tail(x.q[q])) /\ Booked(z)
    BY <2>2, <2>3, RefitsSame, SameChain
  <2>5. Same(z, GetPost(z, q))
    BY <2>4, GetPostSame
  <2> QED BY <1>2, <2>1, <2>4, <2>5, RefitsSame, SameChain
<1> QED BY <1>1, <1>2

LEMMA FilledRefits ==
  ASSUME NEW x, Booked(x), NEW q, NEW s, NEW m, NEW y,
         y = Woken(Added([x EXCEPT !.q[q] = s], q, m), q, m)
  PROVE  Refits(x, y, q, s) /\ Booked(y)
<1> DEFINE a == [x EXCEPT !.q[q] = s]
           b == Over(a, q, a.count[q] + Size(m))
<1>1. y = Enable(b, q) \/ y = b
  BY DEF Woken, Added
<1>2. Refits(x, a, q, s)
  BY DEF Refits, Beside, Booked, Books
<1> HIDE DEF a
<1>3. Same(a, b)
  BY <1>2, RefitsSame, OverSame
<1> HIDE DEF b
<1>4. Refits(x, b, q, s) /\ Booked(b)
  BY <1>2, <1>3, RefitsSame, SameChain
<1> QED BY <1>1, <1>4, EnableSame, RefitsSame

Placed(s, m) == Ahead(s, m) \o <<m>> \o Behind(s, m)
LEMMA PutQRefits ==
  ASSUME NEW x, Booked(x), NEW q, NEW m
  PROVE  Refits(x, PutQ(x, q, m), q, Placed(x.q[q], m)) /\ Booked(PutQ(x, q, m))
<1>1. PutQ(x, q, m) = Woken(Added([x EXCEPT !.q[q] = Placed(x.q[q], m)], q, m), q, m)
  BY DEF PutQ, Placed
<1> QED BY <1>1, FilledRefits

Returned(s, m) ==
  (IF Urgent(m) THEN <<>> ELSE OfKind(s, Urgents)) \o <<m>>
  \o (IF Urgent(m) THEN s ELSE OfKind(s, Ordinary))
LEMMA PutBackRefits ==
  ASSUME NEW x, Booked(x), NEW q, NEW m
  PROVE  /\ Refits(x, PutBack(x, q, m), q, Returned(x.q[q], m)) /\ Booked(PutBack(x, q, m))
         /\ Refits(x, PutBackRetry(x, q, m), q, Returned(x.q[q], m))
<1>1. ASSUME NEW u, Booked(u)
      PROVE  /\ Refits(u, PutBack(u, q, m), q, Returned(u.q[q], m))
             /\ Booked(PutBack(u, q, m))
  <2>1. PutBack(u, q, m) = Woken(Added([u EXCEPT !.q[q] = Returned(u.q[q], m)], q, m), q, m)
    BY DEF PutBack, Returned
  <2> QED BY <1>1, <2>1, FilledRefits
<1> DEFINE z == [x EXCEPT !.enab = @ \cup {q}]
           y == PutBack(z, q, m)
           v == [y EXCEPT !.wantr = @ \cup {q}]
           w == [y EXCEPT !.enab = @ \ {q}, !.wantr = @ \cup {q}, !.retry = @ \cup {q}]
<1>2. PutBackRetry(x, q, m) = v \/ PutBackRetry(x, q, m) = w
  BY DEF PutBackRetry
<1>3. Same(x, z) /\ z.q = x.q
  BY DEF Same, Beside, Booked, Books
<1> HIDE DEF z
<1>4. Refits(z, y, q, Returned(x.q[q], m)) /\ Booked(y) /\ Booked(z)
  BY <1>1, <1>3, SameChain
<1> HIDE DEF y
<1>5. Same(y, v) /\ Same(y, w)
  BY <1>4 DEF Same, Beside, Booked, Books
<1> HIDE DEF v, w
<1>6. Refits(x, y, q, Returned(x.q[q], m))
  BY <1>3, <1>4, SameChain
<1> QED BY <1>1, <1>2, <1>5, <1>6, RefitsSame

Left(s, all) ==
  LET kept == IF all THEN <<>> ELSE OfKind(s, Urgents \cup {"ioctl"})
  IN  IF kept = <<>> THEN <<>> ELSE OfKind(kept, Urgents) \o OfKind(kept, Ordinary)
LEMMA FlushRefits ==
  ASSUME NEW x, Booked(x), NEW q, NEW all
  PROVE  Refits(x, Flush(x, q, all), q, Left(x.q[q], all)) /\ Booked(Flush(x, q, all))
<1> DEFINE s == Kept(x, q, all)
           a == Emptied(x, q)
           c == OfKind(s, Urgents) \o OfKind(s, Ordinary)
           b == [a EXCEPT !.q[q] = c]
           n == Len(OfKind(s, Ordinary \cup {"ack"}))
           y == Over(b, q, n)
           r == Refilled(x, q, s)
<1>0. Left(x.q[q], all) = IF s = <<>> THEN <<>> ELSE c
  BY DEF Left, Kept
<1>1. r = y \/ r = Enable(y, q)
  BY DEF Refilled
<1>2. Flush(x, q, all) = IF s = <<>> THEN GetPost(a, q) ELSE GetPost(r, q)
  BY DEF Flush
<1> HIDE DEF n, c, r, s
<1>3. Refits(x, a, q, <<>>)
  BY DEF Refits, Beside, Booked, Books, Emptied
<1> HIDE DEF a
<1>4. Refits(x, b, q, c)
  <2>1. b.q = [x.q EXCEPT ![q] = c]
    BY <1>3 DEF Refits, Beside, Booked, Books
  <2>2. Beside(x, b)
    BY <1>3 DEF Refits, Beside, Booked, Books
  <2> QED BY <2>1, <2>2 DEF Refits
<1> HIDE DEF b
<1>5. Same(b, y)
  BY <1>4, RefitsSame, OverSame
<1> HIDE DEF y
<1>6. Refits(x, y, q, c) /\ Booked(y)
  BY <1>4, <1>5, RefitsSame
<1>7. Refits(x, r, q, c)
  BY <1>1, <1>6, EnableSame, RefitsSame
<1>8. /\ Refits(x, GetPost(a, q), q, <<>>) /\ Booked(GetPost(a, q))
      /\ Refits(x, GetPost(r, q), q, c) /\ Booked(GetPost(r, q))
  BY <1>3, <1>7, RefitsSame, GetPostSame
<1> QED BY <1>0, <1>2, <1>8

-----------------------------------------------------------------------------
(* What the queue operators make of the numbers in a queue.                *)
LEMMA PlacedNumbers ==
  ASSUME NEW s \in Seq(Message), NEW m \in Message
  PROVE  /\ Placed(s, m) \in Seq(Message)
         /\ Numbers(Placed(s, m)) = Numbers(s) \o Numbers(<<m>>)
         /\ Pure(s) /\ m.kind = "data" => Pure(Placed(s, m))
<1>0. <<m>> \in Seq(Message) /\ Numbers(s) \in Seq(Nat) /\ Numbers(<<m>>) \in Seq(Nat)
  BY Single, NumbersType
<1>1. CASE Urgent(m)
  <2> DEFINE u == OfKind(s, Urgents)
             o == OfKind(s, Ordinary)
  <2>1. u \in Seq(Message) /\ o \in Seq(Message) /\ Placed(s, m) = (u \o <<m>>) \o o
    BY <1>1, OfKindType DEF Placed, Ahead, Behind
  <2>2. Numbers(u) = <<>> /\ Numbers(o) = Numbers(s)
    BY NumbersOfKind DEF Urgents, Ordinary
  <2>3. m.kind # "data" /\ Numbers(<<m>>) = <<>>
    BY <1>1, NumbersOne DEF Urgent, Urgents
  <2> HIDE DEF u, o
  <2>4. /\ u \o <<m>> \in Seq(Message) /\ (u \o <<m>>) \o o \in Seq(Message)
        /\ Numbers((u \o <<m>>) \o o) = (Numbers(u) \o Numbers(<<m>>)) \o Numbers(o)
    BY <1>0, <2>1, Joined, NumbersJoined
  <2>5. (<<>> \o <<>>) \o Numbers(s) = Numbers(s) /\ Numbers(s) \o <<>> = Numbers(s)
    BY <1>0, NothingJoined
  <2> QED BY <2>1, <2>2, <2>3, <2>4, <2>5
<1>2. CASE ~Urgent(m)
  <2>1. s \o <<m>> \in Seq(Message)
    BY <1>0, Joined
  <2>2. Placed(s, m) = s \o <<m>>
    BY <1>2, <2>1, NothingJoined DEF Placed, Ahead, Behind
  <2> QED BY <1>0, <2>1, <2>2, NumbersJoined, PureGrows
<1> QED BY <1>1, <1>2

LEMMA ReturnedNumbers ==
  ASSUME NEW s \in Seq(Message), NEW m \in Message
  PROVE  /\ Returned(s, m) \in Seq(Message)
         /\ Numbers(Returned(s, m)) = Numbers(<<m>>) \o Numbers(s)
         /\ Pure(s) /\ m.kind = "data" => Pure(Returned(s, m))
<1>0. <<m>> \in Seq(Message) /\ Numbers(s) \in Seq(Nat) /\ Numbers(<<m>>) \in Seq(Nat)
  BY Single, NumbersType
<1>1. CASE Urgent(m)
  <2>1. <<m>> \o s \in Seq(Message) /\ <<>> \o <<m>> = <<m>>
    BY <1>0, Joined, NothingJoined
  <2>2. Returned(s, m) = <<m>> \o s
    BY <1>1, <2>1 DEF Returned
  <2>3. m.kind # "data"
    BY <1>1 DEF Urgent, Urgents
  <2> QED BY <1>0, <2>1, <2>2, <2>3, NumbersJoined
<1>2. CASE ~Urgent(m)
  <2> DEFINE u == OfKind(s, Urgents)
             o == OfKind(s, Ordinary)
  <2>1. u \in Seq(Message) /\ o \in Seq(Message) /\ Returned(s, m) = (u \o <<m>>) \o o
    BY <1>2, OfKindType DEF Returned
  <2>2. Numbers(u) = <<>> /\ Numbers(o) = Numbers(s)
    BY NumbersOfKind DEF Urgents, Ordinary
  <2>3. Pure(s) => u = <<>> /\ o = s
    <3>1. OfKind(OfKind(s, {"data"}), Urgents) = OfKind(s, {"data"} \cap Urgents)
      BY OfKindTwice
    <3>2. OfKind(OfKind(s, {"data"}), Ordinary) = OfKind(s, {"data"} \cap Ordinary)
      BY OfKindTwice
    <3>3. {"data"} \cap Urgents = {} /\ {"data"} \cap Ordinary = {"data"}
      BY DEF Urgents, Ordinary
    <3> QED BY <3>1, <3>2, <3>3, OfNoKind DEF Pure
  <2> HIDE DEF u, o
  <2>4. /\ u \o <<m>> \in Seq(Message) /\ (u \o <<m>>) \o o \in Seq(Message)
        /\ Numbers((u \o <<m>>) \o o) = (Numbers(u) \o Numbers(<<m>>)) \o Numbers(o)
    BY <1>0, <2>1, Joined, NumbersJoined
  <2>5. (<<>> \o Numbers(<<m>>)) = Numbers(<<m>>) /\ <<>> \o <<m>> = <<m>>
    BY <1>0, NothingJoined
  <2>6. Pure(s) /\ m.kind = "data" => Pure(Returned(s, m))
    BY <2>1, <2>3, <2>5, PureGrows
  <2> QED BY <2>1, <2>2, <2>4, <2>5, <2>6
<1> QED BY <1>1, <1>2

LEMMA LeftNumbers ==
  ASSUME NEW s \in Seq(Message), NEW all \in BOOLEAN
  PROVE  /\ Left(s, all) \in Seq(Message) /\ Numbers(Left(s, all)) = <<>>
         /\ Pure(s) => Left(s, all) = <<>>
         /\ all => Left(s, all) = <<>>
<1>0. <<>> \in Seq(Message) /\ Numbers(<<>>) = <<>>
  BY NothingJoined, NumbersNone
<1> DEFINE kept == OfKind(s, Urgents \cup {"ioctl"})
           u == OfKind(kept, Urgents)
           o == OfKind(kept, Ordinary)
<1>1. kept \in Seq(Message) /\ u \in Seq(Message) /\ o \in Seq(Message)
  BY OfKindType
<1>2. Numbers(u) = <<>> /\ Numbers(o) = <<>>
  <2>1. Numbers(kept) = <<>>
    BY NumbersOfKind DEF Urgents
  <2>2. Numbers(u) = <<>> /\ Numbers(o) = Numbers(kept)
    <3> HIDE DEF kept
    <3> QED BY <1>1, NumbersOfKind DEF Urgents, Ordinary
  <2> QED BY <2>1, <2>2
<1>3. ASSUME Pure(s) PROVE kept = <<>>
  <2>1. OfKind(OfKind(s, {"data"}), Urgents \cup {"ioctl"})
          = OfKind(s, {"data"} \cap (Urgents \cup {"ioctl"}))
    BY OfKindTwice
  <2>2. {"data"} \cap (Urgents \cup {"ioctl"}) = {}
    BY DEF Urgents
  <2> QED BY <1>3, <2>1, <2>2, OfNoKind DEF Pure
<1>4. Left(s, all) = <<>> \/ (Left(s, all) = u \o o /\ kept # <<>> /\ ~all)
  BY DEF Left
<1> HIDE DEF kept, u, o
<1>5. u \o o \in Seq(Message) /\ Numbers(u \o o) = Numbers(u) \o Numbers(o)
  BY <1>1, Joined, NumbersJoined
<1>6. <<>> \o <<>> = <<>>
  BY <1>0, NothingJoined
<1> QED BY <1>0, <1>2, <1>3, <1>4, <1>5, <1>6

-----------------------------------------------------------------------------
(* The numbers on their way: what has arrived, then what waits, the oldest *)
(* first. *)
Low(x) == x.sent \o Numbers(x.q["dw"])
Mid(x) == Low(x) \o Numbers(x.q["bw"])
Down(x) == Mid(x) \o Numbers(x.q["wh"])
LowUp(x) == x.got \o Numbers(x.q["rh"])
MidUp(x) == LowUp(x) \o Numbers(x.q["br"])
Up(x) == MidUp(x) \o Numbers(x.q["dr"])
(* What is queued: only data for the card and for the reader, nothing in   *)
(* the queues of a module that has none. *)
Stored(x) ==
  /\ Booked(x) /\ x.q \in [Queue -> Seq(Message)]
  /\ x.sent \in Seq(Nat) /\ x.got \in Seq(Nat)
  /\ Pure(x.q["dw"]) /\ Pure(x.q["rh"]) /\ Bare(x)

LEMMA StoredTypes ==
  ASSUME NEW x, Stored(x)
  PROVE  /\ \A p \in Queue : x.q[p] \in Seq(Message) /\ Numbers(x.q[p]) \in Seq(Nat)
         /\ Low(x) \in Seq(Nat) /\ Mid(x) \in Seq(Nat) /\ Down(x) \in Seq(Nat)
         /\ LowUp(x) \in Seq(Nat) /\ MidUp(x) \in Seq(Nat) /\ Up(x) \in Seq(Nat)
<1>1. \A p \in Queue : x.q[p] \in Seq(Message) /\ Numbers(x.q[p]) \in Seq(Nat)
  BY NumbersType DEF Stored
<1>2. /\ Numbers(x.q["dw"]) \in Seq(Nat) /\ Numbers(x.q["bw"]) \in Seq(Nat)
      /\ Numbers(x.q["wh"]) \in Seq(Nat) /\ Numbers(x.q["rh"]) \in Seq(Nat)
      /\ Numbers(x.q["br"]) \in Seq(Nat) /\ Numbers(x.q["dr"]) \in Seq(Nat)
  BY <1>1 DEF Queue
<1>3. Low(x) \in Seq(Nat) /\ LowUp(x) \in Seq(Nat)
  BY <1>2, Joined DEF Stored, Low, LowUp
<1>4. Mid(x) \in Seq(Nat) /\ MidUp(x) \in Seq(Nat)
  BY <1>2, <1>3, Joined DEF Mid, MidUp
<1>5. Down(x) \in Seq(Nat) /\ Up(x) \in Seq(Nat)
  BY <1>2, <1>4, Joined DEF Down, Up
<1> QED BY <1>1, <1>3, <1>4, <1>5

LEMMA SameStored ==
  ASSUME NEW x, NEW y, Stored(x), Same(x, y)
  PROVE  /\ Stored(y) /\ y.q = x.q
         /\ Low(y) = Low(x) /\ Mid(y) = Mid(x) /\ Down(y) = Down(x)
         /\ LowUp(y) = LowUp(x) /\ MidUp(y) = MidUp(x) /\ Up(y) = Up(x)
<1>1. y.q = x.q /\ y.sent = x.sent /\ y.got = x.got /\ y.mod = x.mod /\ DOMAIN y = DOMAIN x
  BY DEF Same, Beside
<1>2. Stored(y)
  BY <1>1 DEF Stored, Booked, Bare
<1> QED BY <1>1, <1>2 DEF Low, Mid, Down, LowUp, MidUp, Up

(* A queue may hold this. *)
Fits(x, q, s) == /\ q \in {"dw", "rh"} => Pure(s)
                 /\ q \in {"bw", "br"} => x.mod = "buffer" \/ s = <<>>
Others(x, y, q) == \A p \in Queue \ {q} : y.q[p] = x.q[p]

LEMMA RefitsStored ==
  ASSUME NEW x, NEW y, NEW q \in Queue, NEW s \in Seq(Message), Stored(x), Refits(x, y, q, s),
         Fits(x, q, s)
  PROVE  Stored(y) /\ y.q[q] = s /\ Others(x, y, q)
<1>1. /\ y.q = [x.q EXCEPT ![q] = s] /\ y.sent = x.sent /\ y.got = x.got /\ y.mod = x.mod
      /\ DOMAIN y = DOMAIN x
  BY DEF Refits, Beside
<1>2. y.q \in [Queue -> Seq(Message)] /\ y.q[q] = s /\ \A p \in Queue \ {q} : y.q[p] = x.q[p]
  BY <1>1 DEF Stored
<1>3. Pure(y.q["dw"]) /\ Pure(y.q["rh"])
  <2>1. "dw" \in Queue /\ "rh" \in Queue
    BY DEF Queue
  <2>2. Pure(y.q["dw"])
    <3>1. CASE q = "dw"
      BY <1>2, <3>1 DEF Fits
    <3>2. CASE q # "dw"
      <4>1. y.q["dw"] = x.q["dw"]
        BY <1>2, <2>1, <3>2
      <4> QED BY <4>1 DEF Stored
    <3> QED BY <3>1, <3>2
  <2>3. Pure(y.q["rh"])
    <3>1. CASE q = "rh"
      BY <1>2, <3>1 DEF Fits
    <3>2. CASE q # "rh"
      <4>1. y.q["rh"] = x.q["rh"]
        BY <1>2, <2>1, <3>2
      <4> QED BY <4>1 DEF Stored
    <3> QED BY <3>1, <3>2
  <2> QED BY <2>2, <2>3
<1>4. Bare(y)
  <2>1. ASSUME y.mod # "buffer", NEW p \in {"bw", "br"} PROVE y.q[p] = <<>>
    <3>1. x.q[p] = <<>> /\ p \in Queue
      BY <1>1, <2>1 DEF Stored, Bare, Queue
    <3>2. CASE p = q
      BY <1>1, <1>2, <2>1, <3>2 DEF Fits
    <3>3. CASE p # q
      BY <1>2, <3>1, <3>3
    <3> QED BY <3>2, <3>3
  <2> QED BY <2>1 DEF Bare
<1>5. Stored(y)
  BY <1>1, <1>2, <1>3, <1>4 DEF Stored, Booked
<1> QED BY <1>2, <1>5 DEF Others

LEMMA AssociativeNat ==
  ASSUME NEW a \in Seq(Nat), NEW b \in Seq(Nat), NEW n \in Seq(Nat)
  PROVE  (a \o b) \o n = a \o (b \o n)
<1> DEFINE N == Nat
<1>1. a \in Seq(N) /\ b \in Seq(N) /\ n \in Seq(N)
  OBVIOUS
<1> HIDE DEF N
<1> QED BY <1>1, Associative

LEMMA Passed ==
  ASSUME NEW a \in Seq(Nat), NEW b \in Seq(Nat), NEW n \in Seq(Nat), NEW c \in Seq(Nat)
  PROVE  (a \o (b \o n)) \o c = (a \o b) \o (n \o c) /\ a \o (b \o n) = (a \o b) \o n
<1>1. a \o b \in Seq(Nat)
  BY Joined
<1>2. (a \o b) \o n = a \o (b \o n)
  BY AssociativeNat
<1>3. ((a \o b) \o n) \o c = (a \o b) \o (n \o c)
  BY <1>1, AssociativeNat
<1> QED BY <1>2, <1>3

(* What the queues hold of one message. *)
LEMMA OneNumber ==
  ASSUME NEW m \in Message
  PROVE  /\ Numbers(<<m>>) \in Seq(Nat) /\ <<m>> \in Seq(Message)
         /\ m.kind = "data" => Numbers(<<m>>) = <<m.n>>
         /\ m.kind # "data" => Numbers(<<m>>) = <<>>
<1>1. <<m>> \in Seq(Message)
  OBVIOUS
<1>2. Numbers(<<m>>) \in Seq(Nat)
  BY <1>1, NumbersType
<1> QED BY <1>1, <1>2, NumbersOne

LEMMA GetQStored ==
  ASSUME NEW x, Stored(x), NEW q \in Queue, x.q[q] # <<>>
  PROVE  LET y == GetQ(x, q)
         IN  /\ Stored(y) /\ Beside(x, y) /\ Others(x, y, q)
             /\ Head(x.q[q]) \in Message
             /\ Numbers(x.q[q]) = Numbers(<<Head(x.q[q])>>) \o Numbers(y.q[q])
             /\ y.q[q] = Tail(x.q[q]) /\ x.q[q] = <<Head(x.q[q])>> \o y.q[q]
             /\ q \in {"dw", "rh"} => Head(x.q[q]).kind = "data"
<1> DEFINE y == GetQ(x, q)
           s == x.q[q]
           h == Head(s)
           t == Tail(s)
<1>1. s \in Seq(Message) /\ s # <<>>
  BY DEF Stored
<1>2. Refits(x, y, q, t)
  <2>1. Booked(x)
    BY DEF Stored
  <2> QED BY <2>1, GetQRefits
<1>3. h \in Message /\ t \in Seq(Message) /\ s = <<h>> \o t
  <2> HIDE DEF s
  <2> QED BY <1>1, Split
<1>4. q \in {"dw", "rh"} => Pure(t) /\ h.kind = "data"
  <2>1. q \in {"dw", "rh"} => Pure(s)
    BY DEF Stored
  <2> HIDE DEF s
  <2> QED BY <1>1, <2>1, PureSplit
<1>5. q \in {"bw", "br"} => x.mod = "buffer"
  BY DEF Stored, Bare
<1>0. Fits(x, q, t)
  BY <1>4, <1>5 DEF Fits
<1> HIDE DEF y, h, t, s
<1>6. /\ Stored(y) /\ y.q[q] = t /\ Others(x, y, q)
  BY <1>0, <1>2, <1>3, RefitsStored
<1>7. Numbers(s) = Numbers(<<h>>) \o Numbers(t)
  BY <1>3, Single, NumbersJoined
<1> QED BY <1>2, <1>3, <1>4, <1>6, <1>7 DEF Refits, y, h, t, s

LEMMA PutQStored ==
  ASSUME NEW x, Stored(x), NEW q \in Queue, NEW m \in Message,
         q \in {"dw", "rh"} => m.kind = "data", q \in {"bw", "br"} => x.mod = "buffer"
  PROVE  LET y == PutQ(x, q, m)
         IN  /\ Stored(y) /\ Beside(x, y) /\ Others(x, y, q)
             /\ Numbers(y.q[q]) = Numbers(x.q[q]) \o Numbers(<<m>>)
<1> DEFINE y == PutQ(x, q, m)
           s == x.q[q]
           p == Placed(s, m)
<1>1. s \in Seq(Message) /\ Booked(x) /\ (q \in {"dw", "rh"} => Pure(s))
  BY DEF Stored
<1>2. Refits(x, y, q, p)
  BY <1>1, PutQRefits
<1>3. p \in Seq(Message) /\ Numbers(p) = Numbers(s) \o Numbers(<<m>>)
      /\ (q \in {"dw", "rh"} => Pure(p))
  <2> HIDE DEF s
  <2> QED BY <1>1, PlacedNumbers
<1>0. Fits(x, q, p)
  BY <1>3 DEF Fits
<1> HIDE DEF y, p
<1>4. /\ Stored(y) /\ y.q[q] = p /\ Others(x, y, q)
  BY <1>0, <1>2, <1>3, RefitsStored
<1> QED BY <1>2, <1>3, <1>4 DEF Refits, y

LEMMA PutBackStored ==
  ASSUME NEW x, Stored(x), NEW q \in Queue, NEW m \in Message,
         q \in {"dw", "rh"} => m.kind = "data", q \in {"bw", "br"} => x.mod = "buffer",
         NEW y, y \in {PutBack(x, q, m), PutBackRetry(x, q, m)}
  PROVE  /\ Stored(y) /\ Beside(x, y) /\ Others(x, y, q)
         /\ Numbers(y.q[q]) = Numbers(<<m>>) \o Numbers(x.q[q])
<1> DEFINE s == x.q[q]
           p == Returned(s, m)
<1>1. s \in Seq(Message) /\ Booked(x) /\ (q \in {"dw", "rh"} => Pure(s))
  BY DEF Stored
<1>2. Refits(x, y, q, p)
  BY <1>1, PutBackRefits
<1>3. p \in Seq(Message) /\ Numbers(p) = Numbers(<<m>>) \o Numbers(s)
      /\ (q \in {"dw", "rh"} => Pure(p))
  <2> HIDE DEF s
  <2> QED BY <1>1, ReturnedNumbers
<1>0. Fits(x, q, p)
  BY <1>3 DEF Fits
<1> HIDE DEF p
<1>4. /\ Stored(y) /\ y.q[q] = p /\ Others(x, y, q)
  BY <1>0, <1>2, <1>3, RefitsStored
<1> QED BY <1>2, <1>3, <1>4 DEF Refits

LEMMA FlushStored ==
  ASSUME NEW x, Stored(x), NEW q \in Queue, NEW all \in BOOLEAN,
         q \in {"bw", "br"} => x.mod = "buffer" \/ all
  PROVE  LET y == Flush(x, q, all)
         IN  /\ Stored(y) /\ Beside(x, y) /\ Others(x, y, q)
             /\ Numbers(y.q[q]) = <<>> /\ (all => y.q[q] = <<>>)
<1> DEFINE y == Flush(x, q, all)
           s == x.q[q]
           p == Left(s, all)
<1>1. s \in Seq(Message) /\ Booked(x) /\ (q \in {"dw", "rh"} => Pure(s))
  BY DEF Stored
<1>2. Refits(x, y, q, p)
  BY <1>1, FlushRefits
<1>3. p \in Seq(Message) /\ Numbers(p) = <<>> /\ (q \in {"dw", "rh"} => Pure(p))
      /\ (all => p = <<>>)
  <2>1. Pure(<<>>)
    BY OfKindNone DEF Pure
  <2> HIDE DEF s
  <2> QED BY <1>1, <2>1, LeftNumbers
<1>0. Fits(x, q, p)
  BY <1>3 DEF Fits
<1> HIDE DEF y, p
<1>4. /\ Stored(y) /\ y.q[q] = p /\ Others(x, y, q)
  BY <1>0, <1>2, <1>3, RefitsStored
<1> QED BY <1>2, <1>3, <1>4 DEF Refits, y

-----------------------------------------------------------------------------
(* What goes up and what goes down. *)
LikeDown(x, y) == y.sent = x.sent /\ \A p \in {"dw", "bw", "wh"} : y.q[p] = x.q[p]
LikeUp(x, y) == y.got = x.got /\ \A p \in {"rh", "br", "dr"} : y.q[p] = x.q[p]

LEMMA LikeSums ==
  ASSUME NEW x, NEW y
  PROVE  /\ LikeDown(x, y) => Low(y) = Low(x) /\ Mid(y) = Mid(x) /\ Down(y) = Down(x)
         /\ LikeUp(x, y) => LowUp(y) = LowUp(x) /\ MidUp(y) = MidUp(x) /\ Up(y) = Up(x)
BY DEF LikeDown, LikeUp, Low, Mid, Down, LowUp, MidUp, Up

LEMMA SameLike ==
  ASSUME NEW x, NEW y, Stored(x), Same(x, y)
  PROVE  Stored(y) /\ Beside(x, y) /\ LikeDown(x, y) /\ LikeUp(x, y) /\ y.q = x.q
BY SameStored DEF Same, Beside, LikeDown, LikeUp

LEMMA BesideChain ==
  ASSUME NEW x, NEW y, NEW z, Beside(x, y), Beside(y, z)
  PROVE  Beside(x, z)
BY DEF Beside

(* One queue of one side changes. *)
LEMMA OthersLike ==
  ASSUME NEW x, NEW y, NEW q, Beside(x, y), Others(x, y, q)
  PROVE  /\ q \in {"rh", "br", "dr"} => LikeDown(x, y)
         /\ q \in {"dw", "bw", "wh"} => LikeUp(x, y)
BY DEF Beside, Others, LikeDown, LikeUp, Queue

LEMMA HeadPutStored ==
  ASSUME NEW x, Stored(x), NEW m \in Message
  PROVE  LET y == HeadPut(x, m)
         IN  /\ Stored(y) /\ Beside(x, y) /\ LikeDown(x, y)
             /\ y.got = x.got /\ y.q["br"] = x.q["br"] /\ y.q["dr"] = x.q["dr"]
             /\ Numbers(y.q["rh"]) = Numbers(x.q["rh"]) \o Numbers(<<m>>)
<1> DEFINE y == HeadPut(x, m)
<1>0. Booked(x)
  BY DEF Stored
<1>1. CASE m.kind = "data"
  <2> DEFINE z == PutQ(x, "rh", m)
  <2>1. y = WakeReader(z)
    BY <1>1 DEF HeadPut
  <2>2. /\ Stored(z) /\ Beside(x, z) /\ Others(x, z, "rh")
        /\ Numbers(z.q["rh"]) = Numbers(x.q["rh"]) \o Numbers(<<m>>)
    <3>1. "rh" \in Queue
      BY DEF Queue
    <3> QED BY <1>1, <3>1, PutQStored
  <2> HIDE DEF y, z
  <2>3. Same(z, y)
    BY <2>1, <2>2, WakesSame DEF Stored
  <2>4. Stored(y) /\ Beside(z, y) /\ LikeDown(z, y) /\ LikeUp(z, y) /\ y.q = z.q
    BY <2>2, <2>3, SameLike
  <2>5. LikeDown(x, z)
    BY <2>2, OthersLike
  <2>6. z.q["br"] = x.q["br"] /\ z.q["dr"] = x.q["dr"] /\ z.got = x.got
    BY <2>2 DEF Others, Queue, Beside
  <2>7. Beside(x, y)
    BY <2>2, <2>4, BesideChain
  <2>8. LikeDown(x, y) /\ y.got = x.got
    BY <2>4, <2>5, <2>6 DEF LikeDown, LikeUp
  <2> QED BY <2>2, <2>4, <2>6, <2>7, <2>8 DEF y
<1>2. CASE m.kind # "data"
  <2>1. Same(x, y)
    <3>0. Same(x, x)
      BY DEF Same, Beside
    <3>1. CASE m.kind = "ack"
      <4> DEFINE b == [x EXCEPT !.iocblk = m.n]
      <4>1. y = x \/ y = WakeIoctl(b)
        BY <3>1 DEF HeadPut
      <4>2. Same(x, b) /\ Booked(b)
        BY <1>0 DEF Same, Beside, Booked, Books
      <4> HIDE DEF b
      <4> QED BY <1>0, <3>0, <4>1, <4>2, WakesSame, SameChain
    <3>2. CASE m.kind = "hangup"
      <4> DEFINE a == [x EXCEPT !.hup = TRUE]
                 b == WakeIoctl(a)
                 c == WakeWriter(b)
                 d == WakeReader(c)
      <4>1. y = WakeCloser(d)
        BY <3>2 DEF HeadPut
      <4>2. Same(x, a) /\ Booked(a)
        BY <1>0 DEF Same, Beside, Booked, Books
      <4> HIDE DEF a
      <4>3. Same(x, b) /\ Booked(b)
        BY <1>0, <4>2, WakesSame, SameChain
      <4> HIDE DEF b
      <4>4. Same(x, c) /\ Booked(c)
        BY <1>0, <4>3, WakesSame, SameChain
      <4> HIDE DEF c
      <4>5. Same(x, d) /\ Booked(d)
        BY <1>0, <4>4, WakesSame, SameChain
      <4> HIDE DEF d
      <4> QED BY <1>0, <4>1, <4>5, WakesSame, SameChain
    <3>3. CASE m.kind \notin {"data", "ack", "hangup"}
      <4>1. y = x
        BY <3>3 DEF HeadPut
      <4> QED BY <3>0, <4>1
    <3> QED BY <1>2, <3>1, <3>2, <3>3
  <2> HIDE DEF y
  <2>2. Stored(y) /\ Beside(x, y) /\ LikeDown(x, y) /\ LikeUp(x, y) /\ y.q = x.q
    BY <2>1, SameLike
  <2>3. Numbers(x.q["rh"]) \o Numbers(<<m>>) = Numbers(x.q["rh"])
    <3>1. Numbers(<<m>>) = <<>> /\ Numbers(x.q["rh"]) \in Seq(Nat)
      BY <1>2, OneNumber, StoredTypes DEF Queue
    <3> QED BY <3>1, NothingJoined
  <2>4. y.got = x.got
    BY <2>2 DEF Beside
  <2> QED BY <2>2, <2>3, <2>4 DEF y
<1> QED BY <1>1, <1>2

(* Up from the device, up from a module. *)
LEMMA PutUpStored ==
  ASSUME NEW x, Stored(x), NEW m \in Message, NEW q \in {"dr", "br"}
  PROVE  LET y == PutUp(x, q, m)
         IN  /\ Stored(y) /\ Beside(x, y) /\ LikeDown(x, y) /\ y.got = x.got
             /\ y.q["dr"] = x.q["dr"]
             /\ q = "dr" => MidUp(y) = MidUp(x) \o Numbers(<<m>>)
             /\ q = "br" => /\ y.q["br"] = x.q["br"]
                            /\ LowUp(y) = LowUp(x) \o Numbers(<<m>>)
<1> DEFINE y == PutUp(x, q, m)
           n == Numbers(<<m>>)
           rh == Numbers(x.q["rh"])
           br == Numbers(x.q["br"])
<1>1. n \in Seq(Nat) /\ rh \in Seq(Nat) /\ br \in Seq(Nat) /\ x.got \in Seq(Nat)
  BY OneNumber, StoredTypes DEF Queue, Stored
<1>2. CASE Below(x, q) = "br"
  <2>1. q = "dr" /\ x.mod = "buffer"
    BY <1>2 DEF Below, QNext, HasService, NoQueue
  <2>2. y = PutQ(x, "br", m)
    BY <1>2 DEF PutUp
  <2> HIDE DEF y
  <2>3. /\ Stored(y) /\ Beside(x, y) /\ Others(x, y, "br")
        /\ Numbers(y.q["br"]) = br \o n
    <3>1. "br" \in Queue /\ "br" \notin {"dw", "rh"}
      BY DEF Queue
    <3> QED BY <2>1, <2>2, <3>1, PutQStored
  <2>4. y.q["rh"] = x.q["rh"] /\ y.q["dr"] = x.q["dr"] /\ y.got = x.got
    BY <2>3 DEF Others, Queue, Beside
  <2>5. LikeDown(x, y)
    BY <2>3, OthersLike
  <2>6. MidUp(y) = MidUp(x) \o n
    <3>1. LowUp(y) = LowUp(x) /\ LowUp(x) \in Seq(Nat)
      BY <2>4, StoredTypes DEF LowUp
    <3>2. MidUp(y) = LowUp(x) \o (br \o n) /\ MidUp(x) = LowUp(x) \o br
      BY <2>3, <3>1 DEF MidUp
    <3> HIDE DEF n, br
    <3>3. (LowUp(x) \o br) \o n = LowUp(x) \o (br \o n)
      BY <1>1, <3>1, AssociativeNat
    <3> QED BY <3>2, <3>3
  <2> QED BY <2>1, <2>3, <2>4, <2>5, <2>6 DEF y
<1>3. CASE Below(x, q) # "br"
  <2>1. y = HeadPut(x, m)
    BY <1>3 DEF PutUp
  <2> HIDE DEF y
  <2>2. /\ Stored(y) /\ Beside(x, y) /\ LikeDown(x, y)
        /\ y.got = x.got /\ y.q["br"] = x.q["br"] /\ y.q["dr"] = x.q["dr"]
        /\ Numbers(y.q["rh"]) = rh \o n
    BY <2>1, HeadPutStored
  <2>3. LowUp(y) = LowUp(x) \o n /\ LowUp(y) \in Seq(Nat) /\ LowUp(x) \in Seq(Nat)
    <3>1. LowUp(y) = x.got \o (rh \o n) /\ LowUp(x) = x.got \o rh
      BY <2>2 DEF LowUp
    <3>2. (x.got \o rh) \o n = x.got \o (rh \o n)
      <4> HIDE DEF rh, n
      <4> QED BY <1>1, AssociativeNat
    <3> QED BY <2>2, <3>1, <3>2, StoredTypes
  <2>4. ASSUME q = "dr" PROVE MidUp(y) = MidUp(x) \o n
    <3>1. x.mod # "buffer"
      BY <1>3, <2>4 DEF Below, QNext, HasService, NoQueue
    <3>2. br = <<>>
      BY <3>1, NumbersNone DEF Stored, Bare
    <3>3. MidUp(x) = LowUp(x) \o br /\ MidUp(y) = LowUp(y) \o br
      BY <2>2 DEF MidUp
    <3>4. MidUp(x) = LowUp(x) /\ MidUp(y) = LowUp(y)
      BY <2>3, <3>2, <3>3, NothingJoined
    <3> QED BY <2>3, <3>4
  <2> QED BY <2>2, <2>3, <2>4 DEF y
<1> QED BY <1>2, <1>3

(* What reaches the device, from the head or from a module. *)
LEMMA DevicePutStored ==
  ASSUME NEW x, Stored(x), NEW m \in Message
  PROVE  LET y == DevicePut(x, m)
         IN  /\ Stored(y) /\ Beside(x, y) /\ Up(y) = Up(x)
             /\ y.sent = x.sent /\ y.q["bw"] = x.q["bw"] /\ y.q["wh"] = x.q["wh"]
             /\ Low(y) = Low(x) \o Numbers(<<m>>)
<1> DEFINE y == DevicePut(x, m)
           n == Numbers(<<m>>)
           dw == Numbers(x.q["dw"])
<1>1. n \in Seq(Nat) /\ dw \in Seq(Nat) /\ x.sent \in Seq(Nat) /\ Low(x) \in Seq(Nat)
      /\ MidUp(x) \in Seq(Nat)
  BY OneNumber, StoredTypes DEF Queue, Stored
<1>2. CASE m.kind = "data"
  <2>1. y = PutQ(x, "dw", m)
    BY <1>2 DEF DevicePut
  <2> HIDE DEF y
  <2>2. /\ Stored(y) /\ Beside(x, y) /\ Others(x, y, "dw")
        /\ Numbers(y.q["dw"]) = dw \o n
    <3>1. "dw" \in Queue /\ "dw" \notin {"bw", "br"}
      BY DEF Queue
    <3> QED BY <1>2, <2>1, <3>1, PutQStored
  <2>3. y.q["bw"] = x.q["bw"] /\ y.q["wh"] = x.q["wh"] /\ y.sent = x.sent
    BY <2>2 DEF Others, Queue, Beside
  <2>4. Up(y) = Up(x)
    BY <2>2, OthersLike, LikeSums
  <2>5. Low(y) = Low(x) \o n
    <3>1. Low(y) = x.sent \o (dw \o n) /\ Low(x) = x.sent \o dw
      BY <2>2, <2>3 DEF Low
    <3>2. (x.sent \o dw) \o n = x.sent \o (dw \o n)
      <4> HIDE DEF dw, n
      <4> QED BY <1>1, AssociativeNat
    <3> QED BY <3>1, <3>2
  <2> QED BY <2>2, <2>3, <2>4, <2>5 DEF y
<1>3. CASE m.kind # "data"
  <2> DEFINE a == [m EXCEPT !.kind = "ack"]
  <2>1. y = PutUp(x, "dr", a)
    BY <1>3 DEF DevicePut
  <2>2. a \in Message /\ a.kind = "ack"
    BY DEF Message
  <2> HIDE DEF y, a
  <2>3. /\ Stored(y) /\ Beside(x, y) /\ LikeDown(x, y) /\ y.q["dr"] = x.q["dr"]
        /\ MidUp(y) = MidUp(x) \o Numbers(<<a>>)
    BY <2>1, <2>2, PutUpStored
  <2>4. Numbers(<<a>>) = <<>> /\ n = <<>>
    BY <1>3, <2>2, OneNumber
  <2>5. MidUp(y) = MidUp(x) /\ Low(x) \o n = Low(x)
    BY <1>1, <2>3, <2>4, NothingJoined
  <2>6. Up(y) = Up(x)
    BY <2>3, <2>5 DEF Up
  <2>7. Low(y) = Low(x)
    BY <2>3, LikeSums
  <2> QED BY <2>3, <2>5, <2>6, <2>7 DEF y, LikeDown
<1> QED BY <1>2, <1>3

LEMMA PutDownStored ==
  ASSUME NEW x, Stored(x), NEW m \in Message, NEW q \in {"wh", "bw"}
  PROVE  LET y == PutDown(x, q, m)
         IN  /\ Stored(y) /\ Beside(x, y) /\ Up(y) = Up(x) /\ y.q["wh"] = x.q["wh"]
             /\ q = "wh" => Mid(y) = Mid(x) \o Numbers(<<m>>)
             /\ q = "bw" => Low(y) = Low(x) \o Numbers(<<m>>) /\ y.q["bw"] = x.q["bw"]
<1> DEFINE y == PutDown(x, q, m)
           n == Numbers(<<m>>)
           bw == Numbers(x.q["bw"])
<1>1. n \in Seq(Nat) /\ bw \in Seq(Nat) /\ Low(x) \in Seq(Nat) /\ Mid(x) \in Seq(Nat)
  BY OneNumber, StoredTypes DEF Queue
<1>2. CASE Below(x, q) = "bw" /\ m.kind = "data"
  <2>1. q = "wh" /\ x.mod = "buffer"
    BY <1>2 DEF Below, QNext, HasService, NoQueue
  <2>2. y = PutQ(x, "bw", m)
    BY <1>2 DEF PutDown
  <2> HIDE DEF y
  <2>3. /\ Stored(y) /\ Beside(x, y) /\ Others(x, y, "bw")
        /\ Numbers(y.q["bw"]) = bw \o n
    <3>1. "bw" \in Queue /\ "bw" \notin {"dw", "rh"}
      BY DEF Queue
    <3> QED BY <2>1, <2>2, <3>1, PutQStored
  <2>4. y.q["dw"] = x.q["dw"] /\ y.q["wh"] = x.q["wh"] /\ y.sent = x.sent
    BY <2>3 DEF Others, Queue, Beside
  <2>5. Up(y) = Up(x)
    BY <2>3, OthersLike, LikeSums
  <2>6. Mid(y) = Mid(x) \o n
    <3>1. Low(y) = Low(x)
      BY <2>4 DEF Low
    <3>2. Mid(y) = Low(x) \o (bw \o n) /\ Mid(x) = Low(x) \o bw
      BY <2>3, <3>1 DEF Mid
    <3> HIDE DEF n, bw
    <3>3. (Low(x) \o bw) \o n = Low(x) \o (bw \o n)
      BY <1>1, AssociativeNat
    <3> QED BY <3>2, <3>3
  <2> QED BY <2>1, <2>3, <2>4, <2>5, <2>6 DEF y
<1>3. CASE ~(Below(x, q) = "bw" /\ m.kind = "data")
  <2>1. y = DevicePut(x, m)
    BY <1>3 DEF PutDown
  <2> HIDE DEF y
  <2>2. /\ Stored(y) /\ Beside(x, y) /\ Up(y) = Up(x)
        /\ y.sent = x.sent /\ y.q["bw"] = x.q["bw"] /\ y.q["wh"] = x.q["wh"]
        /\ Low(y) = Low(x) \o n
    BY <2>1, DevicePutStored
  <2>3. ASSUME q = "wh" PROVE Mid(y) = Mid(x) \o n
    <3>1. CASE x.mod = "buffer"
      <4>1. m.kind # "data"
        BY <1>3, <2>3, <3>1 DEF Below, QNext, HasService, NoQueue
      <4>2. n = <<>>
        BY <4>1, OneNumber
      <4>3. Low(y) = Low(x) /\ Mid(x) \o n = Mid(x)
        BY <1>1, <2>2, <4>2, NothingJoined
      <4> QED BY <2>2, <4>3 DEF Mid
    <3>2. CASE x.mod # "buffer"
      <4>1. bw = <<>>
        BY <3>2, NumbersNone DEF Stored, Bare
      <4>2. Mid(x) = Low(x) \o bw /\ Mid(y) = Low(y) \o bw
        BY <2>2 DEF Mid
      <4>3. Low(y) \in Seq(Nat)
        BY <2>2, StoredTypes
      <4>4. Mid(x) = Low(x) /\ Mid(y) = Low(y)
        BY <1>1, <4>1, <4>2, <4>3, NothingJoined
      <4> QED BY <2>2, <4>4
    <3> QED BY <3>1, <3>2
  <2> QED BY <2>2, <2>3 DEF y
<1> QED BY <1>2, <1>3

-----------------------------------------------------------------------------
(* What is on its way is in line, both ways, and complete as far as it is  *)
(* known to be. *)
Rows(x, sure, sureup) ==
  /\ Stored(x) /\ x.written \in Nat /\ x.received \in Nat /\ x.lastid \in Nat
  /\ Line(Down(x), x.written, sure) /\ Line(Up(x), x.received, sureup)
Sure(x) == ~x.lossyw /\ x.closer = "no" /\ x.dev
SureUp(x) == ~x.lossyr /\ x.closer = "no" /\ x.dev
InLine(x) == Rows(x, Sure(x), SureUp(x))

LEMMA RowsUnsure ==
  ASSUME NEW x, NEW sure \in BOOLEAN, NEW sureup \in BOOLEAN, Rows(x, sure, sureup),
         NEW now \in BOOLEAN, NEW nowup \in BOOLEAN, now => sure, nowup => sureup
  PROVE  Rows(x, now, nowup)
BY DEF Rows, Line

LEMMA SureTypes ==
  ASSUME NEW x
  PROVE  Sure(x) \in BOOLEAN /\ SureUp(x) \in BOOLEAN
BY DEF Sure, SureUp

(* A step that moves numbers only from one queue to the next. *)
Carried(x, y) ==
  /\ Stored(y) /\ Down(y) = Down(x) /\ Up(y) = Up(x)
  /\ y.written = x.written /\ y.received = x.received
  /\ y.lossyw = x.lossyw /\ y.lossyr = x.lossyr /\ (y.closer = "no" <=> x.closer = "no")
  /\ y.dev = x.dev /\ y.lastid = x.lastid

LEMMA CarriedInLine ==
  ASSUME NEW x, NEW y, Carried(x, y)
  PROVE  /\ InLine(x) => InLine(y)
         /\ \A a, b : Rows(x, a, b) => Rows(y, a, b)
<1>1. \A a, b : Rows(x, a, b) => Rows(y, a, b)
  BY DEF Rows, Carried
<1>2. (Sure(y) <=> Sure(x)) /\ (SureUp(y) <=> SureUp(x))
  BY DEF Carried, Sure, SureUp
<1>3. Sure(y) = Sure(x) /\ SureUp(y) = SureUp(x)
  BY <1>2, SureTypes
<1> QED BY <1>1, <1>3 DEF InLine

LEMMA BesideCarried ==
  ASSUME NEW x, NEW y, Stored(y), Beside(x, y), Down(y) = Down(x), Up(y) = Up(x)
  PROVE  Carried(x, y)
BY DEF Carried, Beside

LEMMA SameCarried ==
  ASSUME NEW x, NEW y, Stored(x), Same(x, y)
  PROVE  Carried(x, y) /\ Stored(y)
<1>1. Stored(y) /\ Down(y) = Down(x) /\ Up(y) = Up(x)
  BY SameStored
<1> QED BY <1>1, BesideCarried DEF Same

LEMMA CarriedChain ==
  ASSUME NEW x, NEW y, NEW z, Carried(x, y), Carried(y, z)
  PROVE  Carried(x, z)
BY DEF Carried

LEMMA NumbersCarried ==
  ASSUME NEW x, NEW y, Stored(y), Beside(x, y),
         \A p \in Queue : Numbers(y.q[p]) = Numbers(x.q[p])
  PROVE  Carried(x, y)
<1>1. y.sent = x.sent /\ y.got = x.got
  BY DEF Beside
<1>2. Down(y) = Down(x) /\ Up(y) = Up(x)
  BY <1>1 DEF Down, Mid, Low, Up, MidUp, LowUp, Queue
<1> QED BY <1>2, BesideCarried

-----------------------------------------------------------------------------
(* The scheduler. *)
LEMMA RunInLine ==
  ASSUME InLine(g), Run \/ ServeHeadRead
  PROVE  InLine(g')
<1>1. Same(g, g')
  <2>1. Booked(g)
    BY DEF InLine, Rows, Stored
  <2> QED BY <2>1 DEF Run, ServeHeadRead, Done, Same, Beside, Booked, Books
<1> QED BY <1>1, SameCarried, CarriedInLine DEF InLine, Rows

LEMMA ReturnCarried ==
  ASSUME NEW x, Stored(x), NEW q \in Queue, x.q[q] # <<>>, NEW z, Same(GetQ(x, q), z),
         NEW y, y \in {PutBack(z, q, Head(x.q[q])), PutBackRetry(z, q, Head(x.q[q]))}
  PROVE  Carried(x, y)
<1> DEFINE v == GetQ(x, q)
           h == Head(x.q[q])
<1>1. /\ Stored(v) /\ Beside(x, v) /\ Others(x, v, q) /\ h \in Message
      /\ Numbers(x.q[q]) = Numbers(<<h>>) \o Numbers(v.q[q])
      /\ (q \in {"dw", "rh"} => h.kind = "data")
  BY GetQStored
<1>2. q \in {"bw", "br"} => x.mod = "buffer"
  BY DEF Stored, Bare
<1> HIDE DEF v, h
<1>3. Stored(z) /\ Beside(v, z) /\ z.q = v.q
  BY <1>1, SameLike DEF v
<1>4. q \in {"bw", "br"} => z.mod = "buffer"
  BY <1>1, <1>2, <1>3 DEF Beside
<1>5. /\ Stored(y) /\ Beside(z, y) /\ Others(z, y, q)
      /\ Numbers(y.q[q]) = Numbers(<<h>>) \o Numbers(z.q[q])
  <2>1. y \in {PutBack(z, q, h), PutBackRetry(z, q, h)}
    BY DEF h
  <2> QED BY <1>1, <1>3, <1>4, <2>1, PutBackStored
<1>6. Beside(x, y)
  BY <1>1, <1>3, <1>5, BesideChain
<1>7. ASSUME NEW p \in Queue PROVE Numbers(y.q[p]) = Numbers(x.q[p])
  <2>1. CASE p = q
    BY <1>1, <1>3, <1>5, <2>1
  <2>2. CASE p # q
    <3>1. y.q[p] = z.q[p] /\ v.q[p] = x.q[p]
      BY <1>1, <1>5, <2>2 DEF Others
    <3> QED BY <1>3, <3>1
  <2> QED BY <2>1, <2>2
<1> QED BY <1>5, <1>6, <1>7, NumbersCarried

LEMMA ForwardInLine ==
  ASSUME InLine(g), NEW q \in {"bw", "br", "dr"}, Forward(q)
  PROVE  InLine(g')
<1> DEFINE x == GetQ(g, q)
           h == Head(g.q[q])
           n == Numbers(<<h>>)
<1>0. Stored(g) /\ Booked(g) /\ q \in Queue
  BY DEF InLine, Rows, Stored, Queue
<1>1. CASE g.q[q] = <<>>
  <2>1. g' = Done(x)
    BY <1>1 DEF Forward
  <2>2. Same(g, x) /\ Booked(x)
    BY <1>0, <1>1, GetQRefits
  <2> HIDE DEF x
  <2>3. Same(g, g')
    BY <1>0, <2>1, <2>2, RefusedSame, SameChain
  <2> QED BY <1>0, <2>3, SameCarried, CarriedInLine
<1>2. CASE g.q[q] # <<>>
  <2>1. /\ Stored(x) /\ Beside(g, x) /\ Others(g, x, q) /\ h \in Message
        /\ Numbers(g.q[q]) = n \o Numbers(x.q[q])
    BY <1>0, <1>2, GetQStored
  <2>2. \/ g' = IF q = "bw" THEN PutDown(x, q, h) ELSE PutUp(x, q, h)
        \/ g' = Done(PutBack(Refused(x, q), q, h))
    BY <1>2 DEF Forward, First
  <2>3. CASE g' = Done(PutBack(Refused(x, q), q, h))
    <3> DEFINE z == Refused(x, q)
               y == PutBack(z, q, h)
    <3>1. Same(x, z)
      BY <2>1, RefusedSame DEF Stored
    <3>2. Carried(g, y)
      <4> HIDE DEF z
      <4> QED BY <1>0, <1>2, <3>1, ReturnCarried
    <3> HIDE DEF x, h, y
    <3>3. Stored(y)
      BY <3>2 DEF Carried
    <3>4. Same(y, Done(y))
      BY <3>3, RefusedSame DEF Stored
    <3>5. Carried(y, Done(y))
      BY <3>3, <3>4, SameCarried
    <3>6. g' = Done(y)
      BY <2>3 DEF y
    <3> QED BY <3>2, <3>5, <3>6, CarriedChain, CarriedInLine
  <2>4. CASE q = "bw" /\ g' = PutDown(x, q, h)
    <3> HIDE DEF x, h
    <3>1. /\ Stored(g') /\ Beside(x, g') /\ Up(g') = Up(x) /\ g'.q["wh"] = x.q["wh"]
          /\ Low(g') = Low(x) \o n /\ g'.q["bw"] = x.q["bw"]
      BY <2>1, <2>4, PutDownStored
    <3>2. x.q["dw"] = g.q["dw"] /\ x.q["wh"] = g.q["wh"] /\ x.sent = g.sent
      BY <2>1, <2>4 DEF Others, Queue, Beside
    <3>3. Up(x) = Up(g)
      BY <2>1, <2>4, OthersLike, LikeSums
    <3>4. Mid(g') = Mid(g)
      <4> DEFINE b == Numbers(x.q["bw"])
      <4>1. Mid(g') = (Low(g) \o n) \o b /\ Mid(g) = Low(g) \o (n \o b)
        BY <2>1, <2>4, <3>1, <3>2 DEF Mid, Low
      <4>2. n \in Seq(Nat) /\ b \in Seq(Nat) /\ Low(g) \in Seq(Nat)
        BY <1>0, <2>1, OneNumber, StoredTypes DEF Queue
      <4> HIDE DEF n, b
      <4> QED BY <4>1, <4>2, AssociativeNat
    <3>5. Down(g') = Down(g)
      BY <3>1, <3>2, <3>4 DEF Down
    <3>6. Beside(g, g')
      BY <2>1, <3>1, BesideChain
    <3> QED BY <3>1, <3>3, <3>5, <3>6, BesideCarried, CarriedInLine
  <2>5. CASE q # "bw" /\ g' = PutUp(x, q, h)
    <3> HIDE DEF x, h
    <3>0. q \in {"dr", "br"}
      BY <2>5
    <3>1. /\ Stored(g') /\ Beside(x, g') /\ LikeDown(x, g') /\ g'.got = x.got
          /\ g'.q["dr"] = x.q["dr"]
          /\ (q = "dr" => MidUp(g') = MidUp(x) \o n)
          /\ (q = "br" => g'.q["br"] = x.q["br"] /\ LowUp(g') = LowUp(x) \o n)
      BY <2>1, <2>5, <3>0, PutUpStored
    <3>2. LikeDown(g, x) /\ x.q["rh"] = g.q["rh"] /\ x.got = g.got
          /\ (q = "dr" => x.q["br"] = g.q["br"]) /\ (q = "br" => x.q["dr"] = g.q["dr"])
      BY <2>1, <3>0, OthersLike DEF Others, Queue, Beside
    <3>3. Down(g') = Down(g)
      BY <3>1, <3>2, LikeSums
    <3>4. n \in Seq(Nat) /\ LowUp(g) \in Seq(Nat) /\ MidUp(g) \in Seq(Nat)
          /\ Numbers(x.q[q]) \in Seq(Nat) /\ LowUp(x) = LowUp(g)
      BY <1>0, <2>1, <3>2, OneNumber, StoredTypes DEF LowUp
    <3>5. Up(g') = Up(g)
      <4> DEFINE b == Numbers(x.q[q])
      <4>1. CASE q = "dr"
        <5>1. MidUp(x) = MidUp(g)
          BY <3>2, <3>4, <4>1 DEF MidUp
        <5>2. Up(g') = (MidUp(g) \o n) \o b /\ Up(g) = MidUp(g) \o (n \o b)
          BY <2>1, <3>1, <4>1, <5>1 DEF Up
        <5>3. (MidUp(g) \o n) \o b = MidUp(g) \o (n \o b)
          <6> HIDE DEF n, b
          <6>1. n \in Seq(Nat) /\ b \in Seq(Nat) /\ MidUp(g) \in Seq(Nat)
            BY <3>4 DEF b
          <6> QED BY <6>1, AssociativeNat
        <5> QED BY <5>2, <5>3
      <4>2. CASE q = "br"
        <5>1. MidUp(g') = (LowUp(g) \o n) \o b /\ MidUp(g) = LowUp(g) \o (n \o b)
          BY <2>1, <3>1, <3>4, <4>2 DEF MidUp
        <5>2. (LowUp(g) \o n) \o b = LowUp(g) \o (n \o b)
          <6> HIDE DEF n, b
          <6>1. n \in Seq(Nat) /\ b \in Seq(Nat) /\ LowUp(g) \in Seq(Nat)
            BY <3>4 DEF b
          <6> QED BY <6>1, AssociativeNat
        <5> QED BY <3>1, <3>2, <4>2, <5>1, <5>2 DEF Up
      <4> QED BY <3>0, <4>1, <4>2
    <3>6. Beside(g, g')
      BY <2>1, <3>1, BesideChain
    <3> QED BY <3>1, <3>3, <3>5, <3>6, BesideCarried, CarriedInLine
  <2> QED BY <2>2, <2>3, <2>4, <2>5
<1> QED BY <1>1, <1>2

-----------------------------------------------------------------------------
(* The service procedures of the head and the card, and those who read,   *)
(* write and receive.                                                      *)
LEMMA SingleNat ==
  ASSUME NEW a \in Seq(Nat), NEW k \in Nat
  PROVE  Append(a, k) = a \o <<k>> /\ Append(a, k) \in Seq(Nat)
<1> DEFINE N == Nat
<1>1. a \in Seq(N) /\ k \in N
  OBVIOUS
<1> HIDE DEF N
<1>2. Append(a, k) = a \o <<k>> /\ Append(a, k) \in Seq(N)
  BY <1>1, Single
<1> QED BY <1>2 DEF N

LEMMA ServeHeadWriteInLine ==
  ASSUME InLine(g), ServeHeadWrite
  PROVE  InLine(g')
<1> DEFINE x == IF ~g.dev THEN g ELSE IF ~CanPut(g, "wh") THEN Refused(g, "wh")
                ELSE GetQ(g, "wh")
           h == Head(g.q["wh"])
           n == Numbers(<<h>>)
<1>0. Stored(g) /\ Booked(g) /\ Same(g, g) /\ "wh" \in Queue
  BY DEF InLine, Rows, Stored, Queue, Same, Beside
<1>1. CASE g.dev /\ CanPut(g, "wh") /\ g.q["wh"] # <<>>
  <2>1. g' = PutDown(x, "wh", h) /\ x = GetQ(g, "wh")
    BY <1>1 DEF ServeHeadWrite, First
  <2>2. /\ Stored(x) /\ Beside(g, x) /\ Others(g, x, "wh") /\ h \in Message
        /\ Numbers(g.q["wh"]) = n \o Numbers(x.q["wh"])
    BY <1>0, <1>1, <2>1, GetQStored
  <2> HIDE DEF x, h
  <2>3. /\ Stored(g') /\ Beside(x, g') /\ Up(g') = Up(x) /\ g'.q["wh"] = x.q["wh"]
        /\ Mid(g') = Mid(x) \o n
    BY <2>1, <2>2, PutDownStored
  <2>4. x.q["dw"] = g.q["dw"] /\ x.q["bw"] = g.q["bw"] /\ x.sent = g.sent
    BY <2>2 DEF Others, Queue, Beside
  <2>5. Up(g') = Up(g)
    BY <2>2, <2>3, OthersLike, LikeSums
  <2>6. Down(g') = Down(g)
    <3> DEFINE b == Numbers(x.q["wh"])
    <3>1. Down(g') = (Mid(g) \o n) \o b /\ Down(g) = Mid(g) \o (n \o b)
      BY <2>2, <2>3, <2>4 DEF Down, Mid, Low
    <3>2. n \in Seq(Nat) /\ b \in Seq(Nat) /\ Mid(g) \in Seq(Nat)
      BY <1>0, <2>2, OneNumber, StoredTypes
    <3> HIDE DEF n, b
    <3> QED BY <3>1, <3>2, AssociativeNat
  <2>7. Beside(g, g')
    BY <2>2, <2>3, BesideChain
  <2> QED BY <2>3, <2>5, <2>6, <2>7, BesideCarried, CarriedInLine
<1>2. CASE ~(g.dev /\ CanPut(g, "wh") /\ g.q["wh"] # <<>>)
  <2>1. Same(g, x) /\ Booked(x)
    <3>1. CASE ~g.dev
      BY <1>0, <3>1
    <3>2. CASE g.dev /\ ~CanPut(g, "wh")
      BY <1>0, <3>2, RefusedSame, SameChain
    <3>3. CASE g.dev /\ CanPut(g, "wh")
      BY <1>0, <1>2, <3>3, GetQRefits, SameChain
    <3> QED BY <3>1, <3>2, <3>3
  <2> DEFINE v == [x EXCEPT !.wantw = @ \cup {"wh"}]
             d == Done(x)
             w == WakeWriter(d)
  <2>2. g' = Done(v) \/ g' = WakeCloser(w) \/ g' = w
    BY <1>2 DEF ServeHeadWrite
  <2> HIDE DEF x
  <2>3. Same(x, v) /\ Booked(v)
    BY <2>1 DEF Same, Beside, Booked, Books
  <2>4. Same(x, d) /\ Booked(d)
    BY <2>1, RefusedSame, SameChain
  <2> HIDE DEF v, d
  <2>5. Same(v, Done(v))
    BY <2>3, RefusedSame
  <2>6. Same(d, w)
    BY <2>4, WakesSame
  <2>7. Same(x, w) /\ Booked(w)
    BY <2>1, <2>4, <2>6, SameChain
  <2> HIDE DEF w
  <2>8. Same(w, WakeCloser(w))
    BY <2>7, WakesSame
  <2>9. Same(x, g')
    BY <2>1, <2>2, <2>3, <2>5, <2>7, <2>8, SameChain
  <2>10. Same(g, g')
    BY <1>0, <2>1, <2>9, SameChain
  <2> QED BY <1>0, <2>10, SameCarried, CarriedInLine
<1> QED BY <1>1, <1>2

LEMMA TransmitInLine ==
  ASSUME InLine(g), Transmit
  PROVE  InLine(g')
<1> DEFINE x == GetQ(g, "dw")
           h == Head(g.q["dw"])
           n == Numbers(<<h>>)
           y == [x EXCEPT !.room = FALSE, !.sent = Append(@, h.n)]
<1>0. Stored(g) /\ Booked(g) /\ "dw" \in Queue
  BY DEF InLine, Rows, Stored, Queue
<1>1. CASE g.q["dw"] = <<>>
  <2>1. g' = Done(x)
    BY <1>1 DEF Transmit
  <2>2. Same(g, x) /\ Booked(x)
    BY <1>0, <1>1, GetQRefits
  <2> HIDE DEF x
  <2>3. Same(g, g')
    BY <1>0, <2>1, <2>2, RefusedSame, SameChain
  <2> QED BY <1>0, <2>3, SameCarried, CarriedInLine
<1>2. CASE g.q["dw"] # <<>>
  <2>1. /\ Stored(x) /\ Beside(g, x) /\ Others(g, x, "dw") /\ h \in Message
        /\ Numbers(g.q["dw"]) = n \o Numbers(x.q["dw"]) /\ h.kind = "data"
    BY <1>0, <1>2, GetQStored
  <2>2. g' = y \/ g' = Done(PutBackRetry(x, "dw", h))
    BY <1>2 DEF Transmit, First
  <2>3. CASE g' = Done(PutBackRetry(x, "dw", h))
    <3> DEFINE z == PutBackRetry(x, "dw", h)
    <3>1. Same(x, x)
      BY DEF Same, Beside
    <3>2. Carried(g, z)
      BY <1>0, <1>2, <3>1, ReturnCarried
    <3> HIDE DEF x, h, z
    <3>3. Stored(z)
      BY <3>2 DEF Carried
    <3>4. Same(z, Done(z))
      BY <3>3, RefusedSame DEF Stored
    <3>5. Carried(z, Done(z))
      BY <3>3, <3>4, SameCarried
    <3>6. g' = Done(z)
      BY <2>3 DEF z
    <3> QED BY <3>2, <3>5, <3>6, CarriedChain, CarriedInLine
  <2>4. CASE g' = y
    <3> HIDE DEF x, h
    <3>1. /\ y.sent = Append(x.sent, h.n) /\ y.q = x.q /\ y.got = x.got /\ y.mod = x.mod
          /\ y.dev = x.dev /\ y.written = x.written /\ y.received = x.received
          /\ y.lossyw = x.lossyw /\ y.lossyr = x.lossyr /\ y.closer = x.closer
          /\ y.lastid = x.lastid
          /\ DOMAIN y = DOMAIN x
      BY <2>1 DEF Stored, Booked, Books
    <3> HIDE DEF y
    <3>2. x.sent \in Seq(Nat) /\ h.n \in Nat /\ n = <<h.n>>
      <4>1. h.n \in Nat
        BY <2>1 DEF Message
      <4> QED BY <2>1, <4>1, OneNumber DEF Stored
    <3>3. y.sent = x.sent \o n /\ y.sent \in Seq(Nat)
      BY <3>1, <3>2, SingleNat
    <3>4. Stored(y)
      BY <2>1, <3>1, <3>3 DEF Stored, Booked, Bare
    <3>5. Low(y) = Low(g)
      <4> DEFINE b == Numbers(x.q["dw"])
      <4>1. Low(y) = (x.sent \o n) \o b
        BY <3>1, <3>3 DEF Low
      <4>2. Low(g) = x.sent \o (n \o b)
        BY <2>1 DEF Low, Beside
      <4>3. n \in Seq(Nat) /\ b \in Seq(Nat)
        BY <1>0, <2>1, OneNumber, StoredTypes
      <4> HIDE DEF n, b
      <4> QED BY <3>2, <4>1, <4>2, <4>3, AssociativeNat
    <3>6. x.q["bw"] = g.q["bw"] /\ x.q["wh"] = g.q["wh"]
      BY <2>1 DEF Others, Queue
    <3>7. Down(y) = Down(g)
      BY <3>1, <3>5, <3>6 DEF Down, Mid
    <3>8. Up(y) = Up(x)
      BY <3>1 DEF Up, MidUp, LowUp
    <3>9. Up(x) = Up(g)
      BY <2>1, OthersLike, LikeSums
    <3>10. Carried(g, y)
      BY <2>1, <3>1, <3>4, <3>7, <3>8, <3>9 DEF Carried, Beside
    <3> QED BY <2>4, <3>10, CarriedInLine
  <2> QED BY <2>2, <2>3, <2>4
<1> QED BY <1>1, <1>2

LEMMA ReadInLine ==
  ASSUME InLine(g), Read
  PROVE  InLine(g')
<1> DEFINE x == GetQ(g, "rh")
           h == Head(g.q["rh"])
           n == Numbers(<<h>>)
           y == [x EXCEPT !.reader = "idle", !.got = Append(@, h.n)]
<1>0. Stored(g) /\ Booked(g) /\ "rh" \in Queue
  BY DEF InLine, Rows, Stored, Queue
<1>1. CASE g.hup
  <2>1. g' = [g EXCEPT !.reader = "idle"]
    BY <1>1 DEF Read
  <2>2. Same(g, g')
    BY <1>0, <2>1 DEF Same, Beside, Booked, Books
  <2> QED BY <1>0, <2>2, SameCarried, CarriedInLine
<1>2. CASE ~g.hup /\ g.q["rh"] = <<>>
  <2>1. g' = [x EXCEPT !.reader = "sleep"]
    BY <1>2 DEF Read
  <2>2. Same(g, x) /\ Booked(x)
    BY <1>0, <1>2, GetQRefits
  <2> HIDE DEF x
  <2>3. Same(x, g')
    BY <2>1, <2>2 DEF Same, Beside, Booked, Books
  <2> QED BY <1>0, <2>2, <2>3, SameChain, SameCarried, CarriedInLine
<1>3. CASE ~g.hup /\ g.q["rh"] # <<>>
  <2>1. /\ Stored(x) /\ Beside(g, x) /\ Others(g, x, "rh") /\ h \in Message
        /\ Numbers(g.q["rh"]) = n \o Numbers(x.q["rh"]) /\ h.kind = "data"
    BY <1>0, <1>3, GetQStored
  <2>2. g' = y
    BY <1>3 DEF Read, First
  <2> HIDE DEF x, h
  <2>3. /\ y.got = Append(x.got, h.n) /\ y.q = x.q /\ y.sent = x.sent /\ y.mod = x.mod
        /\ y.dev = x.dev /\ y.written = x.written /\ y.received = x.received
        /\ y.lossyw = x.lossyw /\ y.lossyr = x.lossyr /\ y.closer = x.closer
          /\ y.lastid = x.lastid
        /\ DOMAIN y = DOMAIN x
    BY <2>1 DEF Stored, Booked, Books
  <2> HIDE DEF y
  <2>4. x.got \in Seq(Nat) /\ h.n \in Nat /\ n = <<h.n>>
    <3>1. h.n \in Nat
      BY <2>1 DEF Message
    <3> QED BY <2>1, <3>1, OneNumber DEF Stored
  <2>5. y.got = x.got \o n /\ y.got \in Seq(Nat)
    BY <2>3, <2>4, SingleNat
  <2>6. Stored(y)
    BY <2>1, <2>3, <2>5 DEF Stored, Booked, Bare
  <2>7. LowUp(y) = LowUp(g)
    <3> DEFINE b == Numbers(x.q["rh"])
    <3>1. LowUp(y) = (x.got \o n) \o b
      BY <2>3, <2>5 DEF LowUp
    <3>2. LowUp(g) = x.got \o (n \o b)
      BY <2>1 DEF LowUp, Beside
    <3>3. n \in Seq(Nat) /\ b \in Seq(Nat)
      BY <1>0, <2>1, OneNumber, StoredTypes
    <3> HIDE DEF n, b
    <3> QED BY <2>4, <3>1, <3>2, <3>3, AssociativeNat
  <2>8. x.q["br"] = g.q["br"] /\ x.q["dr"] = g.q["dr"]
    BY <2>1 DEF Others, Queue
  <2>9. Up(y) = Up(g)
    BY <2>3, <2>7, <2>8 DEF Up, MidUp
  <2>10. Down(y) = Down(x)
    BY <2>3 DEF Down, Mid, Low
  <2>11. Down(x) = Down(g)
    BY <2>1, OthersLike, LikeSums
  <2>12. Carried(g, y)
    BY <2>1, <2>3, <2>6, <2>9, <2>10, <2>11 DEF Carried, Beside
  <2> QED BY <2>2, <2>12, CarriedInLine
<1> QED BY <1>1, <1>2, <1>3

(* A message more, at either end. *)
LEMMA WriteInLine ==
  ASSUME InLine(g), Write
  PROVE  InLine(g')
<1>0. Stored(g) /\ Booked(g) /\ "wh" \in Queue /\ g.written \in Nat /\ g.received \in Nat
      /\ g.lastid \in Nat
  BY DEF InLine, Rows, Stored, Queue
<1>1. CASE g.hup \/ "wh" \in g.full
  <2>1. \/ g' = [g EXCEPT !.writer = "idle"]
        \/ g' = [g EXCEPT !.writer = "sleep", !.wantw = @ \cup {"wh"}]
    BY <1>1 DEF Write
  <2>2. Same(g, g')
    BY <1>0, <2>1 DEF Same, Beside, Booked, Books
  <2> QED BY <1>0, <2>2, SameCarried, CarriedInLine
<1>2. CASE ~(g.hup \/ "wh" \in g.full)
  <2> DEFINE x == [g EXCEPT !.writer = "idle", !.written = @ + 1]
             m == [kind |-> "data", n |-> g.written + 1]
             n == Numbers(<<m>>)
  <2>1. g' = PutQ(x, "wh", m)
    BY <1>2 DEF Write
  <2>2. /\ x.written = g.written + 1 /\ x.q = g.q /\ x.sent = g.sent /\ x.got = g.got
        /\ x.mod = g.mod /\ x.dev = g.dev /\ x.received = g.received /\ x.lossyw = g.lossyw
        /\ x.lossyr = g.lossyr /\ x.closer = g.closer /\ x.lastid = g.lastid
        /\ DOMAIN x = DOMAIN g
    BY <1>0 DEF Booked, Books
  <2>3. m \in Message /\ m.kind = "data" /\ m.n = g.written + 1
    BY <1>0 DEF Message
  <2> HIDE DEF x, m
  <2>4. Stored(x)
    BY <1>0, <2>2 DEF Stored, Booked, Bare
  <2>5. /\ Stored(g') /\ Beside(x, g') /\ Others(x, g', "wh")
        /\ Numbers(g'.q["wh"]) = Numbers(x.q["wh"]) \o n
    <3>1. "wh" \notin {"dw", "rh"} /\ "wh" \notin {"bw", "br"}
      OBVIOUS
    <3> QED BY <1>0, <2>1, <2>3, <2>4, <3>1, PutQStored
  <2>6. g'.written = g.written + 1 /\ g'.received = g.received /\ Sure(g') = Sure(g)
        /\ SureUp(g') = SureUp(g) /\ g'.lastid = g.lastid
    <3>1. (Sure(g') <=> Sure(g)) /\ (SureUp(g') <=> SureUp(g))
      BY <2>2, <2>5 DEF Beside, Sure, SureUp
    <3> QED BY <2>2, <2>5, <3>1, SureTypes DEF Beside
  <2>7. Up(g') = Up(g)
    <3>1. Up(g') = Up(x)
      BY <2>5, OthersLike, LikeSums
    <3>2. Up(x) = Up(g)
      BY <2>2 DEF Up, MidUp, LowUp
    <3> QED BY <3>1, <3>2
  <2>8. Down(g') = Down(g) \o <<g.written + 1>>
    <3> DEFINE d == Numbers(g.q["wh"])
    <3>1. Mid(g') = Mid(g)
      BY <2>2, <2>5 DEF Mid, Low, Others, Queue, Beside
    <3>2. Down(g') = Mid(g) \o (d \o n) /\ Down(g) = Mid(g) \o d
      BY <2>2, <2>5, <3>1 DEF Down
    <3>3. n = <<g.written + 1>>
      BY <2>3, OneNumber
    <3>4. n \in Seq(Nat) /\ d \in Seq(Nat) /\ Mid(g) \in Seq(Nat)
      BY <1>0, <2>3, OneNumber, StoredTypes
    <3> HIDE DEF d, n
    <3>5. (Mid(g) \o d) \o n = Mid(g) \o (d \o n)
      BY <3>4, AssociativeNat
    <3> QED BY <3>2, <3>3, <3>5
  <2>9. Line(Down(g'), g'.written, Sure(g'))
    <3>1. Line(Down(g), g.written, Sure(g)) /\ Down(g) \in Seq(Nat) /\ Sure(g) \in BOOLEAN
      BY <1>0, StoredTypes, SureTypes DEF InLine, Rows
    <3> QED BY <1>0, <2>6, <2>8, <3>1, LineGrows
  <2>10. Line(Up(g'), g'.received, SureUp(g'))
    BY <2>6, <2>7 DEF InLine, Rows
  <2> QED BY <1>0, <2>5, <2>6, <2>9, <2>10 DEF InLine, Rows
<1> QED BY <1>1, <1>2

LEMMA ReceiveInLine ==
  ASSUME InLine(g), Receive
  PROVE  InLine(g')
<1>0. Stored(g) /\ Booked(g) /\ "dr" \in Queue /\ g.written \in Nat /\ g.received \in Nat
      /\ g.lastid \in Nat
  BY DEF InLine, Rows, Stored, Queue
<1>1. CASE "dr" \in g.full
  <2>1. g' = [g EXCEPT !.wantw = @ \cup {"dr"}]
    BY <1>1 DEF Receive
  <2>2. Same(g, g')
    BY <1>0, <2>1 DEF Same, Beside, Booked, Books
  <2> QED BY <1>0, <2>2, SameCarried, CarriedInLine
<1>2. CASE ~("dr" \in g.full)
  <2> DEFINE x == [g EXCEPT !.received = @ + 1]
             m == [kind |-> "data", n |-> g.received + 1]
             n == Numbers(<<m>>)
  <2>1. g' = PutQ(x, "dr", m)
    BY <1>2 DEF Receive
  <2>2. /\ x.received = g.received + 1 /\ x.q = g.q /\ x.sent = g.sent /\ x.got = g.got
        /\ x.mod = g.mod /\ x.dev = g.dev /\ x.written = g.written /\ x.lossyw = g.lossyw
        /\ x.lossyr = g.lossyr /\ x.closer = g.closer /\ x.lastid = g.lastid
        /\ DOMAIN x = DOMAIN g
    BY <1>0 DEF Booked, Books
  <2>3. m \in Message /\ m.kind = "data" /\ m.n = g.received + 1
    BY <1>0 DEF Message
  <2> HIDE DEF x, m
  <2>4. Stored(x)
    BY <1>0, <2>2 DEF Stored, Booked, Bare
  <2>5. /\ Stored(g') /\ Beside(x, g') /\ Others(x, g', "dr")
        /\ Numbers(g'.q["dr"]) = Numbers(x.q["dr"]) \o n
    <3>1. "dr" \notin {"dw", "rh"} /\ "dr" \notin {"bw", "br"}
      OBVIOUS
    <3> QED BY <1>0, <2>1, <2>3, <2>4, <3>1, PutQStored
  <2>6. g'.received = g.received + 1 /\ g'.written = g.written /\ Sure(g') = Sure(g)
        /\ SureUp(g') = SureUp(g) /\ g'.lastid = g.lastid
    <3>1. (Sure(g') <=> Sure(g)) /\ (SureUp(g') <=> SureUp(g))
      BY <2>2, <2>5 DEF Beside, Sure, SureUp
    <3> QED BY <2>2, <2>5, <3>1, SureTypes DEF Beside
  <2>7. Down(g') = Down(g)
    <3>1. Down(g') = Down(x)
      BY <2>5, OthersLike, LikeSums
    <3>2. Down(x) = Down(g)
      BY <2>2 DEF Down, Mid, Low
    <3> QED BY <3>1, <3>2
  <2>8. Up(g') = Up(g) \o <<g.received + 1>>
    <3> DEFINE d == Numbers(g.q["dr"])
    <3>1. MidUp(g') = MidUp(g)
      BY <2>2, <2>5 DEF MidUp, LowUp, Others, Queue, Beside
    <3>2. Up(g') = MidUp(g) \o (d \o n) /\ Up(g) = MidUp(g) \o d
      BY <2>2, <2>5, <3>1 DEF Up
    <3>3. n = <<g.received + 1>>
      BY <2>3, OneNumber
    <3>4. n \in Seq(Nat) /\ d \in Seq(Nat) /\ MidUp(g) \in Seq(Nat)
      BY <1>0, <2>3, OneNumber, StoredTypes
    <3> HIDE DEF d, n
    <3>5. (MidUp(g) \o d) \o n = MidUp(g) \o (d \o n)
      BY <3>4, AssociativeNat
    <3> QED BY <3>2, <3>3, <3>5
  <2>9. Line(Up(g'), g'.received, SureUp(g'))
    <3>1. Line(Up(g), g.received, SureUp(g)) /\ Up(g) \in Seq(Nat) /\ SureUp(g) \in BOOLEAN
      BY <1>0, StoredTypes, SureTypes DEF InLine, Rows
    <3> QED BY <1>0, <2>6, <2>8, <3>1, LineGrows
  <2>10. Line(Down(g'), g'.written, Sure(g'))
    BY <2>6, <2>7 DEF InLine, Rows
  <2> QED BY <1>0, <2>5, <2>6, <2>9, <2>10 DEF InLine, Rows
<1> QED BY <1>1, <1>2

-----------------------------------------------------------------------------
(* The interrupts, the signals and the ioctls move no data. *)
LEMMA FlInLine ==
  ASSUME InLine(g)
  PROVE  Same(g, Fl) /\ Stored(Fl) /\ InLine(Fl) /\ Booked(Fl)
<1>1. Stored(g) /\ Booked(g)
  BY DEF InLine, Rows, Stored
<1>2. Same(g, Fl) /\ Booked(Fl)
  BY <1>1 DEF Fl, Same, Beside, Booked, Books
<1> QED BY <1>1, <1>2, SameCarried, CarriedInLine

LEMMA InterruptInLine ==
  ASSUME InLine(g), CardReady \/ Retry \/ Hangup
  PROVE  InLine(g')
<1>0. Stored(g) /\ Booked(g)
  BY DEF InLine, Rows, Stored
<1>1. CASE CardReady \/ Retry
  <2>1. ASSUME NEW z, NEW q, Same(g, z), g' = z \/ g' = Enable(z, q)
        PROVE  InLine(g')
    <3>1. Booked(z)
      BY <1>0, <2>1, SameChain
    <3>2. Same(z, Enable(z, q))
      BY <3>1, EnableSame
    <3>3. Same(g, g')
      BY <1>0, <2>1, <3>2, SameChain
    <3> QED BY <1>0, <3>3, SameCarried, CarriedInLine
  <2>2. Same(g, [g EXCEPT !.room = TRUE])
    BY <1>0 DEF Same, Beside, Booked, Books
  <2>3. \A q : Same(g, [g EXCEPT !.retry = @ \ {q}])
    BY <1>0 DEF Same, Beside, Booked, Books
  <2>4. CASE CardReady
    <3>1. PICK tell \in BOOLEAN :
            g' = IF tell THEN Enable([g EXCEPT !.room = TRUE], "dw")
                 ELSE [g EXCEPT !.room = TRUE]
      BY <2>4 DEF CardReady
    <3> QED BY <2>1, <2>2, <3>1
  <2>5. CASE Retry
    <3>1. PICK q \in g.retry : g' = Enable([g EXCEPT !.retry = @ \ {q}], q)
      BY <2>5 DEF Retry
    <3> QED BY <2>1, <2>3, <3>1
  <2> QED BY <1>1, <2>4, <2>5
<1>2. CASE Hangup
  <2> DEFINE m == [kind |-> "hangup", n |-> 0]
             x == Fl
  <2>1. g' = PutUp(x, "dr", m)
    BY <1>2 DEF Hangup
  <2>2. m \in Message /\ m.kind # "data"
    BY DEF Message
  <2>3. Stored(x) /\ InLine(x)
    BY FlInLine
  <2> HIDE DEF x, m
  <2>4. /\ Stored(g') /\ Beside(x, g') /\ LikeDown(x, g') /\ g'.q["dr"] = x.q["dr"]
        /\ MidUp(g') = MidUp(x) \o Numbers(<<m>>)
    BY <2>1, <2>2, <2>3, PutUpStored
  <2>5. Numbers(<<m>>) = <<>> /\ MidUp(x) \in Seq(Nat)
    BY <2>2, <2>3, OneNumber, StoredTypes
  <2>6. MidUp(g') = MidUp(x)
    BY <2>4, <2>5, NothingJoined
  <2>7. Up(g') = Up(x) /\ Down(g') = Down(x)
    BY <2>4, <2>6, LikeSums DEF Up
  <2> QED BY <2>3, <2>4, <2>7, BesideCarried, CarriedInLine
<1> QED BY <1>1, <1>2

LEMMA SignalInLine ==
  ASSUME InLine(g), Signal
  PROVE  InLine(g')
<1>1. g' = [Fl EXCEPT !.writer = "idle"] \/ g' = [Fl EXCEPT !.reader = "idle"]
  BY DEF Signal
<1>2. Stored(Fl) /\ InLine(Fl) /\ Booked(Fl)
  BY FlInLine
<1>3. Same(Fl, g')
  BY <1>1, <1>2 DEF Same, Beside, Booked, Books
<1> QED BY <1>2, <1>3, SameCarried, CarriedInLine

LEMMA IoctlEndSame ==
  ASSUME NEW x, Booked(x), NEW p
  PROVE  Same(x, IoctlEnd(x, p)) /\ Booked(IoctlEnd(x, p))
<1> DEFINE y == [x EXCEPT !.io[p] = Free, !.ioctl = FALSE, !.iocblk = 0]
<1>1. Same(x, y) /\ Booked(y) /\ Same(x, x)
  BY DEF Same, Beside, Booked, Books
<1>2. IoctlEnd(x, p) = WakeIoctl(y)
  BY DEF IoctlEnd
<1> HIDE DEF y
<1>3. Same(y, WakeIoctl(y))
  BY <1>1, WakesSame
<1> QED BY <1>1, <1>2, <1>3, SameChain

LEMMA IoctlInLine ==
  ASSUME InLine(g), NEW p \in Procs, Ioctl(p)
  PROVE  InLine(g')
<1> DEFINE id == g.lastid + 1
           x == [g EXCEPT !.ioctl = TRUE, !.iocblk = 0, !.lastid = id,
                          !.ioctlid = id, !.io[p] = [at |-> "wait", id |-> id]]
           m == [kind |-> "ioctl", n |-> id]
<1>0. Stored(g) /\ Booked(g) /\ g.lastid \in Nat /\ "wh" \in Queue
  BY DEF InLine, Rows, Stored, Queue
<1>1. g' = [g EXCEPT !.io[p].at = "slot"] \/ g' = PutQ(x, "wh", m)
  BY DEF Ioctl
<1>2. CASE g' = [g EXCEPT !.io[p].at = "slot"]
  <2>1. Same(g, g')
    BY <1>0, <1>2 DEF Same, Beside, Booked, Books
  <2> QED BY <1>0, <2>1, SameCarried, CarriedInLine
<1>3. CASE g' = PutQ(x, "wh", m)
  <2>1. /\ x.q = g.q /\ x.sent = g.sent /\ x.got = g.got
        /\ x.mod = g.mod /\ x.dev = g.dev /\ x.written = g.written /\ x.received = g.received
        /\ x.lossyw = g.lossyw /\ x.lossyr = g.lossyr /\ x.closer = g.closer
        /\ x.lastid \in Nat /\ DOMAIN x = DOMAIN g
    BY <1>0 DEF Booked, Books
  <2>2. m \in Message /\ m.kind # "data"
    BY <1>0 DEF Message
  <2> HIDE DEF x, m
  <2>3. Stored(x)
    BY <1>0, <2>1 DEF Stored, Booked, Bare
  <2>4. /\ Stored(g') /\ Beside(x, g') /\ Others(x, g', "wh")
        /\ Numbers(g'.q["wh"]) = Numbers(x.q["wh"]) \o Numbers(<<m>>)
    <3>1. "wh" \notin {"dw", "rh"} /\ "wh" \notin {"bw", "br"}
      OBVIOUS
    <3> QED BY <1>0, <1>3, <2>2, <2>3, <3>1, PutQStored
  <2>5. Numbers(g'.q["wh"]) = Numbers(x.q["wh"])
    <3>1. Numbers(<<m>>) = <<>> /\ Numbers(x.q["wh"]) \in Seq(Nat)
      BY <1>0, <2>2, <2>3, OneNumber, StoredTypes
    <3> QED BY <2>4, <3>1, NothingJoined
  <2>6. Carried(x, g')
    <3>1. \A q \in Queue : Numbers(g'.q[q]) = Numbers(x.q[q])
      BY <2>4, <2>5 DEF Others
    <3> QED BY <2>4, <3>1, NumbersCarried
  <2>7. InLine(x)
    <3>1. Down(x) = Down(g) /\ Up(x) = Up(g)
      BY <2>1 DEF Down, Mid, Low, Up, MidUp, LowUp
    <3>2. Sure(x) = Sure(g) /\ SureUp(x) = SureUp(g)
      BY <2>1 DEF Sure, SureUp
    <3> QED BY <2>1, <2>3, <3>1, <3>2 DEF InLine, Rows
  <2> QED BY <2>6, <2>7, CarriedInLine
<1> QED BY <1>1, <1>2, <1>3

LEMMA IoctlDoneInLine ==
  ASSUME InLine(g), NEW p \in Procs, IoctlGivesUp(p) \/ IoctlReply(p)
  PROVE  InLine(g')
<1> DEFINE e == IoctlEnd(g, p)
<1>0. Stored(g) /\ Booked(g)
  BY DEF InLine, Rows, Stored
<1>1. Same(g, e) /\ Booked(e)
  BY <1>0, IoctlEndSame
<1>2. \/ g' = [g EXCEPT !.io[p] = Free] \/ g' = [g EXCEPT !.io[p].at = "wait"]
      \/ g' = e \/ g' = [e EXCEPT !.reply = [own |-> g.io[p].id, got |-> g.iocblk]]
  BY DEF IoctlGivesUp, IoctlReply
<1> HIDE DEF e
<1>3. CASE g' = [g EXCEPT !.io[p] = Free]
  <2>1. Same(g, g')
    BY <1>0, <1>3 DEF Same, Beside, Booked, Books
  <2> QED BY <1>0, <2>1, SameCarried, CarriedInLine
<1>4. CASE g' = [g EXCEPT !.io[p].at = "wait"]
  <2>1. Same(g, g')
    BY <1>0, <1>4 DEF Same, Beside, Booked, Books
  <2> QED BY <1>0, <2>1, SameCarried, CarriedInLine
<1>5. CASE g' = e
  BY <1>0, <1>1, <1>5, SameCarried, CarriedInLine
<1>6. CASE g' = [e EXCEPT !.reply = [own |-> g.io[p].id, got |-> g.iocblk]]
  <2>1. Same(e, g')
    BY <1>1, <1>6 DEF Same, Beside, Booked, Books
  <2>2. Same(g, g')
    BY <1>0, <1>1, <2>1, SameChain
  <2> QED BY <1>0, <2>2, SameCarried, CarriedInLine
<1> QED BY <1>2, <1>3, <1>4, <1>5, <1>6

-----------------------------------------------------------------------------
(* What is flushed leaves a gap. *)
Gapped(a, b, c, d, n, now) ==
  /\ (now => b = <<>>) => Line(((a \o <<>>) \o c) \o d, n, now)
  /\ (now => c = <<>>) => Line(((a \o b) \o <<>>) \o d, n, now)
  /\ (now => d = <<>>) => Line(((a \o b) \o c) \o <<>>, n, now)

LEMMA Gaps ==
  ASSUME NEW n \in Nat, NEW a \in Seq(Nat), NEW b \in Seq(Nat), NEW c \in Seq(Nat),
         NEW d \in Seq(Nat), NEW sure \in BOOLEAN, NEW now \in BOOLEAN, now => sure,
         Line(((a \o b) \o c) \o d, n, sure)
  PROVE  Gapped(a, b, c, d, n, now)
<1> DEFINE ab == a \o b
           abc == ab \o c
           cd == c \o d
           ac == a \o c
<1>1. ab \in Seq(Nat) /\ cd \in Seq(Nat) /\ ac \in Seq(Nat)
  BY Joined
<1>2. abc \in Seq(Nat)
  <2> HIDE DEF ab
  <2> QED BY <1>1, Joined
<1>3. Line(abc \o d, n, sure)
  OBVIOUS
<1>4. abc \o d = ab \o cd /\ ac \o d = a \o cd
  <2>1. (a \o c) \o d = a \o (c \o d)
    BY AssociativeNat
  <2>2. (ab \o c) \o d = ab \o (c \o d)
    <3>1. ab \in Seq(Nat)
      BY <1>1
    <3> HIDE DEF ab
    <3> QED BY <3>1, AssociativeNat
  <2> QED BY <2>1, <2>2
<1>5. a \o <<>> = a /\ ab \o <<>> = ab /\ abc \o <<>> = abc /\ abc \in Seq(Nat)
  <2> HIDE DEF ab, abc
  <2> QED BY <1>1, <1>2, NothingJoined
<1>6. ASSUME now => b = <<>> PROVE Line(a \o cd, n, now)
  <2>1. Line((a \o b) \o cd, n, sure)
    BY <1>3, <1>4
  <2> HIDE DEF cd
  <2> QED BY <1>1, <1>6, <2>1, LineCut
<1>7. ASSUME now => c = <<>> PROVE Line(ab \o d, n, now)
  <2>1. Line((ab \o c) \o d, n, sure)
    BY <1>3
  <2> HIDE DEF ab
  <2> QED BY <1>1, <1>7, <2>1, LineCut
<1>8. ASSUME now => d = <<>> PROVE Line(abc, n, now)
  <2> DEFINE e == <<>>
  <2>0. e \in Seq(Nat)
    BY NothingJoined
  <2> HIDE DEF abc, e
  <2>1. abc \o d \in Seq(Nat) /\ (abc \o d) \o e = abc \o d
    <3>1. abc \o d \in Seq(Nat)
      BY <1>2, Joined
    <3> QED BY <3>1, NothingJoined DEF e
  <2>2. Line((abc \o d) \o e, n, sure)
    BY <1>3, <2>1
  <2>3. Line(abc \o e, n, now)
    <3>1. now => sure /\ d = <<>>
      BY <1>8
    <3> QED BY <1>2, <2>0, <2>2, <3>1, LineCut
  <2> QED BY <1>5, <2>3 DEF e
<1> HIDE DEF ab, abc, cd, ac
<1>9. /\ ((a \o <<>>) \o c) \o d = a \o cd
      /\ ((a \o b) \o <<>>) \o d = ab \o d /\ ((a \o b) \o c) \o <<>> = abc
  BY <1>4, <1>5 DEF ab, abc, ac
<1> QED BY <1>6, <1>7, <1>8, <1>9 DEF Gapped

(* What is known now was known before; what a queue loses is not counted   *)
(* on any more. *)
Knows(sure, sureup, now, nowup) ==
  now \in BOOLEAN /\ nowup \in BOOLEAN /\ (now => sure) /\ (nowup => sureup)
Loses(x, q, all, now, nowup) ==
  /\ q \in {"bw", "br"} => x.mod = "buffer" \/ all
  /\ q \in {"dw", "bw", "wh"} => (now => Numbers(x.q[q]) = <<>>)
  /\ q \in {"rh", "br", "dr"} => (nowup => Numbers(x.q[q]) = <<>>)
Gone(x, y, q, all) == Beside(x, y) /\ Others(x, y, q) /\ (all => y.q[q] = <<>>)

LEMMA FlushRows ==
  ASSUME NEW x, NEW q \in Queue, NEW all \in BOOLEAN, NEW sure \in BOOLEAN,
         NEW sureup \in BOOLEAN, Rows(x, sure, sureup), NEW now, NEW nowup,
         Knows(sure, sureup, now, nowup), Loses(x, q, all, now, nowup)
  PROVE  Rows(Flush(x, q, all), now, nowup) /\ Gone(x, Flush(x, q, all), q, all)
<1> DEFINE y == Flush(x, q, all)
<1>9. /\ q \in {"bw", "br"} => x.mod = "buffer" \/ all
      /\ q \in {"dw", "bw", "wh"} => (now => Numbers(x.q[q]) = <<>>)
      /\ q \in {"rh", "br", "dr"} => (nowup => Numbers(x.q[q]) = <<>>)
      /\ now \in BOOLEAN /\ nowup \in BOOLEAN /\ (now => sure) /\ (nowup => sureup)
  BY DEF Knows, Loses
<1>1. /\ Stored(x) /\ x.written \in Nat /\ x.received \in Nat /\ x.lastid \in Nat
      /\ Line(Down(x), x.written, sure) /\ Line(Up(x), x.received, sureup)
  BY DEF Rows
<1>2. /\ Stored(y) /\ Beside(x, y) /\ Others(x, y, q)
      /\ Numbers(y.q[q]) = <<>> /\ (all => y.q[q] = <<>>)
  BY <1>1, <1>9, FlushStored
<1> HIDE DEF y
<1>3. /\ y.written = x.written /\ y.received = x.received /\ y.lastid = x.lastid
      /\ y.sent = x.sent /\ y.got = x.got
  BY <1>2 DEF Beside
<1> DEFINE N(p) == Numbers(x.q[p])
<1>4. \A p \in Queue : N(p) \in Seq(Nat)
  BY <1>1, StoredTypes
<1>5. x.sent \in Seq(Nat) /\ x.got \in Seq(Nat)
  BY <1>1 DEF Stored
<1>6. \A p \in Queue : Numbers(y.q[p]) = IF p = q THEN <<>> ELSE N(p)
  BY <1>2 DEF Others
<1>7. CASE q \in {"dw", "bw", "wh"}
  <2>1. Line(Down(y), y.written, now)
    <3>1. Line(((x.sent \o N("dw")) \o N("bw")) \o N("wh"), x.written, sure)
      BY <1>1 DEF Down, Mid, Low
    <3>2. N("dw") \in Seq(Nat) /\ N("bw") \in Seq(Nat) /\ N("wh") \in Seq(Nat)
      BY <1>4 DEF Queue
    <3>3. now => N(q) = <<>>
      BY <1>7, <1>9
    <3>4. Down(y) = ((x.sent \o (IF q = "dw" THEN <<>> ELSE N("dw")))
                     \o (IF q = "bw" THEN <<>> ELSE N("bw")))
                    \o (IF q = "wh" THEN <<>> ELSE N("wh"))
      BY <1>3, <1>6 DEF Down, Mid, Low, Queue
    <3> HIDE DEF N
    <3>5. Gapped(x.sent, N("dw"), N("bw"), N("wh"), x.written, now)
      <4> DEFINE n == x.written
                 a == x.sent
                 b == N("dw")
                 c == N("bw")
                 d == N("wh")
      <4>1. n \in Nat /\ a \in Seq(Nat) /\ b \in Seq(Nat) /\ c \in Seq(Nat) /\ d \in Seq(Nat)
        BY <1>1, <1>5, <3>2
      <4>2. Line(((a \o b) \o c) \o d, n, sure)
        BY <3>1
      <4> HIDE DEF a, b, c, d, n
      <4>3. Gapped(a, b, c, d, n, now)
        BY <1>9, <4>1, <4>2, Gaps
      <4> QED BY <4>3 DEF a, b, c, d, n
    <3>6. CASE q = "dw"
      BY <1>3, <3>3, <3>4, <3>5, <3>6 DEF Gapped
    <3>7. CASE q = "bw"
      BY <1>3, <3>3, <3>4, <3>5, <3>7 DEF Gapped
    <3>8. CASE q = "wh"
      BY <1>3, <3>3, <3>4, <3>5, <3>8 DEF Gapped
    <3> QED BY <1>7, <3>6, <3>7, <3>8
  <2>2. Up(y) = Up(x)
    BY <1>2, <1>7, OthersLike, LikeSums
  <2>3. Line(Up(y), y.received, nowup)
    BY <1>1, <1>3, <1>9, <2>2 DEF Line
  <2>4. Rows(y, now, nowup) /\ Gone(x, y, q, all)
    BY <1>1, <1>2, <1>3, <2>1, <2>3 DEF Rows, Gone
  <2> QED BY <2>4 DEF y
<1>8. CASE q \in {"rh", "br", "dr"}
  <2>1. Line(Up(y), y.received, nowup)
    <3>1. Line(((x.got \o N("rh")) \o N("br")) \o N("dr"), x.received, sureup)
      BY <1>1 DEF Up, MidUp, LowUp
    <3>2. N("rh") \in Seq(Nat) /\ N("br") \in Seq(Nat) /\ N("dr") \in Seq(Nat)
      BY <1>4 DEF Queue
    <3>3. nowup => N(q) = <<>>
      BY <1>8, <1>9
    <3>4. Up(y) = ((x.got \o (IF q = "rh" THEN <<>> ELSE N("rh")))
                   \o (IF q = "br" THEN <<>> ELSE N("br")))
                  \o (IF q = "dr" THEN <<>> ELSE N("dr"))
      BY <1>3, <1>6 DEF Up, MidUp, LowUp, Queue
    <3> HIDE DEF N
    <3>5. Gapped(x.got, N("rh"), N("br"), N("dr"), x.received, nowup)
      <4> DEFINE n == x.received
                 a == x.got
                 b == N("rh")
                 c == N("br")
                 d == N("dr")
      <4>1. n \in Nat /\ a \in Seq(Nat) /\ b \in Seq(Nat) /\ c \in Seq(Nat) /\ d \in Seq(Nat)
        BY <1>1, <1>5, <3>2
      <4>2. Line(((a \o b) \o c) \o d, n, sureup)
        BY <3>1
      <4> HIDE DEF a, b, c, d, n
      <4>3. Gapped(a, b, c, d, n, nowup)
        BY <1>9, <4>1, <4>2, Gaps
      <4> QED BY <4>3 DEF a, b, c, d, n
    <3>6. CASE q = "rh"
      BY <1>3, <3>3, <3>4, <3>5, <3>6 DEF Gapped
    <3>7. CASE q = "br"
      BY <1>3, <3>3, <3>4, <3>5, <3>7 DEF Gapped
    <3>8. CASE q = "dr"
      BY <1>3, <3>3, <3>4, <3>5, <3>8 DEF Gapped
    <3> QED BY <1>8, <3>6, <3>7, <3>8
  <2>2. Down(y) = Down(x)
    BY <1>2, <1>8, OthersLike, LikeSums
  <2>3. Line(Down(y), y.written, now)
    BY <1>1, <1>3, <1>9, <2>2 DEF Line
  <2>4. Rows(y, now, nowup) /\ Gone(x, y, q, all)
    BY <1>1, <1>2, <1>3, <2>1, <2>3 DEF Rows, Gone
  <2> QED BY <2>4 DEF y
<1> QED BY <1>7, <1>8 DEF Queue, y

-----------------------------------------------------------------------------
(* Flushes, pushes and pops.                                               *)
LEMMA FlushDownRows ==
  ASSUME NEW x, NEW r \in BOOLEAN, NEW w \in BOOLEAN, NEW sure \in BOOLEAN,
         NEW sureup \in BOOLEAN, Rows(x, sure, sureup), NEW now, NEW nowup,
         Knows(sure /\ ~w, sureup /\ ~r, now, nowup)
  PROVE  Rows(FlushDown(x, r, w), now, nowup) /\ Beside(x, FlushDown(x, r, w))
<1> DEFINE no == FALSE
           yes == TRUE
           a == IF w /\ x.mod = "buffer" THEN Flush(x, "bw", no) ELSE x
           b == IF w THEN Flush(a, "dw", no) ELSE a
           c == IF r THEN Flush(b, "dr", no) ELSE b
           d == IF r /\ x.mod = "buffer" THEN Flush(c, "br", no) ELSE c
           e == IF r THEN Flush(d, "rh", yes) ELSE d
<1>1. FlushDown(x, r, w) = e
  BY DEF FlushDown
<1>0. /\ "bw" \in Queue /\ "dw" \in Queue /\ "dr" \in Queue /\ "br" \in Queue /\ "rh" \in Queue
      /\ no \in BOOLEAN /\ yes \in BOOLEAN
      /\ now \in BOOLEAN /\ nowup \in BOOLEAN /\ (now => sure /\ ~w) /\ (nowup => sureup /\ ~r)
      /\ Knows(now, nowup, now, nowup)
  BY DEF Queue, Knows
<1>2. Rows(x, now, nowup) /\ Beside(x, x)
  <2>1. (now => sure) /\ (nowup => sureup)
    BY <1>0
  <2> QED BY <1>0, <2>1, RowsUnsure DEF Beside
<1> HIDE DEF no, yes
<1>3. Rows(a, now, nowup) /\ Beside(x, a)
  <2>1. CASE w /\ x.mod = "buffer"
    <3>1. Loses(x, "bw", no, now, nowup)
      BY <1>0, <1>2, <2>1 DEF Loses, Beside
    <3>2. Rows(Flush(x, "bw", no), now, nowup) /\ Gone(x, Flush(x, "bw", no), "bw", no)
      BY <1>0, <1>2, <3>1, FlushRows
    <3>3. Beside(x, Flush(x, "bw", no))
      BY <1>2, <3>2, BesideChain DEF Gone
    <3> QED BY <2>1, <3>2, <3>3
  <2>2. CASE ~(w /\ x.mod = "buffer")
    BY <1>2, <2>2
  <2> QED BY <2>1, <2>2
<1> HIDE DEF a
<1>4. Rows(b, now, nowup) /\ Beside(x, b)
  <2>1. CASE w
    <3>1. Loses(a, "dw", no, now, nowup)
      BY <1>0, <1>3, <2>1 DEF Loses, Beside
    <3>2. Rows(Flush(a, "dw", no), now, nowup) /\ Gone(a, Flush(a, "dw", no), "dw", no)
      BY <1>0, <1>3, <3>1, FlushRows
    <3>3. Beside(x, Flush(a, "dw", no))
      BY <1>3, <3>2, BesideChain DEF Gone
    <3> QED BY <2>1, <3>2, <3>3
  <2>2. CASE ~(w)
    BY <1>3, <2>2
  <2> QED BY <2>1, <2>2
<1> HIDE DEF b
<1>5. Rows(c, now, nowup) /\ Beside(x, c)
  <2>1. CASE r
    <3>1. Loses(b, "dr", no, now, nowup)
      BY <1>0, <1>4, <2>1 DEF Loses, Beside
    <3>2. Rows(Flush(b, "dr", no), now, nowup) /\ Gone(b, Flush(b, "dr", no), "dr", no)
      BY <1>0, <1>4, <3>1, FlushRows
    <3>3. Beside(x, Flush(b, "dr", no))
      BY <1>4, <3>2, BesideChain DEF Gone
    <3> QED BY <2>1, <3>2, <3>3
  <2>2. CASE ~(r)
    BY <1>4, <2>2
  <2> QED BY <2>1, <2>2
<1> HIDE DEF c
<1>6. Rows(d, now, nowup) /\ Beside(x, d)
  <2>1. CASE r /\ x.mod = "buffer"
    <3>1. Loses(c, "br", no, now, nowup)
      BY <1>0, <1>5, <2>1 DEF Loses, Beside
    <3>2. Rows(Flush(c, "br", no), now, nowup) /\ Gone(c, Flush(c, "br", no), "br", no)
      BY <1>0, <1>5, <3>1, FlushRows
    <3>3. Beside(x, Flush(c, "br", no))
      BY <1>5, <3>2, BesideChain DEF Gone
    <3> QED BY <2>1, <3>2, <3>3
  <2>2. CASE ~(r /\ x.mod = "buffer")
    BY <1>5, <2>2
  <2> QED BY <2>1, <2>2
<1> HIDE DEF d
<1>7. Rows(e, now, nowup) /\ Beside(x, e)
  <2>1. CASE r
    <3>1. Loses(d, "rh", yes, now, nowup)
      BY <1>0, <1>6, <2>1 DEF Loses, Beside
    <3>2. Rows(Flush(d, "rh", yes), now, nowup) /\ Gone(d, Flush(d, "rh", yes), "rh", yes)
      BY <1>0, <1>6, <3>1, FlushRows
    <3>3. Beside(x, Flush(d, "rh", yes))
      BY <1>6, <3>2, BesideChain DEF Gone
    <3> QED BY <2>1, <3>2, <3>3
  <2>2. CASE ~(r)
    BY <1>6, <2>2
  <2> QED BY <2>1, <2>2
<1> HIDE DEF e
<1> QED BY <1>1, <1>7

(* The queues stay, but not what is noted of them. *)
Noted(x, y) ==
  /\ DOMAIN y = DOMAIN x /\ y.q = x.q /\ y.sent = x.sent /\ y.got = x.got
  /\ y.written = x.written /\ y.received = x.received /\ y.lastid = x.lastid /\ Bare(y)

LEMMA NotedRows ==
  ASSUME NEW x, NEW y, NEW sure, NEW sureup, Rows(x, sure, sureup), Noted(x, y)
  PROVE  Rows(y, sure, sureup)
<1>1. Down(y) = Down(x) /\ Up(y) = Up(x)
  BY DEF Noted, Down, Mid, Low, Up, MidUp, LowUp
<1>2. Stored(y)
  BY DEF Noted, Rows, Stored, Booked
<1> QED BY <1>1, <1>2 DEF Noted, Rows

LEMMA FlushByInLine ==
  ASSUME InLine(g), FlushBy
  PROVE  InLine(g')
<1>1. PICK r \in BOOLEAN, w \in BOOLEAN :
        g' = [FlushDown(Fl, r, w) EXCEPT !.lossyw = @ \/ w, !.lossyr = @ \/ r]
  BY DEF FlushBy
<1> DEFINE x == Fl
           y == FlushDown(x, r, w)
           now == Sure(x) /\ ~w
           nowup == SureUp(x) /\ ~r
<1>2. InLine(x) /\ Booked(x)
  BY FlInLine
<1>3. g' = [y EXCEPT !.lossyw = @ \/ w, !.lossyr = @ \/ r]
  BY <1>1
<1> HIDE DEF x
<1>4. Rows(y, now, nowup) /\ Beside(x, y)
  <2>1. Rows(x, Sure(x), SureUp(x)) /\ Sure(x) \in BOOLEAN /\ SureUp(x) \in BOOLEAN
    BY <1>2, SureTypes DEF InLine
  <2>2. Knows(Sure(x) /\ ~w, SureUp(x) /\ ~r, now, nowup)
    BY DEF Knows
  <2> HIDE DEF now, nowup
  <2> QED BY <2>1, <2>2, FlushDownRows
<1> HIDE DEF y
<1>5. Booked(y)
  BY <1>4 DEF Rows, Stored
<1>6. /\ DOMAIN g' = DOMAIN y /\ g'.q = y.q /\ g'.sent = y.sent /\ g'.got = y.got
      /\ g'.written = y.written /\ g'.received = y.received /\ g'.lastid = y.lastid
      /\ g'.mod = y.mod /\ g'.dev = y.dev /\ g'.closer = y.closer
      /\ g'.lossyw = (y.lossyw \/ w) /\ g'.lossyr = (y.lossyr \/ r)
  BY <1>3, <1>5 DEF Booked, Books
<1>7. Rows(g', now, nowup)
  <2>1. Noted(y, g')
    BY <1>4, <1>6 DEF Noted, Bare, Rows, Stored
  <2> QED BY <1>4, <2>1, NotedRows
<1>8. (Sure(g') => now) /\ (SureUp(g') => nowup)
  BY <1>4, <1>6 DEF Sure, SureUp, Beside
<1>9. now \in BOOLEAN /\ nowup \in BOOLEAN /\ Sure(g') \in BOOLEAN /\ SureUp(g') \in BOOLEAN
  BY SureTypes
<1> HIDE DEF now, nowup
<1> QED BY <1>7, <1>8, <1>9, RowsUnsure DEF InLine

LEMMA PushInLine ==
  ASSUME InLine(g), Push
  PROVE  InLine(g')
<1>1. PICK kind \in Kinds : g' = Attach(Fl, kind)
  BY DEF Push
<1> DEFINE f == Fl
           x == Attach(f, kind)
<1>2. InLine(f) /\ Booked(f) /\ Stored(f) /\ f.mod = "none"
  <2>1. f.mod = g.mod
    BY FlInLine DEF Same, Beside
  <2> QED BY <2>1, FlInLine DEF Push
<1>3. g' = x
  BY <1>1
<1> HIDE DEF f
<1>4. /\ DOMAIN x = DOMAIN f /\ x.q = f.q /\ x.sent = f.sent /\ x.got = f.got
      /\ x.written = f.written /\ x.received = f.received /\ x.lastid = f.lastid
      /\ x.dev = f.dev /\ x.closer = f.closer /\ x.lossyw = f.lossyw /\ x.lossyr = f.lossyr
  BY <1>2 DEF Booked, Books, Attach
<1> HIDE DEF x
<1>5. Bare(x)
  BY <1>2, <1>4 DEF Stored, Bare
<1>6. Noted(f, x)
  BY <1>4, <1>5 DEF Noted
<1>7. InLine(x)
  <2>1. Sure(x) = Sure(f) /\ SureUp(x) = SureUp(f)
    BY <1>4 DEF Sure, SureUp
  <2>2. Rows(x, Sure(f), SureUp(f))
    BY <1>2, <1>6, NotedRows DEF InLine
  <2> QED BY <2>1, <2>2 DEF InLine
<1> QED BY <1>3, <1>7

-----------------------------------------------------------------------------
(* A module or the device goes, with what its queues hold. *)
LEMMA DetachRows ==
  ASSUME NEW x, NEW q \in {"bw", "dw"}, NEW y, y = Detach(x, q),
         NEW sure \in BOOLEAN, NEW sureup \in BOOLEAN, Rows(x, sure, sureup),
         NEW now \in BOOLEAN, NEW nowup \in BOOLEAN,
         now => sure /\ x.q[q] = <<>>, nowup => sureup /\ x.q[Other(q)] = <<>>
  PROVE  /\ Rows(y, now, nowup) /\ (y.dev => x.dev)
         /\ y.lossyw = x.lossyw /\ y.lossyr = x.lossyr /\ (y.closer = "no" <=> x.closer = "no")
<1> DEFINE p == Other(q)
           yes == TRUE
           a == [x EXCEPT !.retry = @ \ Pair(q)]
           b == Unlisted(a, q)
           c == Flush(b, p, yes)
           d == Flush(c, q, yes)
<1>0. Booked(x) /\ Stored(x) /\ p \in Queue /\ q \in Queue /\ p # q
      /\ p \in {"br", "dr"}
  BY DEF Rows, Stored, Other, Queue
<1>1. y = [d EXCEPT !.full = @ \ Pair(q), !.wantr = @ \ Pair(q), !.wantw = @ \ Pair(q),
                    !.mod = IF q \in {"bw", "br"} THEN "none" ELSE @,
                    !.dev = @ /\ q \notin {"dw", "dr"}]
  BY DEF Detach
<1>2. Same(x, b)
  <2>1. Same(x, a) /\ Booked(a)
    BY <1>0 DEF Same, Beside, Booked, Books
  <2> HIDE DEF a
  <2>2. Same(a, b)
    BY <2>1 DEF Same, Beside, Booked, Books, Unlisted
  <2> QED BY <1>0, <2>1, <2>2, SameChain
<1> HIDE DEF p, b
<1>3. Rows(b, sure, sureup) /\ b.q = x.q /\ Beside(x, b)
  BY <1>0, <1>2, SameCarried, CarriedInLine DEF Same
<1>10. yes \in BOOLEAN /\ yes
  OBVIOUS
<1> HIDE DEF yes
<1>4. Rows(c, sure, nowup) /\ Gone(b, c, p, yes)
  <2>1. Loses(b, p, yes, sure, nowup)
    BY <1>0, <1>3, <1>10, NumbersNone DEF Loses, p
  <2>2. Knows(sure, sureup, sure, nowup)
    BY DEF Knows
  <2> QED BY <1>0, <1>3, <1>10, <2>1, <2>2, FlushRows
<1> HIDE DEF c
<1>5. Rows(d, now, nowup) /\ Gone(c, d, q, yes)
  <2>1. c.q[q] = x.q[q]
    BY <1>0, <1>3, <1>4 DEF Others, Gone
  <2>2. Loses(c, q, yes, now, nowup)
    BY <1>0, <1>10, <2>1, NumbersNone DEF Loses
  <2>3. Knows(sure, nowup, now, nowup)
    BY DEF Knows
  <2>4. q \in Queue /\ sure \in BOOLEAN /\ nowup \in BOOLEAN
    BY <1>0
  <2> QED BY <1>4, <1>10, <2>2, <2>3, <2>4, FlushRows
<1> HIDE DEF d
<1>6. Beside(x, d) /\ d.q[p] = <<>> /\ Booked(d) /\ Bare(d)
  <2>1. Beside(x, d)
    BY <1>3, <1>4, <1>5, BesideChain DEF Gone
  <2>2. d.q[p] = <<>>
    BY <1>0, <1>4, <1>5, <1>10 DEF Others, Gone
  <2> QED BY <1>5, <2>1, <2>2 DEF Rows, Stored
<1>7. /\ DOMAIN y = DOMAIN d /\ y.q = d.q /\ y.sent = d.sent /\ y.got = d.got
      /\ y.written = d.written /\ y.received = d.received /\ y.lastid = d.lastid
      /\ y.mod = (IF q \in {"bw", "br"} THEN "none" ELSE d.mod)
      /\ y.dev = (d.dev /\ q \notin {"dw", "dr"}) /\ y.closer = d.closer
      /\ y.lossyw = d.lossyw /\ y.lossyr = d.lossyr
  BY <1>1, <1>6 DEF Booked, Books
<1>8. Bare(y)
  <2>1. CASE q = "bw"
    <3>1. p = "br"
      BY <2>1 DEF p, Other
    <3> QED BY <1>5, <1>6, <1>7, <1>10, <2>1, <3>1 DEF Bare, Gone, Queue
  <2>2. CASE q = "dw"
    BY <1>6, <1>7, <2>2 DEF Bare
  <2> QED BY <2>1, <2>2
<1>9. Rows(y, now, nowup)
  <2>1. Noted(d, y)
    BY <1>7, <1>8 DEF Noted
  <2> QED BY <1>5, <2>1, NotedRows
<1> QED BY <1>6, <1>7, <1>9 DEF Beside

LEMMA PopInLine ==
  ASSUME InLine(g), Pop
  PROVE  InLine(g')
<1> DEFINE x == Fl
           y == Detach(x, "bw")
           now == Sure(x) /\ x.q["bw"] = <<>>
           nowup == SureUp(x) /\ x.q["br"] = <<>>
<1>1. InLine(x) /\ x.q = g.q /\ Booked(x)
  BY FlInLine DEF Same
<1>2. g' = [y EXCEPT !.lossyw = @ \/ x.q["bw"] # <<>>, !.lossyr = @ \/ x.q["br"] # <<>>]
  BY <1>1 DEF Pop
<1> HIDE DEF x
<1>3. /\ Rows(y, now, nowup) /\ (y.dev => x.dev)
      /\ y.lossyw = x.lossyw /\ y.lossyr = x.lossyr /\ (y.closer = "no" <=> x.closer = "no")
  <2>1. Rows(x, Sure(x), SureUp(x)) /\ Sure(x) \in BOOLEAN /\ SureUp(x) \in BOOLEAN
    BY <1>1, SureTypes DEF InLine
  <2>2. now \in BOOLEAN /\ nowup \in BOOLEAN /\ (now => Sure(x) /\ x.q["bw"] = <<>>)
        /\ (nowup => SureUp(x) /\ x.q["br"] = <<>>)
    OBVIOUS
  <2>3. Other("bw") = "br"
    BY DEF Other
  <2> HIDE DEF now, nowup
  <2> QED BY <2>1, <2>2, <2>3, DetachRows
<1> HIDE DEF y
<1>4. Booked(y) /\ Bare(y)
  BY <1>3 DEF Rows, Stored
<1>5. /\ DOMAIN g' = DOMAIN y /\ g'.q = y.q /\ g'.sent = y.sent /\ g'.got = y.got
      /\ g'.written = y.written /\ g'.received = y.received /\ g'.lastid = y.lastid
      /\ g'.mod = y.mod /\ g'.dev = y.dev /\ g'.closer = y.closer
      /\ g'.lossyw = (y.lossyw \/ x.q["bw"] # <<>>)
      /\ g'.lossyr = (y.lossyr \/ x.q["br"] # <<>>)
  BY <1>2, <1>4 DEF Booked, Books
<1>6. Rows(g', now, nowup)
  <2>1. Noted(y, g')
    BY <1>4, <1>5 DEF Noted, Bare
  <2> QED BY <1>3, <2>1, NotedRows
<1>7. (Sure(g') => now) /\ (SureUp(g') => nowup)
  BY <1>3, <1>5 DEF Sure, SureUp
<1>8. now \in BOOLEAN /\ nowup \in BOOLEAN /\ Sure(g') \in BOOLEAN /\ SureUp(g') \in BOOLEAN
  BY SureTypes
<1> HIDE DEF now, nowup
<1> QED BY <1>6, <1>7, <1>8, RowsUnsure DEF InLine

-----------------------------------------------------------------------------
(* The last close and the next open.                                       *)
LEMMA CloseInLine ==
  ASSUME InLine(g), Close \/ CloseTimeout
  PROVE  InLine(g')
<1> DEFINE no == FALSE
<1>1. Booked(g) /\ Stored(g) /\ no \in BOOLEAN
  BY DEF InLine, Rows, Stored
<1>2. CASE Close
  <2>1. Noted(g, g') /\ g'.closer # "no"
    BY <1>1, <1>2 DEF Close, Noted, Booked, Books, Stored, Bare
  <2>2. Rows(g', Sure(g), SureUp(g))
    BY <2>1, NotedRows DEF InLine
  <2>3. Rows(g', Sure(g'), SureUp(g'))
    <3>1. Sure(g') = no /\ SureUp(g') = no
      BY <2>1 DEF Sure, SureUp
    <3>2. Sure(g) \in BOOLEAN /\ SureUp(g) \in BOOLEAN
      BY SureTypes
    <3>3. (no => Sure(g)) /\ (no => SureUp(g))
      OBVIOUS
    <3> HIDE DEF no
    <3> QED BY <1>1, <2>2, <3>1, <3>2, <3>3, RowsUnsure
  <2> QED BY <2>3 DEF InLine
<1>3. CASE CloseTimeout
  <2>1. Same(g, g')
    BY <1>1, <1>3 DEF CloseTimeout, Same, Beside, Booked, Books
  <2> QED BY <1>1, <2>1, SameCarried, CarriedInLine
<1> QED BY <1>2, <1>3

LEMMA CloseStepInLine ==
  ASSUME InLine(g), CloseStep
  PROVE  InLine(g')
<1> DEFINE no == FALSE
           q == QNext(g, "wh")
           a == [g EXCEPT !.closer = "sleep"]
           x == Detach(g, q)
           y == [x EXCEPT !.closer = "check"]
<1>0. Booked(g) /\ Stored(g) /\ no \in BOOLEAN
  BY DEF InLine, Rows, Stored
<1>1. g.dev /\ g.closer # "no" /\ (g' = a \/ g' = y)
  BY DEF CloseStep
<1>2. q \in {"bw", "dw"}
  BY <1>1 DEF QNext
<1>3. Same(g, a)
  BY <1>0, <1>1 DEF Same, Beside, Booked, Books
<1>4. CASE g' = a
  BY <1>0, <1>3, <1>4, SameCarried, CarriedInLine
<1> HIDE DEF q
<1>5. /\ Rows(x, no, no)
      /\ x.lossyw = g.lossyw /\ x.lossyr = g.lossyr
  <2>1. Rows(g, Sure(g), SureUp(g)) /\ Sure(g) \in BOOLEAN /\ SureUp(g) \in BOOLEAN
    BY SureTypes DEF InLine
  <2>2. (no => Sure(g) /\ g.q[q] = <<>>) /\ (no => SureUp(g) /\ g.q[Other(q)] = <<>>)
    OBVIOUS
  <2> HIDE DEF no
  <2> QED BY <1>0, <1>2, <2>1, <2>2, DetachRows
<1>6. Noted(x, y) /\ y.closer = "check"
  <2>1. Booked(x) /\ Bare(x)
    BY <1>5 DEF Rows, Stored
  <2> HIDE DEF x
  <2> QED BY <2>1 DEF Noted, Booked, Books, Bare
<1>7. Rows(y, no, no)
  <2> HIDE DEF x, y, no
  <2> QED BY <1>5, <1>6, NotedRows
<1>8. Sure(y) = no /\ SureUp(y) = no
  BY <1>6 DEF Sure, SureUp
<1> HIDE DEF no, y, a
<1>9. InLine(y)
  BY <1>7, <1>8 DEF InLine
<1> QED BY <1>1, <1>4, <1>9

LEMMA CloseHeadInLine ==
  ASSUME InLine(g), CloseHead
  PROVE  InLine(g')
<1> DEFINE no == FALSE
           yes == TRUE
           a == Flush(g, "wh", yes)
           b == Flush(a, "rh", yes)
           x == Unlisted(b, "wh")
<1>0. /\ no \in BOOLEAN /\ yes \in BOOLEAN /\ ~no /\ "wh" \in Queue /\ "rh" \in Queue
      /\ ~g.dev /\ Sure(g) = no /\ SureUp(g) = no /\ Knows(no, no, no, no)
  BY DEF Queue, CloseHead, Sure, SureUp, Knows
<1>1. g' = [x EXCEPT !.closer = "no", !.full = {}, !.wantw = {}, !.wantr = {}]
  BY DEF CloseHead
<1>2. Rows(g, no, no)
  BY <1>0 DEF InLine
<1> HIDE DEF no, yes
<1>3. Rows(a, no, no) /\ Beside(g, a)
  <2>1. Loses(g, "wh", yes, no, no)
    BY <1>0 DEF Loses
  <2>2. Rows(a, no, no) /\ Gone(g, a, "wh", yes)
    BY <1>0, <1>2, <2>1, FlushRows
  <2> QED BY <2>2 DEF Gone
<1> HIDE DEF a
<1>4. Rows(b, no, no) /\ Beside(a, b)
  <2>1. Loses(a, "rh", yes, no, no)
    BY <1>0 DEF Loses
  <2>2. Rows(b, no, no) /\ Gone(a, b, "rh", yes)
    BY <1>0, <1>3, <2>1, FlushRows
  <2> QED BY <2>2 DEF Gone
<1> HIDE DEF b
<1>5. Booked(b) /\ Bare(b) /\ b.dev = g.dev
  BY <1>3, <1>4 DEF Rows, Stored, Beside
<1>6. Noted(b, g') /\ g'.dev = g.dev
  BY <1>1, <1>5 DEF Unlisted, Noted, Booked, Books, Bare
<1>7. Rows(g', no, no)
  BY <1>4, <1>6, NotedRows
<1>8. Sure(g') = no /\ SureUp(g') = no
  BY <1>0, <1>6 DEF Sure, SureUp, no
<1> QED BY <1>7, <1>8 DEF InLine

-----------------------------------------------------------------------------
(* Where a stream begins. *)
LEMMA NothingInLine ==
  ASSUME NEW x, Booked(x), x.q = [q \in Queue |-> <<>>], x.sent = <<>>, x.got = <<>>,
         x.written = 0, x.received = 0, x.lastid \in Nat
  PROVE  InLine(x)
<1> DEFINE e == <<>>
           N == Nat
           M == Message
<1>1. e \in Seq(M) /\ e \in Seq(N) /\ Len(e) = 0 /\ e \o e = e
  OBVIOUS
<1>2. \A q \in Queue : x.q[q] = e /\ Numbers(x.q[q]) = e
  BY NumbersNone
<1>3. Down(x) = e /\ Up(x) = e
  <2>1. x.sent = e /\ x.got = e
    OBVIOUS
  <2> HIDE DEF e
  <2> QED BY <1>1, <1>2, <2>1 DEF Down, Mid, Low, Up, MidUp, LowUp, Queue
<1>4. UpTo(0) = e
  BY DEF UpTo
<1>5. \A exact : Line(e, 0, exact)
  <2> HIDE DEF e
  <2> QED BY <1>1, <1>4 DEF Line, Increasing
<1>6. Pure(e)
  BY OfKindNone DEF Pure
<1>7. Stored(x)
  <2>1. x.q \in [Queue -> Seq(M)] /\ x.sent \in Seq(N) /\ x.got \in Seq(N)
    <3>1. x.q = [q \in Queue |-> e] /\ x.sent = e /\ x.got = e
      OBVIOUS
    <3> HIDE DEF e, N, M
    <3> QED BY <1>1, <3>1
  <2>2. Pure(x.q["dw"]) /\ Pure(x.q["rh"]) /\ Bare(x)
    BY <1>2, <1>6 DEF Bare, Queue
  <2> QED BY <2>1, <2>2 DEF Stored
<1>8. x.written \in Nat /\ x.received \in Nat
  OBVIOUS
<1> HIDE DEF e
<1> QED BY <1>3, <1>5, <1>7, <1>8 DEF InLine, Rows

LEMMA InitInLine ==
  ASSUME Init
  PROVE  InLine(g)
<1> DEFINE s == Start
           x == Attach(s, "buffer")
           none == [q \in Queue |-> <<>>]
<1>1. g = s \/ g = x
  BY DEF Init
<1>2. /\ Booked(s) /\ s.q = none /\ s.sent = <<>> /\ s.got = <<>>
      /\ s.written = 0 /\ s.received = 0 /\ s.lastid = 0
  BY DEF Start, Booked, Books
<1> HIDE DEF s, none
<1>3. /\ Booked(x) /\ x.q = s.q /\ x.sent = s.sent /\ x.got = s.got
      /\ x.written = s.written /\ x.received = s.received /\ x.lastid = s.lastid
  BY <1>2 DEF Attach, Booked, Books
<1> HIDE DEF x
<1> QED BY <1>1, <1>2, <1>3, NothingInLine DEF none

LEMMA OpenInLine ==
  ASSUME InLine(g), Open
  PROVE  InLine(g')
<1>1. /\ Booked(g') /\ g'.q = [q \in Queue |-> <<>>] /\ g'.sent = <<>> /\ g'.got = <<>>
      /\ g'.written = 0 /\ g'.received = 0 /\ g'.lastid = g.lastid
  BY DEF Open, Start, Booked, Books
<1>2. g'.lastid \in Nat
  BY <1>1 DEF InLine, Rows
<1> HIDE DEF Open
<1> QED BY <1>1, <1>2, NothingInLine

LEMMA StepInLine ==
  ASSUME InLine(g), [Next]_vars
  PROVE  InLine(g')
<1>1. CASE Service
  BY <1>1, RunInLine, ServeHeadWriteInLine, TransmitInLine, ForwardInLine DEF Service
<1>2. CASE Interrupt
  BY <1>2, InterruptInLine, ReceiveInLine DEF Interrupt
<1>3. CASE Process
  BY <1>3, WriteInLine, ReadInLine, SignalInLine, FlushByInLine, PushInLine, PopInLine,
     IoctlInLine, IoctlDoneInLine, CloseInLine, CloseStepInLine, CloseHeadInLine, OpenInLine
     DEF Process
<1>4. CASE UNCHANGED vars
  BY <1>4 DEF vars
<1> QED BY <1>1, <1>2, <1>3, <1>4 DEF Next

(* Data keep their order in both directions and through every queue, and   *)
(* nothing is missing unless a flush, a pop or a close threw it away,      *)
(* however long the stream is used and whatever its water marks are        *)
(* (stream_wsrv, buf_wsrv, isdn2_wsrv with putbq and putbqff).             *)
THEOREM DataWhole == Spec => []Whole
<1>1. Init => InLine(g)
  BY InitInLine
<1>2. InLine(g) /\ [Next]_vars => InLine(g)'
  BY StepInLine
<1>3. InLine(g) => Whole
  <2>1. ASSUME InLine(g), g.dev PROVE Whole
    <3> DEFINE down == g.sent \o Numbers(g.q["dw"]) \o Numbers(g.q["bw"]) \o Numbers(g.q["wh"])
               up == g.got \o Numbers(g.q["rh"]) \o Numbers(g.q["br"]) \o Numbers(g.q["dr"])
    <3>1. down = Down(g) /\ up = Up(g)
      BY DEF Down, Mid, Low, Up, MidUp, LowUp
    <3>2. Line(down, g.written, Sure(g)) /\ Line(up, g.received, SureUp(g))
      BY <2>1, <3>1 DEF InLine, Rows
    <3> HIDE DEF down, up
    <3>3. Increasing(down) /\ (Sure(g) => down = UpTo(g.written))
      BY <3>2 DEF Line
    <3>4. Increasing(up) /\ (SureUp(g) => up = UpTo(g.received))
      BY <3>2 DEF Line
    <3>5. /\ IF g.lossyw \/ g.closer # "no" THEN Increasing(down) ELSE down = UpTo(g.written)
          /\ IF g.lossyr \/ g.closer # "no" THEN Increasing(up) ELSE up = UpTo(g.received)
      BY <2>1, <3>3, <3>4 DEF Sure, SureUp
    <3> QED BY <3>5 DEF Whole, down, up
  <2> QED BY <2>1 DEF Whole
<1> QED BY <1>1, <1>2, <1>3, PTL DEF Spec
=============================================================================
