------------------------------- MODULE Queues -------------------------------
(* The queues of one stream and the scheduler that serves them             *)
(* (streams/streams_sys.c), with the modules between a stream head and an  *)
(* ISDN B channel: nothing, the pass-through "strlog" or the queueing      *)
(* "buffer".  Every operator takes the stream as it is and returns it as   *)
(* the function of the same name leaves it.  Queues are named after where  *)
(* they are (head, buffer or log, device) and their side (write, read).    *)
EXTENDS Integers, Sequences, SequencesExt

Queue == {"wh", "bw", "dw", "dr", "br", "rh"}
CONSTANTS Hiwat, Lowat        \* water marks of each queue, in messages
ASSUME WaterMarks == /\ Hiwat \in [Queue -> Nat] /\ Lowat \in [Queue -> Nat]
                     /\ \A q \in Queue : Lowat[q] <= Hiwat[q]

Other(q) == CASE q = "wh" -> "rh" [] q = "bw" -> "br" [] q = "dw" -> "dr"
              [] q = "rh" -> "wh" [] q = "br" -> "bw" [] q = "dr" -> "dw"
Pair(q) == {q, Other(q)}
NoQueue == "none"

(* q_next, and the queue that feeds one (backq). *)
QNext(x, q) ==
  CASE q = "wh" -> IF x.mod # "none" THEN "bw" ELSE IF x.dev THEN "dw" ELSE NoQueue
    [] q = "bw" -> "dw"
    [] q = "dr" -> IF x.mod # "none" THEN "br" ELSE "rh"
    [] q = "br" -> "rh"
    [] OTHER -> NoQueue
HasService(x, q) == q \in {"bw", "br"} => x.mod = "buffer"
Below(x, q) == LET n == QNext(x, q)
               IN  IF n = NoQueue \/ HasService(x, n) THEN n ELSE QNext(x, n)
Feeder(x, q) ==
  LET fed == {p \in Queue : HasService(x, p) /\ Below(x, p) = q /\ x.dev
                            /\ (p \in {"bw", "br"} => x.mod # "none")}
  IN  IF fed = {} THEN NoQueue ELSE CHOOSE p \in fed : TRUE

(* Messages; what is not data to be sent or read takes no room in a queue  *)
(* (M_HANGUP), or overtakes data (acknowledgements), or both.  The field   *)
(* count is what the messages of a queue take together (q_count). *)
Urgents == {"ack", "hangup"}
Ordinary == {"data", "ioctl"}
Urgent(m) == m.kind \in Urgents
OfKind(s, kinds) ==               \* the messages of these kinds, in their order
  LET f[i \in 0 .. Len(s)] ==
        IF i = 0 THEN <<>> ELSE IF s[i].kind \in kinds THEN Append(f[i - 1], s[i]) ELSE f[i - 1]
  IN  f[Len(s)]
Size(m) == IF m.kind = "hangup" THEN 0 ELSE 1

(* qenable: schedule a queue that is not yet scheduled. *)
Enable(x, q) ==
  IF q = NoQueue \/ ~HasService(x, q) \/ q \in x.enab THEN x
  ELSE [x EXCEPT !.enab = @ \cup {q}, !.sched = Append(@, q)]

(* rmv_post, put_post and get_post: a queue is full above its high water   *)
(* mark; the queue that found it so is served again at the low water mark. *)
Removed(x, q, m) ==
  LET left == x.count[q] - Size(m)
  IN  [x EXCEPT !.count[q] = left, !.full = IF left <= Hiwat[q] THEN @ \ {q} ELSE @]
Over(x, q, n) ==                  \* n is what the queue holds now
  [x EXCEPT !.count[q] = n,
            !.full = IF n > Hiwat[q] THEN @ \cup {q} ELSE @,
            !.wantr = IF n > Hiwat[q] /\ QNext(x, q) = NoQueue THEN @ \cup {q} ELSE @]
Added(x, q, m) == Over(x, q, x.count[q] + Size(m))
GetPostFull(x, q) ==              \* mutant: the queue must be empty of waiters and full
  IF x.count[q] <= Lowat[q] /\ q \in x.wantw /\ q \in x.full
  THEN Enable([x EXCEPT !.wantw = @ \ {q}], Feeder(x, q)) ELSE x
GetPost(x, q) ==
  IF x.count[q] <= Lowat[q] /\ q \in x.wantw
  THEN Enable([x EXCEPT !.wantw = @ \ {q}], Feeder(x, q)) ELSE x

GetQ(x, q) ==
  IF x.q[q] = <<>> THEN GetPost([x EXCEPT !.wantr = @ \cup {q}], q)
  ELSE GetPost(Removed([x EXCEPT !.q[q] = Tail(@), !.wantr = @ \ {q}], q, Head(x.q[q])), q)

(* putq: after the messages that are as urgent, before those that are not; *)
(* putbq: before the messages that are no more urgent. *)
Ahead(s, m) == IF Urgent(m) THEN OfKind(s, Urgents) ELSE s
Behind(s, m) == IF Urgent(m) THEN OfKind(s, Ordinary) ELSE <<>>
Woken(x, q, m) == IF Urgent(m) \/ q \in x.wantr THEN Enable(x, q) ELSE x
PutQ(x, q, m) ==
  Woken(Added([x EXCEPT !.q[q] = Ahead(@, m) \o <<m>> \o Behind(@, m)], q, m), q, m)
PutBack(x, q, m) ==
  LET first == IF Urgent(m) THEN <<>> ELSE OfKind(x.q[q], Urgents)
      rest == IF Urgent(m) THEN x.q[q] ELSE OfKind(x.q[q], Ordinary)
  IN  Woken(Added([x EXCEPT !.q[q] = first \o <<m>> \o rest], q, m), q, m)
(* putbqff: put back for want of room further down; try again in a while.  *)
PutBackRetry(x, q, m) ==
  LET y == PutBack([x EXCEPT !.enab = @ \cup {q}], q, m)
  IN  IF q \in x.enab THEN [y EXCEPT !.wantr = @ \cup {q}]
      ELSE [y EXCEPT !.enab = @ \ {q}, !.wantr = @ \cup {q}, !.retry = @ \cup {q}]

(* flushq: everything, or only data; what is kept is put into the queue    *)
(* again, one message after the other (putq).  Whether the queue was full  *)
(* is forgotten, that somebody waits for room in it is not. *)
Kept(x, q, all) == IF all THEN <<>> ELSE OfKind(x.q[q], Urgents \cup {"ioctl"})
Emptied(x, q) == [x EXCEPT !.q[q] = <<>>, !.count[q] = 0, !.full = @ \ {q}]
Refilled(x, q, s) ==
  LET urgent == OfKind(s, Urgents)
      rest == OfKind(s, Ordinary)
      room == Len(OfKind(s, Ordinary \cup {"ack"}))
      y == Over([Emptied(x, q) EXCEPT !.q[q] = urgent \o rest], q, room)
  IN  IF urgent # <<>> \/ q \in y.wantr THEN Enable(y, q) ELSE y
Flush(x, q, all) ==
  LET kept == Kept(x, q, all)
  IN  GetPost(IF kept = <<>> THEN Emptied(x, q) ELSE Refilled(x, q, kept), q)

(* canput: the next queue that is served; a caller that finds it full      *)
(* leaves word. *)
CanPut(x, q) == Below(x, q) \notin x.full
Refused(x, q) == [x EXCEPT !.wantw = @ \cup {Below(x, q)}]

(* qattach and qdetach: new queues wait for their first message; those     *)
(* that go are unscheduled, flushed and forgotten. *)
Attach(x, kind) == [x EXCEPT !.mod = kind, !.wantr = @ \cup {"bw", "br"}]
Unlisted(x, q) ==
  [x EXCEPT !.enab = @ \ Pair(q), !.sched = SelectSeq(@, LAMBDA p : p \notin Pair(q))]
Detach(x, q) ==
  LET y == Unlisted([x EXCEPT !.retry = @ \ Pair(q)], q)
      z == Flush(Flush(y, Other(q), TRUE), q, TRUE)
  IN  [z EXCEPT !.full = @ \ Pair(q), !.wantr = @ \ Pair(q), !.wantw = @ \ Pair(q),
                !.mod = IF q \in {"bw", "br"} THEN "none" ELSE @,
                !.dev = @ /\ q \notin {"dw", "dr"}]
=============================================================================
