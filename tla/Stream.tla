------------------------------- MODULE Stream -------------------------------
(* A stream head and the processes that use it (streams/streams_io.c) over *)
(* the queues of Queues.tla, with an ISDN B channel at the other end       *)
(* (isdn_2.c, status M_B_conn) and, optionally, a pushed module            *)
(* (buffer/buffer.c or ksupport/log.c).                                    *)
(* Service procedures run one at a time, one message per step, so that the *)
(* interrupts of the card and the timers fall between their steps;         *)
(* processes run only while no service procedure does.                     *)
EXTENDS Queues, FiniteSets

CONSTANTS Procs,              \* processes that call ioctl
          Kinds,              \* modules that are pushed
          MaxWork,            \* bound: messages, ioctls, flushes, pushes, pops, signals
                              \* and hangups, together
          Rare                \* "blocked push": a module is pushed while data are held up,
                              \* in either direction

VARIABLE g
vars == g

Free == [at |-> "idle", id |-> 0]
-----------------------------------------------------------------------------
(* wake_up: whoever sleeps on the queue runs again. *)
WakeUp(p) == IF p = "sleep" THEN "woken" ELSE p
Roused(at) == CASE at = "slot" -> "slot woken" [] at = "wait" -> "wait woken" [] OTHER -> at
WakeIoctl(x) ==
  [x EXCEPT !.io = [p \in Procs |-> [x.io[p] EXCEPT !.at = Roused(x.io[p].at)]]]
WakeReader(x) == [x EXCEPT !.reader = WakeUp(@)]
WakeWriter(x) == [x EXCEPT !.writer = WakeUp(@)]
WakeCloser(x) == [x EXCEPT !.closer = WakeUp(@)]

(* stream_rput, the put procedure of the head. *)
HeadPutAny(x, m) ==               \* mutant: any reply will do
  CASE m.kind = "data" -> WakeReader(PutQ(x, "rh", m))
    [] m.kind = "ack" -> IF ~x.ioctl \/ x.iocblk # 0 THEN x
                         ELSE WakeIoctl([x EXCEPT !.iocblk = m.n])
    [] m.kind = "hangup" ->
         WakeCloser(WakeReader(WakeWriter(WakeIoctl([x EXCEPT !.hup = TRUE]))))
    [] OTHER -> x
HeadPut(x, m) ==
  CASE m.kind = "data" -> WakeReader(PutQ(x, "rh", m))
    [] m.kind = "ack" -> IF ~x.ioctl \/ x.iocblk # 0 \/ m.n # x.ioctlid THEN x
                         ELSE WakeIoctl([x EXCEPT !.iocblk = m.n])
    [] m.kind = "hangup" ->
         WakeCloser(WakeReader(WakeWriter(WakeIoctl([x EXCEPT !.hup = TRUE]))))
    [] OTHER -> x
(* putnext on the read side; isdn2_wput refuses every ioctl. *)
PutUp(x, q, m) == IF Below(x, q) = "br" THEN PutQ(x, "br", m) ELSE HeadPut(x, m)
DevicePut(x, m) == IF m.kind = "data" THEN PutQ(x, "dw", m)
                   ELSE PutUp(x, "dr", [m EXCEPT !.kind = "ack"])
PutDown(x, q, m) == IF Below(x, q) = "bw" /\ m.kind = "data" THEN PutQ(x, "bw", m)
                    ELSE DevicePut(x, m)

(* M_FLUSH runs through buf_wput, isdn2_wput and back up to the head. *)
FlushDown(x, r, w) ==
  LET a == IF w /\ x.mod = "buffer" THEN Flush(x, "bw", FALSE) ELSE x
      b == IF w THEN Flush(a, "dw", FALSE) ELSE a
      c == IF r THEN Flush(b, "dr", FALSE) ELSE b
      d == IF r /\ x.mod = "buffer" THEN Flush(c, "br", FALSE) ELSE c
  IN  IF r THEN Flush(d, "rh", TRUE) ELSE d
-----------------------------------------------------------------------------
(* do_runqueues: serve the first queue of the run list. *)
RunOnce ==                        \* mutant: the queue stays marked as scheduled
  /\ g.running = NoQueue /\ g.sched # <<>>
  /\ g' = [g EXCEPT !.running = Head(g.sched), !.sched = Tail(@)]
Run == /\ g.running = NoQueue /\ g.sched # <<>>
       /\ g' = [g EXCEPT !.running = Head(g.sched), !.sched = Tail(@),
                         !.enab = @ \ {Head(g.sched)}]
Done(x) == [x EXCEPT !.running = NoQueue]
First(q) == Head(g.q[q])

ServeHeadWrite ==                 \* stream_wsrv
  /\ g.running = "wh"
  /\ LET x == IF ~g.dev THEN g ELSE IF ~CanPut(g, "wh") THEN Refused(g, "wh")
              ELSE GetQ(g, "wh")
     IN  g' = IF g.dev /\ CanPut(g, "wh") /\ g.q["wh"] # <<>>
              THEN PutDown(x, "wh", First("wh"))
              ELSE IF "wh" \in x.full THEN Done([x EXCEPT !.wantw = @ \cup {"wh"}])
              ELSE LET w == WakeWriter(Done(x))
                   IN  IF w.closer # "no" THEN WakeCloser(w) ELSE w
ServeHeadRead ==                  \* stream_rsrv: streams_read picks up the data
  g.running = "rh" /\ g' = Done(g)
(* isdn2_rsrv, buf_rsrv and buf_wsrv. *)
Forward(q) ==
  /\ g.running = q
  /\ LET x == GetQ(g, q)
         put(y) == IF q = "bw" THEN PutDown(y, q, First(q)) ELSE PutUp(y, q, First(q))
     IN  g' = IF g.q[q] = <<>> THEN Done(x)
              ELSE IF Urgent(First(q)) \/ CanPut(x, q) THEN put(x)
              ELSE Done(PutBack(Refused(x, q), q, First(q)))
TransmitDrops ==                  \* mutant: the message the card refuses is gone
  /\ g.running = "dw"
  /\ LET x == GetQ(g, "dw")
     IN  g' = IF g.q["dw"] = <<>> THEN Done(x)
              ELSE IF g.room THEN [x EXCEPT !.room = FALSE, !.sent = Append(@, First("dw").n)]
              ELSE Done(x)
Transmit ==                       \* isdn2_wsrv
  /\ g.running = "dw"
  /\ LET x == GetQ(g, "dw")
     IN  g' = IF g.q["dw"] = <<>> THEN Done(x)
              ELSE IF g.room THEN [x EXCEPT !.room = FALSE, !.sent = Append(@, First("dw").n)]
              ELSE Done(PutBackRetry(x, "dw", First("dw")))

Busy == g.written + g.received + g.lastid + g.user >= MaxWork
Fl == [g EXCEPT !.user = @ + 1]
(* Interrupts: the card has room again, calls isdn2_backenable or not;     *)
(* data arrive, unless isdn2_canrecv refuses them; the timers of qretry;   *)
(* the line is taken down. *)
CardReady == \E tell \in BOOLEAN :
  /\ g.dev /\ ~g.room
  /\ g' = IF tell THEN Enable([g EXCEPT !.room = TRUE], "dw") ELSE [g EXCEPT !.room = TRUE]
Receive ==
  /\ g.dev /\ ~Busy
  /\ g' = IF "dr" \in g.full THEN [g EXCEPT !.wantw = @ \cup {"dr"}]
          ELSE PutQ([g EXCEPT !.received = @ + 1], "dr", [kind |-> "data", n |-> g.received + 1])
Retry == \E q \in g.retry : g' = Enable([g EXCEPT !.retry = @ \ {q}], q)
Hangup == g.dev /\ ~g.hup /\ ~Busy
          /\ g' = PutUp(Fl, "dr", [kind |-> "hangup", n |-> 0])
-----------------------------------------------------------------------------
User == g.running = NoQueue /\ g.dev /\ g.closer = "no"

Write ==                          \* streams_write
  /\ User /\ g.writer \in {"idle", "woken"}
  /\ Busy => g.hup \/ "wh" \in g.full
  /\ g' = IF g.hup THEN [g EXCEPT !.writer = "idle"]
          ELSE IF "wh" \in g.full
               THEN [g EXCEPT !.writer = "sleep", !.wantw = @ \cup {"wh"}]
          ELSE PutQ([g EXCEPT !.writer = "idle", !.written = @ + 1], "wh",
                    [kind |-> "data", n |-> g.written + 1])
Read ==                           \* streams_read, one message at a time
  /\ User /\ g.reader \in {"idle", "woken"}
  /\ g' = IF g.hup THEN [g EXCEPT !.reader = "idle"]
          ELSE IF g.q["rh"] = <<>> THEN [GetQ(g, "rh") EXCEPT !.reader = "sleep"]
          ELSE [GetQ(g, "rh") EXCEPT !.reader = "idle", !.got = Append(@, First("rh").n)]
Signal ==                         \* -ERESTARTSYS
  /\ g.running = NoQueue /\ ~Busy
  /\ \/ g.writer = "sleep" /\ g' = [Fl EXCEPT !.writer = "idle"]
     \/ g.reader = "sleep" /\ g' = [Fl EXCEPT !.reader = "idle"]

(* do_ioctl: one at a time; the others wait for their turn. *)
IoctlEnd(x, p) == WakeIoctl([x EXCEPT !.io[p] = Free, !.ioctl = FALSE, !.iocblk = 0])
Ioctl(p) ==
  /\ User /\ g.io[p].at \in {"idle", "slot woken"} /\ ~g.hup
  /\ IF g.ioctl THEN g' = [g EXCEPT !.io[p].at = "slot"]
     ELSE /\ ~Busy
          /\ LET id == g.lastid + 1
             IN  g' = PutQ([g EXCEPT !.ioctl = TRUE, !.iocblk = 0, !.lastid = id,
                                     !.ioctlid = id, !.io[p] = [at |-> "wait", id |-> id]],
                           "wh", [kind |-> "ioctl", n |-> id])
IoctlGivesUp(p) ==                \* a timeout, a signal or a hangup
  /\ g.running = NoQueue
  /\ \/ g.io[p].at \in {"slot", "slot woken"} /\ g' = [g EXCEPT !.io[p] = Free]
     \/ g.io[p].at \in {"wait", "wait woken"} /\ g' = IoctlEnd(g, p)
IoctlReply(p) ==
  /\ g.running = NoQueue /\ g.io[p].at = "wait woken" /\ ~g.hup
  /\ g' = IF g.iocblk = 0 THEN [g EXCEPT !.io[p].at = "wait"]
          ELSE [IoctlEnd(g, p) EXCEPT !.reply = [own |-> g.io[p].id, got |-> g.iocblk]]

FlushBy ==                        \* I_FLUSH
  /\ User /\ ~Busy
  /\ \E r, w \in BOOLEAN : (r \/ w) /\
       g' = [FlushDown(Fl, r, w) EXCEPT !.lossyw = @ \/ w, !.lossyr = @ \/ r]
(* I_PUSH.  Its last lines look for the queue to be served again from the  *)
(* neighbour of the head's read queue, of which there is none: a queue that*)
(* waits for room in "dw" or "rh" is not told that its neighbour is another*)
(* one now. *)
Push ==
  /\ User /\ ~g.hup /\ g.mod = "none" /\ ~Busy
  /\ "blocked push" \in Rare \/ g.wantw \cap {"dw", "rh"} = {}
  /\ \E kind \in Kinds : g' = Attach(Fl, kind)
Pop ==                            \* I_POP
  /\ User /\ ~g.hup /\ g.mod # "none" /\ ~Busy
  /\ g' = [Detach(Fl, "bw") EXCEPT !.lossyw = @ \/ g.q["bw"] # <<>>,
                                   !.lossyr = @ \/ g.q["br"] # <<>>]

(* streams_close by the last process, one queue pair after the other. *)
Close ==
  /\ User /\ g.writer = "idle" /\ g.reader = "idle" /\ \A p \in Procs : g.io[p] = Free
  /\ g' = [g EXCEPT !.closer = "check", !.ioctl = FALSE]
CloseStep ==
  /\ g.running = NoQueue /\ g.dev /\ g.closer \in {"check", "woken"}
  /\ LET q == QNext(g, "wh")
     IN  g' = IF g.closer = "check" /\ g.count[q] # 0 /\ ~g.late
              THEN [g EXCEPT !.closer = "sleep"]
              ELSE [Detach(g, q) EXCEPT !.closer = "check"]
CloseTimeout == /\ g.closer = "sleep"
                /\ g' = [g EXCEPT !.closer = "woken", !.late = TRUE]
Start == [q |-> [q \in Queue |-> <<>>], count |-> [q \in Queue |-> 0], full |-> {}, wantw |-> {},
          wantr |-> Queue \ {"bw", "br"}, enab |-> {}, sched |-> <<>>, retry |-> {},
          running |-> NoQueue, mod |-> "none", dev |-> TRUE, room |-> TRUE, hup |-> FALSE,
          writer |-> "idle", reader |-> "idle", closer |-> "no", late |-> FALSE,
          io |-> [p \in Procs |-> Free], ioctl |-> FALSE, ioctlid |-> 0, iocblk |-> 0,
          lastid |-> 0, reply |-> [own |-> 0, got |-> 0], written |-> 0, received |-> 0,
          sent |-> <<>>, got |-> <<>>, lossyw |-> FALSE, lossyr |-> FALSE, user |-> 0]
CloseHead ==                      \* the head itself is flushed, unscheduled and freed
  /\ g.running = NoQueue /\ ~g.dev /\ g.closer # "no"
  /\ LET x == Unlisted(Flush(Flush(g, "wh", TRUE), "rh", TRUE), "wh")
     IN  g' = [x EXCEPT !.closer = "no", !.full = {}, !.wantw = {}, !.wantr = {}]
Open ==                           \* streams_open of a stream that is not open
  /\ g.running = NoQueue /\ ~g.dev /\ g.closer = "no"
  /\ g' = [Start EXCEPT !.lastid = g.lastid, !.user = g.user + g.written + g.received]

Service == Run \/ ServeHeadWrite \/ ServeHeadRead \/ Transmit
           \/ \E q \in {"bw", "br", "dr"} : Forward(q)
Interrupt == CardReady \/ Receive \/ Retry \/ Hangup
Process == \/ Write \/ Read \/ Signal \/ FlushBy \/ Push \/ Pop
           \/ \E p \in Procs : Ioctl(p) \/ IoctlGivesUp(p) \/ IoctlReply(p)
           \/ Close \/ CloseStep \/ CloseTimeout \/ CloseHead \/ Open
Init == \E kind \in {"none", "buffer"} :
          g = IF kind = "none" THEN Start ELSE Attach(Start, kind)
Next == Service \/ Interrupt \/ Process
Spec == Init /\ [][Next]_vars
FairSpec == /\ Spec /\ WF_vars(Service) /\ WF_vars(CardReady) /\ WF_vars(Retry)
            /\ WF_vars(Write /\ g.writer = "woken")
            /\ WF_vars(CloseStep) /\ WF_vars(CloseHead)
-----------------------------------------------------------------------------
Message == [kind : {"data", "ioctl", "ack", "hangup"}, n : Nat]
(* Flags and lists agree: a queue is marked full exactly above its high    *)
(* water mark; the run list holds each enabled queue once, and only queues *)
(* that exist. *)
TypeOK ==
  /\ \A q \in Queue : \A i \in 1 .. Len(g.q[q]) : g.q[q][i] \in Message
  /\ g.full = {q \in Queue : g.count[q] > Hiwat[q]}
  /\ g.enab = {g.sched[i] : i \in 1 .. Len(g.sched)}
  /\ Cardinality(g.enab) = Len(g.sched)
  /\ g.enab \cup g.retry \cup g.wantw \subseteq
       (IF g.dev \/ g.closer # "no" THEN {"wh", "rh"} ELSE {})
       \cup (IF g.dev THEN {"dw", "dr"} ELSE {})
       \cup (IF g.mod # "none" THEN {"bw", "br"} ELSE {})

(* No wake-up is lost between a queue that fills up and the one that drains*)
(* it: a queue that holds a message is scheduled, being served, due for a  *)
(* retry, or it has left word with a full queue further on.  It is so as   *)
(* long as no module is pushed while a queue waits for room further on: the*)
(* room is then reported to the new module, which has nothing (Push).      *)
Waiting(q) == LET n == Below(g, q) IN n \in g.wantw /\ g.count[n] > Lowat[n]
NoLostWakeup ==
  g.dev => \A q \in Queue \ {"rh"} :
    g.q[q] # <<>> => \/ q \in g.enab \cup g.retry \cup {g.running}
                     \/ q # "dw" /\ Waiting(q)

(* A process never sleeps for what is already there: a writer only while   *)
(* the head is full or about to be served, a reader only while it is empty.*)
NoSleepOver ==
  /\ g.writer = "sleep" => "wh" \in g.full \cup g.enab \cup {g.running}
  /\ g.reader = "sleep" => g.q["rh"] = <<>>

(* Data keep their order and are all there, in both directions and through *)
(* every queue, unless they were flushed: what was sent and what waits is  *)
(* what was written. *)
Numbers(s) == LET d == OfKind(s, {"data"}) IN [i \in 1 .. Len(d) |-> d[i].n]
UpTo(n) == [i \in 1 .. n |-> i]
Increasing(s) == \A i, j \in 1 .. Len(s) : i < j => s[i] < s[j]
Whole ==
  g.dev =>
    LET down == g.sent \o Numbers(g.q["dw"]) \o Numbers(g.q["bw"]) \o Numbers(g.q["wh"])
        up == g.got \o Numbers(g.q["rh"]) \o Numbers(g.q["br"]) \o Numbers(g.q["dr"])
    IN  /\ IF g.lossyw \/ g.closer # "no" THEN Increasing(down) ELSE down = UpTo(g.written)
        /\ IF g.lossyr \/ g.closer # "no" THEN Increasing(up) ELSE up = UpTo(g.received)

(* The reply an ioctl returns is its own, also when the reply to one that  *)
(* was given up arrives while the next one waits. *)
OwnReply == g.reply.own = g.reply.got

(* A writer that sleeps is woken: the head is served until it has room, as *)
(* long as the card takes data. *)
WriterWakes == (g.writer = "sleep") ~> (g.writer # "sleep")

(* What was written before the last close is sent, unless the time is up:  *)
(* streams_close waits for the data to drain. *)
CloseDrains ==
  [][g.closer # "no" /\ ~g.late /\ ~g.hup /\ g'.closer = "no"
       => g.lossyw \/ g.sent = UpTo(g.written)]_vars
=============================================================================
