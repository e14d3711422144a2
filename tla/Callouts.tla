------------------------------ MODULE Callouts ------------------------------
(***************************************************************************)
(* The callouts of the user-level kernel, src/support/timeout.c, and the   *)
(* loop of the ISDN daemon that waits for them (backrun in                 *)
(* isdn_4/stream.c).  The list says of each callout how much later than    *)
(* the one before it it is due; the first is meant as of the last          *)
(* scheduling (callout_schedtime), "age" ago.                              *)
(*                                                                         *)
(* callout_async is not called in this build (isdn_4/master.c:294), so     *)
(* that nothing interrupts these functions.  The clock is not set.         *)
(***************************************************************************)
EXTENDS Integers, Sequences, SequencesExt

CONSTANTS Timers,                \* pairs of function and argument
          Delays, Works,         \* lengths of timeouts, of time that passes
          MaxAge, MaxSooner      \* bounds on "age" and on what "sooner" says

VARIABLES list,                  \* callout_list: [k, c], c is c_time
          age,
          wait,                  \* callout_time
          phase,                 \* "run", "wait", "alarm": callout_alarm is next, "call", "next": in it
          due,                   \* how long each callout should still take
          sooner                 \* how much earlier it may come

vars == <<list, age, wait, phase, due, sooner>>

Pending == {list[i].k : i \in DOMAIN list}
At(k) == CHOOSE i \in DOMAIN list : list[i].k = k
Most(a, b) == IF a > b THEN a ELSE b
Least(a, b) == IF a < b THEN a ELSE b

Init ==
  /\ list = <<>> /\ age = 0 /\ wait = 0 /\ phase = "run"
  /\ due = [k \in Timers |-> 0] /\ sooner = [k \in Timers |-> 0]

(* Time passes; what is long overdue is not told apart. *)
Passed(d) ==
  /\ age' = IF list = <<>> THEN 0 ELSE age + d
  /\ age + d <= MaxAge
  /\ due' = [k \in Timers |-> IF k \in Pending THEN Most(due[k] - d, 0) ELSE 0]

SetTimeout(l) ==                 \* callout_settimeout
  IF l = <<>> THEN list' = l /\ UNCHANGED <<age, wait>>
  ELSE /\ list' = [l EXCEPT ![1].c = Most(@, 0)]
       /\ wait' = list'[1].c /\ age' = 0

(* callout_timeout: behind all that are due no later, counted from the     *)
(* last scheduling; at the head the time is counted from now on.           *)
Timeout(k, t) ==
  /\ phase \in {"run", "alarm", "call"} /\ k \notin Pending
  /\ LET sum[i \in 0 .. Len(list)] == IF i = 0 THEN 0 ELSE sum[i - 1] + list[i].c
         n == Len(SelectSeq([i \in DOMAIN list |-> sum[i]], LAMBDA s : s <= t))
         rest == [i \in 1 .. Len(list) - n |->
                    IF i = 1 THEN [list[n + 1] EXCEPT !.c = @ - (t - sum[n])] ELSE list[n + i]]
         l == SubSeq(list, 1, n) \o <<[k |-> k, c |-> t - sum[n]]>> \o rest
     IN  /\ IF n = 0 THEN SetTimeout(l) ELSE list' = l /\ UNCHANGED <<age, wait>>
         /\ due' = [due EXCEPT ![k] = t]
         /\ sooner' = [sooner EXCEPT ![k] = IF n = 0 THEN 0 ELSE age]
  /\ UNCHANGED phase

UntimeoutShort(k) ==             \* mutant: its time is not given to the next one
  /\ phase \in {"run", "alarm", "call"} /\ k \in Pending
  /\ LET l == RemoveAt(list, At(k))
     IN  IF At(k) = 1 THEN SetTimeout(l) ELSE list' = l /\ UNCHANGED <<age, wait>>
  /\ UNCHANGED <<phase, due, sooner>>
Untimeout(k) ==                  \* callout_untimeout
  /\ phase \in {"run", "alarm", "call"} /\ k \in Pending
  /\ LET i == At(k)   c == list[i].c
         l == RemoveAt(IF i < Len(list) THEN [list EXCEPT ![i + 1].c = @ + c] ELSE list, i)
     IN  IF i = 1 THEN SetTimeout(l) ELSE list' = l /\ UNCHANGED <<age, wait>>
  /\ UNCHANGED <<phase, due, sooner>>

(* The daemon works, or waits for one descriptor alone (backrun (fd)). *)
Work(d) == phase = "run" /\ Passed(d) /\ UNCHANGED <<list, wait, phase, sooner>>

(* backrun (-2): callout_adjtimeout, then select. *)
AdjTimeout ==
  /\ phase = "run" /\ list # <<>>
  /\ IF age = 0 THEN UNCHANGED <<list, age, wait>> ELSE SetTimeout([list EXCEPT ![1].c = @ - age])
  /\ phase' = "wait" /\ UNCHANGED <<due, sooner>>
Expire == phase = "wait" /\ Passed(wait) /\ phase' = "alarm" /\ UNCHANGED <<list, wait, sooner>>
Ready(d) ==                      \* something can be read first
  /\ phase = "wait" /\ d < wait /\ Passed(d)
  /\ phase' = "run" /\ UNCHANGED <<list, wait, sooner>>
Interrupt(d) ==                  \* a signal ends the wait
  /\ phase \in {"run", "wait"} /\ list # <<>>
  /\ Passed(d) /\ phase' = "alarm" /\ UNCHANGED <<list, wait, sooner>>

(* callout_alarm: the first callout is called, whether it is due or not,   *)
(* and then all that are due with it.  What is left of the list is as of   *)
(* now.                                                                    *)
Missing == IF phase = "alarm" THEN Most(list[1].c - age, 0) ELSE 0
Alarm ==
  /\ phase \in {"alarm", "next"} /\ list # <<>>
  /\ sooner' = [k \in Timers |-> IF k \in Pending THEN sooner[k] + Missing ELSE 0]
  /\ \A k \in Timers : sooner'[k] <= MaxSooner
  /\ list' = Tail(list) /\ age' = 0 /\ phase' = "call"
  /\ UNCHANGED <<wait, due>>
Again ==
  /\ phase = "call" /\ list # <<>> /\ list[1].c <= 0
  /\ phase' = "next" /\ UNCHANGED <<list, age, wait, due, sooner>>
Done ==
  /\ \/ phase = "call" /\ (list # <<>> => list[1].c > 0)
     \/ phase = "alarm" /\ list = <<>>
  /\ SetTimeout(list) /\ phase' = "run"
  /\ UNCHANGED <<due, sooner>>

Next ==
  \/ \E k \in Timers : Untimeout(k) \/ \E t \in Delays : Timeout(k, t)
  \/ \E d \in Works : Work(d) \/ Ready(d) \/ Interrupt(d)
  \/ AdjTimeout \/ Expire \/ Alarm \/ Again \/ Done

Spec == Init /\ [][Next]_vars

-----------------------------------------------------------------------------
(* A callout is not called before its time, except by what the code gives  *)
(* away: the time that had passed since the last scheduling when it was    *)
(* put behind another one (timeout.c:75 compares with times as of then),   *)
(* and what the first callout still lacked when a signal ended the wait,   *)
(* or was put first after it (isdn_4/stream.c:176-180 calls callout_alarm  *)
(* all the same).  This holds whatever is added and taken back in between, *)
(* by the callouts themselves too.                                         *)
NotEarly ==
  [][phase # "call" /\ phase' = "call" => due[list[1].k] <= sooner'[list[1].k]]_vars
=============================================================================
