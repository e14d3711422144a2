------------------------------ MODULE DataLink ------------------------------
(***************************************************************************)
(* What two x75lib entities promise their users: the state of each side's  *)
(* connection, and per direction a queue of accepted messages and the      *)
(* sequence of messages handed over.  No protocol: no frames, no sequence  *)
(* numbers, no timers.                                                     *)
(***************************************************************************)
EXTENDS Naturals, Sequences

CONSTANT Side       \* the two users

VARIABLES
  link,    \* per side: the state of its connection
  queue,   \* per side: messages accepted from its user, not yet confirmed
  last,    \* per side: number of the last message its user sent
  got,     \* per side: messages handed to its user
  kept     \* per side: messages left over from connections that failed

vars == <<link, queue, last, got, kept>>

LinkStates == {"down", "opening", "up", "closing"}
(* The ways a side's connection can change. *)
Changes ==
  {<<"down", "opening">>, <<"down", "up">>, <<"opening", "up">>, <<"opening", "down">>,
   <<"up", "opening">>, <<"up", "closing">>, <<"up", "down">>,
   <<"closing", "down">>, <<"closing", "opening">>}

Peer(s) == CHOOSE r \in Side : r # s
Waiting(s) == {queue[s][i] : i \in 1 .. Len(queue[s])}
Delivered(s) == {got[s][i] : i \in 1 .. Len(got[s])}
LastGot(s) == IF got[s] = <<>> THEN 0 ELSE got[s][Len(got[s])]

Init ==
  /\ link = [s \in Side |-> "down"]
  /\ queue = [s \in Side |-> <<>>]
  /\ last = [s \in Side |-> 0]
  /\ got = [s \in Side |-> <<>>]
  /\ kept = [s \in Side |-> {}]

Accept(s) ==
  /\ last' = [last EXCEPT ![s] = @ + 1]
  /\ queue' = [queue EXCEPT ![s] = Append(@, last[s] + 1)]
  /\ UNCHANGED <<link, got, kept>>

(* Over an established connection the peer's next message is handed over,  *)
(* never one that is not later than the last, unless it is left over from  *)
(* a connection of the peer's that failed.                                 *)
HandOver(s) ==
  /\ link[s] = "up"
  /\ \E m \in (LastGot(s) + 1 .. last[Peer(s)]) \cup kept[Peer(s)] :
       got' = [got EXCEPT ![s] = Append(@, m)]

(* Messages leave the queue because the peer's user has them... *)
Confirm(s) ==
  /\ link[s] = "up"
  /\ \E n \in 1 .. Len(queue[s]) :
       /\ \A i \in 1 .. n : queue[s][i] \in Delivered(Peer(s))
       /\ queue' = [queue EXCEPT ![s] = SubSeq(@, n + 1, Len(@))]

(* ... or all at once, when the connection is set up, reset or cleared.    *)
(* Otherwise they stay, even when the connection fails.                    *)
Discard(s) == queue' = [queue EXCEPT ![s] = <<>>]
Change(s) == \E x \in LinkStates :
  <<link[s], x>> \in Changes /\ link' = [link EXCEPT ![s] = x]
Reset(s) == Discard(s) /\ (Change(s) \/ (link[s] = "up" /\ UNCHANGED link))

Receive(s) ==
  /\ HandOver(s) \/ UNCHANGED got
  /\ Confirm(s) \/ UNCHANGED queue
  /\ Change(s) \/ UNCHANGED link
  /\ kept' = [kept EXCEPT ![s] =
                IF link[s] = "up" /\ link'[s] = "down" THEN @ \cup Waiting(s)' ELSE @]
  /\ UNCHANGED last

Clear(s) == Reset(s) /\ UNCHANGED <<got, last, kept>>

Next == \E s \in Side : Accept(s) \/ Receive(s) \/ Clear(s)

Spec == Init /\ [][Next]_vars
=============================================================================
