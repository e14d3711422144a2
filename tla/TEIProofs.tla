------------------------------ MODULE TEIProofs -----------------------------
(***************************************************************************)
(* Theorems about TEI: types, and the use of the one timer that T201 and   *)
(* T202 share.  First what every step of tei.c does to the fields the      *)
(* invariant reads (Is), then one lemma per function of tei.c (Kept), then *)
(* the invariant and the theorems.                                         *)
(***************************************************************************)
EXTENDS TEI, TLAPS

(* Each callout is pending at most once and only under its flag, and the   *)
(* flags exclude each other.                                               *)
Callouts(c) ==
  /\ c.run201 <= 1 /\ (c.run201 > 0 => c.T201)
  /\ c.run202 <= 1 /\ (c.run202 > 0 => c.T202)
  /\ ~(c.T201 /\ c.T202)

(* No timer runs before PH_ACTIVATE and none is wanted after it.           *)
Sides(c) ==
  /\ ~c.up => ~c.T201 /\ ~c.T202
  /\ c.want => ~c.up

Good(c) == c \in Talk /\ Callouts(c) /\ Sides(c)

(* The flags say exactly which callout is pending.                         *)
Exact(c) == (c.T201 => c.run201 = 1) /\ (c.T202 => c.run202 = 1)

(* d is as it should be if c was. *)
Kept(c, d) == Good(d) /\ (d.alive <=> c.alive) /\ (Exact(c) => Exact(d))

(* The fields of d that the invariant reads. *)
Is(d, alive, up, T201, T202, want, NR, run201, run202) ==
  /\ d \in Talk /\ (d.alive <=> alive) /\ (d.up <=> up) /\ (d.T201 <=> T201)
  /\ (d.T202 <=> T202) /\ (d.want <=> want) /\ d.NR = NR /\ d.run201 = run201 /\ d.run202 = run202

LEMMA Fields ==
  ASSUME NEW c \in Talk
  PROVE  /\ c.alive \in BOOLEAN /\ c.up \in BOOLEAN /\ c.T201 \in BOOLEAN
         /\ c.T202 \in BOOLEAN /\ c.want \in BOOLEAN /\ c.NR \in 0 .. Limit
         /\ c.tei \in Values /\ c.run201 \in Nat /\ c.run202 \in Nat
         /\ c.out \in Seq(Values) /\ c.reqs \in Nat
BY DEF Talk

LEMMA LimitOK ==
  Limit \in Nat /\ N201 <= Limit /\ N202 <= Limit /\ N201 \in Nat /\ N202 \in Nat
BY RepeatAssumption DEF Limit

(* The assignments of tei.c, one lemma each. *)

LEMMA ClearT201 ==
  ASSUME NEW c \in Talk
  PROVE  Is([c EXCEPT !.T201 = FALSE, !.run201 = 0],
            c.alive, c.up, FALSE, c.T202, c.want, c.NR, 0, c.run202)
<1> DEFINE d == [c EXCEPT !.T201 = FALSE, !.run201 = 0]
<1>1. d \in Talk
  BY DEF Talk
<1>2. /\ d.alive = c.alive /\ d.up = c.up /\ d.T201 = FALSE /\ d.T202 = c.T202
      /\ d.want = c.want /\ d.NR = c.NR /\ d.run201 = 0 /\ d.run202 = c.run202
  BY DEF Talk
<1> QED BY <1>1, <1>2 DEF Is

LEMMA ClearT202 ==
  ASSUME NEW c \in Talk
  PROVE  Is([c EXCEPT !.T202 = FALSE, !.run202 = 0],
            c.alive, c.up, c.T201, FALSE, c.want, c.NR, c.run201, 0)
<1> DEFINE d == [c EXCEPT !.T202 = FALSE, !.run202 = 0]
<1>1. d \in Talk
  BY DEF Talk
<1>2. /\ d.alive = c.alive /\ d.up = c.up /\ d.T201 = c.T201 /\ d.T202 = FALSE
      /\ d.want = c.want /\ d.NR = c.NR /\ d.run201 = c.run201 /\ d.run202 = 0
  BY DEF Talk
<1> QED BY <1>1, <1>2 DEF Is

LEMMA SetT201 ==
  ASSUME NEW c \in Talk
  PROVE  Is([c EXCEPT !.T201 = TRUE, !.run201 = 1],
            c.alive, c.up, TRUE, c.T202, c.want, c.NR, 1, c.run202)
<1> DEFINE d == [c EXCEPT !.T201 = TRUE, !.run201 = 1]
<1>1. d \in Talk
  BY DEF Talk
<1>2. /\ d.alive = c.alive /\ d.up = c.up /\ d.T201 = TRUE /\ d.T202 = c.T202
      /\ d.want = c.want /\ d.NR = c.NR /\ d.run201 = 1 /\ d.run202 = c.run202
  BY DEF Talk
<1> QED BY <1>1, <1>2 DEF Is

LEMMA SetT202 ==
  ASSUME NEW c \in Talk
  PROVE  Is([c EXCEPT !.T202 = TRUE, !.want = FALSE, !.run202 = 1],
            c.alive, c.up, c.T201, TRUE, FALSE, c.NR, c.run201, 1)
<1> DEFINE d == [c EXCEPT !.T202 = TRUE, !.want = FALSE, !.run202 = 1]
<1>1. d \in Talk
  BY DEF Talk
<1>2. /\ d.alive = c.alive /\ d.up = c.up /\ d.T201 = c.T201 /\ d.T202 = TRUE
      /\ d.want = FALSE /\ d.NR = c.NR /\ d.run201 = c.run201 /\ d.run202 = 1
  BY DEF Talk
<1> QED BY <1>1, <1>2 DEF Is

LEMMA SetWant ==
  ASSUME NEW c \in Talk
  PROVE  Is([c EXCEPT !.want = TRUE],
            c.alive, c.up, c.T201, c.T202, TRUE, c.NR, c.run201, c.run202)
<1> DEFINE d == [c EXCEPT !.want = TRUE]
<1>1. d \in Talk
  BY DEF Talk
<1>2. /\ d.alive = c.alive /\ d.up = c.up /\ d.T201 = c.T201 /\ d.T202 = c.T202
      /\ d.want = TRUE /\ d.NR = c.NR /\ d.run201 = c.run201 /\ d.run202 = c.run202
  BY DEF Talk
<1> QED BY <1>1, <1>2 DEF Is

LEMMA SetUp ==
  ASSUME NEW c \in Talk, NEW b \in BOOLEAN
  PROVE  Is([c EXCEPT !.up = b],
            c.alive, b, c.T201, c.T202, c.want, c.NR, c.run201, c.run202)
<1> DEFINE d == [c EXCEPT !.up = b]
<1>1. d \in Talk
  BY DEF Talk
<1>2. /\ d.alive = c.alive /\ d.up = b /\ d.T201 = c.T201 /\ d.T202 = c.T202
      /\ d.want = c.want /\ d.NR = c.NR /\ d.run201 = c.run201 /\ d.run202 = c.run202
  BY DEF Talk
<1> QED BY <1>1, <1>2 DEF Is

LEMMA SetNR ==
  ASSUME NEW c \in Talk, NEW n \in 0 .. Limit
  PROVE  Is([c EXCEPT !.NR = n],
            c.alive, c.up, c.T201, c.T202, c.want, n, c.run201, c.run202)
<1> DEFINE d == [c EXCEPT !.NR = n]
<1>1. d \in Talk
  BY DEF Talk
<1>2. /\ d.alive = c.alive /\ d.up = c.up /\ d.T201 = c.T201 /\ d.T202 = c.T202
      /\ d.want = c.want /\ d.NR = n /\ d.run201 = c.run201 /\ d.run202 = c.run202
  BY DEF Talk
<1> QED BY <1>1, <1>2 DEF Is

LEMMA SetReqs ==
  ASSUME NEW c \in Talk, NEW n \in Nat
  PROVE  Is([c EXCEPT !.reqs = n],
            c.alive, c.up, c.T201, c.T202, c.want, c.NR, c.run201, c.run202)
<1> DEFINE d == [c EXCEPT !.reqs = n]
<1>1. d \in Talk
  BY DEF Talk
<1>2. /\ d.alive = c.alive /\ d.up = c.up /\ d.T201 = c.T201 /\ d.T202 = c.T202
      /\ d.want = c.want /\ d.NR = c.NR /\ d.run201 = c.run201 /\ d.run202 = c.run202
  BY DEF Talk
<1> QED BY <1>1, <1>2 DEF Is

LEMMA SetRun201 ==
  ASSUME NEW c \in Talk, NEW n \in Nat
  PROVE  Is([c EXCEPT !.run201 = n],
            c.alive, c.up, c.T201, c.T202, c.want, c.NR, n, c.run202)
<1> DEFINE d == [c EXCEPT !.run201 = n]
<1>1. d \in Talk
  BY DEF Talk
<1>2. /\ d.alive = c.alive /\ d.up = c.up /\ d.T201 = c.T201 /\ d.T202 = c.T202
      /\ d.want = c.want /\ d.NR = c.NR /\ d.run201 = n /\ d.run202 = c.run202
  BY DEF Talk
<1> QED BY <1>1, <1>2 DEF Is

LEMMA SetRun202 ==
  ASSUME NEW c \in Talk, NEW n \in Nat
  PROVE  Is([c EXCEPT !.run202 = n],
            c.alive, c.up, c.T201, c.T202, c.want, c.NR, c.run201, n)
<1> DEFINE d == [c EXCEPT !.run202 = n]
<1>1. d \in Talk
  BY DEF Talk
<1>2. /\ d.alive = c.alive /\ d.up = c.up /\ d.T201 = c.T201 /\ d.T202 = c.T202
      /\ d.want = c.want /\ d.NR = c.NR /\ d.run201 = c.run201 /\ d.run202 = n
  BY DEF Talk
<1> QED BY <1>1, <1>2 DEF Is

LEMMA SetAlive ==
  ASSUME NEW c \in Talk
  PROVE  Is([c EXCEPT !.alive = FALSE],
            FALSE, c.up, c.T201, c.T202, c.want, c.NR, c.run201, c.run202)
<1> DEFINE d == [c EXCEPT !.alive = FALSE]
<1>1. d \in Talk
  BY DEF Talk
<1>2. /\ d.alive = FALSE /\ d.up = c.up /\ d.T201 = c.T201 /\ d.T202 = c.T202
      /\ d.want = c.want /\ d.NR = c.NR /\ d.run201 = c.run201 /\ d.run202 = c.run202
  BY DEF Talk
<1> QED BY <1>1, <1>2 DEF Is

LEMMA SetSent ==
  ASSUME NEW c \in Talk, NEW t \in Values, NEW q \in Seq(Values)
  PROVE  Is([c EXCEPT !.tei = t, !.out = q],
            c.alive, c.up, c.T201, c.T202, c.want, c.NR, c.run201, c.run202)
<1> DEFINE d == [c EXCEPT !.tei = t, !.out = q]
<1>1. d \in Talk
  BY DEF Talk
<1>2. /\ d.alive = c.alive /\ d.up = c.up /\ d.T201 = c.T201 /\ d.T202 = c.T202
      /\ d.want = c.want /\ d.NR = c.NR /\ d.run201 = c.run201 /\ d.run202 = c.run202
  BY DEF Talk
<1> QED BY <1>1, <1>2 DEF Is

LEMMA DropT201 ==
  ASSUME NEW c \in Talk
  PROVE  Is([c EXCEPT !.T201 = FALSE],
            c.alive, c.up, FALSE, c.T202, c.want, c.NR, c.run201, c.run202)
<1> DEFINE d == [c EXCEPT !.T201 = FALSE]
<1>1. d \in Talk
  BY DEF Talk
<1>2. /\ d.alive = c.alive /\ d.up = c.up /\ d.T201 = FALSE /\ d.T202 = c.T202
      /\ d.want = c.want /\ d.NR = c.NR /\ d.run201 = c.run201 /\ d.run202 = c.run202
  BY DEF Talk
<1> QED BY <1>1, <1>2 DEF Is

LEMMA DropT202 ==
  ASSUME NEW c \in Talk
  PROVE  Is([c EXCEPT !.T202 = FALSE],
            c.alive, c.up, c.T201, FALSE, c.want, c.NR, c.run201, c.run202)
<1> DEFINE d == [c EXCEPT !.T202 = FALSE]
<1>1. d \in Talk
  BY DEF Talk
<1>2. /\ d.alive = c.alive /\ d.up = c.up /\ d.T201 = c.T201 /\ d.T202 = FALSE
      /\ d.want = c.want /\ d.NR = c.NR /\ d.run201 = c.run201 /\ d.run202 = c.run202
  BY DEF Talk
<1> QED BY <1>1, <1>2 DEF Is

LEMMA SetOut ==
  ASSUME NEW c \in Talk, NEW q \in Seq(Values), NEW n \in Nat
  PROVE  Is([c EXCEPT !.out = q, !.reqs = n],
            c.alive, c.up, c.T201, c.T202, c.want, c.NR, c.run201, c.run202)
<1> DEFINE d == [c EXCEPT !.out = q, !.reqs = n]
<1>1. d \in Talk
  BY DEF Talk
<1>2. /\ d.alive = c.alive /\ d.up = c.up /\ d.T201 = c.T201 /\ d.T202 = c.T202
      /\ d.want = c.want /\ d.NR = c.NR /\ d.run201 = c.run201 /\ d.run202 = c.run202
  BY DEF Talk
<1> QED BY <1>1, <1>2 DEF Is

(* What an update that keeps the fields of Is keeps. *)
LEMMA SameKept ==
  ASSUME NEW c, NEW d, Good(c),
         Is(d, c.alive, c.up, c.T201, c.T202, c.want, c.NR, c.run201, c.run202)
  PROVE  Kept(c, d)
BY DEF Kept, Good, Callouts, Sides, Exact, Is

LEMMA NRKept ==
  ASSUME NEW c, NEW n \in 0 .. Limit, Good(c)
  PROVE  Kept(c, [c EXCEPT !.NR = n]) /\ ([c EXCEPT !.NR = n].T202 <=> c.T202)
<1>1. Is([c EXCEPT !.NR = n], c.alive, c.up, c.T201, c.T202, c.want, n, c.run201, c.run202)
  BY SetNR DEF Good
<1> QED BY <1>1 DEF Kept, Good, Callouts, Sides, Exact, Is

LEMMA KeptTwice ==
  ASSUME NEW a, NEW b, NEW c, Kept(a, b), Kept(b, c)
  PROVE  Kept(a, c)
BY DEF Kept

LEMMA SendIdOK ==
  ASSUME NEW c \in Talk, NEW t \in Values
  PROVE  Is(SendId(c, t), c.alive, c.up, c.T201, c.T202, c.want, c.NR, c.run201, c.run202)
<1>1. Append(c.out, t) \in Seq(Values)
  BY Fields
<1>2. SendId(c, t) = [c EXCEPT !.tei = t, !.out = Append(c.out, t)]
  BY DEF SendId
<1> HIDE DEF SendId
<1> QED BY <1>1, <1>2, SetSent

LEMMA SendIdKept ==
  ASSUME NEW c, Good(c), NEW t \in Values
  PROVE  Kept(c, SendId(c, t)) /\ (SendId(c, t).T202 <=> c.T202)
<1>1. Is(SendId(c, t), c.alive, c.up, c.T201, c.T202, c.want, c.NR, c.run201, c.run202)
  BY SendIdOK DEF Good
<1> QED BY <1>1, SameKept DEF Is

LEMMA LessOK ==
  ASSUME NEW n \in Nat
  PROVE  Less(n) \in Nat /\ Less(n) <= n /\ (n <= 1 => Less(n) = 0)
BY DEF Less

LEMMA StopT201OK ==
  ASSUME NEW c \in Talk, c.run201 <= 1
  PROVE  Is(StopT201(c), c.alive, c.up, FALSE, c.T202, c.want, c.NR, 0, c.run202)
<1>1. Less(c.run201) = 0
  BY Fields, LessOK
<1>2. StopT201(c) = [c EXCEPT !.T201 = FALSE, !.run201 = 0]
  BY <1>1 DEF StopT201
<1> QED BY <1>2, ClearT201

LEMMA StopT202OK ==
  ASSUME NEW c \in Talk, c.run202 <= 1
  PROVE  Is(StopT202(c), c.alive, c.up, c.T201, FALSE, c.want, c.NR, c.run201, 0)
<1>1. Less(c.run202) = 0
  BY Fields, LessOK
<1>2. StopT202(c) = [c EXCEPT !.T202 = FALSE, !.run202 = 0]
  BY <1>1 DEF StopT202
<1> QED BY <1>2, ClearT202

LEMMA StartT201OK ==
  ASSUME NEW c \in Talk, c.run201 = 0
  PROVE  Is(StartT201(c), c.alive, c.up, TRUE, c.T202, c.want, c.NR, 1, c.run202)
<1>1. StartT201(c) = [c EXCEPT !.T201 = TRUE, !.run201 = 1]
  BY DEF StartT201
<1> QED BY <1>1, SetT201

LEMMA StartT202OK ==
  ASSUME NEW c \in Talk, c.run202 = 0
  PROVE  Is(StartT202(c), c.alive, c.up, c.T201, TRUE, FALSE, c.NR, c.run201, 1)
<1>1. StartT202(c) = [c EXCEPT !.T202 = TRUE, !.want = FALSE, !.run202 = 1]
  BY DEF StartT202
<1> QED BY <1>1, SetT202

(* StopTimer is also called between the halves of a change of up. *)
LEMMA StopTimerOK ==
  ASSUME NEW c \in Talk, Callouts(c)
  PROVE  Is(StopTimer(c), c.alive, c.up, FALSE, FALSE, c.want, c.NR, 0, 0)
<1>1. /\ c.run201 <= 1 /\ c.run202 <= 1
      /\ (~c.T201 => c.run201 = 0) /\ (~c.T202 => c.run202 = 0)
  BY Fields DEF Callouts
<1>2. CASE c.T202
  <2>1. StopTimer(c) = StopT202(c) /\ ~c.T201
    BY <1>2 DEF StopTimer, Callouts
  <2> QED BY <1>1, <2>1, StopT202OK DEF Is
<1>3. CASE ~c.T202 /\ c.T201
  <2>1. StopTimer(c) = StopT201(c)
    BY <1>3 DEF StopTimer
  <2> QED BY <1>1, <1>3, <2>1, StopT201OK DEF Is
<1>4. CASE ~c.T202 /\ ~c.T201
  <2>1. StopTimer(c) = c
    BY <1>4 DEF StopTimer
  <2> QED BY <1>1, <1>4, <2>1 DEF Is
<1> QED BY <1>2, <1>3, <1>4

LEMMA StopTimerKept ==
  ASSUME NEW c, Good(c)
  PROVE  Kept(c, StopTimer(c)) /\ ~StopTimer(c).T202
<1>1. Is(StopTimer(c), c.alive, c.up, FALSE, FALSE, c.want, c.NR, 0, 0)
  BY StopTimerOK DEF Good
<1> QED BY <1>1 DEF Kept, Good, Callouts, Sides, Exact, Is

(* tei_enquiry.  It is called only when ST_T202 is not set. *)
LEMMA EnquiryKept ==
  ASSUME NEW c, Good(c), ~c.T202
  PROVE  Kept(c, Enquiry(c))
<1>1. CASE FixedTei # Negotiated
  <2>1. FixedTei \in Values
    BY <1>1 DEF Values
  <2>2. Enquiry(c) = SendId(c, FixedTei)
    BY <1>1 DEF Enquiry
  <2> QED BY <2>1, <2>2, SendIdKept
<1>2. CASE FixedTei = Negotiated
  <2> DEFINE d == IF c.T201 THEN StopT201(c) ELSE c
             e == [d EXCEPT !.reqs = d.reqs + 1]
  <2>1. Enquiry(c) = IF e.up THEN StartT202(e) ELSE [e EXCEPT !.want = TRUE]
    BY <1>2 DEF Enquiry
  <2>2. /\ c \in Talk /\ c.run201 <= 1 /\ c.run202 = 0
        /\ (~c.T201 => c.run201 = 0)
    BY Fields DEF Good, Callouts
  <2>3. Is(d, c.alive, c.up, FALSE, FALSE, c.want, c.NR, 0, 0)
    <3>1. CASE c.T201
      BY <2>2, <3>1, StopT201OK DEF Is
    <3>2. CASE ~c.T201
      BY <2>2, <3>2 DEF Is
    <3> QED BY <3>1, <3>2
  <2> HIDE DEF d
  <2>4. Is(e, c.alive, c.up, FALSE, FALSE, c.want, c.NR, 0, 0)
    <3>1. d \in Talk /\ d.reqs + 1 \in Nat
      BY <2>3, Fields DEF Is
    <3>2. Is(e, d.alive, d.up, d.T201, d.T202, d.want, d.NR, d.run201, d.run202)
      BY <3>1, SetReqs
    <3> QED BY <2>3, <3>2 DEF Is
  <2> HIDE DEF e
  <2>5. CASE c.up
    <3>1. Enquiry(c) = StartT202(e)
      BY <2>1, <2>4, <2>5 DEF Is
    <3>2. Is(StartT202(e), c.alive, c.up, FALSE, TRUE, FALSE, c.NR, 0, 1)
      BY <2>4, StartT202OK DEF Is
    <3> HIDE DEF Enquiry
    <3> QED BY <2>5, <3>1, <3>2 DEF Kept, Good, Callouts, Sides, Exact, Is
  <2>6. CASE ~c.up
    <3>1. Enquiry(c) = [e EXCEPT !.want = TRUE]
      BY <2>1, <2>4, <2>6 DEF Is
    <3>2. Is([e EXCEPT !.want = TRUE], e.alive, e.up, e.T201, e.T202, TRUE, e.NR, e.run201, e.run202)
      BY <2>4, SetWant DEF Is
    <3>3. Is(Enquiry(c), c.alive, c.up, FALSE, FALSE, TRUE, c.NR, 0, 0)
      BY <2>4, <3>1, <3>2 DEF Is
    <3> QED BY <2>6, <3>3 DEF Kept, Good, Callouts, Sides, Exact, Is
  <2> QED BY <2>5, <2>6
<1> QED BY <1>1, <1>2

(* tei_verify *)
LEMMA VerifyKept ==
  ASSUME NEW c, Good(c)
  PROVE  Kept(c, Verify(c))
<1>1. CASE c.T201 \/ c.T202
  <2>1. Verify(c) = c
    BY <1>1 DEF Verify
  <2> QED BY <2>1 DEF Kept
<1>2. CASE ~(c.T201 \/ c.T202) /\ ~c.up
  <2>1. Verify(c) = Enquiry(c)
    BY <1>2 DEF Verify
  <2> QED BY <1>2, <2>1, EnquiryKept
<1>3. CASE ~(c.T201 \/ c.T202) /\ c.up
  <2>1. Verify(c) = StartT201(c)
    BY <1>3 DEF Verify
  <2>2. c \in Talk /\ c.run201 = 0 /\ c.run202 = 0
    BY <1>3, Fields DEF Good, Callouts
  <2>3. Is(Verify(c), c.alive, c.up, TRUE, c.T202, c.want, c.NR, 1, c.run202)
    BY <2>1, <2>2, StartT201OK
  <2> QED BY <1>3, <2>2, <2>3 DEF Kept, Good, Callouts, Sides, Exact, Is
<1> QED BY <1>1, <1>2, <1>3

(* tei_T201.  The callout was pending, so the flag is set and layer 1 is up. *)
LEMMA T201ExpiresKept ==
  ASSUME NEW c, Good(c), c.run201 > 0
  PROVE  Kept(c, T201Expires(c))
<1> DEFINE b == [c EXCEPT !.run201 = c.run201 - 1]
           d == [b EXCEPT !.T201 = FALSE]
<1>1. /\ c \in Talk /\ c.run201 = 1 /\ c.T201 /\ ~c.T202 /\ c.run202 = 0 /\ c.up
      /\ c.NR \in Nat /\ c.NR <= Limit /\ ~c.want
  BY Fields, LimitOK DEF Good, Callouts, Sides
<1>2. Broadcast \in Values
  BY DEF Values
<1>3. Is(d, c.alive, c.up, FALSE, c.T202, c.want, c.NR, 0, c.run202)
  <2>1. c.run201 - 1 = 0 /\ c.run201 - 1 \in Nat
    BY <1>1
  <2>2. Is(b, c.alive, c.up, c.T201, c.T202, c.want, c.NR, c.run201 - 1, c.run202)
    BY <1>1, <2>1, SetRun201
  <2> HIDE DEF b
  <2>3. Is(d, b.alive, b.up, FALSE, b.T202, b.want, b.NR, b.run201, b.run202)
    BY <2>2, DropT201 DEF Is
  <2> QED BY <2>1, <2>2, <2>3 DEF Is
<1>4. b.T201 /\ b.up /\ b.NR = c.NR
  BY <1>1 DEF Talk
<1>5. N201 \in Nat /\ N201 <= Limit /\ Limit \in Nat
  BY LimitOK
<1>7. Kept(c, d)
  BY <1>1, <1>3 DEF Kept, Good, Callouts, Sides, Exact, Is
<1> HIDE DEF d
<1>6. CASE c.NR >= N201
  <2>1. T201Expires(c) = Enquiry(SendId(d, Broadcast))
    BY <1>1, <1>3, <1>4, <1>5, <1>6 DEF T201Expires, T201Handler, d
  <2>2. Kept(d, SendId(d, Broadcast)) /\ ~SendId(d, Broadcast).T202
    BY <1>1, <1>2, <1>3, <1>7, SendIdKept DEF Is, Kept
  <2>3. Kept(SendId(d, Broadcast), Enquiry(SendId(d, Broadcast)))
    BY <2>2, EnquiryKept DEF Kept
  <2> QED BY <1>7, <2>1, <2>2, <2>3, KeptTwice
<1>8. CASE c.NR < N201
  <2> DEFINE e == [d EXCEPT !.NR = d.NR + 1]
  <2>1. T201Expires(c) = Verify(e)
    BY <1>1, <1>3, <1>4, <1>5, <1>8 DEF T201Expires, T201Handler, d
  <2>2. d.NR + 1 \in 0 .. Limit
    BY <1>1, <1>3, <1>5, <1>8 DEF Is
  <2>3. Kept(d, e) /\ (e.T202 <=> d.T202)
    BY <1>7, <2>2, NRKept DEF Kept
  <2> HIDE DEF e
  <2>4. Kept(e, Verify(e))
    BY <1>1, <1>3, <2>3, VerifyKept DEF Kept, Is
  <2> QED BY <1>7, <2>1, <2>3, <2>4, KeptTwice
<1> QED BY <1>1, <1>5, <1>6, <1>8

(* tei_T202.  The callout was pending, so the flag is set and layer 1 is up. *)
LEMMA T202ExpiresKept ==
  ASSUME NEW c, Good(c), c.run202 > 0
  PROVE  Kept(c, T202Expires(c))
<1> DEFINE b == [c EXCEPT !.run202 = c.run202 - 1]
           d == [b EXCEPT !.T202 = FALSE]
<1>1. /\ c \in Talk /\ c.run202 = 1 /\ c.T202 /\ ~c.T201 /\ c.run201 = 0 /\ c.up
      /\ c.NR \in Nat /\ c.NR <= Limit /\ ~c.want
  BY Fields, LimitOK DEF Good, Callouts, Sides
<1>2. Broadcast \in Values
  BY DEF Values
<1>3. Is(d, c.alive, c.up, c.T201, FALSE, c.want, c.NR, c.run201, 0)
  <2>1. c.run202 - 1 = 0 /\ c.run202 - 1 \in Nat
    BY <1>1
  <2>2. Is(b, c.alive, c.up, c.T201, c.T202, c.want, c.NR, c.run201, c.run202 - 1)
    BY <1>1, <2>1, SetRun202
  <2> HIDE DEF b
  <2>3. Is(d, b.alive, b.up, b.T201, FALSE, b.want, b.NR, b.run201, b.run202)
    BY <2>2, DropT202 DEF Is
  <2> QED BY <2>1, <2>2, <2>3 DEF Is
<1>4. b.T202 /\ b.up /\ b.NR = c.NR
  BY <1>1 DEF Talk
<1>5. N202 \in Nat /\ N202 <= Limit /\ Limit \in Nat
  BY LimitOK
<1>7. Kept(c, d)
  BY <1>1, <1>3 DEF Kept, Good, Callouts, Sides, Exact, Is
<1> HIDE DEF d
<1>6. CASE c.NR >= N202
  <2>1. T202Expires(c) = SendId(d, Broadcast)
    BY <1>1, <1>3, <1>4, <1>5, <1>6 DEF T202Expires, T202Handler, d
  <2> QED BY <1>2, <1>7, <2>1, SendIdKept, KeptTwice DEF Kept
<1>8. CASE c.NR < N202
  <2> DEFINE e == [d EXCEPT !.NR = d.NR + 1]
  <2>1. T202Expires(c) = Enquiry(e)
    BY <1>1, <1>3, <1>4, <1>5, <1>8 DEF T202Expires, T202Handler, d
  <2>2. d.NR + 1 \in 0 .. Limit
    BY <1>1, <1>3, <1>5, <1>8 DEF Is
  <2>3. Kept(d, e) /\ (e.T202 <=> d.T202)
    BY <1>7, <2>2, NRKept DEF Kept
  <2> HIDE DEF e
  <2>4. Kept(e, Enquiry(e))
    BY <1>1, <1>3, <2>3, EnquiryKept DEF Kept, Is
  <2> QED BY <1>7, <2>1, <2>3, <2>4, KeptTwice
<1> QED BY <1>1, <1>5, <1>6, <1>8

(* tei_chstate *)
LEMMA ActivatedKept ==
  ASSUME NEW c, Good(c)
  PROVE  Kept(c, Activated(c))
<1> DEFINE d == [c EXCEPT !.up = TRUE]
<1>1. Is(d, c.alive, TRUE, c.T201, c.T202, c.want, c.NR, c.run201, c.run202)
  BY SetUp DEF Good
<1>2. Activated(c) = IF d.want THEN StartT202(d) ELSE d
  BY DEF Activated
<1> HIDE DEF d
<1>3. CASE c.want
  <2>1. c \in Talk /\ ~c.T201 /\ ~c.T202 /\ c.run201 = 0 /\ c.run202 = 0
    BY <1>3, Fields DEF Good, Callouts, Sides
  <2>2. Is(StartT202(d), d.alive, d.up, d.T201, TRUE, FALSE, d.NR, d.run201, 1)
    BY <1>1, <2>1, StartT202OK DEF Is
  <2>3. Activated(c) = StartT202(d)
    BY <1>1, <1>2, <1>3 DEF Is
  <2>4. Is(Activated(c), c.alive, TRUE, FALSE, TRUE, FALSE, c.NR, 0, 1)
    BY <1>1, <2>1, <2>2, <2>3 DEF Is
  <2> QED BY <2>4 DEF Kept, Good, Callouts, Sides, Exact, Is
<1>4. CASE ~c.want
  <2>1. Activated(c) = d
    BY <1>1, <1>2, <1>4 DEF Is
  <2> QED BY <1>1, <1>4, <2>1 DEF Kept, Good, Callouts, Sides, Exact, Is
<1> QED BY <1>3, <1>4

LEMMA DeactivatedKept ==
  ASSUME NEW c, Good(c)
  PROVE  Kept(c, Deactivated(c))
<1> DEFINE b == [c EXCEPT !.up = FALSE]
           d == StopTimer(b)
<1>1. Is(b, c.alive, FALSE, c.T201, c.T202, c.want, c.NR, c.run201, c.run202)
  BY SetUp DEF Good
<1>2. Deactivated(c) = IF d.tei = Broadcast THEN Enquiry(d) ELSE d
  BY DEF Deactivated
<1> HIDE DEF b
<1>3. Callouts(b)
  BY <1>1 DEF Good, Callouts, Is
<1>4. Is(d, b.alive, b.up, FALSE, FALSE, b.want, b.NR, 0, 0)
  BY <1>1, <1>3, StopTimerOK DEF Is
<1> HIDE DEF d
<1>5. Kept(c, d) /\ ~d.T202
  BY <1>1, <1>4 DEF Kept, Good, Callouts, Sides, Exact, Is
<1>6. Kept(d, Enquiry(d))
  BY <1>5, EnquiryKept DEF Kept
<1> QED BY <1>2, <1>5, <1>6, KeptTwice

LEMMA FailedKept ==
  ASSUME NEW c, Good(c)
  PROVE  Kept(c, Failed(c))
<1>1. CASE c.up
  BY <1>1, VerifyKept DEF Failed
<1>2. CASE ~c.up
  <2>1. Failed(c) = [c EXCEPT !.want = TRUE]
    BY <1>2 DEF Failed
  <2>2. Is([c EXCEPT !.want = TRUE], c.alive, c.up, c.T201, c.T202, TRUE, c.NR, c.run201, c.run202)
    BY SetWant DEF Good
  <2> HIDE DEF Failed
  <2> QED BY <1>2, <2>1, <2>2 DEF Kept, Good, Callouts, Sides, Exact, Is
<1> QED BY <1>1, <1>2

(* PH_DISCONNECT_IND: the one place where a flag outlives its callout. *)
LEMMA DisconnectedGood ==
  ASSUME NEW c, Good(c)
  PROVE  Good(Disconnected(c)) /\ (Disconnected(c).alive <=> c.alive)
<1>1. /\ c \in Talk /\ Less(c.run201) = 0 /\ Less(c.run202) = 0
  BY Fields, LessOK DEF Good, Callouts
<1>2. CASE c.T202
  <2>1. Disconnected(c) = [c EXCEPT !.run202 = 0]
    BY <1>1, <1>2 DEF Disconnected
  <2>2. Is([c EXCEPT !.run202 = 0], c.alive, c.up, c.T201, c.T202, c.want, c.NR, c.run201, 0)
    BY <1>1, SetRun202
  <2> HIDE DEF Disconnected
  <2> QED BY <2>1, <2>2 DEF Good, Callouts, Sides, Is
<1>3. CASE ~c.T202 /\ c.T201
  <2>1. Disconnected(c) = [c EXCEPT !.run201 = 0]
    BY <1>1, <1>3 DEF Disconnected
  <2>2. Is([c EXCEPT !.run201 = 0], c.alive, c.up, c.T201, c.T202, c.want, c.NR, 0, c.run202)
    BY <1>1, SetRun201
  <2> HIDE DEF Disconnected
  <2> QED BY <2>1, <2>2 DEF Good, Callouts, Sides, Is
<1>4. CASE ~c.T202 /\ ~c.T201
  BY <1>4 DEF Disconnected
<1> QED BY <1>2, <1>3, <1>4

(* tei_recv *)
LEMMA StopT202Kept ==
  ASSUME NEW c, Good(c)
  PROVE  Kept(c, StopT202(c))
<1>1. c \in Talk /\ c.run202 <= 1
  BY DEF Good, Callouts
<1>2. Is(StopT202(c), c.alive, c.up, c.T201, FALSE, c.want, c.NR, c.run201, 0)
  BY <1>1, StopT202OK
<1> QED BY <1>2 DEF Kept, Good, Callouts, Sides, Exact, Is

LEMMA StopT201Kept ==
  ASSUME NEW c, Good(c)
  PROVE  Kept(c, StopT201(c))
<1>1. c \in Talk /\ c.run201 <= 1
  BY DEF Good, Callouts
<1>2. Is(StopT201(c), c.alive, c.up, FALSE, c.T202, c.want, c.NR, 0, c.run202)
  BY <1>1, StopT201OK
<1> QED BY <1>2 DEF Kept, Good, Callouts, Sides, Exact, Is

LEMMA KeptSelf ==
  ASSUME NEW c, Good(c)
  PROVE  Kept(c, c)
BY DEF Kept

LEMMA RecvKept ==
  ASSUME NEW c, Good(c), NEW key \in Keys, NEW t \in Values
  PROVE  Kept(c, Recv(c, key, t))
<1>1. CASE key = "IDDENY"
  <2>1. Recv(c, key, t) = Denied(c)
    BY <1>1 DEF Recv
  <2>2. Broadcast \in Values /\ (FixedTei # Negotiated => FixedTei \in Values)
    BY DEF Values
  <2>3. Kept(c, StopTimer(c)) /\ Good(StopTimer(c))
    BY StopTimerKept DEF Kept
  <2>4. CASE FixedTei # Negotiated
    <3>1. Denied(c) = SendId(StopTimer(c), FixedTei)
      BY <2>4 DEF Denied
    <3>2. Kept(StopTimer(c), SendId(StopTimer(c), FixedTei))
      BY <2>2, <2>3, <2>4, SendIdKept
    <3> QED BY <2>1, <2>3, <3>1, <3>2, KeptTwice
  <2>5. CASE FixedTei = Negotiated
    <3>1. Denied(c) = SendId(c, Broadcast)
      BY <2>5 DEF Denied
    <3> QED BY <2>1, <2>2, <3>1, SendIdKept
  <2> QED BY <2>4, <2>5
<1>2. CASE key = "IDASS"
  <2>1. Recv(c, key, t) = Assigned(c, t)
    BY <1>2 DEF Recv
  <2>2. CASE c.T202
    <3>1. Assigned(c, t) = IF c.up THEN SendId(StopT202(c), t) ELSE StopT202(c)
      BY <2>2 DEF Assigned
    <3>2. Kept(c, StopT202(c)) /\ Good(StopT202(c))
      BY StopT202Kept DEF Kept
    <3>3. Kept(StopT202(c), SendId(StopT202(c), t))
      BY <3>2, SendIdKept
    <3> QED BY <2>1, <3>1, <3>2, <3>3, KeptTwice
  <2>3. CASE ~c.T202 /\ c.T201
    BY <2>1, <2>3, StopT201Kept DEF Assigned
  <2>4. CASE ~c.T202 /\ ~c.T201
    BY <2>1, <2>4, KeptSelf DEF Assigned
  <2> QED BY <2>2, <2>3, <2>4
<1>3. CASE key = "IDCHECK_REQ"
  <2>1. Recv(c, key, t) = Checked(c, t)
    BY <1>3 DEF Recv
  <2>2. CASE t # Broadcast /\ t # c.tei
    <3>1. Checked(c, t) = [c EXCEPT !.NR = Less(c.NR)]
      BY <2>2 DEF Checked
    <3>2. Less(c.NR) \in 0 .. Limit
      BY Fields, LessOK, LimitOK DEF Good
    <3> QED BY <2>1, <3>1, <3>2, NRKept
  <2>3. CASE t \in {Broadcast, c.tei} /\ c.tei = Broadcast
    BY <2>1, <2>3, KeptSelf DEF Checked
  <2>4. CASE t \in {Broadcast, c.tei} /\ c.tei # Broadcast
    BY <2>1, <2>4, StopTimerKept DEF Checked
  <2> QED BY <2>2, <2>3, <2>4
<1>4. CASE key = "IDREMOVE"
  <2>1. Recv(c, key, t) = Removed(c, t)
    BY <1>4 DEF Recv
  <2>2. CASE t # c.tei
    BY <2>1, <2>2, KeptSelf DEF Removed
  <2>3. CASE t = c.tei
    <3>1. Removed(c, t) = SendId(StopTimer(c), Broadcast)
      BY <2>3 DEF Removed
    <3>2. Kept(c, StopTimer(c)) /\ Good(StopTimer(c))
      BY StopTimerKept DEF Kept
    <3>3. Broadcast \in Values
      BY DEF Values
    <3>4. Kept(StopTimer(c), SendId(StopTimer(c), Broadcast))
      BY <3>2, <3>3, SendIdKept
    <3> QED BY <2>1, <3>1, <3>2, <3>4, KeptTwice
  <2> QED BY <2>2, <2>3
<1> QED BY <1>1, <1>2, <1>3, <1>4 DEF Keys

(* tei_getid *)
LEMMA GetIdKept ==
  ASSUME NEW c, Good(c)
  PROVE  Kept(c, GetId(c))
<1>1. CASE c.T202
  BY <1>1, KeptSelf DEF GetId
<1>2. CASE ~c.T202
  <2> DEFINE d == [c EXCEPT !.NR = 0]
  <2>1. GetId(c) = Enquiry(d)
    BY <1>2 DEF GetId
  <2>2. 0 \in 0 .. Limit
    BY LimitOK
  <2>3. Kept(c, d) /\ (d.T202 <=> c.T202)
    BY <2>2, NRKept
  <2> HIDE DEF d
  <2>4. Kept(d, Enquiry(d))
    BY <1>2, <2>3, EnquiryKept DEF Kept
  <2> QED BY <2>1, <2>3, <2>4, KeptTwice
<1> QED BY <1>1, <1>2

LEMMA HandleKept ==
  ASSUME NEW c, Good(c), NEW m \in Message
  PROVE  /\ Good(Handle(c, m)) /\ (Handle(c, m).alive <=> c.alive)
         /\ m # <<"IND", "PH_DISCONNECT">> => Kept(c, Handle(c, m))
<1>1. CASE m = <<"TEI", Broadcast>>
  <2>1. Handle(c, m) = GetId(c)
    BY <1>1 DEF Handle, Keys
  <2> QED BY <2>1, GetIdKept DEF Kept
<1>2. CASE m \in {"IND"} \X Inds
  <2>1. PICK ind \in Inds : m = <<"IND", ind>>
    BY <1>2
  <2>2. Handle(c, m) = ChState(c, ind)
    BY <2>1 DEF Handle, Keys
  <2>3. CASE ind = "PH_ACTIVATE"
    BY <2>2, <2>3, ActivatedKept DEF ChState, Kept
  <2>4. CASE ind = "PH_DEACTIVATE"
    BY <2>2, <2>4, DeactivatedKept DEF ChState, Kept
  <2>5. CASE ind = "MDL_ERROR"
    BY <2>2, <2>5, FailedKept DEF ChState, Kept
  <2>6. CASE ind = "PH_DISCONNECT"
    BY <2>1, <2>2, <2>6, DisconnectedGood DEF ChState
  <2> QED BY <2>3, <2>4, <2>5, <2>6 DEF Inds
<1>3. CASE m \in Keys \X Values
  <2>1. PICK key \in Keys, t \in Values : m = <<key, t>>
    BY <1>3
  <2>2. Handle(c, m) = Recv(c, key, t)
    BY <2>1 DEF Handle, Keys
  <2> QED BY <2>2, RecvKept DEF Kept
<1> QED BY <1>1, <1>2, <1>3 DEF Message

-----------------------------------------------------------------------------
(* Until PH_DISCONNECT_IND comes the flags are exact. *)
Strict ==
  /\ Exact(talk)
  /\ \A i \in 1 .. Len(upq) : upq[i] # <<"IND", "PH_DISCONNECT">>

(* The inductive invariant. *)
IInv ==
  /\ TypeOK
  /\ Callouts(talk) /\ Sides(talk)
  /\ ~talk.alive => ~talk.T201 /\ ~talk.T202
  /\ Unbroken => Strict

LEMMA SettledOK ==
  ASSUME NEW c, Good(c)
  PROVE  Kept(c, Settled(c)) /\ Settled(c) = Settled(Settled(c))
<1>1. <<>> \in Seq(Values) /\ 0 \in Nat
  OBVIOUS
<1>2. Is(Settled(c), c.alive, c.up, c.T201, c.T202, c.want, c.NR, c.run201, c.run202)
  BY <1>1, SetOut DEF Good, Settled
<1>3. Settled(c) = Settled(Settled(c))
  BY DEF Settled, Good, Talk
<1> QED BY <1>2, <1>3, SameKept

(* What the end of a call in layer 3 makes of what the call returned. *)
LEMMA ReturnOK ==
  ASSUME NEW d, Good(d), IInv, Return(d)
  PROVE  /\ Kept(d, talk') /\ talk' = Settled(talk')
         /\ downq' \in Seq(Values) /\ asked' \in 0 .. MaxAsked
<1>1. Kept(d, talk') /\ talk' = Settled(talk')
  BY SettledOK DEF Return
<1>2. d.out \in Seq(Values) /\ d.reqs \in Nat
  BY Fields DEF Good
<1>3. downq' \in Seq(Values)
  BY <1>2 DEF IInv, TypeOK, Return
<1>4. asked' \in 0 .. MaxAsked
  <2>1. MaxAsked \in Nat /\ asked \in 0 .. MaxAsked
    BY EventAssumption DEF IInv, TypeOK
  <2>2. asked' = Least(asked + d.reqs, MaxAsked)
    BY DEF Return
  <2> QED BY <1>2, <2>1, <2>2 DEF Least
<1> QED BY <1>1, <1>3, <1>4

LEMMA NewTalkGood == Good(NewTalk) /\ Exact(NewTalk) /\ NewTalk.alive /\ NewTalk.reqs = 0
<1>1. <<>> \in Seq(Values) /\ 0 \in 0 .. Limit /\ Broadcast \in Values
  BY LimitOK DEF Values
<1>2. NewTalk \in Talk
  BY <1>1 DEF NewTalk, Talk
<1> QED BY <1>2 DEF NewTalk, Good, Callouts, Sides, Exact

LEMMA InitOK == Init => IInv
<1> SUFFICES ASSUME Init PROVE IInv
  OBVIOUS
<1>1. Kept(NewTalk, FirstTalk)
  BY NewTalkGood, GetIdKept, KeptSelf DEF FirstTalk
<1>2. Good(FirstTalk) /\ FirstTalk.alive /\ Exact(FirstTalk)
  BY <1>1, NewTalkGood DEF Kept
<1>3. FirstTalk.out \in Seq(Values)
  BY <1>2, Fields DEF Good
<1>4. FirstTalk.reqs \in {0, 1}
  <2>1. CASE ~Immediate
    BY <2>1, NewTalkGood DEF FirstTalk
  <2>2. CASE Immediate /\ FixedTei # Negotiated
    <3>1. FirstTalk = SendId([NewTalk EXCEPT !.NR = 0], FixedTei)
      BY <2>2 DEF FirstTalk, GetId, Enquiry, NewTalk
    <3> QED BY <3>1 DEF SendId, NewTalk
  <2>3. CASE Immediate /\ FixedTei = Negotiated
    <3> DEFINE e == [[NewTalk EXCEPT !.NR = 0] EXCEPT !.reqs = 1]
    <3>1. FirstTalk = [e EXCEPT !.want = TRUE]
      BY <2>3 DEF FirstTalk, GetId, Enquiry, NewTalk
    <3> QED BY <3>1 DEF NewTalk
  <2> QED BY <2>1, <2>2, <2>3, EventAssumption
<1>5. Kept(FirstTalk, talk) /\ talk = Settled(talk)
  BY <1>2, SettledOK DEF Init
<1>6. asked \in 0 .. MaxAsked
  BY <1>4, EventAssumption DEF Init
<1>7. TypeOK
  <2>1. talk \in Talk
    BY <1>5 DEF Kept, Good
  <2>2. upq \in Seq(Message) /\ downq \in Seq(Values)
    BY <1>3 DEF Init
  <2>3. l2 \in Values \cup {Requested} /\ l1 \in BOOLEAN
    BY DEF Init, Values
  <2>4. owned \subseteq Tei /\ events \in Happenings
    BY EventAssumption DEF Init, Happenings
  <2> QED BY <1>5, <1>6, <2>1, <2>2, <2>3, <2>4 DEF TypeOK
<1>8. Strict
  BY <1>2, <1>5 DEF Init, Strict, Kept
<1> QED BY <1>2, <1>5, <1>7, <1>8 DEF IInv, Kept, Good

(* A step that leaves talk alone, adds m to layer 3's queue and keeps the  *)
(* types keeps the invariant, unless m is PH_DISCONNECT_IND.               *)
LEMMA QueueOK ==
  ASSUME IInv, TypeOK', talk' = talk, NEW m \in Message, upq' \in {upq, Append(upq, m)},
         Unbroken' => Unbroken /\ m # <<"IND", "PH_DISCONNECT">>
  PROVE  IInv'
<1>1. Callouts(talk)' /\ Sides(talk)' /\ (~talk.alive => ~talk.T201 /\ ~talk.T202)'
  BY DEF IInv, Callouts, Sides
<1>2. ASSUME Unbroken' PROVE Strict'
  <2>1. Exact(talk)' /\ upq \in Seq(Message)
    BY <1>2 DEF IInv, Strict, Exact, TypeOK
  <2>2. \A i \in 1 .. Len(upq) : upq[i] # <<"IND", "PH_DISCONNECT">>
    BY <1>2 DEF IInv, Strict
  <2>3. CASE upq' = upq
    BY <2>1, <2>2, <2>3 DEF Strict
  <2>4. CASE upq' = Append(upq, m)
    <3>1. ASSUME NEW i \in 1 .. Len(upq')
          PROVE  upq'[i] # <<"IND", "PH_DISCONNECT">>
      <4>1. CASE i \in 1 .. Len(upq)
        <5>1. upq'[i] = upq[i]
          BY <2>1, <2>4, <4>1
        <5> QED BY <2>2, <4>1, <5>1
      <4>2. CASE i = Len(upq) + 1
        <5>1. upq'[i] = m
          BY <2>1, <2>4, <4>2
        <5> QED BY <1>2, <5>1
      <4> QED BY <2>1, <2>4, <3>1, <4>1, <4>2
    <3> QED BY <2>1, <3>1 DEF Strict
  <2> QED BY <2>3, <2>4
<1> QED BY <1>1, <1>2 DEF IInv

(* A step of layer 3 by a function that keeps talk as it should be. *)
LEMMA CallOK ==
  ASSUME IInv, NEW d, talk.alive, Good(d), d.alive <=> talk.alive, Return(d),
         UNCHANGED <<l2, l1, owned, events>>, upq' \in Seq(Message),
         Unbroken =>
           /\ Exact(d)
           /\ \A i \in 1 .. Len(upq') : upq'[i] # <<"IND", "PH_DISCONNECT">>
  PROVE  IInv'
<1>1. /\ Kept(d, talk') /\ talk' = Settled(talk')
      /\ downq' \in Seq(Values) /\ asked' \in 0 .. MaxAsked
  BY ReturnOK
<1>2. TypeOK'
  BY <1>1 DEF IInv, TypeOK, Kept, Good
<1>3. talk'.alive /\ Callouts(talk)' /\ Sides(talk)'
  BY <1>1 DEF Kept, Good, Callouts, Sides
<1>4. Unbroken' => Strict'
  BY <1>1 DEF Strict, Kept, Exact, Unbroken
<1> QED BY <1>2, <1>3, <1>4 DEF IInv

LEMMA TalkGood ==
  ASSUME IInv
  PROVE  Good(talk)
BY DEF IInv, TypeOK, Good

LEMMA Layer3Keeps ==
  ASSUME IInv, Layer3
  PROVE  IInv'
<1> DEFINE m == Head(upq)
           d == Handle(talk, m)
<1>1. upq \in Seq(Message) /\ upq # <<>> /\ upq' = Tail(upq)
  BY DEF IInv, TypeOK, Layer3
<1>2. m \in Message /\ upq' \in Seq(Message)
  BY <1>1
<1>3. /\ Good(d) /\ (d.alive <=> talk.alive)
      /\ m # <<"IND", "PH_DISCONNECT">> => Kept(talk, d)
  BY <1>2, TalkGood, HandleKept
<1>4. ASSUME Unbroken
      PROVE  /\ Exact(d)
             /\ \A i \in 1 .. Len(upq') : upq'[i] # <<"IND", "PH_DISCONNECT">>
  <2>1. \A i \in 1 .. Len(upq) : upq[i] # <<"IND", "PH_DISCONNECT">>
    BY <1>4 DEF IInv, Strict
  <2>2. m # <<"IND", "PH_DISCONNECT">>
    BY <1>1, <2>1
  <2>3. Exact(talk)
    BY <1>4 DEF IInv, Strict
  <2>4. \A i \in 1 .. Len(upq') : i + 1 \in 1 .. Len(upq) /\ upq'[i] = upq[i + 1]
    BY <1>1
  <2> HIDE DEF d, m
  <2> QED BY <1>3, <2>1, <2>2, <2>3, <2>4 DEF Kept
<1>5. talk.alive /\ Return(d) /\ UNCHANGED <<l2, l1, owned, events>>
  BY DEF Layer3
<1> HIDE DEF d
<1> QED BY <1>2, <1>3, <1>4, <1>5, CallOK

LEMMA TimerKeeps ==
  ASSUME IInv, NEW d, talk.alive, Kept(talk, d), Return(d),
         UNCHANGED <<l2, l1, upq, owned, events>>
  PROVE  IInv'
<1>1. upq' = upq /\ upq \in Seq(Message)
  BY DEF IInv, TypeOK
<1>2. Good(d) /\ (d.alive <=> talk.alive) /\ (Exact(talk) => Exact(d))
  BY DEF Kept
<1>3. Unbroken =>
        /\ Exact(talk)
        /\ \A i \in 1 .. Len(upq) : upq[i] # <<"IND", "PH_DISCONNECT">>
  BY DEF IInv, Strict
<1> QED BY <1>1, <1>2, <1>3, CallOK

(* An event is counted, and a trouble is remembered. *)
LEMMA CountOK ==
  ASSUME IInv, NEW e, NEW m, Event(e, m)
  PROVE  events' \in Happenings /\ (Unbroken' => Unbroken /\ e # "disconnect")
<1>1. events \in Happenings /\ MaxEvents \in Nat
  BY EventAssumption DEF IInv, TypeOK
<1>2. /\ events.count < MaxEvents
      /\ events' = [count |-> events.count + 1,
                    troubles |-> events.troubles \cup ({e} \cap Troubles)]
  BY DEF Event
<1>3. events' \in Happenings
  BY <1>1, <1>2 DEF Happenings
<1>4. Unbroken' => Unbroken /\ e # "disconnect"
  BY <1>2 DEF Unbroken, Troubles
<1> QED BY <1>3, <1>4

LEMMA EventOK ==
  ASSUME IInv, NEW e, NEW m \in Message, Event(e, <<m>>)
  PROVE  /\ talk' = talk /\ downq' = downq /\ events' \in Happenings
         /\ upq' = Append(upq, m) /\ upq' \in Seq(Message)
         /\ Unbroken' => Unbroken /\ e # "disconnect"
<1>1. upq \in Seq(Message)
  BY EventAssumption DEF IInv, TypeOK
<1>2. upq' = upq \o <<m>>
  BY DEF Event
<1>3. upq' = Append(upq, m) /\ upq' \in Seq(Message)
  BY <1>1, <1>2
<1> QED BY <1>3, CountOK DEF Event

(* What layer 1, layer 2 and the network do leaves talk alone. *)
LEMMA OutsideKeeps ==
  ASSUME IInv,
         \/ Layer2 \/ DSend \/ LineUp \/ LineDown \/ LineBroken
         \/ ConnectionFails \/ ManagementFails
         \/ \E t \in Tei : Assign(t) \/ Remove(t)
         \/ \E t \in Values : Check(t)
         \/ LoseRequest \/ Deny
  PROVE  IInv'
<1>1. /\ talk \in Talk /\ talk = Settled(talk) /\ l2 \in Values \cup {Requested}
      /\ l1 \in BOOLEAN /\ upq \in Seq(Message) /\ downq \in Seq(Values)
      /\ asked \in 0 .. MaxAsked /\ owned \subseteq Tei /\ events \in Happenings
      /\ MaxAsked \in Nat /\ MaxEvents \in Nat /\ Broadcast \in Values /\ Tei \subseteq Values
  BY EventAssumption DEF IInv, TypeOK, Values
<1>2. /\ <<"TEI", Broadcast>> \in Message
      /\ \A ind \in Inds : <<"IND", ind>> \in Message
      /\ \A key \in Keys, t \in Values : <<key, t>> \in Message
  BY DEF Message
<1>3. \A m \in Message : Append(upq, m) \in Seq(Message) /\ upq \o <<m>> = Append(upq, m)
  BY <1>1
<1>4. upq \o <<>> = upq
  BY <1>1
(* Each step leaves talk alone, keeps the types and queues at most one     *)
(* message, and only LineBroken queues PH_DISCONNECT_IND.                  *)
<1> DEFINE Fine == /\ TypeOK' /\ talk' = talk
                   /\ \E m \in Message :
                        /\ upq' \in {upq, Append(upq, m)}
                        /\ Unbroken' => Unbroken /\ m # <<"IND", "PH_DISCONNECT">>
<1>5. Fine => IInv'
  BY QueueOK
<1>6. CASE Layer2
  <2>1. l2' \in Values \cup {Requested} /\ downq' \in Seq(Values)
    BY <1>1, <1>6 DEF Layer2
  <2> QED BY <1>1, <1>2, <1>5, <1>6, <2>1 DEF Layer2, TypeOK, Unbroken
<1>7. CASE DSend
  BY <1>1, <1>2, <1>3, <1>5, <1>7 DEF DSend, TypeOK, Unbroken
<1>8. CASE LineUp
  <2> DEFINE m == <<"IND", "PH_ACTIVATE">>
  <2>1. m \in Message /\ m # <<"IND", "PH_DISCONNECT">>
    BY <1>2 DEF Inds
  <2>2. upq' = Append(upq, m) /\ Append(upq, m) \in Seq(Message) /\ talk' = talk
    BY <1>3, <1>8, <2>1 DEF LineUp
  <2> HIDE DEF m
  <2>3. TypeOK'
    BY <1>1, <1>8, <2>2 DEF LineUp, TypeOK
  <2>4. Unbroken' => Unbroken
    BY <1>8 DEF LineUp, Unbroken
  <2> QED BY <1>5, <2>1, <2>2, <2>3, <2>4
<1>9. CASE LineDown
  <2> DEFINE m == <<"IND", "PH_DEACTIVATE">>
  <2>1. m \in Message /\ m # <<"IND", "PH_DISCONNECT">>
    BY <1>1, <1>2 DEF Inds, Keys
  <2>2. Event("deactivate", <<m>>)
    BY <1>9 DEF LineDown
  <2> HIDE DEF m
  <2>3. /\ talk' = talk /\ downq' = downq /\ events' \in Happenings
        /\ upq' = Append(upq, m) /\ upq' \in Seq(Message)
        /\ Unbroken' => Unbroken /\ "deactivate" # "disconnect"
    BY <2>1, <2>2, EventOK
  <2>4. TypeOK'
    BY <1>1, <1>9, <2>3 DEF LineDown, TypeOK
  <2> QED BY <1>5, <2>1, <2>3, <2>4
<1>10. CASE LineBroken
  <2> DEFINE m == <<"IND", "PH_DISCONNECT">>
  <2>1. m \in Message
    BY <1>1, <1>2 DEF Inds, Keys
  <2>2. Event("disconnect", <<m>>)
    BY <1>10 DEF LineBroken
  <2> HIDE DEF m
  <2>3. /\ talk' = talk /\ downq' = downq /\ events' \in Happenings
        /\ upq' = Append(upq, m) /\ upq' \in Seq(Message)
        /\ Unbroken' => Unbroken /\ "disconnect" # "disconnect"
    BY <2>1, <2>2, EventOK
  <2>4. TypeOK'
    BY <1>1, <1>10, <2>3 DEF LineBroken, TypeOK
  <2> QED BY <1>5, <2>1, <2>3, <2>4
<1>11. CASE ConnectionFails
  <2>1. Event("l2_error", <<>>)
    BY <1>11 DEF ConnectionFails
  <2>2. events' \in Happenings /\ (Unbroken' => Unbroken)
    BY <2>1, CountOK
  <2>3. upq' = upq /\ talk' = talk /\ downq' = downq
    BY <1>4, <2>1 DEF Event
  <2>4. TypeOK'
    BY <1>1, <1>11, <2>2, <2>3 DEF ConnectionFails, TypeOK
  <2>5. \E m \in Message : m # <<"IND", "PH_DISCONNECT">>
    BY <1>2 DEF Inds
  <2> QED BY <1>5, <2>2, <2>3, <2>4, <2>5
<1>12. CASE ManagementFails
  <2> DEFINE m == <<"IND", "MDL_ERROR">>
  <2>1. m \in Message /\ m # <<"IND", "PH_DISCONNECT">>
    BY <1>1, <1>2 DEF Inds, Keys
  <2>2. Event("mdl_error", <<m>>)
    BY <1>12 DEF ManagementFails
  <2> HIDE DEF m
  <2>3. /\ talk' = talk /\ downq' = downq /\ events' \in Happenings
        /\ upq' = Append(upq, m) /\ upq' \in Seq(Message)
        /\ Unbroken' => Unbroken /\ "mdl_error" # "disconnect"
    BY <2>1, <2>2, EventOK
  <2>4. TypeOK'
    BY <1>1, <1>12, <2>3 DEF ManagementFails, TypeOK
  <2> QED BY <1>5, <2>1, <2>3, <2>4
<1>13. ASSUME NEW t \in Tei, Assign(t) PROVE IInv'
  <2>1. "IDASS" \in Keys
    BY DEF Keys
  <2> QED BY <1>1, <1>2, <1>3, <1>5, <1>13, <2>1 DEF Assign, TypeOK, Unbroken
<1>14. ASSUME NEW t \in Tei, Remove(t) PROVE IInv'
  <2> DEFINE m == <<"IDREMOVE", t>>
  <2>1. m \in Message /\ m # <<"IND", "PH_DISCONNECT">>
    BY <1>1, <1>2 DEF Inds, Keys
  <2>2. Event("remove", <<m>>)
    BY <1>14 DEF Remove
  <2> HIDE DEF m
  <2>3. /\ talk' = talk /\ downq' = downq /\ events' \in Happenings
        /\ upq' = Append(upq, m) /\ upq' \in Seq(Message)
        /\ Unbroken' => Unbroken /\ "remove" # "disconnect"
    BY <2>1, <2>2, EventOK
  <2>4. TypeOK'
    BY <1>1, <1>14, <2>3 DEF Remove, TypeOK
  <2> QED BY <1>5, <2>1, <2>3, <2>4
<1>15. ASSUME NEW t \in Values, Check(t) PROVE IInv'
  <2> DEFINE m == <<"IDCHECK_REQ", t>>
  <2>1. m \in Message /\ m # <<"IND", "PH_DISCONNECT">>
    BY <1>1, <1>2 DEF Inds, Keys
  <2>2. Event("check", <<m>>)
    BY <1>15 DEF Check
  <2> HIDE DEF m
  <2>3. /\ talk' = talk /\ downq' = downq /\ events' \in Happenings
        /\ upq' = Append(upq, m) /\ upq' \in Seq(Message)
        /\ Unbroken' => Unbroken /\ "check" # "disconnect"
    BY <2>1, <2>2, EventOK
  <2>4. TypeOK'
    BY <1>1, <1>15, <2>3 DEF Check, TypeOK
  <2> QED BY <1>5, <2>1, <2>3, <2>4
<1>16. CASE LoseRequest
  BY <1>1, <1>2, <1>5, <1>16 DEF LoseRequest, TypeOK, Unbroken
<1>17. CASE Deny
  <2> DEFINE m == <<"IDDENY", Broadcast>>
  <2>1. m \in Message /\ m # <<"IND", "PH_DISCONNECT">>
    BY <1>1, <1>2 DEF Inds, Keys
  <2>2. Event("deny", <<m>>)
    BY <1>17 DEF Deny
  <2> HIDE DEF m
  <2>3. /\ talk' = talk /\ downq' = downq /\ events' \in Happenings
        /\ upq' = Append(upq, m) /\ upq' \in Seq(Message)
        /\ Unbroken' => Unbroken /\ "deny" # "disconnect"
    BY <2>1, <2>2, EventOK
  <2>4. TypeOK'
    BY <1>1, <1>17, <2>3 DEF Deny, TypeOK
  <2> QED BY <1>5, <2>1, <2>3, <2>4
<1> QED BY <1>6, <1>7, <1>8, <1>9, <1>10, <1>11, <1>12, <1>13, <1>14, <1>15, <1>16, <1>17

(* tei_kill *)
LEMMA KillKeeps ==
  ASSUME IInv, KillTalk
  PROVE  IInv'
<1> DEFINE d == StopTimer(talk)
<1>1. Kept(talk, d)
  BY TalkGood, StopTimerKept
<1>2. Is(d, talk.alive, talk.up, FALSE, FALSE, talk.want, talk.NR, 0, 0)
  BY TalkGood, StopTimerOK DEF Good
<1>3. talk' = [d EXCEPT !.alive = FALSE]
  BY DEF KillTalk, Kill
<1>4. talk.out = <<>> /\ talk.reqs = 0
  <2>1. talk \in Talk /\ talk = Settled(talk)
    BY DEF IInv, TypeOK
  <2> QED BY <2>1 DEF Settled, Talk
<1>5. d.out = talk.out /\ d.reqs = talk.reqs
  <2>1. talk \in Talk
    BY DEF IInv, TypeOK
  <2> QED BY <2>1 DEF StopTimer, StopT201, StopT202, Talk
<1> HIDE DEF d
<1>6. Is(talk', FALSE, d.up, d.T201, d.T202, d.want, d.NR, d.run201, d.run202)
  BY <1>2, <1>3, SetAlive DEF Is
<1>7. talk' = Settled(talk')
  <2>1. talk' \in Talk /\ talk'.out = <<>> /\ talk'.reqs = 0
    BY <1>2, <1>3, <1>4, <1>5, <1>6 DEF Is, Talk
  <2> QED BY <2>1 DEF Settled, Talk
<1>8. TypeOK'
  BY <1>6, <1>7 DEF KillTalk, IInv, TypeOK, Is
<1>9. Callouts(talk)' /\ Sides(talk)' /\ Exact(talk)' /\ ~talk'.T201 /\ ~talk'.T202
  BY <1>1, <1>2, <1>6 DEF Kept, Good, Callouts, Sides, Exact, Is
<1>10. Unbroken' => Strict'
  BY <1>9 DEF KillTalk, IInv, Strict, Unbroken
<1> QED BY <1>8, <1>9, <1>10 DEF IInv

LEMMA NextKeeps ==
  ASSUME IInv, [Next]_vars
  PROVE  IInv'
<1>1. CASE Layer3
  BY <1>1, Layer3Keeps
<1>2. CASE Timer201
  <2>1. Kept(talk, T201Expires(talk))
    BY <1>2, TalkGood, T201ExpiresKept DEF Timer201
  <2> QED BY <1>2, <2>1, TimerKeeps DEF Timer201
<1>3. CASE Timer202
  <2>1. Kept(talk, T202Expires(talk))
    BY <1>3, TalkGood, T202ExpiresKept DEF Timer202
  <2> QED BY <1>3, <2>1, TimerKeeps DEF Timer202
<1>4. CASE \/ Layer2 \/ DSend \/ LineUp \/ LineDown \/ LineBroken
           \/ ConnectionFails \/ ManagementFails
           \/ \E t \in Tei : Assign(t) \/ Remove(t)
           \/ \E t \in Values : Check(t)
           \/ LoseRequest \/ Deny
  BY <1>4, OutsideKeeps
<1>5. CASE KillTalk
  BY <1>5, KillKeeps
<1>6. CASE UNCHANGED vars
  BY <1>6 DEF vars, IInv, TypeOK, Callouts, Sides, Strict, Exact, Unbroken
<1> QED BY <1>1, <1>2, <1>3, <1>4, <1>5, <1>6 DEF Next

LEMMA InvariantKept == Spec => []IInv
<1> QED BY InitOK, NextKeeps, PTL DEF Spec

-----------------------------------------------------------------------------
(* TypeOK: whatever layer 1, layer 2 and the network do, for every N201,   *)
(* N202 and set of TEIs, tei.c keeps the talk well-formed.  NR in          *)
(* particular never exceeds its limits.                                    *)
THEOREM TypesKept == Spec => []TypeOK
<1>1. IInv => TypeOK
  BY DEF IInv
<1> QED BY <1>1, InvariantKept, PTL

(* OneTimer: T201 and T202 never have two callouts pending, so the one     *)
(* handle in talk->timer is enough for untimeout.                          *)
THEOREM OneTimerKept == Spec => []OneTimer
<1>1. IInv => OneTimer
  <2> SUFFICES ASSUME IInv PROVE OneTimer
    OBVIOUS
  <2>1. talk.run201 \in Nat /\ talk.run202 \in Nat
    BY Fields DEF IInv, TypeOK
  <2> QED BY <2>1 DEF IInv, Callouts, OneTimer
<1> QED BY <1>1, InvariantKept, PTL

(* TimersMatch: as long as PH_DISCONNECT_IND does not come, ST_T201 and    *)
(* ST_T202 say exactly which callout is pending, and none is left when     *)
(* tei_kill has run.                                                       *)
THEOREM TimersMatchKept == Spec => []TimersMatch
<1>1. IInv => TimersMatch
  <2> SUFFICES ASSUME IInv PROVE TimersMatch
    OBVIOUS
  <2>1. talk.run201 \in Nat /\ talk.run202 \in Nat
    BY Fields DEF IInv, TypeOK
  <2> QED BY <2>1 DEF IInv, Callouts, Strict, Exact, TimersMatch
<1> QED BY <1>1, InvariantKept, PTL
=============================================================================
