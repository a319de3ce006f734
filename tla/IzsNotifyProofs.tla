-------------------------- MODULE IzsNotifyProofs --------------------------
(***************************************************************************)
(* Theorems about IzsNotify, for any size of the queue, any number of      *)
(* events and resets, with and without refusals: its invariants hold.      *)
(***************************************************************************)
EXTENDS IzsNotify, FiniteSetTheorems, SequenceTheorems, TLAPS

Sender == [queue : Seq(Events), busy : BOOLEAN, retries : 0 .. MaxCount,
           buf : Events \cup {0}, asked : BOOLEAN, air : Seq(Events \cup {0}),
           calls : Seq(ZoneCalls), dropped : SUBSET Events]

(* What holds of a sender s with t alarms, while h is what the CIE heard   *)
(* last, a what it acknowledged, n the number of events.                   *)
Sized(s) == s \in Sender /\ Len(s.queue) <= QueueSize /\ Len(s.calls) <= MaxCalls
Working(s, t) == s.busy => s.queue # <<>> /\ Pending(s, t) > 0
Single(s, t) ==
    /\ Pending(s, t) = IF s.busy THEN 1 ELSE 0
    /\ s.busy => s.buf = Head(s.queue) /\ Range(s.air) \subseteq {Head(s.queue)}
Kept(s, a, n) == \A e \in 1 .. n : e \in a \cup s.dropped \cup Range(s.queue)
Newest(s, h, n) ==
    IF s.queue = <<>> THEN h = n \/ n \in s.dropped ELSE s.queue[Len(s.queue)] = n
Guarded(s) == "guard" \in Range(s.calls)

(* A sensor that knows the CIE is enrolled or has asked to be, so that     *)
(* izs_send_notification never asks.                                       *)
Asked == (enrolled => cie) /\ (cie => enrolled \/ ntf.asked)

Scalars ==
    /\ retryAlarms \in Nat
    /\ enrolled \in BOOLEAN /\ cie \in BOOLEAN /\ guarding \in BOOLEAN
    /\ events \in 0 .. MaxEvents /\ resets \in 0 .. MaxResets
    /\ heard \in 0 .. MaxEvents /\ acked \subseteq 0 .. MaxEvents /\ hit \in BOOLEAN
Attended == enrolled => ntf.queue = <<>> \/ ntf.busy \/ Guarded(ntf)
Untouched ==
    ~ hit => Single(ntf, retryAlarms) /\ Kept(ntf, acked, events) /\ Newest(ntf, heard, events)

IzsInv ==
    Sized(ntf) /\ Scalars /\ Asked /\ Working(ntf, retryAlarms) /\ Attended /\ Untouched

-----------------------------------------------------------------------------
(* The retries among the callbacks are counted.                            *)
LEMMA Counted ==
  ASSUME NEW c \in Seq(ZoneCalls)
  PROVE  /\ Resends(c) \in Nat
         /\ IsFiniteSet({j \in 1 .. Len(c) : c[j] = "resend"})
<1>1. IsFiniteSet(1 .. Len(c))
  BY FS_Interval
<1>2. {j \in 1 .. Len(c) : c[j] = "resend"} \in SUBSET (1 .. Len(c))
  OBVIOUS
<1>3. IsFiniteSet({j \in 1 .. Len(c) : c[j] = "resend"})
  BY <1>1, <1>2, FS_Subset
<1> QED BY <1>3, FS_CardinalityType DEF Resends

LEMMA CountedIn ==
  ASSUME NEW c \in Seq(ZoneCalls), NEW f \in ZoneCalls
  PROVE  Resends(Append(c, f)) = Resends(c) + IF f = "resend" THEN 1 ELSE 0
<1> DEFINE R(s) == {j \in 1 .. Len(s) : s[j] = "resend"}
           n == Len(c) + 1
<1>1. Len(Append(c, f)) = n /\ Append(c, f)[n] = f /\ \A j \in 1 .. Len(c) : Append(c, f)[j] = c[j]
  OBVIOUS
<1>2. CASE f = "resend"
  <2>1. R(Append(c, f)) = R(c) \cup {n} /\ n \notin R(c)
    BY <1>1, <1>2
  <2> QED BY <1>2, <2>1, Counted, FS_AddElement DEF Resends
<1>3. CASE f # "resend"
  <2>1. R(Append(c, f)) = R(c)
    BY <1>1, <1>3
  <2>2. Resends(Append(c, f)) = Resends(c) /\ Resends(c) \in Nat
    BY <2>1, Counted DEF Resends
  <2> QED BY <1>3, <2>2
<1> QED BY <1>2, <1>3

LEMMA CountedOut ==
  ASSUME NEW c \in Seq(ZoneCalls), c # <<>>
  PROVE  Resends(c) = Resends(Tail(c)) + IF Head(c) = "resend" THEN 1 ELSE 0
<1> DEFINE R(s) == {j \in 1 .. Len(s) : s[j] = "resend"}
           g == [j \in R(Tail(c)) |-> j + 1]
<1>1. /\ Tail(c) \in Seq(ZoneCalls) /\ Len(c) \in Nat \ {0} /\ Len(Tail(c)) = Len(c) - 1
      /\ Head(c) = c[1] /\ \A j \in 1 .. Len(c) - 1 : Tail(c)[j] = c[j + 1]
  OBVIOUS
<1>2. g \in Bijection(R(Tail(c)), R(c) \ {1})
  <2>1. g \in [R(Tail(c)) -> R(c) \ {1}]
    BY <1>1
  <2>2. \A i, j \in R(Tail(c)) : g[i] = g[j] => i = j
    BY <1>1
  <2>3. ASSUME NEW k \in R(c) \ {1} PROVE \E j \in R(Tail(c)) : g[j] = k
    <3>1. k - 1 \in R(Tail(c)) /\ (k - 1) + 1 = k
      BY <1>1
    <3>2. g[k - 1] = (k - 1) + 1
      BY <3>1
    <3> QED BY <3>1, <3>2
  <2> QED BY <2>1, <2>2, <2>3 DEF Bijection, Injection, Surjection, IsInjective
<1>3. Cardinality(R(c) \ {1}) = Cardinality(R(Tail(c)))
  <2>1. IsFiniteSet(R(Tail(c))) /\ ExistsBijection(R(Tail(c)), R(c) \ {1})
    BY <1>1, <1>2, Counted DEF ExistsBijection
  <2> HIDE DEF R
  <2> QED BY <2>1, FS_Bijection
<1>4. Cardinality(R(c) \ {1}) = IF 1 \in R(c) THEN Cardinality(R(c)) - 1 ELSE Cardinality(R(c))
  <2>1. IsFiniteSet(R(c))
    BY Counted
  <2> HIDE DEF R
  <2> QED BY <2>1, FS_RemoveElement
<1>5. 1 \in R(c) <=> Head(c) = "resend"
  BY <1>1
<1>6. Resends(c) \in Nat /\ Resends(Tail(c)) \in Nat
  BY <1>1, Counted
<1>7. Resends(c) = Cardinality(R(c)) /\ Resends(Tail(c)) = Cardinality(R(Tail(c)))
  BY DEF Resends
<1> HIDE DEF R
<1> QED BY <1>3, <1>4, <1>5, <1>6, <1>7

(* A packet leaves the air.                                                *)
LEMMA Removed ==
  ASSUME NEW S, NEW a \in Seq(S), NEW i \in 1 .. Len(a)
  PROVE  /\ RemoveAt(a, i) \in Seq(S)
         /\ Len(RemoveAt(a, i)) = Len(a) - 1
         /\ Range(RemoveAt(a, i)) \subseteq Range(a)
<1> DEFINE x == SubSeq(a, 1, i - 1)
           y == SubSeq(a, i + 1, Len(a))
<1>1. /\ x \in Seq(S) /\ Len(x) = i - 1 /\ \A j \in 1 .. i - 1 : x[j] = a[j]
      /\ y \in Seq(S) /\ Len(y) = Len(a) - i /\ \A j \in 1 .. Len(a) - i : y[j] = a[i + j]
  OBVIOUS
<1>2. Range(x) \subseteq Range(a) /\ Range(y) \subseteq Range(a)
  BY <1>1 DEF Range
<1> HIDE DEF x, y
<1>3. x \o y \in Seq(S) /\ Len(x \o y) = Len(x) + Len(y)
  BY <1>1, ConcatProperties
<1>4. Range(x \o y) = Range(x) \cup Range(y)
  BY <1>1, RangeConcatenation
<1>5. RemoveAt(a, i) = x \o y
  BY DEF RemoveAt, x, y
<1>6. Len(x) + Len(y) = Len(a) - 1
  BY <1>1
<1> QED BY <1>2, <1>3, <1>4, <1>5, <1>6

LEMMA Ranges ==
  ASSUME NEW S, NEW q \in Seq(S)
  PROVE  /\ \A j \in 1 .. Len(q) : q[j] \in Range(q)
         /\ \A x \in Range(q) : \E j \in 1 .. Len(q) : x = q[j]
         /\ \A x \in S : Range(Append(q, x)) = Range(q) \cup {x}
<1>1. Len(q) \in Nat /\ \A x \in S : /\ Len(Append(q, x)) = Len(q) + 1
                                     /\ Append(q, x)[Len(q) + 1] = x
                                     /\ Append(q, x) \in Seq(S)
                                     /\ \A j \in 1 .. Len(q) : Append(q, x)[j] = q[j]
  OBVIOUS
<1>2. Range(q) = {q[j] : j \in 1 .. Len(q)}
  BY RangeEquality
<1>3. ASSUME NEW x \in S PROVE Range(Append(q, x)) = Range(q) \cup {x}
  <2>1. Range(Append(q, x)) = {Append(q, x)[j] : j \in 1 .. Len(q) + 1}
    <3>1. Append(q, x) \in Seq(S)
      BY <1>1
    <3>2. Range(Append(q, x)) = {Append(q, x)[j] : j \in 1 .. Len(Append(q, x))}
      BY <3>1, RangeEquality
    <3> QED BY <1>1, <3>2
  <2>2. \A y \in Range(q) \cup {x} : \E j \in 1 .. Len(q) + 1 : y = Append(q, x)[j]
    BY <1>1, <1>2
  <2>3. \A j \in 1 .. Len(q) + 1 : Append(q, x)[j] \in Range(q) \cup {x}
    BY <1>1, <1>2
  <2> QED BY <2>1, <2>2, <2>3
<1> QED BY <1>2, <1>3

-----------------------------------------------------------------------------
(* izs_send_notification.                                                  *)
LEMMA Transmitted ==
  ASSUME NEW s, Sized(s), ~ s.busy, NEW k \in 0 .. Len(s.queue)
  PROVE  LET u == Transmit(s, k)
         IN  /\ Sized(u) /\ u.asked = s.asked /\ u.calls = s.calls
             /\ u.busy \/ u.queue = <<>>
             /\ \A t \in Nat : Working(u, t) /\ (Single(s, t) => Single(u, t))
             /\ \A n \in Nat : /\ \A a : Kept(s, a, n) => Kept(u, a, n)
                               /\ \A h : Newest(s, h, n) => Newest(u, h, n)
<1> DEFINE q == SubSeq(s.queue, k + 1, Len(s.queue))
           gone == {s.queue[j] : j \in 1 .. k}
           u == Transmit(s, k)
<1>1. s \in Sender /\ s.queue \in Seq(Events) /\ s.air \in Seq(Events \cup {0})
  BY DEF Sized, Sender
<1>2. /\ q \in Seq(Events) /\ Len(q) = Len(s.queue) - k
      /\ \A j \in 1 .. Len(q) : q[j] = s.queue[k + j]
      /\ q = <<>> <=> k = Len(s.queue)
      /\ Len(s.queue) \in Nat /\ k \in Nat /\ Len(q) <= QueueSize
  <2>1. Len(s.queue) \in Nat /\ k \in Nat /\ Len(s.queue) <= QueueSize
    BY <1>1 DEF Sized
  <2>2. \A i \in k + 1 .. Len(s.queue) : s.queue[i] \in Events
    BY <1>1, <2>1
  <2>3. /\ q \in Seq(Events)
        /\ Len(q) = IF k + 1 <= Len(s.queue) THEN Len(s.queue) - (k + 1) + 1 ELSE 0
        /\ \A j \in 1 .. Len(s.queue) - (k + 1) + 1 : q[j] = s.queue[(k + 1) + j - 1]
    BY <2>1, <2>2, SubSeqProperties
  <2> HIDE DEF q
  <2>4. Len(q) = Len(s.queue) - k
    BY <2>1, <2>3
  <2>5. ASSUME NEW j \in 1 .. Len(q) PROVE q[j] = s.queue[k + j]
    <3>1. j \in 1 .. Len(s.queue) - (k + 1) + 1 /\ (k + 1) + j - 1 = k + j
      BY <2>1, <2>4
    <3> QED BY <2>3, <3>1
  <2>6. q = <<>> <=> Len(q) = 0
    BY <2>3
  <2>7. q = <<>> <=> k = Len(s.queue)
    BY <2>1, <2>4, <2>6
  <2>8. Len(q) <= QueueSize
    BY <2>1, <2>4, IzsNotifyAssumption
  <2> QED BY <2>1, <2>3, <2>4, <2>5, <2>7, <2>8
<1>3. gone \subseteq Events
  BY <1>1
<1>4. Range(s.queue) \subseteq Range(q) \cup gone
  <2> SUFFICES ASSUME NEW j \in 1 .. Len(s.queue) PROVE s.queue[j] \in Range(q) \cup gone
    <3> HIDE DEF q, gone
    <3>1. \A x \in Range(s.queue) : \E j \in 1 .. Len(s.queue) : x = s.queue[j]
      BY <1>1, Ranges
    <3> QED BY <3>1
  <2>1. CASE j \in 1 .. k
    BY <2>1
  <2>2. CASE j \notin 1 .. k
    <3>1. j - k \in 1 .. Len(q) /\ k + (j - k) = j
      BY <1>2, <2>2
    <3>2. q[j - k] = s.queue[j]
      BY <1>2, <3>1
    <3> QED BY <1>2, <3>1, <3>2, Ranges
  <2> QED BY <2>1, <2>2
<1>5. q # <<>> => Len(q) # 0 /\ q[Len(q)] = s.queue[Len(s.queue)] /\ Head(q) \in Events
  <2> SUFFICES ASSUME q # <<>>
               PROVE  Len(q) # 0 /\ q[Len(q)] = s.queue[Len(s.queue)] /\ Head(q) \in Events
    OBVIOUS
  <2> HIDE DEF q
  <2>1. Len(q) \in Nat \ {0} /\ Head(q) = q[1] /\ Head(q) \in Events
    BY <1>2
  <2>2. Len(q) \in 1 .. Len(q) /\ k + Len(q) = Len(s.queue)
    BY <1>2, <2>1
  <2> QED BY <1>2, <2>1, <2>2
<1>6. q = <<>> => s.queue = <<>> \/ s.queue[Len(s.queue)] \in gone
  BY <1>1, <1>2
<1> HIDE DEF q, gone
<1>7. CASE q = <<>>
  <2>1. u = [[s EXCEPT !.queue = q] EXCEPT !.dropped = s.dropped \cup gone]
    BY <1>1, <1>7 DEF Transmit, q, gone, Sender
  <2>2. /\ u \in Sender /\ u.queue = q /\ u.dropped = s.dropped \cup gone /\ u.air = s.air
        /\ u.calls = s.calls /\ u.asked = s.asked /\ u.busy = s.busy /\ u.buf = s.buf
    BY <1>1, <1>2, <1>3, <2>1 DEF Sender
  <2> HIDE DEF u
  <2>3. Sized(u)
    BY <1>2, <2>2 DEF Sized, Sender
  <2>4. \A t \in Nat : Working(u, t) /\ (Single(s, t) => Single(u, t))
    BY <2>2 DEF Working, Single, Pending
  <2>5. \A n \in Nat : \A a : Kept(s, a, n) => Kept(u, a, n)
    BY <1>4, <2>2 DEF Kept
  <2>6. \A n \in Nat : \A h : Newest(s, h, n) => Newest(u, h, n)
    BY <1>6, <1>7, <2>2 DEF Newest
  <2> QED BY <1>7, <2>2, <2>3, <2>4, <2>5, <2>6 DEF u
<1>8. CASE q # <<>>
  <2>1. u = [s EXCEPT !.queue = q, !.dropped = s.dropped \cup gone, !.busy = TRUE, !.retries = 0,
                      !.buf = Head(q), !.air = Append(s.air, Head(q))]
    BY <1>1, <1>8 DEF Transmit, q, gone, Sender
  <2>2. /\ u \in Sender /\ u.queue = q /\ u.dropped = s.dropped \cup gone
        /\ u.air = Append(s.air, Head(q)) /\ u.calls = s.calls /\ u.asked = s.asked
        /\ u.busy = TRUE /\ u.buf = Head(q)
    <3> DEFINE v == [s EXCEPT !.queue = q, !.dropped = s.dropped \cup gone, !.busy = TRUE]
               air == Append(s.air, Head(q))
    <3>1. /\ v \in Sender /\ v.queue = q /\ v.dropped = s.dropped \cup gone /\ v.busy = TRUE
          /\ v.calls = s.calls /\ v.asked = s.asked
      BY <1>1, <1>2, <1>3 DEF Sender
    <3>2. air \in Seq(Events \cup {0}) /\ Head(q) \in Events \cup {0} /\ 0 \in 0 .. MaxCount
      BY <1>1, <1>5, <1>8, IzsNotifyAssumption
    <3>3. u = [v EXCEPT !.retries = 0, !.buf = Head(q), !.air = air]
      BY <2>1
    <3> HIDE DEF v, air, u
    <3>4. /\ u \in Sender /\ u.queue = v.queue /\ u.dropped = v.dropped /\ u.air = air
          /\ u.calls = v.calls /\ u.asked = v.asked /\ u.busy = v.busy /\ u.buf = Head(q)
      BY <3>1, <3>2, <3>3 DEF Sender
    <3> QED BY <3>1, <3>4 DEF air
  <2> HIDE DEF u
  <2>3. Sized(u)
    BY <1>2, <2>2 DEF Sized, Sender
  <2>4. Len(u.air) = Len(s.air) + 1 /\ Len(s.air) \in Nat /\ Resends(s.calls) \in Nat
    <3>1. s.calls \in Seq(ZoneCalls) /\ Head(q) \in Events \cup {0}
      BY <1>1, <1>5, <1>8 DEF Sender
    <3>2. Len(Append(s.air, Head(q))) = Len(s.air) + 1 /\ Len(s.air) \in Nat
      BY <1>1, <3>1, AppendProperties
    <3>3. Resends(s.calls) \in Nat
      BY <3>1, Counted
    <3> QED BY <2>2, <3>2, <3>3
  <2>5. ASSUME NEW t \in Nat PROVE Working(u, t) /\ (Single(s, t) => Single(u, t))
    <3>1. Pending(u, t) = Pending(s, t) + 1 /\ Pending(u, t) > 0
      <4>1. Len(u.air) = Len(s.air) + 1 /\ Resends(u.calls) = Resends(s.calls)
        BY <2>2, <2>4
      <4>2. \A a, c \in Nat : (a + 1) + t + c = (a + t + c) + 1 /\ (a + 1) + t + c > 0
        OBVIOUS
      <4> QED BY <2>4, <4>1, <4>2 DEF Pending
    <3>2. ASSUME Single(s, t) PROVE Range(u.air) = {Head(q)}
      <4>1. Len(s.air) = 0
        BY <2>4, <3>2 DEF Single, Pending
      <4>2. Range(s.air) = {}
        BY <1>1, <4>1, Ranges
      <4> QED BY <1>1, <1>5, <1>8, <2>2, <4>2, Ranges
    <3> QED BY <1>8, <2>2, <3>1, <3>2 DEF Working, Single
  <2>6. \A n \in Nat : \A a : Kept(s, a, n) => Kept(u, a, n)
    BY <1>4, <2>2 DEF Kept
  <2>7. \A n \in Nat : \A h : Newest(s, h, n) => Newest(u, h, n)
    BY <1>2, <1>5, <1>8, <2>2 DEF Newest
  <2> QED BY <2>2, <2>3, <2>5, <2>6, <2>7 DEF u
<1> QED BY <1>7, <1>8

LEMMA Sends ==
  ASSUME NEW s, Sized(s), NEW u \in Send(s), enrolled => cie, cie => enrolled \/ s.asked
  PROVE  /\ Sized(u) /\ u.asked = s.asked /\ u.calls = s.calls
         /\ enrolled => u.busy \/ u.queue = <<>>
         /\ \A t \in Nat : (Working(s, t) => Working(u, t)) /\ (Single(s, t) => Single(u, t))
         /\ \A n \in Nat : /\ \A a : Kept(s, a, n) => Kept(u, a, n)
                           /\ \A h : Newest(s, h, n) => Newest(u, h, n)
<1>1. \/ u = s /\ (enrolled => s.busy)
      \/ ~ s.busy /\ \E k \in 0 .. Len(s.queue) : u = Transmit(s, k)
  <2>1. \A k \in Refused(s.queue) : k \in 0 .. Len(s.queue)
    BY DEF Sized, Sender, Refused
  <2> QED BY <2>1 DEF Send
<1> QED BY <1>1, Transmitted

-----------------------------------------------------------------------------
(* The other writes.                                                       *)
LEMMA Put ==
  ASSUME NEW q \in Seq(Events), Len(q) <= QueueSize, NEW e \in Events
  PROVE  LET r == QueuePut(q, e)
         IN  /\ r \in Seq(Events) /\ Len(r) <= QueueSize /\ r # <<>> /\ r[Len(r)] = e
             /\ Range(q) \cup {e} \subseteq Range(r) \cup Overwritten(q)
             /\ Overwritten(q) \subseteq Events
             /\ q # <<>> => Head(r) = Head(q)
<1>1. CASE Len(q) < QueueSize
  <2>1. QueuePut(q, e) = Append(q, e) /\ Overwritten(q) = {}
    BY <1>1 DEF QueuePut, Overwritten
  <2>2. Range(Append(q, e)) = Range(q) \cup {e}
    BY Ranges
  <2>3. /\ Append(q, e) \in Seq(Events) /\ Len(Append(q, e)) = Len(q) + 1 /\ Len(q) \in Nat
        /\ Append(q, e) # <<>> /\ Append(q, e)[Len(q) + 1] = e
        /\ q # <<>> => Head(Append(q, e)) = Head(q)
    BY AppendProperties, HeadTailAppend
  <2> QED BY <1>1, <2>1, <2>2, <2>3, IzsNotifyAssumption
<1>2. CASE ~ (Len(q) < QueueSize)
  <2> DEFINE n == Len(q)
             r == [q EXCEPT ![n] = e]
  <2>1. n = QueueSize /\ n \in Nat /\ n >= 2 /\ n \in 1 .. n /\ 1 \in 1 .. n /\ n # 1
    <3>1. n \in Nat /\ n <= QueueSize
      BY LenProperties
    <3>2. n = QueueSize
      BY <1>2, <3>1, IzsNotifyAssumption
    <3>3. QueueSize \in 1 .. QueueSize /\ 1 \in 1 .. QueueSize /\ QueueSize # 1
      BY IzsNotifyAssumption
    <3> QED BY <3>1, <3>2, <3>3, IzsNotifyAssumption
  <2>2. QueuePut(q, e) = r /\ Overwritten(q) = {q[n]}
    BY <1>2 DEF QueuePut, Overwritten
  <2>3. /\ r \in Seq(Events) /\ Len(r) = n
        /\ \A j \in 1 .. n : r[j] = IF j = n THEN e ELSE q[j]
    BY <2>1, ExceptSeq
  <2>4. q[n] \in Events /\ q # <<>> /\ Head(q) = q[1]
    BY <2>1
  <2> HIDE DEF r
  <2>5. r # <<>> /\ Head(r) = r[1]
    BY <2>1, <2>3
  <2>6. e \in Range(r) /\ \A j \in 1 .. n : q[j] \in Range(r) \cup {q[n]}
    <3>1. \A j \in 1 .. n : r[j] \in Range(r)
      BY <2>3, Ranges
    <3> QED BY <2>1, <2>3, <3>1
  <2>7. Range(q) \subseteq Range(r) \cup {q[n]}
    BY <2>6, Ranges
  <2> QED BY <2>1, <2>2, <2>3, <2>4, <2>5, <2>6, <2>7
<1> QED BY <1>1, <1>2

LEMMA Resent ==
  ASSUME NEW s, Sized(s)
  PROVE  LET u == Resend(s)
         IN  /\ Sized(u) /\ u.queue = s.queue /\ u.busy = s.busy /\ u.buf = s.buf
             /\ u.asked = s.asked /\ u.calls = s.calls /\ u.dropped = s.dropped
             /\ s.queue = <<>> => u = s
             /\ s.queue # <<>> => /\ \A t \in Nat : Pending(u, t) = Pending(s, t) + 1
                                  /\ Range(u.air) = Range(s.air) \cup {s.buf}
<1>1. CASE s.queue = <<>>
  BY <1>1 DEF Resend
<1>2. CASE s.queue # <<>>
  <2> DEFINE u == Resend(s)
             air == Append(s.air, s.buf)
  <2>1. s \in Sender /\ s.air \in Seq(Events \cup {0}) /\ s.buf \in Events \cup {0}
    BY DEF Sized, Sender
  <2>2. u = [s EXCEPT !.air = air]
    BY <1>2, <2>1 DEF Resend, Sender
  <2>3. air \in Seq(Events \cup {0}) /\ Len(air) = Len(s.air) + 1 /\ Len(s.air) \in Nat
    BY <2>1, AppendProperties
  <2>4. Range(air) = Range(s.air) \cup {s.buf}
    BY <2>1, Ranges
  <2> HIDE DEF u, air
  <2>5. /\ u \in Sender /\ u.air = air /\ u.queue = s.queue /\ u.busy = s.busy /\ u.buf = s.buf
        /\ u.asked = s.asked /\ u.calls = s.calls /\ u.dropped = s.dropped
    BY <2>1, <2>2, <2>3 DEF Sender
  <2>6. Sized(u)
    BY <2>5 DEF Sized
  <2>7. Resends(s.calls) \in Nat
    BY <2>1, Counted DEF Sender
  <2>8. \A t \in Nat : Pending(u, t) = Pending(s, t) + 1
    BY <2>3, <2>5, <2>7 DEF Pending
  <2> QED BY <1>2, <2>4, <2>5, <2>6, <2>8 DEF u
<1> QED BY <1>1, <1>2

(* A callback is taken from the scheduler, or given to it.                 *)
LEMMA Popped ==
  ASSUME Sized(ntf), ntf.calls # <<>>
  PROVE  /\ Sized(Called) /\ Called.queue = ntf.queue /\ Called.busy = ntf.busy
         /\ Called.buf = ntf.buf /\ Called.asked = ntf.asked /\ Called.air = ntf.air
         /\ Called.dropped = ntf.dropped
         /\ \A t \in Nat : Pending(ntf, t) = Pending(Called, t) + IF Head(ntf.calls) = "resend" THEN 1 ELSE 0
         /\ Head(ntf.calls) # "guard" /\ Guarded(ntf) => Guarded(Called)
<1>1. ntf \in Sender /\ ntf.calls \in Seq(ZoneCalls) /\ Len(ntf.calls) <= MaxCalls
  BY DEF Sized, Sender
<1> DEFINE c == Tail(ntf.calls)
<1>2. /\ c \in Seq(ZoneCalls) /\ Len(c) = Len(ntf.calls) - 1 /\ Len(ntf.calls) \in Nat \ {0}
      /\ Head(ntf.calls) = ntf.calls[1]
      /\ \A j \in 1 .. Len(c) : c[j] = ntf.calls[j + 1]
  BY <1>1
<1>3. Resends(ntf.calls) = Resends(c) + IF Head(ntf.calls) = "resend" THEN 1 ELSE 0
  BY <1>1, CountedOut
<1>4. Head(ntf.calls) # "guard" /\ Guarded(ntf) => "guard" \in Range(c)
  <2> SUFFICES ASSUME NEW j \in 1 .. Len(ntf.calls), ntf.calls[j] = "guard", j # 1
               PROVE  "guard" \in Range(c)
    BY <1>1, <1>2, Ranges DEF Guarded
  <2> HIDE DEF c
  <2>1. j - 1 \in 1 .. Len(c) /\ (j - 1) + 1 = j
    BY <1>2
  <2>2. c[j - 1] = "guard"
    BY <1>2, <2>1
  <2> QED BY <1>2, <2>1, <2>2, Ranges
<1>5. Resends(c) \in Nat /\ Len(ntf.air) \in Nat
  <2>1. ntf.air \in Seq(Events \cup {0})
    BY <1>1 DEF Sender
  <2> QED BY <1>2, <2>1, Counted, LenProperties
<1> HIDE DEF c
<1>6. /\ Called \in Sender /\ Called.queue = ntf.queue /\ Called.busy = ntf.busy
      /\ Called.buf = ntf.buf /\ Called.asked = ntf.asked /\ Called.air = ntf.air
      /\ Called.dropped = ntf.dropped /\ Called.calls = c
  BY <1>1, <1>2 DEF Called, Sender, c
<1>7. Sized(Called)
  BY <1>1, <1>2, <1>6, IzsNotifyAssumption DEF Sized
<1>8. \A t \in Nat : Pending(ntf, t) = Pending(Called, t) + IF Head(ntf.calls) = "resend" THEN 1 ELSE 0
  BY <1>3, <1>5, <1>6 DEF Pending
<1> QED BY <1>4, <1>6, <1>7, <1>8 DEF Guarded

LEMMA Scheduled ==
  ASSUME Sized(ntf), Len(ntf.calls) < MaxCalls, NEW f \in ZoneCalls, NEW b \in BOOLEAN
  PROVE  LET u == [ntf EXCEPT !.asked = b, !.calls = Append(@, f)]
         IN  /\ Sized(u) /\ u.queue = ntf.queue /\ u.busy = ntf.busy /\ u.buf = ntf.buf
             /\ u.asked = b /\ u.air = ntf.air /\ u.dropped = ntf.dropped
             /\ \A t \in Nat : Pending(u, t) = Pending(ntf, t) + IF f = "resend" THEN 1 ELSE 0
             /\ f = "guard" \/ Guarded(ntf) => Guarded(u)
<1> DEFINE c == Append(ntf.calls, f)
           u == [ntf EXCEPT !.asked = b, !.calls = Append(@, f)]
<1>1. ntf \in Sender /\ ntf.calls \in Seq(ZoneCalls)
  BY DEF Sized, Sender
<1>2. c \in Seq(ZoneCalls) /\ Len(c) = Len(ntf.calls) + 1 /\ Len(ntf.calls) \in Nat
  BY <1>1, AppendProperties
<1>3. Resends(c) = Resends(ntf.calls) + IF f = "resend" THEN 1 ELSE 0
  BY <1>1, CountedIn
<1>4. Range(c) = Range(ntf.calls) \cup {f}
  BY <1>1, Ranges
<1>5. Resends(ntf.calls) \in Nat /\ Len(ntf.air) \in Nat
  <2>1. ntf.air \in Seq(Events \cup {0})
    BY <1>1 DEF Sender
  <2> QED BY <1>1, <2>1, Counted, LenProperties
<1>6. u = [ntf EXCEPT !.asked = b, !.calls = c]
  BY <1>1 DEF Sender
<1> HIDE DEF c, u
<1>7. /\ u \in Sender /\ u.queue = ntf.queue /\ u.busy = ntf.busy /\ u.buf = ntf.buf
      /\ u.asked = b /\ u.air = ntf.air /\ u.dropped = ntf.dropped /\ u.calls = c
  BY <1>1, <1>2, <1>6 DEF Sender
<1>8. Sized(u)
  BY <1>2, <1>7, IzsNotifyAssumption DEF Sized
<1>9. \A t \in Nat : Pending(u, t) = Pending(ntf, t) + IF f = "resend" THEN 1 ELSE 0
  BY <1>3, <1>5, <1>7 DEF Pending
<1> QED BY <1>4, <1>7, <1>8, <1>9 DEF Guarded, u

-----------------------------------------------------------------------------
(* One step.                                                               *)
LEMMA Changed ==
  ASSUME IzsInv, StatusChange
  PROVE  IzsInv'
<1> DEFINE e == events + 1
           q == QueuePut(ntf.queue, e)
           s == [ntf EXCEPT !.queue = q, !.dropped = @ \cup Overwritten(ntf.queue)]
<1>1. /\ e \in Events /\ events' = e /\ ntf' \in Send(s)
      /\ UNCHANGED <<retryAlarms, enrolled, cie, guarding, resets, heard, acked, hit>>
  <2>1. e \in Events
    BY IzsNotifyAssumption DEF IzsInv, Scalars, StatusChange, Events
  <2>2. ntf' \in Send(s)
    BY Zenon DEF StatusChange, Queue
  <2> QED BY <2>1, <2>2 DEF StatusChange
<1>2. ntf \in Sender /\ ntf.queue \in Seq(Events) /\ Len(ntf.queue) <= QueueSize
  BY DEF IzsInv, Sized, Sender
<1>3. /\ q \in Seq(Events) /\ Len(q) <= QueueSize /\ q # <<>> /\ q[Len(q)] = e
      /\ Range(ntf.queue) \cup {e} \subseteq Range(q) \cup Overwritten(ntf.queue)
      /\ Overwritten(ntf.queue) \subseteq Events
      /\ ntf.queue # <<>> => Head(q) = Head(ntf.queue)
  BY <1>1, <1>2, Put
<1> HIDE DEF q
<1>4. /\ s \in Sender /\ s.queue = q /\ s.dropped = ntf.dropped \cup Overwritten(ntf.queue)
      /\ s.busy = ntf.busy /\ s.buf = ntf.buf /\ s.asked = ntf.asked /\ s.air = ntf.air
      /\ s.calls = ntf.calls
  BY <1>2, <1>3 DEF Sender
<1> HIDE DEF s
<1>5. Sized(s)
  BY <1>3, <1>4 DEF IzsInv, Sized
<1>6. Working(s, retryAlarms) /\ (Working(ntf, retryAlarms) /\ Single(ntf, retryAlarms) => Single(s, retryAlarms))
  BY <1>3, <1>4 DEF IzsInv, Working, Single, Pending
<1>7. Kept(ntf, acked, events) => Kept(s, acked, e)
  BY <1>1, <1>3, <1>4 DEF Kept, IzsInv, Scalars
<1>8. Newest(s, heard, e)
  BY <1>3, <1>4 DEF Newest
<1>9. /\ Sized(ntf') /\ ntf'.asked = s.asked /\ (enrolled => ntf'.busy \/ ntf'.queue = <<>>)
      /\ Working(ntf', retryAlarms) /\ (Single(s, retryAlarms) => Single(ntf', retryAlarms))
      /\ Kept(s, acked, e) => Kept(ntf', acked, e)
      /\ Newest(ntf', heard, e)
  BY <1>1, <1>4, <1>5, <1>6, <1>8, Sends DEF IzsInv, Scalars, Asked, Events
<1>10. Scalars' /\ Asked' /\ Attended'
  BY <1>1, <1>4, <1>9 DEF IzsInv, Scalars, Asked, Attended, Events
<1>11. Untouched'
  BY <1>1, <1>6, <1>7, <1>9 DEF IzsInv, Untouched
<1> QED BY <1>1, <1>9, <1>10, <1>11 DEF IzsInv

(* izs_resend_notification, called by the alarm or by the scheduler.       *)
LEMMA Repeated ==
  ASSUME IzsInv, NEW s, Sized(s), ntf' = Resend(s), retryAlarms' \in Nat,
         s.queue = ntf.queue, s.busy = ntf.busy, s.buf = ntf.buf, s.asked = ntf.asked,
         s.air = ntf.air, s.dropped = ntf.dropped, Guarded(ntf) => Guarded(s),
         Pending(ntf, retryAlarms) = Pending(s, retryAlarms') + 1, Pending(s, retryAlarms') \in Nat,
         UNCHANGED <<enrolled, cie, guarding, events, resets, heard, acked, hit>>
  PROVE  IzsInv'
<1>1. /\ Sized(ntf') /\ ntf'.queue = ntf.queue /\ ntf'.busy = ntf.busy /\ ntf'.buf = ntf.buf
      /\ ntf'.asked = ntf.asked /\ ntf'.calls = s.calls /\ ntf'.dropped = ntf.dropped
      /\ s.queue = <<>> => ntf' = s
      /\ s.queue # <<>> => /\ Pending(ntf', retryAlarms') = Pending(s, retryAlarms') + 1
                           /\ Range(ntf'.air) = Range(ntf.air) \cup {ntf.buf}
  BY Resent
<1>2. Working(ntf', retryAlarms')
  BY <1>1 DEF IzsInv, Working
<1>3. ASSUME Single(ntf, retryAlarms) PROVE Single(ntf', retryAlarms')
  <2>1. ntf.busy /\ ntf.queue # <<>>
    BY <1>3 DEF Single, IzsInv, Working
  <2> QED BY <1>1, <1>3, <2>1 DEF Single
<1>4. Scalars' /\ Asked' /\ Attended'
  BY <1>1 DEF IzsInv, Scalars, Asked, Attended, Guarded
<1>5. Untouched'
  BY <1>1, <1>3 DEF IzsInv, Untouched, Kept, Newest
<1> QED BY <1>1, <1>2, <1>4, <1>5 DEF IzsInv

LEMMA AlarmRuns ==
  ASSUME IzsInv, ResendAlarm
  PROVE  IzsInv'
<1>1. retryAlarms \in Nat \ {0} /\ retryAlarms' = retryAlarms - 1
  BY DEF IzsInv, Scalars, ResendAlarm
<1>2. ntf.air \in Seq(Events \cup {0}) /\ ntf.calls \in Seq(ZoneCalls)
  BY DEF IzsInv, Sized, Sender
<1>3. Len(ntf.air) \in Nat /\ Resends(ntf.calls) \in Nat
  BY <1>2, Counted, LenProperties
<1>4. Pending(ntf, retryAlarms) = Pending(ntf, retryAlarms') + 1 /\ Pending(ntf, retryAlarms') \in Nat
  BY <1>1, <1>3 DEF Pending
<1> QED BY <1>1, <1>4, Repeated DEF IzsInv, ResendAlarm

LEMMA CallRuns ==
  ASSUME IzsInv, RunCall
  PROVE  IzsInv'
<1>1. /\ Sized(Called) /\ Called.queue = ntf.queue /\ Called.busy = ntf.busy
      /\ Called.buf = ntf.buf /\ Called.asked = ntf.asked /\ Called.air = ntf.air
      /\ Called.dropped = ntf.dropped
      /\ Pending(ntf, retryAlarms) = Pending(Called, retryAlarms) + IF Head(ntf.calls) = "resend" THEN 1 ELSE 0
      /\ Head(ntf.calls) # "guard" /\ Guarded(ntf) => Guarded(Called)
  BY Popped DEF IzsInv, Scalars, RunCall, ResendCall, GuardCall, EnrollCall, IsNext
<1>2. Pending(Called, retryAlarms) \in Nat
  <2>1. Called.air \in Seq(Events \cup {0}) /\ Called.calls \in Seq(ZoneCalls)
    BY <1>1 DEF Sized, Sender
  <2>2. Len(Called.air) \in Nat /\ Resends(Called.calls) \in Nat
    BY <2>1, Counted, LenProperties
  <2> QED BY <2>2 DEF Pending, IzsInv, Scalars
<1>3. CASE ResendCall
  BY <1>1, <1>2, <1>3, Repeated DEF IzsInv, Scalars, ResendCall, IsNext
<1>4. ASSUME Head(ntf.calls) # "resend"
      PROVE  /\ Working(Called, retryAlarms) /\ (Single(ntf, retryAlarms) => Single(Called, retryAlarms))
             /\ Kept(ntf, acked, events) => Kept(Called, acked, events)
             /\ Newest(ntf, heard, events) => Newest(Called, heard, events)
  BY <1>1, <1>2, <1>4 DEF IzsInv, Working, Single, Kept, Newest
<1>5. CASE GuardCall
  <2>1. /\ Sized(ntf') /\ ntf'.asked = ntf.asked /\ (enrolled => ntf'.busy \/ ntf'.queue = <<>>)
        /\ Working(ntf', retryAlarms) /\ (Single(Called, retryAlarms) => Single(ntf', retryAlarms))
        /\ Kept(Called, acked, events) => Kept(ntf', acked, events)
        /\ Newest(Called, heard, events) => Newest(ntf', heard, events)
    BY <1>1, <1>4, <1>5, Sends DEF GuardCall, GoOnGuard, IsNext, IzsInv, Scalars, Asked
  <2>2. Scalars' /\ Asked' /\ Attended'
    BY <1>5, <2>1 DEF GuardCall, IzsInv, Scalars, Asked, Attended
  <2>3. Untouched'
    BY <1>4, <1>5, <2>1 DEF GuardCall, IsNext, IzsInv, Untouched
  <2> QED BY <1>5, <2>1, <2>2, <2>3 DEF GuardCall, IzsInv
<1>6. CASE EnrollCall
  <2>1. Head(ntf.calls) = "enroll" /\ ntf' = Called
    BY <1>6 DEF EnrollCall, IsNext
  <2>2. Scalars' /\ Asked' /\ Attended'
    BY <1>1, <1>6, <2>1 DEF EnrollCall, IzsInv, Scalars, Asked, Attended
  <2>3. Untouched'
    BY <1>4, <1>6, <2>1 DEF EnrollCall, IzsInv, Untouched
  <2> QED BY <1>1, <1>4, <1>6, <2>1, <2>2, <2>3 DEF EnrollCall, IzsInv
<1> QED BY <1>3, <1>5, <1>6 DEF RunCall

LEMMA Acknowledges ==
  ASSUME IzsInv, NEW i \in 1 .. Len(ntf.air), Sent(i)
  PROVE  IzsInv'
<1> DEFINE air == RemoveAt(ntf.air, i)
           s == Released([ntf EXCEPT !.air = RemoveAt(@, i)])
           q == Release(ntf.queue)
           x == ntf.air[i]
<1>1. /\ ntf \in Sender /\ ntf.queue \in Seq(Events) /\ Len(ntf.queue) <= QueueSize
      /\ ntf.air \in Seq(Events \cup {0}) /\ ntf.calls \in Seq(ZoneCalls)
  BY DEF IzsInv, Sized, Sender
<1>2. /\ air \in Seq(Events \cup {0}) /\ Len(air) = Len(ntf.air) - 1 /\ Range(air) \subseteq Range(ntf.air)
  BY <1>1, Removed
<1>3. x \in Events \cup {0} /\ x \in Range(ntf.air)
  BY <1>1, Ranges, ElementOfSeq
<1>4. /\ q \in Seq(Events) /\ Len(q) <= QueueSize
      /\ ntf.queue # <<>> => /\ Range(ntf.queue) \subseteq Range(q) \cup {Head(ntf.queue)}
                             /\ q = <<>> => Head(ntf.queue) = ntf.queue[Len(ntf.queue)]
                             /\ q # <<>> => q[Len(q)] = ntf.queue[Len(ntf.queue)]
  <2>1. CASE ntf.queue = <<>>
    BY <1>1, <2>1 DEF Release
  <2>2. CASE ntf.queue # <<>>
    <3>1. /\ q = Tail(ntf.queue) /\ q \in Seq(Events) /\ Len(q) = Len(ntf.queue) - 1
          /\ Len(ntf.queue) \in Nat \ {0} /\ Head(ntf.queue) = ntf.queue[1]
          /\ \A j \in 1 .. Len(q) : q[j] = ntf.queue[j + 1]
      BY <1>1, <2>2 DEF Release
    <3> HIDE DEF q
    <3>2. ASSUME NEW j \in 1 .. Len(ntf.queue) PROVE ntf.queue[j] \in Range(q) \cup {Head(ntf.queue)}
      <4>1. j = 1 \/ (j - 1 \in 1 .. Len(q) /\ (j - 1) + 1 = j)
        BY <3>1
      <4> QED BY <3>1, <4>1, Ranges
    <3>3. Range(ntf.queue) \subseteq Range(q) \cup {Head(ntf.queue)}
      BY <1>1, <3>2, Ranges
    <3>4. q = <<>> => Len(ntf.queue) = 1
      <4>1. q = <<>> => Len(q) = 0
        OBVIOUS
      <4> QED BY <3>1, <4>1
    <3>5. q # <<>> => Len(q) \in 1 .. Len(q) /\ Len(q) + 1 = Len(ntf.queue)
      BY <3>1
    <3>6. Len(q) <= QueueSize
      BY <1>1, <3>1, IzsNotifyAssumption
    <3> QED BY <2>2, <3>1, <3>3, <3>4, <3>5, <3>6
  <2> QED BY <2>1, <2>2
<1>5. Len(ntf.air) \in Nat \ {0} /\ Resends(ntf.calls) \in Nat /\ retryAlarms \in Nat
  <2>1. Len(ntf.air) \in Nat /\ i \in 1 .. Len(ntf.air)
    BY <1>1, LenProperties
  <2>2. Resends(ntf.calls) \in Nat /\ retryAlarms \in Nat
    BY <1>1, Counted DEF IzsInv, Scalars
  <2> QED BY <2>1, <2>2
<1>6. s = [ntf EXCEPT !.air = air, !.busy = FALSE, !.retries = 0, !.queue = q]
  BY <1>1 DEF Released, Sender
<1>7. /\ ntf' \in Send(s) /\ heard' = x /\ acked' = acked \cup {x}
      /\ UNCHANGED <<retryAlarms, enrolled, cie, guarding, events, resets, hit>>
  BY DEF Sent
<1> HIDE DEF air, q, s, x
<1>8. /\ s \in Sender /\ s.queue = q /\ s.busy = FALSE /\ s.buf = ntf.buf /\ s.asked = ntf.asked
      /\ s.air = air /\ s.calls = ntf.calls /\ s.dropped = ntf.dropped
  <2> DEFINE v == [ntf EXCEPT !.air = air, !.busy = FALSE]
  <2>1. /\ v \in Sender /\ v.busy = FALSE /\ v.buf = ntf.buf /\ v.asked = ntf.asked
        /\ v.air = air /\ v.calls = ntf.calls /\ v.dropped = ntf.dropped
    BY <1>1, <1>2 DEF Sender
  <2>2. s = [v EXCEPT !.retries = 0, !.queue = q]
    BY <1>6
  <2>3. 0 \in 0 .. MaxCount
    BY IzsNotifyAssumption
  <2> HIDE DEF v
  <2>4. /\ s \in Sender /\ s.queue = q /\ s.busy = v.busy /\ s.buf = v.buf /\ s.asked = v.asked
        /\ s.air = v.air /\ s.calls = v.calls /\ s.dropped = v.dropped
    BY <1>4, <2>1, <2>2, <2>3 DEF Sender
  <2> QED BY <2>1, <2>4
<1>9. Sized(s) /\ Working(s, retryAlarms)
  BY <1>4, <1>8 DEF IzsInv, Sized, Working
<1>10. /\ Sized(ntf') /\ ntf'.asked = s.asked /\ (enrolled => ntf'.busy \/ ntf'.queue = <<>>)
       /\ Working(ntf', retryAlarms) /\ (Single(s, retryAlarms) => Single(ntf', retryAlarms))
       /\ Kept(s, acked', events) => Kept(ntf', acked', events)
       /\ Newest(s, x, events) => Newest(ntf', x, events)
  BY <1>7, <1>8, <1>9, Sends DEF IzsInv, Scalars, Asked
<1>11. Scalars' /\ Asked' /\ Attended'
  <2>1. x \in 0 .. MaxEvents
    BY <1>3, IzsNotifyAssumption DEF Events
  <2>2. Scalars'
    BY <1>7, <2>1 DEF IzsInv, Scalars
  <2>3. Asked' /\ Attended'
    BY <1>7, <1>8, <1>10 DEF IzsInv, Asked, Attended
  <2> QED BY <2>2, <2>3
<1>12. ASSUME ~ hit PROVE Single(s, retryAlarms) /\ Kept(s, acked', events) /\ Newest(s, x, events)
  <2>1. Single(ntf, retryAlarms) /\ Kept(ntf, acked, events) /\ Newest(ntf, heard, events)
    BY <1>12 DEF IzsInv, Untouched
  <2>2. ntf.busy /\ Pending(ntf, retryAlarms) = 1
    BY <1>5, <2>1 DEF Single, Pending
  <2>3. ntf.queue # <<>> /\ x = Head(ntf.queue)
    BY <1>3, <2>1, <2>2 DEF IzsInv, Working, Single
  <2>4. Pending(s, retryAlarms) = 0
    BY <1>2, <1>5, <1>8, <2>2 DEF Pending
  <2>5. Single(s, retryAlarms)
    BY <1>8, <2>4 DEF Single
  <2>6. Kept(s, acked', events)
    BY <1>4, <1>7, <1>8, <2>1, <2>3 DEF Kept
  <2>7. Newest(s, x, events)
    BY <1>4, <1>8, <2>1, <2>3 DEF Newest
  <2> QED BY <2>5, <2>6, <2>7
<1>13. Untouched'
  BY <1>7, <1>10, <1>12 DEF Untouched
<1> QED BY <1>7, <1>10, <1>11, <1>13 DEF IzsInv

LEMMA BacksOff ==
  ASSUME IzsInv, NEW i \in 1 .. Len(ntf.air), NotSent(i)
  PROVE  IzsInv'
<1> DEFINE air == RemoveAt(ntf.air, i)
<1>1. /\ ntf \in Sender /\ ntf.air \in Seq(Events \cup {0}) /\ ntf.calls \in Seq(ZoneCalls)
      /\ ntf.retries \in 0 .. MaxCount
  BY DEF IzsInv, Sized, Sender
<1>2. air \in Seq(Events \cup {0}) /\ Len(air) = Len(ntf.air) - 1 /\ Range(air) \subseteq Range(ntf.air)
  BY <1>1, Removed
<1>3. ntf.air[i] \in Events \cup {0} /\ ntf.air[i] \in Range(ntf.air)
  BY <1>1, Ranges, ElementOfSeq
<1>4. Len(ntf.air) \in Nat \ {0} /\ Resends(ntf.calls) \in Nat /\ retryAlarms \in Nat
  <2>1. Len(ntf.air) \in Nat /\ i \in 1 .. Len(ntf.air)
    BY <1>1, LenProperties
  <2>2. Resends(ntf.calls) \in Nat /\ retryAlarms \in Nat
    BY <1>1, Counted DEF IzsInv, Scalars
  <2> QED BY <2>1, <2>2
<1>5. /\ ntf' = [ntf EXCEPT !.air = air, !.retries = Retries(ntf)]
      /\ retryAlarms' = retryAlarms + (IF ntf.busy THEN 1 ELSE 0)
      /\ heard' \in {heard, ntf.air[i]}
      /\ UNCHANGED <<enrolled, cie, guarding, events, resets, acked, hit>>
  BY <1>1 DEF NotSent, RetryTimer, Sender
<1>6. Retries(ntf) \in 0 .. MaxCount
  BY <1>1, IzsNotifyAssumption DEF Retries
<1> HIDE DEF air
<1>7. /\ ntf' \in Sender /\ ntf'.queue = ntf.queue /\ ntf'.busy = ntf.busy /\ ntf'.buf = ntf.buf
      /\ ntf'.asked = ntf.asked /\ ntf'.air = air /\ ntf'.calls = ntf.calls
      /\ ntf'.dropped = ntf.dropped
  BY <1>1, <1>2, <1>5, <1>6 DEF Sender
<1>8. Sized(ntf')
  BY <1>7 DEF IzsInv, Sized
<1>9. ntf.busy => Pending(ntf', retryAlarms') = Pending(ntf, retryAlarms)
  <2>1. ntf.busy => retryAlarms' = retryAlarms + 1
    BY <1>5
  <2>2. Len(ntf'.air) = Len(ntf.air) - 1 /\ Resends(ntf'.calls) = Resends(ntf.calls)
    BY <1>2, <1>7
  <2> QED BY <1>4, <2>1, <2>2 DEF Pending
<1>10. Working(ntf', retryAlarms')
  BY <1>7, <1>9 DEF IzsInv, Working
<1>11. Scalars' /\ Asked' /\ Attended'
  <2>1. ntf.air[i] \in 0 .. MaxEvents /\ retryAlarms' \in Nat
    BY <1>3, <1>4, <1>5, IzsNotifyAssumption DEF Events
  <2>2. Scalars'
    BY <1>5, <2>1 DEF IzsInv, Scalars
  <2>3. Asked' /\ Attended'
    BY <1>5, <1>7 DEF IzsInv, Asked, Attended, Guarded
  <2> QED BY <2>2, <2>3
<1>12. ASSUME ~ hit
       PROVE  Single(ntf', retryAlarms') /\ Kept(ntf', acked, events) /\ Newest(ntf', heard', events)
  <2>1. Single(ntf, retryAlarms) /\ Kept(ntf, acked, events) /\ Newest(ntf, heard, events)
    BY <1>12 DEF IzsInv, Untouched
  <2>2. ntf.busy
    BY <1>4, <2>1 DEF Single, Pending
  <2>3. Single(ntf', retryAlarms')
    BY <1>2, <1>7, <1>9, <2>1, <2>2 DEF Single
  <2>4. ntf.queue # <<>>
    BY <2>2 DEF IzsInv, Working
  <2> QED BY <1>7, <2>1, <2>3, <2>4 DEF Kept, Newest
<1>13. Untouched'
  BY <1>5, <1>12 DEF Untouched
<1> QED BY <1>8, <1>10, <1>11, <1>13 DEF IzsInv

LEMMA Rejoins ==
  ASSUME IzsInv, Rejoined
  PROVE  IzsInv'
<1> DEFINE s == IF Cancelled THEN [ntf EXCEPT !.calls = Append(@, "resend")] ELSE ntf
<1>1. /\ enrolled /\ Len(ntf.calls) < MaxCalls
      /\ retryAlarms' = IF ntf.retries > 0 THEN Cancel(retryAlarms) ELSE retryAlarms
      /\ guarding' = TRUE
      /\ ntf' = s \/ ntf' \in Send(s)
      /\ UNCHANGED <<enrolled, cie, events, resets, heard, acked, hit>>
  BY DEF Rejoined
<1>2. /\ ntf \in Sender /\ ntf.asked \in BOOLEAN /\ ntf.retries \in 0 .. MaxCount
      /\ ntf.air \in Seq(Events \cup {0}) /\ ntf.calls \in Seq(ZoneCalls) /\ retryAlarms \in Nat
  BY DEF IzsInv, Scalars, Sized, Sender
<1>3. Len(ntf.air) \in Nat /\ Resends(ntf.calls) \in Nat
  BY <1>2, Counted, LenProperties
<1>4. /\ Sized(s) /\ s.queue = ntf.queue /\ s.busy = ntf.busy /\ s.buf = ntf.buf
      /\ s.asked = ntf.asked /\ s.air = ntf.air /\ s.dropped = ntf.dropped
      /\ Guarded(ntf) => Guarded(s)
      /\ retryAlarms' \in Nat /\ Pending(s, retryAlarms') = Pending(ntf, retryAlarms)
  <2>1. CASE Cancelled
    <3>1. s = [ntf EXCEPT !.asked = ntf.asked, !.calls = Append(@, "resend")]
      BY <1>2, <2>1 DEF Sender
    <3>2. retryAlarms' = retryAlarms - 1 /\ retryAlarms' \in Nat
      BY <1>1, <1>2, <2>1 DEF Cancelled, Cancel
    <3>3. "resend" \in ZoneCalls
      BY DEF ZoneCalls
    <3> HIDE DEF s
    <3>4. /\ Sized(s) /\ s.queue = ntf.queue /\ s.busy = ntf.busy /\ s.buf = ntf.buf
          /\ s.asked = ntf.asked /\ s.air = ntf.air /\ s.dropped = ntf.dropped
          /\ Guarded(ntf) => Guarded(s)
          /\ Pending(s, retryAlarms') = Pending(ntf, retryAlarms') + 1
      BY <1>1, <1>2, <3>1, <3>2, <3>3, Scheduled DEF IzsInv
    <3>5. Pending(ntf, retryAlarms') + 1 = Pending(ntf, retryAlarms)
      BY <1>2, <1>3, <3>2 DEF Pending
    <3> QED BY <3>2, <3>4, <3>5
  <2>2. CASE ~ Cancelled
    <3>1. retryAlarms' = retryAlarms
      BY <1>1, <1>2, <2>2 DEF Cancelled, Cancel
    <3> QED BY <1>2, <2>2, <3>1 DEF IzsInv
  <2> QED BY <2>1, <2>2
<1> HIDE DEF s
<1>5. /\ Working(s, retryAlarms') /\ (Single(ntf, retryAlarms) => Single(s, retryAlarms'))
      /\ Kept(ntf, acked, events) => Kept(s, acked, events)
      /\ Newest(ntf, heard, events) => Newest(s, heard, events)
  BY <1>4 DEF IzsInv, Working, Single, Kept, Newest
<1>6. /\ Sized(ntf') /\ ntf'.asked = s.asked
      /\ ntf' = s \/ ntf'.busy \/ ntf'.queue = <<>>
      /\ Working(ntf', retryAlarms') /\ (Single(s, retryAlarms') => Single(ntf', retryAlarms'))
      /\ Kept(s, acked, events) => Kept(ntf', acked, events)
      /\ Newest(s, heard, events) => Newest(ntf', heard, events)
  <2>1. CASE ntf' = s
    BY <1>4, <1>5, <2>1
  <2>2. CASE ntf' \in Send(s)
    BY <1>1, <1>4, <1>5, <2>2, Sends DEF IzsInv, Scalars, Asked
  <2> QED BY <1>1, <2>1, <2>2
<1>7. Scalars' /\ Asked' /\ Attended'
  BY <1>1, <1>4, <1>6 DEF IzsInv, Scalars, Asked, Attended
<1>8. Untouched'
  BY <1>1, <1>5, <1>6 DEF IzsInv, Untouched
<1> QED BY <1>1, <1>6, <1>7, <1>8 DEF IzsInv

(* The commands that schedule izs_go_on_guard or izs_send_enroll_req.      *)
LEMMA Posted ==
  ASSUME IzsInv, NEW f \in {"guard", "enroll"}, NEW b \in BOOLEAN,
         Len(ntf.calls) < MaxCalls,
         ntf' = [ntf EXCEPT !.asked = b, !.calls = Append(@, f)],
         enrolled' => enrolled \/ f = "guard",
         UNCHANGED <<retryAlarms, events, heard, acked, hit>>
  PROVE  /\ Sized(ntf') /\ ntf'.asked = b
         /\ Working(ntf', retryAlarms') /\ Attended' /\ Untouched'
<1>1. f \in ZoneCalls /\ f # "resend" /\ retryAlarms \in Nat /\ ntf.calls \in Seq(ZoneCalls)
      /\ ntf.air \in Seq(Events \cup {0})
  BY DEF ZoneCalls, IzsInv, Scalars, Sized, Sender
<1>2. Pending(ntf, retryAlarms) \in Nat
  <2>1. Len(ntf.air) \in Nat /\ Resends(ntf.calls) \in Nat
    BY <1>1, Counted, LenProperties
  <2> QED BY <1>1, <2>1 DEF Pending
<1>3. /\ Sized(ntf') /\ ntf'.queue = ntf.queue /\ ntf'.busy = ntf.busy /\ ntf'.buf = ntf.buf
      /\ ntf'.asked = b /\ ntf'.air = ntf.air /\ ntf'.dropped = ntf.dropped
      /\ Pending(ntf', retryAlarms) = Pending(ntf, retryAlarms)
      /\ f = "guard" \/ Guarded(ntf) => Guarded(ntf')
  <2>1. LET u == [ntf EXCEPT !.asked = b, !.calls = Append(@, f)]
        IN  /\ Sized(u) /\ u.queue = ntf.queue /\ u.busy = ntf.busy /\ u.buf = ntf.buf
            /\ u.asked = b /\ u.air = ntf.air /\ u.dropped = ntf.dropped
            /\ \A t \in Nat : Pending(u, t) = Pending(ntf, t) + IF f = "resend" THEN 1 ELSE 0
            /\ f = "guard" \/ Guarded(ntf) => Guarded(u)
    BY <1>1, Scheduled DEF IzsInv
  <2>2. Pending(ntf', retryAlarms) = Pending(ntf, retryAlarms) + 0
    BY <1>1, <2>1
  <2> QED BY <1>2, <2>1, <2>2
<1>4. Working(ntf', retryAlarms') /\ (Single(ntf, retryAlarms) => Single(ntf', retryAlarms'))
  BY <1>3 DEF IzsInv, Working, Single
<1>5. Attended'
  BY <1>3 DEF IzsInv, Attended
<1>6. Untouched'
  BY <1>3, <1>4 DEF IzsInv, Untouched, Kept, Newest
<1> QED BY <1>3, <1>4, <1>5, <1>6

LEMMA Commanded ==
  ASSUME IzsInv, WriteCieAddress \/ EnrollResponse \/ CheckInOff \/ CheckInOn
  PROVE  IzsInv'
<1>1. ntf \in Sender /\ ntf.asked \in BOOLEAN
  BY DEF IzsInv, Sized, Sender
<1>2. \A f : [ntf EXCEPT !.calls = Append(@, f)]
               = [ntf EXCEPT !.asked = ntf.asked, !.calls = Append(@, f)]
  BY <1>1 DEF Sender
<1>3. CASE WriteCieAddress
  <2>1. /\ Sized(ntf') /\ ntf'.asked = TRUE
        /\ Working(ntf', retryAlarms') /\ Attended' /\ Untouched'
    BY <1>3, Posted DEF WriteCieAddress
  <2>2. Scalars' /\ Asked'
    BY <1>3, <2>1 DEF WriteCieAddress, IzsInv, Scalars, Asked
  <2> QED BY <2>1, <2>2 DEF IzsInv
<1>4. CASE EnrollResponse
  <2>1. /\ Sized(ntf') /\ ntf'.asked = ntf.asked
        /\ Working(ntf', retryAlarms') /\ Attended' /\ Untouched'
    BY <1>1, <1>2, <1>4, Posted DEF EnrollResponse
  <2>2. Scalars' /\ Asked'
    BY <1>4, <2>1 DEF EnrollResponse, IzsInv, Scalars, Asked
  <2> QED BY <2>1, <2>2 DEF IzsInv
<1>5. CASE CheckInOff
  BY <1>5 DEF CheckInOff, IzsInv, Scalars, Asked, Attended, Untouched
<1>6. CASE CheckInOn
  <2>1. /\ Sized(ntf') /\ ntf'.asked = ntf.asked
        /\ Working(ntf', retryAlarms') /\ Attended' /\ Untouched'
    BY <1>1, <1>2, <1>6, Posted DEF CheckInOn
  <2>2. Scalars' /\ Asked'
    BY <1>6, <2>1 DEF CheckInOn, IzsInv, Scalars, Asked
  <2> QED BY <2>1, <2>2 DEF IzsInv
<1> QED BY <1>3, <1>4, <1>5, <1>6

LEMMA Resets ==
  ASSUME IzsInv, BasicReset
  PROVE  IzsInv'
<1>1. /\ ntf \in Sender /\ ntf.queue \in Seq(Events) /\ ntf.dropped \in SUBSET Events
      /\ ntf.air \in Seq(Events \cup {0}) /\ ntf.calls \in Seq(ZoneCalls)
      /\ Len(ntf.calls) <= MaxCalls /\ retryAlarms \in Nat
  BY DEF IzsInv, Scalars, Sized, Sender
<1>2. Len(ntf.air) \in Nat /\ Resends(ntf.calls) \in Nat
  BY <1>1, Counted, LenProperties
<1> DEFINE lost == ntf.dropped \cup Range(ntf.queue)
<1>3. Range(ntf.queue) \subseteq Events
  BY <1>1, Ranges, ElementOfSeq
<1>4. ntf' = [ntf EXCEPT !.queue = <<>>, !.busy = FALSE, !.retries = 0, !.asked = FALSE,
                         !.dropped = lost]
  BY <1>1 DEF BasicReset, Queue, Sender
<1>5. /\ lost \subseteq Events /\ 0 \in 0 .. MaxCount /\ <<>> \in Seq(Events)
  BY <1>1, <1>3, IzsNotifyAssumption
<1> HIDE DEF lost
<1>6. /\ ntf' \in Sender /\ ntf'.queue = <<>> /\ ntf'.busy = FALSE /\ ntf'.dropped = lost
      /\ ntf'.air = ntf.air /\ ntf'.calls = ntf.calls
  BY <1>1, <1>4, <1>5 DEF Sender
<1>7. /\ retryAlarms' = Cancel(retryAlarms) /\ enrolled' = FALSE /\ cie' = FALSE /\ resets' = resets + 1
      /\ resets < MaxResets /\ hit' = (hit \/ Pending(ntf, retryAlarms) > (retryAlarms - retryAlarms'))
      /\ UNCHANGED <<guarding, events, heard, acked>>
  BY DEF BasicReset, OnItsWay
<1>8. Sized(ntf')
  BY <1>1, <1>6, IzsNotifyAssumption DEF Sized
<1>9. retryAlarms' \in Nat /\ retryAlarms' <= retryAlarms
  BY <1>1, <1>7 DEF Cancel
<1>10. Scalars' /\ Asked' /\ Attended' /\ Working(ntf', retryAlarms')
  <2>1. resets' \in 0 .. MaxResets
    BY <1>7, IzsNotifyAssumption DEF IzsInv, Scalars
  <2>2. hit' \in BOOLEAN
    BY <1>7, Zenon
  <2>3. Scalars'
    BY <1>7, <1>9, <2>1, <2>2 DEF IzsInv, Scalars
  <2>4. Asked' /\ Attended' /\ Working(ntf', retryAlarms')
    BY <1>6, <1>7 DEF Asked, Attended, Working
  <2> QED BY <2>3, <2>4
<1>11. ASSUME ~ hit' PROVE Single(ntf', retryAlarms') /\ Kept(ntf', acked, events) /\ Newest(ntf', heard, events)
  <2>1. Kept(ntf, acked, events) /\ Newest(ntf, heard, events)
    BY <1>7, <1>11 DEF IzsInv, Untouched
  <2>2. Pending(ntf, retryAlarms) <= retryAlarms - retryAlarms'
    <3>1. Pending(ntf, retryAlarms) \in Nat
      BY <1>1, <1>2 DEF Pending
    <3>2. ~ (Pending(ntf, retryAlarms) > retryAlarms - retryAlarms')
      BY <1>7, <1>11, Zenon
    <3> QED BY <1>1, <1>9, <3>1, <3>2
  <2>3. Pending(ntf', retryAlarms') = 0
    BY <1>1, <1>2, <1>6, <1>9, <2>2 DEF Pending
  <2>4. Kept(ntf', acked, events)
    BY <1>6, <2>1 DEF Kept, lost
  <2>5. Newest(ntf', heard, events)
    <3>1. CASE ntf.queue = <<>>
      BY <1>6, <2>1, <3>1 DEF Newest, lost
    <3>2. CASE ntf.queue # <<>>
      <4>1. Len(ntf.queue) \in 1 .. Len(ntf.queue)
        BY <1>1, <3>2, EmptySeq, LenProperties
      <4>2. events \in Range(ntf.queue)
        BY <1>1, <2>1, <3>2, <4>1, Ranges DEF Newest
      <4> QED BY <1>6, <4>2 DEF Newest, lost
    <3> QED BY <3>1, <3>2
  <2> QED BY <1>6, <2>3, <2>4, <2>5 DEF Single
<1>12. Untouched'
  BY <1>7, <1>11 DEF Untouched
<1> QED BY <1>8, <1>10, <1>12 DEF IzsInv

-----------------------------------------------------------------------------
(* The invariant, and what it implies.                                     *)
LEMMA Starts ==
  ASSUME ZoneInit
  PROVE  IzsInv
<1>1. /\ ntf.queue = <<>> /\ ntf.busy = FALSE /\ ntf.air = <<>> /\ ntf.calls = <<>>
      /\ retryAlarms = 0 /\ enrolled = FALSE /\ cie = FALSE /\ guarding = FALSE
      /\ events = 0 /\ resets = 0 /\ heard = 0 /\ acked = {} /\ hit = FALSE
  BY DEF ZoneInit
<1>2. ntf \in Sender
  <2>1. 0 \in 0 .. MaxCount
    BY IzsNotifyAssumption
  <2> QED BY <2>1 DEF ZoneInit, Sender
<1>3. Sized(ntf)
  BY <1>1, <1>2, IzsNotifyAssumption, EmptySeq DEF Sized
<1>4. Scalars
  <2>1. 0 \in Nat /\ 0 \in 0 .. MaxEvents /\ 0 \in 0 .. MaxResets
    BY IzsNotifyAssumption
  <2>2. /\ retryAlarms \in Nat /\ events \in 0 .. MaxEvents /\ resets \in 0 .. MaxResets
        /\ heard \in 0 .. MaxEvents /\ acked \subseteq 0 .. MaxEvents
    BY <1>1, <2>1
  <2>3. enrolled \in BOOLEAN /\ cie \in BOOLEAN /\ guarding \in BOOLEAN /\ hit \in BOOLEAN
    BY <1>1
  <2> QED BY <2>2, <2>3 DEF Scalars
<1>5. Asked /\ Working(ntf, retryAlarms) /\ Attended
  BY <1>1 DEF Asked, Working, Attended
<1>6. Resends(<<>>) = 0
  <2>1. {j \in 1 .. Len(<<>>) : <<>>[j] = "resend"} = {}
    OBVIOUS
  <2> QED BY <2>1, FS_EmptySet DEF Resends
<1>7. Single(ntf, retryAlarms)
  BY <1>1, <1>6 DEF Single, Pending
<1>8. Kept(ntf, acked, events) /\ Newest(ntf, heard, events)
  BY <1>1 DEF Kept, Newest
<1> QED BY <1>3, <1>4, <1>5, <1>7, <1>8 DEF IzsInv, Untouched

LEMMA Steps ==
  ASSUME IzsInv, [ZoneNext]_zoneVars
  PROVE  IzsInv'
<1>1. CASE ZoneNext
  BY <1>1, Changed, AlarmRuns, CallRuns, Acknowledges, BacksOff, Rejoins, Commanded, Resets DEF ZoneNext
<1>2. CASE UNCHANGED zoneVars
  BY <1>2 DEF zoneVars, IzsInv, Scalars, Asked, Attended, Untouched
<1> QED BY <1>1, <1>2

LEMMA IzsInvariant == ZoneSpec => []IzsInv
<1>1. ZoneInit => IzsInv
  BY Starts
<1>2. IzsInv /\ [ZoneNext]_zoneVars => IzsInv'
  BY Steps
<1> QED BY <1>1, <1>2, PTL DEF ZoneSpec

(* Whatever happens, no variable leaves its type: the queue stays within   *)
(* its size, the back-off counter within its maximum.                      *)
THEOREM NotificationTypes == ZoneSpec => []ZoneTypeOK
<1>1. IzsInv => ZoneTypeOK
  BY DEF IzsInv, Sized, Sender, Scalars, ZoneTypeOK, Queue
<1> QED BY <1>1, IzsInvariant, PTL

(* izs_send_notification and izs_retry_backoff never let a queue that      *)
(* holds an event wait for nothing.                                        *)
THEOREM SenderNeverSleeps == ZoneSpec => []SenderAwake
<1>1. IzsInv => SenderAwake
  BY DEF IzsInv, Working, Attended, Guarded, SenderAwake, OnItsWay, Queue
<1> QED BY <1>1, IzsInvariant, PTL

(* One packet, alarm or retry call at a time uses the notification buffer, *)
(* unless a reset struck while it was on its way.                          *)
THEOREM BufferHasOneOwner == ZoneSpec => []OneOwner
<1>1. IzsInv => OneOwner
  BY DEF IzsInv, Untouched, Single, OneOwner, OnItsWay, Queue
<1> QED BY <1>1, IzsInvariant, PTL

(* An event leaves the queue acknowledged or for a reason the code gives,  *)
(* unless such a reset struck.                                             *)
THEOREM OnlyResetsLose == ZoneSpec => []LostOnlyByReset
<1>1. IzsInv => LostOnlyByReset
  BY DEF IzsInv, Untouched, Kept, LostOnlyByReset, NothingLost, Queue
<1> QED BY <1>1, IzsInvariant, PTL

(* A CIE whose sensor has emptied its queue heard the newest event last,   *)
(* or the sensor gave that event up.                                       *)
THEOREM NewestIsHeard == ZoneSpec => []NewestArrives
<1>1. IzsInv => NewestArrives
  BY DEF IzsInv, Untouched, Newest, NewestArrives, Queue
<1> QED BY <1>1, IzsInvariant, PTL
=============================================================================
