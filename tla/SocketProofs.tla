---------------------------- MODULE SocketProofs ----------------------------
(***************************************************************************)
(* For chunks and slices of any size and any number of calls that time out *)
(* and leave their goroutines behind: what Read returns stays in order,    *)
(* nothing is lost before the first timeout, and a Write that has reported *)
(* success is on the wire, once and in its place.                          *)
(***************************************************************************)
EXTENDS Socket, SequenceTheorems, TLAPS

Byte == 1..MaxBytes

\* The bytes k + 1, k + 2, ... in this order.
From(q, k) == \A i \in 1..Len(q) : q[i] = k + i

\* Of the calls q, those whose user still waits: at most one, some, all.
OneLive(q) == \A j, k \in 1..Len(q) : q[j].live /\ q[k].live => j = k
SomeLive(q) == \E j \in 1..Len(q) : q[j].live
AllLive(q) == \A j \in 1..Len(q) : q[j].live

\* TypeOK, by the part of the socket the variables belong to.
ClockType ==
  /\ side \in {"reader", "writer"} /\ now \in 1..MaxTime /\ cancelled \in BOOLEAN
  /\ readDeadline \in Zero..Never /\ writeDeadline \in Zero..Never /\ deadline \in Zero..Never

ReadType ==
  /\ sent \in 0..MaxBytes /\ ended \in {"open", "closed", "errored", "cancelled"}
  /\ queue \in Seq(Seq(Byte)) /\ buf \in Seq(Byte) /\ got \in Seq(Byte)
  /\ waiting \in Seq(Calls) /\ spawned \in Seq(Calls)
  /\ reads \in 0..MaxReads
  /\ reading \in BOOLEAN /\ (reading <=> SomeLive(waiting) \/ SomeLive(spawned))
  /\ streamReader \in BOOLEAN /\ over \in BOOLEAN /\ timedOut \in BOOLEAN

WriteType ==
  /\ writable \in {"open", "closing", "errored"} /\ writes \in 0..MaxWrites
  /\ pending \in Seq(1..writes) /\ wire \in Seq(1..writes) /\ writing \in 0..writes
  /\ unwritten \subseteq 1..writes /\ wrote \subseteq 1..writes

\* The chunks q go on from byte b to the last one sent, unless the stream has
\* dropped them.
QueueIs(q, end, last, b) ==
  /\ q = <<>> /\ end \in {"open", "closed"} => b = last
  /\ q # <<>> =>
       /\ end \in {"open", "closed"} /\ From(q[1], b)
       /\ \/ Len(q) = 1 /\ b + Len(q[1]) = last
          \/ Len(q) = 2 /\ From(q[2], b + Len(q[1])) /\ b + Len(q[1]) + Len(q[2]) = last

\* The calls have returned bytes up to k at the most, and all of them before
\* the first timeout.
GotUpTo(k) ==
  /\ \A i \in 1..Len(got) : got[i] <= k
  /\ ~timedOut => From(got, 0) /\ Len(got) = k

\* The bytes up to b have left the stream, those up to k the buffer too.
BytesInv ==
  \E b \in 0..sent : \E k \in 0..b :
    /\ QueueIs(queue, ended, sent, b) /\ GotUpTo(k)
    /\ From(buf, k) /\ k + Len(buf) <= b
    /\ ended \in {"open", "closed"} => k + Len(buf) = b

\* At most one goroutine has a user who waits for it, and before the first
\* timeout there is no other; it waits for a chunk only with an empty buffer.
CallsInv ==
  /\ OneLive(waiting) /\ OneLive(spawned) /\ ~(SomeLive(waiting) /\ SomeLive(spawned))
  /\ ~timedOut => /\ AllLive(waiting) /\ AllLive(spawned)
                  /\ waiting # <<>> => buf = <<>>

\* What a call that has found the end means for the calls and the bytes.
OverInv ==
  over => /\ ~reading /\ ended # "open"
          /\ ~timedOut /\ ended = "closed" => Len(got) = sent

ReadInv == ReadType /\ ReadsAscend /\ BytesInv /\ CallsInv /\ OverInv

\* No number occurs twice.
Distinct(q) == \A j, k \in 1..Len(q) : q[j] = q[k] => j = k

\* A slice is at one place at a time, and the user waits for the last one.
WriteInv ==
  /\ WriteType
  /\ writing # 0 => writing = writes /\ writing \notin wrote
  /\ unwritten \cap (Range(pending) \cup Range(wire)) = {}
  /\ Range(pending) \cap Range(wire) = {}
  /\ Distinct(pending)
  /\ WroteIsOnWire

IInv == ClockType /\ ReadInv /\ WriteInv

-----------------------------------------------------------------------------
(* Numbered bytes.                                                         *)

\* What follows the bytes of one sequence goes on in the other.
LEMMA FromConcat ==
  ASSUME NEW p \in Seq(Byte), NEW q \in Seq(Byte), NEW k \in Nat, From(p, k), From(q, k + Len(p))
  PROVE  /\ p \o q \in Seq(Byte) /\ Len(p \o q) = Len(p) + Len(q)
         /\ From(p \o q, k)
<1>1. /\ p \o q \in Seq(Byte) /\ Len(p \o q) = Len(p) + Len(q)
      /\ \A i \in 1 .. Len(p) + Len(q) : (p \o q)[i] = IF i <= Len(p) THEN p[i] ELSE q[i - Len(p)]
  BY ConcatProperties
<1>2. ASSUME NEW i \in 1 .. Len(p) + Len(q) PROVE (p \o q)[i] = k + i
  <2>1. CASE i <= Len(p)
    BY <1>1, <2>1 DEF From
  <2>2. CASE i > Len(p)
    <3>1. i - Len(p) \in 1 .. Len(q) /\ q[i - Len(p)] = k + Len(p) + (i - Len(p))
      BY <2>2 DEF From
    <3> QED
      BY <1>1, <2>2, <3>1
  <2> QED
    BY <2>1, <2>2
<1> QED
  BY <1>1, <1>2 DEF From

\* Taking n bytes cuts the numbers in two.
LEMMA FromSplit ==
  ASSUME NEW p \in Seq(Byte), NEW k \in Nat, NEW n \in 0 .. Len(p), From(p, k)
  PROVE  /\ SubSeq(p, 1, n) \in Seq(Byte) /\ Len(SubSeq(p, 1, n)) = n
         /\ From(SubSeq(p, 1, n), k)
         /\ SubSeq(p, n + 1, Len(p)) \in Seq(Byte)
         /\ Len(SubSeq(p, n + 1, Len(p))) = Len(p) - n
         /\ From(SubSeq(p, n + 1, Len(p)), k + n)
<1>1. \A i \in 1 .. Len(p) : p[i] \in Byte
  OBVIOUS
<1>2. /\ SubSeq(p, 1, n) \in Seq(Byte) /\ Len(SubSeq(p, 1, n)) = n
      /\ \A i \in 1 .. n : SubSeq(p, 1, n)[i] = p[i]
  BY <1>1, SubSeqProperties
<1>3. /\ SubSeq(p, n + 1, Len(p)) \in Seq(Byte) /\ Len(SubSeq(p, n + 1, Len(p))) = Len(p) - n
      /\ \A i \in 1 .. Len(p) - n : SubSeq(p, n + 1, Len(p))[i] = p[n + i]
  BY <1>1, SubSeqProperties
<1> QED
  BY <1>2, <1>3 DEF From

\* The smaller of two lengths.
LEMMA MinOfTwo ==
  ASSUME NEW m \in Nat, NEW n \in Nat
  PROVE  Min({m, n}) \in {m, n} /\ Min({m, n}) <= m /\ Min({m, n}) <= n
<1>1. \E x \in {m, n} : \A y \in {m, n} : x <= y
  OBVIOUS
<1> QED
  BY <1>1 DEF Min

\* Less than two and more than none.
LEMMA OneOfTwo == \A n \in Nat : n < 2 /\ n # 0 => n = 1
OBVIOUS

\* A call that takes from the buffer: what it returns comes after what the
\* calls have returned, and is lost if its user has left.
LEMMA TakeFacts ==
  ASSUME NEW b \in Seq(Byte), NEW k \in Nat, From(b, k), NEW c \in Calls, TakeFrom(b, c),
         got \in Seq(Byte), GotUpTo(k), ReadsAscend, UNCHANGED timedOut, ~timedOut => c.live
  PROVE  /\ buf' \in Seq(Byte) /\ got' \in Seq(Byte) /\ ReadsAscend'
         /\ c.live => ~reading' /\ ~over' /\ reading' = FALSE /\ over' = FALSE /\ deadline' = Never
         /\ ~c.live => UNCHANGED <<reading, over, deadline, got>>
         /\ \E m \in k .. k + Len(b) :
              GotUpTo(m)' /\ From(buf', m) /\ m + Len(buf') = k + Len(b)
<1> DEFINE n == Min({c.len, Len(b)})
           chunk == SubSeq(b, 1, n)
<1>1. n \in 0 .. Len(b)
  <2>1. c.len \in Nat /\ Len(b) \in Nat
    <3>1. c.len \in Slices
      BY DEF Calls
    <3>2. c.len \in Nat
      BY <3>1, SizesAssumption
    <3> QED
      BY <3>2, LenProperties
  <2> QED
    BY <2>1, MinOfTwo
<1>2. buf' = SubSeq(b, n + 1, Len(b)) /\ Finish(c, chunk, FALSE)
  BY DEF TakeFrom
<1> HIDE DEF n
<1>3. /\ chunk \in Seq(Byte) /\ Len(chunk) = n /\ From(chunk, k)
      /\ buf' \in Seq(Byte) /\ Len(buf') = Len(b) - n /\ From(buf', k + n)
  BY <1>1, <1>2, FromSplit
<1> HIDE DEF chunk
<1>4. k + n \in k .. k + Len(b) /\ (k + n) + Len(buf') = k + Len(b)
  BY <1>1, <1>3
<1>5. CASE c.live
  <2>1. got' = got \o chunk /\ reading' = FALSE /\ deadline' = Never /\ over' = FALSE
    BY <1>2, <1>5 DEF Finish
  <2>2. /\ got' \in Seq(Byte) /\ Len(got') = Len(got) + n
        /\ \A i \in 1 .. Len(got) + n : got'[i] = IF i <= Len(got) THEN got[i] ELSE chunk[i - Len(got)]
    BY <1>3, <2>1, ConcatProperties
  <2>3. /\ \A i \in 1 .. Len(got) : got'[i] = got[i] /\ got[i] <= k /\ got[i] \in Nat
        /\ \A i \in Len(got) + 1 .. Len(got) + n : got'[i] = k + (i - Len(got))
    <3>1. ASSUME NEW i \in Len(got) + 1 .. Len(got) + n
          PROVE  got'[i] = k + (i - Len(got))
      <4>1. i \in 1 .. Len(got) + n /\ ~(i <= Len(got)) /\ i - Len(got) \in 1 .. n
        BY <1>1
      <4> QED
        BY <1>3, <2>2, <4>1 DEF From
    <3>2. ASSUME NEW i \in 1 .. Len(got)
          PROVE  got'[i] = got[i] /\ got[i] <= k /\ got[i] \in Nat
      <4>1. i \in 1 .. Len(got) + n /\ i <= Len(got) /\ got[i] \in Byte
        BY <1>1
      <4> QED
        BY <2>2, <4>1 DEF GotUpTo, Byte
    <3> QED
      BY <3>1, <3>2
  <2>4. ReadsAscend'
    <3>1. ASSUME NEW i \in 1 .. Len(got) + n, NEW j \in 1 .. Len(got) + n, i < j
          PROVE  got'[i] < got'[j]
      <4>0. Len(got) \in Nat /\ n \in Nat
        BY <1>1
      <4>1. CASE j <= Len(got)
        <5>1. i \in 1 .. Len(got) /\ j \in 1 .. Len(got) /\ i \in DOMAIN got /\ j \in DOMAIN got
          BY <3>1, <4>0, <4>1
        <5> QED
          BY <2>3, <3>1, <5>1 DEF ReadsAscend
      <4>2. CASE i <= Len(got) /\ ~(j <= Len(got))
        BY <2>3, <4>0, <4>2
      <4>3. CASE ~(i <= Len(got)) /\ ~(j <= Len(got))
        BY <2>3, <3>1, <4>0, <4>3, SMTT(30)
      <4> QED
        BY <3>1, <4>0, <4>1, <4>2, <4>3
    <3>2. DOMAIN got' = 1 .. Len(got) + n
      BY <2>2
    <3> QED
      BY <3>1, <3>2 DEF ReadsAscend
  <2>5. GotUpTo(k + n)'
    <3>1. ASSUME NEW i \in 1 .. Len(got) + n
          PROVE  got'[i] <= k + n
      BY <1>1, <2>3, <3>1
    <3>2. ASSUME ~timedOut
          PROVE  From(got', 0) /\ Len(got') = k + n
      <4>1. From(got, 0) /\ Len(got) = k /\ 0 + Len(got) = k
        BY <3>2 DEF GotUpTo
      <4> QED
        BY <1>3, <2>1, <2>2, <4>1, FromConcat
    <3> QED
      BY <2>2, <3>1, <3>2 DEF GotUpTo
  <2> QED
    BY <1>3, <1>4, <1>5, <2>1, <2>2, <2>4, <2>5
<1>6. CASE ~c.live
  <2>1. UNCHANGED <<reading, over, deadline, got>>
    BY <1>2, <1>6 DEF Finish
  <2>2. GotUpTo(k + n)'
    <3>1. ASSUME NEW i \in 1 .. Len(got)
          PROVE  got[i] <= k + n
      <4>1. got[i] \in Byte /\ got[i] <= k
        BY DEF GotUpTo
      <4> QED
        BY <1>1, <4>1 DEF Byte
    <3> QED
      BY <1>6, <2>1, <3>1 DEF GotUpTo
  <2>3. ReadsAscend'
    BY <2>1 DEF ReadsAscend
  <2> QED
    BY <1>3, <1>4, <1>6, <2>1, <2>2, <2>3
<1> QED
  BY <1>5, <1>6

-----------------------------------------------------------------------------
(* Goroutines that wait, and whose user does.                              *)

\* One more goroutine.
LEMMA AppendLive ==
  ASSUME NEW q \in Seq(Calls), NEW c \in Calls
  PROVE  LET r == Append(q, c) IN
         /\ r \in Seq(Calls) /\ r # <<>>
         /\ SomeLive(r) <=> SomeLive(q) \/ c.live
         /\ OneLive(q) /\ ~(SomeLive(q) /\ c.live) => OneLive(r)
         /\ AllLive(q) /\ c.live => AllLive(r)
<1> DEFINE r == Append(q, c)
<1>1. /\ r \in Seq(Calls) /\ r # <<>> /\ Len(r) = Len(q) + 1
      /\ \A i \in 1..Len(q) : r[i] = q[i]
      /\ r[Len(q) + 1] = c
  BY AppendProperties
<1>2. Len(q) \in Nat /\ \A i \in 1..Len(r) : i \in 1..Len(q) \/ i = Len(q) + 1
  BY <1>1
<1>3. 1..Len(q) \subseteq 1..Len(r) /\ Len(q) + 1 \in 1..Len(r)
  BY <1>1, <1>2
<1> HIDE DEF r
<1>4. SomeLive(r) <=> SomeLive(q) \/ c.live
  BY <1>1, <1>2, <1>3 DEF SomeLive
<1>5. OneLive(q) /\ ~(SomeLive(q) /\ c.live) => OneLive(r)
  BY <1>1, <1>2 DEF OneLive, SomeLive
<1>6. AllLive(q) /\ c.live => AllLive(r)
  BY <1>1, <1>2 DEF AllLive
<1> QED
  BY <1>1, <1>4, <1>5, <1>6 DEF r

\* One goroutine less.
LEMMA RemoveLive ==
  ASSUME NEW q \in Seq(Calls), NEW k \in 1..Len(q), OneLive(q)
  PROVE  LET r == RemoveAt(q, k) IN
         /\ q[k] \in Calls /\ r \in Seq(Calls) /\ OneLive(r)
         /\ SomeLive(r) <=> SomeLive(q) /\ ~q[k].live
         /\ q[k].live => SomeLive(q)
         /\ AllLive(q) => AllLive(r) /\ q[k].live /\ r = <<>>
<1> DEFINE r == RemoveAt(q, k)
           left == SubSeq(q, 1, k - 1)
           right == SubSeq(q, k + 1, Len(q))
<1>0. Len(q) \in Nat /\ k \in Nat /\ 1 <= k /\ k <= Len(q) /\ \A i \in 1..Len(q) : q[i] \in Calls
  OBVIOUS
<1>1. /\ left \in Seq(Calls) /\ Len(left) = k - 1
      /\ \A i \in 1..k - 1 : left[i] = q[i]
  BY <1>0, SubSeqProperties
<1>2. /\ right \in Seq(Calls) /\ Len(right) = Len(q) - k
      /\ \A i \in 1..Len(q) - k : right[i] = q[k + i]
  BY <1>0, SubSeqProperties
<1>3. r = left \o right
  BY DEF RemoveAt
<1> HIDE DEF r, left, right
<1>4. /\ r \in Seq(Calls) /\ Len(r) = Len(q) - 1
      /\ \A i \in 1..Len(q) - 1 : r[i] = IF i <= k - 1 THEN left[i] ELSE right[i - (k - 1)]
  <2>1. /\ left \o right \in Seq(Calls) /\ Len(left \o right) = Len(left) + Len(right)
        /\ \A i \in 1..Len(left) + Len(right) :
             (left \o right)[i] = IF i <= Len(left) THEN left[i] ELSE right[i - Len(left)]
    BY <1>1, <1>2, ConcatProperties
  <2>2. Len(left) + Len(right) = Len(q) - 1
    BY <1>0, <1>1, <1>2
  <2> QED
    BY <1>1, <1>3, <2>1, <2>2
<1>5. \A i \in 1..Len(r) : r[i] = IF i < k THEN q[i] ELSE q[i + 1]
  <2>1. ASSUME NEW i \in 1..Len(r) PROVE r[i] = IF i < k THEN q[i] ELSE q[i + 1]
    <3>1. CASE i < k
      BY <1>0, <1>1, <1>4, <3>1, SMTT(30)
    <3>2. CASE ~(i < k)
      <4>1. i - (k - 1) \in 1..Len(q) - k /\ k + (i - (k - 1)) = i + 1 /\ ~(i <= k - 1)
        BY <1>0, <1>4, <3>2
      <4> QED
        BY <1>2, <1>4, <3>2, <4>1
    <3> QED
      BY <3>1, <3>2
  <2> QED
    BY <2>1
<1>6. OneLive(r)
  <2>1. ASSUME NEW i \in 1..Len(r), NEW j \in 1..Len(r), r[i].live, r[j].live
        PROVE  i = j
    <3> DEFINE at(x) == IF x < k THEN x ELSE x + 1
    <3>1. at(i) \in 1..Len(q) /\ at(j) \in 1..Len(q) /\ (at(i) = at(j) => i = j)
      BY <1>0, <1>4
    <3>2. r[i] = q[at(i)] /\ r[j] = q[at(j)]
      BY <1>5
    <3> QED
      BY <2>1, <3>1, <3>2 DEF OneLive
  <2> QED
    BY <2>1 DEF OneLive
<1>7. SomeLive(r) => SomeLive(q) /\ ~q[k].live
  <2> SUFFICES ASSUME NEW i \in 1..Len(r), r[i].live PROVE SomeLive(q) /\ ~q[k].live
    BY DEF SomeLive
  <2>1. PICK j \in 1..Len(q) : j # k /\ r[i] = q[j]
    <3>1. CASE i < k
      BY <1>0, <1>4, <1>5, <3>1
    <3>2. CASE ~(i < k)
      BY <1>0, <1>4, <1>5, <3>2
    <3> QED
      BY <3>1, <3>2
  <2> QED
    BY <2>1 DEF SomeLive, OneLive
<1>8. SomeLive(q) /\ ~q[k].live => SomeLive(r)
  <2> SUFFICES ASSUME NEW j \in 1..Len(q), q[j].live, ~q[k].live PROVE SomeLive(r)
    BY DEF SomeLive
  <2>1. CASE j < k
    <3>1. j \in 1..Len(r) /\ r[j] = q[j]
      BY <1>0, <1>4, <1>5, <2>1
    <3> QED
      BY <3>1 DEF SomeLive
  <2>2. CASE j > k
    <3>1. j - 1 \in 1..Len(r) /\ ~(j - 1 < k) /\ (j - 1) + 1 = j
      BY <1>0, <1>4, <2>2
    <3>2. r[j - 1] = q[j]
      BY <1>5, <3>1
    <3> QED
      BY <3>1, <3>2 DEF SomeLive
  <2> QED
    BY <1>0, <2>1, <2>2
<1>9. ASSUME AllLive(q) PROVE AllLive(r) /\ q[k].live /\ r = <<>>
  <2>1. Len(q) = 1
    <3>1. 1 \in 1..Len(q) /\ Len(q) \in 1..Len(q)
      BY <1>0
    <3>2. q[1].live /\ q[Len(q)].live
      BY <1>9, <3>1 DEF AllLive
    <3> QED
      BY <3>1, <3>2 DEF OneLive
  <2>2. r = <<>>
    BY <1>4, <2>1, EmptySeq
  <2> QED
    BY <1>9, <2>2 DEF AllLive
<1>10. q[k].live => SomeLive(q)
  BY DEF SomeLive
<1> QED
  BY <1>0, <1>4, <1>6, <1>7, <1>8, <1>9, <1>10 DEF r

\* The oldest goroutine goes.
LEMMA TailLive ==
  ASSUME NEW q \in Seq(Calls), q # <<>>, OneLive(q)
  PROVE  LET r == Tail(q) IN
         /\ Head(q) \in Calls /\ r \in Seq(Calls) /\ OneLive(r)
         /\ SomeLive(r) <=> SomeLive(q) /\ ~Head(q).live
         /\ Head(q).live => SomeLive(q)
         /\ AllLive(q) => AllLive(r) /\ Head(q).live /\ r = <<>>
<1>1. 1 \in 1..Len(q) /\ Head(q) = q[1]
  BY EmptySeq
<1>2. RemoveAt(q, 1) = Tail(q)
  <2>1. SubSeq(q, 1, 0) = <<>> /\ SubSeq(q, 2, Len(q)) = Tail(q) /\ Tail(q) \in Seq(Calls)
    BY <1>1, TailIsSubSeq, SubSeqEmpty, HeadTailProperties
  <2>2. <<>> \o Tail(q) = Tail(q)
    BY <2>1, ConcatEmptySeq
  <2> QED
    BY <2>1, <2>2 DEF RemoveAt
<1> QED
  BY <1>1, <1>2, RemoveLive, ZenonT(60)

\* When the user leaves, no goroutine has a user.
LEMMA AbandonLive ==
  ASSUME NEW q \in Seq(Calls)
  PROVE  LET r == Abandon(q) IN r \in Seq(Calls) /\ OneLive(r) /\ ~SomeLive(r)
<1> DEFINE r == Abandon(q)
<1>1. DOMAIN q = 1..Len(q) /\ Len(q) \in Nat /\ \A i \in 1..Len(q) : q[i] \in Calls
  OBVIOUS
<1>2. \A i \in 1..Len(q) : r[i] \in Calls /\ ~r[i].live
  BY <1>1 DEF Abandon, Calls
<1>3. r \in Seq(Calls) /\ Len(r) = Len(q)
  BY <1>1, <1>2 DEF Abandon
<1> HIDE DEF r
<1> QED
  BY <1>2, <1>3 DEF OneLive, SomeLive, r

-----------------------------------------------------------------------------
(* The two sides of the socket, and the queue of the stream.               *)

\* Steps that leave the bytes alone and end no call with an error.
LEMMA BytesFrame ==
  ASSUME BytesInv, UNCHANGED <<sent, queue, ended, buf, got, timedOut>>
  PROVE  BytesInv'
BY ZenonT(60) DEF BytesInv, QueueIs, GotUpTo, From

\* Steps that concern the writing side.
LEMMA ReadFrame ==
  ASSUME ReadInv, UNCHANGED <<streamVars, readerVars, readVars>>
  PROVE  ReadInv'
<1> USE DEF streamVars, readerVars, readVars, ReadInv
<1>1. ReadType'
  BY DEF ReadType, SomeLive
<1>2. CallsInv'
  BY DEF CallsInv, OneLive, SomeLive, AllLive
<1>3. ReadsAscend' /\ OverInv'
  BY DEF ReadsAscend, OverInv
<1>4. BytesInv'
  BY BytesFrame
<1> QED
  BY <1>1, <1>2, <1>3, <1>4

\* Steps that concern the reading side.
LEMMA WriteFrame ==
  ASSUME WriteInv, UNCHANGED writeVars
  PROVE  WriteInv'
BY DEF WriteInv, WriteType, WroteIsOnWire, writeVars

\* A queue of one chunk.
LEMMA QueueOfOne ==
  ASSUME NEW q, NEW end \in {"open", "closed"}, NEW last, NEW b,
         q # <<>>, From(q[1], b), Len(q) = 1, b + Len(q[1]) = last
  PROVE  QueueIs(q, end, last, b)
BY DEF QueueIs

\* The queue q without its oldest chunk is t: only the lengths matter.
LEMMA QueueShrinks ==
  ASSUME NEW q, NEW t, NEW end, NEW last \in Nat, NEW b \in Nat, QueueIs(q, end, last, b),
         q # <<>>, Len(q[1]) \in Nat, Len(q) = 1 => t = <<>>,
         Len(q) = 2 => t # <<>> /\ Len(t) = 1 /\ t[1] = q[2] /\ Len(q[2]) \in Nat
  PROVE  /\ end \in {"open", "closed"} /\ From(q[1], b) /\ b + Len(q[1]) \in 0..last
         /\ QueueIs(t, end, last, b + Len(q[1]))
<1>1. end \in {"open", "closed"} /\ From(q[1], b)
  BY DEF QueueIs
<1>2. CASE Len(q) = 1 /\ b + Len(q[1]) = last
  <2>1. t = <<>>
    BY <1>2
  <2>2. QueueIs(t, end, last, b + Len(q[1]))
    BY <1>2, <2>1 DEF QueueIs
  <2> QED
    BY <1>1, <1>2, <2>2
<1>3. CASE Len(q) = 2 /\ From(q[2], b + Len(q[1])) /\ b + Len(q[1]) + Len(q[2]) = last
  <2>1. t # <<>> /\ Len(t) = 1 /\ t[1] = q[2] /\ Len(q[2]) \in Nat
    BY <1>3
  <2>2. b + Len(q[1]) \in 0..last
    BY <1>3, <2>1
  <2>3. From(t[1], b + Len(q[1])) /\ (b + Len(q[1])) + Len(t[1]) = last
    BY <1>3, <2>1
  <2>4. QueueIs(t, end, last, b + Len(q[1]))
    BY <1>1, <2>1, <2>3, QueueOfOne
  <2> QED
    BY <1>1, <2>2, <2>4
<1> QED
  BY <1>2, <1>3 DEF QueueIs

\* The oldest chunk leaves the queue.
LEMMA QueueTail ==
  ASSUME NEW q \in Seq(Seq(Byte)), q # <<>>, NEW end, NEW last \in Nat, NEW b \in 0..last,
         QueueIs(q, end, last, b)
  PROVE  /\ Head(q) \in Seq(Byte) /\ From(Head(q), b) /\ Tail(q) \in Seq(Seq(Byte))
         /\ Len(Head(q)) \in Nat /\ b + Len(Head(q)) \in 0..last
         /\ QueueIs(Tail(q), end, last, b + Len(Head(q))) /\ end \in {"open", "closed"}
<1>1. /\ Head(q) \in Seq(Byte) /\ Tail(q) \in Seq(Seq(Byte)) /\ Len(Tail(q)) = Len(q) - 1
      /\ \A i \in 1..Len(Tail(q)) : Tail(q)[i] = q[i + 1]
  BY HeadTailProperties
<1>2. Head(q) = q[1] /\ Len(Head(q)) \in Nat /\ b \in Nat
  BY <1>1, LenProperties
<1>3. Len(q) = 1 => Tail(q) = <<>>
  <2> SUFFICES ASSUME Len(q) = 1 PROVE Tail(q) = <<>>
    OBVIOUS
  <2>1. Len(Tail(q)) = 0
    BY <1>1
  <2> QED
    BY <1>1, <2>1, EmptySeq
<1>4. Len(q) = 2 => Tail(q) # <<>> /\ Len(Tail(q)) = 1 /\ Tail(q)[1] = q[2] /\ Len(q[2]) \in Nat
  <2> SUFFICES ASSUME Len(q) = 2
               PROVE  Tail(q) # <<>> /\ Len(Tail(q)) = 1 /\ Tail(q)[1] = q[2] /\ Len(q[2]) \in Nat
    OBVIOUS
  <2>0. Len(Tail(q)) = Len(q) - 1
    BY <1>1
  <2>1. Len(Tail(q)) = 1 /\ 1 \in 1..Len(Tail(q)) /\ 1 + 1 = 2 /\ 2 \in 1..Len(q)
    BY <2>0, SMTT(30)
  <2>2. Tail(q) # <<>>
    BY <1>1, <2>1, EmptySeq
  <2>3. Tail(q)[1] = q[1 + 1]
    BY <1>1, <2>1
  <2>4. q[2] \in Seq(Byte)
    BY <2>1, ElementOfSeq
  <2> QED
    BY <2>1, <2>2, <2>3, <2>4, LenProperties
<1> QED
  BY <1>1, <1>2, <1>3, <1>4, QueueShrinks

\* The queue q with one more chunk is r: only the lengths matter.
LEMMA QueueGrows ==
  ASSUME NEW q, NEW r, NEW chunk, NEW last \in Nat, NEW b \in Nat, QueueIs(q, "open", last, b),
         From(chunk, last), Len(chunk) \in Nat, r # <<>>,
         q = <<>> => Len(r) = 1 /\ r[1] = chunk,
         q # <<>> => Len(q) = 1 /\ Len(r) = 2 /\ r[1] = q[1] /\ r[2] = chunk
  PROVE  QueueIs(r, "open", last + Len(chunk), b)
<1>1. CASE q = <<>>
  <2>1. b = last
    BY <1>1 DEF QueueIs
  <2>2. From(r[1], b) /\ b + Len(r[1]) = last + Len(chunk) /\ Len(r) = 1
    BY <1>1, <2>1
  <2>3. "open" \in {"open", "closed"}
    OBVIOUS
  <2> QED
    BY <2>2, <2>3, QueueOfOne
<1>2. CASE q # <<>>
  <2>1. From(q[1], b) /\ b + Len(q[1]) = last
    BY <1>2 DEF QueueIs
  <2>2. /\ From(r[1], b) /\ From(r[2], b + Len(r[1])) /\ Len(r) = 2
        /\ b + Len(r[1]) + Len(r[2]) = last + Len(chunk)
    BY <1>2, <2>1
  <2>3. "open" \in {"open", "closed"}
    OBVIOUS
  <2> QED
    BY <2>2, <2>3, Zenon DEF QueueIs
<1> QED
  BY <1>1, <1>2

\* A chunk joins it.
LEMMA QueueAppend ==
  ASSUME NEW q \in Seq(Seq(Byte)), Len(q) < 2, NEW last \in Nat, NEW b \in 0..last,
         QueueIs(q, "open", last, b),
         NEW chunk \in Seq(Byte), From(chunk, last)
  PROVE  QueueIs(Append(q, chunk), "open", last + Len(chunk), b)
<1>1. /\ Append(q, chunk) # <<>> /\ Len(Append(q, chunk)) = Len(q) + 1
      /\ \A i \in 1..Len(q) : Append(q, chunk)[i] = q[i]
      /\ Append(q, chunk)[Len(q) + 1] = chunk
  BY AppendProperties
<1>2. b \in Nat /\ Len(chunk) \in Nat /\ Len(q) \in Nat
  BY LenProperties
<1>3. q = <<>> => Len(Append(q, chunk)) = 1 /\ Append(q, chunk)[1] = chunk
  <2> SUFFICES ASSUME q = <<>> PROVE Len(Append(q, chunk)) = 1 /\ Append(q, chunk)[1] = chunk
    OBVIOUS
  <2>1. Len(q) = 0 /\ Len(q) + 1 = 1
    BY EmptySeq
  <2> QED
    BY <1>1, <2>1
<1>4. q # <<>> => /\ Len(q) = 1 /\ Len(Append(q, chunk)) = 2
                  /\ Append(q, chunk)[1] = q[1] /\ Append(q, chunk)[2] = chunk
  <2> SUFFICES ASSUME q # <<>>
               PROVE  /\ Len(q) = 1 /\ Len(Append(q, chunk)) = 2
                      /\ Append(q, chunk)[1] = q[1] /\ Append(q, chunk)[2] = chunk
    OBVIOUS
  <2>1. Len(q) # 0
    BY EmptySeq
  <2>2. Len(q) = 1
    BY <1>2, <2>1, OneOfTwo
  <2>3. Len(q) + 1 = 2 /\ 1 \in 1..Len(q)
    BY <2>2
  <2> QED
    BY <1>1, <2>2, <2>3
<1> QED
  BY <1>1, <1>2, <1>3, <1>4, QueueGrows

-----------------------------------------------------------------------------
(* The steps of the reading side.                                          *)

\* A chunk arrives.
LEMMA ArriveInv == ASSUME ReadInv, Arrive PROVE ReadInv'
<1> USE DEF ReadInv, readerVars, readVars
<1>1. PICK c \in Chunks : /\ ended = "open" /\ sent + c <= MaxBytes /\ Len(queue) < 2
                          /\ sent' = sent + c
                          /\ queue' = Append(queue, [k \in 1..c |-> sent + k])
                          /\ UNCHANGED <<ended, readerVars, readVars>>
  BY DEF Arrive
<1> DEFINE chunk == [k \in 1..c |-> sent + k]
<1>2. c \in Nat /\ sent \in Nat /\ MaxBytes \in Nat /\ sent' \in 0..MaxBytes /\ sent <= sent'
  BY <1>1, SizesAssumption, BoundsAssumption DEF ReadType
<1>3. chunk \in Seq(Byte) /\ Len(chunk) = c /\ From(chunk, sent)
  BY <1>1, <1>2 DEF Byte, From
<1>4. queue' = Append(queue, chunk)
  BY <1>1
<1> HIDE DEF chunk
<1>5. queue \in Seq(Seq(Byte)) /\ queue' \in Seq(Seq(Byte)) /\ Len(queue) < 2
  <2>1. queue \in Seq(Seq(Byte)) /\ Len(queue) < 2
    BY <1>1 DEF ReadType
  <2> QED
    BY <1>3, <1>4, <2>1, AppendProperties
<1>6. ReadType' /\ ReadsAscend' /\ CallsInv' /\ OverInv'
  BY <1>1, <1>2, <1>5 DEF ReadType, ReadsAscend, CallsInv, OverInv, SomeLive, OneLive, AllLive
<1>7. BytesInv'
  <2>1. PICK b \in 0..sent : \E k \in 0..b :
          /\ QueueIs(queue, ended, sent, b) /\ GotUpTo(k)
          /\ From(buf, k) /\ k + Len(buf) <= b
          /\ ended \in {"open", "closed"} => k + Len(buf) = b
    BY DEF BytesInv
  <2>2. QueueIs(queue', ended', sent', b)
    BY <1>1, <1>2, <1>3, <1>4, <1>5, <2>1, QueueAppend
  <2>3. b \in 0..sent'
    BY <1>2
  <2> QED
    BY <1>1, <2>1, <2>2, <2>3 DEF BytesInv, GotUpTo, From
<1> QED
  BY <1>6, <1>7

\* The stream ends, by the peer or by CloseRead.
LEMMA EndInv == ASSUME ReadInv, End \/ CloseRead PROVE ReadInv'
<1> USE DEF ReadInv, readerVars, readVars
<1>1. /\ UNCHANGED <<sent, readerVars, readVars>>
      /\ \/ ended = "open" /\ ended' = "closed" /\ queue' = queue
         \/ ended' \in {"errored", "cancelled"} /\ queue' = <<>>
      /\ ended = "open" \/ ended' = "cancelled"
  BY DEF End, CloseRead
<1>2. <<>> \in Seq(Seq(Byte))
  OBVIOUS
<1>3. ReadType' /\ ReadsAscend' /\ CallsInv' /\ OverInv'
  BY <1>1, <1>2 DEF ReadType, ReadsAscend, CallsInv, OverInv, SomeLive, OneLive, AllLive
<1>4. BytesInv'
  <2>1. PICK b \in 0..sent : \E k \in 0..b :
          /\ QueueIs(queue, ended, sent, b) /\ GotUpTo(k)
          /\ From(buf, k) /\ k + Len(buf) <= b
          /\ ended \in {"open", "closed"} => k + Len(buf) = b
    BY DEF BytesInv
  <2>2. QueueIs(queue', ended', sent', b)
    <3>1. CASE ended = "open" /\ ended' = "closed" /\ queue' = queue
      BY <1>1, <2>1, <3>1 DEF QueueIs
    <3>2. CASE ended' \in {"errored", "cancelled"} /\ queue' = <<>>
      BY <1>1, <3>2 DEF QueueIs
    <3> QED
      BY <1>1, <3>1, <3>2
  <2> QED
    BY <1>1, <2>1, <2>2 DEF BytesInv, GotUpTo, From
<1> QED
  BY <1>3, <1>4

\* Read starts a goroutine and waits for it.
LEMMA ReadCallInv == ASSUME ReadInv, Read PROVE ReadInv'
<1> USE DEF ReadInv
<1>1. PICK n \in Slices :
        /\ ~reading /\ ~over /\ reads < MaxReads /\ reads' = reads + 1 /\ reading' = TRUE
        /\ spawned' = Append(spawned, [len |-> n, live |-> TRUE])
        /\ UNCHANGED <<got, over, timedOut, streamVars, readerVars>>
  BY DEF Read
<1> DEFINE c == [len |-> n, live |-> TRUE]
<1>2. c \in Calls /\ c.live /\ spawned' = Append(spawned, c)
  BY <1>1 DEF Calls
<1> HIDE DEF c
<1>3. ~SomeLive(waiting) /\ ~SomeLive(spawned)
  BY <1>1 DEF ReadType
<1>4. /\ spawned' \in Seq(Calls) /\ SomeLive(spawned') /\ OneLive(spawned')
      /\ AllLive(spawned) => AllLive(spawned')
  BY <1>2, <1>3, AppendLive DEF ReadType, CallsInv
<1>5. reads' \in 0..MaxReads
  BY <1>1, BoundsAssumption DEF ReadType
<1>6. ReadType'
  BY <1>1, <1>3, <1>4, <1>5 DEF ReadType, streamVars, readerVars
<1>7. CallsInv'
  BY <1>1, <1>3, <1>4 DEF CallsInv, readerVars
<1>8. ReadsAscend' /\ OverInv'
  BY <1>1 DEF ReadsAscend, OverInv
<1>9. BytesInv'
  BY <1>1, BytesFrame DEF streamVars, readerVars
<1> QED
  BY <1>6, <1>7, <1>8, <1>9

\* The goroutine of a call starts.
LEMMA ReadStartInv == ASSUME ReadInv, ReadStart PROVE ReadInv'
<1> USE DEF ReadInv
<1>1. PICK j \in 1..Len(spawned) :
        /\ spawned' = RemoveAt(spawned, j) /\ streamReader' = TRUE
        /\ IF buf # <<>>
           THEN TakeFrom(buf, spawned[j]) /\ UNCHANGED waiting
           ELSE /\ waiting' = Append(waiting, spawned[j])
                /\ UNCHANGED <<buf, reading, deadline, got, over>>
        /\ UNCHANGED <<reads, timedOut, streamVars>>
  <2>1. DOMAIN spawned = 1..Len(spawned)
    BY DEF ReadType
  <2> QED
    BY <2>1 DEF ReadStart
<1> DEFINE c == spawned[j]
<1>2. /\ c \in Calls /\ spawned' \in Seq(Calls) /\ OneLive(spawned')
      /\ SomeLive(spawned') <=> SomeLive(spawned) /\ ~c.live
      /\ c.live => SomeLive(spawned)
      /\ AllLive(spawned) => AllLive(spawned') /\ c.live
  BY <1>1, RemoveLive DEF ReadType, CallsInv
<1> HIDE DEF c
<1>3. CASE buf # <<>>
  <2>1. TakeFrom(buf, c) /\ waiting' = waiting /\ streamReader' = TRUE
        /\ UNCHANGED <<reads, timedOut, sent, queue, ended>>
    BY <1>1, <1>3 DEF c, streamVars
  <2>0. PICK b \in 0..sent : \E k \in 0..b :
          /\ QueueIs(queue, ended, sent, b) /\ GotUpTo(k)
          /\ From(buf, k) /\ k + Len(buf) <= b
          /\ ended \in {"open", "closed"} => k + Len(buf) = b
    BY DEF BytesInv
  <2>2. PICK k \in 0..b :
          /\ QueueIs(queue, ended, sent, b) /\ GotUpTo(k)
          /\ From(buf, k) /\ k + Len(buf) <= b
          /\ ended \in {"open", "closed"} => k + Len(buf) = b
    BY <2>0
  <2>3. k \in Nat /\ b \in Nat /\ buf \in Seq(Byte) /\ Len(buf) \in Nat /\ got \in Seq(Byte)
        /\ (~timedOut => c.live)
    BY <1>2 DEF ReadType, CallsInv
  <2>4. /\ buf' \in Seq(Byte) /\ got' \in Seq(Byte) /\ ReadsAscend'
        /\ c.live => reading' = FALSE /\ over' = FALSE
        /\ ~c.live => UNCHANGED <<reading, over, deadline, got>>
        /\ \E m \in k .. k + Len(buf) :
             GotUpTo(m)' /\ From(buf', m) /\ m + Len(buf') = k + Len(buf)
    BY <1>2, <2>1, <2>2, <2>3, TakeFacts
  <2>5. BytesInv'
    <3>1. PICK m \in k .. k + Len(buf) :
             GotUpTo(m)' /\ From(buf', m) /\ m + Len(buf') = k + Len(buf)
      BY <2>4
    <3>2. QueueIs(queue', ended', sent', b)
      BY <2>1, <2>2 DEF QueueIs
    <3>3. m \in 0..b
      BY <2>2, <2>3
    <3> QED
      BY <2>1, <2>2, <3>1, <3>2, <3>3 DEF BytesInv, From
  <2>6. ReadType'
    <3>1. reading' \in BOOLEAN /\ over' \in BOOLEAN
          /\ (reading' <=> SomeLive(waiting') \/ SomeLive(spawned'))
      <4>1. /\ reading \in BOOLEAN /\ over \in BOOLEAN
            /\ reading <=> SomeLive(waiting) \/ SomeLive(spawned)
            /\ ~(SomeLive(waiting) /\ SomeLive(spawned)) /\ waiting' = waiting
        BY <2>1 DEF ReadType, CallsInv
      <4>2. CASE c.live
        <5>1. reading' = FALSE /\ over' = FALSE
          BY <2>4, <4>2
        <5>2. ~SomeLive(waiting') /\ ~SomeLive(spawned')
          BY <1>2, <4>1, <4>2
        <5> QED
          BY <5>1, <5>2
      <4>3. CASE ~c.live
        <5>1. reading' = reading /\ over' = over
          BY <2>4, <4>3
        <5>2. SomeLive(waiting') = SomeLive(waiting) /\ (SomeLive(spawned') <=> SomeLive(spawned))
          BY <1>2, <4>1, <4>3
        <5> QED
          BY <4>1, <5>1, <5>2, Zenon
      <4> QED
        BY <4>2, <4>3
    <3> QED
      BY <1>2, <2>1, <2>4, <3>1 DEF ReadType
  <2>7. CallsInv'
    BY <1>2, <1>3, <2>1 DEF CallsInv
  <2>8. OverInv'
    BY <2>1, <2>4 DEF OverInv
  <2> QED
    BY <2>4, <2>5, <2>6, <2>7, <2>8
<1>4. CASE buf = <<>>
  <2>1. /\ waiting' = Append(waiting, c) /\ streamReader' = TRUE
        /\ UNCHANGED <<buf, reading, deadline, got, over, reads, timedOut, sent, queue, ended>>
    BY <1>1, <1>4 DEF c, streamVars
  <2>2. /\ waiting' \in Seq(Calls) /\ (SomeLive(waiting') <=> SomeLive(waiting) \/ c.live)
        /\ OneLive(waiting')
        /\ AllLive(waiting) /\ c.live => AllLive(waiting')
    BY <1>2, <2>1, AppendLive DEF ReadType, CallsInv
  <2>3. ReadType'
    BY <1>2, <2>1, <2>2 DEF ReadType
  <2>4. CallsInv'
    BY <1>2, <1>4, <2>1, <2>2 DEF CallsInv
  <2>5. ReadsAscend' /\ OverInv'
    BY <2>1 DEF ReadsAscend, OverInv
  <2>6. BytesInv'
    BY <2>1, BytesFrame
  <2> QED
    BY <2>3, <2>4, <2>5, <2>6
<1> QED
  BY <1>3, <1>4

\* The oldest promise resolves with the oldest chunk.
LEMMA ReadChunkInv == ASSUME ReadInv, ReadChunk PROVE ReadInv'
<1> USE DEF ReadInv
<1> DEFINE c == Head(waiting)
           b == buf \o Head(queue)
<1>1. /\ waiting # <<>> /\ queue # <<>> /\ queue' = Tail(queue)
      /\ IF b # <<>>
         THEN waiting' = Tail(waiting) /\ TakeFrom(b, c)
         ELSE /\ waiting' = Append(Tail(waiting), c)
              /\ UNCHANGED <<buf, reading, deadline, got, over>>
      /\ UNCHANGED <<sent, ended, streamReader, reads, spawned, timedOut>>
  BY DEF ReadChunk
<1>2. /\ c \in Calls /\ Tail(waiting) \in Seq(Calls) /\ OneLive(Tail(waiting))
      /\ SomeLive(Tail(waiting)) <=> SomeLive(waiting) /\ ~c.live
      /\ c.live => SomeLive(waiting)
      /\ AllLive(waiting) => AllLive(Tail(waiting)) /\ c.live /\ Tail(waiting) = <<>>
  BY <1>1, TailLive DEF ReadType, CallsInv
<1> HIDE DEF c
<1>0. PICK q \in 0..sent : \E k \in 0..q :
        /\ QueueIs(queue, ended, sent, q) /\ GotUpTo(k)
        /\ From(buf, k) /\ k + Len(buf) <= q
        /\ ended \in {"open", "closed"} => k + Len(buf) = q
  BY DEF BytesInv
<1>3. PICK k \in 0..q :
        /\ QueueIs(queue, ended, sent, q) /\ GotUpTo(k)
        /\ From(buf, k) /\ k + Len(buf) <= q
        /\ ended \in {"open", "closed"} => k + Len(buf) = q
  BY <1>0
<1>4. /\ Head(queue) \in Seq(Byte) /\ From(Head(queue), q)
      /\ Len(Head(queue)) \in Nat /\ queue' \in Seq(Seq(Byte))
      /\ q + Len(Head(queue)) \in 0..sent
      /\ QueueIs(queue', ended', sent', q + Len(Head(queue)))
      /\ ended \in {"open", "closed"}
  <2>1. queue \in Seq(Seq(Byte)) /\ sent \in Nat
    BY DEF ReadType
  <2> QED
    BY <1>1, <1>3, <2>1, QueueTail
<1>d. PICK d \in 0..sent : d = q + Len(Head(queue)) /\ QueueIs(queue', ended', sent', d)
  BY <1>4
<1>5. k \in Nat /\ q \in Nat /\ sent \in Nat /\ buf \in Seq(Byte) /\ Len(buf) \in Nat /\ got \in Seq(Byte)
      /\ k + Len(buf) = q /\ (~timedOut => c.live)
  BY <1>2, <1>3, <1>4 DEF ReadType, CallsInv
<1>6. b \in Seq(Byte) /\ Len(b) = Len(buf) + Len(Head(queue)) /\ From(b, k)
  <2>1. From(Head(queue), k + Len(buf))
    BY <1>4, <1>5
  <2> QED
    BY <1>3, <1>4, <1>5, <2>1, FromConcat
<1> HIDE DEF b
<1>7. k + Len(b) = d
  <2>1. Len(Head(queue)) \in Nat /\ k \in Nat /\ Len(buf) \in Nat
    BY <1>4, <1>5
  <2>2. k + Len(buf) = q /\ Len(b) = Len(buf) + Len(Head(queue)) /\ d = q + Len(Head(queue))
    BY <1>5, <1>6, <1>d
  <2> QED
    BY <2>1, <2>2
<1>8. CASE b # <<>>
  <2>1. TakeFrom(b, c) /\ waiting' = Tail(waiting)
    BY <1>1, <1>8
  <2>2. /\ buf' \in Seq(Byte) /\ got' \in Seq(Byte) /\ ReadsAscend'
        /\ c.live => reading' = FALSE /\ over' = FALSE
        /\ ~c.live => UNCHANGED <<reading, over, deadline, got>>
        /\ \E m \in k .. k + Len(b) :
             GotUpTo(m)' /\ From(buf', m) /\ m + Len(buf') = k + Len(b)
    BY <1>1, <1>2, <1>3, <1>5, <1>6, <2>1, TakeFacts
  <2>3. BytesInv'
    <3>1. PICK m \in k .. k + Len(b) :
             GotUpTo(m)' /\ From(buf', m) /\ m + Len(buf') = k + Len(b)
      BY <2>2
    <3>2. m \in 0..d
      BY <1>5, <1>7
    <3>3. m + Len(buf') = d /\ m + Len(buf') <= d
      BY <1>5, <1>7, <3>1
    <3>4. d \in 0..sent'
      BY <1>1
    <3>5. From(buf, m)'
      BY <3>1 DEF From
    <3> QED
      BY <1>d, <3>1, <3>2, <3>3, <3>4, <3>5 DEF BytesInv
  <2>4. ReadType'
    <3>1. reading' \in BOOLEAN /\ over' \in BOOLEAN
          /\ (reading' <=> SomeLive(waiting') \/ SomeLive(spawned'))
      <4>1. /\ reading \in BOOLEAN /\ over \in BOOLEAN
            /\ reading <=> SomeLive(waiting) \/ SomeLive(spawned)
            /\ ~(SomeLive(waiting) /\ SomeLive(spawned))
            /\ waiting' = Tail(waiting) /\ spawned' = spawned
        BY <1>1, <2>1 DEF ReadType, CallsInv
      <4>2. CASE c.live
        <5>1. reading' = FALSE /\ over' = FALSE
          BY <2>2, <4>2
        <5>2. ~SomeLive(waiting') /\ ~SomeLive(spawned')
          BY <1>2, <4>1, <4>2
        <5> QED
          BY <5>1, <5>2
      <4>3. CASE ~c.live
        <5>1. reading' = reading /\ over' = over
          BY <2>2, <4>3
        <5>2. (SomeLive(waiting') <=> SomeLive(waiting)) /\ spawned' = spawned
          BY <1>2, <4>1, <4>3
        <5> QED
          BY <4>1, <5>1, <5>2, Zenon
      <4> QED
        BY <4>2, <4>3
    <3> QED
      BY <1>1, <1>2, <1>4, <2>1, <2>2, <3>1 DEF ReadType
  <2>5. CallsInv'
    BY <1>1, <1>2, <2>1 DEF CallsInv
  <2>6. OverInv'
    BY <1>1, <2>2 DEF OverInv
  <2> QED
    BY <2>2, <2>3, <2>4, <2>5, <2>6
<1>9. CASE b = <<>>
  <2>1. waiting' = Append(Tail(waiting), c) /\ UNCHANGED <<buf, reading, deadline, got, over>>
    BY <1>1, <1>9
  <2>2. /\ waiting' \in Seq(Calls) /\ waiting' # <<>>
        /\ (SomeLive(waiting') <=> SomeLive(Tail(waiting)) \/ c.live)
        /\ OneLive(waiting')
        /\ AllLive(Tail(waiting)) /\ c.live => AllLive(waiting')
    BY <1>2, <2>1, AppendLive
  <2>3. Len(b) = 0 /\ Len(Head(queue)) = 0
    BY <1>4, <1>5, <1>6, <1>9, EmptySeq
  <2>4. ReadType'
    BY <1>1, <1>2, <1>4, <2>1, <2>2 DEF ReadType
  <2>5. CallsInv'
    BY <1>1, <1>2, <2>1, <2>2 DEF CallsInv
  <2>6. ReadsAscend' /\ OverInv'
    BY <1>1, <2>1 DEF ReadsAscend, OverInv
  <2>7. BytesInv'
    <3>1. d = q
      BY <1>5, <1>d, <2>3
    <3>2. QueueIs(queue', ended', sent', q)
      BY <1>d, <3>1
    <3>3. GotUpTo(k)' /\ From(buf', k) /\ k + Len(buf') = q
      BY <1>1, <1>3, <1>5, <2>1 DEF GotUpTo
    <3> QED
      BY <1>1, <1>3, <1>5, <3>2, <3>3 DEF BytesInv
  <2> QED
    BY <2>4, <2>5, <2>6, <2>7
<1> QED
  BY <1>8, <1>9

\* The oldest promise resolves with done, or rejects.
LEMMA ReadOverInv == ASSUME ReadInv, ReadOver PROVE ReadInv'
<1> USE DEF ReadInv
<1> DEFINE c == Head(waiting)
<1>1. /\ waiting # <<>> /\ queue = <<>> /\ ended # "open" /\ waiting' = Tail(waiting)
      /\ Finish(c, <<>>, TRUE)
      /\ UNCHANGED <<streamReader, buf, reads, spawned, timedOut, sent, queue, ended>>
  BY DEF ReadOver, streamVars
<1>2. /\ c \in Calls /\ Tail(waiting) \in Seq(Calls) /\ OneLive(Tail(waiting))
      /\ SomeLive(Tail(waiting)) <=> SomeLive(waiting) /\ ~c.live
      /\ c.live => SomeLive(waiting)
      /\ AllLive(waiting) => AllLive(Tail(waiting)) /\ c.live /\ Tail(waiting) = <<>>
  BY <1>1, TailLive DEF ReadType, CallsInv
<1> HIDE DEF c
<1>3. got \in Seq(Byte) /\ got \o <<>> = got
  BY ConcatEmptySeq DEF ReadType
<1>4. /\ got' = got
      /\ c.live => reading' = FALSE /\ over' = TRUE
      /\ ~c.live => UNCHANGED <<reading, over>>
  BY <1>1, <1>3 DEF Finish
<1>5. ReadType'
  <2>1. reading' \in BOOLEAN /\ over' \in BOOLEAN
        /\ (reading' <=> SomeLive(waiting') \/ SomeLive(spawned'))
    <3>1. /\ reading \in BOOLEAN /\ over \in BOOLEAN
          /\ reading <=> SomeLive(waiting) \/ SomeLive(spawned)
          /\ ~(SomeLive(waiting) /\ SomeLive(spawned))
          /\ waiting' = Tail(waiting) /\ spawned' = spawned
      BY <1>1 DEF ReadType, CallsInv
    <3>2. CASE c.live
      <4>1. reading' = FALSE /\ over' = TRUE
        BY <1>4, <3>2
      <4>2. ~SomeLive(waiting') /\ ~SomeLive(spawned')
        BY <1>2, <3>1, <3>2
      <4> QED
        BY <4>1, <4>2
    <3>3. CASE ~c.live
      <4>1. reading' = reading /\ over' = over
        BY <1>4, <3>3
      <4>2. (SomeLive(waiting') <=> SomeLive(waiting)) /\ spawned' = spawned
        BY <1>2, <3>1, <3>3
      <4> QED
        BY <3>1, <4>1, <4>2, Zenon
    <3> QED
      BY <3>2, <3>3
  <2> QED
    BY <1>1, <1>2, <1>4, <2>1 DEF ReadType
<1>6. CallsInv'
  BY <1>1, <1>2 DEF CallsInv
<1>7. ReadsAscend'
  BY <1>4 DEF ReadsAscend
<1>8. BytesInv'
  BY <1>1, <1>4, BytesFrame
<1>9. ~timedOut /\ ended = "closed" => Len(got) = sent
  <2> SUFFICES ASSUME ~timedOut, ended = "closed" PROVE Len(got) = sent
    OBVIOUS
  <2>0. PICK b \in 0..sent : \E k \in 0..b :
          QueueIs(queue, ended, sent, b) /\ GotUpTo(k) /\ k + Len(buf) = b
    BY DEF BytesInv
  <2>1. PICK k \in 0..b : QueueIs(queue, ended, sent, b) /\ GotUpTo(k) /\ k + Len(buf) = b
    BY <2>0
  <2>2. Len(buf) = 0 /\ Len(queue) = 0
    BY <1>1 DEF CallsInv
  <2>3. b = sent /\ Len(got) = k /\ k = b
    BY <2>1, <2>2 DEF QueueIs, GotUpTo
  <2> QED
    BY <2>3
<1>10. OverInv'
  BY <1>1, <1>4, <1>9 DEF OverInv
<1> QED
  BY <1>5, <1>6, <1>7, <1>8, <1>10

\* The context of the call is done first.
LEMMA ReadExpiresInv == ASSUME ReadInv, ReadExpires PROVE ReadInv'
<1> USE DEF ReadInv
<1>1. /\ reading /\ reading' = FALSE /\ timedOut' = TRUE
      /\ spawned' = Abandon(spawned) /\ waiting' = Abandon(waiting)
      /\ UNCHANGED <<streamReader, buf, reads, got, over, sent, queue, ended>>
  BY DEF ReadExpires, streamVars
<1>2. /\ spawned' \in Seq(Calls) /\ OneLive(spawned') /\ ~SomeLive(spawned')
      /\ waiting' \in Seq(Calls) /\ OneLive(waiting') /\ ~SomeLive(waiting')
  BY <1>1, AbandonLive DEF ReadType
<1>3. ReadType'
  BY <1>1, <1>2 DEF ReadType
<1>4. CallsInv' /\ ReadsAscend' /\ OverInv'
  BY <1>1, <1>2 DEF CallsInv, ReadsAscend, OverInv
<1>5. BytesInv'
  BY <1>1, ZenonT(60) DEF BytesInv, QueueIs, GotUpTo, From
<1> QED
  BY <1>3, <1>4, <1>5

-----------------------------------------------------------------------------
(* The steps of the writing side.                                          *)

\* One more slice at the end of a sequence that does not hold it.
LEMMA NumberAppend ==
  ASSUME NEW S, NEW q \in Seq(S), NEW w \in S
  PROVE  LET r == Append(q, w) IN
         /\ r \in Seq(S) /\ Range(r) = Range(q) \cup {w}
         /\ Distinct(q) /\ w \notin Range(q) => Distinct(r)
         /\ Len(r) = Len(q) + 1 /\ r[Len(q) + 1] = w /\ \A i \in 1..Len(q) : r[i] = q[i]
<1> DEFINE r == Append(q, w)
<1>1. /\ r \in Seq(S) /\ Len(r) = Len(q) + 1 /\ Len(q) \in Nat
      /\ \A i \in 1..Len(q) : r[i] = q[i]
      /\ r[Len(q) + 1] = w
  BY AppendProperties, LenProperties
<1>2. DOMAIN r = 1..Len(r) /\ DOMAIN q = 1..Len(q)
  BY <1>1, LenProperties
<1>3. /\ \A i \in 1..Len(r) : i \in 1..Len(q) \/ i = Len(q) + 1
      /\ 1..Len(q) \subseteq 1..Len(r) /\ Len(q) + 1 \in 1..Len(r)
  BY <1>1
<1> HIDE DEF r
<1>4. Range(r) = Range(q) \cup {w}
  BY <1>1, <1>2, <1>3 DEF Range
<1>5. ASSUME Distinct(q), w \notin Range(q) PROVE Distinct(r)
  <2>1. \A i \in 1..Len(q) : q[i] # w
    BY <1>2, <1>5 DEF Range
  <2> QED
    BY <1>1, <1>3, <1>5, <2>1 DEF Distinct
<1> QED
  BY <1>1, <1>4, <1>5 DEF r

\* The oldest slice goes.
LEMMA NumberTail ==
  ASSUME NEW S, NEW q \in Seq(S), q # <<>>, Distinct(q)
  PROVE  /\ Head(q) \in S /\ Head(q) \in Range(q) /\ Head(q) \notin Range(Tail(q))
         /\ Tail(q) \in Seq(S) /\ Range(Tail(q)) \subseteq Range(q) /\ Distinct(Tail(q))
<1> DEFINE t == Tail(q)
<1>1. /\ Head(q) = q[1] /\ Head(q) \in S /\ t \in Seq(S) /\ Len(t) = Len(q) - 1
      /\ \A i \in 1..Len(t) : t[i] = q[i + 1]
  BY HeadTailProperties
<1>2. Len(q) \in Nat /\ Len(q) # 0
  BY EmptySeq, LenProperties
<1>3. DOMAIN t = 1..Len(t) /\ DOMAIN q = 1..Len(q)
  BY <1>1, LenProperties
<1> HIDE DEF t
<1>4. 1 \in 1..Len(q) /\ \A i \in 1..Len(t) : i \in Nat /\ i + 1 \in 1..Len(q) /\ i + 1 # 1
  BY <1>1, <1>2
<1>5. Head(q) \in Range(q) /\ Range(t) \subseteq Range(q)
  BY <1>1, <1>3, <1>4 DEF Range
<1>6. Head(q) \notin Range(t)
  <2>1. \A i \in 1..Len(t) : t[i] # Head(q)
    BY <1>1, <1>4 DEF Distinct
  <2> QED
    BY <1>3, <2>1 DEF Range
<1>7. Distinct(t)
  BY <1>1, <1>4 DEF Distinct
<1> QED
  BY <1>1, <1>5, <1>6, <1>7 DEF t

\* A call that has its answer, or is given up: nothing else changes.
LEMMA WriteEnds ==
  ASSUME WriteInv, UNCHANGED <<writes, wire, wrote>>,
         writable' \in {"open", "closing", "errored"},
         writing' \in {0, writing}, unwritten' \subseteq unwritten,
         pending' \in Seq(1..writes), Range(pending') \subseteq Range(pending), Distinct(pending')
  PROVE  WriteInv'
<1> USE DEF WriteInv
<1>1. WriteType'
  <2>1. writes \in Nat /\ writing' \in 0..writes
    BY BoundsAssumption DEF WriteType
  <2> QED
    BY <2>1 DEF WriteType
<1>2. (writing # 0 => writing = writes /\ writing \notin wrote)'
  OBVIOUS
<1>3. (/\ unwritten \cap (Range(pending) \cup Range(wire)) = {}
       /\ Range(pending) \cap Range(wire) = {})'
  OBVIOUS
<1>4. WroteIsOnWire'
  BY DEF WroteIsOnWire
<1>5. Distinct(pending)'
  BY DEF Distinct
<1> QED
  BY <1>1, <1>2, <1>3, <1>4, <1>5

\* Write takes the next number.
LEMMA WriteCallInv == ASSUME WriteInv, Write PROVE WriteInv'
<1> USE DEF WriteInv
<1> DEFINE w == writes + 1
<1>1. /\ writing = 0 /\ writes < MaxWrites /\ writes' = w /\ writing' = w
      /\ unwritten' = unwritten \cup {w}
      /\ UNCHANGED <<writable, pending, wire, wrote>>
  BY DEF Write
<1>2. /\ writes \in Nat /\ w \in 0..MaxWrites /\ w \in 1..w /\ w \in 0..w /\ 1..writes \subseteq 1..w
      /\ w \notin 1..writes
  BY <1>1, BoundsAssumption DEF WriteType
<1> HIDE DEF w
<1>3. /\ pending \in Seq(1..writes) /\ wire \in Seq(1..writes)
      /\ Range(pending) \subseteq 1..writes /\ Range(wire) \subseteq 1..writes
      /\ unwritten \subseteq 1..writes /\ wrote \subseteq 1..writes
  <2>1. pending \in Seq(1..writes) /\ wire \in Seq(1..writes)
    BY DEF WriteType
  <2> QED
    BY <2>1 DEF WriteType, Range
<1>4. pending' \in Seq(1..w) /\ wire' \in Seq(1..w)
  BY <1>1, <1>2, <1>3, SeqMonotonic
<1>5. WriteType'
  BY <1>1, <1>2, <1>3, <1>4 DEF WriteType
<1>6. (writing # 0 => writing = writes /\ writing \notin wrote)'
  BY <1>1, <1>2, <1>3
<1>7. (/\ unwritten \cap (Range(pending) \cup Range(wire)) = {}
       /\ Range(pending) \cap Range(wire) = {})'
  BY <1>1, <1>2, <1>3
<1>8. Distinct(pending)' /\ WroteIsOnWire'
  BY <1>1 DEF Distinct, WroteIsOnWire
<1> QED
  BY <1>5, <1>6, <1>7, <1>8

\* The goroutine of a call of Write runs.
LEMMA WriteStartInv == ASSUME WriteInv, NEW w, WriteStart(w) PROVE WriteInv'
<1> USE DEF WriteInv
<1>1. /\ w \in unwritten /\ unwritten' = unwritten \ {w}
      /\ UNCHANGED <<writable, writes, wire>>
      /\ IF writable = "open" THEN /\ pending' = Append(pending, w)
                                   /\ UNCHANGED <<writing, deadline, wrote>>
                              ELSE UNCHANGED pending /\ Written(w, FALSE)
  BY DEF WriteStart
<1>2. w \in 1..writes /\ pending \in Seq(1..writes) /\ w \notin Range(pending) \cup Range(wire)
  BY <1>1 DEF WriteType
<1>3. CASE writable = "open"
  <2>1. pending' = Append(pending, w) /\ UNCHANGED <<writing, wrote>>
    BY <1>1, <1>3
  <2>2. /\ pending' \in Seq(1..writes) /\ Range(pending') = Range(pending) \cup {w}
        /\ Distinct(pending')
    <3>1. Distinct(pending) /\ w \notin Range(pending)
      BY <1>2
    <3> DEFINE numbers == 1..writes
    <3>2. pending \in Seq(numbers) /\ w \in numbers
      BY <1>2
    <3> HIDE DEF WriteInv, numbers
    <3>3. /\ Append(pending, w) \in Seq(numbers)
          /\ Range(Append(pending, w)) = Range(pending) \cup {w}
          /\ Distinct(Append(pending, w))
      BY <3>1, <3>2, NumberAppend
    <3> QED
      BY <2>1, <3>3 DEF numbers
  <2>3. WriteType'
    BY <1>1, <2>1, <2>2 DEF WriteType
  <2>4. (/\ unwritten \cap (Range(pending) \cup Range(wire)) = {}
         /\ Range(pending) \cap Range(wire) = {})'
    BY <1>1, <1>2, <2>2
  <2>5. Distinct(pending)' /\ WroteIsOnWire'
    BY <1>1, <2>1, <2>2 DEF WroteIsOnWire, Distinct
  <2> QED
    BY <1>1, <2>1, <2>3, <2>4, <2>5
<1>4. CASE writable # "open"
  <2>1. pending' = pending /\ writing' \in {0, writing} /\ wrote' = wrote
    BY <1>1, <1>4 DEF Written
  <2>2. Distinct(pending') /\ writable' \in {"open", "closing", "errored"}
    BY <1>1, <2>1 DEF WriteType
  <2> QED
    BY <1>1, <1>2, <2>1, <2>2, WriteEnds
<1> QED
  BY <1>3, <1>4

\* A slice on the wire is in its place after those reported before.
LEMMA WireGrows ==
  ASSUME WriteInv, NEW h \in Range(pending), h \in 1..writes, wire' = Append(wire, h),
         \/ writing = h /\ wrote' = wrote \cup {h}
         \/ wrote' = wrote
  PROVE  WroteIsOnWire'
<1> USE DEF WriteInv
<1>1. wire \in Seq(1..writes) /\ writes \in Nat
  BY BoundsAssumption DEF WriteType
<1>2. /\ wire' \in Seq(1..writes) /\ Range(wire') = Range(wire) \cup {h}
      /\ Len(wire') = Len(wire) + 1 /\ wire'[Len(wire) + 1] = h
      /\ \A i \in 1..Len(wire) : wire'[i] = wire[i]
  BY <1>1, NumberAppend
<1>3. /\ DOMAIN wire = 1..Len(wire) /\ DOMAIN wire' = 1..Len(wire') /\ Len(wire) \in Nat
  BY <1>1, <1>2, LenProperties
<1>4. /\ \A i \in 1..Len(wire) : wire[i] \in 1..writes /\ wire[i] # h
      /\ h \notin wrote /\ wrote \subseteq Range(wire)
  <2>1. h \notin Range(wire)
    OBVIOUS
  <2>2. \A i \in 1..Len(wire) : wire[i] \in 1..writes /\ wire[i] \in Range(wire)
    BY <1>1, <1>3, SMTT(30) DEF Range
  <2> QED
    BY <2>1, <2>2 DEF WroteIsOnWire
<1>5. wrote' \subseteq Range(wire')
  BY <1>2, <1>4
<1>6. ASSUME NEW j \in DOMAIN wire', NEW k \in DOMAIN wire', j < k,
             wire'[j] \in wrote', wire'[k] \in wrote'
      PROVE  wire'[j] < wire'[k]
  <2>1. j \in 1..Len(wire) /\ (k \in 1..Len(wire) \/ k = Len(wire) + 1)
    BY <1>2, <1>3, <1>6
  <2>2. wire'[j] = wire[j] /\ wire[j] \in wrote
    BY <1>2, <1>4, <1>6, <2>1
  <2>3. CASE k \in 1..Len(wire)
    <3>1. wire'[k] = wire[k] /\ wire[k] \in wrote
      BY <1>2, <1>4, <1>6, <2>3
    <3> QED
      BY <1>3, <1>6, <2>1, <2>2, <2>3, <3>1 DEF WroteIsOnWire
  <2>4. CASE k = Len(wire) + 1
    <3>1. wire'[k] = h /\ h \in wrote'
      BY <1>2, <1>6, <2>4
    <3>2. h = writes
      <4>1. writing = h /\ h # 0
        BY <1>4, <3>1
      <4> QED
        BY <4>1
    <3>3. wire[j] \in 1..writes /\ wire[j] # writes
      BY <1>4, <2>1, <3>2
    <3> QED
      BY <1>1, <2>2, <3>1, <3>2, <3>3
  <2> QED
    BY <2>1, <2>3, <2>4
<1> QED
  BY <1>5, <1>6 DEF WroteIsOnWire

\* The oldest write() promise settles.
LEMMA WriteSettlesInv == ASSUME WriteInv, WriteSettles PROVE WriteInv'
<1> USE DEF WriteInv
<1> DEFINE h == Head(pending)
<1>1. /\ pending # <<>> /\ pending' = Tail(pending) /\ UNCHANGED <<writes, unwritten>>
      /\ \/ wire' = Append(wire, h) /\ UNCHANGED writable /\ Written(h, TRUE)
         \/ writable' = "errored" /\ UNCHANGED wire /\ Written(h, FALSE)
  BY DEF WriteSettles
<1>2. pending \in Seq(1..writes) /\ wire \in Seq(1..writes) /\ writes \in Nat
  BY BoundsAssumption DEF WriteType
<1>3. /\ h \in 1..writes /\ h \in Range(pending) /\ h \notin Range(pending')
      /\ pending' \in Seq(1..writes) /\ Range(pending') \subseteq Range(pending)
      /\ Distinct(pending')
  BY <1>1, <1>2, NumberTail
<1> HIDE DEF h
<1>4. CASE wire' = Append(wire, h) /\ UNCHANGED writable /\ Written(h, TRUE)
  <2>1. wire' \in Seq(1..writes) /\ Range(wire') = Range(wire) \cup {h}
    BY <1>2, <1>3, <1>4, NumberAppend
  <2>2. \/ writing = h /\ writing' = 0 /\ wrote' = wrote \cup {h}
        \/ writing' = writing /\ wrote' = wrote
    BY <1>4 DEF Written
  <2>3. WroteIsOnWire'
    BY <1>3, <1>4, <2>2, WireGrows
  <2>4. WriteType'
    <3>1. writing' \in 0..writes /\ wrote' \subseteq 1..writes
      <4>1. writing \in 0..writes /\ 0 \in 0..writes /\ wrote \subseteq 1..writes
        BY <1>2 DEF WriteType
      <4> QED
        BY <1>3, <2>2, <4>1
    <3> QED
      BY <1>1, <1>3, <1>4, <2>1, <3>1 DEF WriteType
  <2>5. (writing # 0 => writing = writes /\ writing \notin wrote)'
    BY <1>1, <2>2
  <2>6. (/\ unwritten \cap (Range(pending) \cup Range(wire)) = {}
         /\ Range(pending) \cap Range(wire) = {})'
    BY <1>1, <1>3, <2>1
  <2>7. Distinct(pending)'
    BY <1>3 DEF Distinct
  <2> QED
    BY <2>3, <2>4, <2>5, <2>6, <2>7
<1>5. CASE writable' = "errored" /\ UNCHANGED wire /\ Written(h, FALSE)
  <2>1. writing' \in {0, writing} /\ wrote' = wrote
    BY <1>5 DEF Written
  <2> QED
    BY <1>1, <1>3, <1>5, <2>1, WriteEnds
<1> QED
  BY <1>1, <1>4, <1>5

\* The call is given up, or the writer closed.
LEMMA WriteLeftInv == ASSUME WriteInv, WriteExpires \/ CloseWrite PROVE WriteInv'
<1> USE DEF WriteInv
<1>1. /\ UNCHANGED <<writes, unwritten, pending, wire, wrote>>
      /\ writing' \in {0, writing} /\ writable' \in {"open", "closing", "errored"}
  BY DEF WriteExpires, CloseWrite, WriteType
<1>2. pending' \in Seq(1..writes) /\ Range(pending') \subseteq Range(pending) /\ Distinct(pending')
  BY <1>1 DEF WriteType
<1> QED
  BY <1>1, <1>2, WriteEnds

-----------------------------------------------------------------------------
(* The invariant.                                                          *)

\* Deadlines and the clock.
LEMMA ClockInv == ASSUME ClockType, [Next]_vars PROVE ClockType'
<1> USE DEF ClockType
<1>1. Zero \in Zero..Never /\ Never \in Zero..Never /\ MaxTime \in Nat
  BY BoundsAssumption DEF Zero, Never
<1>2. UNCHANGED side /\ (UNCHANGED cancelled \/ cancelled' = TRUE)
      /\ (UNCHANGED now \/ (now < MaxTime /\ now' = now + 1))
      /\ (UNCHANGED readDeadline \/ readDeadline' \in Deadlines)
      /\ (UNCHANGED writeDeadline \/ writeDeadline' \in Deadlines)
      /\ deadline' \in {deadline, readDeadline, writeDeadline, Never}
  <2> USE DEF clockVars
  <2>1. CASE Tick
    BY <2>1 DEF Tick
  <2>2. CASE Arrive \/ End \/ Read
    BY <2>2 DEF Arrive, End, Read
  <2>3. CASE ReadStart
    BY <2>3 DEF ReadStart, TakeFrom, Finish
  <2>4. CASE ReadChunk
    BY <2>4 DEF ReadChunk, TakeFrom, Finish
  <2>5. CASE ReadOver \/ ReadExpires
    BY <2>5 DEF ReadOver, Finish, ReadExpires
  <2>6. CASE Write \/ WriteExpires
    BY <2>6 DEF Write, WriteExpires
  <2>7. CASE \E w \in 1..MaxWrites : WriteStart(w)
    BY <2>7 DEF WriteStart, Written
  <2>8. CASE WriteSettles
    BY <2>8 DEF WriteSettles, Written
  <2>9. CASE SetReadDeadline \/ SetWriteDeadline
    BY <2>9 DEF SetReadDeadline, SetWriteDeadline
  <2>10. CASE Close \/ CloseRead \/ CloseWrite
    BY <2>10 DEF Close, CloseRead, CloseWrite
  <2>11. CASE UNCHANGED vars
    BY <2>11 DEF vars
  <2> QED
    BY <2>1, <2>2, <2>3, <2>4, <2>5, <2>6, <2>7, <2>8, <2>9, <2>10, <2>11
       DEF Next, GoRead, GoWrite
<1>3. now' \in 1..MaxTime
  BY <1>1, <1>2
<1> QED
  BY <1>1, <1>2, <1>3, DeadlinesAssumption

\* What a step of one half leaves alone of the other.
LEMMA Halves ==
  /\ Arrive \/ End \/ Read \/ GoRead \/ ReadExpires \/ CloseRead => UNCHANGED writeVars
  /\ Write \/ GoWrite \/ WriteExpires \/ CloseWrite
       => UNCHANGED <<streamVars, readerVars, readVars>>
  /\ Tick \/ SetReadDeadline \/ SetWriteDeadline \/ Close
       => UNCHANGED <<streamVars, readerVars, readVars, writeVars>>
<1>1. Arrive \/ End \/ Read \/ ReadExpires \/ CloseRead => UNCHANGED writeVars
  BY DEF Arrive, End, Read, ReadExpires, CloseRead
<1>2. GoRead => UNCHANGED writeVars
  BY DEF GoRead, ReadStart, ReadChunk, ReadOver
<1>3. Write \/ WriteExpires \/ CloseWrite => UNCHANGED <<streamVars, readerVars, readVars>>
  BY DEF Write, WriteExpires, CloseWrite
<1>4. GoWrite => UNCHANGED <<streamVars, readerVars, readVars>>
  BY DEF GoWrite, WriteStart, WriteSettles
<1>5. Tick \/ SetReadDeadline \/ SetWriteDeadline \/ Close
        => UNCHANGED <<streamVars, readerVars, readVars, writeVars>>
  BY DEF Tick, SetReadDeadline, SetWriteDeadline, Close
<1> QED
  BY <1>1, <1>2, <1>3, <1>4, <1>5

\* Every step keeps the invariant.
LEMMA NextInv == IInv /\ [Next]_vars => IInv'
<1> SUFFICES ASSUME IInv, [Next]_vars PROVE ReadInv' /\ WriteInv'
  BY ClockInv DEF IInv
<1>0. ReadInv /\ WriteInv
  BY DEF IInv
<1>1. CASE Arrive \/ End \/ Read \/ GoRead \/ ReadExpires \/ CloseRead
  <2>1. WriteInv'
    BY <1>0, <1>1, Halves, WriteFrame
  <2>2. ReadInv'
    BY <1>0, <1>1, ArriveInv, EndInv, ReadCallInv, ReadStartInv, ReadChunkInv, ReadOverInv,
       ReadExpiresInv DEF GoRead
  <2> QED
    BY <2>1, <2>2
<1>2. CASE Write \/ GoWrite \/ WriteExpires \/ CloseWrite
  <2>1. ReadInv'
    BY <1>0, <1>2, Halves, ReadFrame
  <2>2. WriteInv'
    BY <1>0, <1>2, WriteCallInv, WriteStartInv, WriteSettlesInv, WriteLeftInv DEF GoWrite
  <2> QED
    BY <2>1, <2>2
<1>3. CASE Tick \/ SetReadDeadline \/ SetWriteDeadline \/ Close
  BY <1>0, <1>3, Halves, ReadFrame, WriteFrame
<1>4. CASE UNCHANGED vars
  BY <1>0, <1>4, ReadFrame, WriteFrame DEF vars
<1> QED
  BY <1>1, <1>2, <1>3, <1>4 DEF Next

\* newSocket establishes it.
LEMMA InitInv == Init => IInv
<1> SUFFICES ASSUME Init PROVE IInv
  OBVIOUS
<1> USE DEF Init
<1>1. ClockType
  <2>1. MaxTime \in Nat /\ 1 \in 1..MaxTime /\ Never \in Zero..Never
    BY BoundsAssumption DEF Zero, Never
  <2> QED
    BY <2>1 DEF ClockType
<1>2. MaxBytes \in Nat /\ MaxReads \in Nat /\ MaxWrites \in Nat
  BY BoundsAssumption
<1>3. \A S : <<>> \in Seq(S) /\ Len(<<>>) = 0 /\ Range(<<>>) = {}
  BY EmptySeq DEF Range
<1>4. ~SomeLive(<<>>) /\ OneLive(<<>>) /\ AllLive(<<>>) /\ Distinct(<<>>) /\ \A k : From(<<>>, k)
  BY DEF SomeLive, OneLive, AllLive, Distinct, From
<1>5. ReadType /\ CallsInv /\ OverInv /\ ReadsAscend
  <2>1. ReadType
    <3>1. sent \in 0..MaxBytes /\ reads \in 0..MaxReads
      BY <1>2
    <3>2. queue \in Seq(Seq(Byte)) /\ buf \in Seq(Byte) /\ got \in Seq(Byte)
      BY <1>3
    <3>3. waiting \in Seq(Calls) /\ spawned \in Seq(Calls)
      BY <1>3
    <3>4. reading \in BOOLEAN /\ (reading <=> SomeLive(waiting) \/ SomeLive(spawned))
      BY <1>4
    <3> QED
      BY <3>1, <3>2, <3>3, <3>4 DEF ReadType
  <2>2. CallsInv
    BY <1>4 DEF CallsInv
  <2>3. OverInv /\ ReadsAscend
    BY <1>3 DEF OverInv, ReadsAscend
  <2> QED
    BY <2>1, <2>2, <2>3
<1>6. BytesInv
  <2>1. QueueIs(queue, ended, sent, 0) /\ GotUpTo(0) /\ From(buf, 0) /\ 0 + Len(buf) = 0
    BY <1>3, <1>4 DEF QueueIs, GotUpTo
  <2> QED
    BY <2>1 DEF BytesInv
<1>7. WriteInv
  BY <1>2, <1>3, <1>4 DEF WriteInv, WriteType, WroteIsOnWire
<1> QED
  BY <1>1, <1>5, <1>6, <1>7 DEF IInv, ReadInv

\* The inductive invariant.
THEOREM Invariance == Spec => []IInv
<1>1. Init => IInv
  BY InitInv
<1>2. IInv /\ [Next]_vars => IInv'
  BY NextInv
<1> QED
  BY <1>1, <1>2, PTL DEF Spec

-----------------------------------------------------------------------------
(* What the calls promise.                                                 *)

\* The variables of the two halves have their types, and a goroutine is there
\* for the call the user waits in.
LEMMA Types == IInv => TypeOK
<1> SUFFICES ASSUME IInv PROVE TypeOK
  OBVIOUS
<1> USE DEF IInv, ReadInv, WriteInv
<1>1. reading = (\E c \in Range(waiting) \cup Range(spawned) : c.live)
  <2>1. waiting \in Seq(Calls) /\ spawned \in Seq(Calls) /\ reading \in BOOLEAN
        /\ (reading <=> SomeLive(waiting) \/ SomeLive(spawned))
    BY DEF ReadType
  <2>2. DOMAIN waiting = 1..Len(waiting) /\ DOMAIN spawned = 1..Len(spawned)
    BY <2>1, LenProperties
  <2>3. /\ SomeLive(waiting) <=> \E c \in Range(waiting) : c.live
        /\ SomeLive(spawned) <=> \E c \in Range(spawned) : c.live
    BY <2>2 DEF SomeLive, Range
  <2> QED
    BY <2>1, <2>3, Zenon
<1>2. /\ side \in {"reader", "writer"} /\ now \in 1..MaxTime /\ cancelled \in BOOLEAN
      /\ {readDeadline, writeDeadline, deadline} \subseteq Zero..Never
  BY DEF ClockType
<1>3. /\ sent \in 0..MaxBytes /\ ended \in {"open", "closed", "errored", "cancelled"}
      /\ queue \in Seq(Seq(1..MaxBytes)) /\ buf \in Seq(1..MaxBytes)
      /\ waiting \in Seq(Calls) /\ spawned \in Seq(Calls)
      /\ reads \in 0..MaxReads /\ got \in Seq(1..MaxBytes)
      /\ {streamReader, over, timedOut} \subseteq BOOLEAN
  BY DEF ReadType, Byte
<1>4. /\ writable \in {"open", "closing", "errored"} /\ writes \in 0..MaxWrites
      /\ pending \in Seq(1..writes) /\ wire \in Seq(1..writes) /\ writing \in 0..writes
      /\ unwritten \cup wrote \subseteq 1..writes
  BY DEF WriteType
<1> QED
  BY <1>1, <1>2, <1>3, <1>4 DEF TypeOK

\* Bytes from the first on, and the last before the end.
LEMMA Whole == IInv => WholeWithoutTimeout
<1> SUFFICES ASSUME IInv, ~timedOut
             PROVE  got = [k \in 1..Len(got) |-> k] /\ (over /\ ended = "closed" => Len(got) = sent)
  BY DEF WholeWithoutTimeout
<1> USE DEF IInv, ReadInv
<1>1. From(got, 0)
  BY DEF BytesInv, GotUpTo
<1>2. got \in Seq(Byte)
  BY DEF ReadType
<1>3. \A i \in 1..Len(got) : got[i] = i
  BY <1>1 DEF From
<1>4. got = [k \in 1..Len(got) |-> got[k]]
  BY <1>2
<1>5. got = [k \in 1..Len(got) |-> k]
  BY <1>3, <1>4
<1> QED
  BY <1>5 DEF OverInv

\* Whatever the constants, the types of the variables, and the user waits in
\* Read exactly as long as a goroutine of the call is there to end it (Read).
THEOREM TypeCorrect == Spec => []TypeOK
BY Invariance, Types, PTL

\* However calls time out and leave their goroutines on the one reader, the
\* bytes returned ascend, and none is missing before the first timeout, the end
\* included (Read, readableStreamToReadCloser.Read).
THEOREM ReadsAreInOrder == Spec => []ReadsInOrder
<1>1. IInv => ReadsInOrder
  BY Types, Whole DEF ReadsInOrder, IInv, ReadInv
<1> QED
  BY <1>1, Invariance, PTL

\* A Write that has reported success is on the wire once, after the earlier
\* ones that have (Write).
THEOREM WritesAreOnWire == Spec => []WroteIsOnWire
<1>1. IInv => WroteIsOnWire
  BY DEF IInv, WriteInv
<1> QED
  BY <1>1, Invariance, PTL
=============================================================================
