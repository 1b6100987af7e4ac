---------------------------- MODULE Decoder_proofs ----------------------------
(***************************************************************************)
(* Proofs about the decoder, for any message, any cut into chunks, every   *)
(* driver, and decoders that are used again after any outcome.             *)
(*                                                                         *)
(* The writers are registered by the very step in which process() returns  *)
(* from the header, so they are there in every later phase.  That bundles  *)
(* are extracted in order and once needs that the bytes that wait, in the  *)
(* parser or in the buffer, are a run of the message that begins with what *)
(* is to be parsed next, unless the message was fed from the beginning     *)
(* again: item k then meets a unit that no item but the envelope has.      *)
(***************************************************************************)
EXTENDS Decoder, SequenceTheorems, TLAPS

\* Behind the header the writers are registered, and not before.
WritersFollowHeader == writers = IF HasHeader(phase) THEN Attrs ELSE {}

\* The items that were parsed.
Consumed ==
    CASE phase = "envelope" -> 0
      [] phase = "header"   -> 1
      [] phase = "nbundles" -> 2
      [] OTHER              -> 3 + Len(written)

\* The units of s follow each other, or start again at the first one; the first of them
\* comes after c items, and the next one to be fed comes after s.
Follows(s, c, a) ==
    /\ \A i \in 1 .. Len(s) - 1 : s[i + 1] = s[i] + 1 \/ s[i + 1] = 1
    /\ s # <<>> => s[1] = 2 * c + 1 \/ s[1] = 1
    /\ s # <<>> => a = s[Len(s)] \/ a = 0
    /\ s = <<>> => a = 2 * c \/ a = 0

\* What the parser holds goes before what is buffered, or is left of an earlier message.
Flow ==
    phase # "done" =>
        \/ /\ phase \notin {"header", "bundles"} => ctx = <<>>
           /\ Follows(Pending, Consumed, at)
        \/ /\ phase \in {"envelope", "header"} /\ Len(ctx) = 1
           /\ Follows(buf, Consumed, at)

Progress ==
    /\ written = [k \in 1 .. Len(written) |-> k]
    /\ phase \notin {"bundles", "done"} => written = <<>>
    /\ phase \in {"bundles", "done"} => declared = Nbundles /\ left + Len(written) = Nbundles
    /\ phase = "done" => left = 0
    /\ wrong \notin 1 .. Consumed
    /\ dpc = "returned" => phase = "done"
    /\ dpc \in Outcomes => ~running

IInv == TypeOK /\ WritersFollowHeader /\ WritersInTime /\ Progress /\ Flow
-----------------------------------------------------------------------------
LEMMA UnitsAreNat == /\ Nbundles \in Nat /\ Nbundles > 0 /\ Total \in Nat
                     /\ Total = 2 * (3 + Nbundles)
                     /\ \A u \in Units : u \in Nat /\ u > 0
  BY MessageAssumption DEF Units, Total

LEMMA DropTwo ==
    ASSUME NEW s \in Seq(Units), Len(s) >= 2
    PROVE  /\ SubSeq(s, 3, Len(s)) \in Seq(Units)
           /\ Len(SubSeq(s, 3, Len(s))) = Len(s) - 2
           /\ \A i \in 1 .. Len(s) - 2 : SubSeq(s, 3, Len(s))[i] = s[i + 2]
<1>. DEFINE t == SubSeq(s, 3, Len(s))
<1>1. Len(s) \in Int /\ 3 \in Int /\ \A i \in 3 .. Len(s) : s[i] \in Units
  BY LenProperties, ElementOfSeq
<1>2. t \in Seq(Units)
  BY <1>1, SubSeqProperties
<1>3. Len(t) = Len(s) - 2
  <2>1. CASE 3 <= Len(s)
    BY <1>1, <2>1, SubSeqProperties
  <2>2. CASE Len(s) = 2
    BY <2>2
  <2>3. 3 <= Len(s) \/ Len(s) = 2
    <3>1. Len(s) \in Nat
      BY LenProperties
    <3>. QED  BY <3>1
  <2>. QED  BY <2>1, <2>2, <2>3
<1>4. \A i \in 1 .. Len(s) - 2 : t[i] = s[i + 2]
  <2>. TAKE i \in 1 .. Len(s) - 2
  <2>1. t[i] = s[3 + i - 1]
    BY <1>1, SubSeqProperties
  <2>. QED  BY <2>1, <1>1
<1>. QED  BY <1>2, <1>3, <1>4

LEMMA FirstTwo ==
    ASSUME NEW s \in Seq(Units), Len(s) >= 2, NEW k \in Nat, SubSeq(s, 1, 2) = Item(k)
    PROVE  s[1] = 2 * k - 1 /\ s[2] = 2 * k
<1>1. \A i \in 1 .. 2 : s[i] \in Units
  BY ElementOfSeq, LenProperties
<1>2. \A i \in 1 .. 2 - 1 + 1 : SubSeq(s, 1, 2)[i] = s[1 + i - 1]
  BY <1>1, SubSeqProperties
<1>3. Item(k)[1] = s[1] /\ Item(k)[2] = s[2]
  BY <1>2
<1>. QED  BY <1>3 DEF Item

\* Taking an item from the front leaves a run that begins after it.
LEMMA FollowsDrop ==
    ASSUME NEW s \in Seq(Units), Len(s) >= 2, NEW k \in Nat \ {0}, NEW a \in Nat,
           SubSeq(s, 1, 2) = Item(k), NEW c \in Nat, Follows(s, c, a), k = 1 => c = 0
    PROVE  k = c + 1 /\ Follows(SubSeq(s, 3, Len(s)), k, a)
<1>. DEFINE t == SubSeq(s, 3, Len(s))
<1>1. s[1] = 2 * k - 1 /\ s[2] = 2 * k /\ s # <<>>
  BY FirstTwo, EmptySeq
<1>2. k = c + 1
  BY <1>1 DEF Follows
<1>3. /\ t \in Seq(Units) /\ Len(t) = Len(s) - 2 /\ Len(s) \in Nat
      /\ \A i \in 1 .. Len(t) : t[i] = s[i + 2]
  BY DropTwo, LenProperties
<1>. HIDE DEF t
<1>4. ASSUME NEW i \in 1 .. Len(t) - 1 PROVE t[i + 1] = t[i] + 1 \/ t[i + 1] = 1
  BY <1>3 DEF Follows
<1>5. ASSUME t # <<>> PROVE (t[1] = 2 * k + 1 \/ t[1] = 1) /\ (a = t[Len(t)] \/ a = 0)
  <2>1. Len(t) >= 1
    BY <1>3, <1>5, EmptySeq
  <2>2. s[3] = s[2] + 1 \/ s[3] = 1
    BY <2>1, <1>3 DEF Follows
  <2>. QED  BY <2>1, <2>2, <1>1, <1>3 DEF Follows
<1>6. ASSUME t = <<>> PROVE a = 2 * k \/ a = 0
  <2>1. Len(s) = 2
    <3>1. Len(t) = 0
      BY <1>6
    <3>. QED  BY <3>1, <1>3
  <2>. QED  BY <2>1, <1>1 DEF Follows
<1>. QED  BY <1>2, <1>4, <1>5, <1>6 DEF Follows, t

\* Feeding the next units makes the run longer.
LEMMA FollowsFeed ==
    ASSUME NEW s \in Seq(Units), NEW c \in Nat, NEW a \in Nat, Follows(s, c, a),
           NEW n \in Nat \ {0}, [i \in 1 .. n |-> a + i] \in Seq(Units)
    PROVE  Follows(s \o [i \in 1 .. n |-> a + i], c, a + n)
<1>. DEFINE t == [i \in 1 .. n |-> a + i]
            u == s \o t
<1>1. /\ Len(t) = n /\ Len(s) \in Nat
      /\ \A i \in 1 .. n : t[i] = a + i
  BY LenProperties
<1>2. /\ u \in Seq(Units) /\ Len(u) = Len(s) + n
      /\ \A i \in 1 .. Len(s) : u[i] = s[i]
      /\ \A i \in 1 .. n : u[Len(s) + i] = a + i
  <2>1. /\ u \in Seq(Units) /\ Len(u) = Len(s) + Len(t)
        /\ \A i \in 1 .. Len(s) + Len(t) : u[i] = IF i <= Len(s) THEN s[i] ELSE t[i - Len(s)]
    BY ConcatProperties
  <2>. HIDE DEF t, u
  <2>2. ASSUME NEW i \in 1 .. n PROVE u[Len(s) + i] = a + i
    <3>. DEFINE j == Len(s) + i
    <3>1. j \in 1 .. Len(s) + Len(t) /\ ~(j <= Len(s)) /\ j - Len(s) = i
      BY <1>1
    <3>. HIDE DEF j
    <3>2. u[j] = t[i]
      BY <3>1, <2>1
    <3>. QED  BY <3>2, <1>1 DEF j
  <2>. QED  BY <2>1, <2>2, <1>1
<1>. HIDE DEF t, u
<1>3. s = <<>> => Len(s) = 0
  OBVIOUS
<1>4. s # <<>> => Len(s) > 0
  BY EmptySeq, <1>1
<1>5. ASSUME NEW i \in 1 .. Len(u) - 1 PROVE u[i + 1] = u[i] + 1 \/ u[i + 1] = 1
  <2>1. CASE i < Len(s)
    <3>1. i \in 1 .. Len(s) - 1 /\ i \in 1 .. Len(s) /\ i + 1 \in 1 .. Len(s)
      BY <2>1, <1>1
    <3>. QED  BY <3>1, <1>2 DEF Follows
  <2>2. CASE i = Len(s)
    <3>1. 1 \in 1 .. n /\ i \in 1 .. Len(s) /\ i + 1 = Len(s) + 1
      BY <2>2, <1>1, <1>2
    <3>2. u[i + 1] = a + 1 /\ u[i] = s[Len(s)] /\ s # <<>>
      BY <2>2, <3>1, <1>2, <1>3
    <3>. QED  BY <3>2 DEF Follows
  <2>3. CASE i > Len(s)
    <3>1. i - Len(s) \in 1 .. n /\ i + 1 - Len(s) \in 1 .. n
      BY <2>3, <1>1, <1>2
    <3>2. u[Len(s) + (i - Len(s))] = a + (i - Len(s))
      BY <3>1, <1>2
    <3>3. u[Len(s) + (i + 1 - Len(s))] = a + (i + 1 - Len(s))
      BY <3>1, <1>2
    <3>4. Len(s) + (i - Len(s)) = i /\ Len(s) + (i + 1 - Len(s)) = i + 1
      BY <1>1, <1>2
    <3>. QED  BY <3>1, <3>2, <3>3, <3>4, <1>1
  <2>. QED  BY <2>1, <2>2, <2>3, <1>1, <1>2
<1>6. u[1] = 2 * c + 1 \/ u[1] = 1
  <2>1. CASE s = <<>>
    <3>1. u[1] = a + 1
      BY <2>1, <1>2, <1>3
    <3>. QED  BY <2>1, <3>1 DEF Follows
  <2>2. CASE s # <<>>
    BY <2>2, <1>1, <1>2, <1>4 DEF Follows
  <2>. QED  BY <2>1, <2>2
<1>7. u[Len(u)] = a + n
  BY <1>1, <1>2
<1>8. u # <<>>
  BY <1>1, <1>2, EmptySeq
<1>. QED  BY <1>5, <1>6, <1>7, <1>8 DEF Follows, u, t

LEMMA FollowsFromStart ==
    ASSUME NEW s, NEW c, NEW a, Follows(s, c, a)
    PROVE  Follows(s, c, 0)
  BY DEF Follows

LEMMA PendingType ==
    ASSUME TypeOK
    PROVE  /\ Pending \in Seq(Units) /\ buf \in Seq(Units) /\ ctx \in Seq(Units)
           /\ Len(Pending) = Len(ctx) + Len(buf) /\ Len(ctx) \in Nat /\ Len(buf) \in Nat
           /\ \A i \in 1 .. Len(ctx) + Len(buf) :
                 Pending[i] = IF i <= Len(ctx) THEN ctx[i] ELSE buf[i - Len(ctx)]
           /\ ctx = <<>> => Pending = buf
  BY ConcatProperties, ConcatEmptySeq, LenProperties DEF TypeOK, Pending

LEMMA ConsumedType == ASSUME TypeOK PROVE Consumed \in Nat
  BY LenProperties DEF TypeOK, Consumed, Phases

\* Where array lengths are read, the parser holds nothing of this message.
LEMMA BufFollows ==
    ASSUME IInv, phase \in {"envelope", "nbundles"}
    PROVE  Follows(buf, Consumed, at) /\ (ctx = <<>> \/ (phase = "envelope" /\ Len(ctx) = 1))
  BY PendingType DEF IInv, Flow
-----------------------------------------------------------------------------
LEMMA InitIInv == Init => IInv
<1>. SUFFICES ASSUME Init PROVE IInv
  OBVIOUS
<1>. USE DEF Init
<1>1. TypeOK
  <2>1. at \in 0 .. end /\ left \in 0 .. Nbundles /\ round \in 1 .. Rounds
    BY UnitsAreNat, DriverAssumption
  <2>2. buf \in Seq(Units) /\ ctx \in Seq(Units) /\ Len(ctx) <= 1
        /\ written \in Seq(1 .. Nbundles)
    BY EmptySeq
  <2>3. driver \in Drivers /\ declared \in Declared /\ wrong \in Wrong /\ end \in 0 .. Total
        /\ dpc \in {"first", "each"} /\ running \in BOOLEAN /\ phase \in Phases
        /\ writers \subseteq Attrs /\ skipped \subseteq 1 .. Nbundles
    BY DEF Phases
  <2>. QED  BY <2>1, <2>2, <2>3 DEF TypeOK
<1>2. WritersFollowHeader /\ WritersInTime
  BY DEF WritersFollowHeader, HasHeader, WritersInTime
<1>3. Progress
  BY EmptySeq DEF Progress, Consumed, Outcomes
<1>4. Flow
  <2>1. Pending = <<>>
    BY <1>1, PendingType
  <2>. QED  BY <2>1 DEF Flow, Consumed, Follows
<1>. QED  BY <1>1, <1>2, <1>3, <1>4 DEF IInv

LEMMA EnvelopeIInv == ASSUME IInv, ReadEnvelope PROVE IInv'
<1>. USE DEF IInv, ReadEnvelope, stream, output
<1>1. Len(buf) >= 2 /\ SubSeq(buf, 1, 2) = Item(1) /\ wrong # 1
  BY DEF GoodEnvelope, ArrayHere, Envelope
<1>2. buf' \in Seq(Units) /\ Follows(buf', 1, at)
  <2>1. at \in Nat /\ Follows(buf, 0, at)
    BY BufFollows, UnitsAreNat DEF Consumed, TypeOK
  <2>2. buf \in Seq(Units) /\ buf' = SubSeq(buf, 3, Len(buf))
    BY PendingType DEF TakeArray
  <2>3. Follows(SubSeq(buf, 3, Len(buf)), 1, at)
    <3>. 1 \in Nat \ {0} /\ 0 \in Nat
      OBVIOUS
    <3>. QED  BY <1>1, <2>1, <2>2, FollowsDrop
  <2>. QED  BY <1>1, <2>2, <2>3, DropTwo
<1>3. TypeOK'
  BY <1>2 DEF TypeOK, TakeArray, Phases
<1>4. WritersFollowHeader' /\ WritersInTime' /\ Progress'
  BY <1>1 DEF WritersFollowHeader, HasHeader, WritersInTime, Progress, Consumed
<1>5. Flow'
  <2>1. ctx' = ctx /\ Consumed' = 1 /\ at' = at /\ phase' = "header"
    BY DEF TakeArray, Consumed
  <2>2. ctx = <<>> => Pending' = buf'
    BY <1>3, <2>1, ConcatEmptySeq DEF Pending, TypeOK
  <2>. QED  BY <1>2, <2>1, <2>2, BufFollows DEF Flow
<1>. QED  BY <1>3, <1>4, <1>5

LEMMA TakenObject ==
    ASSUME IInv, phase \in {"header", "bundles"}, NEW k \in Nat \ {0, 1}, ObjectHere(k),
           TakeObject
    PROVE  /\ k = Consumed + 1
           /\ buf' \in Seq(Units) /\ ctx' = <<>> /\ Pending' = buf' /\ Follows(Pending', k, at)
<1>. USE DEF IInv
<1>1. Len(Pending) >= 2 /\ SubSeq(Pending, 1, 2) = Item(k)
  BY DEF ObjectHere
<1>2. Follows(Pending, Consumed, at)
  <2>. SUFFICES ASSUME phase = "header", Len(ctx) = 1, Follows(buf, Consumed, at)
                PROVE  FALSE
    BY DEF Flow
  <2>1. Pending[1] = 2 * k - 1 /\ Pending[2] = 2 * k
    BY <1>1, FirstTwo, PendingType
  <2>2. Len(buf) >= 1 /\ Pending[2] = buf[1]
    BY <1>1, PendingType
  <2>3. buf # <<>>
    BY <2>2, EmptySeq
  <2>4. buf[1] = 3 \/ buf[1] = 1
    BY <2>3 DEF Follows, Consumed
  <2>. QED  BY <2>1, <2>2, <2>4
<1>3. at \in Nat
  BY UnitsAreNat DEF TypeOK
<1>4. k = Consumed + 1 /\ Follows(buf', k, at)
  <2>1. /\ Pending \in Seq(Units) /\ k \in Nat \ {0} /\ k # 1 /\ Consumed \in Nat
        /\ buf' = SubSeq(Pending, 3, Len(Pending))
    BY PendingType, ConsumedType DEF TakeObject
  <2>. HIDE DEF IInv
  <2>. QED  BY <1>1, <1>2, <1>3, <2>1, FollowsDrop
<1>5. buf' \in Seq(Units) /\ ctx' = <<>>
  BY <1>1, DropTwo, PendingType DEF TakeObject
<1>6. Pending' = buf'
  BY <1>5, ConcatEmptySeq DEF Pending
<1>. QED  BY <1>4, <1>5, <1>6

LEMMA HeaderIInv == ASSUME IInv, ReadHeader PROVE IInv'
<1>. USE DEF IInv, ReadHeader, stream, output, Header
<1>1. /\ buf' \in Seq(Units) /\ ctx' = <<>> /\ Pending' = buf' /\ Follows(Pending', 2, at)
      /\ wrong # 2
  BY TakenObject DEF GoodHeader
<1>2. /\ running' = FALSE /\ writers' = Attrs /\ at' \in {at, 0}
      /\ dpc' \in {dpc, "second", "partial", "incomplete"}
  BY DEF Paused, EndedEarly, HasHeader, RegisterWriters, WritersFollowHeader
<1>3. TypeOK'
  <2>1. at' \in 0 .. end
    BY <1>2, UnitsAreNat DEF TypeOK
  <2>2. ctx' \in Seq(Units) /\ Len(ctx') <= 1
    BY <1>1, EmptySeq
  <2>3. dpc' \in {"first", "second", "finish", "each", "null"} \cup Outcomes
    BY <1>2 DEF TypeOK, Outcomes
  <2>. QED  BY <1>1, <1>2, <2>1, <2>2, <2>3 DEF TypeOK, Phases
<1>4. WritersFollowHeader' /\ WritersInTime'
  BY <1>2 DEF WritersFollowHeader, HasHeader, WritersInTime
<1>5. Progress'
  BY <1>1, <1>2 DEF Progress, Consumed, Outcomes
<1>6. Flow'
  BY <1>1, <1>2, FollowsFromStart DEF Flow, Consumed
<1>. QED  BY <1>3, <1>4, <1>5, <1>6

LEMMA LengthIInv == ASSUME IInv, ReadLength PROVE IInv'
<1>. USE DEF IInv, ReadLength, stream, output
<1>1. Len(buf) >= 2 /\ SubSeq(buf, 1, 2) = Item(3) /\ wrong # 3 /\ declared = Nbundles
  BY DEF GoodLength, ArrayHere, Length
<1>2. buf' \in Seq(Units) /\ Follows(buf', 3, at) /\ ctx = <<>> /\ ctx' = ctx
  <2>1. at \in Nat /\ Follows(buf, 2, at) /\ ctx = <<>>
    BY BufFollows, UnitsAreNat DEF Consumed, TypeOK
  <2>. QED  BY <1>1, <2>1, DropTwo, FollowsDrop, PendingType DEF TakeArray
<1>3. TypeOK'
  BY <1>1, <1>2, UnitsAreNat DEF TypeOK, Phases
<1>4. WritersFollowHeader' /\ WritersInTime'
  BY DEF WritersFollowHeader, HasHeader, WritersInTime
<1>5. Progress'
  BY <1>1, UnitsAreNat, EmptySeq DEF Progress, Consumed, Outcomes
<1>6. Flow'
  <2>1. Pending' = buf'
    BY <1>2, ConcatEmptySeq DEF Pending
  <2>2. Consumed' = 3
    BY EmptySeq DEF Consumed, Progress
  <2>. QED  BY <1>2, <2>1, <2>2 DEF Flow
<1>. QED  BY <1>3, <1>4, <1>5, <1>6

\* An object that is extracted is the next bundle, and has a writer.
LEMMA ExtractIInv == ASSUME IInv, Extract PROVE IInv'
<1>. USE DEF IInv, Extract, stream
<1>1. PICK k \in 1 .. Nbundles :
          /\ GoodBundle(k)
          /\ IF HasWriter(k) THEN written' = Append(written, k) /\ UNCHANGED skipped
             ELSE skipped' = skipped \cup {k} /\ UNCHANGED written
  OBVIOUS
<1>2. k \in Nat /\ k >= 1 /\ 3 + k \in Nat \ {0, 1}
  BY UnitsAreNat
<1>3. ObjectHere(3 + k) /\ wrong # 3 + k
  BY <1>1 DEF GoodBundle, Bundle
<1>4. /\ 3 + k = Consumed + 1
      /\ buf' \in Seq(Units) /\ ctx' = <<>> /\ Pending' = buf' /\ Follows(Pending', 3 + k, at)
  <2>1. phase \in {"header", "bundles"} /\ TakeObject
    OBVIOUS
  <2>. HIDE DEF Extract
  <2>. QED  BY <1>2, <1>3, <2>1, TakenObject
<1>5. Len(written) \in Nat /\ written \in Seq(1 .. Nbundles) /\ k = Len(written) + 1
  <2>1. Len(written) \in Nat /\ written \in Seq(1 .. Nbundles)
    BY LenProperties DEF TypeOK
  <2>. QED  BY <1>2, <1>4, <2>1 DEF Consumed
<1>6. written' = Append(written, k) /\ skipped' = skipped
  BY <1>1, MessageAssumption DEF WritersFollowHeader, HasHeader, HasWriter
<1>7. /\ written' \in Seq(1 .. Nbundles) /\ Len(written') = k
      /\ \A i \in 1 .. k : written'[i] = IF i < k THEN written[i] ELSE k
  BY <1>5, <1>6, AppendProperties
<1>8. written' = [i \in 1 .. k |-> i]
  <2>1. \A i \in 1 .. Len(written) : written[i] = i
    BY DEF Progress
  <2>2. \A i \in 1 .. k : written'[i] = i
    BY <1>2, <1>5, <1>7, <2>1
  <2>3. written' = [i \in 1 .. k |-> written'[i]]
    BY <1>7, LenProperties
  <2>. QED  BY <2>2, <2>3
<1>9. Consumed' = 3 + k
  BY <1>7 DEF Consumed
<1>10. TypeOK'
  <2>1. left' \in 0 .. Nbundles
    BY UnitsAreNat DEF TypeOK
  <2>2. ctx' \in Seq(Units) /\ Len(ctx') <= 1
    BY <1>4, EmptySeq
  <2>. QED  BY <1>4, <1>6, <1>7, <2>1, <2>2 DEF TypeOK
<1>11. WritersFollowHeader' /\ WritersInTime'
  BY <1>6 DEF WritersFollowHeader, HasHeader, WritersInTime
<1>12. Progress'
  <2>1. left' + Len(written') = Nbundles
    <3>1. left \in Nat /\ left + Len(written) = Nbundles /\ left' = left - 1
      BY UnitsAreNat DEF Progress, TypeOK
    <3>. DEFINE n == Len(written)
    <3>2. n \in Nat /\ left + n = Nbundles /\ k = n + 1
      BY <1>5, <3>1
    <3>. HIDE DEF n
    <3>3. left - 1 + k = Nbundles
      BY <3>1, <3>2, UnitsAreNat
    <3>. QED  BY <1>7, <3>1, <3>3
  <2>2. wrong' \notin 1 .. Consumed'
    BY <1>2, <1>3, <1>4, <1>9, ConsumedType DEF Progress
  <2>. QED  BY <1>7, <1>8, <2>1, <2>2 DEF Progress
<1>13. Flow'
  BY <1>4, <1>9 DEF Flow
<1>. QED  BY <1>10, <1>11, <1>12, <1>13

LEMMA AllExtractedIInv == ASSUME IInv, AllExtracted PROVE IInv'
<1>. USE DEF IInv, AllExtracted, stream, output
<1>1. TypeOK'
  BY DEF TypeOK, Phases, Outcomes
<1>2. WritersFollowHeader' /\ WritersInTime' /\ Flow'
  BY DEF WritersFollowHeader, HasHeader, WritersInTime, Flow
<1>3. Progress'
  BY DEF Progress, Consumed
<1>. QED  BY <1>1, <1>2, <1>3

\* A call that returns without an object leaves the writers as they are.
LEMMA SuspendIInv == ASSUME IInv, Suspend PROVE IInv'
<1>. USE DEF IInv, Suspend, stream, output
<1>1. ~(HasHeader(phase) /\ writers = {})
  BY MessageAssumption, UnitsAreNat DEF WritersFollowHeader
<1>2. /\ running' = FALSE /\ UNCHANGED <<writers, at>>
      /\ dpc' \in {dpc, "partial", "incomplete"}
  BY <1>1 DEF Paused, EndedEarly
<1>3. /\ ctx' \in Seq(Units) /\ buf' \in Seq(Units) /\ Len(ctx') <= 1
      /\ phase \notin {"header", "bundles"} => UNCHANGED <<ctx, buf>>
      /\ phase \in {"header", "bundles"} => ctx' = Pending /\ buf' = <<>>
  <2>1. CASE phase \in {"header", "bundles"}
    <3>1. Len(Pending) \in Nat /\ Len(Pending) < 2
      BY <2>1, PendingType DEF CutShort, ObjectCut
    <3>. QED  BY <2>1, <3>1, PendingType, EmptySeq
  <2>2. CASE phase \notin {"header", "bundles"}
    BY <2>2 DEF TypeOK
  <2>. QED  BY <2>1, <2>2
<1>4. TypeOK'
  BY <1>2, <1>3 DEF TypeOK, Outcomes
<1>5. WritersFollowHeader' /\ WritersInTime'
  BY <1>2 DEF WritersFollowHeader, WritersInTime
<1>6. Progress'
  BY <1>2 DEF Progress, Consumed
<1>7. Flow'
  <2>1. Consumed' = Consumed
    BY DEF Consumed
  <2>2. CASE phase \in {"header", "bundles"}
    <3>1. Pending' = Pending
      BY <1>3, <2>2, PendingType, ConcatEmptySeq DEF Pending
    <3>2. CASE Follows(Pending, Consumed, at)
      BY <1>2, <2>1, <2>2, <3>1, <3>2 DEF Flow
    <3>3. CASE phase = "header" /\ Len(ctx) = 1 /\ Follows(buf, Consumed, at)
      <4>1. Len(Pending) < 2
        BY <3>3 DEF CutShort, ObjectCut
      <4>2. Len(buf) = 0 /\ Len(Pending) = 1
        BY <3>3, <4>1, PendingType
      <4>3. buf = <<>> /\ Len(ctx') = 1
        BY <1>3, <2>2, <4>2, PendingType, EmptySeq
      <4>. QED  BY <1>2, <1>3, <2>1, <2>2, <3>3, <4>3 DEF Flow
    <3>. QED  BY <2>2, <3>2, <3>3 DEF Flow
  <2>3. CASE phase \notin {"header", "bundles"}
    <3>1. UNCHANGED <<ctx, buf, phase, at, Pending>>
      BY <1>2, <1>3, <2>3 DEF Pending
    <3>. QED  BY <2>1, <3>1 DEF Flow
  <2>. QED  BY <2>2, <2>3
<1>. QED  BY <1>4, <1>5, <1>6, <1>7

LEMMA CorruptIInv == ASSUME IInv, Corrupt PROVE IInv'
<1>. USE DEF IInv, Corrupt, stream, decoder, output
<1>1. TypeOK'
  BY DEF TypeOK, Outcomes
<1>2. WritersFollowHeader' /\ WritersInTime' /\ Progress'
  BY DEF WritersFollowHeader, WritersInTime, Progress, Consumed
<1>3. Flow'
  BY DEF Flow, Pending, Consumed
<1>. QED  BY <1>1, <1>2, <1>3

LEMMA ConcatThree ==
    ASSUME NEW s \in Seq(Units), NEW t \in Seq(Units), NEW u \in Seq(Units)
    PROVE  s \o (t \o u) = (s \o t) \o u
  BY ConcatAssociative

LEMMA FeedIInv == ASSUME IInv, Feed PROVE IInv'
<1>. USE DEF IInv, Feed, stream, output
<1>1. PICK n \in 1 .. end - at : Buffer(n)
  OBVIOUS
<1>. DEFINE fed == [i \in 1 .. n |-> at + i]
<1>2. /\ at \in Nat /\ end \in Nat /\ n \in Nat \ {0} /\ at + n \in 0 .. end
      /\ \A i \in 1 .. n : at + i \in Units
  BY UnitsAreNat DEF TypeOK, Units
<1>3. fed \in Seq(Units)
  BY <1>2
<1>4. buf' = buf \o fed /\ at' = at + n
  BY <1>1 DEF Buffer
<1>. HIDE DEF fed
<1>5. buf' \in Seq(Units)
  BY <1>3, <1>4, PendingType, ConcatProperties
<1>6. TypeOK'
  BY <1>2, <1>4, <1>5 DEF TypeOK
<1>7. WritersFollowHeader' /\ WritersInTime' /\ Progress'
  BY DEF WritersFollowHeader, WritersInTime, Progress, Consumed, Outcomes
<1>8. Flow'
  <2>1. Consumed' = Consumed /\ Consumed \in Nat
    BY ConsumedType DEF Consumed
  <2>2. Pending' = Pending \o fed
    <3>1. ctx \in Seq(Units) /\ buf \in Seq(Units) /\ ctx' = ctx
      BY PendingType
    <3>2. ctx \o (buf \o fed) = (ctx \o buf) \o fed
      BY <1>3, <3>1, ConcatThree
    <3>. QED  BY <1>4, <3>1, <3>2 DEF Pending
  <2>3. \A s \in Seq(Units) : Follows(s, Consumed, at) => Follows(s \o fed, Consumed, at + n)
    BY <1>2, <1>3, <2>1, FollowsFeed DEF fed
  <2>4. Pending \in Seq(Units) /\ buf \in Seq(Units)
    BY PendingType
  <2>5. CASE Follows(Pending, Consumed, at) /\ (phase \notin {"header", "bundles"} => ctx = <<>>)
    BY <1>4, <2>1, <2>2, <2>3, <2>4, <2>5 DEF Flow
  <2>6. CASE phase \in {"envelope", "header"} /\ Len(ctx) = 1 /\ Follows(buf, Consumed, at)
    BY <1>4, <2>1, <2>3, <2>4, <2>6 DEF Flow
  <2>. QED  BY <2>5, <2>6 DEF Flow
<1>. QED  BY <1>6, <1>7, <1>8

LEMMA StreamEndsIInv == ASSUME IInv, StreamEnds PROVE IInv'
<1>. USE DEF IInv, StreamEnds, stream, decoder, output
<1>1. dpc' \in {"incomplete", "finish", "null"} /\ (dpc' = "incomplete" => running' = FALSE)
  OBVIOUS
<1>2. TypeOK'
  BY <1>1 DEF TypeOK, Outcomes
<1>3. WritersFollowHeader' /\ WritersInTime' /\ Progress'
  BY <1>1 DEF WritersFollowHeader, WritersInTime, Progress, Consumed, Outcomes
<1>4. Flow'
  BY DEF Flow, Pending, Consumed
<1>. QED  BY <1>2, <1>3, <1>4

\* reset() keeps what the parser holds, whatever the outcome was.
LEMMA ReuseIInv == ASSUME IInv, Reuse PROVE IInv'
<1>. USE DEF IInv, Reuse, Reset
<1>1. TypeOK'
  <2>1. at' \in 0 .. end' /\ left' \in 0 .. Nbundles /\ round' \in 1 .. Rounds
    BY UnitsAreNat, DriverAssumption DEF TypeOK
  <2>2. buf' \in Seq(Units) /\ written' \in Seq(1 .. Nbundles)
    BY EmptySeq
  <2>. QED  BY <2>1, <2>2 DEF TypeOK, Phases
<1>2. WritersFollowHeader' /\ WritersInTime'
  BY DEF WritersFollowHeader, HasHeader, WritersInTime
<1>3. Progress'
  <2>1. running = FALSE
    BY DriverAssumption DEF Progress, Outcomes
  <2>. QED  BY <2>1, EmptySeq DEF Progress, Consumed
<1>4. Flow'
  <2>1. Follows(<<>>, 0, 0) /\ Consumed' = 0
    BY DEF Follows, Consumed
  <2>2. ctx = <<>> \/ Len(ctx) = 1
    <3>1. Len(ctx) \in Nat /\ Len(ctx) <= 1 /\ ctx \in Seq(Units)
      BY PendingType DEF TypeOK
    <3>. DEFINE n == Len(ctx)
    <3>2. n = 0 => ctx = <<>>
      BY <3>1, EmptySeq
    <3>3. n \in Nat /\ n <= 1
      BY <3>1
    <3>. HIDE DEF n
    <3>4. n = 0 \/ n = 1
      BY <3>3
    <3>. QED  BY <3>2, <3>4 DEF n
  <2>3. ctx = <<>> => Pending' = <<>>
    BY DEF Pending
  <2>. QED  BY <2>1, <2>2, <2>3 DEF Flow
<1>. QED  BY <1>1, <1>2, <1>3, <1>4

LEMMA StepIInv == IInv /\ [Next]_vars => IInv'
<1>. SUFFICES ASSUME IInv, [Next]_vars PROVE IInv'
  OBVIOUS
<1>1. CASE UNCHANGED vars
  BY <1>1 DEF IInv, TypeOK, WritersFollowHeader, WritersInTime, Progress, Flow, Consumed,
              Pending, vars, stream, decoder, output
<1>2. CASE ReadEnvelope
  BY <1>2, EnvelopeIInv
<1>3. CASE ReadHeader
  BY <1>3, HeaderIInv
<1>4. CASE ReadLength
  BY <1>4, LengthIInv
<1>5. CASE Extract
  BY <1>5, ExtractIInv
<1>6. CASE AllExtracted
  BY <1>6, AllExtractedIInv
<1>7. CASE Suspend
  BY <1>7, SuspendIInv
<1>8. CASE Corrupt
  BY <1>8, CorruptIInv
<1>9. CASE Feed
  BY <1>9, FeedIInv
<1>10. CASE StreamEnds
  BY <1>10, StreamEndsIInv
<1>11. CASE Reuse
  BY <1>11, ReuseIInv
<1>. QED
  BY <1>1, <1>2, <1>3, <1>4, <1>5, <1>6, <1>7, <1>8, <1>9, <1>10, <1>11 DEF Next, Process

LEMMA AlwaysIInv == Spec => []IInv
  BY InitIInv, StepIInv, PTL DEF Spec
-----------------------------------------------------------------------------
\* The states of the decoder and its drivers are what TypeOK says: among them, that the
\* parser never holds more than the beginning of one object.
THEOREM TypeCorrect == Spec => []TypeOK
<1>1. IInv => TypeOK
  BY DEF IInv
<1>. QED  BY <1>1, AlwaysIInv, PTL

\* No payload is touched before the caller could register its writers (decoder.cpp
\* 229-234), wherever the chunks are cut and however often the decoder is used again.
THEOREM WritersAreInTime == Spec => []WritersInTime
<1>1. IInv => WritersInTime
  BY DEF IInv
<1>. QED  BY <1>1, AlwaysIInv, PTL

\* A message that decodes (decoder.cpp 256-283) gave each of its bundles to its writer,
\* once and in order, and no item of it was wrong.
THEOREM DecodesOnce == Spec => []DecodedOnce
<1>1. IInv => DecodedOnce
  <2>. SUFFICES ASSUME IInv, dpc = "returned" PROVE DecodedOnce
    BY DEF DecodedOnce
  <2>. USE DEF IInv, Progress
  <2>1. phase = "done" /\ declared = Nbundles /\ left = 0 /\ Len(written) \in Nat
    BY LenProperties DEF TypeOK
  <2>2. Len(written) = Nbundles
    BY <2>1, UnitsAreNat
  <2>3. wrong \in 0 .. 3 + Nbundles /\ wrong \notin 1 .. 3 + Nbundles
    BY <2>1, <2>2, DriverAssumption DEF Consumed, TypeOK
  <2>4. wrong = 0
    BY <2>3, UnitsAreNat
  <2>. QED  BY <2>1, <2>2, <2>4 DEF DecodedOnce
<1>. QED  BY <1>1, AlwaysIInv, PTL
-----------------------------------------------------------------------------
(***************************************************************************)
(* That every right message is decoded needs more of the bytes that wait:  *)
(* they are all the units from the first item that is not parsed to the    *)
(* last one that was fed.  A list that is fed from the start again loses   *)
(* this, and so does a decoder that is used again after a failure, whose   *)
(* parser may hold a unit of the earlier message.                          *)
(***************************************************************************)
InOrder(s, c, a) == Len(s) = a - 2 * c /\ \A i \in 1 .. Len(s) : s[i] = 2 * c + i

Exact ==
    driver # "list" =>
        IF phase = "done" THEN ctx = <<>>
        ELSE /\ phase \notin {"header", "bundles"} => ctx = <<>>
             /\ InOrder(Pending, Consumed, at)

\* Where the header was seen, by the loop the driver is in; and a driver that waits for
\* it has fed less than the next item.
Loops ==
    /\ dpc = "first" => ~HasHeader(phase)
    /\ dpc \in {"second", "finish"} => HasHeader(phase)
    /\ dpc \in {"finish", "null"} => at = end
    /\ driver # "list" /\ ~running /\ dpc \in {"first", "each"} /\ ~HasHeader(phase)
         => at < 2 * Consumed + 2

RightMessage == end = Total /\ declared = Nbundles /\ wrong = 0 /\ driver # "list"

\* The last call of process() finds the header behind it, if the message is complete.
LastCall == RightMessage /\ dpc = "null" => HasHeader(phase)

ExactInv == Exact /\ Loops /\ LastCall /\ CompleteDecodes

LEMMA InOrderFirst ==
    ASSUME NEW s \in Seq(Units), NEW c \in Nat, NEW a \in Nat, InOrder(s, c, a), Len(s) >= 2
    PROVE  SubSeq(s, 1, 2) = Item(c + 1)
<1>1. Len(s) \in Nat /\ \A i \in 1 .. 2 : s[i] \in Units /\ s[i] \in Nat
  BY LenProperties, ElementOfSeq, UnitsAreNat
<1>2. /\ SubSeq(s, 1, 2) \in Seq(Nat) /\ Len(SubSeq(s, 1, 2)) = 2
      /\ \A i \in 1 .. 2 - 1 + 1 : SubSeq(s, 1, 2)[i] = s[1 + i - 1]
  BY <1>1, SubSeqProperties
<1>3. s[1] = 2 * c + 1 /\ s[2] = 2 * c + 2
  BY <1>1 DEF InOrder
<1>4. /\ Item(c + 1) \in Seq(Nat) /\ Len(Item(c + 1)) = 2
      /\ Item(c + 1)[1] = 2 * c + 1 /\ Item(c + 1)[2] = 2 * c + 2
  BY DEF Item
<1>5. SubSeq(s, 1, 2)[1] = s[1] /\ SubSeq(s, 1, 2)[2] = s[2]
  BY <1>2
<1>6. \A i \in 1 .. 2 : SubSeq(s, 1, 2)[i] = Item(c + 1)[i]
  BY <1>3, <1>4, <1>5
<1>. QED  BY <1>2, <1>4, <1>6, SeqEqual

LEMMA InOrderCut ==
    ASSUME NEW s \in Seq(Units), NEW c \in Nat, NEW a \in Nat, InOrder(s, c, a), Len(s) < 2
    PROVE  IsPrefix(s, Item(c + 1))
<1>1. Len(s) \in Nat /\ Len(s) \in Int /\ 1 \in Int /\ \A i \in 1 .. Len(s) : s[i] \in Nat
  BY LenProperties, ElementOfSeq, UnitsAreNat
<1>2. /\ SubSeq(s, 1, Len(s)) \in Seq(Nat)
      /\ Len(SubSeq(s, 1, Len(s))) = IF 1 <= Len(s) THEN Len(s) - 1 + 1 ELSE 0
      /\ \A i \in 1 .. Len(s) - 1 + 1 : SubSeq(s, 1, Len(s))[i] = s[1 + i - 1]
  BY <1>1, SubSeqProperties
<1>3. Len(Item(c + 1)) = 2 /\ Item(c + 1)[1] = 2 * c + 1 /\ Item(c + 1)[2] = 2 * c + 2
  BY DEF Item
<1>4. \A i \in 1 .. Len(s) : Item(c + 1)[i] = s[i] /\ Item(c + 1)[i] \in Nat
  BY <1>1, <1>3 DEF InOrder
<1>5. /\ SubSeq(Item(c + 1), 1, Len(s)) \in Seq(Nat)
      /\ Len(SubSeq(Item(c + 1), 1, Len(s))) = IF 1 <= Len(s) THEN Len(s) - 1 + 1 ELSE 0
      /\ \A i \in 1 .. Len(s) - 1 + 1 : SubSeq(Item(c + 1), 1, Len(s))[i] = Item(c + 1)[1 + i - 1]
  BY <1>1, <1>4, SubSeqProperties
<1>. DEFINE u == SubSeq(s, 1, Len(s))  v == SubSeq(Item(c + 1), 1, Len(s))
<1>6. Len(u) = Len(s) /\ Len(v) = Len(s)
  BY <1>1, <1>2, <1>5
<1>7. \A i \in 1 .. Len(s) : u[i] = v[i]
  <2>. TAKE i \in 1 .. Len(s)
  <2>1. i \in 1 .. Len(s) - 1 + 1 /\ 1 + i - 1 = i
    BY <1>1
  <2>2. u[i] = s[i] /\ v[i] = Item(c + 1)[i]
    BY <1>2, <1>5, <2>1
  <2>. QED  BY <1>4, <2>2
<1>8. u = v
  BY <1>2, <1>5, <1>6, <1>7, SeqEqual
<1>. QED  BY <1>1, <1>3, <1>8 DEF IsPrefix

LEMMA InOrderDrop ==
    ASSUME NEW s \in Seq(Units), NEW c \in Nat, NEW a \in Nat, InOrder(s, c, a), Len(s) >= 2
    PROVE  InOrder(SubSeq(s, 3, Len(s)), c + 1, a)
<1>. DEFINE t == SubSeq(s, 3, Len(s))
<1>1. Len(t) = Len(s) - 2 /\ Len(s) \in Nat /\ \A i \in 1 .. Len(s) - 2 : t[i] = s[i + 2]
  BY DropTwo, LenProperties
<1>. HIDE DEF t
<1>2. Len(t) = a - 2 * (c + 1)
  BY <1>1 DEF InOrder
<1>3. \A i \in 1 .. Len(t) : t[i] = 2 * (c + 1) + i
  <2>. TAKE i \in 1 .. Len(t)
  <2>1. i + 2 \in 1 .. Len(s) /\ i \in 1 .. Len(s) - 2
    BY <1>1
  <2>2. t[i] = s[i + 2] /\ s[i + 2] = 2 * c + (i + 2)
    BY <1>1, <2>1 DEF InOrder
  <2>. QED  BY <2>1, <2>2
<1>. QED  BY <1>2, <1>3 DEF InOrder, t

LEMMA InOrderFeed ==
    ASSUME NEW s \in Seq(Units), NEW c \in Nat, NEW a \in Nat, InOrder(s, c, a),
           NEW n \in Nat, [i \in 1 .. n |-> a + i] \in Seq(Units)
    PROVE  InOrder(s \o [i \in 1 .. n |-> a + i], c, a + n)
<1>. DEFINE t == [i \in 1 .. n |-> a + i]
            u == s \o t
<1>1. Len(t) = n /\ Len(s) \in Nat /\ (\A i \in 1 .. n : t[i] = a + i)
  BY LenProperties
<1>2. /\ Len(u) = Len(s) + Len(t)
      /\ \A i \in 1 .. Len(s) + Len(t) : u[i] = IF i <= Len(s) THEN s[i] ELSE t[i - Len(s)]
  BY ConcatProperties
<1>. HIDE DEF t, u
<1>3. Len(s) = a - 2 * c
  BY DEF InOrder
<1>4. Len(u) = a + n - 2 * c
  BY <1>1, <1>2, <1>3
<1>5. \A i \in 1 .. Len(u) : u[i] = 2 * c + i
  <2>. TAKE i \in 1 .. Len(u)
  <2>1. CASE i <= Len(s)
    BY <1>1, <1>2, <2>1 DEF InOrder
  <2>2. CASE ~(i <= Len(s))
    <3>1. i - Len(s) \in 1 .. n /\ i \in 1 .. Len(s) + Len(t)
      BY <1>1, <1>2, <2>2
    <3>2. u[i] = a + (i - Len(s))
      BY <1>1, <1>2, <2>2, <3>1
    <3>. QED  BY <1>1, <1>3, <3>1, <3>2
  <2>. QED  BY <2>1, <2>2
<1>. QED  BY <1>4, <1>5 DEF InOrder, u, t

LEMMA InitExact == Init => ExactInv
<1>. SUFFICES ASSUME Init PROVE ExactInv
  OBVIOUS
<1>1. TypeOK
  BY InitIInv DEF IInv
<1>2. Pending = <<>> /\ ctx = <<>> /\ phase = "envelope" /\ at = 0 /\ Consumed = 0
  BY <1>1, PendingType DEF Init, Consumed
<1>3. Exact
  BY <1>2 DEF Exact, InOrder
<1>4. Loops /\ LastCall /\ CompleteDecodes
  BY <1>2 DEF Init, Loops, LastCall, CompleteDecodes, HasHeader
<1>. QED  BY <1>3, <1>4 DEF ExactInv

\* What is waiting, by the phase.
LEMMA ExactWaits ==
    ASSUME IInv, Exact, driver # "list", phase # "done"
    PROVE  /\ InOrder(Pending, Consumed, at) /\ Pending \in Seq(Units) /\ Consumed \in Nat
           /\ at \in Nat /\ Len(Pending) \in Nat /\ Len(Pending) = at - 2 * Consumed
           /\ phase \notin {"header", "bundles"} => Pending = buf /\ ctx = <<>>
           /\ phase = "envelope" => Consumed = 0
           /\ phase = "header" => Consumed = 1
           /\ phase = "nbundles" => Consumed = 2
           /\ phase = "bundles" => /\ Consumed = 3 + Len(written) /\ Len(written) \in Nat
                                   /\ left + Len(written) = Nbundles /\ left \in Nat
<1>1. InOrder(Pending, Consumed, at) /\ (phase \notin {"header", "bundles"} => ctx = <<>>)
  BY DEF Exact
<1>2. Pending \in Seq(Units) /\ Consumed \in Nat /\ (ctx = <<>> => Pending = buf)
      /\ at \in Nat /\ Len(Pending) \in Nat
  BY PendingType, ConsumedType, LenProperties, UnitsAreNat DEF IInv, TypeOK
<1>3. phase = "bundles" => /\ Consumed = 3 + Len(written) /\ Len(written) \in Nat
                           /\ left + Len(written) = Nbundles /\ left \in Nat
  BY LenProperties, UnitsAreNat DEF IInv, TypeOK, Progress, Consumed
<1>. QED  BY <1>1, <1>2, <1>3 DEF InOrder, Consumed

\* A length or an object is taken from what waits.
LEMMA ArrayTaken ==
    ASSUME IInv, Exact, driver # "list", phase \in {"envelope", "nbundles"},
           Len(buf) >= 2, TakeArray
    PROVE  ctx' = <<>> /\ InOrder(Pending', Consumed + 1, at)
<1>1. /\ InOrder(buf, Consumed, at) /\ buf \in Seq(Units) /\ Consumed \in Nat /\ at \in Nat
      /\ ctx = <<>>
  BY ExactWaits
<1>2. InOrder(SubSeq(buf, 3, Len(buf)), Consumed + 1, at)
  BY <1>1, InOrderDrop
<1>3. ctx' = <<>> /\ buf' = SubSeq(buf, 3, Len(buf)) /\ buf' \in Seq(Units)
  BY <1>1, DropTwo DEF TakeArray
<1>4. Pending' = buf'
  BY <1>3, ConcatEmptySeq DEF Pending
<1>. QED  BY <1>2, <1>3, <1>4

LEMMA ObjectTaken ==
    ASSUME IInv, Exact, driver # "list", phase \in {"header", "bundles"},
           Len(Pending) >= 2, TakeObject
    PROVE  ctx' = <<>> /\ InOrder(Pending', Consumed + 1, at)
<1>1. InOrder(Pending, Consumed, at) /\ Pending \in Seq(Units) /\ Consumed \in Nat /\ at \in Nat
  BY ExactWaits
<1>2. InOrder(SubSeq(Pending, 3, Len(Pending)), Consumed + 1, at)
  BY <1>1, InOrderDrop
<1>3. ctx' = <<>> /\ buf' = SubSeq(Pending, 3, Len(Pending)) /\ buf' \in Seq(Units)
  BY <1>1, DropTwo DEF TakeObject
<1>4. Pending' = buf'
  BY <1>3, ConcatEmptySeq DEF Pending
<1>. QED  BY <1>2, <1>3, <1>4

LEMMA EnvelopeExact == ASSUME IInv, ExactInv, ReadEnvelope PROVE ExactInv'
<1>1. /\ UNCHANGED <<driver, declared, wrong, end, at, dpc, running>>
      /\ phase = "envelope" /\ phase' = "header" /\ TakeArray /\ Len(buf) >= 2 /\ running
  BY DEF ReadEnvelope, stream, GoodEnvelope, ArrayHere
<1>2. Exact'
  <2>. SUFFICES ASSUME driver # "list" PROVE InOrder(Pending', 1, at)
    BY <1>1 DEF Exact, Consumed, InOrder
  <2>1. Consumed = 0
    BY <1>1 DEF Consumed
  <2>. QED  BY <1>1, <2>1, ArrayTaken DEF ExactInv
<1>3. Loops' /\ LastCall' /\ CompleteDecodes'
  BY <1>1 DEF ExactInv, Loops, LastCall, CompleteDecodes, RightMessage, HasHeader
<1>. QED  BY <1>2, <1>3 DEF ExactInv

LEMMA HeaderExact == ASSUME IInv, ExactInv, ReadHeader PROVE ExactInv'
<1>1. /\ UNCHANGED <<driver, declared, wrong, end>>
      /\ phase = "header" /\ phase' = "nbundles" /\ TakeObject /\ Len(Pending) >= 2 /\ running
  BY DEF ReadHeader, stream, GoodHeader, ObjectHere
<1>2. /\ driver # "list" => at' = at
      /\ dpc' = IF dpc = "first" THEN "second"
                ELSE IF dpc \in {"finish", "null"} THEN EndedEarly("nbundles") ELSE dpc
  BY <1>1 DEF ReadHeader, Paused, HasHeader, IInv, WritersFollowHeader
<1>3. Exact'
  <2>. SUFFICES ASSUME driver # "list" PROVE ctx' = <<>> /\ InOrder(Pending', 2, at)
    BY <1>1, <1>2 DEF Exact, Consumed, InOrder
  <2>1. Consumed = 1
    BY <1>1 DEF Consumed
  <2>. QED  BY <1>1, <2>1, ObjectTaken DEF ExactInv
<1>4. dpc # "finish" /\ (RightMessage => dpc # "null")
  BY <1>1 DEF ExactInv, Loops, LastCall, HasHeader
<1>5. Loops' /\ LastCall' /\ CompleteDecodes'
  BY <1>1, <1>2, <1>4
  DEF ExactInv, Loops, LastCall, CompleteDecodes, RightMessage, HasHeader, EndedEarly
<1>. QED  BY <1>3, <1>5 DEF ExactInv

LEMMA LengthExact == ASSUME IInv, ExactInv, ReadLength PROVE ExactInv'
<1>1. /\ UNCHANGED <<driver, declared, wrong, end, at, dpc, running, written>>
      /\ phase = "nbundles" /\ phase' = "bundles" /\ TakeArray /\ Len(buf) >= 2 /\ running
  BY DEF ReadLength, stream, output, GoodLength, ArrayHere
<1>2. Exact'
  <2>1. written' = <<>>
    BY <1>1 DEF IInv, Progress
  <2>2. Consumed' = 3 /\ Consumed = 2
    BY <1>1, <2>1 DEF Consumed
  <2>. SUFFICES ASSUME driver # "list" PROVE InOrder(Pending', 3, at)
    BY <1>1, <2>2 DEF Exact, InOrder
  <2>. QED  BY <1>1, <2>2, ArrayTaken DEF ExactInv
<1>3. Loops' /\ LastCall' /\ CompleteDecodes'
  BY <1>1 DEF ExactInv, Loops, LastCall, CompleteDecodes, RightMessage, HasHeader
<1>. QED  BY <1>2, <1>3 DEF ExactInv

LEMMA ExtractExact == ASSUME IInv, ExactInv, Extract PROVE ExactInv'
<1>1. /\ UNCHANGED <<driver, declared, wrong, end, at, dpc, running, phase>>
      /\ phase = "bundles" /\ TakeObject /\ running
  BY DEF Extract, stream
<1>2. PICK k \in 1 .. Nbundles :
          /\ GoodBundle(k)
          /\ IF HasWriter(k) THEN written' = Append(written, k) /\ UNCHANGED skipped
             ELSE skipped' = skipped \cup {k} /\ UNCHANGED written
  BY DEF Extract
<1>3. written' = Append(written, k) /\ Len(Pending) >= 2
  BY <1>1, <1>2, MessageAssumption
  DEF IInv, WritersFollowHeader, HasHeader, HasWriter, GoodBundle, ObjectHere
<1>4. Consumed' = Consumed + 1
  <2>1. Len(written') = Len(written) + 1 /\ Len(written) \in Nat
    BY <1>3, AppendProperties, LenProperties DEF IInv, TypeOK
  <2>2. Consumed = 3 + Len(written) /\ Consumed' = 3 + Len(written')
    BY <1>1 DEF Consumed
  <2>. QED  BY <2>1, <2>2
<1>5. Exact'
  <2>. SUFFICES ASSUME driver # "list" PROVE InOrder(Pending', Consumed + 1, at)
    BY <1>1, <1>4 DEF Exact, InOrder
  <2>. QED  BY <1>1, <1>3, ObjectTaken DEF ExactInv
<1>6. Loops' /\ LastCall' /\ CompleteDecodes'
  BY <1>1 DEF ExactInv, Loops, LastCall, CompleteDecodes, RightMessage, HasHeader
<1>. QED  BY <1>5, <1>6 DEF ExactInv

\* When the last bundle is parsed, no bytes are left.
LEMMA AllExtractedExact == ASSUME IInv, ExactInv, AllExtracted PROVE ExactInv'
<1>1. /\ UNCHANGED <<driver, declared, wrong, end, at, ctx>>
      /\ phase = "bundles" /\ left = 0 /\ phase' = "done" /\ running' = FALSE
      /\ dpc' = IF dpc = "first" THEN "unexpected" ELSE "returned"
  BY DEF AllExtracted, stream
<1>2. dpc' = "returned"
  BY <1>1 DEF ExactInv, Loops, HasHeader
<1>3. Exact'
  <2>. SUFFICES ASSUME driver # "list" PROVE ctx = <<>>
    BY <1>1 DEF Exact
  <2>1. /\ Len(Pending) \in Nat /\ Len(Pending) = at - 2 * Consumed
        /\ Consumed = 3 + Len(written) /\ Len(written) \in Nat /\ 0 + Len(written) = Nbundles
    BY <1>1, ExactWaits DEF ExactInv
  <2>2. at \in Nat /\ at <= Total
    BY UnitsAreNat DEF IInv, TypeOK
  <2>3. Len(Pending) = 0
    BY <2>1, <2>2, UnitsAreNat
  <2>4. Len(ctx) \in Nat /\ Len(buf) \in Nat /\ Len(Pending) = Len(ctx) + Len(buf)
        /\ ctx \in Seq(Units)
    BY PendingType DEF IInv
  <2>5. Len(ctx) = 0
    <3>. DEFINE m == Len(ctx)  n == Len(buf)
    <3>1. m \in Nat /\ n \in Nat /\ m + n = 0
      BY <2>3, <2>4
    <3>. HIDE DEF m, n
    <3>2. m = 0
      BY <3>1
    <3>. QED  BY <3>2 DEF m
  <2>. QED  BY <2>4, <2>5, EmptySeq
<1>4. Loops' /\ LastCall' /\ CompleteDecodes'
  BY <1>1, <1>2 DEF ExactInv, Loops, LastCall, CompleteDecodes, RightMessage, HasHeader
<1>. QED  BY <1>3, <1>4 DEF ExactInv

\* A call that finds too little has less than an item, so more is to be fed.
LEMMA CutIsShort ==
    ASSUME IInv, Exact, driver # "list", CutShort
    PROVE  at < 2 * Consumed + 2 /\ (phase = "bundles" => Len(written) < Nbundles)
<1>1. phase # "done"
  BY DEF CutShort
<1>2. Len(Pending) < 2
  BY <1>1, ExactWaits DEF CutShort, ArrayCut, ObjectCut
<1>3. /\ Len(Pending) = at - 2 * Consumed /\ at \in Nat /\ Consumed \in Nat
      /\ Len(Pending) \in Nat
  BY <1>1, ExactWaits
<1>4. at < 2 * Consumed + 2
  BY <1>2, <1>3
<1>5. phase = "bundles" => Len(written) < Nbundles
  <2>. SUFFICES ASSUME phase = "bundles" PROVE Len(written) < Nbundles
    OBVIOUS
  <2>1. left > 0
    BY DEF CutShort
  <2>2. left + Len(written) = Nbundles /\ left \in Nat /\ Len(written) \in Nat
    BY ExactWaits
  <2>. DEFINE n == Len(written)
  <2>3. left > 0 /\ left + n = Nbundles /\ left \in Nat /\ n \in Nat
    BY <2>1, <2>2
  <2>. HIDE DEF n
  <2>4. n < Nbundles
    BY <2>3, UnitsAreNat
  <2>. QED  BY <2>4 DEF n
<1>. QED  BY <1>4, <1>5

\* So the stream was not read to its end.
LEMMA CutIsNotEnd ==
    ASSUME IInv, Exact, driver # "list", CutShort
    PROVE  at < Total
<1>1. phase \in {"envelope", "header", "nbundles", "bundles"} /\ phase # "done"
  BY DEF CutShort
<1>2. at < 2 * Consumed + 2 /\ at \in Nat
  BY <1>1, CutIsShort, ExactWaits
<1>3. CASE phase # "bundles"
  <2>1. Consumed \in {0, 1, 2}
    BY <1>1, <1>3 DEF Consumed
  <2>. QED  BY <1>2, <2>1, UnitsAreNat
<1>4. CASE phase = "bundles"
  <2>1. Consumed = 3 + Len(written) /\ Len(written) \in Nat /\ Len(written) < Nbundles
    BY <1>4, CutIsShort, ExactWaits
  <2>. QED  BY <1>2, <2>1, UnitsAreNat
<1>. QED  BY <1>3, <1>4

LEMMA SuspendExact == ASSUME IInv, ExactInv, Suspend PROVE ExactInv'
<1>1. /\ UNCHANGED <<driver, declared, wrong, end, phase, left, written>> /\ CutShort
  BY DEF Suspend, stream, output
<1>2. ~(HasHeader(phase) /\ writers = {})
  BY MessageAssumption, UnitsAreNat DEF IInv, WritersFollowHeader
<1>3. /\ at' = at /\ running' = FALSE
      /\ dpc' = IF dpc \in {"finish", "null"} THEN EndedEarly(phase) ELSE dpc
  BY <1>2 DEF Suspend, Paused
<1>4. Consumed' = Consumed
  BY <1>1 DEF Consumed
<1>5. Exact'
  <2>. SUFFICES ASSUME driver # "list"
                PROVE  /\ phase \notin {"header", "bundles"} => ctx' = <<>>
                       /\ InOrder(Pending', Consumed, at)
    BY <1>1, <1>3, <1>4 DEF Exact, InOrder, CutShort
  <2>1. InOrder(Pending, Consumed, at) /\ (phase \notin {"header", "bundles"} => ctx = <<>>)
    BY <1>1, ExactWaits DEF ExactInv, CutShort
  <2>2. CASE phase \in {"header", "bundles"}
    <3>1. Pending' = Pending
      BY <2>2, PendingType, ConcatEmptySeq DEF Suspend, Pending, IInv
    <3>. QED  BY <2>1, <2>2, <3>1
  <2>3. CASE phase \notin {"header", "bundles"}
    <3>1. ctx' = ctx /\ Pending' = Pending
      BY <2>3 DEF Suspend, Pending
    <3>. QED  BY <2>1, <2>3, <3>1
  <2>. QED  BY <2>2, <2>3
<1>6. Loops'
  <2>1. driver # "list" => at < 2 * Consumed + 2
    BY <1>1, CutIsShort DEF ExactInv
  <2>. QED  BY <1>1, <1>3, <1>4, <2>1 DEF ExactInv, Loops, HasHeader, EndedEarly
<1>7. LastCall' /\ CompleteDecodes'
  <2>1. RightMessage => dpc \notin {"finish", "null"}
    <3>. SUFFICES ASSUME RightMessage, dpc \in {"finish", "null"} PROVE FALSE
      OBVIOUS
    <3>1. at = Total /\ driver # "list"
      BY DEF ExactInv, Loops, RightMessage
    <3>. QED  BY <1>1, <3>1, CutIsNotEnd, UnitsAreNat DEF ExactInv
  <2>. QED  BY <1>1, <1>3, <2>1 DEF ExactInv, LastCall, CompleteDecodes, RightMessage, HasHeader
<1>. QED  BY <1>5, <1>6, <1>7 DEF ExactInv

\* What waits is what belongs there, unless there is too little.
LEMMA CorruptExact == ASSUME IInv, ExactInv, Corrupt PROVE ExactInv'
<1>1. /\ UNCHANGED <<driver, declared, wrong, end, at, phase, left, buf, ctx, written>>
      /\ dpc' = "corrupt" /\ ~CutShort
  BY DEF Corrupt, stream, decoder, output
<1>2. Exact'
  BY <1>1 DEF ExactInv, Exact, InOrder, Pending, Consumed
<1>3. Loops' /\ LastCall'
  BY <1>1 DEF Loops, LastCall
<1>4. ~RightMessage
  <2>. SUFFICES ASSUME RightMessage PROVE FALSE
    OBVIOUS
  <2>1. driver # "list" /\ wrong = 0 /\ declared = Nbundles /\ phase # "done"
    BY DEF RightMessage, Corrupt
  <2>2. /\ InOrder(Pending, Consumed, at) /\ Pending \in Seq(Units)
        /\ Consumed \in Nat /\ at \in Nat /\ Len(Pending) \in Nat
    BY <2>1, ExactWaits DEF ExactInv
  <2>3. Len(Pending) < 2 => IsPrefix(Pending, Item(Consumed + 1))
    BY <2>2, InOrderCut
  <2>4. Len(Pending) >= 2 => SubSeq(Pending, 1, 2) = Item(Consumed + 1)
    BY <2>2, InOrderFirst
  <2>5. Len(Pending) < 2 \/ Len(Pending) >= 2
    BY <2>2
  <2>6. CASE phase \in {"envelope", "nbundles"}
    <3>1. Pending = buf /\ (phase = "envelope" => Consumed + 1 = 1)
          /\ (phase = "nbundles" => Consumed + 1 = 3)
      BY <2>1, <2>6, ExactWaits DEF ExactInv
    <3>. QED  BY <1>1, <2>1, <2>3, <2>4, <2>5, <2>6, <3>1
         DEF Corrupt, CutShort, ArrayCut, GoodEnvelope, GoodLength, ArrayHere, Envelope, Length
  <2>7. CASE phase = "header"
    <3>1. Consumed + 1 = 2
      BY <2>7 DEF Consumed
    <3>. QED  BY <1>1, <2>1, <2>4, <2>5, <2>7, <3>1
         DEF Corrupt, CutShort, ObjectCut, GoodHeader, ObjectHere, Header
  <2>8. CASE phase = "bundles" /\ left > 0
    <3>1. /\ Consumed = 3 + Len(written) /\ Len(written) \in Nat /\ left \in Nat
          /\ left + Len(written) = Nbundles
      BY <2>1, <2>8, ExactWaits DEF ExactInv
    <3>2. PICK k \in 1 .. Nbundles : Consumed + 1 = 3 + k
      <4>. DEFINE n == Len(written)
      <4>1. n \in Nat /\ left + n = Nbundles /\ left > 0 /\ left \in Nat /\ Consumed = 3 + n
        BY <2>8, <3>1
      <4>. HIDE DEF n
      <4>2. n + 1 \in 1 .. Nbundles /\ Consumed + 1 = 3 + (n + 1)
        BY <4>1, UnitsAreNat
      <4>. QED  BY <4>2
    <3>3. wrong # Bundle(k)
      BY <2>1 DEF Bundle
    <3>4. Len(Pending) >= 2
      BY <1>1, <2>5, <2>8 DEF CutShort, ObjectCut
    <3>5. GoodBundle(k)
      BY <2>4, <3>2, <3>3, <3>4 DEF GoodBundle, ObjectHere, Bundle
    <3>. QED  BY <2>8, <3>5 DEF Corrupt
  <2>. QED  BY <2>6, <2>7, <2>8 DEF Corrupt
<1>5. CompleteDecodes'
  BY <1>1, <1>4 DEF CompleteDecodes, RightMessage
<1>. QED  BY <1>2, <1>3, <1>5 DEF ExactInv

LEMMA FeedExact == ASSUME IInv, ExactInv, Feed PROVE ExactInv'
<1>1. PICK n \in 1 .. end - at : Buffer(n)
  BY DEF Feed
<1>. DEFINE fed == [i \in 1 .. n |-> at + i]
<1>2. /\ UNCHANGED <<driver, declared, wrong, end, dpc, phase, left, ctx, written>>
      /\ dpc \in {"first", "second", "each"} /\ running' = TRUE
      /\ buf' = buf \o fed /\ at' = at + n
  BY <1>1 DEF Feed, Buffer, stream, output
<1>3. /\ at \in Nat /\ n \in Nat /\ \A i \in 1 .. n : at + i \in Units
  BY UnitsAreNat DEF IInv, TypeOK, Units
<1>4. fed \in Seq(Units)
  BY <1>3
<1>5. Consumed' = Consumed
  BY <1>2 DEF Consumed
<1>6. Exact'
  <2>. SUFFICES ASSUME driver # "list", phase # "done"
                PROVE  InOrder(Pending', Consumed, at')
    BY <1>2, <1>5 DEF ExactInv, Exact, InOrder
  <2>1. InOrder(Pending, Consumed, at) /\ Pending \in Seq(Units) /\ Consumed \in Nat
    BY ExactWaits DEF ExactInv
  <2>2. InOrder(Pending \o fed, Consumed, at + n)
    BY <1>3, <1>4, <2>1, InOrderFeed
  <2>. HIDE DEF fed
  <2>3. Pending' = Pending \o fed
    <3>1. ctx \in Seq(Units) /\ buf \in Seq(Units)
      BY PendingType DEF IInv
    <3>2. ctx \o (buf \o fed) = (ctx \o buf) \o fed
      BY <1>4, <3>1, ConcatThree
    <3>. QED  BY <1>2, <3>2 DEF Pending
  <2>. QED  BY <1>2, <2>2, <2>3
<1>7. Loops' /\ LastCall' /\ CompleteDecodes'
  BY <1>2 DEF ExactInv, Loops, LastCall, CompleteDecodes, RightMessage, HasHeader
<1>. QED  BY <1>6, <1>7 DEF ExactInv

\* A complete stream does not end before the header was seen.
LEMMA StreamEndsExact == ASSUME IInv, ExactInv, StreamEnds PROVE ExactInv'
<1>1. /\ UNCHANGED <<driver, declared, wrong, end, at, phase, left, buf, ctx, written>>
      /\ ~running /\ at = end /\ dpc \in {"first", "second", "each"}
      /\ running' = (dpc # "first")
      /\ dpc' = CASE dpc = "first"  -> "incomplete"
                  [] dpc = "second" -> "finish"
                  [] dpc = "each"   -> "null"
  BY DEF StreamEnds, stream, decoder, output
<1>2. Exact' /\ Loops'
  BY <1>1 DEF ExactInv, Exact, InOrder, Pending, Consumed, Loops, HasHeader
<1>3. RightMessage => HasHeader(phase)
  <2>. SUFFICES ASSUME RightMessage, ~HasHeader(phase) PROVE FALSE
    OBVIOUS
  <2>1. dpc \in {"first", "each"}
    BY <1>1 DEF ExactInv, Loops
  <2>2. at < 2 * Consumed + 2 /\ at = Total
    BY <1>1, <2>1 DEF ExactInv, Loops, RightMessage
  <2>3. Consumed \in {0, 1}
    BY DEF HasHeader, Consumed
  <2>. QED  BY <2>2, <2>3, UnitsAreNat
<1>4. LastCall' /\ CompleteDecodes'
  BY <1>1, <1>3 DEF ExactInv, Loops, LastCall, CompleteDecodes, RightMessage, HasHeader
<1>. QED  BY <1>2, <1>4 DEF ExactInv

\* A decoder that returned holds nothing.
LEMMA ReuseExact ==
    ASSUME IInv, ExactInv, Reuse, ReuseAfter \subseteq {"returned"}
    PROVE  ExactInv'
<1>1. /\ driver # "javascript" /\ dpc = "returned" /\ driver' = driver /\ ctx' = ctx
      /\ dpc' = "first" /\ phase' = "envelope" /\ at' = 0 /\ buf' = <<>>
  BY DEF Reuse, Reset
<1>2. phase = "done"
  BY <1>1 DEF IInv, Progress
<1>3. Exact'
  <2>. SUFFICES ASSUME driver # "list" PROVE ctx' = <<>> /\ InOrder(Pending', 0, 0)
    BY <1>1 DEF Exact, Consumed, InOrder
  <2>1. ctx' = <<>> /\ Pending' = <<>>
    BY <1>1, <1>2 DEF ExactInv, Exact, Pending
  <2>. QED  BY <2>1 DEF InOrder
<1>4. Loops' /\ LastCall' /\ CompleteDecodes'
  BY <1>1 DEF Loops, LastCall, CompleteDecodes, HasHeader, Consumed
<1>. QED  BY <1>3, <1>4 DEF ExactInv

LEMMA StepExact ==
    ReuseAfter \subseteq {"returned"} /\ IInv /\ ExactInv /\ [Next]_vars => ExactInv'
<1>. SUFFICES ASSUME ReuseAfter \subseteq {"returned"}, IInv, ExactInv, [Next]_vars
              PROVE  ExactInv'
  OBVIOUS
<1>1. CASE UNCHANGED vars
  BY <1>1 DEF ExactInv, Exact, InOrder, Loops, LastCall, CompleteDecodes, RightMessage,
              HasHeader, Consumed, Pending, vars, stream, decoder, output
<1>2. CASE Process
  BY <1>2, EnvelopeExact, HeaderExact, LengthExact, ExtractExact, AllExtractedExact,
     SuspendExact, CorruptExact
  DEF Process
<1>3. CASE Feed \/ StreamEnds \/ Reuse
  BY <1>3, FeedExact, StreamEndsExact, ReuseExact
<1>. QED  BY <1>1, <1>2, <1>3 DEF Next

\* For any message and any way of cutting it into chunks, with a decoder that is used
\* again after a message that was decoded only: a driver of an iterator gives up on no
\* complete and right message (decoder.cpp 256-283, decoding.py 72-99).
THEOREM CompleteMessagesDecode ==
    ReuseAfter \subseteq {"returned"} => (Spec => []CompleteDecodes)
<1>. SUFFICES ASSUME ReuseAfter \subseteq {"returned"} PROVE Spec => []CompleteDecodes
  OBVIOUS
<1>1. Init => ExactInv
  BY InitExact
<1>2. IInv /\ ExactInv /\ [Next]_vars => ExactInv'
  BY StepExact
<1>3. ExactInv => CompleteDecodes
  BY DEF ExactInv
<1>. QED  BY <1>1, <1>2, <1>3, AlwaysIInv, PTL DEF Spec
=============================================================================
