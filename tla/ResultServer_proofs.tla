------------------------- MODULE ResultServer_proofs -------------------------
(***************************************************************************)
(* The expirations fit together for every choice of the times to live with *)
(* TokenTTL <= HeaderTTL <= StreamTTL: whoever has a valid token and finds *)
(* a header finds every part that was written.  The header is SET after    *)
(* the token was signed and the stream is first renewed after that, so the *)
(* three expire in that order.                                             *)
(*                                                                         *)
(* A response is whole and in order for any number of requests, parts and  *)
(* repeated parts, and any size of the channel.  What the handler has, and *)
(* what waits for it in the channel, is one sequence, which only           *)
(* collectResult() makes longer; it ends no later than at the cursor.      *)
(***************************************************************************)
EXTENDS ResultServer, SequenceTheorems, TLAPS

\* Until the header is SET there is no stream, an expiration of the stream is at
\* least StreamTTL later than the SET, and if entries are gone that time has passed.
Expirations ==
    /\ setAt # Never => setAt <= now
    /\ setAt = Never => base = 0 /\ expireAt = Never
    /\ expireAt # Never => expireAt >= setAt + StreamTTL
    /\ base # 0 => now >= setAt + StreamTTL

\* Where a handler may be while its collectResult() is where it is.
Turns ==
    \A h \in Handlers :
        /\ hpc[h] \in {"idle", "xlen"} => cpc[h] = "off"
        /\ hpc[h] = "xlen" => h \in Gets
        /\ hpc[h] = "range" => h \in Gets /\ cpc[h] \notin {"off", "failed"}
        /\ hpc[h] = "check" => h \in Gets /\ cpc[h] = "closed"
        /\ hpc[h] = "select" => h \in Streams /\ cpc[h] \notin {"off", "failed"}
        /\ hpc[h] = "done" => \/ cpc[h] = "off" /\ answer[h] # 200
                              \/ cpc[h] \in {"closed", "failed"}
        /\ h \in Streams => tiles[h] = <<>>

\* What collectResult() has sent: its handler has the beginning, and the rest waits.
Said(h) == body[h] \o tiles[h]

\* The cursor is at the last entry that was sent, or behind it where entries expired.
Cursors ==
    \A h \in Handlers :
        /\ sent[h] <= cursor[h] /\ cursor[h] <= upto[h] /\ upto[h] <= len
        /\ cpc[h] = "push" => cursor[h] < upto[h]
        /\ cpc[h] = "closed" => sent[h] >= Ntasks

Started(h) == cpc[h] \notin {"off", "header"}

Ascending(s) == \A k \in 1 .. Len(s) - 1 : s[k] < s[k + 1]

Responses ==
    \A h \in Handlers :
        /\ Ascending(Said(h))
        /\ ~Started(h) => Said(h) = <<>> /\ sent[h] = 0
        /\ Started(h) => /\ Len(Said(h)) = sent[h] + 1 /\ Said(h)[1] = 0
                         /\ Said(h)[Len(Said(h))] <= cursor[h]

\* What Status has said stays so while nothing expires.
Polled ==
    /\ seen \in {"working", "finished"} => setAt # Never
    /\ seen = "finished" => len >= Ntasks

IInv == TypeOK /\ Expirations /\ Turns /\ Cursors /\ Responses /\ Polled
-----------------------------------------------------------------------------
\* An element may be appended before the sequences are joined, or after it.
LEMMA ConcatAppend ==
    ASSUME NEW S, NEW s \in Seq(S), NEW t \in Seq(S), NEW e \in S
    PROVE  s \o Append(t, e) = Append(s \o t, e)
<1>1. <<e>> \in Seq(S) /\ s \o t \in Seq(S)
  BY ConcatProperties
<1>2. Append(t, e) = t \o <<e>> /\ Append(s \o t, e) = (s \o t) \o <<e>>
  BY <1>1, AppendIsConcat
<1>. QED  BY <1>1, <1>2, ConcatAssociative

\* The head of the second sequence may move to the end of the first one.
LEMMA ConcatHeadTail ==
    ASSUME NEW S, NEW s \in Seq(S), NEW t \in Seq(S), t # <<>>
    PROVE  Append(s, Head(t)) \o Tail(t) = s \o t
<1>1. Head(t) \in S /\ Tail(t) \in Seq(S)
  BY HeadTailProperties
<1>2. <<Head(t)>> \in Seq(S) /\ Append(s, Head(t)) = s \o <<Head(t)>>
  BY <1>1, AppendIsConcat
<1>3. t = <<Head(t)>> \o Tail(t)
  BY <1>1
<1>. QED  BY <1>1, <1>2, <1>3, ConcatAssociative

LEMMA EntryType == Entries \subseteq Nat /\ 0 \in Entries
  BY NtasksAssumption, BoundsAssumption DEF Entries

\* Appending to what has been said: the order is kept if the entry is a later one.
LEMMA AppendAscending ==
    ASSUME NEW s \in Seq(Nat), NEW e \in Nat, Ascending(s), s # <<>> => s[Len(s)] < e
    PROVE  Ascending(Append(s, e))
<1>. DEFINE t == Append(s, e)
<1>1. /\ Len(s) \in Nat /\ Len(t) = Len(s) + 1 /\ t[Len(s) + 1] = e
      /\ \A i \in 1 .. Len(s) : t[i] = s[i] /\ s[i] \in Nat
      /\ Len(s) > 0 => s # <<>>
  BY AppendProperties, LenProperties, ElementOfSeq, EmptySeq
<1>. HIDE DEF t
<1>. SUFFICES ASSUME NEW k \in 1 .. Len(t) - 1 PROVE t[k] < t[k + 1]
  BY DEF Ascending, t
<1>2. CASE k = Len(s)
  BY <1>1, <1>2
<1>3. CASE k \in 1 .. Len(s) - 1
  BY <1>1, <1>3 DEF Ascending
<1>. QED  BY <1>1, <1>2, <1>3

LEMMA SaidType ==
    ASSUME TypeOK, NEW h \in Handlers
    PROVE  /\ body[h] \in Seq(Entries) /\ tiles[h] \in Seq(Entries)
           /\ Said(h) \in Seq(Entries) /\ Said(h) \in Seq(Nat)
           /\ Len(Said(h)) \in Nat
<1>1. body[h] \in Seq(Entries) /\ tiles[h] \in Seq(Entries)
  BY DEF TypeOK
<1>2. Said(h) \in Seq(Entries)
  BY <1>1, ConcatProperties DEF Said
<1>3. Said(h) \in Seq(Nat)
  BY <1>2, EntryType, SeqMonotonic
<1>. QED  BY <1>1, <1>2, <1>3, LenProperties

\* A tile that is sent is added to what is said to its handler, and to nothing else.
LEMMA SendSays ==
    ASSUME TypeOK, Turns, NEW h \in Handlers, NEW e \in Entries, Send(h, e)
    PROVE  /\ body' \in [Handlers -> Seq(Entries)]
           /\ tiles' \in [Handlers -> Seq(Entries)]
           /\ Said(h)' = Append(Said(h), e)
           /\ \A g \in Handlers : /\ g # h => Said(g)' = Said(g)
                                  /\ Len(tiles'[g]) <= TilesCap
                                  /\ g \in Streams => tiles'[g] = <<>>
<1>1. /\ body \in [Handlers -> Seq(Entries)] /\ tiles \in [Handlers -> Seq(Entries)]
      /\ \A g \in Handlers : Len(tiles[g]) <= TilesCap /\ (g \in Streams => tiles[g] = <<>>)
  BY DEF TypeOK, Turns
<1>2. body[h] \in Seq(Entries) /\ tiles[h] \in Seq(Entries)
  BY <1>1
<1>3. /\ Append(body[h], e) \in Seq(Entries) /\ Append(tiles[h], e) \in Seq(Entries)
      /\ Len(Append(tiles[h], e)) = Len(tiles[h]) + 1 /\ Len(tiles[h]) \in Nat
  BY <1>2, AppendProperties, LenProperties
<1>4. CASE h \in Gets
  <2>1. /\ Len(tiles[h]) < TilesCap /\ tiles' = [tiles EXCEPT ![h] = Append(tiles[h], e)]
        /\ body' = body /\ h \notin Streams
    BY <1>4, BoundsAssumption DEF Send
  <2>2. tiles'[h] = Append(tiles[h], e) /\ \A g \in Handlers \ {h} : tiles'[g] = tiles[g]
    BY <1>1, <2>1
  <2>3. Said(h)' = Append(Said(h), e)
    <3>1. body[h] \o Append(tiles[h], e) = Append(body[h] \o tiles[h], e)
      <4>. DEFINE b == body[h]  t == tiles[h]  S == Entries
      <4>1. b \in Seq(S) /\ t \in Seq(S) /\ e \in S
        BY <1>2
      <4>. HIDE DEF b, t, S
      <4>2. b \o Append(t, e) = Append(b \o t, e)
        BY <4>1, ConcatAppend
      <4>. QED  BY <4>2 DEF b, t
    <3>. QED  BY <2>1, <2>2, <3>1 DEF Said
  <2>4. tiles' \in [Handlers -> Seq(Entries)] /\ body' \in [Handlers -> Seq(Entries)]
    BY <1>1, <1>3, <2>1
  <2>5. Len(tiles'[h]) <= TilesCap
    BY <1>3, <2>1, <2>2, BoundsAssumption
  <2>6. \A g \in Handlers : Len(tiles'[g]) <= TilesCap /\ (g \in Streams => tiles'[g] = <<>>)
    BY <1>1, <2>1, <2>2, <2>5
  <2>. QED  BY <2>1, <2>2, <2>3, <2>4, <2>6 DEF Said
<1>5. CASE h \notin Gets
  <2>1. /\ h \in Streams /\ tiles' = tiles /\ tiles[h] = <<>>
        /\ body' = [body EXCEPT ![h] = Append(body[h], e)]
    BY <1>1, <1>5 DEF Send, Handlers
  <2>2. body'[h] = Append(body[h], e) /\ \A g \in Handlers \ {h} : body'[g] = body[g]
    BY <1>1, <2>1
  <2>3. body[h] \o <<>> = body[h] /\ Append(body[h], e) \o <<>> = Append(body[h], e)
    BY <1>2, <1>3, ConcatEmptySeq
  <2>4. Said(h)' = Append(Said(h), e)
    <3>1. Said(h) = body[h]  BY <2>1, <2>3 DEF Said
    <3>2. Said(h)' = body'[h] \o <<>>  BY <2>1 DEF Said
    <3>. QED  BY <2>2, <2>3, <3>1, <3>2
  <2>5. tiles' \in [Handlers -> Seq(Entries)] /\ body' \in [Handlers -> Seq(Entries)]
    BY <1>1, <1>3, <2>1
  <2>. QED  BY <1>1, <2>1, <2>2, <2>4, <2>5 DEF Said
<1>. QED  BY <1>4, <1>5

\* Get takes the first tile that waits, which was said already.
LEMMA RangeSays ==
    ASSUME TypeOK, Turns, NEW h \in Handlers, tiles[h] # <<>>,
           body' = [body EXCEPT ![h] = Append(@, Head(tiles[h]))],
           tiles' = [tiles EXCEPT ![h] = Tail(@)]
    PROVE  /\ body' \in [Handlers -> Seq(Entries)]
           /\ tiles' \in [Handlers -> Seq(Entries)]
           /\ \A g \in Handlers : /\ Said(g)' = Said(g)
                                  /\ Len(tiles'[g]) <= TilesCap
                                  /\ g \in Streams => tiles'[g] = <<>>
<1>1. /\ body \in [Handlers -> Seq(Entries)] /\ tiles \in [Handlers -> Seq(Entries)]
      /\ \A g \in Handlers : Len(tiles[g]) <= TilesCap /\ (g \in Streams => tiles[g] = <<>>)
  BY DEF TypeOK, Turns
<1>2. body[h] \in Seq(Entries) /\ tiles[h] \in Seq(Entries)
  BY <1>1
<1>3. /\ Head(tiles[h]) \in Entries /\ Tail(tiles[h]) \in Seq(Entries)
      /\ Len(Tail(tiles[h])) = Len(tiles[h]) - 1 /\ Len(tiles[h]) \in Nat
  BY <1>2, HeadTailProperties, LenProperties
<1>4. Append(body[h], Head(tiles[h])) \in Seq(Entries)
  BY <1>2, <1>3, AppendProperties
<1>5. body'[h] = Append(body[h], Head(tiles[h])) /\ tiles'[h] = Tail(tiles[h])
  BY <1>1
<1>6. \A g \in Handlers \ {h} : body'[g] = body[g] /\ tiles'[g] = tiles[g]
  BY <1>1
<1>7. Said(h)' = Said(h)
  BY <1>2, <1>5, ConcatHeadTail DEF Said
<1>8. body' \in [Handlers -> Seq(Entries)] /\ tiles' \in [Handlers -> Seq(Entries)]
  BY <1>1, <1>3, <1>4
<1>9. Len(tiles'[h]) <= TilesCap /\ h \notin Streams
  <2>1. TilesCap \in Nat  BY BoundsAssumption
  <2>2. Len(tiles[h]) <= TilesCap  BY <1>1
  <2>. QED  BY <1>1, <1>3, <1>5, <2>1, <2>2
<1>. QED  BY <1>1, <1>6, <1>7, <1>8, <1>9 DEF Said
-----------------------------------------------------------------------------
\* At the start nothing is written, nothing is said, and nobody asks.
LEMMA InitIInv == Init => IInv
<1>. SUFFICES ASSUME Init PROVE IInv
  OBVIOUS
<1>1. 0 \in Entries /\ \A h \in Handlers : Said(h) = <<>>
  BY EntryType DEF Init, Said
<1>2. TypeOK
  <2>1. setAt = Never /\ expireAt = Never /\ now \in Time
    BY TTLAssumption DEF Init, Time
  <2>2. faults \in 0 .. MaxFaults /\ extra \in 0 .. faults /\ len - extra \in 0 .. Ntasks
    BY NtasksAssumption, BoundsAssumption DEF Init
  <2>3. \A h \in Handlers : Len(tiles[h]) <= TilesCap
    BY BoundsAssumption DEF Init
  <2>4. body \in [Handlers -> Seq(Entries)] /\ tiles \in [Handlers -> Seq(Entries)]
    BY DEF Init
  <2>. QED  BY <1>1, <2>1, <2>2, <2>3, <2>4 DEF TypeOK, Init
<1>3. Expirations /\ Polled
  BY NeverAssumption DEF Init, Expirations, Polled
<1>4. Turns
  BY DEF Init, Turns
<1>5. Cursors
  BY DEF Init, Cursors
<1>6. Responses
  BY <1>1, EmptySeq DEF Init, Responses, Started, Ascending
<1>. QED  BY <1>2, <1>3, <1>4, <1>5, <1>6 DEF IInv

LEMMA CountTypes ==
    ASSUME TypeOK, NEW h \in Handlers
    PROVE  /\ len \in Nat /\ base \in Nat /\ Ntasks \in Nat /\ MaxFaults \in Nat
           /\ sent[h] \in Nat /\ cursor[h] \in Nat /\ upto[h] \in Nat
<1>1. len \in Entries /\ base \in Entries
  BY DEF TypeOK
<1>2. sent[h] \in Entries /\ cursor[h] \in Entries /\ upto[h] \in Entries
  BY DEF TypeOK
<1>. QED  BY <1>1, <1>2, EntryType, NtasksAssumption, BoundsAssumption

\* What a step keeps that leaves the collectors, the handlers and the channels alone.
LEMMA RedisSteps ==
    ASSUME IInv, UNCHANGED <<collector, handler, tiles>>, len' \in Nat, len <= len'
    PROVE  Turns' /\ Cursors' /\ Responses'
<1>1. Turns'
  BY DEF IInv, Turns, collector, handler
<1>2. Cursors'
  <2>. SUFFICES ASSUME NEW h \in Handlers PROVE upto[h] <= len'
    BY DEF IInv, Cursors, collector
  <2>1. upto[h] \in Nat /\ len \in Nat
    BY CountTypes DEF IInv
  <2>2. upto[h] <= len
    BY DEF IInv, Cursors
  <2>. QED  BY <2>1, <2>2
<1>3. Responses'
  BY DEF IInv, Responses, Started, Said, Ascending, collector, handler
<1>. QED  BY <1>1, <1>2, <1>3

LEMMA SetHeaderIInv == ASSUME IInv, SetHeader PROVE IInv'
<1>1. TypeOK'
  BY DEF IInv, TypeOK, SetHeader, collector, handler
<1>2. Expirations' /\ Polled'
  BY NeverAssumption DEF IInv, TypeOK, Time, Expirations, Polled, SetHeader
<1>3. len \in Nat /\ len' = len /\ UNCHANGED <<collector, handler, tiles>>
  BY EntryType DEF IInv, TypeOK, SetHeader
<1>. QED  BY <1>1, <1>2, <1>3, RedisSteps DEF IInv

LEMMA AddPartIInv == ASSUME IInv, AddPart PROVE IInv'
<1>1. /\ now \in Nat /\ base \in Nat /\ len \in Nat /\ base <= len /\ extra \in Nat
      /\ extra <= faults /\ faults \in Nat /\ faults <= MaxFaults
      /\ len - extra <= Ntasks /\ now <= MaxTime /\ len >= extra
      /\ Ntasks \in Nat /\ MaxFaults \in Nat /\ StreamTTL \in Nat /\ MaxTime \in Nat
  BY EntryType, BoundsAssumption, TTLAssumption, NtasksAssumption DEF IInv, TypeOK, Time
<1>2. /\ base' = base /\ now' = now /\ setAt' = setAt /\ seen' = seen /\ setAt # Never
      /\ len' = len + 1 /\ UNCHANGED <<collector, handler, tiles>>
  BY DEF AddPart, AddEntry
<1>3. /\ extra' \in 0 .. faults' /\ len' - extra' \in 0 .. Ntasks /\ len' \in Entries
      /\ faults' \in 0 .. MaxFaults
  <2>1. CASE len - extra < Ntasks /\ UNCHANGED <<extra, faults>>
    BY <1>1, <1>2, <2>1 DEF Entries
  <2>2. CASE faults < MaxFaults /\ faults' = faults + 1 /\ extra' = extra + 1
    BY <1>1, <1>2, <2>2 DEF Entries
  <2>. QED  BY <2>1, <2>2 DEF AddPart, AddEntry, Fault
<1>4. /\ expireAt' = expireAt \/ expireAt' = now + StreamTTL
      /\ now + StreamTTL \in 0 .. MaxTime + StreamTTL
  BY <1>1 DEF AddPart
<1>5. TypeOK'
  <2>1. base' \in Entries /\ base' <= len'
    BY <1>1, <1>2 DEF IInv, TypeOK
  <2>2. expireAt' \in 0 .. MaxTime + StreamTTL \cup {Never}
    BY <1>4 DEF IInv, TypeOK
  <2>. QED  BY <1>2, <1>3, <2>1, <2>2 DEF IInv, TypeOK, collector, handler
<1>6. Expirations'
  BY <1>1, <1>2, <1>4, NeverAssumption, TTLAssumption DEF IInv, TypeOK, Time, Expirations
<1>7. Polled'
  BY <1>1, <1>2 DEF IInv, Polled
<1>. QED  BY <1>1, <1>2, <1>5, <1>6, <1>7, RedisSteps DEF IInv

LEMMA TickIInv == ASSUME IInv, Tick PROVE IInv'
<1>1. /\ len' = len /\ setAt' = setAt /\ extra' = extra /\ faults' = faults /\ seen' = seen
      /\ UNCHANGED <<collector, handler, tiles>>
  BY DEF Tick
<1>2. now \in Nat /\ now' \in Time /\ now' = now + 1 /\ len \in Nat
  BY EntryType, TTLAssumption DEF IInv, TypeOK, Tick, Time
<1>3. \/ base' = len /\ expireAt' = Never /\ expireAt # Never /\ expireAt <= now'
      \/ base' = base /\ expireAt' = expireAt
  BY DEF Tick
<1>4. TypeOK'
  <2>1. base' \in Entries /\ base' <= len' /\ expireAt' \in 0 .. MaxTime + StreamTTL \cup {Never}
    BY <1>1, <1>2, <1>3 DEF IInv, TypeOK
  <2>. QED  BY <1>1, <1>2, <2>1 DEF IInv, TypeOK, collector, handler
<1>5. Expirations'
  BY <1>1, <1>2, <1>3, NeverAssumption, TTLAssumption DEF IInv, TypeOK, Time, Expirations
<1>6. Polled'
  BY <1>1 DEF IInv, Polled
<1>. QED  BY <1>1, <1>2, <1>4, <1>5, <1>6, RedisSteps DEF IInv

LEMMA StatusIInv == ASSUME IInv, Status PROVE IInv'
<1>1. /\ UNCHANGED <<redis, collector, handler, tiles, faults>>
      /\ seen' \in {"pending", "working", "finished"}
      /\ seen' \in {"working", "finished"} => setAt # Never
      /\ seen' = "finished" => len - base = Ntasks
  BY DEF Status, HeaderAlive, XLen
<1>2. len \in Nat /\ len' = len /\ base \in Nat
  BY <1>1, EntryType DEF IInv, TypeOK, redis
<1>3. TypeOK'
  BY <1>1 DEF IInv, TypeOK, redis, collector, handler
<1>4. Expirations'
  BY <1>1 DEF IInv, Expirations, redis
<1>5. Polled'
  BY <1>1, <1>2, NtasksAssumption DEF Polled, redis
<1>. QED  BY <1>1, <1>2, <1>3, <1>4, <1>5, RedisSteps DEF IInv
-----------------------------------------------------------------------------
\* The state of the handlers and the collectors, as TypeOK has it.
HandlersOK ==
    /\ hpc \in [Handlers -> {"idle", "xlen", "range", "check", "select", "done"}]
    /\ cpc \in [Handlers -> {"off", "header", "read", "push", "fail", "failed", "closed"}]
    /\ answer \in [Handlers -> {0, 200, 202, 403, 404, 500}]

CountsOK ==
    /\ sent \in [Handlers -> Entries]
    /\ cursor \in [Handlers -> Entries]
    /\ upto \in [Handlers -> Entries]

ChannelsOK ==
    /\ tiles \in [Handlers -> Seq(Entries)] /\ body \in [Handlers -> Seq(Entries)]
    /\ \A h \in Handlers : Len(tiles[h]) <= TilesCap

\* What a step of a request has to be shown to keep.
LEMMA RequestSteps ==
    ASSUME IInv, UNCHANGED <<redis, seen>>, UNCHANGED faults \/ Fault,
           HandlersOK', CountsOK', ChannelsOK', Turns', Cursors', Responses'
    PROVE  IInv'
<1>1. faults' \in 0 .. MaxFaults /\ extra \in 0 .. faults'
  <2>1. faults \in 0 .. MaxFaults /\ extra \in 0 .. faults /\ MaxFaults \in Nat
    BY BoundsAssumption DEF IInv, TypeOK
  <2>. QED  BY <2>1 DEF Fault
<1>2. TypeOK'
  BY <1>1 DEF IInv, TypeOK, HandlersOK, CountsOK, ChannelsOK, redis
<1>3. Expirations' /\ Polled'
  BY DEF IInv, Expirations, Polled, redis
<1>. QED  BY <1>2, <1>3 DEF IInv

\* Nothing is sent, and collectResult() has not sent its header before or after.
LEMMA QuietSteps ==
    ASSUME IInv, UNCHANGED <<body, tiles, sent, cursor, upto, len>>,
           HandlersOK', NEW h \in Handlers,
           \A g \in Handlers \ {h} : cpc'[g] = cpc[g],
           ~Started(h)' <=> ~Started(h),
           cpc'[h] # "push", cpc'[h] = "closed" => sent[h] >= Ntasks
    PROVE  CountsOK' /\ ChannelsOK' /\ Cursors' /\ Responses'
<1>1. CountsOK' /\ ChannelsOK'
  BY DEF IInv, TypeOK, CountsOK, ChannelsOK
<1>2. Cursors'
  BY DEF IInv, Cursors
<1>3. \A g \in Handlers : Said(g)' = Said(g) /\ (Started(g)' <=> Started(g))
  BY DEF Said, Started
<1>4. Responses'
  <2>1. ASSUME NEW g \in Handlers
        PROVE  /\ Ascending(Said(g)) /\ (~Started(g) => Said(g) = <<>> /\ sent[g] = 0)
               /\ Started(g) => /\ Len(Said(g)) = sent[g] + 1 /\ Said(g)[1] = 0
                                /\ Said(g)[Len(Said(g))] <= cursor[g]
    BY DEF IInv, Responses
  <2>2. ASSUME NEW g \in Handlers
        PROVE  /\ Ascending(Said(g)') /\ (~Started(g)' => Said(g)' = <<>> /\ sent'[g] = 0)
               /\ Started(g)' => /\ Len(Said(g)') = sent'[g] + 1 /\ Said(g)'[1] = 0
                                 /\ Said(g)'[Len(Said(g)')] <= cursor'[g]
    BY <1>3, <2>1
  <2>. QED  BY <2>2 DEF Responses, Ascending
<1>. QED  BY <1>1, <1>2, <1>4

LEMMA LookupIInv == ASSUME IInv, NEW h \in Handlers, Lookup(h) PROVE IInv'
<1>1. /\ UNCHANGED <<redis, seen>> /\ (UNCHANGED faults \/ Fault)
      /\ UNCHANGED <<body, tiles, sent, cursor, upto, len>> /\ hpc[h] = "idle"
  BY DEF Lookup, redis
<1>2. HandlersOK /\ cpc[h] = "off"
  BY <1>1 DEF IInv, TypeOK, HandlersOK, Turns
<1>3. \/ /\ \E code \in {403, 404, 500} : Answer(h, code)
         /\ UNCHANGED cpc
      \/ h \in Gets /\ hpc' = [hpc EXCEPT ![h] = "xlen"] /\ UNCHANGED <<cpc, answer>>
      \/ /\ h \in Streams /\ hpc' = [hpc EXCEPT ![h] = "select"]
         /\ answer' = [answer EXCEPT ![h] = 200] /\ Collect(h)
  BY DEF Lookup, Handlers
<1>4. HandlersOK'
  BY <1>2, <1>3 DEF HandlersOK, Answer, Collect
<1>5. Turns'
  BY <1>1, <1>2, <1>3 DEF IInv, Turns, HandlersOK, Answer, Collect
<1>6. cpc'[h] \in {"off", "header"} /\ \A g \in Handlers \ {h} : cpc'[g] = cpc[g]
  BY <1>2, <1>3 DEF HandlersOK, Collect
<1>7. CountsOK' /\ ChannelsOK' /\ Cursors' /\ Responses'
  BY <1>1, <1>2, <1>4, <1>6, QuietSteps DEF Started
<1>. QED  BY <1>1, <1>4, <1>5, <1>7, RequestSteps

LEMMA CheckLengthIInv == ASSUME IInv, NEW h \in Handlers, CheckLength(h) PROVE IInv'
<1>1. /\ UNCHANGED <<redis, seen>> /\ (UNCHANGED faults \/ Fault)
      /\ UNCHANGED <<body, tiles, sent, cursor, upto, len>> /\ hpc[h] = "xlen"
  BY DEF CheckLength, redis
<1>2. HandlersOK /\ cpc[h] = "off" /\ h \in Gets
  BY <1>1 DEF IInv, TypeOK, HandlersOK, Turns
<1>3. \/ Answer(h, 202) /\ UNCHANGED cpc
      \/ hpc' = [hpc EXCEPT ![h] = "range"] /\ Collect(h) /\ UNCHANGED answer
  BY DEF CheckLength
<1>4. HandlersOK'
  BY <1>2, <1>3 DEF HandlersOK, Answer, Collect
<1>5. Turns'
  BY <1>1, <1>2, <1>3 DEF IInv, Turns, HandlersOK, Answer, Collect
<1>6. cpc'[h] \in {"off", "header"} /\ \A g \in Handlers \ {h} : cpc'[g] = cpc[g]
  BY <1>2, <1>3 DEF HandlersOK, Collect
<1>7. CountsOK' /\ ChannelsOK' /\ Cursors' /\ Responses'
  BY <1>1, <1>2, <1>4, <1>6, QuietSteps DEF Started
<1>. QED  BY <1>1, <1>4, <1>5, <1>7, RequestSteps

LEMMA CloseIInv == ASSUME IInv, NEW h \in Handlers, Close(h) PROVE IInv'
<1>1. /\ UNCHANGED <<redis, seen, faults, handler>>
      /\ UNCHANGED <<body, tiles, sent, cursor, upto, len>>
      /\ cpc[h] = "read" /\ sent[h] >= Ntasks /\ cpc' = [cpc EXCEPT ![h] = "closed"]
  BY DEF Close, redis, handler
<1>2. HandlersOK
  BY DEF IInv, TypeOK, HandlersOK
<1>3. HandlersOK'
  BY <1>1, <1>2 DEF HandlersOK, handler
<1>4. Turns'
  BY <1>1, <1>2 DEF IInv, Turns, HandlersOK, handler
<1>5. cpc'[h] = "closed" /\ \A g \in Handlers \ {h} : cpc'[g] = cpc[g]
  BY <1>1, <1>2 DEF HandlersOK
<1>6. CountsOK' /\ ChannelsOK' /\ Cursors' /\ Responses'
  BY <1>1, <1>3, <1>5, QuietSteps DEF Started
<1>. QED  BY <1>1, <1>3, <1>4, <1>6, RequestSteps

LEMMA CheckFailureIInv == ASSUME IInv, NEW h \in Handlers, CheckFailure(h) PROVE IInv'
<1>1. /\ UNCHANGED <<redis, seen, faults, cpc>>
      /\ UNCHANGED <<body, tiles, sent, cursor, upto, len>>
      /\ hpc[h] = "check" /\ \E code \in {200, 500} : Answer(h, code)
  BY DEF CheckFailure, redis, collector
<1>2. HandlersOK /\ cpc[h] = "closed" /\ sent[h] >= Ntasks
  BY <1>1 DEF IInv, TypeOK, HandlersOK, Turns, Cursors
<1>3. HandlersOK'
  BY <1>1, <1>2 DEF HandlersOK, Answer
<1>4. Turns'
  BY <1>1, <1>2 DEF IInv, Turns, HandlersOK, Answer
<1>5. CountsOK' /\ ChannelsOK' /\ Cursors' /\ Responses'
  BY <1>1, <1>2, <1>3, QuietSteps DEF Started
<1>. QED  BY <1>1, <1>3, <1>4, <1>5, RequestSteps

LEMMA StreamEndIInv == ASSUME IInv, NEW h \in Handlers, StreamEnd(h) PROVE IInv'
<1>1. /\ UNCHANGED <<redis, seen, faults, answer>>
      /\ UNCHANGED <<body, tiles, sent, cursor, upto, len>>
      /\ hpc[h] = "select" /\ hpc' = [hpc EXCEPT ![h] = "done"]
      /\ \/ cpc[h] = "closed" /\ UNCHANGED cpc
         \/ cpc[h] = "fail" /\ cpc' = [cpc EXCEPT ![h] = "failed"]
  BY DEF StreamEnd, redis
<1>2. HandlersOK
  BY DEF IInv, TypeOK, HandlersOK
<1>3. HandlersOK'
  BY <1>1, <1>2 DEF HandlersOK
<1>4. Turns'
  BY <1>1, <1>2 DEF IInv, Turns, HandlersOK
<1>5. /\ cpc'[h] = cpc[h] \/ (cpc[h] = "fail" /\ cpc'[h] = "failed")
      /\ cpc[h] \in {"closed", "fail"}
      /\ \A g \in Handlers \ {h} : cpc'[g] = cpc[g]
      /\ cpc[h] = "closed" => sent[h] >= Ntasks
  BY <1>1, <1>2 DEF HandlersOK, IInv, Cursors
<1>6. CountsOK' /\ ChannelsOK' /\ Cursors' /\ Responses'
  BY <1>1, <1>3, <1>5, QuietSteps DEF Started
<1>. QED  BY <1>1, <1>3, <1>4, <1>6, RequestSteps

\* The reply of XREAD: the cursor skips the entries that expired, and only moves on.
LEMMA XReadIInv == ASSUME IInv, NEW h \in Handlers, XRead(h) PROVE IInv'
<1>1. /\ UNCHANGED <<redis, seen, handler, body, tiles, sent, len>>
      /\ UNCHANGED faults \/ Fault
      /\ cpc[h] = "read"
      /\ \/ /\ len > cursor[h] /\ len > base
            /\ cursor' = [cursor EXCEPT ![h] = IF base > @ THEN base ELSE @]
            /\ upto' = [upto EXCEPT ![h] = len]
            /\ cpc' = [cpc EXCEPT ![h] = "push"]
         \/ cpc' = [cpc EXCEPT ![h] = "fail"] /\ UNCHANGED <<cursor, upto>>
  BY DEF XRead, redis, handler
<1>2. HandlersOK /\ CountsOK /\ ChannelsOK /\ base \in Entries /\ len \in Entries
  BY DEF IInv, TypeOK, HandlersOK, CountsOK, ChannelsOK
<1>3. HandlersOK' /\ CountsOK' /\ ChannelsOK'
  <2>1. HandlersOK'
    BY <1>1, <1>2 DEF HandlersOK, handler
  <2>2. CountsOK'
    BY <1>1, <1>2 DEF CountsOK
  <2>3. ChannelsOK'
    BY <1>1, <1>2 DEF ChannelsOK
  <2>. QED  BY <2>1, <2>2, <2>3
<1>4. Turns'
  BY <1>1, <1>2 DEF IInv, Turns, HandlersOK, handler
<1>5. /\ cpc'[h] \in {"push", "fail"}
      /\ \A g \in Handlers \ {h} : /\ cpc'[g] = cpc[g] /\ cursor'[g] = cursor[g]
                                   /\ upto'[g] = upto[g]
  BY <1>1, <1>2 DEF HandlersOK, CountsOK
<1>6. /\ cursor[h] <= cursor'[h] /\ cursor'[h] <= upto'[h] /\ upto'[h] <= len
      /\ cpc'[h] = "push" => cursor'[h] < upto'[h]
      /\ sent[h] <= cursor'[h]
  <2>1. /\ sent[h] <= cursor[h] /\ cursor[h] <= upto[h] /\ upto[h] <= len
        /\ sent[h] \in Nat /\ cursor[h] \in Nat /\ upto[h] \in Nat /\ len \in Nat /\ base \in Nat
    BY CountTypes DEF IInv, Cursors
  <2>2. CASE /\ len > cursor[h] /\ len > base
             /\ cursor'[h] = (IF base > cursor[h] THEN base ELSE cursor[h])
             /\ upto'[h] = len
    BY <2>1, <2>2
  <2>3. CASE cpc'[h] = "fail" /\ cursor'[h] = cursor[h] /\ upto'[h] = upto[h]
    BY <2>1, <2>3
  <2>. QED  BY <1>1, <1>2, <2>2, <2>3 DEF HandlersOK, CountsOK
<1>7. Cursors'
  BY <1>1, <1>5, <1>6 DEF IInv, Cursors
<1>8. \A g \in Handlers : Said(g)' = Said(g) /\ (Started(g)' <=> Started(g))
  BY <1>1, <1>5 DEF Said, Started
<1>9. Responses'
  <2>. SUFFICES ASSUME NEW g \in Handlers
                PROVE  /\ Ascending(Said(g)) /\ (~Started(g) => Said(g) = <<>> /\ sent[g] = 0)
                       /\ Started(g) => /\ Len(Said(g)) = sent[g] + 1 /\ Said(g)[1] = 0
                                        /\ Said(g)[Len(Said(g))] <= cursor'[g]
    BY <1>1, <1>8 DEF Responses, Ascending
  <2>1. CASE g # h
    BY <1>5, <2>1 DEF IInv, Responses
  <2>2. CASE g = h
    <3>1. Started(h)
      BY <1>1 DEF Started
    <3>2. /\ Ascending(Said(h)) /\ Len(Said(h)) = sent[h] + 1 /\ Said(h)[1] = 0
          /\ Said(h)[Len(Said(h))] <= cursor[h]
      BY <3>1 DEF IInv, Responses
    <3>3. Said(h)[Len(Said(h))] \in Nat /\ cursor[h] \in Nat /\ cursor'[h] \in Nat
      <4>1. Said(h) \in Seq(Nat) /\ Len(Said(h)) \in 1 .. Len(Said(h))
        BY <3>2, SaidType, CountTypes DEF IInv
      <4>2. cursor'[h] \in Entries /\ cursor[h] \in Entries
        BY <1>2, <1>3 DEF CountsOK
      <4>. QED  BY <4>1, <4>2, ElementOfSeq, EntryType
    <3>4. Said(h)[Len(Said(h))] <= cursor'[h]
      <4>. DEFINE last == Said(h)[Len(Said(h))]  c == cursor'[h]
      <4>1. last \in Nat /\ cursor[h] \in Nat /\ c \in Nat /\ last <= cursor[h] /\ cursor[h] <= c
        BY <1>6, <3>2, <3>3
      <4>. HIDE DEF last, c
      <4>2. last <= c
        BY <4>1
      <4>. QED  BY <4>2 DEF last, c
    <3>. QED  BY <2>2, <3>1, <3>2, <3>4
  <2>. QED  BY <2>1, <2>2
<1>. QED  BY <1>1, <1>3, <1>4, <1>7, <1>9, RequestSteps

\* A tile that comes later than what was said, up to the cursor, keeps the order.
LEMMA SaysMore ==
    ASSUME IInv, NEW h \in Handlers, NEW e \in Entries, NEW c \in Nat,
           Said(h)' = Append(Said(h), e), Started(h)', e <= c, cursor'[h] = c,
           sent'[h] = Len(Said(h)),
           Said(h) = <<>> => e = 0,
           Said(h) # <<>> => Said(h)[1] = 0 /\ Said(h)[Len(Said(h))] < e,
           \A g \in Handlers \ {h} : /\ Said(g)' = Said(g) /\ (Started(g)' <=> Started(g))
                                     /\ sent'[g] = sent[g] /\ cursor'[g] = cursor[g]
    PROVE  Responses'
<1>. DEFINE s == Said(h)  t == Append(s, e)
<1>1. s \in Seq(Nat) /\ e \in Nat /\ Ascending(s)
  BY SaidType, EntryType DEF IInv, Responses
<1>2. Ascending(t)
  BY <1>1, AppendAscending
<1>3. Len(t) = Len(s) + 1 /\ Len(s) \in Nat /\ t[Len(t)] = e
      /\ \A i \in 1 .. Len(s) : t[i] = s[i]
  BY <1>1, AppendProperties, LenProperties
<1>4. t[1] = 0
  <2>1. CASE s = <<>>
    BY <1>3, <2>1, EmptySeq
  <2>2. CASE s # <<>>
    <3>1. Len(s) # 0
      BY <1>1, <2>2, EmptySeq
    <3>. QED  BY <1>3, <2>2, <3>1
  <2>. QED  BY <2>1, <2>2
<1>. HIDE DEF s, t
<1>5. Said(h)' = t
  BY DEF t, s
<1>. SUFFICES ASSUME NEW g \in Handlers
              PROVE  /\ Ascending(Said(g)')
                     /\ ~Started(g)' => Said(g)' = <<>> /\ sent'[g] = 0
                     /\ Started(g)' => /\ Len(Said(g)') = sent'[g] + 1 /\ Said(g)'[1] = 0
                                       /\ Said(g)'[Len(Said(g)')] <= cursor'[g]
  BY DEF Responses, Ascending
<1>6. CASE g # h
  <2>1. /\ Ascending(Said(g)) /\ (~Started(g) => Said(g) = <<>> /\ sent[g] = 0)
        /\ Started(g) => /\ Len(Said(g)) = sent[g] + 1 /\ Said(g)[1] = 0
                         /\ Said(g)[Len(Said(g))] <= cursor[g]
    BY DEF IInv, Responses
  <2>2. /\ Said(g)' = Said(g) /\ (Started(g)' <=> Started(g))
        /\ sent'[g] = sent[g] /\ cursor'[g] = cursor[g]
    BY <1>6
  <2>. QED  BY <2>1, <2>2
<1>7. CASE g = h
  <2>1. Len(t) = sent'[h] + 1
    BY <1>3 DEF s
  <2>2. t[Len(t)] <= cursor'[h]
    BY <1>3
  <2>. QED  BY <1>2, <1>4, <1>5, <1>7, <2>1, <2>2
<1>. QED  BY <1>6, <1>7

\* The header is the first thing said.
LEMMA SendHeaderIInv == ASSUME IInv, NEW h \in Handlers, SendHeader(h) PROVE IInv'
<1>1. /\ UNCHANGED <<redis, seen, faults, hpc, answer, sent, cursor, upto, len>>
      /\ cpc[h] = "header" /\ cpc' = [cpc EXCEPT ![h] = "read"] /\ Send(h, 0)
  BY DEF SendHeader, redis
<1>2. HandlersOK /\ CountsOK
  BY DEF IInv, TypeOK, HandlersOK, CountsOK
<1>3. /\ ChannelsOK' /\ Said(h)' = Append(Said(h), 0)
      /\ \A g \in Handlers : /\ g # h => Said(g)' = Said(g)
                             /\ g \in Streams => tiles'[g] = <<>>
  BY <1>1, EntryType, SendSays DEF IInv, ChannelsOK
<1>4. HandlersOK' /\ CountsOK'
  <2>1. HandlersOK'
    BY <1>1, <1>2 DEF HandlersOK
  <2>2. CountsOK'
    BY <1>1, <1>2 DEF CountsOK
  <2>. QED  BY <2>1, <2>2
<1>5. Turns'
  BY <1>1, <1>2, <1>3 DEF IInv, Turns, HandlersOK
<1>6. cpc'[h] = "read" /\ \A g \in Handlers \ {h} : cpc'[g] = cpc[g]
  BY <1>1, <1>2 DEF HandlersOK
<1>7. Cursors'
  BY <1>1, <1>6 DEF IInv, Cursors
<1>8. Said(h) = <<>> /\ sent[h] = 0 /\ cursor[h] \in Nat
  BY <1>1, CountTypes DEF IInv, Responses, Started, Cursors
<1>9. Responses'
  <2>1. Started(h)' /\ \A g \in Handlers \ {h} : Started(g)' <=> Started(g)
    BY <1>6 DEF Started
  <2>2. Len(Said(h)) = 0
    BY <1>8
  <2>3. 0 \in Entries /\ 0 <= cursor[h] /\ cursor'[h] = cursor[h] /\ sent'[h] = 0
    BY <1>1, <1>8, EntryType
  <2>4. \A g \in Handlers \ {h} : sent'[g] = sent[g] /\ cursor'[g] = cursor[g]
    BY <1>1
  <2>. QED  BY <1>3, <1>8, <2>1, <2>2, <2>3, <2>4, SaysMore
<1>. QED  BY <1>1, <1>3, <1>4, <1>5, <1>7, <1>9, RequestSteps

\* The next entry of the reply is later than everything said.
LEMMA SendTileIInv == ASSUME IInv, NEW h \in Handlers, SendTile(h) PROVE IInv'
<1>. DEFINE e == cursor[h] + 1
<1>1. /\ UNCHANGED <<redis, seen, faults, hpc, answer, upto, len>>
      /\ cpc[h] = "push" /\ Send(h, e)
      /\ cursor' = [cursor EXCEPT ![h] = cursor[h] + 1]
      /\ sent' = [sent EXCEPT ![h] = sent[h] + 1]
      /\ \E pc \in {"read", "push"} :
            cpc' = [cpc EXCEPT ![h] = pc] /\ (pc = "push" => e # upto[h])
  BY DEF SendTile, redis
<1>2. HandlersOK /\ CountsOK
  BY DEF IInv, TypeOK, HandlersOK, CountsOK
<1>3. /\ sent[h] <= cursor[h] /\ cursor[h] < upto[h] /\ upto[h] <= len
      /\ sent[h] \in Nat /\ cursor[h] \in Nat /\ upto[h] \in Nat /\ len \in Nat
  BY <1>1, CountTypes DEF IInv, Cursors
<1>4. e \in Entries /\ sent[h] + 1 \in Entries
  <2>1. len <= Ntasks + MaxFaults /\ Ntasks \in Nat /\ MaxFaults \in Nat
    BY NtasksAssumption, BoundsAssumption DEF IInv, TypeOK, Entries
  <2>. QED  BY <1>3, <2>1 DEF Entries
<1>5. /\ ChannelsOK' /\ Said(h)' = Append(Said(h), e)
      /\ \A g \in Handlers : /\ g # h => Said(g)' = Said(g)
                             /\ g \in Streams => tiles'[g] = <<>>
  <2>. HIDE DEF e
  <2>. QED  BY <1>1, <1>4, SendSays DEF IInv, ChannelsOK
<1>6. HandlersOK' /\ CountsOK'
  <2>1. HandlersOK'
    BY <1>1, <1>2 DEF HandlersOK
  <2>2. CountsOK'
    BY <1>1, <1>2, <1>4 DEF CountsOK
  <2>. QED  BY <2>1, <2>2
<1>7. Turns'
  BY <1>1, <1>2, <1>5 DEF IInv, Turns, HandlersOK
<1>8. /\ cpc'[h] \in {"read", "push"} /\ (cpc'[h] = "push" => e # upto[h])
      /\ cursor'[h] = e /\ sent'[h] = sent[h] + 1
      /\ \A g \in Handlers \ {h} : /\ cpc'[g] = cpc[g] /\ cursor'[g] = cursor[g]
                                   /\ sent'[g] = sent[g]
  BY <1>1, <1>2 DEF HandlersOK, CountsOK
<1>9. Cursors'
  <2>. SUFFICES ASSUME NEW g \in Handlers
                PROVE  /\ sent'[g] <= cursor'[g] /\ cursor'[g] <= upto[g] /\ upto[g] <= len
                       /\ cpc'[g] = "push" => cursor'[g] < upto[g]
                       /\ cpc'[g] = "closed" => sent'[g] >= Ntasks
    BY <1>1 DEF Cursors
  <2>1. CASE g # h
    BY <1>8, <2>1 DEF IInv, Cursors
  <2>2. CASE g = h
    BY <1>3, <1>8, <2>2
  <2>. QED  BY <2>1, <2>2
<1>10. Responses'
  <2>1. Started(h) /\ Started(h)' /\ \A g \in Handlers \ {h} : Started(g)' <=> Started(g)
    BY <1>1, <1>8 DEF Started
  <2>2. /\ Len(Said(h)) = sent[h] + 1 /\ Said(h)[1] = 0
        /\ Said(h)[Len(Said(h))] <= cursor[h]
    BY <2>1 DEF IInv, Responses
  <2>3. Said(h)[Len(Said(h))] \in Nat
    BY <1>3, <2>2, SaidType, ElementOfSeq DEF IInv
  <2>4. Said(h)[Len(Said(h))] < e /\ e \in Nat /\ Said(h) # <<>>
    BY <1>3, <2>2, <2>3, EmptySeq
  <2>5. sent'[h] = Len(Said(h))
    BY <1>8, <2>2
  <2>. HIDE DEF e
  <2>. QED  BY <1>4, <1>5, <1>8, <2>1, <2>2, <2>4, <2>5, SaysMore
<1>. QED  BY <1>1, <1>5, <1>6, <1>7, <1>9, <1>10, RequestSteps

\* Get only moves what was said from the channel to the body, or sees the end.
LEMMA RangeIInv == ASSUME IInv, NEW h \in Handlers, RangeTiles(h) PROVE IInv'
<1>1. /\ UNCHANGED <<redis, seen, faults, cpc, sent, cursor, upto, len, answer>>
      /\ hpc[h] = "range"
      /\ \/ /\ tiles[h] # <<>> /\ UNCHANGED hpc
            /\ body' = [body EXCEPT ![h] = Append(@, Head(tiles[h]))]
            /\ tiles' = [tiles EXCEPT ![h] = Tail(@)]
         \/ /\ cpc[h] = "closed" /\ hpc' = [hpc EXCEPT ![h] = "check"]
            /\ UNCHANGED <<body, tiles>>
  <2>1. UNCHANGED <<redis, collector, answer, seen, faults>> /\ hpc[h] = "range"
    BY DEF RangeTiles
  <2>2. \/ /\ tiles[h] # <<>> /\ UNCHANGED hpc
           /\ body' = [body EXCEPT ![h] = Append(@, Head(tiles[h]))]
           /\ tiles' = [tiles EXCEPT ![h] = Tail(@)]
        \/ /\ cpc[h] = "closed" /\ hpc' = [hpc EXCEPT ![h] = "check"]
           /\ UNCHANGED <<body, tiles>>
    BY DEF RangeTiles
  <2>. QED  BY <2>1, <2>2 DEF redis, collector
<1>2. HandlersOK /\ CountsOK /\ ChannelsOK
  BY DEF IInv, TypeOK, HandlersOK, CountsOK, ChannelsOK
<1>3. HandlersOK'
  BY <1>1, <1>2 DEF HandlersOK
<1>4. CountsOK'
  BY <1>1, <1>2 DEF CountsOK
<1>5. /\ ChannelsOK' /\ \A g \in Handlers : /\ Said(g)' = Said(g)
                                            /\ g \in Streams => tiles'[g] = <<>>
  <2>1. CASE UNCHANGED <<body, tiles>>
    BY <1>2, <2>1 DEF ChannelsOK, Said, IInv, Turns
  <2>2. CASE ~UNCHANGED <<body, tiles>>
    BY <1>1, <2>2, RangeSays DEF IInv, ChannelsOK
  <2>. QED  BY <2>1, <2>2
<1>6. Turns'
  BY <1>1, <1>2, <1>5 DEF IInv, Turns, HandlersOK
<1>7. Cursors'
  BY <1>1 DEF IInv, Cursors
<1>8. Responses'
  <2>. SUFFICES ASSUME NEW g \in Handlers
                PROVE  /\ Ascending(Said(g)) /\ (~Started(g) => Said(g) = <<>> /\ sent[g] = 0)
                       /\ Started(g) => /\ Len(Said(g)) = sent[g] + 1 /\ Said(g)[1] = 0
                                        /\ Said(g)[Len(Said(g))] <= cursor[g]
    BY <1>1, <1>5 DEF Responses, Ascending, Started
  <2>. QED  BY DEF IInv, Responses
<1>. QED  BY <1>1, <1>3, <1>4, <1>5, <1>6, <1>7, <1>8, RequestSteps
-----------------------------------------------------------------------------
LEMMA NextIInv == IInv /\ [Next]_vars => IInv'
<1>. SUFFICES ASSUME IInv, [Next]_vars PROVE IInv'
  OBVIOUS
<1>1. CASE SetHeader  BY <1>1, SetHeaderIInv
<1>2. CASE AddPart  BY <1>2, AddPartIInv
<1>3. CASE Tick  BY <1>3, TickIInv
<1>4. ASSUME NEW h \in Handlers, CollectorStep(h) PROVE IInv'
  BY <1>4, SendHeaderIInv, XReadIInv, SendTileIInv, CloseIInv DEF CollectorStep
<1>5. ASSUME NEW h \in Handlers, HandlerStep(h) PROVE IInv'
  BY <1>5, LookupIInv, CheckLengthIInv, RangeIInv, CheckFailureIInv, StreamEndIInv
  DEF HandlerStep
<1>6. CASE Status  BY <1>6, StatusIInv
<1>7. CASE UNCHANGED vars
  <2>1. UNCHANGED <<redis, collector, handler, tiles, seen, faults>>
    BY <1>7 DEF vars
  <2>2. TypeOK'
    BY <2>1 DEF IInv, TypeOK, redis, collector, handler
  <2>3. Expirations' /\ Polled'
    BY <2>1 DEF IInv, Expirations, Polled, redis
  <2>4. Turns' /\ Cursors'
    BY <2>1 DEF IInv, Turns, Cursors, redis, collector, handler
  <2>5. Responses'
    BY <2>1 DEF IInv, Responses, Started, Said, Ascending, collector, handler
  <2>. QED  BY <2>2, <2>3, <2>4, <2>5 DEF IInv
<1>. QED  BY <1>1, <1>2, <1>3, <1>4, <1>5, <1>6, <1>7 DEF Next

LEMMA Invariance == Spec => []IInv
BY InitIInv, NextIInv, PTL DEF Spec

\* Every variable keeps its type, whatever redis does: no channel of Get holds more
\* than its buffer, and Stream never leaves a tile behind (result.go 60-90).
THEOREM TypeCorrect == Spec => []TypeOK
<1>1. IInv => TypeOK  BY DEF IInv
<1>. QED  BY <1>1, Invariance, PTL

\* The token does not outlive the header.
LEMMA HeaderSeen == ASSUME IInv, TokenValid, setAt # Never PROVE HeaderAlive
BY TTLAssumption, NeverAssumption
DEF IInv, TypeOK, Time, Expirations, TokenValid, HeaderAlive

\* For all times to live in that order, no part is gone while the header is there.
LEMMA PartsThere == IInv => StreamOutlivesHeader
BY TTLAssumption, NeverAssumption
DEF IInv, TypeOK, Time, Expirations, StreamOutlivesHeader, HeaderAlive

THEOREM StreamsOutliveHeaders == Spec => []StreamOutlivesHeader
BY PartsThere, Invariance, PTL

\* For any number of parts, requests, repeated parts and lost replies, and any buffer:
\* what a client is sent is the header and then the parts in the order of the stream,
\* and a 200 that did not fail under way is whole (result.go 60-90, 137-178, 254-270).
THEOREM ResponsesAreWhole == Spec => []ResponsesDecode
<1>1. ASSUME IInv PROVE ResponsesDecode
  <2>. SUFFICES ASSUME NEW h \in Handlers
                PROVE  /\ Said(h) # <<>> => Said(h)[1] = 0
                       /\ Ascending(Said(h))
                       /\ hpc[h] = "done" /\ answer[h] = 200 /\ cpc[h] # "failed"
                            => Len(Said(h)) \in Ntasks + 1 .. Ntasks + 1 + extra
    BY DEF ResponsesDecode, Said, Ascending
  <2>1. Ascending(Said(h)) /\ (Said(h) # <<>> => Said(h)[1] = 0)
    BY <1>1 DEF IInv, Responses
  <2>2. ASSUME hpc[h] = "done", answer[h] = 200, cpc[h] # "failed"
        PROVE  Len(Said(h)) \in Ntasks + 1 .. Ntasks + 1 + extra
    <3>1. cpc[h] = "closed"
      BY <1>1, <2>2 DEF IInv, Turns
    <3>2. sent[h] >= Ntasks /\ sent[h] <= cursor[h] /\ cursor[h] <= upto[h] /\ upto[h] <= len
      BY <1>1, <3>1 DEF IInv, Cursors
    <3>3. Len(Said(h)) = sent[h] + 1
      BY <1>1, <3>1 DEF IInv, Responses, Started
    <3>4. extra \in Nat /\ len - extra <= Ntasks
      BY <1>1, NtasksAssumption, BoundsAssumption DEF IInv, TypeOK
    <3>. QED  BY <1>1, <3>2, <3>3, <3>4, CountTypes DEF IInv
  <2>. QED  BY <2>1, <2>2
<1>. QED  BY <1>1, Invariance, PTL

\* For any number of parts and all times to live in that order: what Status says of a
\* process never goes back, as long as no part is on the stream twice (result.go
\* 180-194 and 215-230).
THEOREM StatusIsMonotone == Spec => StatusAdvances
<1>. DEFINE rank == [nothing |-> 0, pending |-> 1, working |-> 2, finished |-> 3]
<1>1. ASSUME IInv, [Next]_vars, extra' = 0 PROVE rank[seen] <= rank[seen']
  <2>1. seen \in {"nothing", "pending", "working", "finished"}
    BY <1>1 DEF IInv, TypeOK
  <2>2. CASE Status
    <3>1. TokenValid /\ setAt # Never => HeaderAlive /\ base = 0
      BY <1>1, HeaderSeen, PartsThere DEF StreamOutlivesHeader
    <3>2. extra = 0 /\ len \in Nat /\ len <= Ntasks /\ Ntasks \in Nat
      BY <1>1, <2>2, EntryType, NtasksAssumption DEF IInv, TypeOK, Status, redis
    <3>3. CASE seen = "finished"
      <4>1. HeaderAlive /\ XLen = Ntasks
        BY <1>1, <2>2, <3>1, <3>2, <3>3 DEF IInv, Polled, Status, XLen
      <4>2. seen' = "finished"
        BY <2>2, <4>1 DEF Status
      <4>. QED  BY <3>3, <4>2
    <3>4. CASE seen = "working"
      <4>1. HeaderAlive
        BY <1>1, <2>2, <3>1, <3>4 DEF IInv, Polled, Status
      <4>2. seen' \in {"working", "finished"}
        BY <2>2, <4>1 DEF Status
      <4>. QED  BY <3>4, <4>2
    <3>5. CASE seen \in {"nothing", "pending"}
      <4>1. seen' \in {"pending", "working", "finished"}
        BY <2>2 DEF Status
      <4>. QED  BY <3>5, <4>1
    <3>. QED  BY <2>1, <3>3, <3>4, <3>5
  <2>3. CASE UNCHANGED seen
    BY <2>1, <2>3
  <2>4. Status \/ UNCHANGED seen
    BY <1>1
    DEF Next, vars, SetHeader, AddPart, Tick, CollectorStep, HandlerStep, SendHeader, XRead,
        SendTile, Close, Lookup, CheckLength, RangeTiles, CheckFailure, StreamEnd
  <2>. QED  BY <2>2, <2>3, <2>4
<1>2. IInv /\ [Next]_vars
        => [extra' = 0 => rank[seen] <= rank[seen']]_vars
  BY <1>1
<1>. QED  BY <1>2, Invariance, PTL DEF Spec, StatusAdvances

\* For any number of parts, requests and repeated parts and all times to live in that
\* order: while the token is valid, no Get answers 202 or 404 once Status has said
\* "finished", unless a redis call fails (result.go 137-160, 180-230).
THEOREM FinishedMeansServed == Spec => FinishedIsServed
<1>. DEFINE Kept == \A h \in Gets : answer'[h] \in {202, 404} => answer[h] = answer'[h]
<1>1. ASSUME IInv, [Next]_vars, seen = "finished", TokenValid, faults' = faults PROVE Kept
  <2>1. HeaderAlive /\ base = 0
    BY <1>1, HeaderSeen, PartsThere DEF StreamOutlivesHeader, IInv, Polled
  <2>2. XLen >= Ntasks
    BY <1>1, <2>1, EntryType DEF IInv, TypeOK, Polled, XLen
  <2>3. ~(XLen < Ntasks) /\ faults \in Nat
    BY <1>1, <2>2, EntryType, BoundsAssumption, NtasksAssumption DEF IInv, TypeOK, XLen
  <2>4. ~Fault
    BY <1>1, <2>3 DEF Fault
  <2>5. answer \in [Handlers -> {0, 200, 202, 403, 404, 500}] /\ Gets \subseteq Handlers
    BY <1>1 DEF IInv, TypeOK, Handlers
  <2>6. CASE UNCHANGED answer
    BY <2>6
  <2>7. ASSUME NEW h \in Handlers, Lookup(h) PROVE Kept
    <3>1. UNCHANGED answer \/ answer' = [answer EXCEPT ![h] = 200]
      BY <1>1, <2>1, <2>4, <2>7 DEF Lookup
    <3>. QED  BY <2>5, <3>1
  <2>8. ASSUME NEW h \in Handlers, CheckLength(h) PROVE UNCHANGED answer
    BY <2>3, <2>4, <2>8 DEF CheckLength
  <2>9. ASSUME NEW h \in Handlers, CheckFailure(h) PROVE Kept
    BY <2>5, <2>9 DEF CheckFailure, Answer
  <2>10. \/ UNCHANGED answer
         \/ \E h \in Handlers : Lookup(h) \/ CheckLength(h) \/ CheckFailure(h)
    BY <1>1
    DEF Next, vars, SetHeader, AddPart, Tick, Status, CollectorStep, HandlerStep, SendHeader,
        XRead, SendTile, Close, RangeTiles, StreamEnd, handler
  <2>. QED  BY <2>6, <2>7, <2>8, <2>9, <2>10
<1>2. IInv /\ [Next]_vars
        => [seen = "finished" /\ TokenValid /\ faults' = faults => Kept]_vars
  BY <1>1
<1>. QED  BY <1>2, Invariance, PTL DEF Spec, FinishedIsServed
=============================================================================
