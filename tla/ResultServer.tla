----------------------------- MODULE ResultServer -----------------------------
(***************************************************************************)
(* The result server (api/api/result.go) and the keys in redis it reads:   *)
(* the life of one process after its token was signed at time 0.           *)
(*                                                                         *)
(*   redis    the header with its expiration, and the result stream, which *)
(*            the fetch nodes append to and whose expiration they renew.   *)
(*   Get      answers with the whole result, or 202 while parts are        *)
(*            missing; collectResult() runs beside it and feeds it through *)
(*            the buffered channel tiles.                                  *)
(*   Stream   writes parts as they come; both channels are unbuffered.     *)
(*   Status   polls the progress.                                          *)
(*                                                                         *)
(* Entry k of the stream is a part, and 0 is the header.  Redis calls may  *)
(* fail, and an XADD whose answer is lost is sent again, MaxFaults times.  *)
(***************************************************************************)
EXTENDS Integers, Sequences

CONSTANTS
    Gets, Streams,  \* the requests for the result, by end point
    Ntasks,         \* ProcessHeader.Ntasks
    TilesCap,       \* the buffer of tiles in Get, 1000 in the code
    TokenTTL,       \* auth.Sign, 5 minutes
    HeaderTTL,      \* redisScheduler.ttl, 10 minutes
    StreamTTL,      \* the EXPIRE of gather(), 10 minutes
    Never,          \* no time
    MaxTime,        \* bound on the clock
    MaxFaults       \* bound on failing and repeated redis calls

ASSUME NtasksAssumption == Ntasks \in Nat \ {0}
ASSUME TTLAssumption ==
    /\ {TokenTTL, HeaderTTL, StreamTTL, MaxTime} \subseteq Nat
    /\ TokenTTL <= HeaderTTL /\ HeaderTTL <= StreamTTL
ASSUME NeverAssumption == Never \notin Int
ASSUME BoundsAssumption ==
    /\ TilesCap \in Nat \ {0} /\ MaxFaults \in Nat
    /\ Gets \cap Streams = {}

VARIABLES
    now,       \* time since the token was signed
    setAt,     \* when the header was SET, or Never
    base,      \* entries of the stream that expired
    len,       \* entries ever added to the stream
    extra,     \* those of them that repeat a part
    expireAt,  \* when the stream expires, or Never
    hpc,       \* what each handler is about to do
    cpc,       \* what the collectResult() of each handler is about to do
    sent,      \* count: the tiles it has sent, the header not counted
    cursor,    \* streamCursor: the last entry it has sent
    upto,      \* the last entry of the reply it is sending
    tiles,     \* the channel tiles
    body,      \* what the handler has received from tiles
    answer,    \* the status code of the response, or 0
    seen,      \* the last thing Status has said
    faults

redis     == <<now, setAt, base, len, extra, expireAt>>
collector == <<cpc, sent, cursor, upto>>
handler   == <<hpc, body, answer>>
vars      == <<redis, collector, handler, tiles, seen, faults>>

Handlers == Gets \cup Streams
Time     == 0 .. MaxTime
Entries  == 0 .. Ntasks + MaxFaults

TypeOK ==
    /\ now \in Time
    /\ setAt \in Time \cup {Never}
    /\ base \in Entries /\ len \in Entries /\ base <= len
    /\ extra \in 0 .. faults /\ len - extra \in 0 .. Ntasks
    /\ expireAt \in 0 .. MaxTime + StreamTTL \cup {Never}
    /\ hpc \in [Handlers -> {"idle", "xlen", "range", "check", "select", "done"}]
    /\ cpc \in [Handlers -> {"off", "header", "read", "push", "fail", "failed", "closed"}]
    /\ sent \in [Handlers -> Entries]
    /\ cursor \in [Handlers -> Entries]
    /\ upto \in [Handlers -> Entries]
    /\ tiles \in [Handlers -> Seq(Entries)]
    /\ \A h \in Handlers : Len(tiles[h]) <= TilesCap
    /\ body \in [Handlers -> Seq(Entries)]
    /\ answer \in [Handlers -> {0, 200, 202, 403, 404, 500}]
    /\ seen \in {"nothing", "pending", "working", "finished"}
    /\ faults \in 0 .. MaxFaults

Init ==
    /\ now = 0 /\ setAt = Never
    /\ base = 0 /\ len = 0 /\ extra = 0 /\ expireAt = Never
    /\ hpc = [h \in Handlers |-> "idle"]
    /\ cpc = [h \in Handlers |-> "off"]
    /\ sent = [h \in Handlers |-> 0]
    /\ cursor = [h \in Handlers |-> 0]
    /\ upto = [h \in Handlers |-> 0]
    /\ tiles = [h \in Handlers |-> <<>>]
    /\ body = [h \in Handlers |-> <<>>]
    /\ answer = [h \in Handlers |-> 0]
    /\ seen = "nothing"
    /\ faults = 0

\* Mutant: the header is SET with one unit of time to live.
HeaderAliveBriefly == setAt # Never /\ now < setAt + 1

TokenValid  == now < TokenTTL
HeaderAlive == setAt # Never /\ now < setAt + HeaderTTL
XLen        == len - base
Fault       == faults < MaxFaults /\ faults' = faults + 1
-----------------------------------------------------------------------------
\* Schedule(): SET the header.  The tasks follow it on the jobs stream.
SetHeader ==
    /\ setAt = Never
    /\ setAt' = now
    /\ UNCHANGED <<now, base, len, extra, expireAt, collector, handler, tiles, seen, faults>>

\* XADD of a part, or of one once more when the answer was lost.
AddEntry ==
    /\ setAt # Never
    /\ len' = len + 1
    /\ \/ len - extra < Ntasks /\ UNCHANGED <<extra, faults>>
       \/ len > 0 /\ Fault /\ extra' = extra + 1

\* Mutant: the stream is given as long as the token.
AddPartBriefly ==
    /\ AddEntry
    /\ expireAt' = now + TokenTTL
    /\ UNCHANGED <<now, setAt, base, collector, handler, tiles, seen>>

\* gather(): XADD, then EXPIRE - unless the node dies between the two.
AddPart ==
    /\ AddEntry
    /\ \/ expireAt' = now + StreamTTL
       \/ UNCHANGED expireAt
    /\ UNCHANGED <<now, setAt, base, collector, handler, tiles, seen>>

\* Time passes; a stream that has expired is gone with all its entries.
Tick ==
    /\ now < MaxTime
    /\ now' = now + 1
    /\ IF expireAt # Never /\ expireAt <= now'
         THEN base' = len /\ expireAt' = Never
         ELSE UNCHANGED <<base, expireAt>>
    /\ UNCHANGED <<setAt, len, extra, collector, handler, tiles, seen, faults>>
-----------------------------------------------------------------------------
Answer(h, code) ==
    /\ hpc' = [hpc EXCEPT ![h] = "done"]
    /\ answer' = [answer EXCEPT ![h] = code]

Collect(h) == cpc' = [cpc EXCEPT ![h] = "header"]

\* ResultAuth, then GET of the header.  Any error of GET is a 404; a header that
\* does not parse is a 500.
Lookup(h) ==
    /\ hpc[h] = "idle"
    /\ \/ ~TokenValid /\ Answer(h, 403) /\ UNCHANGED <<cpc, faults>>
       \/ TokenValid /\ ~HeaderAlive /\ Answer(h, 404) /\ UNCHANGED <<cpc, faults>>
       \/ TokenValid /\ Fault /\ Answer(h, 404) /\ UNCHANGED cpc
       \/ TokenValid /\ HeaderAlive /\ Fault /\ Answer(h, 500) /\ UNCHANGED cpc
       \/ /\ TokenValid /\ HeaderAlive
          /\ IF h \in Gets
               THEN hpc' = [hpc EXCEPT ![h] = "xlen"] /\ UNCHANGED <<cpc, answer>>
               ELSE /\ hpc' = [hpc EXCEPT ![h] = "select"]
                    /\ answer' = [answer EXCEPT ![h] = 200]
                    /\ Collect(h)
          /\ UNCHANGED faults
    /\ UNCHANGED <<redis, sent, cursor, upto, tiles, body, seen>>

\* Mutant: Get waits for an entry more than there are tasks.
CheckLengthStrict(h) ==
    /\ hpc[h] = "xlen"
    /\ \/ XLen <= Ntasks /\ Answer(h, 202) /\ UNCHANGED <<cpc, faults>>
       \/ Fault /\ Answer(h, 202) /\ UNCHANGED cpc
       \/ /\ XLen > Ntasks
          /\ hpc' = [hpc EXCEPT ![h] = "range"]
          /\ Collect(h)
          /\ UNCHANGED <<answer, faults>>
    /\ UNCHANGED <<redis, sent, cursor, upto, tiles, body, seen>>

\* Get: the error of XLEN is not looked at, and its count is then 0.
CheckLength(h) ==
    /\ hpc[h] = "xlen"
    /\ \/ XLen < Ntasks /\ Answer(h, 202) /\ UNCHANGED <<cpc, faults>>
       \/ Fault /\ Answer(h, 202) /\ UNCHANGED cpc
       \/ /\ XLen >= Ntasks
          /\ hpc' = [hpc EXCEPT ![h] = "range"]
          /\ Collect(h)
          /\ UNCHANGED <<answer, faults>>
    /\ UNCHANGED <<redis, sent, cursor, upto, tiles, body, seen>>

\* Mutant: Get never makes collectResult() wait.
SendUnbounded(h, tile) ==
    IF h \in Gets
      THEN tiles' = [tiles EXCEPT ![h] = Append(@, tile)] /\ UNCHANGED body
      ELSE /\ hpc[h] = "select"
           /\ body' = [body EXCEPT ![h] = Append(@, tile)]
           /\ UNCHANGED tiles

\* Send on tiles: into the buffer of Get, or straight into the select of Stream.
Send(h, tile) ==
    IF h \in Gets
      THEN /\ Len(tiles[h]) < TilesCap
           /\ tiles' = [tiles EXCEPT ![h] = Append(@, tile)]
           /\ UNCHANGED body
      ELSE /\ hpc[h] = "select"
           /\ body' = [body EXCEPT ![h] = Append(@, tile)]
           /\ UNCHANGED tiles

SendHeader(h) ==
    /\ cpc[h] = "header"
    /\ Send(h, 0)
    /\ cpc' = [cpc EXCEPT ![h] = "read"]
    /\ UNCHANGED <<redis, sent, cursor, upto, hpc, answer, seen, faults>>

\* collectResult: the loop condition and the blocking XREAD, whose reply holds all
\* the entries behind the cursor that are still there.
XRead(h) ==
    /\ cpc[h] = "read" /\ sent[h] < Ntasks
    /\ \/ /\ len > cursor[h] /\ len > base
          /\ cursor' = [cursor EXCEPT ![h] = IF base > @ THEN base ELSE @]
          /\ upto' = [upto EXCEPT ![h] = len]
          /\ cpc' = [cpc EXCEPT ![h] = "push"]
          /\ UNCHANGED faults
       \/ Fault /\ cpc' = [cpc EXCEPT ![h] = "fail"] /\ UNCHANGED <<cursor, upto>>
    /\ UNCHANGED <<redis, sent, handler, tiles, seen>>

\* Mutant: the cursor is not moved past the entries of the reply.
SendTileRewind(h) ==
    /\ cpc[h] = "push"
    /\ Send(h, cursor[h] + 1)
    /\ cursor' = [cursor EXCEPT ![h] = IF @ + 1 = upto[h] THEN 0 ELSE @ + 1]
    /\ sent' = [sent EXCEPT ![h] = @ + 1]
    /\ cpc' = [cpc EXCEPT ![h] = IF cursor[h] + 1 = upto[h] THEN "read" ELSE "push"]
    /\ UNCHANGED <<redis, upto, hpc, answer, seen, faults>>

SendTile(h) ==
    /\ cpc[h] = "push"
    /\ Send(h, cursor[h] + 1)
    /\ cursor' = [cursor EXCEPT ![h] = @ + 1]
    /\ sent' = [sent EXCEPT ![h] = @ + 1]
    /\ cpc' = [cpc EXCEPT ![h] = IF cursor[h] + 1 = upto[h] THEN "read" ELSE "push"]
    /\ UNCHANGED <<redis, upto, hpc, answer, seen, faults>>

Close(h) ==
    /\ cpc[h] = "read" /\ sent[h] >= Ntasks
    /\ cpc' = [cpc EXCEPT ![h] = "closed"]
    /\ UNCHANGED <<redis, sent, cursor, upto, handler, tiles, seen, faults>>
-----------------------------------------------------------------------------
\* Get: range over tiles until it is closed and empty.
RangeTiles(h) ==
    /\ hpc[h] = "range"
    /\ \/ /\ tiles[h] # <<>>
          /\ body' = [body EXCEPT ![h] = Append(@, Head(tiles[h]))]
          /\ tiles' = [tiles EXCEPT ![h] = Tail(@)]
          /\ UNCHANGED hpc
       \/ /\ tiles[h] = <<>> /\ cpc[h] = "closed"
          /\ hpc' = [hpc EXCEPT ![h] = "check"]
          /\ UNCHANGED <<body, tiles>>
    /\ UNCHANGED <<redis, collector, answer, seen, faults>>

\* Get: look at failure without waiting.  Tiles is closed as collectResult() returns,
\* so nobody can be sending on failure any more.
CheckFailure(h) ==
    /\ hpc[h] = "check"
    /\ Answer(h, IF cpc[h] = "fail" THEN 500 ELSE 200)
    /\ UNCHANGED <<redis, collector, body, tiles, seen, faults>>

\* Mutant: Stream does not listen on failure.
StreamEndDeaf(h) ==
    /\ hpc[h] = "select" /\ cpc[h] = "closed"
    /\ hpc' = [hpc EXCEPT ![h] = "done"]
    /\ UNCHANGED <<redis, collector, body, answer, tiles, seen, faults>>

\* Stream: the select sees tiles closed, or receives the failure, which lets
\* collectResult() return.
StreamEnd(h) ==
    /\ hpc[h] = "select"
    /\ \/ cpc[h] = "closed" /\ UNCHANGED cpc
       \/ cpc[h] = "fail" /\ cpc' = [cpc EXCEPT ![h] = "failed"]
    /\ hpc' = [hpc EXCEPT ![h] = "done"]
    /\ UNCHANGED <<redis, sent, cursor, upto, body, answer, tiles, seen, faults>>

\* Status: GET, and XLEN when there is a header.  A redis error is a 500, which
\* changes nothing.
Status ==
    /\ TokenValid
    /\ seen' = IF ~HeaderAlive THEN "pending"
               ELSE IF XLen = Ntasks THEN "finished" ELSE "working"
    /\ UNCHANGED <<redis, collector, handler, tiles, faults>>

CollectorStep(h) == SendHeader(h) \/ XRead(h) \/ SendTile(h) \/ Close(h)
HandlerStep(h) == Lookup(h) \/ CheckLength(h) \/ RangeTiles(h) \/ CheckFailure(h) \/ StreamEnd(h)

Next ==
    \/ SetHeader \/ AddPart \/ Tick
    \/ \E h \in Handlers : CollectorStep(h) \/ HandlerStep(h)
    \/ Status

\* The goroutines run, and the fetch nodes write every part.
Fairness ==
    /\ WF_vars(AddPart)
    /\ \A h \in Handlers : WF_vars(CollectorStep(h)) /\ WF_vars(HandlerStep(h))

Spec == Init /\ [][Next]_vars /\ Fairness
-----------------------------------------------------------------------------
\* The decoder is given what it expects by Get and by Stream, over several replies of
\* XREAD: the header first, entries in order and none twice, and at the end of a 200 as
\* many parts as there are tasks, or as many as it takes when one is there twice, unless
\* XREAD has failed a Stream (collectResult, result.go 60-90).
ResponsesDecode ==
    \A h \in Handlers :
        LET s == body[h] \o tiles[h] IN
        /\ s # <<>> => s[1] = 0
        /\ \A k \in 1 .. Len(s) - 1 : s[k] < s[k + 1]
        /\ hpc[h] = "done" /\ answer[h] = 200 /\ cpc[h] # "failed"
               => Len(s) \in Ntasks + 1 .. Ntasks + 1 + extra

\* No entry of the stream expires while the header says it is there, so the length
\* that Get and Status read counts every part written so far (scheduler.go 44,
\* fetch.go 306; gather may die between XADD and EXPIRE).
StreamOutlivesHeader == HeaderAlive => base = 0

\* A client that polls until Status has said "finished" is then given the result: while
\* its token is valid, no Get tells it that there is none or that parts are missing, also
\* one that began before, and one that runs while parts are written once more, unless a
\* redis call fails (result.go 137-160, 180-230; XLEN counts the entries, the repeated
\* ones too, and the header and the entries expire later than the token).
FinishedIsServed ==
    [][seen = "finished" /\ TokenValid /\ faults' = faults =>
       \A h \in Gets : answer'[h] \in {202, 404} => answer[h] = answer'[h]]_vars

\* A client that polls never sees a process go back, unless a part is on the stream
\* twice: a finished process does not become working, nor a working one pending.
StatusAdvances ==
    [][extra' = 0 =>
       LET rank == [nothing |-> 0, pending |-> 1, working |-> 2, finished |-> 3]
       IN  rank[seen] <= rank[seen']]_vars

\* If no part expires under the reader, every Stream ends, also when XREAD fails.
StreamEnds ==
    [](base = 0) => \A h \in Streams : hpc[h] = "select" ~> hpc[h] = "done"

\* If no part expires under the reader, every Get that has started to collect is
\* answered: with the result, or with the 500 of result.go 168-171.
GetAnswers ==
    [](base = 0) => \A h \in Gets : hpc[h] = "range" ~> hpc[h] = "done"
=============================================================================
