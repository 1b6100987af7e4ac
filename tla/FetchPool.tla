------------------------------ MODULE FetchPool ------------------------------
(***************************************************************************)
(* The fetch node (api/cmd/fetch): one main loop that reads tasks, a pool  *)
(* of download workers shared by all tasks, and one gather goroutine per   *)
(* task.                                                                   *)
(*                                                                         *)
(*   main    reads a task, makes its two channels, starts its gather and   *)
(*           puts one request per fragment on the shared requests channel; *)
(*           it reads the next task while the previous one is downloading. *)
(*   worker  receives a request, downloads the blob, and sends the chunk   *)
(*           or the error to the channels of the request's task.           *)
(*   gather  receives until it has n fragments, packs them and writes the  *)
(*           part to the result stream; or gives up at the first error.    *)
(*                                                                         *)
(* Every channel is buffered with room for Jobs elements, and nobody       *)
(* receives from a task's channels once its gather has ended: whether a    *)
(* worker can then be stuck in a send for ever is what this module is for. *)
(*                                                                         *)
(* A fragment is its index in the task.  Channels to a gather are sets of  *)
(* indices, since add() is keyed by the index and the order of arrival is  *)
(* not visible; the requests channel keeps its order.  An error on the     *)
(* errors channel is represented by the index of the request that failed.  *)
(* fetchblob() is one step here; module FragmentCache opens it up.         *)
(***************************************************************************)
EXTENDS Integers, Sequences, FiniteSets

CONSTANTS
    Tasks,       \* the messages of the jobs stream this node will be given
    NoTask,      \* main is not inside run()
    NFrags,      \* [Tasks -> number of fragments of the task]
    Jobs,        \* -j: the number of workers and the capacity of every channel
    MaxCrashes   \* bound on how often the node dies

\* strings.Split never returns an empty list: a task has at least one fragment.
ASSUME NFragsAssumption == NFrags \in [Tasks -> Nat \ {0}]
ASSUME JobsAssumption == Jobs \in Nat \ {0}
ASSUME NoTaskAssumption == NoTask \notin Tasks
ASSUME MaxCrashesAssumption == MaxCrashes \in Nat

VARIABLES
    cur,         \* the task main is enqueueing, or NoTask when it reads the stream
    next,        \* the loop index of enqueue()
    requests,    \* the channel fetch.requests
    wpc,         \* what each worker is about to do
    held,        \* the request each worker is working on
    fragments,   \* fetchQueue.fragments of each task
    errors,      \* fetchQueue.errors of each task
    gpc,         \* what each task's gather is about to do
    count,       \* the loop index i of gather()
    added,       \* the fragments given to the C++ process with add()
    stored,      \* the fragments in the part written to the result stream
    crashes

mainVars == <<cur, next>>
pool    == <<wpc, held>>
sinks   == <<fragments, errors>>
gathers == <<gpc, count, added>>
vars    == <<mainVars, requests, pool, sinks, gathers, stored, crashes>>

Workers  == 1 .. Jobs
Index(t) == 0 .. NFrags[t] - 1
Request  == [task : Tasks, index : Nat]
NoRequest == [task |-> NoTask, index |-> 0]
Busy     == {w \in Workers : wpc[w] # "receive"}

\* gather() ends with cleanup(), which cancels the context of the downloads.
Cancelled(t) == gpc[t] = "done"

\* Mutant: the channels of a task have one place less than there are workers.
HasRoomMinusOne(chan, t) == Cardinality(chan[t]) < Jobs - 1

HasRoom(chan, t) == Cardinality(chan[t]) < Jobs

TypeOK ==
    /\ cur \in Tasks \cup {NoTask}
    /\ next \in Nat
    /\ requests \in Seq(Request) /\ Len(requests) <= Jobs
    /\ wpc \in [Workers -> {"receive", "fetch", "fragment", "error"}]
    /\ held \in [Workers -> Request \cup {NoRequest}]
    /\ \A w \in Busy : held[w] \in Request
    /\ fragments \in [Tasks -> SUBSET Nat]
    /\ errors \in [Tasks -> SUBSET Nat]
    /\ gpc \in [Tasks -> {"none", "gather", "drain", "write", "expire", "done"}]
    /\ count \in [Tasks -> Nat]
    /\ added \in [Tasks -> SUBSET Nat]
    /\ stored \in [Tasks -> SUBSET Nat]
    /\ crashes \in 0 .. MaxCrashes

Init ==
    /\ cur = NoTask /\ next = 0
    /\ requests = <<>>
    /\ wpc = [w \in Workers |-> "receive"]
    /\ held = [w \in Workers |-> NoRequest]
    /\ fragments = [t \in Tasks |-> {}]
    /\ errors = [t \in Tasks |-> {}]
    /\ gpc = [t \in Tasks |-> "none"]
    /\ count = [t \in Tasks |-> 0]
    /\ added = [t \in Tasks |-> {}]
    /\ stored = [t \in Tasks |-> {}]
    /\ crashes = 0
-----------------------------------------------------------------------------
\* main: read a task that becomes a process, make its queue, start its gather.
Read(t) ==
    /\ cur = NoTask
    /\ gpc[t] = "none"
    /\ cur' = t /\ next' = 0
    /\ gpc' = [gpc EXCEPT ![t] = "gather"]
    /\ UNCHANGED <<requests, pool, sinks, count, added, stored, crashes>>

\* main: read a task that is dropped: no C++ process of that kind, init() refuses
\* the task, or its container URL or one of its blob URLs does not parse.
ReadBad(t) ==
    /\ cur = NoTask
    /\ gpc[t] = "none"
    /\ gpc' = [gpc EXCEPT ![t] = "done"]
    /\ UNCHANGED <<mainVars, requests, pool, sinks, count, added, stored, crashes>>

\* Mutant: enqueue() does not block on a full channel.
EnqueueUnbounded ==
    /\ cur # NoTask /\ next < NFrags[cur]
    /\ requests' = Append(requests, [task |-> cur, index |-> next])
    /\ next' = next + 1
    /\ UNCHANGED <<cur, pool, sinks, gathers, stored, crashes>>

\* main: one turn of the loop in enqueue(), which blocks while the channel is full.
Enqueue ==
    /\ cur # NoTask /\ next < NFrags[cur]
    /\ Len(requests) < Jobs
    /\ requests' = Append(requests, [task |-> cur, index |-> next])
    /\ next' = next + 1
    /\ UNCHANGED <<cur, pool, sinks, gathers, stored, crashes>>

EnqueueReturn ==
    /\ cur # NoTask /\ next = NFrags[cur]
    /\ cur' = NoTask /\ next' = 0
    /\ UNCHANGED <<requests, pool, sinks, gathers, stored, crashes>>
-----------------------------------------------------------------------------
Receive(w) ==
    /\ wpc[w] = "receive" /\ requests # <<>>
    /\ held' = [held EXCEPT ![w] = Head(requests)]
    /\ requests' = Tail(requests)
    /\ wpc' = [wpc EXCEPT ![w] = "fetch"]
    /\ UNCHANGED <<mainVars, sinks, gathers, stored, crashes>>

\* fetchblob(): a download may always fail, and fails when its context is cancelled.
Fetch(w) ==
    /\ wpc[w] = "fetch"
    /\ \/ wpc' = [wpc EXCEPT ![w] = "error"]
       \/ /\ ~Cancelled(held[w].task)
          /\ wpc' = [wpc EXCEPT ![w] = "fragment"]
    /\ UNCHANGED <<mainVars, requests, held, sinks, gathers, stored, crashes>>

SendFragment(w) ==
    LET r == held[w] IN
    /\ wpc[w] = "fragment"
    /\ HasRoom(fragments, r.task)
    /\ fragments' = [fragments EXCEPT ![r.task] = @ \cup {r.index}]
    /\ wpc' = [wpc EXCEPT ![w] = "receive"]
    /\ held' = [held EXCEPT ![w] = NoRequest]
    /\ UNCHANGED <<mainVars, requests, errors, gathers, stored, crashes>>

\* Mutant: a failed download is logged and not reported to the gather.
SendErrorSwallowed(w) ==
    /\ wpc[w] = "error"
    /\ wpc' = [wpc EXCEPT ![w] = "receive"]
    /\ held' = [held EXCEPT ![w] = NoRequest]
    /\ UNCHANGED <<mainVars, requests, sinks, gathers, stored, crashes>>

\* Mutant: the errors channel is unbuffered, so a send needs a gather that receives.
SendErrorUnbuffered(w) ==
    LET r == held[w] IN
    /\ wpc[w] = "error"
    /\ gpc[r.task] \in {"gather", "drain"}
    /\ errors' = [errors EXCEPT ![r.task] = @ \cup {r.index}]
    /\ wpc' = [wpc EXCEPT ![w] = "receive"]
    /\ held' = [held EXCEPT ![w] = NoRequest]
    /\ UNCHANGED <<mainVars, requests, fragments, gathers, stored, crashes>>

SendError(w) ==
    LET r == held[w] IN
    /\ wpc[w] = "error"
    /\ HasRoom(errors, r.task)
    /\ errors' = [errors EXCEPT ![r.task] = @ \cup {r.index}]
    /\ wpc' = [wpc EXCEPT ![w] = "receive"]
    /\ held' = [held EXCEPT ![w] = NoRequest]
    /\ UNCHANGED <<mainVars, requests, fragments, gathers, stored, crashes>>
-----------------------------------------------------------------------------
\* gather: the fragments case of the select.
Add(t) ==
    /\ gpc[t] = "gather" /\ count[t] < NFrags[t]
    /\ \E i \in fragments[t] :
          /\ fragments' = [fragments EXCEPT ![t] = @ \ {i}]
          /\ added' = [added EXCEPT ![t] = @ \cup {i}]
    /\ count' = [count EXCEPT ![t] = @ + 1]
    /\ UNCHANGED <<mainVars, requests, pool, errors, gpc, stored, crashes>>

\* gather: the errors case of the select; the first error ends the loop.
GiveUp(t) ==
    /\ gpc[t] = "gather" /\ count[t] < NFrags[t]
    /\ \E i \in errors[t] : errors' = [errors EXCEPT ![t] = @ \ {i}]
    /\ gpc' = [gpc EXCEPT ![t] = "drain"]
    /\ UNCHANGED <<mainVars, requests, pool, fragments, count, added, stored, crashes>>

\* Mutant: the drain loop waits for the next error instead of returning.
DrainWaits(t) ==
    /\ gpc[t] = "drain"
    /\ \E i \in errors[t] : errors' = [errors EXCEPT ![t] = @ \ {i}]
    /\ UNCHANGED <<mainVars, requests, pool, fragments, gathers, stored, crashes>>

\* gather: log the errors that are there, and return when there is none.
Drain(t) ==
    /\ gpc[t] = "drain"
    /\ IF errors[t] = {}
         THEN gpc' = [gpc EXCEPT ![t] = "done"] /\ UNCHANGED errors
         ELSE /\ \E i \in errors[t] : errors' = [errors EXCEPT ![t] = @ \ {i}]
              /\ UNCHANGED gpc
    /\ UNCHANGED <<mainVars, requests, pool, fragments, count, added, stored, crashes>>

\* Mutant: the loop in gather() stops one fragment early.
PackEarly(t) ==
    /\ gpc[t] = "gather" /\ count[t] >= NFrags[t] - 1
    /\ gpc' = [gpc EXCEPT ![t] = "write"]
    /\ UNCHANGED <<mainVars, requests, pool, sinks, count, added, stored, crashes>>

Pack(t) ==
    /\ gpc[t] = "gather" /\ count[t] = NFrags[t]
    /\ gpc' = [gpc EXCEPT ![t] = "write"]
    /\ UNCHANGED <<mainVars, requests, pool, sinks, count, added, stored, crashes>>

\* gather: XADD of the part.  A failed XADD is logged and otherwise ignored.
Write(t) ==
    /\ gpc[t] = "write"
    /\ \/ stored' = [stored EXCEPT ![t] = added[t]]
       \/ UNCHANGED stored
    /\ gpc' = [gpc EXCEPT ![t] = "expire"]
    /\ UNCHANGED <<mainVars, requests, pool, sinks, count, added, crashes>>

\* gather: EXPIRE, return, and the deferred cleanup().
Expire(t) ==
    /\ gpc[t] = "expire"
    /\ gpc' = [gpc EXCEPT ![t] = "done"]
    /\ UNCHANGED <<mainVars, requests, pool, sinks, count, added, stored, crashes>>
-----------------------------------------------------------------------------
\* Mutant: without NoAck the messages of a dead node are delivered again, also
\* those of parts that were already written.
CrashRedelivers ==
    /\ crashes < MaxCrashes
    /\ crashes' = crashes + 1
    /\ cur' = NoTask /\ next' = 0
    /\ requests' = <<>>
    /\ wpc' = [w \in Workers |-> "receive"]
    /\ held' = [w \in Workers |-> NoRequest]
    /\ fragments' = [t \in Tasks |-> {}]
    /\ errors' = [t \in Tasks |-> {}]
    /\ gpc' = [t \in Tasks |-> "none"]
    /\ count' = [t \in Tasks |-> 0]
    /\ added' = [t \in Tasks |-> {}]
    /\ UNCHANGED stored

\* The node dies and is started again: log.Fatalf on a failed XREADGROUP, XDEL,
\* fragments(), add() or pack(), the nil dereference on a task that does not
\* unpack, or a kill.  Its memory is that of a new node, and every task it had
\* read is gone: messages are read with NoAck and never delivered again.
Crash ==
    /\ crashes < MaxCrashes
    /\ crashes' = crashes + 1
    /\ cur' = NoTask /\ next' = 0
    /\ requests' = <<>>
    /\ wpc' = [w \in Workers |-> "receive"]
    /\ held' = [w \in Workers |-> NoRequest]
    /\ fragments' = [t \in Tasks |-> {}]
    /\ errors' = [t \in Tasks |-> {}]
    /\ gpc' = [t \in Tasks |-> IF gpc[t] = "none" THEN "none" ELSE "done"]
    /\ count' = [t \in Tasks |-> 0]
    /\ added' = [t \in Tasks |-> {}]
    /\ UNCHANGED stored

WorkerStep(w) == Receive(w) \/ Fetch(w) \/ SendFragment(w) \/ SendError(w)
GatherStep(t) == Add(t) \/ GiveUp(t) \/ Drain(t) \/ Pack(t) \/ Write(t) \/ Expire(t)

Next ==
    \/ \E t \in Tasks : Read(t) \/ ReadBad(t)
    \/ Enqueue \/ EnqueueReturn
    \/ \E w \in Workers : WorkerStep(w)
    \/ \E t \in Tasks : GatherStep(t)
    \/ Crash

\* The Go scheduler runs every goroutine that can run, and a download ends.
Fairness ==
    /\ WF_vars(Enqueue \/ EnqueueReturn)
    /\ \A w \in Workers : WF_vars(WorkerStep(w))
    /\ \A t \in Tasks : WF_vars(GatherStep(t))

Spec == Init /\ [][Next]_vars /\ Fairness
-----------------------------------------------------------------------------
\* A part on the result stream is complete: gather counts arrivals and packs when
\* the count reaches the number of fragments, which is right only if no fragment
\* is ever counted twice (gather() and add(), fetch.go 172-180 and 274-296).
PartsComplete ==
    \A t \in Tasks : stored[t] \in {{}, Index(t)}

\* A worker that is done downloading never waits for a reader: the channels of the
\* task have room for it, also when its gather returned at an earlier error and
\* nobody will ever receive again.  It takes fragments <= Jobs ("if the channels
\* are sufficiently buffered", fetch.go 260-264; mkqueue, pipeline.go 137-142).
SendNeverBlocks ==
    \A w \in Workers :
        LET t == held[w].task IN
        /\ wpc[w] = "fragment" /\ NFrags[t] <= Jobs => HasRoom(fragments, t)
        /\ wpc[w] = "error"    /\ NFrags[t] <= Jobs => HasRoom(errors, t)

\* A gather that is still waiting has something to wait for: every fragment it has
\* not counted is yet to be enqueued, on the requests channel, with a worker, or on
\* one of its channels.  Otherwise the goroutine and its C++ process leak.
NoGatherStarves ==
    \A t \in Tasks : gpc[t] = "gather" =>
        \A i \in Index(t) \ added[t] :
            \/ cur = t /\ i >= next
            \/ \E k \in 1 .. Len(requests) : requests[k] = [task |-> t, index |-> i]
            \/ \E w \in Busy : held[w] = [task |-> t, index |-> i]
            \/ i \in fragments[t] \cup errors[t]

\* Every task that main has read ends: its gather returns (run(), main.go 161-163).
TasksSettle == \A t \in Tasks : gpc[t] = "gather" ~> gpc[t] = "done"

\* Every worker comes back for another request, and main for another task: one task
\* that fails does not take workers from the next (pipeline.go 249-261).
PoolRecovers ==
    /\ \A w \in Workers : []<>(wpc[w] = "receive")
    /\ []<>(cur = NoTask)

\* The node keeps the promise of JobOutcome.
Status(t) ==
    IF gpc[t] = "none" THEN "queued"
    ELSE IF stored[t] = Index(t) THEN "stored"
    ELSE IF stored[t] # {} THEN "corrupt"
    ELSE IF gpc[t] \in {"gather", "drain", "write"} THEN "running" ELSE "failed"

Outcome == INSTANCE JobOutcome WITH status <- [t \in Tasks |-> Status(t)]

\* Every behaviour of the pool, crashes included, is one of JobOutcome: a task is
\* run at most once and a failed one never yields a part (main.go 218-228).
ImplementsOutcome == Outcome!Spec
=============================================================================
