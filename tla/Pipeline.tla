------------------------------- MODULE Pipeline -------------------------------
(***************************************************************************)
(* A process from its promise to the client's last byte, across the        *)
(* services that share nothing but redis:                                  *)
(*                                                                         *)
(*   query    answers a GraphQL field with a promise, and schedules in the *)
(*            background: SET the header, then XADD every task to "jobs"   *)
(*            (graphql.go basicQuery, scheduler.go Schedule).              *)
(*   fetch    nodes of one consumer group read tasks with NoAck, delete    *)
(*            them from the stream in the background, and append parts to  *)
(*            the result stream of the pid (cmd/fetch).  What a node does  *)
(*            with a task is the promise of JobOutcome, which FetchPool    *)
(*            is shown to keep.                                            *)
(*   client   opens the stream of its pid and reads until it has as many   *)
(*            parts as the header it found says (result.go Stream).        *)
(*                                                                         *)
(* The pid is made once per HTTP request (util.GeneratePID), and a request *)
(* may ask for several fields: PidOf need not be injective.  Expirations   *)
(* are the subject of ResultServer and left out here.                      *)
(*                                                                         *)
(* The redis library sends a command again when its answer is lost: an     *)
(* XADD is then done twice, and of a read with NoAck the first message is  *)
(* lost.                                                                   *)
(***************************************************************************)
EXTENDS Integers, Sequences, Functions

CONSTANTS
    Queries,    \* GraphQL fields that ask for a process
    Pids,
    PidOf,      \* [Queries -> the pid of the HTTP request the field is in]
    NTasks,     \* [Queries -> number of tasks of the plan]
    Nodes,      \* fetch nodes
    None,       \* no header, no node
    MaxFaults,  \* bound on failed and repeated calls and failed tasks
    MaxDeaths   \* bound on dying fetch nodes and lost reads

ASSUME QueriesAssumption ==
    /\ PidOf \in [Queries -> Pids]
    /\ NTasks \in [Queries -> Nat \ {0}]
    /\ None \notin Queries \cup Nodes
ASSUME BoundsAssumption == MaxFaults \in Nat /\ MaxDeaths \in Nat

\* A task is on the jobs stream once more for every time its XADD was repeated.
TasksOf ==
    [q \in Queries |-> [query : {q}, index : 0 .. NTasks[q] - 1, copy : 0 .. MaxFaults]]
Task    == UNION Range(TasksOf)
Pid(t)  == PidOf[t.query]

\* The parts of a query: what its tasks add to the result stream.
Part(t) == <<t.query, t.index>>
PartsOf == [q \in Queries |-> {Part(t) : t \in TasksOf[q]}]
Parts   == UNION Range(PartsOf)

VARIABLES
    spc,      \* what the Schedule goroutine of a query is about to do
    next,     \* its loop index
    copy,     \* how often the XADD it is in was repeated
    header,   \* the header in redis: the query whose plan it describes
    jobs,     \* tasks on the jobs stream that no node has read
    entries,  \* entries of the jobs stream that are not deleted
    xdel,     \* deletes each node has yet to send
    status,   \* status of a task, as in JobOutcome
    runner,   \* the node that runs it, if one does
    stream,   \* the result streams
    head,     \* the header that the client's request found
    got,      \* the parts it has read
    faults, deaths

query   == <<spc, next, copy>>
queue   == <<jobs, entries, xdel>>
work    == <<status, runner>>
client  == <<head, got>>
vars    == <<query, header, queue, work, stream, client, faults, deaths>>

TypeOK ==
    /\ spc \in [Queries -> {"idle", "refused", "set", "add", "done", "failed", "dead"}]
    /\ \A q \in Queries : next[q] \in 0 .. NTasks[q] /\ copy[q] \in 0 .. faults
    /\ header \in [Pids -> Queries \cup {None}]
    /\ jobs \in Seq(Task)
    /\ entries \subseteq Task
    /\ xdel \in [Nodes -> SUBSET Task]
    /\ status \in [Task -> {"queued", "running", "stored", "failed"}]
    /\ runner \in [Task -> Nodes \cup {None}]
    /\ stream \in [Pids -> Seq(Parts)]
    /\ head \in [Queries -> Queries \cup {None}]
    /\ got \in [Queries -> Seq(Parts)]
    /\ faults \in 0 .. MaxFaults /\ deaths \in 0 .. MaxDeaths

Init ==
    /\ spc = [q \in Queries |-> "idle"] /\ next = [q \in Queries |-> 0]
    /\ copy = [q \in Queries |-> 0]
    /\ header = [p \in Pids |-> None]
    /\ jobs = <<>> /\ entries = {} /\ xdel = [n \in Nodes |-> {}]
    /\ status = [t \in Task |-> "queued"] /\ runner = [t \in Task |-> None]
    /\ stream = [p \in Pids |-> <<>>]
    /\ head = [q \in Queries |-> None] /\ got = [q \in Queries |-> <<>>]
    /\ faults = 0 /\ deaths = 0

Fault == faults < MaxFaults /\ faults' = faults + 1
-----------------------------------------------------------------------------
\* basicQuery: plan, sign, start Schedule and return the promise; when planning
\* fails the field is null, and nothing is started.
Promise(q) ==
    /\ spc[q] = "idle"
    /\ \/ spc' = [spc EXCEPT ![q] = "set"] /\ UNCHANGED faults
       \/ spc' = [spc EXCEPT ![q] = "refused"] /\ Fault
    /\ UNCHANGED <<next, copy, header, queue, work, stream, client, deaths>>

SetHeader(q) ==
    /\ spc[q] = "set"
    /\ header' = [header EXCEPT ![PidOf[q]] = q]
    /\ spc' = [spc EXCEPT ![q] = "add"]
    /\ UNCHANGED <<next, copy, queue, work, stream, client, faults, deaths>>

AddEntry(t) ==
    /\ jobs' = Append(jobs, t)
    /\ entries' = entries \cup {t}

\* Mutant: the loop in Schedule() runs once too often.
AdvanceOneMore(q, n) ==
    /\ next' = [next EXCEPT ![q] = @ + 1]
    /\ copy' = [copy EXCEPT ![q] = 0]
    /\ spc' = [spc EXCEPT ![q] = IF next[q] = n THEN "done" ELSE "add"]

\* Mutant: the loop in Schedule() ends before the last task.
AdvanceOneLess(q, n) ==
    /\ next' = [next EXCEPT ![q] = @ + 1]
    /\ copy' = [copy EXCEPT ![q] = 0]
    /\ spc' = [spc EXCEPT ![q] = IF next'[q] >= n - 1 THEN "done" ELSE "add"]

\* Schedule() goes on to the task behind next[q], of n.
Advance(q, n) ==
    /\ next' = [next EXCEPT ![q] = @ + 1]
    /\ copy' = [copy EXCEPT ![q] = 0]
    /\ spc' = [spc EXCEPT ![q] = IF next'[q] = n THEN "done" ELSE "add"]

\* The XADD of a task, which is sent again if its answer is lost.
AddTask(q) ==
    /\ spc[q] = "add"
    /\ AddEntry([query |-> q, index |-> next[q], copy |-> copy[q]])
    /\ \/ Advance(q, NTasks[q]) /\ UNCHANGED faults
       \/ /\ Fault
          /\ copy' = [copy EXCEPT ![q] = @ + 1]
          /\ UNCHANGED <<spc, next>>
    /\ UNCHANGED <<header, xdel, work, stream, client, deaths>>

\* A failed SET or XADD is a log.Fatalf: every other Schedule of the server dies with it.
ScheduleFails(q) ==
    /\ spc[q] \in {"set", "add"}
    /\ Fault
    /\ spc' = [r \in Queries |-> IF r = q THEN "failed"
                                ELSE IF spc[r] \in {"set", "add"} THEN "dead" ELSE spc[r]]
    /\ UNCHANGED <<next, copy, header, queue, work, stream, client, deaths>>
-----------------------------------------------------------------------------
\* A task changes its status, and is run by a node from now on, or by none.
Becomes(t, st, n) ==
    /\ status' = [status EXCEPT ![t] = st]
    /\ runner' = [runner EXCEPT ![t] = n]

\* A node reads the oldest unread message: no other node will ever get it.  A task
\* that is not a good process is dropped.
Take(n) ==
    /\ jobs # <<>>
    /\ LET t == Head(jobs) IN
       /\ jobs' = Tail(jobs)
       /\ xdel' = [xdel EXCEPT ![n] = @ \cup {t}]
       /\ \/ Becomes(t, "running", n) /\ UNCHANGED faults
          \/ Becomes(t, "failed", None) /\ Fault
    /\ UNCHANGED <<query, header, entries, stream, client, deaths>>

\* The answer of a read is lost: its message was delivered, and nobody has it.
LoseRead ==
    /\ deaths < MaxDeaths /\ jobs # <<>>
    /\ deaths' = deaths + 1
    /\ jobs' = Tail(jobs)
    /\ Becomes(Head(jobs), "failed", None)
    /\ UNCHANGED <<query, header, entries, xdel, stream, client, faults>>

\* Mutant: the delete is sent with no IDs.
XDelNothing(n) ==
    /\ \E t \in xdel[n] : xdel' = [xdel EXCEPT ![n] = @ \ {t}]
    /\ UNCHANGED <<query, header, jobs, entries, work, stream, client, faults, deaths>>

\* The goroutine that deletes what the node has read.
XDel(n) ==
    /\ \E t \in xdel[n] :
          /\ entries' = entries \ {t}
          /\ xdel' = [xdel EXCEPT ![n] = @ \ {t}]
    /\ UNCHANGED <<query, header, jobs, work, stream, client, faults, deaths>>

\* gather(): XADD of the packed part, which is sent again if its answer is lost.
Store(t) ==
    /\ status[t] = "running"
    /\ stream' = [stream EXCEPT ![Pid(t)] = Append(@, Part(t))]
    /\ \/ Becomes(t, "stored", None) /\ UNCHANGED faults
       \/ Fault /\ UNCHANGED work
    /\ UNCHANGED <<query, header, queue, client, deaths>>

\* A failed download, or an XADD that was answered with an error.
FailTask(t) ==
    /\ status[t] = "running"
    /\ Fault
    /\ Becomes(t, "failed", None)
    /\ UNCHANGED <<query, header, queue, stream, client, deaths>>

RunBy(n) == {t \in Task : runner[t] = n}

\* Mutant: without NoAck, what a dead node has not acknowledged is delivered again.
DieRedelivers(n) ==
    /\ deaths < MaxDeaths
    /\ deaths' = deaths + 1
    /\ \E t \in RunBy(n) : Becomes(t, "queued", None) /\ jobs' = Append(jobs, t)
    /\ xdel' = [xdel EXCEPT ![n] = {}]
    /\ UNCHANGED <<query, header, entries, stream, client, faults>>

\* What a node was running dies with it, and so do the deletes it has not sent.
Die(n) ==
    /\ deaths < MaxDeaths
    /\ deaths' = deaths + 1
    /\ status' = [t \in Task |-> IF t \in RunBy(n) THEN "failed" ELSE status[t]]
    /\ runner' = [t \in Task |-> IF t \in RunBy(n) THEN None ELSE runner[t]]
    /\ xdel' = [xdel EXCEPT ![n] = {}]
    /\ UNCHANGED <<query, header, jobs, entries, stream, client, faults>>
-----------------------------------------------------------------------------
\* The client asks for its stream, again if it was too early and there is no header.
Open(q) ==
    /\ spc[q] \notin {"idle", "refused"}
    /\ head[q] = None /\ header[PidOf[q]] # None
    /\ head' = [head EXCEPT ![q] = header[PidOf[q]]]
    /\ UNCHANGED <<query, header, queue, work, stream, got, faults, deaths>>

\* Mutant: the loop in collectResult() ends one part early.
CompleteEarly(q) == head[q] # None /\ Len(got[q]) >= NTasks[head[q]] - 1

Complete(q) == head[q] # None /\ Len(got[q]) >= NTasks[head[q]]

\* collectResult(): one XREAD passes on every entry behind the cursor.
ReadParts(q) ==
    /\ head[q] # None /\ ~Complete(q)
    /\ Len(stream[PidOf[q]]) > Len(got[q])
    /\ got' = [got EXCEPT ![q] = stream[PidOf[q]]]
    /\ UNCHANGED <<query, header, queue, work, stream, head, faults, deaths>>

\* What goroutines, nodes and clients do when nothing fails.
Work ==
    \/ \E q \in Queries : SetHeader(q) \/ AddTask(q) \/ Open(q) \/ ReadParts(q)
    \/ \E n \in Nodes : Take(n) \/ XDel(n)
    \/ \E t \in Task : Store(t) \/ FailTask(t)

Next ==
    \/ Work
    \/ \E q \in Queries : Promise(q) \/ ScheduleFails(q)
    \/ LoseRead
    \/ \E n \in Nodes : Die(n)

\* Goroutines run, at least one node reads, nodes finish what they run (FetchPool's
\* liveness), and the client asks until there is a header.  There is only so much to do
\* for any request, so it is enough that the system as a whole does not stop.
Spec == Init /\ [][Next]_vars /\ WF_vars(Work)
-----------------------------------------------------------------------------
\* A client whose stream ends has parts of its own query only, and all of them unless one
\* is on the stream twice, since parts are counted and not told apart: "The PID, process
\* identifier, is the key used to identify a single process" (README.md 124; Stream,
\* result.go 93-133).
OnlyOwnParts ==
    \A q \in Queries : Complete(q) =>
        /\ Range(got[q]) \subseteq PartsOf[q]
        /\ IsInjective(got[q]) => Range(got[q]) = PartsOf[q]

\* A task is taken by one node of the group, once, and ends at most once: no crash
\* makes it run again or puts a part twice on the stream (NoAck, main.go 218-228).
Outcome == INSTANCE JobOutcome WITH Tasks <- Task
OutcomeSafety == Outcome!Safety

\* While no Schedule is ended by the log.Fatalf of another query, which does leave a
\* client waiting for ever (graphql.go 312), a promise is kept or something of this very
\* query has failed, its own scheduling or one of its tasks: nothing else that fails for
\* another query, however the services interleave, leaves a client waiting (basicQuery,
\* graphql.go 274-320; collectResult, result.go 64-90, which waits without a time-out).
PromisesKept ==
    [](\A q \in Queries : spc[q] # "dead") =>
        []<>(\A q \in Queries :
                \/ spc[q] \in {"idle", "refused", "failed"} \/ Complete(q)
                \/ \E t \in TasksOf[q] : status[t] = "failed")

\* While no node dies and no read is lost, the jobs stream does not grow for ever: every
\* entry is deleted (main.go 239-252, "correct except in some crashing scenarios").
QueueDrains == [](deaths = 0) => []<>(entries = {})
=============================================================================
