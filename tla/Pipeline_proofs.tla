---------------------------- MODULE Pipeline_proofs ----------------------------
(***************************************************************************)
(* The services share nothing but redis, and still a task is run by one    *)
(* node at most and once: the jobs stream holds every task at most once,   *)
(* and only tasks that nobody took.  From this every step of the pipeline  *)
(* is one that JobOutcome allows for its tasks, for any number of queries, *)
(* requests, nodes, repeated calls and deaths.                             *)
(*                                                                         *)
(* A result stream holds parts of the queries of its request alone.  If    *)
(* every request asks for one process, so that the pid identifies it, each *)
(* client is given its own parts, and all of them unless one came twice.   *)
(* That parts are counted suffices then: as many different parts as there  *)
(* are tasks are all the parts.                                            *)
(***************************************************************************)
EXTENDS Pipeline, SequenceTheorems, FiniteSetTheorems, TLAPS

\* The task was added to the jobs stream.
Added(t) ==
    \/ t.index < next[t.query]
    \/ t.index = next[t.query] /\ t.copy < copy[t.query]

\* A goroutine that has not ended has a task to add.
Scheduling ==
    /\ next \in [Queries -> Nat] /\ copy \in [Queries -> Nat]
    /\ \A q \in Queries : spc[q] \in {"idle", "set", "add"} => next[q] < NTasks[q]

\* A task on the jobs stream is there once, and nobody has taken it.
Waiting ==
    /\ \A i \in 1 .. Len(jobs) : status[jobs[i]] = "queued" /\ Added(jobs[i])
    /\ \A i, j \in 1 .. Len(jobs) : jobs[i] = jobs[j] => i = j
    /\ \A t \in Task : status[t] # "queued" => Added(t)

RunningHere == \A t \in Task : status[t] = "running" <=> runner[t] # None

\* The parts of all the queries of a request.
Owned(p) == UNION {PartsOf[q] : q \in {r \in Queries : PidOf[r] = p}}

\* Headers, streams and what clients have of them are of their own request.
Belongs ==
    /\ \A p \in Pids : header[p] # None => PidOf[header[p]] = p
    /\ \A p \in Pids : stream[p] \in Seq(Owned(p))
    /\ \A q \in Queries : head[q] # None => PidOf[head[q]] = PidOf[q]
    /\ \A q \in Queries : got[q] \in Seq(Owned(PidOf[q]))

IInv == TypeOK /\ Scheduling /\ Waiting /\ RunningHere /\ Belongs
-----------------------------------------------------------------------------
\* What a task is made of.
LEMMA TaskType ==
    /\ \A t \in Task : /\ t.query \in Queries /\ t.index \in 0 .. NTasks[t.query] - 1
                       /\ t.copy \in 0 .. MaxFaults
    /\ \A q \in Queries, c \in 0 .. MaxFaults : \A i \in 0 .. NTasks[q] - 1 :
            [query |-> q, index |-> i, copy |-> c] \in Task
<1>1. \A t : t \in Task <=> \E q \in Queries : t \in TasksOf[q]
  BY DEF Task, TasksOf, Range
<1>2. \A q \in Queries :
        TasksOf[q] = [query : {q}, index : 0 .. NTasks[q] - 1, copy : 0 .. MaxFaults]
  BY DEF TasksOf
<1>3. \A t \in Task : /\ t.query \in Queries /\ t.index \in 0 .. NTasks[t.query] - 1
                      /\ t.copy \in 0 .. MaxFaults
  <2>. SUFFICES ASSUME NEW t \in Task, NEW q \in Queries, t \in TasksOf[q]
                PROVE  /\ t.query = q /\ t.index \in 0 .. NTasks[q] - 1
                       /\ t.copy \in 0 .. MaxFaults
    BY <1>1
  <2>1. t \in [query : {q}, index : 0 .. NTasks[q] - 1, copy : 0 .. MaxFaults]
    BY <1>2
  <2>. QED  BY <2>1
<1>4. ASSUME NEW q \in Queries, NEW c \in 0 .. MaxFaults, NEW i \in 0 .. NTasks[q] - 1
      PROVE  [query |-> q, index |-> i, copy |-> c] \in Task
  BY <1>1, <1>2
<1>. QED  BY <1>3, <1>4

\* The part of a task is one of its request.
LEMMA PartType ==
    /\ \A t \in Task : Pid(t) \in Pids /\ Part(t) \in Owned(Pid(t))
    /\ \A p : Owned(p) \subseteq Parts
<1>1. \A t \in Task : \E q \in Queries : t \in TasksOf[q] /\ t.query = q
  BY DEF Task, TasksOf, Range
<1>2. \A q \in Queries : PartsOf[q] = {Part(t) : t \in TasksOf[q]}
  BY DEF PartsOf
<1>3. \A t \in Task : Part(t) \in PartsOf[t.query] /\ t.query \in Queries
  BY <1>1, <1>2
<1>4. \A t \in Task : Pid(t) \in Pids /\ Part(t) \in Owned(Pid(t))
  BY <1>3, QueriesAssumption DEF Owned, Pid
<1>5. \A q \in Queries : PartsOf[q] \subseteq Parts
  BY DEF PartsOf, Parts, Range
<1>. QED  BY <1>4, <1>5 DEF Owned

\* The first task on the jobs stream: nobody has it, and it is nowhere behind.
LEMMA FirstJob ==
    ASSUME TypeOK, Waiting, jobs # <<>>
    PROVE  /\ Head(jobs) \in Task /\ Tail(jobs) \in Seq(Task)
           /\ status[Head(jobs)] = "queued" /\ Added(Head(jobs))
           /\ Len(Tail(jobs)) = Len(jobs) - 1 /\ Len(jobs) \in Nat
           /\ \A i \in 1 .. Len(Tail(jobs)) :
                 /\ i + 1 \in 1 .. Len(jobs)
                 /\ Tail(jobs)[i] = jobs[i + 1] /\ jobs[i + 1] # Head(jobs)
<1>1. jobs \in Seq(Task)
  BY DEF TypeOK
<1>2. /\ Head(jobs) \in Task /\ Tail(jobs) \in Seq(Task) /\ Head(jobs) = jobs[1]
      /\ Len(Tail(jobs)) = Len(jobs) - 1 /\ Len(jobs) \in Nat
      /\ \A i \in 1 .. Len(Tail(jobs)) : Tail(jobs)[i] = jobs[i + 1]
      /\ Len(jobs) # 0
  BY <1>1, HeadTailProperties, LenProperties, EmptySeq
<1>3. 1 \in 1 .. Len(jobs) /\ \A i \in 1 .. Len(Tail(jobs)) : i + 1 \in 1 .. Len(jobs)
  BY <1>2
<1>4. \A i \in 1 .. Len(Tail(jobs)) : jobs[i + 1] # jobs[1]
  BY <1>2, <1>3 DEF Waiting
<1>. QED  BY <1>2, <1>3, <1>4 DEF Waiting
-----------------------------------------------------------------------------
LEMMA InitIInv == Init => IInv
<1>. SUFFICES ASSUME Init PROVE IInv
  OBVIOUS
<1>1. TypeOK
  <2>1. \A q \in Queries : next[q] \in 0 .. NTasks[q] /\ copy[q] \in 0 .. faults
    BY QueriesAssumption DEF Init
  <2>2. faults \in 0 .. MaxFaults /\ deaths \in 0 .. MaxDeaths
    BY BoundsAssumption DEF Init
  <2>. QED  BY <2>1, <2>2 DEF Init, TypeOK
<1>2. Scheduling
  BY QueriesAssumption DEF Init, Scheduling
<1>3. Waiting
  BY DEF Init, Waiting
<1>4. RunningHere /\ Belongs
  BY DEF Init, RunningHere, Belongs
<1>. QED  BY <1>1, <1>2, <1>3, <1>4 DEF IInv
-----------------------------------------------------------------------------
\* What a step keeps of the invariant by leaving its variables alone.
LEMMA Frames ==
    ASSUME IInv
    PROVE  /\ UNCHANGED query => Scheduling'
           /\ UNCHANGED <<next, copy, jobs, status>> => Waiting'
           /\ UNCHANGED work => RunningHere'
           /\ UNCHANGED <<header, stream, client>> => Belongs'
<1>1. UNCHANGED query => Scheduling'
  BY DEF IInv, Scheduling, query
<1>2. UNCHANGED <<next, copy, jobs, status>> => Waiting'
  BY DEF IInv, Waiting, Added
<1>3. UNCHANGED work => RunningHere'
  BY DEF IInv, RunningHere, work
<1>4. UNCHANGED <<header, stream, client>> => Belongs'
  BY DEF IInv, Belongs, client
<1>. QED  BY <1>1, <1>2, <1>3, <1>4

LEMMA FaultType ==
    ASSUME TypeOK, Fault \/ UNCHANGED faults
    PROVE  /\ faults' \in 0 .. MaxFaults
           /\ \A q \in Queries : copy[q] \in 0 .. faults'
<1>1. faults \in 0 .. MaxFaults /\ MaxFaults \in Nat
  BY BoundsAssumption DEF TypeOK
<1>2. \A q \in Queries : copy[q] \in 0 .. faults
  BY DEF TypeOK
<1>. QED  BY <1>1, <1>2 DEF Fault

LEMMA PromiseIInv == ASSUME IInv, NEW q \in Queries, Promise(q) PROVE IInv'
<1>1. /\ UNCHANGED <<next, copy, header, queue, work, stream, client, deaths>>
      /\ spc[q] = "idle" /\ (Fault \/ UNCHANGED faults)
      /\ \E pc \in {"set", "refused"} : spc' = [spc EXCEPT ![q] = pc]
  BY DEF Promise
<1>2. TypeOK'
  BY <1>1, FaultType DEF IInv, TypeOK, queue, work, client
<1>3. Scheduling'
  BY <1>1 DEF IInv, TypeOK, Scheduling
<1>4. Waiting' /\ RunningHere' /\ Belongs'
  BY <1>1, Frames DEF queue, work
<1>. QED  BY <1>2, <1>3, <1>4 DEF IInv

LEMMA SetHeaderIInv == ASSUME IInv, NEW q \in Queries, SetHeader(q) PROVE IInv'
<1>1. /\ UNCHANGED <<next, copy, queue, work, stream, client, faults, deaths>>
      /\ spc[q] = "set" /\ spc' = [spc EXCEPT ![q] = "add"]
      /\ header' = [header EXCEPT ![PidOf[q]] = q] /\ PidOf[q] \in Pids
  BY QueriesAssumption DEF SetHeader
<1>2. TypeOK'
  BY <1>1 DEF IInv, TypeOK, queue, work, client
<1>3. Scheduling'
  BY <1>1 DEF IInv, TypeOK, Scheduling
<1>4. Waiting' /\ RunningHere'
  BY <1>1, Frames DEF queue, work
<1>5. Belongs'
  BY <1>1 DEF IInv, TypeOK, Belongs, client
<1>. QED  BY <1>2, <1>3, <1>4, <1>5 DEF IInv

LEMMA ScheduleFailsIInv == ASSUME IInv, NEW q \in Queries, ScheduleFails(q) PROVE IInv'
<1>1. /\ UNCHANGED <<next, copy, header, queue, work, stream, client, deaths>> /\ Fault
      /\ spc[q] \in {"set", "add"}
      /\ spc' = [r \in Queries |-> IF r = q THEN "failed"
                                  ELSE IF spc[r] \in {"set", "add"} THEN "dead" ELSE spc[r]]
  BY DEF ScheduleFails
<1>2. TypeOK'
  BY <1>1, FaultType DEF IInv, TypeOK, queue, work, client
<1>3. Scheduling'
  BY <1>1 DEF IInv, TypeOK, Scheduling
<1>4. Waiting' /\ RunningHere' /\ Belongs'
  BY <1>1, Frames DEF queue, work
<1>. QED  BY <1>2, <1>3, <1>4 DEF IInv

\* The task that is added was not there: its index is the next one, or its copy is.
LEMMA AddTaskIInv == ASSUME IInv, NEW q \in Queries, AddTask(q) PROVE IInv'
<1>1. /\ next \in [Queries -> Nat] /\ copy \in [Queries -> Nat] /\ spc[q] = "add"
      /\ next[q] < NTasks[q] /\ NTasks[q] \in Nat /\ copy[q] \in 0 .. MaxFaults
      /\ copy[q] <= faults /\ faults \in Nat
      /\ spc \in [Queries -> {"idle", "refused", "set", "add", "done", "failed", "dead"}]
  BY QueriesAssumption, BoundsAssumption DEF IInv, TypeOK, Scheduling, AddTask
<1>2. PICK e \in Task : e = [query |-> q, index |-> next[q], copy |-> copy[q]]
  <2>1. next[q] \in 0 .. NTasks[q] - 1
    BY <1>1
  <2>. QED  BY <1>1, <2>1, TaskType
<1>3. /\ UNCHANGED <<header, xdel, work, stream, client, deaths>>
      /\ jobs' = Append(jobs, e) /\ entries' = entries \cup {e}
      /\ \/ /\ next' = [next EXCEPT ![q] = @ + 1] /\ copy' = [copy EXCEPT ![q] = 0]
            /\ spc' = [spc EXCEPT ![q] = IF next'[q] = NTasks[q] THEN "done" ELSE "add"]
            /\ UNCHANGED faults
         \/ /\ Fault /\ copy' = [copy EXCEPT ![q] = @ + 1]
            /\ UNCHANGED <<spc, next>>
  BY <1>2 DEF AddTask, AddEntry, Advance
<1>4. ~Added(e) /\ e.query = q /\ e.index = next[q] /\ e.copy = copy[q]
  BY <1>1, <1>2 DEF Added
<1>5. /\ next' \in [Queries -> Nat] /\ copy' \in [Queries -> Nat]
      /\ \A r \in Queries \ {q} : next'[r] = next[r] /\ copy'[r] = copy[r] /\ spc'[r] = spc[r]
      /\ \/ /\ next'[q] = next[q] + 1 /\ copy'[q] = 0 /\ UNCHANGED faults
            /\ spc'[q] = IF next'[q] = NTasks[q] THEN "done" ELSE "add"
         \/ /\ next'[q] = next[q] /\ copy'[q] = copy[q] + 1 /\ faults' = faults + 1
            /\ faults < MaxFaults /\ spc'[q] = spc[q]
  <2>1. CASE /\ next' = [next EXCEPT ![q] = @ + 1] /\ copy' = [copy EXCEPT ![q] = 0]
             /\ spc' = [spc EXCEPT ![q] = IF next'[q] = NTasks[q] THEN "done" ELSE "add"]
             /\ UNCHANGED faults
    <3>1. next' \in [Queries -> Nat] /\ copy' \in [Queries -> Nat]
      BY <1>1, <2>1
    <3>2. \A r \in Queries \ {q} : next'[r] = next[r] /\ copy'[r] = copy[r] /\ spc'[r] = spc[r]
      BY <1>1, <2>1
    <3>3. /\ next'[q] = next[q] + 1 /\ copy'[q] = 0
          /\ spc'[q] = IF next'[q] = NTasks[q] THEN "done" ELSE "add"
      BY <1>1, <2>1
    <3>. QED  BY <2>1, <3>1, <3>2, <3>3
  <2>2. CASE Fault /\ copy' = [copy EXCEPT ![q] = @ + 1] /\ UNCHANGED <<spc, next>>
    <3>1. next' \in [Queries -> Nat] /\ copy' \in [Queries -> Nat]
      BY <1>1, <2>2
    <3>2. \A r \in Queries \ {q} : next'[r] = next[r] /\ copy'[r] = copy[r] /\ spc'[r] = spc[r]
      BY <1>1, <2>2
    <3>3. /\ next'[q] = next[q] /\ copy'[q] = copy[q] + 1 /\ faults' = faults + 1
          /\ faults < MaxFaults /\ spc'[q] = spc[q]
      BY <1>1, <2>2 DEF Fault
    <3>. QED  BY <3>1, <3>2, <3>3
  <2>. QED  BY <1>3, <2>1, <2>2
<1>6. \A t \in Task : Added(t) => Added(t)'
  <2>. SUFFICES ASSUME NEW t \in Task, Added(t) PROVE Added(t)'
    OBVIOUS
  <2>1. t.query \in Queries /\ t.index \in Nat /\ t.copy \in Nat
    BY TaskType, QueriesAssumption, BoundsAssumption
  <2>2. CASE t.query # q
    BY <1>5, <2>1, <2>2 DEF Added
  <2>3. CASE t.query = q
    BY <1>1, <1>5, <2>1, <2>3 DEF Added
  <2>. QED  BY <2>2, <2>3
<1>7. Added(e)'
  BY <1>1, <1>4, <1>5 DEF Added
<1>8. TypeOK'
  <2>1. jobs' \in Seq(Task) /\ entries' \subseteq Task
    BY <1>3, AppendProperties DEF IInv, TypeOK
  <2>2. spc' \in [Queries -> {"idle", "refused", "set", "add", "done", "failed", "dead"}]
    BY <1>1, <1>3
  <2>3. \A r \in Queries : next'[r] \in 0 .. NTasks[r] /\ copy'[r] \in 0 .. faults'
    <3>. SUFFICES ASSUME NEW r \in Queries
                  PROVE  next'[r] \in 0 .. NTasks[r] /\ copy'[r] \in 0 .. faults'
      OBVIOUS
    <3>1. CASE r # q
      <4>1. Fault \/ UNCHANGED faults
        BY <1>3
      <4>2. next[r] \in 0 .. NTasks[r] /\ copy[r] \in 0 .. faults'
        BY <4>1, FaultType DEF IInv, TypeOK
      <4>. QED  BY <1>5, <3>1, <4>2
    <3>2. CASE r = q
      BY <1>1, <1>5, <3>2
    <3>. QED  BY <3>1, <3>2
  <2>4. faults' \in 0 .. MaxFaults
    BY <1>3, FaultType DEF IInv
  <2>. QED  BY <1>3, <2>1, <2>2, <2>3, <2>4 DEF IInv, TypeOK, work, client
<1>9. Scheduling'
  <2>. SUFFICES ASSUME NEW r \in Queries, spc'[r] \in {"idle", "set", "add"}
                PROVE  next'[r] < NTasks[r]
    BY <1>5 DEF Scheduling
  <2>1. CASE r # q
    BY <1>5, <2>1 DEF IInv, Scheduling
  <2>2. CASE r = q
    BY <1>1, <1>5, <2>2
  <2>. QED  BY <2>1, <2>2
<1>10. Waiting'
  <2>1. /\ Len(jobs') = Len(jobs) + 1 /\ Len(jobs) \in Nat /\ jobs'[Len(jobs) + 1] = e
        /\ \A i \in 1 .. Len(jobs) : jobs'[i] = jobs[i] /\ jobs[i] \in Task
    BY <1>3, AppendProperties, LenProperties, ElementOfSeq DEF IInv, TypeOK
  <2>2. /\ \A i \in 1 .. Len(jobs) : status[jobs[i]] = "queued" /\ Added(jobs[i])
        /\ \A i, j \in 1 .. Len(jobs) : jobs[i] = jobs[j] => i = j
        /\ \A t \in Task : status[t] # "queued" => Added(t)
    BY DEF IInv, Waiting
  <2>3. status' = status /\ status[e] = "queued"
    BY <1>3, <1>4, <2>2 DEF work
  <2>4. \A i \in 1 .. Len(jobs) : jobs[i] # e
    BY <1>4, <2>2
  <2>5. \A i \in 1 .. Len(jobs') : i = Len(jobs) + 1 \/ i \in 1 .. Len(jobs)
    BY <2>1
  <2>6. \A i \in 1 .. Len(jobs') : status'[jobs'[i]] = "queued" /\ Added(jobs[i])'
    <3>. SUFFICES ASSUME NEW i \in 1 .. Len(jobs')
                  PROVE  status'[jobs'[i]] = "queued" /\ Added(jobs[i])'
      OBVIOUS
    <3>1. CASE i = Len(jobs) + 1
      BY <1>7, <2>1, <2>3, <3>1 DEF Added
    <3>2. CASE i \in 1 .. Len(jobs)
      <4>1. jobs'[i] = jobs[i] /\ jobs[i] \in Task /\ status[jobs[i]] = "queued"
        BY <2>1, <2>2, <3>2
      <4>2. PICK t \in Task : t = jobs[i]
        BY <4>1
      <4>3. Added(t)'
        BY <1>6, <2>2, <3>2, <4>2 DEF Added
      <4>. QED  BY <2>3, <4>1, <4>2, <4>3 DEF Added
    <3>. QED  BY <2>5, <3>1, <3>2
  <2>7. \A i, j \in 1 .. Len(jobs') : jobs'[i] = jobs'[j] => i = j
    BY <2>1, <2>2, <2>4, <2>5
  <2>8. \A t \in Task : status'[t] # "queued" => Added(t)'
    BY <1>6, <2>2, <2>3
  <2>. QED  BY <2>6, <2>7, <2>8 DEF Waiting
<1>11. RunningHere' /\ Belongs'
  BY <1>3, Frames
<1>. QED  BY <1>8, <1>9, <1>10, <1>11 DEF IInv

WorkOK ==
    /\ status \in [Task -> {"queued", "running", "stored", "failed"}]
    /\ runner \in [Task -> Nodes \cup {None}]

\* The oldest task leaves the jobs stream, and is run or has failed.
LEMMA FirstJobLeaves ==
    ASSUME IInv, jobs # <<>>, jobs' = Tail(jobs), UNCHANGED <<next, copy>>,
           NEW st \in {"running", "failed"}, NEW n \in Nodes \cup {None},
           st = "running" <=> n # None, Becomes(Head(jobs), st, n)
    PROVE  jobs' \in Seq(Task) /\ WorkOK' /\ Waiting' /\ RunningHere'
<1>1. PICK t \in Task : t = Head(jobs)
  BY FirstJob DEF IInv
<1>2. /\ status' = [status EXCEPT ![t] = st] /\ runner' = [runner EXCEPT ![t] = n]
      /\ WorkOK
  BY <1>1 DEF Becomes, IInv, TypeOK, WorkOK
<1>3. /\ status'[t] = st /\ runner'[t] = n
      /\ \A u \in Task \ {t} : status'[u] = status[u] /\ runner'[u] = runner[u]
  BY <1>2 DEF WorkOK
<1>4. jobs' \in Seq(Task) /\ WorkOK'
  BY <1>2, FirstJob DEF IInv, WorkOK
<1>5. RunningHere'
  BY <1>3 DEF IInv, RunningHere
<1>6. Waiting'
  <2>1. /\ \A i \in 1 .. Len(jobs') : /\ i + 1 \in 1 .. Len(jobs) /\ jobs'[i] = jobs[i + 1]
                                      /\ jobs[i + 1] # t
        /\ Added(t)
    BY <1>1, FirstJob DEF IInv
  <2>2. \A i \in 1 .. Len(jobs) : jobs[i] \in Task /\ status[jobs[i]] = "queued" /\ Added(jobs[i])
    BY ElementOfSeq DEF IInv, TypeOK, Waiting
  <2>3. \A i \in 1 .. Len(jobs') : status'[jobs'[i]] = "queued"
    <3>. SUFFICES ASSUME NEW i \in 1 .. Len(jobs') PROVE status'[jobs'[i]] = "queued"
      OBVIOUS
    <3>1. PICK u \in Task : u = jobs[i + 1] /\ u = jobs'[i] /\ u # t /\ status[u] = "queued"
      BY <2>1, <2>2
    <3>. QED  BY <1>3, <3>1
  <2>4. \A i \in 1 .. Len(jobs') : Added(jobs[i])'
    BY <2>1, <2>2 DEF Added
  <2>5. \A i, j \in 1 .. Len(jobs') : jobs'[i] = jobs'[j] => i = j
    <3>. SUFFICES ASSUME NEW i \in 1 .. Len(jobs'), NEW j \in 1 .. Len(jobs'),
                         jobs'[i] = jobs'[j]
                  PROVE  i = j
      OBVIOUS
    <3>1. i + 1 = j + 1
      BY <2>1 DEF IInv, Waiting
    <3>2. i \in Nat /\ j \in Nat
      OBVIOUS
    <3>. QED  BY <3>1, <3>2
  <2>6. \A u \in Task : status'[u] # "queued" => Added(u)'
    BY <1>3, <2>1 DEF IInv, Waiting, Added
  <2>. QED  BY <2>3, <2>4, <2>5, <2>6 DEF Waiting
<1>. QED  BY <1>4, <1>5, <1>6

LEMMA TakeIInv == ASSUME IInv, NEW n \in Nodes, Take(n) PROVE IInv'
<1>1. /\ UNCHANGED <<query, header, entries, stream, client, deaths>>
      /\ jobs # <<>> /\ jobs' = Tail(jobs)
      /\ xdel' = [xdel EXCEPT ![n] = @ \cup {Head(jobs)}]
      /\ Fault \/ UNCHANGED faults
      /\ Becomes(Head(jobs), "running", n) \/ Becomes(Head(jobs), "failed", None)
  BY DEF Take
<1>2. n # None /\ n \in Nodes \cup {None} /\ None \in Nodes \cup {None}
  BY QueriesAssumption
<1>3. jobs' \in Seq(Task) /\ WorkOK' /\ Waiting' /\ RunningHere'
  <2>1. UNCHANGED <<next, copy>>
    BY <1>1 DEF query
  <2>2. CASE Becomes(Head(jobs), "running", n)
    BY <1>1, <1>2, <2>1, <2>2, FirstJobLeaves
  <2>3. CASE Becomes(Head(jobs), "failed", None)
    BY <1>1, <1>2, <2>1, <2>3, FirstJobLeaves
  <2>. QED  BY <1>1, <2>2, <2>3
<1>4. xdel' \in [Nodes -> SUBSET Task]
  BY <1>1, FirstJob DEF IInv, TypeOK
<1>5. TypeOK'
  BY <1>1, <1>3, <1>4, FaultType DEF IInv, TypeOK, WorkOK, query, client
<1>6. Scheduling' /\ Belongs'
  BY <1>1, Frames
<1>. QED  BY <1>3, <1>5, <1>6 DEF IInv

LEMMA DeathType ==
    ASSUME TypeOK, deaths < MaxDeaths, deaths' = deaths + 1
    PROVE  deaths' \in 0 .. MaxDeaths
BY BoundsAssumption DEF TypeOK

LEMMA LoseReadIInv == ASSUME IInv, LoseRead PROVE IInv'
<1>1. /\ UNCHANGED <<query, header, entries, xdel, stream, client, faults>>
      /\ jobs # <<>> /\ jobs' = Tail(jobs)
      /\ Becomes(Head(jobs), "failed", None)
      /\ deaths < MaxDeaths /\ deaths' = deaths + 1
  BY DEF LoseRead
<1>2. jobs' \in Seq(Task) /\ WorkOK' /\ Waiting' /\ RunningHere'
  <2>1. UNCHANGED <<next, copy>>
    BY <1>1 DEF query
  <2>. QED  BY <1>1, <2>1, FirstJobLeaves
<1>3. TypeOK'
  BY <1>1, <1>2, DeathType DEF IInv, TypeOK, WorkOK, query, client
<1>4. Scheduling' /\ Belongs'
  BY <1>1, Frames
<1>. QED  BY <1>2, <1>3, <1>4 DEF IInv

LEMMA XDelIInv == ASSUME IInv, NEW n \in Nodes, XDel(n) PROVE IInv'
<1>1. /\ UNCHANGED <<query, header, jobs, work, stream, client, faults, deaths>>
      /\ entries' \subseteq entries
      /\ \E T \in SUBSET xdel[n] : xdel' = [xdel EXCEPT ![n] = T]
  BY DEF XDel
<1>2. TypeOK'
  BY <1>1 DEF IInv, TypeOK, query, work, client
<1>3. Scheduling' /\ Waiting' /\ RunningHere' /\ Belongs'
  BY <1>1, Frames DEF query, work
<1>. QED  BY <1>2, <1>3 DEF IInv

\* A task that runs ends, or not yet.
LEMMA TaskEnds ==
    ASSUME IInv, NEW t \in Task, status[t] = "running", UNCHANGED <<next, copy, jobs>>,
           \/ UNCHANGED work
           \/ \E st \in {"stored", "failed"} : Becomes(t, st, None)
    PROVE  WorkOK' /\ Waiting' /\ RunningHere'
<1>1. CASE UNCHANGED work
  BY <1>1, Frames DEF IInv, TypeOK, WorkOK, work
<1>2. ASSUME NEW st \in {"stored", "failed"}, Becomes(t, st, None)
      PROVE  WorkOK' /\ Waiting' /\ RunningHere'
  <2>1. /\ status' = [status EXCEPT ![t] = st] /\ runner' = [runner EXCEPT ![t] = None]
        /\ WorkOK
    BY <1>2 DEF Becomes, IInv, TypeOK, WorkOK
  <2>2. WorkOK'
    BY <2>1 DEF WorkOK
  <2>3. /\ status'[t] = st /\ runner'[t] = None
        /\ \A u \in Task \ {t} : status'[u] = status[u] /\ runner'[u] = runner[u]
    BY <2>1 DEF WorkOK
  <2>4. RunningHere'
    BY <2>3 DEF IInv, RunningHere
  <2>5. \A i \in 1 .. Len(jobs) : jobs[i] \in Task /\ jobs[i] # t
    BY ElementOfSeq DEF IInv, TypeOK, Waiting
  <2>6. Waiting'
    BY <2>3, <2>5 DEF IInv, Waiting, Added
  <2>. QED  BY <2>2, <2>4, <2>6
<1>. QED  BY <1>1, <1>2

LEMMA StoreIInv == ASSUME IInv, NEW t \in Task, Store(t) PROVE IInv'
<1>1. /\ UNCHANGED <<query, header, queue, client, deaths>>
      /\ status[t] = "running"
      /\ stream' = [stream EXCEPT ![Pid(t)] = Append(@, Part(t))]
      /\ UNCHANGED work \/ Becomes(t, "stored", None)
      /\ Fault \/ UNCHANGED faults
  BY DEF Store
<1>2. WorkOK' /\ Waiting' /\ RunningHere'
  BY <1>1, TaskEnds DEF query, queue
<1>3. /\ Pid(t) \in Pids /\ Part(t) \in Owned(Pid(t)) /\ Part(t) \in Parts
      /\ stream[Pid(t)] \in Seq(Owned(Pid(t))) /\ stream \in [Pids -> Seq(Parts)]
  BY PartType DEF IInv, TypeOK, Belongs
<1>4. /\ Append(stream[Pid(t)], Part(t)) \in Seq(Owned(Pid(t)))
      /\ Append(stream[Pid(t)], Part(t)) \in Seq(Parts)
  BY <1>3, AppendProperties
<1>5. TypeOK'
  BY <1>1, <1>2, <1>3, <1>4, FaultType DEF IInv, TypeOK, WorkOK, query, queue, client
<1>6. Scheduling'
  BY <1>1, Frames
<1>7. Belongs'
  <2>1. \A p \in Pids : stream'[p] \in Seq(Owned(p))
    BY <1>1, <1>3, <1>4 DEF IInv, Belongs
  <2>. QED  BY <1>1, <2>1 DEF IInv, Belongs, client
<1>. QED  BY <1>2, <1>5, <1>6, <1>7 DEF IInv

LEMMA FailTaskIInv == ASSUME IInv, NEW t \in Task, FailTask(t) PROVE IInv'
<1>1. /\ UNCHANGED <<query, header, queue, stream, client, deaths>>
      /\ status[t] = "running" /\ Becomes(t, "failed", None) /\ Fault
  BY DEF FailTask
<1>2. WorkOK' /\ Waiting' /\ RunningHere'
  BY <1>1, TaskEnds DEF query, queue
<1>3. TypeOK'
  BY <1>1, <1>2, FaultType DEF IInv, TypeOK, WorkOK, query, queue, client
<1>4. Scheduling' /\ Belongs'
  BY <1>1, Frames
<1>. QED  BY <1>2, <1>3, <1>4 DEF IInv

LEMMA DieIInv == ASSUME IInv, NEW n \in Nodes, Die(n) PROVE IInv'
<1>1. /\ UNCHANGED <<query, header, jobs, entries, stream, client, faults>>
      /\ deaths < MaxDeaths /\ deaths' = deaths + 1
      /\ status' = [t \in Task |-> IF t \in RunBy(n) THEN "failed" ELSE status[t]]
      /\ runner' = [t \in Task |-> IF t \in RunBy(n) THEN None ELSE runner[t]]
      /\ xdel' = [xdel EXCEPT ![n] = {}]
  BY DEF Die
<1>2. n # None
  BY QueriesAssumption
<1>3. \A t \in Task : t \in RunBy(n) => status[t] = "running"
  BY <1>2 DEF IInv, RunningHere, RunBy
<1>4. WorkOK'
  BY <1>1 DEF IInv, TypeOK, WorkOK
<1>5. RunningHere'
  BY <1>1 DEF IInv, RunningHere
<1>6. Waiting'
  <2>1. \A i \in 1 .. Len(jobs) : jobs[i] \in Task /\ jobs[i] \notin RunBy(n)
    BY <1>3, ElementOfSeq DEF IInv, TypeOK, Waiting
  <2>2. \A i \in 1 .. Len(jobs) : status'[jobs[i]] = "queued"
    BY <1>1, <2>1 DEF IInv, Waiting
  <2>3. \A t \in Task : status'[t] # "queued" => Added(t)
    BY <1>1, <1>3 DEF IInv, Waiting
  <2>. QED  BY <1>1, <2>2, <2>3 DEF IInv, Waiting, Added, query
<1>7. TypeOK'
  BY <1>1, <1>4, DeathType DEF IInv, TypeOK, WorkOK, query, client
<1>8. Scheduling' /\ Belongs'
  BY <1>1, Frames
<1>. QED  BY <1>5, <1>6, <1>7, <1>8 DEF IInv

LEMMA OpenIInv == ASSUME IInv, NEW q \in Queries, Open(q) PROVE IInv'
<1>1. /\ UNCHANGED <<query, header, queue, work, stream, got, faults, deaths>>
      /\ header[PidOf[q]] # None /\ PidOf[q] \in Pids
      /\ head' = [head EXCEPT ![q] = header[PidOf[q]]]
  BY QueriesAssumption DEF Open
<1>2. TypeOK'
  BY <1>1 DEF IInv, TypeOK, query, queue, work
<1>3. Scheduling' /\ Waiting' /\ RunningHere'
  BY <1>1, Frames DEF query, queue, work
<1>4. Belongs'
  BY <1>1 DEF IInv, TypeOK, Belongs
<1>. QED  BY <1>2, <1>3, <1>4 DEF IInv

LEMMA ReadPartsIInv == ASSUME IInv, NEW q \in Queries, ReadParts(q) PROVE IInv'
<1>1. /\ UNCHANGED <<query, header, queue, work, stream, head, faults, deaths>>
      /\ PidOf[q] \in Pids
      /\ got' = [got EXCEPT ![q] = stream[PidOf[q]]]
  BY QueriesAssumption DEF ReadParts
<1>2. TypeOK'
  BY <1>1 DEF IInv, TypeOK, query, queue, work
<1>3. Scheduling' /\ Waiting' /\ RunningHere'
  BY <1>1, Frames DEF query, queue, work
<1>4. Belongs'
  BY <1>1 DEF IInv, TypeOK, Belongs
<1>. QED  BY <1>2, <1>3, <1>4 DEF IInv

LEMMA NextIInv == IInv /\ [Next]_vars => IInv'
<1>. SUFFICES ASSUME IInv, [Next]_vars PROVE IInv'
  OBVIOUS
<1>1. ASSUME Work PROVE IInv'
  BY <1>1, SetHeaderIInv, AddTaskIInv, OpenIInv, ReadPartsIInv, TakeIInv, XDelIInv,
     StoreIInv, FailTaskIInv
  DEF Work
<1>2. ASSUME NEW q \in Queries, Promise(q) PROVE IInv'
  BY <1>2, PromiseIInv
<1>3. ASSUME NEW q \in Queries, ScheduleFails(q) PROVE IInv'
  BY <1>3, ScheduleFailsIInv
<1>4. CASE LoseRead  BY <1>4, LoseReadIInv
<1>5. ASSUME NEW n \in Nodes, Die(n) PROVE IInv'
  BY <1>5, DieIInv
<1>6. CASE UNCHANGED vars
  <2>1. TypeOK'
    BY <1>6 DEF IInv, TypeOK, vars, query, queue, work, client
  <2>2. Scheduling' /\ Waiting' /\ RunningHere' /\ Belongs'
    BY <1>6, Frames DEF vars, query, queue, work
  <2>. QED  BY <2>1, <2>2 DEF IInv
<1>. QED  BY <1>1, <1>2, <1>3, <1>4, <1>5, <1>6 DEF Next

LEMMA Invariance == Spec => []IInv
BY InitIInv, NextIInv, PTL DEF Spec

\* Every variable keeps its type: the scheduler's index stays in its plan, and streams
\* hold parts of plans alone (scheduler.go 36-72, fetch.go 296-310).
THEOREM TypeCorrect == Spec => []TypeOK
<1>1. IInv => TypeOK  BY DEF IInv
<1>. QED  BY <1>1, Invariance, PTL
-----------------------------------------------------------------------------
LEMMA InitOutcome == Init => Outcome!Init
BY DEF Init, Outcome!Init

\* What is done to the tasks in one step is a step of JobOutcome, or nothing.
LEMMA StepOutcome == IInv /\ [Next]_vars => [Outcome!Next]_status
<1>. SUFFICES ASSUME IInv, [Next]_vars PROVE Outcome!Next \/ status' = status
  OBVIOUS
<1>1. ASSUME NEW n \in Nodes, Take(n) PROVE Outcome!Next
  <2>1. PICK t \in Task : t = Head(jobs)
    BY <1>1, FirstJob DEF IInv, Take
  <2>2. /\ status[t] = "queued"
        /\ \/ status' = [status EXCEPT ![t] = "running"]
           \/ status' = [status EXCEPT ![t] = "failed"]
    BY <1>1, <2>1, FirstJob DEF IInv, Take, Becomes
  <2>3. Outcome!Take(t) \/ Outcome!Drop(t)
    BY <2>2 DEF Outcome!Take, Outcome!Drop
  <2>. QED  BY <2>3 DEF Outcome!Next
<1>2. ASSUME LoseRead PROVE Outcome!Next
  <2>1. PICK t \in Task : t = Head(jobs)
    BY <1>2, FirstJob DEF IInv, LoseRead
  <2>2. status[t] = "queued" /\ status' = [status EXCEPT ![t] = "failed"]
    BY <1>2, <2>1, FirstJob DEF IInv, LoseRead, Becomes
  <2>3. Outcome!Drop(t)
    BY <2>2 DEF Outcome!Drop
  <2>. QED  BY <2>3 DEF Outcome!Next
<1>3. ASSUME NEW t \in Task, Store(t) PROVE Outcome!Next \/ status' = status
  <2>1. CASE status' = [status EXCEPT ![t] = "stored"]
    <3>1. Outcome!Store(t)
      BY <1>3, <2>1 DEF Store, Outcome!Store
    <3>. QED  BY <3>1 DEF Outcome!Next
  <2>. QED  BY <1>3, <2>1 DEF Store, Becomes, work
<1>4. ASSUME NEW t \in Task, FailTask(t) PROVE Outcome!Next
  <2>1. /\ status[t] = "running" /\ status' = [status EXCEPT ![t] = "failed"]
        /\ status \in [Task -> {"queued", "running", "stored", "failed"}]
    BY <1>4 DEF FailTask, Becomes, IInv, TypeOK
  <2>2. status' = [u \in Task |-> IF u \in {t} THEN "failed" ELSE status[u]]
    BY <2>1
  <2>3. Outcome!Fail({t}) /\ {t} \in SUBSET Task
    BY <2>1, <2>2 DEF Outcome!Fail, Outcome!Running
  <2>. QED  BY <2>3 DEF Outcome!Next
<1>5. ASSUME NEW n \in Nodes, Die(n) PROVE Outcome!Next
  <2>1. RunBy(n) \in SUBSET Task /\ RunBy(n) \subseteq Outcome!Running
    BY QueriesAssumption DEF RunBy, IInv, RunningHere, Outcome!Running
  <2>2. Outcome!Fail(RunBy(n))
    BY <1>5, <2>1 DEF Die, Outcome!Fail
  <2>. QED  BY <2>1, <2>2 DEF Outcome!Next
<1>6. \/ \E n \in Nodes : Take(n) \/ Die(n)
      \/ \E t \in Task : Store(t) \/ FailTask(t)
      \/ LoseRead
      \/ status' = status
  BY DEF Next, Work, vars, work, Promise, SetHeader, AddTask, ScheduleFails, XDel, Open,
         ReadParts
<1>. QED  BY <1>1, <1>2, <1>3, <1>4, <1>5, <1>6

\* For any number of queries, requests, nodes, repeated calls and deaths: a task is taken
\* at most once and ends at most once, as JobOutcome promises (NoAck, main.go 218-228).
THEOREM PipelineKeepsOutcome == Spec => OutcomeSafety
BY Invariance, InitOutcome, StepOutcome, PTL DEF Spec, OutcomeSafety, Outcome!Safety
-----------------------------------------------------------------------------
\* Every HTTP request asks for one process, whose pid nobody else has.
OneProcessPerPid == \A q, r \in Queries : PidOf[q] = PidOf[r] => q = r

\* A plan has as many different parts as it has tasks.
LEMMA PartsCounted ==
    ASSUME NEW q \in Queries
    PROVE  IsFiniteSet(PartsOf[q]) /\ Cardinality(PartsOf[q]) = NTasks[q]
<1>. DEFINE I == 0 .. NTasks[q] - 1
            f == [i \in I |-> <<q, i>>]
<1>1. NTasks[q] \in Nat
  BY QueriesAssumption
<1>2. PartsOf[q] = {<<q, i>> : i \in I}
  <2>1. TasksOf[q] = [query : {q}, index : I, copy : 0 .. MaxFaults]
    BY DEF TasksOf
  <2>2. PartsOf[q] = {<<t.query, t.index>> : t \in TasksOf[q]}
    BY DEF PartsOf, Part
  <2>3. ASSUME NEW i \in I PROVE <<q, i>> \in PartsOf[q]
    <3>1. [query |-> q, index |-> i, copy |-> 0] \in TasksOf[q]
      BY <2>1, BoundsAssumption
    <3>. QED  BY <2>2, <3>1
  <2>4. ASSUME NEW t \in TasksOf[q] PROVE t.query = q /\ t.index \in I
    <3>1. t \in [query : {q}, index : I, copy : 0 .. MaxFaults]
      BY <2>1
    <3>. QED  BY <3>1
  <2>. QED  BY <2>2, <2>3, <2>4
<1>3. f \in Bijection(I, PartsOf[q])
  BY <1>2 DEF Bijection, Injection, Surjection, IsInjective
<1>4. IsFiniteSet(I) /\ Cardinality(I) = NTasks[q]
  <2>1. 0 \in Int /\ NTasks[q] - 1 \in Int /\ ~(0 > NTasks[q] - 1)
    BY QueriesAssumption
  <2>2. Cardinality(I) = NTasks[q] - 1 - 0 + 1 /\ IsFiniteSet(I)
    BY <2>1, FS_Interval
  <2>. QED  BY <1>1, <2>2
<1>. QED  BY <1>3, <1>4, FS_Bijection DEF ExistsBijection

\* As many different parts as there are tasks are all of them.
LEMMA CountingSuffices ==
    ASSUME NEW q \in Queries, NEW s \in Seq(PartsOf[q]), IsInjective(s), Len(s) >= NTasks[q]
    PROVE  Range(s) = PartsOf[q]
<1>1. /\ Len(s) \in Nat /\ s \in [1 .. Len(s) -> PartsOf[q]]
      /\ IsFiniteSet(1 .. Len(s)) /\ Cardinality(1 .. Len(s)) = Len(s)
  <2>1. Len(s) \in Nat /\ s \in [1 .. Len(s) -> PartsOf[q]]
    BY LenProperties
  <2>2. 1 \in Int /\ Len(s) \in Int /\ ~(1 > Len(s))
    BY <2>1, QueriesAssumption
  <2>3. IsFiniteSet(1 .. Len(s)) /\ Cardinality(1 .. Len(s)) = Len(s) - 1 + 1
    BY <2>2, FS_Interval
  <2>. QED  BY <2>1, <2>3
<1>2. s \in Injection(1 .. Len(s), PartsOf[q])
  BY <1>1 DEF Injection
<1>3. /\ Cardinality(1 .. Len(s)) <= Cardinality(PartsOf[q])
      /\ Cardinality(1 .. Len(s)) = Cardinality(PartsOf[q])
            <=> s \in Surjection(1 .. Len(s), PartsOf[q])
  BY <1>2, PartsCounted, FS_Injection
<1>4. s \in Surjection(1 .. Len(s), PartsOf[q])
  BY <1>1, <1>3, PartsCounted, QueriesAssumption
<1>. QED  BY <1>1, <1>4 DEF Surjection, Range

\* For any number of queries, nodes, repeated calls and deaths, as long as every request
\* asks for one process: a client whose stream ends has its own parts, and all of them
\* unless one came twice (collectResult, result.go 60-90).
THEOREM ClientsGetTheirOwn == OneProcessPerPid => (Spec => []OnlyOwnParts)
<1>. SUFFICES ASSUME OneProcessPerPid PROVE Spec => []OnlyOwnParts
  OBVIOUS
<1>1. \A q \in Queries : Owned(PidOf[q]) = PartsOf[q]
  BY DEF OneProcessPerPid, Owned
<1>2. ASSUME IInv PROVE OnlyOwnParts
  <2>. SUFFICES ASSUME NEW q \in Queries, Complete(q)
                PROVE  /\ Range(got[q]) \subseteq PartsOf[q]
                       /\ IsInjective(got[q]) => Range(got[q]) = PartsOf[q]
    BY DEF OnlyOwnParts
  <2>1. head[q] \in Queries /\ PidOf[head[q]] = PidOf[q] /\ Len(got[q]) >= NTasks[head[q]]
    BY <1>2 DEF IInv, TypeOK, Belongs, Complete
  <2>2. Len(got[q]) >= NTasks[q]
    BY <2>1 DEF OneProcessPerPid
  <2>3. got[q] \in Seq(PartsOf[q])
    BY <1>1, <1>2 DEF IInv, Belongs
  <2>4. Range(got[q]) \subseteq PartsOf[q]
    BY <2>3, RangeOfSeq
  <2>. QED  BY <2>2, <2>3, <2>4, CountingSuffices
<1>. QED  BY <1>2, Invariance, PTL
=============================================================================
