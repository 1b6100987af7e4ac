-------------------------- MODULE FetchPool_proofs --------------------------
(***************************************************************************)
(* What FetchPool guarantees for every set of tasks, every number of       *)
(* fragments and every -j.  The argument is conservation: a fragment of a  *)
(* running task is in exactly one place - not yet enqueued, on requests,   *)
(* with one worker, on one of the two channels, or added - so gather's     *)
(* count is the number of distinct fragments, and no channel of a task can *)
(* hold more than the task's fragments.                                    *)
(***************************************************************************)
EXTENDS FetchPool, FiniteSetTheorems, SequenceTheorems, TLAPS

Queued == {requests[k] : k \in 1 .. Len(requests)}
Pooled == {held[w] : w \in Busy}

\* No request is twice on the channel, and no two workers hold the same one.
Unique ==
    /\ \A j, k \in 1 .. Len(requests) : requests[j] = requests[k] => j = k
    /\ \A v, w \in Busy : held[v] = held[w] => v = w
    /\ Queued \cap Pooled = {}

Indexed ==
    /\ \A r \in Queued \cup Pooled : r.index \in Index(r.task)
    /\ \A t \in Tasks : fragments[t] \cup errors[t] \cup added[t] \subseteq Index(t)

Apart ==
    /\ \A r \in Queued \cup Pooled :
          r.index \notin fragments[r.task] \cup errors[r.task] \cup added[r.task]
    /\ \A t \in Tasks : /\ fragments[t] \cap errors[t] = {}
                        /\ fragments[t] \cap added[t] = {}
                        /\ errors[t] \cap added[t] = {}

\* What enqueue() has not sent yet is nowhere else.
Ahead ==
    /\ cur # NoTask => next <= NFrags[cur] /\ gpc[cur] # "none"
    /\ \A r \in Queued \cup Pooled : r.task = cur => r.index < next
    /\ cur # NoTask => \A i \in fragments[cur] \cup errors[cur] \cup added[cur] : i < next

Untouched ==
    /\ \A r \in Queued \cup Pooled : gpc[r.task] # "none"
    /\ \A t \in Tasks : gpc[t] = "none" =>
          fragments[t] = {} /\ errors[t] = {} /\ added[t] = {} /\ stored[t] = {}

Counted ==
    /\ \A t \in Tasks : count[t] = Cardinality(added[t])
    /\ \A t \in Tasks : gpc[t] \in {"write", "expire"} => added[t] = Index(t)
    /\ \A t \in Tasks : gpc[t] \in {"gather", "drain", "write"} => stored[t] = {}

IInv == TypeOK /\ Unique /\ Indexed /\ Apart /\ Ahead /\ Untouched /\ Counted /\ PartsComplete
-----------------------------------------------------------------------------
\* The indices of a task are finitely many, and there are NFrags of them.
LEMMA IndexFinite ==
    ASSUME NEW t \in Tasks
    PROVE  IsFiniteSet(Index(t)) /\ Cardinality(Index(t)) = NFrags[t]
<1>1. NFrags[t] - 1 \in Int /\ 0 <= NFrags[t] - 1 /\ NFrags[t] - 1 - 0 + 1 = NFrags[t]
  BY NFragsAssumption
<1>2. /\ IsFiniteSet(0 .. NFrags[t] - 1)
      /\ Cardinality(0 .. NFrags[t] - 1) = NFrags[t] - 1 - 0 + 1
  BY <1>1, FS_Interval
<1>3. QED  BY <1>1, <1>2 DEF Index

\* A set of a task's indices that misses one of them is smaller than the task.
LEMMA RoomForOne ==
    ASSUME NEW t \in Tasks, NEW S \in SUBSET Index(t), NEW i \in Index(t), i \notin S
    PROVE  Cardinality(S) < NFrags[t]
<1>1. IsFiniteSet(S) /\ Cardinality(S) <= NFrags[t] /\ Cardinality(S) \in Nat
  BY IndexFinite, FS_Subset, FS_CardinalityType
<1>2. Cardinality(S) # NFrags[t]  BY IndexFinite, FS_Subset
<1>3. QED  BY <1>1, <1>2, NFragsAssumption

\* What a receive from the requests channel does to the set of queued requests.
LEMMA ReceiveQueued ==
    ASSUME requests \in Seq(Request), requests # <<>>, requests' = Tail(requests), Unique
    PROVE  /\ Head(requests) \in Queued
           /\ Queued' = Queued \ {Head(requests)}
           /\ \A j, k \in 1 .. Len(requests') : requests'[j] = requests'[k] => j = k
<1>1. /\ Len(requests) \in Nat /\ Len(requests) >= 1
      /\ Head(requests) = requests[1]
      /\ Len(requests') = Len(requests) - 1
      /\ \A k \in 1 .. Len(requests') : requests'[k] = requests[k + 1]
  BY HeadTailProperties
<1>2. Head(requests) \in Queued  BY <1>1 DEF Queued
<1>3. Queued' \subseteq Queued \ {Head(requests)}
  BY <1>1 DEF Queued, Unique
<1>4. Queued \ {Head(requests)} \subseteq Queued'
  <2>1. SUFFICES ASSUME NEW k \in 1 .. Len(requests), k # 1
                 PROVE  requests[k] \in Queued'
    BY <1>1 DEF Queued
  <2>2. k - 1 \in 1 .. Len(requests') /\ requests'[k - 1] = requests[k]  BY <1>1, <2>1
  <2>3. QED  BY <2>2 DEF Queued
<1>5. \A j, k \in 1 .. Len(requests') : requests'[j] = requests'[k] => j = k
  <2>1. SUFFICES ASSUME NEW j \in 1 .. Len(requests'), NEW k \in 1 .. Len(requests'),
                        requests'[j] = requests'[k]
                 PROVE  j = k
    OBVIOUS
  <2>2. requests[j + 1] = requests[k + 1] /\ {j + 1, k + 1} \subseteq 1 .. Len(requests)
    BY <1>1, <2>1
  <2>3. QED  BY <2>1, <2>2 DEF Unique
<1>6. QED  BY <1>2, <1>3, <1>4, <1>5

\* What a send on the requests channel does to the set of queued requests.
LEMMA EnqueueQueued ==
    ASSUME requests \in Seq(Request), NEW r \in Request, r \notin Queued,
           requests' = Append(requests, r), Unique
    PROVE  /\ Queued' = Queued \cup {r}
           /\ \A j, k \in 1 .. Len(requests') : requests'[j] = requests'[k] => j = k
<1>1. /\ Len(requests) \in Nat
      /\ Len(requests') = Len(requests) + 1
      /\ \A k \in 1 .. Len(requests) : requests'[k] = requests[k]
      /\ requests'[Len(requests) + 1] = r
  BY AppendProperties
<1>2. Queued' = Queued \cup {r}  BY <1>1 DEF Queued
<1>3. \A j, k \in 1 .. Len(requests') : requests'[j] = requests'[k] => j = k
  BY <1>1 DEF Queued, Unique
<1>4. QED  BY <1>2, <1>3

\* Everything that is queued or with a worker is a request.
LEMMA QueuedPooledType ==
    ASSUME TypeOK
    PROVE  \A r \in Queued \cup Pooled : r \in Request /\ r.task \in Tasks /\ r.index \in Nat
<1>1. \A k \in 1 .. Len(requests) : requests[k] \in Request
  BY ElementOfSeq DEF TypeOK
<1>2. Queued \cup Pooled \subseteq Request  BY <1>1 DEF Queued, Pooled, TypeOK
<1>3. QED  BY <1>2 DEF Request
-----------------------------------------------------------------------------
THEOREM InitIInv == Init => IInv
<1>1. SUFFICES ASSUME Init PROVE IInv  OBVIOUS
<1>2. Busy = {} /\ Pooled = {} /\ Queued = {}
  BY <1>1 DEF Init, Busy, Pooled, Queued
<1>3. TypeOK
  BY <1>1, <1>2, JobsAssumption, MaxCrashesAssumption DEF Init, TypeOK, Request
<1>4. Unique /\ Indexed /\ Apart /\ Ahead /\ Untouched /\ PartsComplete
  BY <1>1, <1>2 DEF Init, Unique, Indexed, Apart, Ahead, Untouched, PartsComplete
<1>5. Counted  BY <1>1, FS_EmptySet DEF Init, Counted
<1>6. QED  BY <1>3, <1>4, <1>5 DEF IInv
-----------------------------------------------------------------------------
\* Steps of main.
LEMMA ReadStep ==
    ASSUME IInv, NEW t \in Tasks, Read(t)
    PROVE  IInv'
<1> USE DEF IInv
<1>1. Queued' = Queued /\ Pooled' = Pooled /\ Busy' = Busy
  BY DEF Read, Queued, Pooled, Busy, pool, sinks
<1>2. TypeOK'  BY DEF TypeOK, Read, pool, sinks, Busy
<1>3. Unique'  BY <1>1 DEF Unique, Read, pool
<1>4. Indexed'  BY <1>1 DEF Indexed, Read, sinks
<1>5. Apart'  BY <1>1 DEF Apart, Read, sinks
<1>6. Ahead'
  <2>1. cur' = t /\ next' = 0 /\ gpc[t] = "none" /\ gpc'[t] = "gather"
    BY DEF Read, TypeOK
  <2>2. \A r \in Queued' \cup Pooled' : r.task # t  BY <1>1, <2>1 DEF Untouched
  <2>3. fragments'[t] \cup errors'[t] \cup added'[t] = {}
    BY <2>1 DEF Untouched, Read, sinks
  <2>4. next' <= NFrags[cur'] /\ gpc'[cur'] # "none"  BY <2>1, NFragsAssumption
  <2>5. \A i \in fragments'[cur'] \cup errors'[cur'] \cup added'[cur'] : i < next'
    BY <2>1, <2>3
  <2>6. QED  BY <2>1, <2>2, <2>4, <2>5 DEF Ahead
<1>7. Untouched'  BY <1>1 DEF Untouched, TypeOK, Read, sinks
<1>8. Counted'  BY DEF Counted, Untouched, TypeOK, Read
<1>9. PartsComplete'  BY DEF PartsComplete, Read, Index
<1>10. QED  BY <1>2, <1>3, <1>4, <1>5, <1>6, <1>7, <1>8, <1>9

LEMMA ReadBadStep ==
    ASSUME IInv, NEW t \in Tasks, ReadBad(t)
    PROVE  IInv'
<1> USE DEF IInv
<1>1. Queued' = Queued /\ Pooled' = Pooled /\ Busy' = Busy
  BY DEF ReadBad, Queued, Pooled, Busy, pool, sinks
<1>2. TypeOK'  BY DEF TypeOK, ReadBad, pool, sinks, mainVars, Busy
<1>3. Unique' /\ Indexed' /\ Apart'
  BY <1>1 DEF Unique, Indexed, Apart, ReadBad, pool, sinks
<1>4. Ahead'  BY <1>1, NoTaskAssumption DEF Ahead, TypeOK, ReadBad, sinks, mainVars
<1>5. Untouched'  BY <1>1 DEF Untouched, TypeOK, ReadBad, sinks
<1>6. Counted'  BY DEF Counted, TypeOK, ReadBad
<1>7. PartsComplete'  BY DEF PartsComplete, ReadBad, Index
<1>8. QED  BY <1>2, <1>3, <1>4, <1>5, <1>6, <1>7

LEMMA EnqueueStep ==
    ASSUME IInv, Enqueue
    PROVE  IInv'
<1> DEFINE r == [task |-> cur, index |-> next]
<1> USE DEF IInv
<1>1. r \in Request /\ cur \in Tasks /\ next \in Nat
  BY NoTaskAssumption DEF Enqueue, TypeOK, Request
<1>2. r \notin Queued \cup Pooled
  <2>1. SUFFICES ASSUME r \in Queued \cup Pooled PROVE FALSE  OBVIOUS
  <2>2. r.index < next  BY <2>1 DEF Ahead
  <2>3. QED  BY <1>1, <2>2
<1>3. requests' = Append(requests, r)  BY DEF Enqueue
<1>4. /\ Queued' = Queued \cup {r}
      /\ \A j, k \in 1 .. Len(requests') : requests'[j] = requests'[k] => j = k
  BY <1>1, <1>2, <1>3, EnqueueQueued DEF TypeOK
<1>5. Pooled' = Pooled /\ Busy' = Busy  BY DEF Enqueue, pool, Pooled, Busy
<1> HIDE DEF r
<1>6. /\ r.task = cur /\ r.index = next
  BY DEF r
<1>7. TypeOK'
  <2>1. requests' \in Seq(Request) /\ Len(requests') = Len(requests) + 1
    BY <1>1, <1>3, AppendProperties DEF TypeOK
  <2>2. QED  BY <1>1, <2>1, JobsAssumption DEF TypeOK, Enqueue, pool, sinks, gathers, Busy
<1>8. Unique'  BY <1>2, <1>4, <1>5 DEF Unique, Enqueue, pool
<1>9. r.index \in Index(r.task)
  BY <1>1, <1>6, NFragsAssumption DEF Index, Enqueue
<1>10. Indexed'  BY <1>4, <1>5, <1>9 DEF Indexed, Enqueue, sinks, gathers
<1>11. r.index \notin fragments[r.task] \cup errors[r.task] \cup added[r.task]
  BY <1>1, <1>6 DEF Ahead, Enqueue
<1>12. Apart'  BY <1>4, <1>5, <1>11 DEF Apart, Enqueue, sinks, gathers
<1>13. Ahead'
  BY <1>1, <1>4, <1>5, <1>6, NFragsAssumption
  DEF Ahead, Indexed, Index, Enqueue, sinks, gathers, TypeOK, Request
<1>14. Untouched'  BY <1>4, <1>5, <1>6, <1>1 DEF Untouched, Ahead, Enqueue, sinks, gathers
<1>15. Counted' /\ PartsComplete'
  BY DEF Counted, PartsComplete, Enqueue, gathers, Index
<1>16. QED  BY <1>7, <1>8, <1>10, <1>12, <1>13, <1>14, <1>15

LEMMA EnqueueReturnStep ==
    ASSUME IInv, EnqueueReturn
    PROVE  IInv'
<1> USE DEF IInv
<1>1. Queued' = Queued /\ Pooled' = Pooled /\ Busy' = Busy
  BY DEF EnqueueReturn, Queued, Pooled, Busy, pool, sinks
<1>2. TypeOK'  BY DEF TypeOK, EnqueueReturn, pool, sinks, gathers, Busy
<1>3. Unique' /\ Indexed' /\ Apart'
  BY <1>1 DEF Unique, Indexed, Apart, EnqueueReturn, pool, sinks, gathers
<1>4. Ahead'
  <2>1. \A r \in Queued \cup Pooled : r.task \in Tasks  BY QueuedPooledType
  <2>2. QED  BY <1>1, <2>1, NoTaskAssumption DEF Ahead, EnqueueReturn
<1>5. Untouched' /\ Counted' /\ PartsComplete'
  BY <1>1 DEF Untouched, Counted, PartsComplete, EnqueueReturn, sinks, gathers, Index
<1>6. QED  BY <1>2, <1>3, <1>4, <1>5
-----------------------------------------------------------------------------
\* Steps of a worker.
LEMMA ReceiveStep ==
    ASSUME IInv, NEW w \in Workers, Receive(w)
    PROVE  IInv'
<1> DEFINE r == Head(requests)
<1> USE DEF IInv
<1>1. /\ r \in Queued
      /\ Queued' = Queued \ {r}
      /\ \A j, k \in 1 .. Len(requests') : requests'[j] = requests'[k] => j = k
  BY ReceiveQueued DEF TypeOK, Receive
<1>2. r \in Request  BY <1>1, QueuedPooledType
<1>3. /\ Len(requests') = Len(requests) - 1
      /\ requests' \in Seq(Request)
      /\ Len(requests) \in Nat
  BY HeadTailProperties DEF TypeOK, Receive
<1> HIDE DEF r
<1>4. held' = [held EXCEPT ![w] = r] /\ wpc' = [wpc EXCEPT ![w] = "fetch"]
  BY DEF Receive, r
<1>5. w \notin Busy /\ Busy' = Busy \cup {w}  BY <1>4 DEF Busy, TypeOK, Receive
<1>6. held'[w] = r /\ \A v \in Busy : held'[v] = held[v]
  BY <1>4, <1>5 DEF TypeOK, Busy
<1>7. Pooled' = Pooled \cup {r}  BY <1>5, <1>6 DEF Pooled
<1>8. TypeOK'
  BY <1>2, <1>3, <1>4, <1>5, <1>6, JobsAssumption DEF TypeOK, Receive, sinks, gathers, mainVars
<1>9. Unique'
  <2>1. \A v \in Busy : held[v] # r  BY <1>1 DEF Unique, Pooled
  <2>2. QED  BY <1>1, <1>5, <1>6, <1>7, <2>1 DEF Unique
<1>10. Queued' \cup Pooled' = Queued \cup Pooled  BY <1>1, <1>7
<1>11. Indexed' /\ Apart' /\ Ahead' /\ Untouched' /\ Counted' /\ PartsComplete'
  BY <1>10 DEF Indexed, Apart, Ahead, Untouched, Counted, PartsComplete, Index,
               Receive, sinks, gathers, mainVars
<1>12. QED  BY <1>8, <1>9, <1>11

LEMMA FetchStep ==
    ASSUME IInv, NEW w \in Workers, Fetch(w)
    PROVE  IInv'
<1> USE DEF IInv
<1>1. Busy' = Busy  BY DEF Fetch, Busy, TypeOK
<1>2. Queued' = Queued /\ Pooled' = Pooled  BY <1>1 DEF Fetch, Queued, Pooled
<1>3. TypeOK'  BY <1>1 DEF TypeOK, Fetch, sinks, gathers, mainVars
<1>4. Unique'  BY <1>1, <1>2 DEF Unique, Fetch
<1>5. Indexed' /\ Apart' /\ Ahead' /\ Untouched' /\ Counted' /\ PartsComplete'
  BY <1>2 DEF Indexed, Apart, Ahead, Untouched, Counted, PartsComplete, Index,
              Fetch, sinks, gathers, mainVars
<1>6. QED  BY <1>3, <1>4, <1>5

\* A worker that has sent holds nothing; what it held is nowhere else.
LEMMA WorkerDone ==
    ASSUME IInv, NEW w \in Busy,
           wpc' = [wpc EXCEPT ![w] = "receive"],
           held' = [held EXCEPT ![w] = NoRequest],
           UNCHANGED requests
    PROVE  /\ Queued' = Queued
           /\ Pooled' = Pooled \ {held[w]}
           /\ Unique'
           /\ held[w] \in Pooled /\ held[w] \in Request
           /\ Busy' = Busy \ {w}
           /\ \A v \in Busy' : held'[v] = held[v]
<1> USE DEF IInv
<1>1. Busy' = Busy \ {w}  BY DEF Busy, TypeOK
<1>2. \A v \in Busy' : held'[v] = held[v]  BY <1>1 DEF Busy, TypeOK
<1>3. Queued' = Queued  BY DEF Queued
<1>4. Pooled' = Pooled \ {held[w]}  BY <1>1, <1>2 DEF Pooled, Unique
<1>5. Unique'  BY <1>1, <1>2, <1>3, <1>4 DEF Unique
<1>6. held[w] \in Pooled /\ held[w] \in Request  BY DEF Pooled, TypeOK
<1>7. QED  BY <1>1, <1>2, <1>3, <1>4, <1>5, <1>6

LEMMA SendFragmentStep ==
    ASSUME IInv, NEW w \in Workers, SendFragment(w)
    PROVE  IInv'
<1> DEFINE r == held[w]
<1> USE DEF IInv
<1>1. w \in Busy  BY DEF Busy, SendFragment
<1>2. /\ Queued' = Queued
      /\ Pooled' = Pooled \ {r}
      /\ Unique'
      /\ r \in Pooled /\ r \in Request
      /\ Busy' = Busy \ {w}
      /\ \A v \in Busy' : held'[v] = held[v]
  BY <1>1, WorkerDone DEF SendFragment
<1>3. r.task \in Tasks /\ r.index \in Nat  BY <1>2 DEF Request
<1>4. /\ fragments'[r.task] = fragments[r.task] \cup {r.index}
      /\ \A t \in Tasks : t # r.task => fragments'[t] = fragments[t]
      /\ fragments' \in [Tasks -> SUBSET Nat]
  BY <1>3 DEF SendFragment, TypeOK
<1>5. r \notin Queued /\ r \notin Pooled'  BY <1>2 DEF Unique
<1> HIDE DEF r
<1>6. TypeOK'
  BY <1>2, <1>4 DEF TypeOK, SendFragment, gathers, mainVars
<1>7. r.index \in Index(r.task) /\ gpc[r.task] # "none"
      /\ r.index \notin fragments[r.task] \cup errors[r.task] \cup added[r.task]
  BY <1>2 DEF Indexed, Untouched, Apart
<1>8. Indexed'
  BY <1>2, <1>3, <1>4, <1>7 DEF Indexed, Index, SendFragment, gathers
<1>9. \A q \in Queued' \cup Pooled' : q \in Request /\ q # r  BY <1>2, <1>5, QueuedPooledType
<1>10. \A q \in Queued' \cup Pooled' : q.task = r.task => q.index # r.index
  BY <1>2, <1>9 DEF Request
<1>11. Apart'
  BY <1>2, <1>3, <1>4, <1>7, <1>9, <1>10 DEF Apart, SendFragment, gathers, Request
<1>12. Ahead'
  BY <1>2, <1>3, <1>4, NoTaskAssumption DEF Ahead, SendFragment, gathers, mainVars, TypeOK
<1>13. Untouched'  BY <1>2, <1>4, <1>7 DEF Untouched, SendFragment, gathers
<1>14. Counted' /\ PartsComplete'
  BY DEF Counted, PartsComplete, Index, SendFragment, gathers
<1>15. QED  BY <1>2, <1>6, <1>8, <1>11, <1>12, <1>13, <1>14

LEMMA SendErrorStep ==
    ASSUME IInv, NEW w \in Workers, SendError(w)
    PROVE  IInv'
<1> DEFINE r == held[w]
<1> USE DEF IInv
<1>1. w \in Busy  BY DEF Busy, SendError
<1>2. /\ Queued' = Queued
      /\ Pooled' = Pooled \ {r}
      /\ Unique'
      /\ r \in Pooled /\ r \in Request
      /\ Busy' = Busy \ {w}
      /\ \A v \in Busy' : held'[v] = held[v]
  BY <1>1, WorkerDone DEF SendError
<1>3. r.task \in Tasks /\ r.index \in Nat  BY <1>2 DEF Request
<1>4. /\ errors'[r.task] = errors[r.task] \cup {r.index}
      /\ \A t \in Tasks : t # r.task => errors'[t] = errors[t]
      /\ errors' \in [Tasks -> SUBSET Nat]
  BY <1>3 DEF SendError, TypeOK
<1>5. r \notin Queued /\ r \notin Pooled'  BY <1>2 DEF Unique
<1> HIDE DEF r
<1>6. TypeOK'
  BY <1>2, <1>4 DEF TypeOK, SendError, gathers, mainVars
<1>7. r.index \in Index(r.task) /\ gpc[r.task] # "none"
      /\ r.index \notin fragments[r.task] \cup errors[r.task] \cup added[r.task]
  BY <1>2 DEF Indexed, Untouched, Apart
<1>8. Indexed'
  BY <1>2, <1>3, <1>4, <1>7 DEF Indexed, Index, SendError, gathers
<1>9. \A q \in Queued' \cup Pooled' : q \in Request /\ q # r  BY <1>2, <1>5, QueuedPooledType
<1>10. \A q \in Queued' \cup Pooled' : q.task = r.task => q.index # r.index
  BY <1>2, <1>9 DEF Request
<1>11. Apart'
  BY <1>2, <1>3, <1>4, <1>7, <1>9, <1>10 DEF Apart, SendError, gathers, Request
<1>12. Ahead'
  BY <1>2, <1>3, <1>4, NoTaskAssumption DEF Ahead, SendError, gathers, mainVars, TypeOK
<1>13. Untouched'  BY <1>2, <1>4, <1>7 DEF Untouched, SendError, gathers
<1>14. Counted' /\ PartsComplete'
  BY DEF Counted, PartsComplete, Index, SendError, gathers
<1>15. QED  BY <1>2, <1>6, <1>8, <1>11, <1>12, <1>13, <1>14
-----------------------------------------------------------------------------
\* Steps of a gather.
LEMMA AddStep ==
    ASSUME IInv, NEW t \in Tasks, Add(t)
    PROVE  IInv'
<1> USE DEF IInv
<1>1. PICK i \in fragments[t] : /\ fragments' = [fragments EXCEPT ![t] = @ \ {i}]
                                /\ added' = [added EXCEPT ![t] = @ \cup {i}]
  BY DEF Add
<1>2. Queued' = Queued /\ Pooled' = Pooled /\ Busy' = Busy
  BY DEF Add, pool, Queued, Pooled, Busy
<1>3. i \in Nat /\ i \in Index(t) /\ i \notin added[t]
  BY DEF Indexed, Apart, TypeOK
<1>4. TypeOK'  BY <1>1, <1>2, <1>3 DEF TypeOK, Add, pool, mainVars
<1>5. Unique'  BY <1>2 DEF Unique, Add, pool
<1>6. /\ fragments'[t] = fragments[t] \ {i} /\ added'[t] = added[t] \cup {i}
      /\ \A u \in Tasks : u # t => fragments'[u] = fragments[u] /\ added'[u] = added[u]
      /\ errors' = errors /\ gpc' = gpc /\ stored' = stored
  BY <1>1 DEF Add, TypeOK
<1>7. \A u \in Tasks : fragments'[u] \cup errors'[u] \cup added'[u]
                         = fragments[u] \cup errors[u] \cup added[u]
  BY <1>1, <1>6
<1>8. Indexed'  BY <1>2, <1>7 DEF Indexed, Index
<1>9. Apart'
  <2>1. \A r \in Queued \cup Pooled : r.task \in Tasks  BY QueuedPooledType
  <2>2. QED  BY <1>2, <1>6, <1>7, <2>1 DEF Apart
<1>10. Ahead'  BY <1>2, <1>6, <1>7 DEF Ahead, Add, TypeOK, mainVars
<1>11. Untouched'  BY <1>2, <1>6 DEF Untouched, Add
<1>12. Counted'
  <2>1. IsFiniteSet(added[t])  BY IndexFinite, FS_Subset DEF Indexed
  <2>2. Cardinality(added'[t]) = Cardinality(added[t]) + 1
    BY <1>3, <1>6, <2>1, FS_AddElement
  <2>3. count'[t] = count[t] + 1 /\ \A u \in Tasks : u # t => count'[u] = count[u]
    BY DEF Add, TypeOK
  <2>4. gpc[t] = "gather"  BY DEF Add
  <2>5. QED  BY <1>6, <2>2, <2>3, <2>4 DEF Counted, Index
<1>13. PartsComplete'  BY <1>6 DEF PartsComplete, Index
<1>14. QED  BY <1>4, <1>5, <1>8, <1>9, <1>10, <1>11, <1>12, <1>13

LEMMA GiveUpStep ==
    ASSUME IInv, NEW t \in Tasks, GiveUp(t) \/ Drain(t)
    PROVE  IInv'
<1> USE DEF IInv
<1>1. Queued' = Queued /\ Pooled' = Pooled /\ Busy' = Busy
  BY DEF GiveUp, Drain, pool, Queued, Pooled, Busy
<1>2. TypeOK'  BY <1>1 DEF TypeOK, GiveUp, Drain, pool, mainVars
<1>3. Unique'  BY <1>1 DEF Unique, GiveUp, Drain, pool
<1>4. /\ \A u \in Tasks : errors'[u] \subseteq errors[u]
      /\ fragments' = fragments /\ added' = added /\ count' = count /\ stored' = stored
      /\ \A u \in Tasks : u # t => gpc'[u] = gpc[u]
      /\ gpc[t] \in {"gather", "drain"} /\ gpc'[t] \in {"drain", "done"}
  BY DEF GiveUp, Drain, TypeOK
<1>5. Indexed'  BY <1>1, <1>4 DEF Indexed, Index
<1>6. \A r \in Queued \cup Pooled : r.task \in Tasks  BY QueuedPooledType
<1>7. Apart'  BY <1>1, <1>4, <1>6 DEF Apart
<1>8. Ahead'  BY <1>1, <1>4 DEF Ahead, GiveUp, Drain, TypeOK, mainVars
<1>9. Untouched'  BY <1>1, <1>4, <1>6 DEF Untouched
<1>10. Counted' /\ PartsComplete'  BY <1>4 DEF Counted, PartsComplete, Index
<1>11. QED  BY <1>2, <1>3, <1>5, <1>7, <1>8, <1>9, <1>10

\* A gather whose count has reached n has added all n fragments.
LEMMA PackStep ==
    ASSUME IInv, NEW t \in Tasks, Pack(t)
    PROVE  IInv'
<1> USE DEF IInv
<1>1. Queued' = Queued /\ Pooled' = Pooled /\ Busy' = Busy
  BY DEF Pack, pool, Queued, Pooled, Busy
<1>2. TypeOK'  BY <1>1 DEF TypeOK, Pack, pool, sinks, mainVars
<1>3. /\ gpc[t] = "gather" /\ gpc'[t] = "write"
      /\ \A u \in Tasks : u # t => gpc'[u] = gpc[u]
      /\ UNCHANGED <<fragments, errors, added, count, stored>>
  BY DEF Pack, TypeOK, sinks
<1>4. Unique' /\ Indexed' /\ Apart'
  BY <1>1, <1>3 DEF Unique, Indexed, Apart, Index, Pack, pool
<1>5. Ahead'  BY <1>1, <1>3 DEF Ahead, Pack, TypeOK, mainVars
<1>6. Untouched'
  <2>1. \A r \in Queued \cup Pooled : r.task \in Tasks  BY QueuedPooledType
  <2>2. QED  BY <1>1, <1>3, <2>1 DEF Untouched
<1>7. added[t] = Index(t)
  <2>1. Cardinality(added[t]) = NFrags[t]  BY DEF Pack, Counted
  <2>2. QED  BY <2>1, IndexFinite, FS_Subset DEF Indexed
<1>8. Counted' /\ PartsComplete'  BY <1>3, <1>7 DEF Counted, PartsComplete, Index
<1>9. QED  BY <1>2, <1>4, <1>5, <1>6, <1>8

LEMMA WriteStep ==
    ASSUME IInv, NEW t \in Tasks, Write(t) \/ Expire(t)
    PROVE  IInv'
<1> USE DEF IInv
<1>1. Queued' = Queued /\ Pooled' = Pooled /\ Busy' = Busy
  BY DEF Write, Expire, pool, Queued, Pooled, Busy
<1>2. added[t] = Index(t) /\ added[t] \in SUBSET Nat  BY DEF Write, Expire, Counted, TypeOK
<1>3. /\ gpc[t] \in {"write", "expire"} /\ gpc'[t] \in {"expire", "done"}
      /\ gpc[t] = "expire" => gpc'[t] = "done"
      /\ \A u \in Tasks : u # t => gpc'[u] = gpc[u] /\ stored'[u] = stored[u]
      /\ stored'[t] \in {stored[t], Index(t)}
      /\ gpc' \in [Tasks -> {"none", "gather", "drain", "write", "expire", "done"}]
      /\ stored' \in [Tasks -> SUBSET Nat]
      /\ UNCHANGED <<fragments, errors, added, count>>
  BY <1>2 DEF Write, Expire, TypeOK, sinks
<1>4. TypeOK'  BY <1>1, <1>3 DEF TypeOK, Write, Expire, pool, sinks, mainVars
<1>5. Unique' /\ Indexed' /\ Apart'
  BY <1>1, <1>3 DEF Unique, Indexed, Apart, Index, Write, Expire, pool
<1>6. Ahead'  BY <1>1, <1>3 DEF Ahead, Write, Expire, TypeOK, mainVars
<1>7. Untouched'
  <2>1. \A r \in Queued \cup Pooled : r.task \in Tasks  BY QueuedPooledType
  <2>2. QED  BY <1>1, <1>3, <2>1 DEF Untouched
<1>8. Counted' /\ PartsComplete'  BY <1>2, <1>3 DEF Counted, PartsComplete, Index
<1>9. QED  BY <1>4, <1>5, <1>6, <1>7, <1>8

LEMMA CrashStep ==
    ASSUME IInv, Crash
    PROVE  IInv'
<1> USE DEF IInv
<1>1. Busy' = {} /\ Queued' = {} /\ Pooled' = {}
  BY DEF Crash, Busy, Queued, Pooled
<1>2. TypeOK'
  BY <1>1, JobsAssumption, MaxCrashesAssumption DEF TypeOK, Crash, Request
<1>3. Unique' /\ Indexed' /\ Apart' /\ Ahead'
  BY <1>1 DEF Unique, Indexed, Apart, Ahead, Crash
<1>4. Untouched'  BY <1>1 DEF Untouched, Crash
<1>5. Counted'  BY FS_EmptySet DEF Counted, Crash
<1>6. PartsComplete'  BY DEF PartsComplete, Crash, Index
<1>7. QED  BY <1>2, <1>3, <1>4, <1>5, <1>6
-----------------------------------------------------------------------------
THEOREM NextIInv == IInv /\ [Next]_vars => IInv'
<1>1. SUFFICES ASSUME IInv, [Next]_vars PROVE IInv'  OBVIOUS
<1>2. ASSUME NEW t \in Tasks, Read(t) \/ ReadBad(t) PROVE IInv'
  BY <1>1, <1>2, ReadStep, ReadBadStep
<1>3. CASE Enqueue \/ EnqueueReturn  BY <1>1, <1>3, EnqueueStep, EnqueueReturnStep
<1>4. ASSUME NEW w \in Workers, WorkerStep(w) PROVE IInv'
  BY <1>1, <1>4, ReceiveStep, FetchStep, SendFragmentStep, SendErrorStep DEF WorkerStep
<1>5. ASSUME NEW t \in Tasks, GatherStep(t) PROVE IInv'
  BY <1>1, <1>5, AddStep, GiveUpStep, PackStep, WriteStep DEF GatherStep
<1>6. CASE Crash  BY <1>1, <1>6, CrashStep
<1>7. CASE UNCHANGED vars
  <2>1. Queued' = Queued /\ Pooled' = Pooled /\ Busy' = Busy
    BY <1>7 DEF vars, pool, Queued, Pooled, Busy
  <2>2. TypeOK'
    BY <1>1, <1>7, <2>1 DEF IInv, TypeOK, vars, mainVars, pool, sinks, gathers
  <2>3. Unique' /\ Indexed' /\ Apart' /\ Ahead'
    BY <1>1, <1>7, <2>1
    DEF IInv, Unique, Indexed, Apart, Ahead, Index, vars, mainVars, pool, sinks, gathers
  <2>4. Untouched' /\ Counted' /\ PartsComplete'
    BY <1>1, <1>7, <2>1
    DEF IInv, Untouched, Counted, PartsComplete, Index, vars, mainVars, pool, sinks, gathers
  <2>5. QED  BY <2>2, <2>3, <2>4 DEF IInv
<1>8. QED  BY <1>1, <1>2, <1>3, <1>4, <1>5, <1>6, <1>7 DEF Next

THEOREM Invariance == Spec => []IInv
BY InitIInv, NextIInv, PTL DEF Spec

\* The pool never leaves its types, and the requests channel never exceeds its
\* capacity, whatever the tasks and whatever -j is.
THEOREM TypeCorrect == Spec => []TypeOK
BY Invariance, PTL DEF IInv

\* Whatever the tasks and whatever -j is, no part of a result is ever written with
\* a fragment missing.
THEOREM PartsAreComplete == Spec => []PartsComplete
BY Invariance, PTL DEF IInv

\* In a state of the pool, a worker that has something to send to a task with no
\* more fragments than there are workers finds room for it.
LEMMA RoomToSend == IInv => SendNeverBlocks
<1>1. SUFFICES ASSUME IInv, NEW w \in Workers, wpc[w] \in {"fragment", "error"},
                      NFrags[held[w].task] <= Jobs
               PROVE  /\ HasRoom(fragments, held[w].task)
                      /\ HasRoom(errors, held[w].task)
  BY DEF SendNeverBlocks
<1> DEFINE t == held[w].task
           i == held[w].index
<1>2. w \in Busy /\ held[w] \in Pooled  BY <1>1 DEF Busy, Pooled
<1>3. t \in Tasks  BY <1>1, <1>2, QueuedPooledType DEF IInv
<1>4. i \in Index(t) /\ i \notin fragments[t] /\ i \notin errors[t]
  BY <1>1, <1>2 DEF IInv, Indexed, Apart
<1>5. fragments[t] \in SUBSET Index(t) /\ errors[t] \in SUBSET Index(t)
  BY <1>1, <1>3 DEF IInv, Indexed
<1> HIDE DEF i
<1>6. Cardinality(fragments[t]) < NFrags[t] /\ Cardinality(errors[t]) < NFrags[t]
  BY <1>3, <1>4, <1>5, RoomForOne
<1>7. /\ Cardinality(fragments[t]) \in Nat /\ Cardinality(errors[t]) \in Nat
      /\ NFrags[t] \in Nat /\ Jobs \in Nat /\ NFrags[t] <= Jobs
  BY <1>1, <1>3, <1>5, IndexFinite, FS_Subset, FS_CardinalityType, NFragsAssumption, JobsAssumption
<1>8. QED  BY <1>6, <1>7 DEF HasRoom

\* If -j is at least the number of fragments of a task, no worker ever waits for the
\* task's gather: the channels are "sufficiently buffered".
THEOREM SendsDoNotBlock == Spec => []SendNeverBlocks
BY Invariance, RoomToSend, PTL
-----------------------------------------------------------------------------
\* NoGatherStarves in terms of Queued and Pooled.
Waited(t, i) ==
    \/ cur = t /\ i >= next
    \/ [task |-> t, index |-> i] \in Queued \cup Pooled
    \/ i \in fragments[t] \cup errors[t]

NoneMissing ==
    \A t \in Tasks : gpc[t] = "gather" => \A i \in Index(t) \ added[t] : Waited(t, i)

LEMMA NoneMissingSame == NoneMissing <=> NoGatherStarves
BY DEF NoneMissing, NoGatherStarves, Waited, Queued, Pooled

LEMMA InitNoneMissing == Init => NoneMissing
BY DEF Init, NoneMissing

LEMMA NextNoneMissing ==
    ASSUME IInv, NoneMissing, [Next]_vars
    PROVE  NoneMissing'
<1> USE DEF IInv
<1> SUFFICES ASSUME NEW t \in Tasks, gpc'[t] = "gather",
                    NEW i \in Index(t) \ added'[t]
             PROVE  Waited(t, i)'
  BY DEF NoneMissing, Index
<1> DEFINE r == [task |-> t, index |-> i]
<1>1. CASE Read(t)
  BY <1>1, i \in Nat DEF Read, Waited, Index
<1>2. ASSUME NEW u \in Tasks, u # t, Read(u) PROVE Waited(t, i)'
  <2>1. gpc[t] = "gather" /\ added' = added /\ cur = NoTask
    BY <1>2 DEF Read, TypeOK
  <2>2. Waited(t, i)  BY <2>1 DEF NoneMissing
  <2>3. Queued' = Queued /\ Pooled' = Pooled
    BY <1>2 DEF Read, Queued, Pooled, Busy, pool
  <2>4. QED  BY <1>2, <2>1, <2>2, <2>3, NoTaskAssumption DEF Waited, Read, sinks
<1>3. ASSUME NEW u \in Tasks, ReadBad(u) PROVE Waited(t, i)'
  <2>1. gpc[t] = "gather" /\ added' = added
    BY <1>3 DEF ReadBad, TypeOK
  <2>2. Waited(t, i)  BY <2>1 DEF NoneMissing
  <2>3. Queued' = Queued /\ Pooled' = Pooled
    BY <1>3 DEF ReadBad, Queued, Pooled, Busy, pool
  <2>4. QED  BY <1>3, <2>2, <2>3 DEF Waited, ReadBad, sinks, mainVars
\* What main enqueues moves from "not yet" to the channel.
<1>4. CASE Enqueue
  <2>1. Waited(t, i)  BY <1>4 DEF NoneMissing, Enqueue, gathers
  <2>2. [task |-> cur, index |-> next] \in Queued' /\ Queued \subseteq Queued'
    <3> DEFINE q == [task |-> cur, index |-> next]
    <3>1. q \in Request /\ requests' = Append(requests, q) /\ requests \in Seq(Request)
      BY <1>4, NoTaskAssumption DEF Enqueue, TypeOK, Request
    <3> HIDE DEF q
    <3>2. /\ Len(requests') = Len(requests) + 1 /\ Len(requests) \in Nat
          /\ \A k \in 1 .. Len(requests) : requests'[k] = requests[k]
          /\ requests'[Len(requests) + 1] = q
      BY <3>1, AppendProperties
    <3>3. q \in Queued' /\ Queued \subseteq Queued'  BY <3>2 DEF Queued
    <3>4. QED  BY <3>3 DEF q
  <2>3. Pooled' = Pooled  BY <1>4 DEF Enqueue, Pooled, Busy, pool
  <2>4. i \in Int /\ next \in Int /\ next' = next + 1 /\ cur' = cur
    BY <1>4 DEF Enqueue, Index, TypeOK
  <2>5. QED  BY <1>4, <2>1, <2>2, <2>3, <2>4 DEF Waited, Enqueue, sinks
<1>5. CASE EnqueueReturn
  <2>1. Waited(t, i)  BY <1>5 DEF NoneMissing, EnqueueReturn, gathers
  <2>2. Queued' = Queued /\ Pooled' = Pooled
    BY <1>5 DEF EnqueueReturn, Queued, Pooled, Busy, pool
  <2>3. ~(cur = t /\ i >= next)
    BY <1>5, NFragsAssumption DEF EnqueueReturn, Index
  <2>4. QED  BY <1>5, <2>1, <2>2, <2>3 DEF Waited, EnqueueReturn, sinks
\* A worker takes over what it receives, and puts what it held on a channel.
<1>6. ASSUME NEW w \in Workers, Receive(w) PROVE Waited(t, i)'
  <2>1. Waited(t, i)  BY <1>6 DEF NoneMissing, Receive, gathers
  <2>2. Queued' = Queued \ {Head(requests)}
    BY <1>6, ReceiveQueued DEF Receive, TypeOK
  <2>3. /\ w \notin Busy /\ w \in Busy' /\ Busy \subseteq Busy'
        /\ held'[w] = Head(requests) /\ \A v \in Busy : held'[v] = held[v]
    BY <1>6 DEF Receive, Busy, TypeOK
  <2>4. Head(requests) \in Pooled' /\ Pooled \subseteq Pooled'  BY <2>3 DEF Pooled
  <2>5. QED  BY <1>6, <2>1, <2>2, <2>4 DEF Waited, Receive, sinks, mainVars
<1>7. ASSUME NEW w \in Workers, Fetch(w) PROVE Waited(t, i)'
  <2>1. Waited(t, i)  BY <1>7 DEF NoneMissing, Fetch, gathers
  <2>2. Busy' = Busy  BY <1>7 DEF Fetch, Busy, TypeOK
  <2>3. Queued' = Queued /\ Pooled' = Pooled  BY <1>7, <2>2 DEF Fetch, Queued, Pooled
  <2>4. QED  BY <1>7, <2>1, <2>3 DEF Waited, Fetch, sinks, mainVars
<1>8. ASSUME NEW w \in Workers, SendFragment(w) \/ SendError(w) PROVE Waited(t, i)'
  <2>1. Waited(t, i)  BY <1>8 DEF NoneMissing, SendFragment, SendError, gathers
  <2>2. w \in Busy  BY <1>8 DEF Busy, SendFragment, SendError
  <2>3. Queued' = Queued /\ Pooled' = Pooled \ {held[w]} /\ held[w] \in Request
    BY <1>8, <2>2, WorkerDone DEF SendFragment, SendError
  <2>4. /\ held[w].index \in fragments'[held[w].task] \cup errors'[held[w].task]
        /\ fragments[t] \subseteq fragments'[t] /\ errors[t] \subseteq errors'[t]
    <3>1. held[w].task \in Tasks  BY <2>3 DEF Request
    <3>2. CASE SendFragment(w)  BY <3>1, <3>2 DEF SendFragment, TypeOK
    <3>3. CASE SendError(w)  BY <3>1, <3>3 DEF SendError, TypeOK
    <3>4. QED  BY <1>8, <3>2, <3>3
  <2>5. CASE r = held[w]  BY <2>4, <2>5 DEF Waited
  <2>6. CASE r # held[w]
    BY <1>8, <2>1, <2>3, <2>4, <2>6 DEF Waited, SendFragment, SendError, mainVars
  <2>7. QED  BY <2>5, <2>6
<1>9. ASSUME NEW u \in Tasks, GatherStep(u) PROVE Waited(t, i)'
  <2>1. Queued' = Queued /\ Pooled' = Pooled
    BY <1>9 DEF GatherStep, Add, GiveUp, Drain, Pack, Write, Expire, pool, Queued, Pooled, Busy
  <2>2. /\ gpc[t] = "gather" /\ added[t] \subseteq added'[t]
        /\ fragments[t] \cup errors[t] \cup added[t]
             \subseteq fragments'[t] \cup errors'[t] \cup added'[t]
        /\ cur' = cur /\ next' = next
    BY <1>9
    DEF GatherStep, Add, GiveUp, Drain, Pack, Write, Expire, TypeOK, sinks, mainVars
  <2>3. Waited(t, i)  BY <2>2 DEF NoneMissing
  <2>4. QED  BY <2>1, <2>2, <2>3 DEF Waited
<1>10. CASE Crash  BY <1>10 DEF Crash
<1>11. CASE UNCHANGED vars
  <2>1. Queued' = Queued /\ Pooled' = Pooled
    BY <1>11 DEF vars, pool, Queued, Pooled, Busy
  <2>2. QED
    BY <1>11, <2>1 DEF NoneMissing, Waited, vars, mainVars, sinks, gathers
<1>12. QED
  BY <1>1, <1>2, <1>3, <1>4, <1>5, <1>6, <1>7, <1>8, <1>9, <1>10, <1>11
  DEF Next, WorkerStep

\* Whatever the tasks and whatever -j is, a gather never waits for a fragment that
\* is not on its way.
THEOREM GathersDoNotStarve == Spec => []NoGatherStarves
<1>1. IInv /\ NoneMissing /\ [Next]_vars => NoneMissing'  BY NextNoneMissing
<1>2. Spec => []NoneMissing  BY <1>1, Invariance, InitNoneMissing, PTL DEF Spec
<1>3. QED  BY <1>2, NoneMissingSame, PTL
-----------------------------------------------------------------------------
status == [t \in Tasks |-> Status(t)]

LEMMA InitOutcome == Init => Outcome!Init
<1>1. SUFFICES ASSUME Init PROVE \A t \in Tasks : Status(t) = "queued"
  BY DEF Outcome!Init
<1>2. QED  BY <1>1 DEF Init, Status

\* Nothing but gpc and stored is visible in the status of a task.
LEMMA SameStatus ==
    ASSUME NEW t, gpc'[t] = gpc[t], stored'[t] = stored[t]
    PROVE  Status(t)' = Status(t)
BY DEF Status, Index

LEMMA StepOutcome == IInv /\ [Next]_vars => [Outcome!Next]_status
<1> SUFFICES ASSUME IInv, Next PROVE Outcome!Next \/ status' = status
  <2>1. CASE UNCHANGED vars  BY <2>1, SameStatus DEF vars, gathers, status
  <2>2. QED  BY <2>1
<1> USE DEF IInv
<1>2. \A t \in Tasks : Index(t) # {} /\ Index(t)' = Index(t)
  <2>1. SUFFICES ASSUME NEW t \in Tasks PROVE 0 \in Index(t)  BY DEF Index
  <2>2. NFrags[t] \in Nat /\ NFrags[t] # 0  BY NFragsAssumption
  <2>3. QED  BY <2>2 DEF Index
<1>3. ASSUME NEW t \in Tasks, Read(t) PROVE Outcome!Take(t)
  <2>1. Status(t) = "queued"  BY <1>3 DEF Read, Status
  <2>2. Status(t)' = "running"
    <3>1. gpc'[t] = "gather" /\ stored'[t] = {}
      BY <1>3 DEF Read, Untouched, TypeOK
    <3>2. QED  BY <1>2, <3>1 DEF Status
  <2>3. \A u \in Tasks : u # t => Status(u)' = Status(u)
    BY <1>3, SameStatus DEF Read, TypeOK
  <2>4. QED  BY <2>1, <2>2, <2>3 DEF Outcome!Take
<1>4. ASSUME NEW t \in Tasks, ReadBad(t) PROVE Outcome!Drop(t)
  <2>1. Status(t) = "queued"  BY <1>4 DEF ReadBad, Status
  <2>2. Status(t)' = "failed"
    <3>1. gpc'[t] = "done" /\ stored'[t] = {}
      BY <1>4 DEF ReadBad, Untouched, TypeOK
    <3>2. QED  BY <1>2, <3>1 DEF Status
  <2>3. \A u \in Tasks : u # t => Status(u)' = Status(u)
    BY <1>4, SameStatus DEF ReadBad, TypeOK
  <2>4. QED  BY <2>1, <2>2, <2>3 DEF Outcome!Drop
<1>5. ASSUME gpc' = gpc, stored' = stored PROVE status' = status
  BY <1>5, SameStatus DEF status
<1>6. CASE Enqueue \/ EnqueueReturn
  BY <1>5, <1>6 DEF Enqueue, EnqueueReturn, gathers
<1>7. ASSUME NEW w \in Workers, WorkerStep(w) PROVE status' = status
  BY <1>5, <1>7 DEF WorkerStep, Receive, Fetch, SendFragment, SendError, gathers
\* A step of one gather leaves the others alone, and is a stutter, a Store or a Fail.
<1>8. ASSUME NEW t \in Tasks, GatherStep(t) PROVE Outcome!Next \/ status' = status
  <2>0. \A u \in Tasks : u # t => gpc'[u] = gpc[u] /\ stored'[u] = stored[u]
    BY <1>8 DEF GatherStep, Add, GiveUp, Drain, Pack, Write, Expire, TypeOK
  <2>1. \A u \in Tasks : u # t => Status(u)' = Status(u)  BY <2>0, SameStatus
  <2>2. CASE Status(t)' = Status(t)  BY <2>1, <2>2 DEF status
  <2>3. CASE Status(t)' # Status(t)
    <3>1. Status(t) = "running" /\ Status(t)' \in {"stored", "failed"}
      <4>1. CASE Add(t) \/ GiveUp(t) \/ Pack(t)
        <5>1. /\ gpc[t] = "gather" /\ gpc'[t] \in {"gather", "drain", "write"}
              /\ stored'[t] = stored[t]
          BY <4>1 DEF Add, GiveUp, Pack, TypeOK
        <5>2. QED  BY <1>2, <2>3, <5>1 DEF Status
      <4>2. CASE Drain(t)
        <5>1. /\ gpc[t] = "drain" /\ gpc'[t] \in {"drain", "done"}
              /\ stored[t] = {} /\ stored'[t] = {}
          BY <4>2 DEF Drain, TypeOK, Counted
        <5>2. QED  BY <1>2, <2>3, <5>1 DEF Status
      <4>3. CASE Write(t)
        <5>1. /\ gpc[t] = "write" /\ gpc'[t] = "expire"
              /\ stored[t] = {} /\ stored'[t] \in {{}, Index(t)}
          BY <4>3 DEF Write, TypeOK, Counted
        <5>2. QED  BY <1>2, <5>1 DEF Status
      <4>4. CASE Expire(t)
        <5>1. gpc[t] = "expire" /\ gpc'[t] = "done" /\ stored'[t] = stored[t]
          BY <4>4 DEF Expire, TypeOK
        <5>2. QED  BY <1>2, <2>3, <5>1 DEF Status
      <4>5. QED  BY <1>8, <4>1, <4>2, <4>3, <4>4 DEF GatherStep
    <3>2. CASE Status(t)' = "stored"
      BY <2>1, <3>1, <3>2 DEF Outcome!Next, Outcome!Store, status
    <3>3. CASE Status(t)' = "failed"
      <4>1. Outcome!Fail({t})
        BY <2>1, <3>1, <3>3 DEF Outcome!Fail, Outcome!Running, status
      <4>2. QED  BY <4>1 DEF Outcome!Next
    <3>4. QED  BY <3>1, <3>2, <3>3
  <2>4. QED  BY <2>2, <2>3
\* A crash fails what was running.
<1>9. CASE Crash
  <2> DEFINE T == {t \in Tasks : Status(t) = "running"}
  <2>1. \A t \in Tasks : Status(t)' = IF t \in T THEN "failed" ELSE Status(t)
    BY <1>2, <1>9 DEF Crash, TypeOK, Status, Index
  <2>2. T \in SUBSET Tasks /\ T \subseteq Outcome!Running  BY DEF Outcome!Running, status
  <2>3. Outcome!Fail(T)  BY <2>1, <2>2 DEF Outcome!Fail, status
  <2>4. QED  BY <2>2, <2>3 DEF Outcome!Next
<1>10. QED  BY <1>3, <1>4, <1>6, <1>7, <1>8, <1>9 DEF Next, Outcome!Next

\* Every behaviour of the pool is one that JobOutcome allows: whatever happens to
\* the node, a task is run at most once and ends stored or failed, never both.
THEOREM PoolImplementsOutcome == Spec => Outcome!Safety
BY Invariance, InitOutcome, StepOutcome, PTL DEF Spec, Outcome!Safety, status
=============================================================================
