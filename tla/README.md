# A TLA+ model of oneseismic

Oneseismic serves slices and curtains of seismic cubes. A cube is uploaded once
as fixed-size *fragments*; a query is planned into *tasks*, each a list of
fragments, that *fetch nodes* run; the *parts* they extract are streamed to the
client, which decodes and assembles them. The services are separate programs
that share nothing but redis and a blob storage, and are scaled by running more
of them.

This directory holds TLA+ modules of the parts where order, concurrency, failure
and arithmetic decide whether a client gets the right answer, the TLC
configurations that check them, and proofs of the most important properties.

## 1. The system

```
 python scan/upload --> blob storage <------------------------------.
                            ^ manifest                    fragments |
                            |                                       |
 client --GraphQL--> query server --SET header, XADD jobs--> redis  |
   |                  (plan: C++)                            ^  |   |
   |                                              XADD part  |  v   |
   '---- result server <-- header, result stream -- redis    fetch nodes (C++)
   decoder (C++ in python, javascript)
```

| Component | State it keeps | Operations | What is hard about it |
|---|---|---|---|
| Query server, resolvers (`api/api/graphql.go`, `query.go`, `query.cpp`, `session` in `plan.cpp`) | a pool of C++ sessions, each with the manifest it was last initialised with | take and return a session, resolve `cube`, its manifest fields and its promises | the fields of a document are resolved at the same time on one session without a lock; sessions are used again |
| Query server, promise and scheduling (`api/api/graphql.go`, `scheduler.go`) | goroutines that schedule | promise, sign a token, `SET` header, `XADD` tasks | the answer is given before anything is scheduled; one pid per request; `log.Fatalf` in the middle of a plan; a command that is sent again |
| Planner (`core/src/plan.cpp`, `messages.cpp`, `geometry*.hpp`) | none | manifest + query → tasks + header | padding, offsets, splitting, line numbers, coordinates between lines, attributes with their own fragment shape, queries that must be refused |
| Fetch node (`api/cmd/fetch`) | a channel of requests, a pool of workers, a gather per task, a cache | read task, download fragments, extract, `XADD` part, `EXPIRE` | workers are shared by all tasks; a task that fails leaves downloads behind; NoAck reads and crashes |
| Result server (`api/api/result.go`) | two goroutines per request | Get, Stream, Status | parts arrive while it reads; three time-outs; channels between goroutines that can fail |
| Decoder (`core/src/decoder.cpp`) and its drivers | phase, buffer, parser state, writers | `buffer`, `process`, `reset`, `register_writer` | chunks are cut anywhere; resumption; payload before the arrays exist |
| Garbage collector (`api/cmd/gc`) | none | delete idle consumers | races with consumers that wake up |
| Scan, upload (`python/oneseismic/scan`, `upload`) | open fragments, line counters | read traces, fill fragments, write | fragments are flushed by line number; retries; the manifest is last |
| Authentication (`api/internal/auth`) | a key ring | sign, check tokens | lifetime of a token against that of the data |
| Catalogue, clients, entry points | little or none | SQL, HTTP, options | not concurrent |

What makes each of them correct:

* **resolvers and session**: a field is answered from a manifest that its own
  request has read, and a process is planned for the cube of its field; calls on a
  session race at most with calls of the same request.
* **query + fetch + redis**: a task runs at most once and never after it
  failed; a client that completes has the parts of its own query and nothing
  else, and all of them unless a part was written twice; every promise is kept,
  or something of that same query has failed, or the query server was ended by a
  scheduling error of another query.
* **fetch node**: a part has all the fragments of its task; a failing task takes
  no worker with it; every task ends.
* **fragment cache**: a fetch never returns a version the storage did not have
  during the fetch, nor another blob.
* **result server**: a response is the header and then entries of the stream,
  in order and none twice; one that says 200 has as many as there are tasks; Status
  does not go back, and who was told "finished" is given the result; requests end.
* **decoder**: no payload before the writers exist; a message decodes to every
  bundle once, however it is cut; every message comes to an outcome.
* **planner**: every sample of the query is fetched once and lands at its place;
  no fragment is lost or doubled when they are split into tasks; a coordinate
  becomes the nearest trace; what is not in the cube is refused, and nothing else
  is.
* **scan, upload**: the manifest describes the file; every trace is in its
  fragment; a manifest exists only when every fragment does, which has its samples
  unless a local cube is being written again.

## 2. The modules

| Module | Models | Composes |
|---|---|---|
| `JobOutcome` | what one attempt at the tasks promises: a task is taken once and ends at most once, stored, failed or lost | - |
| `FetchPool` | the goroutines of one fetch node | implements `JobOutcome` |
| `FragmentCache` | `fetchblob()` with the cache and ETags; opens the one download step of `FetchPool` | - |
| `Pipeline` | query server, redis stream and consumer group, nodes, clients | nodes by the promise of `JobOutcome`, which it also implements end to end |
| `Session` | the resolvers of concurrent requests on pooled sessions; its `"null"` or planned process is the promise with which a query of `Pipeline` begins | - |
| `ResultServer` | Get, Stream and Status beside a process that is being filled, and the clock | - |
| `Decoder` | the decoder and the two loops that drive it | - |
| `Geometry` | points, fragments, offsets, padding and strides as operators | - |
| `Planner` | the documents, and a manifest and a query to header and tasks or to a refusal | `Geometry` |
| `Assembly` | extraction on the nodes and the copies of the decoder, in any order of the tasks | `Planner`, `Geometry` |
| `Ingest` | scan, then upload, with restarts | - |

The `MC*` modules give the constants their values. The `*_proofs` modules hold
the theorems about the module they are named after; `Assembly_proofs` also those about
`Geometry` and `Planner`, which `Assembly` extends.

### How state and actions correspond to the code

**FetchPool.** `cur` and `next` are the main loop inside `run()` and
`enqueue()`; `requests` is `fetch.requests`; `wpc` and `held` are the download
workers; `fragments` and `errors` are the two channels of a task's `fetchQueue`;
`gpc`, `count` and `added` are its gather goroutine and what it gave to the C++
process; `stored` is the part on the result stream. One action is one channel
operation, one download, or one redis command. Main does `Read`, `ReadBad` (a
task that is dropped), `Enqueue` and `EnqueueReturn`; a worker `Receive`, `Fetch`,
`SendFragment` and `SendError`; a gather `Add`, `GiveUp`, `Drain`, `Pack`, `Write`
and `Expire`. After `Crash` everything in memory is gone and, as the node reads
with NoAck, so are its tasks. A channel to one gather is a set of fragment indices:
`add()` is keyed by the index, so the order of arrival is not visible.

**FragmentCache.** A worker of the pool looks in the cache, asks the storage with
or without an ETag, and returns cached or fresh bytes, an error, or the error
for an expired fragment. Ristretto's `Set` is asynchronous and may drop the
value; entries are evicted at any time; anyone may replace a blob.

**Session.** `rpc`, `session` and `pool` are `execQuery` with its deferred `Put`;
`document` is the manifest a C++ session holds. A `cube` field is `GetManifest`
and `InitWithManifest` (`cpc`), and only then its fields run, each in a goroutine:
a manifest field is `Lookup` and `QueryManifest`, a call into the session (`lpc`,
`answer`), and a promise is `PlanQuery` (`plan`), which carries its own manifest. A
data race is a choice: the lookup finds the old document or the new one
(`Found`), or the server ends (`Crash`). `Evict` is Go's collector emptying the
pool.

**Pipeline.** `basicQuery` answers the client before `Schedule` runs, so the
steps of a query are promise, `SetHeader`, then one `AddTask` at a time, any of
which may fail: `ScheduleFails` is the `log.Fatalf` that ends every other `Schedule`
of the server too (`"dead"`). `Take` is `XREADGROUP`, `XDel` the delayed deletion, `Store` and
`FailTask` what `JobOutcome` promises of a node, and a node may die. An `XADD`
whose answer is lost is sent again: `AddTask` and `Store` may leave the loop where
it is, and a task then has a copy. When the answer of a read is lost nobody has
the task (`LoseRead`). `Open` and `ReadParts` are the result server's Stream.
`PidOf` says which queries share a pid, and is not assumed injective.

**ResultServer.** `body` is what is written to a response, `tiles` the buffered
channel, and each request is the two goroutines of the code: `collectResult`
(`SendHeader`, `XRead`, `SendTile`, `Close`) and its handler. `AddPart`,
`SetHeader` and `Tick` are the environment: the nodes and redis' clock. An entry
of the stream is its number, the header is 0, and `extra` counts the entries that
repeat a part.

**Decoder.** A message is a sequence of *items* (envelope, header, bundles) and
every item is two units, so that a chunk can end between items and inside one.
`Feed` is `buffer()`; `Process` is one turn of the loop of `process()`, which ends
in `Suspend` (paused), `AllExtracted` (done) or `Corrupt` (an exception), and
pauses at `ReadHeader`; `Reuse` is `reset()` and a new stream. `ctx` is what
msgpack keeps of an object that is cut. One item of a message may be `wrong`, and
the array of bundles may be `declared` shorter or longer than the header says.
The drivers are `decode_stream()` of the python bindings, of an iterator or of a
list, and `stream_decoder` of the javascript ones. What becomes of a stream that ends
early differs (`EndedEarly`): `decode_stream()` raises (`"incomplete"`), while the
closure returns null only if it has no header yet, and else the header and the arrays
as they are, which is also what it returns when all is decoded (`"partial"`).

**Geometry, Planner, Assembly.** `Geometry` has the conversions of
`geometry.impl.hpp` under their own names (`FragId`, `ToLocal`, `ToGlobal`,
`Padding`, `Squeeze`, the strides). `Planner` has the documents as record sets
under the names of their types (`manifestdoc`, `slice_query`, `slice_task`,
`process_header`, ...), and plans in four steps: `Dispatch` (format version and
function), `UnpackSlice` and `UnpackCurtain` (indices, line numbers or coordinates
to indices; grouping by fragment), `BuildSlice` and `BuildCurtain` (an output for
the data and for every attribute that is recorded), and `Partition`, with the
header. `Refuse*` and the refusing branches are the exceptions that
`session_plan_query` catches, `Terminate` the one that it cannot, because
`count_tasks` is noexcept. Coordinates are integers and a matrix has entries in
quarters of a line (`Unit`), so that rounding and equal distances happen. `Assembly`
goes on with `Allocate` (the arrays the header describes) and `Deliver(t)` for
every task: the names of its fragments (`Fragments`), the stored objects (`Chunk`),
what `process.cpp` packs of each (`RunTask`), and what `decoder.cpp` copies to
which offsets (`Writes`). A bundle is a tuple, as on the wire, whose slots the
two sides must agree on. A sample is its attribute and its coordinates in the
cube, so that every cell of the result can be compared with the trace it should
come from.

**Ingest.** `ScanHeader`, `ScanTrace`, `EndScan` are `scan()` with its line and
geometry scanners; `Start`, `Put`, `Open`, `Commit`, `BlobExists`, `OpenManifest`,
`WriteManifest` are `upload()`: a trace goes into the open fragments of its lane, and
when the last trace of a lane has passed, the lane is written and dropped. A file is
written in two steps, since `localfs.open('wb')` truncates what is there (`Torn`, or
no manifest) before the write; a blob is there when it is uploaded. A kill is a
`Start` between any two steps. A trace is its position in the file.

`PROJECT.json` maps every definition to its lines.

## 3. The runs

Every property of a passing run has a mutant: a plausible bug, in a definition
that models code, with which TLC finds the property violated.

| Run | Question | Bounds |
|---|---|---|
| `fetch_pool` | Do tasks that share workers always end, with complete parts, whatever fails? Does the pool implement `JobOutcome`? | 2 tasks of 2 fragments, 2 workers, channels of 2, 1 crash |
| `session` | Can one request see the manifest of another, or be planned for another cube? | 3 requests, with 1 `cube` field, with 3 of which one has a broken manifest, and with 2 aliases of 1 cube, on 2 sessions |
| `fragment_cache` | Is a fetch ever stale, or an error for expiration spurious? | 2 workers, 2 blobs, 3 versions each; symmetric in both |
| `pipeline` | Do queries interfere? Is every promise kept while nothing of its own query fails? | 2 queries of 2 and 1 tasks, 2 nodes, 1 fault (a failure or a repeated command), 1 death or lost read |
| `pipeline_one_request` | The same, of two fields of one GraphQL document | no faults |
| `result_server` | Are responses whole and in order, do they end, do the time-outs fit, and is a finished process served? | 1 Get, 1 Stream, 2 parts, a channel of 1, 1 fault (a failure or a repeated `XADD`); TTLs 2, 4, 4 and 6 ticks of 2.5 minutes |
| `result_get_hangs` | Is every Get answered? | the same |
| `decoder` | Does a message decode the same however it is cut, and does decoding end? | 3 bundles of 2 attributes, declared as 2, 3 or 4, each item right or wrong, cut or ended anywhere, 2 messages on one decoder, 3 drivers |
| `decoder_reuse` | The same for a decoder whose last message was cut off | 2 messages |
| `assembly` | Is the result the samples of the query, each at its place, and is everything else refused? | 3 cubes of up to 3 x 4 x 3; all slices, by index and line number, with invalid dimension and lines; curtains of up to 3 traces, by index and line number, and of up to 2 by coordinates; 6 manifests that do not fit and queries that are not understood; `task_size` 2, 3 and 0 |
| `curtain_attributes` | The same for the attributes of curtains | 1 cube |
| `ingest` | Does a manifest mean that all fragments are there and right? | all files of up to 3 traces over 3 x 2 lines, some of 4, in any order; files that are refused; local and blob storage; 2 restarts anywhere, of an upload that was killed or is done |

Why the bounds are enough:

* *fetch_pool*: sharing, starvation and a late send after an error need two
  tasks; a channel that is exactly as large as the task is the tight case. The
  proofs cover other sizes.
* *fragment_cache*: three versions make an entry that is two versions late, two
  blobs make a confusion possible.
* *pipeline*: a query of two tasks may be half scheduled when another begins;
  more queries only add more of the same pairs. One fault and one death, each at
  every point; two of a kind act on separate tasks.
* *session*: two `cube` fields in one request are the least that race, for two cubes
  or for one; three requests on two sessions make one session be used again after each
  of the others, and one wait. The proofs cover other numbers.
* *result_server*: two parts with room for one give replies with none, one and
  two parts, a full channel, a third entry that repeats a part, and an error
  after some of them. Six ticks go past
  every expiration, also when all is renewed as late as possible.
* *decoder*: three bundles have a first, a middle and a last one, and one of them
  goes to the other attribute. An item is two units, so a cut inside it exists.
* *assembly*: the cubes are padded in every dimension (`Padded`), in none (`Full`),
  and have fragments of one trace with larger attribute fragments (`Thin`); lines
  have gaps and different starts, so an index is never mistaken for a line. The
  coordinates lie before, at, between and behind the lines, two of them half-way.
  Every condition of a refusal fails in some manifest or query, alone.
* *ingest*: gaps, holes, duplicates and any order of traces; files of four traces
  have three lines of unequal length, where lanes are flushed at different times. Two
  restarts are an upload that is done, one over it that is killed with a fragment
  truncated, and one that finds what both have left.

`CHECK_DEADLOCK FALSE` is in the runs of systems that come to rest: all tasks
ended, all requests answered, all messages decoded. The fragment cache never
rests and is checked for deadlocks.

## 4. Fairness

* **FetchPool**: weak fairness of the main loop *inside* `run()`, of every worker
  and of every gather: goroutines are scheduled and the calls they make return
  (downloads and redis commands have results or errors). Reading a task and
  crashing are not fair: nobody has to send work.
* **Pipeline**: weak fairness of `Work` as a whole, the steps of goroutines, nodes
  and clients: while one of them can do something, something is done. It is the
  least one can ask, and enough, as the work of all requests is finite: nothing
  can be put off for ever by the rest. Promises (new requests), faults and deaths
  are not fair.
* **ResultServer**: weak fairness of parts being added and of the two goroutines
  of a request. Time is not fair, and may stop.
* **Decoder**: the driver's loop is one program, which goes on: weak fairness of
  its next step.
* **Session, FragmentCache, Assembly, Ingest**: none; their properties are safety.

No strong fairness is used.

## 5. What is proved

Assumptions on constants are named in the module that declares them and are
evaluated in the runs.

* **The pool** (`FetchPool_proofs`), for any tasks, fragment counts, number of
  workers and crashes. The invariant, `IInv`, says that every fragment of a
  running task is in exactly one place: not yet enqueued, requested, held by a
  worker, in one of the two channels, or added. `PartsComplete` is not inductive
  because `gather()` only counts: it takes that no fragment can be counted twice
  and that the count is the number of fragments added. From the same invariant:
  `SendNeverBlocks`, a send to a task with at most `Jobs` fragments finds room
  (the fragments elsewhere leave it, `RoomForOne`); `NoGatherStarves`; and
  `PoolImplementsOutcome`, that every step is a step of `JobOutcome` or a stutter.
* **The pipeline** (`Pipeline_proofs`), for any queries, requests, nodes, faults and
  deaths: `TypeOK`, and `PipelineKeepsOutcome`, that every step is one of
  `JobOutcome` or a stutter. The invariant follows a task from the loop of
  `Schedule` to its end: what is on the jobs stream has been added and not taken,
  a node runs what it has taken, and only ended tasks have parts; a copy that was
  added twice is a task of its own. `ClientsGetTheirOwn` (`OnlyOwnParts`) has the
  hypothesis `OneProcessPerPid`, that a request asks for one process: the run
  `pipeline_one_request` shows that it is needed. Besides the invariant it takes
  counting, because a client stops at as many entries as there are tasks: as many
  different parts of a plan as it has are all of them.
* **The result server** (`ResultServer_proofs`), for any number of parts, requests,
  buffers and all `TokenTTL <= HeaderTTL <= StreamTTL`: `TypeOK`; no part expires
  before the header, also if a node dies between `XADD` and `EXPIRE`;
  `ResponsesDecode`; `StatusAdvances`; and `FinishedIsServed`, that who has a valid
  token and was told "finished" is not told 202 or 404 by Get unless redis fails.
  The invariant has the expirations; which of the two goroutines of a request can
  be where (`Turns`); where each cursor stands, that what is in the channel
  and in the response together is a run of the stream (`Cursors`, `Responses`);
  and that Status has not said more than there is (`Polled`).
* **The cache** (`FragmentCache_proofs`), for any number of workers, blobs and
  versions: `TypeOK`, a fetch is never stale, and an expiration is only reported of a blob
  that was replaced. The invariant: a chunk in the cache, in a worker's hand or on
  its way to the cache is filed under its own blob and is no newer than the
  storage. Versions only grow, so equal ETags are decisive.
* **The decoder** (`Decoder_proofs`), for any message, cuts and drivers:
  `TypeOK`; `WritersInTime`, which needs that the writers are registered in the same
  step in which the driver sees the header, before `process()` is called again; and
  `DecodedOnce`, that a message which returns was right in every item and gave
  every bundle to its writer once and in order. Its invariant is that the phase and the
  number of bundles left say where in the message the parser is, and that what
  is parsed was next in the message, though `ctx`, `buf` and the units that are not yet
  read hold it in three pieces and a list may be fed from its start again.
  `CompleteDecodes` has the hypothesis `ReuseAfter \subseteq {"returned"}`, that a
  decoder is used again only after a message that was decoded: `decoder_reuse`
  shows that it is needed. Then nothing of another message is ever in `ctx` or
  `buf`, and the bytes that wait are exactly those between what was parsed and what
  was fed (`Exact`), so that a call that finds too little has not seen the end.
* **The session** (`Session_proofs`), for any requests, cubes and number of
  sessions, several fields of one cube among them: `TypeOK`, `AnswersAreOwn` and
  `RacesStayInRequest`. A session belongs to
  at most one running request and is then not in the pool; and once a cube of the
  request is resolved, the session holds a manifest of that request, whoever used
  it before.
* **Planner and assembly** (`Assembly_proofs`), for every manifest, query, list of
  traces and task size, cubes and fragments of any shape, and any order in which the
  bundles arrive: all invariants of the run `assembly`. From below:
  - *geometry*: a sample is at exactly one place of exactly one fragment and the
    conversions are inverse (`PointHasOnePlace`); padding is exactly what lies outside
    the cube (`PaddingIsOutside`). Both hold for any number of dimensions and rest on
    division with remainder and on rounding up.
  - *algorithms of the planner*: `partition()` loses, doubles and reorders nothing
    (`SplitIsPartition`). For ascending lines, `lower_bound` of the rounded number and
    the comparison with the line before it give a line that no other is closer than,
    whenever they give one (`NearestLine`).
  - *the plan*: `PlannerInv` (`PlannerIsSound`) says of every stage what has been made
    of the query so far: `args` are the indices that were asked for, and they are in the
    cube; the outputs are those that `build()` makes of the wanted attributes; the tasks
    are their parts one after the other; a refused query cannot be answered. What
    comes out of a stage is written as a function of the arguments, so that the
    lemmas about `build()` and `partition()` are about one output and not about the
    loop. `AnsweredOrRefused` (`PlannedOrRefused`) follows from it.
  - *the fetches*: a fragment is needed if and only if it has a sample of the result
    (`SliceHits`, `CurtainHits`), what `build()` lists are the needed fragments, each once
    (`IdsAreNeeded`), and tasks are parts of the lists: `FragmentsFetchedOnce`
    (`FetchesAreExact`).
  - *the copies*: what `slice_stride()` selects of a fragment is its plane row by row, without
    the padding it is put at the row and column that `injection_stride()` says, and
    the fragments of a curtain follow each other at `offset`, since the traces of a
    column are consecutive after `group_by_fragment_inplace()`. So every value of a bundle
    belongs where it is written and is inside the array (`WritesBelong`), and each place
    is written by some task (`SliceIsCovered`, `CurtainIsCovered`).
  - *the arrays*: `ClientInv` (`ClientIsSound`) has that an array is as large as the
    header says, that each place of it has what belongs there or is blank, and that
    what was decoded is there. The properties are not inductive: they speak of the
    end only, when nothing is left to decode, and a tile that is decoded later must not
    spoil an earlier one. It does not, as what belongs to a place does not depend on who
    writes it. With coverage: `SlicesComeTogether` (`SlicesAssemble`),
    `CurtainsComeTogether` (`CurtainsAssemble`: of a curtain the data, as its recorded
    attributes do go astray, section 6), `CopiesStayInBounds` (`CopiesInBounds`), and
    `AssemblyTyped`.

  Of a job is assumed that it has the types of its documents (`JobsAssumption`) and that
  the manifest is one that `upload` writes (`ManifestsAssumption`: a line for each index,
  the lines of the first two dimensions ascending, fragments of three dimensions none of
  which is zero, prefixes that tell attributes and data apart); that the schema lists no
  attribute twice (`AttrOrderAssumption`); and that `Blank` and `Pad` are not samples
  (`MarksAssumption`). Nothing is assumed of a query: its function, dimension, lines, traces and
  attributes can be anything, and a manifest need not have a format version that is
  supported, line numbers for a matrix, or shapes.
* **Scan and upload** (`Ingest_proofs`), for files with any number of traces in any
  order, fragments of any shape, both storages and any number of restarts:
  - `CornersAreNearest`: `GeoScanner` keeps one trace per corner and forgets the
    others, though the corners move while lines are discovered. It is right because
    for points within the limits the distance to a corner is linear
    (`DistanceIsLinear`): a moved corner adds the same to all of them and never
    changes which is nearest.
  - `TypeOK`, `ManifestMeansComplete`, `LanesArePruned` and `FragmentsAreFinal`.
    None is inductive: whether a fragment is right when it is written depends on
    traces that come later. The invariant says that a fragment of a lane that has
    not ended, or is being yielded, has at each place the last trace so far that is
    put there (`Filled`), that no lane is held longer, and that each fragment of an
    ended lane is stored. A trace behind the limit of the lane is never put in it
    (`LimitOfLane`), so what is stored is what the whole file has, or a truncated
    local file: a second upload writes the same, and has written everything before
    it writes the manifest. That each fragment has a lane to wait for, and that
    the manifest lists the line of each index, takes that the index of a line is
    a bijection (`RankIsOnto`, `SortedSequence`).

The library's induction theorems take an operator and cannot be instantiated
here. Where an induction is needed it is written over sets: a set of naturals
that is not empty has a least element (`LeastNatural`, from `WFMin`). For the same reason
the folds of the library (products, offsets, flattened sequences) are first shown to be
some function on the intervals `1 .. k` (`FoldExists`, `FoldSequence`), which the lemmas
about two and three dimensions then unfold.

Every safety property of a passing run is proved. Model-checked only:

* liveness (`TasksSettle`, `PoolRecovers`, `PromisesKept`, `QueueDrains`,
  `StreamEnds`, `Ends`) and that the pool implements the liveness of `JobOutcome`:
  the prover does not reason about fairness and ENABLED;
* what the runs of section 6 refute.

## 6. Where the code and what it says of itself differ

Each is a run that ends in a counterexample.

1. **A Get never ends when `XREAD` fails** (`result_get_hangs`, `result.go:72`).
   The collector sends the error on an unbuffered channel before it closes
   `tiles`; Get ranges over `tiles` until then and only after that receives the
   error. The request and two goroutines leak. Stream, which selects over both,
   is right: `StreamEnds`.
2. **Fields of one GraphQL document share a pid** (`pipeline_one_request`,
   `graphql.go:281`), and so a header key and a result stream; "the PID is the key
   used to identify a single process" (README 124).
3. **`decoder::reset()` keeps the parser's state** (`decoder_reuse`,
   `decoder.cpp:172`): after a message that was cut inside the header, the next
   one is rejected, while `decoder.hpp:94` asks for exactly this call before a new
   message.
4. **Attributes of a curtain end up at other traces** (`curtain_attributes`,
   `plan.cpp:349`): traces are sorted by the fragments of the data, and attributes
   have other fragments, so that the traces of a fragment need not be consecutive,
   which the decoding depends on.

Seen while modelling, without a run:

* the comment at `result.go:186-187` and the expirations of 5 and 10 minutes
  disagree; the expirations used are those in the code;
* `XREAD` blocks without a limit: a Stream whose part is missing waits until the
  client hangs up, so `StreamEnds` is stated for processes that get all parts;
* a task with more fragments than `-j` may leave workers blocked for ever after an
  error: `NFrags[t] <= Jobs` in `SendNeverBlocks` is the condition a deployment
  has to keep (`-j` at least the fragments per task);
* a task that does not unpack stops the node: the message that it is dropped is
  logged with the pid of a process that is not there (`main.go:136`);
* `decode_stream()` iterates over the stream twice (`decoding.py:89`), which only goes
  on where it stopped if it was given an iterator; a complete message in a list of
  several chunks is rejected. The run `decoder` has such a driver, shows that it never
  decodes to something wrong, and leaves it out of `CompleteDecodes`;
* the closure of `stream_decoder` returns the header and the arrays for a stream that
  ended early just as for one that was decoded (`decoding.js:98` and `:71`), so its
  caller cannot tell zeros that were never filled; the run `decoder` has this as the
  outcome "partial", which a complete message never has (`CompleteDecodes`);
* an XADD that redis executes and the client sends again makes a part appear twice.
  `collectResult` counts entries, so a client may complete with one part twice and
  another missing, and Status, which compares with `==`, goes from "finished" back to
  "working": both conditions are in the properties;
* one failing `SET` or `XADD` ends the query server by `log.Fatalf` (`graphql.go:312`)
  and with it the `Schedule` of every other query: their clients, who have a promise,
  wait for ever. `PromisesKept` is about the behaviours without this;
* the `cube` fields of one document share one session: a field of one cube may be
  answered from the manifest of the other, and two initialisations, also of two
  aliases of one cube, race on the C++ object (`graphql.go:510`); no other request is
  touched (`AnswersAreOwn`, `RacesStayInRequest`). A session that
  the pool drops is never freed (`query.go` has no finalizer);
* an empty curtain ends the query server (`count_tasks` is noexcept,
  `plan.cpp:414`): the one exception that `PlannedOrRefused` allows;
* the header lists requested attributes that are not recorded; no bundle is written to
  their arrays, as `SlicesAssemble` and `CurtainsAssemble` say;
* `plan.cpp:598` looks for the format version in the document of the query and not
  in the manifest in it, so a version that is not supported is refused with another message;
* a query with options that do not name attributes (`opts: {}`) has null for its
  attributes, which is refused;
* `operator >=` in `geometry.hpp:113` is `>`; nothing uses it;
* `scan.py:115` names a variable that does not exist, for files with extended
  headers; a file of one sample fails after all fragments are written and before
  the manifest (`upload.py:355`); an upload to blobs that stopped half-way cannot
  be run again (`blobfs.py:236` does not overwrite);
* an upload to a local directory that already has the cube truncates each fragment
  before it writes it (`localfs.py:76`, `upload.py:352-353`) while the old manifest is
  still there: killed between the two it leaves an empty fragment that the manifest
  describes, until an upload of the cube is done. `ManifestMeansComplete` and
  `FragmentsAreFinal` except these fragments, and nothing else.

## 7. What is not modelled, and the plan

The order was by weight: the pool and its abstract promise, the result server,
the pipeline that composes them, the cache, the decoder, plan and assembly,
ingestion, the session. What could follow:

1. **Tokens**: sign and check with the key ring of `api/internal/auth`, composed
   with the clock of `ResultServer`, which now has the lifetime only.
2. **Clients**: `process.py` and `simple_client.py` on top of Status and Stream.
3. **Statistics and affine matrix** of scan, as far as they are not floating
   point.

New questions are to join an existing run
where they are of the same state, so that the table of section 3 stays one that
can be read.

Left out for good:

* the garbage collector (`api/cmd/gc`): it deletes consumers that have been idle.
  Tasks are read with NoAck, so a consumer has no pending entries that would go
  with it, and one that wakes up is made again by its next read: in `Pipeline` it
  would be an action that changes nothing;
* the catalogue (one SQL statement per request; no state of its own, its
  behaviour is the database's), OpenID Connect (a library), entry points and
  deployment (options and wiring), base64 and argument parsing (pure text);
* the order of the `add()` calls within one task: `RunTask` does them in one step, so
  `assembly` explores the order of the bundles only. What an `add()` writes depends on
  the index of its fragment alone (`process.cpp:199`, `:238`);
* floating point: the rounding errors of UTM coordinates (their integer part is
  in `Planner`), the affine transform, statistics of samples;
* the wire format below the level of items and slots: msgpack is external, and
  the models only depend on its parser pausing and resuming, and on the order of
  the slots of a bundle.
