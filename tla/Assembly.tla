------------------------------- MODULE Assembly -------------------------------
(***************************************************************************)
(* From a query to the arrays of the client: the planner's tasks are run   *)
(* on fragments by fetch nodes (core/src/process.cpp), in any order, and   *)
(* the decoder copies the bundles into the arrays that the client has made *)
(* from the header (core/src/decoder.cpp, decoding.py).                    *)
(*                                                                         *)
(* A sample is told by its attribute and its place in the cube, so what    *)
(* ends up where can be compared with what the index of the header says.   *)
(* Blank is what an array holds before anything is written, and Pad the    *)
(* padding of a fragment.                                                  *)
(***************************************************************************)
EXTENDS Planner

CONSTANTS Blank, Pad

\* Neither is a sample.
ASSUME MarksAssumption == {Blank, Pad} \cap (AttributeNames \X Seq(Nat)) = {}

VARIABLES
    left,     \* tasks whose bundle the client has not decoded
    arrays    \* the arrays of the client, by attribute, as row-major functions

vars == <<planner, left, arrays>>

Init == PlannerInit /\ left = {} /\ arrays = <<>>

\* proc::fragments(): the names of the objects that a task is run on.
Fragments(task) ==
    [n \in DOMAIN task.ids |->
        [prefix |-> task.prefix, shape |-> task.shape,
         id |-> IF Query.function = "slice" THEN task.ids[n] ELSE task.ids[n].id]]

\* The values of an object, as upload wrote them: padded with zeros.
Chunk(name) ==
    LET isData == name.prefix = Manifest.vol[1].prefix
        attr == IF isData THEN "data"
                ELSE Manifest.attr[SelectInSeq(Manifest.attr,
                                               LAMBDA a : a.prefix = name.prefix)].type
        cube == IF isData THEN Cube ELSE [Cube EXCEPT ![3] = 1]
    IN  [off \in 0 .. Product(name.shape) - 1 |->
            LET g == ToGlobal(name.shape, name.id, PointAt(off, name.shape)) IN
            IF g \in CubePoints(cube) THEN <<attr, g>> ELSE Pad]
-----------------------------------------------------------------------------
\* A value, and the answers of a slice and of a curtain task.  The n-th fragment of a
\* curtain fills the traces from major[2n - 1] on and before major[2n], and of those the
\* values from minor[2n - 1] on and before minor[2n].
Value == {Pad} \cup (AttributeNames \X Seq(Nat))
tile  == [layout : slice_layout, v : Seq(Value)]
curtain_bundle == [attr : AttributeNames, size : Nat, zlength : Nat, major : Seq(Nat),
                   minor : Seq(Nat), values : Seq(Value)]

\* slice::init(), add(): the plane of the n-th fragment, and where it goes.
Tile(task, n) ==
    LET from  == SliceStride(task.shape, task.dim)
        chunk == Chunk(Fragments(task)[n])
    IN  [layout |-> InjectionStride(Squeeze(task.cube, task.dim), Squeeze(task.shape, task.dim),
                                    Squeeze(task.ids[n], task.dim)),
         v |-> [o \in 1 .. from.iterations * from.chunk_size |->
                    chunk[from.initial_skip * task.idx
                            + ((o - 1) \div from.substride) * from.superstride
                            + ((o - 1) % from.substride)]]]

\* curtain::add(): the samples of the traces of the n-th fragment, without padding.
CurtainValues(task, n) ==
    LET id      == task.ids[n]
        zheight == task.shape[3] - Padding(task.cube, task.shape, id.id, 3)
        chunk   == Chunk(Fragments(task)[n])
        from(c) == Offset(Top(id.coordinates[c]), task.shape)
    IN  [o \in 1 .. zheight * Len(id.coordinates) |->
            chunk[from((o - 1) \div zheight + 1) + ((o - 1) % zheight)]]

\* curtain::init(): the values of all fragments one after the other, as traceindex places
\* them whatever the order of add(), and the index of their places in the array.
CurtainBundle(task) ==
    [attr |-> task.attr, size |-> Len(task.ids), zlength |-> task.cube[3],
     major |-> FlattenSeq([n \in DOMAIN task.ids |->
        LET id == task.ids[n] IN <<id.offset, id.offset + Len(id.coordinates)>>]),
     minor |-> FlattenSeq([n \in DOMAIN task.ids |->
        LET zfst == task.ids[n].id[3] * task.shape[3] IN
        <<zfst, Min({zfst + task.shape[3], task.cube[3]})>>]),
     values |-> FlattenSeq([n \in DOMAIN task.ids |-> CurtainValues(task, n)])]

\* pack(): a message is a tuple, and who reads it knows the order of its slots.
PackTiles(attr, tiles) ==
    <<attr, [n \in DOMAIN tiles |->
        LET to == tiles[n].layout IN
        <<to.iterations, to.chunk_size, to.initial_skip, to.superstride, to.substride,
          tiles[n].v>>]>>
PackCurtain(bundle) ==
    <<bundle.attr, bundle.size, bundle.zlength, bundle.major, bundle.minor, bundle.values>>

\* What a fetch node answers to a task.
RunTask(task) ==
    IF Query.function = "slice"
      THEN PackTiles(task.attr, [n \in DOMAIN task.ids |-> Tile(task, n)])
      ELSE PackCurtain(CurtainBundle(task))
-----------------------------------------------------------------------------
\* decoder::slice(): what one tile writes, and where.
TileWrites(slots) ==
    LET iterations == slots[1]  chunk_size  == slots[2]  initial_skip == slots[3]
        superstride == slots[4] substride   == slots[5]  v == slots[6]
    IN  [o \in {i * superstride + initial_skip + j :
                    i \in 0 .. iterations - 1, j \in 0 .. chunk_size - 1} |->
            LET at == o - initial_skip IN
            v[(at \div superstride) * substride + (at % superstride) + 1]]

\* decoder::curtain(): what the n-th block writes, and where; src has moved past the
\* blocks before it.
CurtainWrites(slots, n) ==
    LET zlen == slots[3]  major == slots[4]  minor == slots[5]  v == slots[6]
        height(m) == minor[2 * m] - minor[2 * m - 1]
        src == FoldLeft(LAMBDA acc, m : acc + height(m) * (major[2 * m] - major[2 * m - 1]),
                        0, [m \in 1 .. n - 1 |-> m])
    IN  [o \in {i * zlen + z : i \in major[2 * n - 1] .. major[2 * n] - 1,
                               z \in minor[2 * n - 1] .. minor[2 * n] - 1} |->
            v[src + height(n) * (o \div zlen - major[2 * n - 1])
                  + (o % zlen) - minor[2 * n - 1] + 1]]

\* An array after some writes: what was written last is there.
Written(array, writes) ==
    LET on(o) == {n \in DOMAIN writes : o \in DOMAIN writes[n]} IN
    [o \in DOMAIN array \cup UNION {DOMAIN writes[n] : n \in DOMAIN writes} |->
        IF on(o) = {} THEN array[o] ELSE writes[Max(on(o))][o]]

\* decoder::extract(): the writes of a message, one after the other.
Writes(slots) ==
    IF head.function = "slice"
      THEN [n \in DOMAIN slots[2] |-> TileWrites(slots[2][n])]
      ELSE [n \in 1 .. slots[2] |-> CurtainWrites(slots, n)]

\* The client has the header: allocarrays(), and the arrays are the writers.
Allocate ==
    /\ stage = "planned" /\ arrays = <<>>
    /\ arrays' = [a \in Range(head.attributes) |->
            LET k == CHOOSE k \in DOMAIN head.attributes : head.attributes[k] = a
            IN  [o \in 0 .. Product(head.shapes[k]) - 1 |-> Blank]]
    /\ left' = 1 .. Len(tasks)
    /\ UNCHANGED planner

\* A fetch node runs a task, and the client decodes the bundle.
Deliver(t) ==
    /\ t \in left
    /\ left' = left \ {t}
    /\ LET slots == RunTask(tasks[t]) IN
       arrays' = [arrays EXCEPT ![slots[1]] = Written(@, Writes(slots))]
    /\ UNCHANGED planner

Next ==
    \/ Plan /\ UNCHANGED <<left, arrays>>
    \/ Allocate
    \/ \E t \in left : Deliver(t)

Spec == Init /\ [][Next]_vars
-----------------------------------------------------------------------------
TypeOK ==
    /\ PlannerTypeOK
    /\ left \subseteq 1 .. Len(tasks)
    /\ \A a \in DOMAIN arrays : DOMAIN arrays[a] \subseteq Nat
    /\ \A t \in left : IF Query.function = "slice"
                        THEN \A n \in DOMAIN tasks[t].ids : Tile(tasks[t], n) \in tile
                        ELSE CurtainBundle(tasks[t]) \in curtain_bundle

\* The client is done when it has decoded as many bundles as the header says.
Done == stage = "planned" /\ arrays # <<>> /\ Len(tasks) - Cardinality(left) >= head.nbundles

\* A sample is of the attribute and has the line numbers; attributes have no depth.
IsSample(s, a, lines) ==
    /\ s # Blank /\ s # Pad
    /\ s[1] = a
    /\ \A d \in 1 .. 3 : IF d = 3 /\ a # "data" THEN s[2][d] = 0
                         ELSE Lines(d)[s[2][d] + 1] = lines[d]

\* An attribute that was asked for and is not recorded is in the header, and no task
\* writes it.
NothingWritten(a) == \A o \in DOMAIN arrays[a] : arrays[a][o] = Blank

\* A slice is complete and every sample is where the index of the header says, for the
\* data and the recorded attributes, whatever order the tasks ran in; the array of an
\* attribute that is not recorded stays blank (plan.cpp 149-256, process.cpp 121-160,
\* decoder.cpp 319-352).
SlicesAssemble ==
    Done /\ Query.function = "slice" =>
        /\ head.index[Query.dim] =
              <<IF Query.kind = "index" THEN Lines(Query.dim)[Query.val + 1] ELSE Query.val>>
        /\ \A k \in DOMAIN head.attributes :
              LET a == head.attributes[k] IN
              IF a \notin Range(Wanted) THEN NothingWritten(a)
              ELSE \A o \in DOMAIN arrays[a] :
                     LET p == PointAt(o, head.shapes[k]) IN
                     IsSample(arrays[a][o], a, [d \in 1 .. 3 |-> head.index[d][p[d] + 1]])

\* The line numbers of the k-th trace of a curtain.
TraceLines(k) == <<head.index[1][k], head.index[2][k]>>

\* A line is what a coordinate asks for; with UTM it is one that no other is closer than.
IsAskedFor(line, d, xy) ==
    CASE Query.kind = "index"  -> line = Lines(d)[xy[d] + 1]
      [] Query.kind = "lineno" -> line = xy[d]
      [] Query.kind = "utm"    -> LET v == LineNo(Manifest.utm_to_lineno[d], xy) IN
                                  \A l \in Range(Lines(d)) : Distance(v, line) <= Distance(v, l)

\* A curtain has a trace for each coordinate that was asked for, the nearest one for UTM
\* ("Finds the closets inline and crossline for a coordinate", messages.cpp 446), and no
\* other; each of its samples is where the index says, and the array of an attribute that
\* is not recorded stays blank (plan.cpp 301-365, process.cpp 166-265).
CurtainsAssemble ==
    Done /\ Query.function = "curtain" =>
        /\ \E f \in Bijection(DOMAIN Query.coords, DOMAIN head.index[1]) :
              \A k \in DOMAIN Query.coords, d \in {1, 2} :
                  IsAskedFor(TraceLines(f[k])[d], d, Query.coords[k])
        /\ \A o \in DOMAIN arrays["data"] :
              LET p == PointAt(o, head.shapes[1]) IN
              IsSample(arrays["data"][o], "data",
                       TraceLines(p[1] + 1) \o <<head.index[3][p[2] + 1]>>)
        /\ \A a \in Range(head.attributes) \ Range(Wanted) : NothingWritten(a)

\* The attributes of a curtain are those of its traces: "all pairs that belong to the
\* same vertical fragment block are consecutive" (messages.cpp 404-417).
AttributesFollowTraces ==
    Done /\ Query.function = "curtain" =>
        \A a \in Range(Recorded) : \A o \in DOMAIN arrays[a] :
            IsSample(arrays[a][o], a, TraceLines(o + 1) \o <<0>>)

\* What a query asks for can be told from the manifest, of whose attributes the first of
\* a type counts.
Answerable ==
    /\ Manifest.format_version = 1
    /\ {"line-numbers", "line-labels", "data", "attributes"} \subseteq Manifest.keys
    /\ Query.opts # "null attributes" /\ job.task_size >= 1
    /\ Len(Manifest.line_numbers) = 3
    /\ Manifest.vol # <<>> /\ Manifest.vol[1].shapes # <<>>
    /\ \A k \in DOMAIN Manifest.attr :
          LET type == Manifest.attr[k].type IN
          \/ type \notin Range(Normalized(Query.attributes))
          \/ \E i \in 1 .. k - 1 : Manifest.attr[i].type = type
          \/ Manifest.attr[k].shapes # <<>>
    /\ \/ /\ Query.function = "slice" /\ Query.dim \in 1 .. 3
          /\ \/ Query.kind = "index"  /\ Query.val \in 0 .. Cube[Query.dim] - 1
             \/ Query.kind = "lineno" /\ Query.val \in Range(Lines(Query.dim))
       \/ /\ Query.function = "curtain" /\ Query.kind \in {"index", "lineno", "utm"}
          /\ Query.kind = "utm" => "utm-to-lineno" \in Manifest.keys
          /\ \A k \in DOMAIN Query.coords : Len(Query.coords[k]) = 2
          /\ \A k \in DOMAIN Query.coords, d \in {1, 2} :
                LET x == Query.coords[k][d] IN
                \/ Query.kind = "index"  /\ x \in 0 .. Cube[d] - 1
                \/ Query.kind = "lineno" /\ x \in Range(Lines(d))
                \/ /\ Query.kind = "utm"
                   /\ Round(LineNo(Manifest.utm_to_lineno[d], Query.coords[k]))
                         \in Lines(d)[1] .. Last(Lines(d))

\* What is asked for gets a plan, with tasks for the data and every recorded attribute
\* and for nothing else, and anything that is not in the cube is refused (plan.cpp
\* 541-552, query.cpp 49-73); only a curtain of no traces ends the server (plan.cpp
\* 413-419).
PlannedOrRefused ==
    /\ stage = "refused" => ~Answerable
    /\ stage = "terminated" => Query.function = "curtain" /\ Query.coords = <<>>
    /\ stage = "planned" =>
          /\ Answerable
          /\ {tasks[t].attr : t \in DOMAIN tasks} =
                {"data"} \cup (Range(head.attributes) \cap {v.type : v \in Range(Manifest.attr)})

\* No fragment is fetched twice for an output, and those that are fetched are exactly
\* those with a sample of the result: none is lost or doubled where the list is cut into
\* tasks ("all traces in a fragment are handled in a single fragment fetch",
\* messages.cpp 404-408; partition, plan.cpp 434-463).
FetchesAreExact ==
    stage = "planned" => \A w \in Range(Wanted) :
        LET o    == Output(w)
            fetched == UNION {{t} \X (DOMAIN tasks[t].ids) :
                                t \in {t \in DOMAIN tasks : tasks[t].attr = w}}
            id(f) == IF Query.function = "slice" THEN tasks[f[1]].ids[f[2]]
                                                 ELSE tasks[f[1]].ids[f[2]].id
            box  == (0 .. o.cube[1] - 1) \X (0 .. o.cube[2] - 1) \X (0 .. o.cube[3] - 1)
            hit  == IF Query.function = "slice"
                      THEN {g \in box : g[Query.dim] = args.idx % o.cube[Query.dim]}
                      ELSE {g \in box : SubSeq(g, 1, 2) \in Range(args.coords)}
        IN  /\ \A f, g \in fetched : id(f) = id(g) => f = g
            /\ {id(f) : f \in fetched} = {FragId(o.shape, g) : g \in hit}

\* The decoder copies into the arrays that the client made from the header and never
\* behind their end: it checks no size ("TODO: check message integrity (array sizes)",
\* decoder.cpp 364), so header, tasks and fragments must agree.
CopiesInBounds ==
    arrays # <<>> => \A k \in DOMAIN head.attributes :
        DOMAIN arrays[head.attributes[k]] = 0 .. Product(head.shapes[k]) - 1
=============================================================================
