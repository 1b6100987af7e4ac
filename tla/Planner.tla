------------------------------- MODULE Planner -------------------------------
(***************************************************************************)
(* The planner (core/src/plan.cpp, and the parsing of queries in           *)
(* messages.cpp): from the manifest of a cube and a query to the tasks     *)
(* that fetch nodes run and the header that tells the client what comes.   *)
(*                                                                         *)
(* A query names a slice, or the traces of a curtain, by index, by line    *)
(* number or, for a curtain, by UTM coordinates, which the manifest maps   *)
(* to line numbers.  A query that is not in the cube, or that cannot be    *)
(* read, is refused: session_plan_query() catches what is thrown.          *)
(*                                                                         *)
(* The plan is made by one thread in four steps: dispatch, unpack, build,  *)
(* and partition, which includes the header.                               *)
(***************************************************************************)
EXTENDS Geometry

CONSTANTS
    Jobs,       \* [manifest, query, task_size], what the planner is called with
    AttrOrder   \* the attributes in the order of their names

\* The documents.  keys are the fields of the manifest; the matrix has two rows of
\* three, in 1/Unit of a line.
volumedesc    == [prefix : STRING, shapes : Seq(Seq(Nat))]
attributedesc == [type : STRING, prefix : STRING, shapes : Seq(Seq(Nat))]
manifestdoc   ==
    [keys : SUBSET STRING, format_version : Nat, vol : Seq(volumedesc),
     attr : Seq(attributedesc), line_numbers : Seq(Seq(Int)), utm_to_lineno : Seq(Seq(Int))]

\* opts is null, or has a list of attributes, or has null for it.
slice_query   == [function : STRING, opts : {"null", "attributes", "null attributes"},
                  attributes : SUBSET STRING, kind : STRING, dim : Int, val : Int]
curtain_query == [function : STRING, opts : {"null", "attributes", "null attributes"},
                  attributes : SUBSET STRING, kind : STRING, coords : Seq(Seq(Int))]

ASSUME JobsAssumption ==
    /\ Jobs \subseteq [manifest : manifestdoc, query : slice_query \cup curtain_query,
                       task_size : Int]
    /\ \A j \in Jobs : /\ j.query.function = "slice" => j.query \in slice_query
                       /\ j.query.function = "curtain" => j.query \in curtain_query

\* What upload writes in a manifest: three dimensions with at least one line each, the
\* lines of the first two in order, fragments of three dimensions, prefixes that tell
\* the attributes and the data apart, and rows of a matrix.
ASSUME ManifestsAssumption ==
    \A j \in Jobs : LET m == j.manifest IN
        /\ j.query.function = "slice" => Len(m.line_numbers) = 3
        /\ \A d \in DOMAIN m.line_numbers :
              /\ m.line_numbers[d] # <<>>
              /\ d # 3 => \A i, k \in DOMAIN m.line_numbers[d] :
                             i < k => m.line_numbers[d][i] < m.line_numbers[d][k]
        /\ \A v \in Range(m.vol) \cup Range(m.attr) :
              \A s \in Range(v.shapes) : s \in ShapesOver(1 .. 3)
        /\ \A v, w \in Range(m.attr) : v.prefix = w.prefix => v.type = w.type
        /\ m.vol # <<>> => \A v \in Range(m.attr) : v.prefix # m.vol[1].prefix
        /\ "utm-to-lineno" \in m.keys => m.utm_to_lineno \in [1 .. 2 -> [1 .. 3 -> Int]]

\* The attributes of the schema, of which the data is none (graphql.go 444).
ASSUME AttrOrderAssumption ==
    /\ AttrOrder \in Seq(STRING)
    /\ \A i, k \in DOMAIN AttrOrder : AttrOrder[i] = AttrOrder[k] => i = k
    /\ "data" \notin Range(AttrOrder)
AttributeNames == {"data"} \cup Range(AttrOrder)

\* The tasks, one fragment of a curtain task, and the header.  The code lays the index and
\* the shapes of the header out in one list with their lengths.
slice_task     == [attr : AttributeNames, prefix : STRING, shape : Seq(Nat), cube : Seq(Nat),
                   dim : Dimension(3), idx : Nat, ids : Seq(Seq(Nat))]
single         == [id : Seq(Nat), offset : Nat, coordinates : Seq(Seq(Nat))]
curtain_task   == [attr : AttributeNames, prefix : STRING, shape : Seq(Nat), cube : Seq(Nat),
                   ids : Seq(single)]
process_header == [function : {"", "slice", "curtain"}, nbundles : Nat,
                   attributes : Seq(AttributeNames),
                   index : Seq(Seq(Int)), shapes : Seq(Seq(Nat))]

VARIABLES
    job,
    stage,      \* the next step, or how planning ended
    args,       \* the query in cartesian coordinates
    outputs,    \* what build() returns
    tasks,      \* the taskset without its last element
    head        \* the last element of the taskset, the header

planner == <<job, stage, args, outputs, tasks, head>>

Manifest == job.manifest
Query    == job.query
Lines(d) == Manifest.line_numbers[d]
Cube     == [d \in 1 .. 3 |-> Len(Lines(d))]

NoArgs == [attributes |-> <<>>, idx |-> 0, coords |-> <<>>]
NoHead == [function |-> "", nbundles |-> 0, attributes |-> <<>>, index |-> <<>>, shapes |-> <<>>]

PlannerTypeOK ==
    /\ job \in Jobs
    /\ stage \in {"dispatch", "unpack", "build", "partition",
                  "planned", "refused", "terminated"}
    /\ args \in [attributes : Seq(AttributeNames), idx : Nat, coords : Seq(Nat \X Nat)]
    /\ outputs \in Seq(slice_task) \cup Seq(curtain_task)
    /\ tasks \in Seq(slice_task) \cup Seq(curtain_task)
    /\ \A t \in DOMAIN tasks : Len(tasks[t].ids) \in 1 .. job.task_size
    /\ head \in process_header

PlannerInit ==
    /\ job \in Jobs
    /\ stage = "dispatch"
    /\ args = NoArgs
    /\ outputs = <<>> /\ tasks = <<>> /\ head = NoHead

\* Mutant: the version of the manifest is not looked at.
DispatchAnyVersion ==
    /\ stage = "dispatch"
    /\ stage' = IF Query.function \in {"slice", "curtain"} THEN "unpack" ELSE "refused"
    /\ UNCHANGED <<job, args, outputs, tasks, head>>

\* plan_query(): the version of the manifest and the function.
Dispatch ==
    /\ stage = "dispatch"
    /\ stage' = IF Manifest.format_version = 1 /\ Query.function \in {"slice", "curtain"}
                  THEN "unpack" ELSE "refused"
    /\ UNCHANGED <<job, args, outputs, tasks, head>>
-----------------------------------------------------------------------------
\* The index that a query means, if there is one.
Indices(lines, kind, val) ==
    {i \in 0 .. Len(lines) - 1 : \/ kind = "index" /\ i = val
                                 \/ kind = "lineno" /\ lines[i + 1] = val}

\* utm_to_lineno(): the line number of a coordinate, between two lines as a rule.
Unit == 4
LineNo(row, xy) == row[1] * xy[1] + row[2] * xy[2] + row[3]

\* std::round(): half a line is rounded away from zero.
Round(v) == IF v >= 0 THEN (2 * v + Unit) \div (2 * Unit)
                      ELSE -((Unit - 2 * v) \div (2 * Unit))

Distance(v, line) == IF v >= Unit * line THEN v - Unit * line ELSE Unit * line - v

\* indexof_nearest(): std::lower_bound of the rounded number, or the line before if that
\* is closer; none if the number is before the first line or behind the last.
Nearest(lines, v) ==
    {IF i > 0 /\ Distance(v, lines[i + 1]) > Distance(v, lines[i]) THEN i - 1 ELSE i :
        i \in {j \in 0 .. Len(lines) - 1 :
                /\ lines[j + 1] >= Round(v) /\ \A k \in 1 .. j : lines[k] < Round(v)
                /\ j = 0 => lines[1] = Round(v)}}

\* basic_query and manifestdoc: every key is there, and null is no list.
Readable ==
    /\ {"line-numbers", "line-labels", "data", "attributes"} \subseteq Manifest.keys
    /\ Query.opts # "null attributes"

\* shape(): the first shape of the first volume.
HasShape == Manifest.vol # <<>> /\ Manifest.vol[1].shapes # <<>>

\* geometry(): a curtain is of a cube of three dimensions.
ThreeDimensional == Len(Manifest.line_numbers) = 3 /\ Len(Manifest.vol[1].shapes[1]) = 3

\* The members of S in the order of the pairs R; the places S of a list from its first
\* on, and what a list has there.
InOrder(S, R) ==
    [n \in 1 .. Cardinality(S) |->
        CHOOSE x \in S : Cardinality({y \in S : <<y, x>> \in R}) = n - 1]
Ascending(S) == InOrder(S, {p \in S \X S : p[1] < p[2]})
Selected(s, S) == LET places == Ascending(S) IN [n \in DOMAIN places |-> s[places[n]]]

Normalized(attributes) ==
    LET wanted == (attributes \ {"cdp"})
                     \cup (IF "cdp" \in attributes THEN {"cdpx", "cdpy"} ELSE {})
    IN  Selected(AttrOrder, {k \in DOMAIN AttrOrder : AttrOrder[k] \in wanted})

LexLess(a, b) ==
    \E d \in DOMAIN a : a[d] < b[d] /\ \A e \in 1 .. d - 1 : a[e] = b[e]

Top(xy) == <<xy[1], xy[2], 0>>

\* The coordinates sorted; those that are the same stay in the order they came in.
Before(coords) ==
    {p \in (DOMAIN coords) \X (DOMAIN coords) :
        LET a == coords[p[1]]  b == coords[p[2]]
        IN  LexLess(a, b) \/ (a = b /\ p[1] < p[2])}
Arranged(coords, R) ==
    LET order == InOrder(DOMAIN coords, R) IN [n \in DOMAIN order |-> coords[order[n]]]

\* Mutant: the coordinates are sorted and not grouped.
GroupByFragmentNot(coords) == Arranged(coords, Before(coords))

\* Sort by coordinate, then stably by the fragment of the data it is in.
GroupByFragment(coords) ==
    LET id == [k \in DOMAIN coords |-> FragId(Manifest.vol[1].shapes[1], Top(coords[k]))]
    IN  Arranged(coords, {p \in (DOMAIN coords) \X (DOMAIN coords) :
                            LexLess(id[p[1]], id[p[2]])
                               \/ (id[p[1]] = id[p[2]] /\ p \in Before(coords))})

UnpackSlice ==
    /\ stage = "unpack" /\ Query.function = "slice"
    /\ LET found == IF Readable /\ Query.dim \in DOMAIN Manifest.line_numbers
                      THEN Indices(Lines(Query.dim), Query.kind, Query.val) ELSE {}
       IN
       IF found = {} THEN stage' = "refused" /\ UNCHANGED args
       ELSE /\ \E i \in found :
                  args' = [NoArgs EXCEPT !.attributes = Normalized(Query.attributes),
                                         !.idx = i]
            /\ stage' = "build"
    /\ UNCHANGED <<job, outputs, tasks, head>>

\* A curtain is refused as a whole when one of its coordinates is not in the cube.
UnpackCurtain ==
    /\ stage = "unpack" /\ Query.function = "curtain"
    /\ LET coords == Query.coords
           found(k, d) ==
                IF Query.kind = "utm"
                  THEN Nearest(Lines(d), LineNo(Manifest.utm_to_lineno[d], coords[k]))
                  ELSE Indices(Lines(d), Query.kind, coords[k][d])
           index(k, d) == CHOOSE i \in found(k, d) : TRUE
           inCube ==
                /\ Query.kind \in {"index", "lineno", "utm"}
                /\ Query.kind = "utm" => "utm-to-lineno" \in Manifest.keys
                /\ \A k \in DOMAIN coords :
                      Len(coords[k]) = 2 /\ \A d \in {1, 2} : found(k, d) # {}
       IN  IF ~(Readable /\ inCube /\ HasShape /\ ThreeDimensional)
             THEN stage' = "refused" /\ UNCHANGED args
             ELSE /\ args' = [NoArgs EXCEPT
                        !.attributes = Normalized(Query.attributes),
                        !.coords = GroupByFragment(
                            [k \in DOMAIN coords |-> <<index(k, 1), index(k, 2)>>])]
                  /\ stage' = "build"
    /\ UNCHANGED <<job, outputs, tasks, head>>
-----------------------------------------------------------------------------
\* find_attribute(): the first of the type.
Attribute(type) == Manifest.attr[SelectInSeq(Manifest.attr, LAMBDA a : a.type = type)]

\* Attributes that are not recorded get no output.
Recorded == Selected(args.attributes,
                     {n \in DOMAIN args.attributes :
                        \E v \in Range(Manifest.attr) : v.type = args.attributes[n]})
Wanted   == <<"data">> \o Recorded

\* basic_task: the output of the data, and that of an attribute, which is flat.
Output(attr) ==
    LET desc == IF attr = "data" THEN Manifest.vol[1] ELSE Attribute(attr) IN
    [attr |-> attr, prefix |-> desc.prefix, shape |-> desc.shapes[1],
     cube |-> IF attr = "data" THEN Cube ELSE [Cube EXCEPT ![3] = 1]]

\* The at(0) of basic_task and of shape() throw when there is no shape.
HasShapes == HasShape /\ \A k \in DOMAIN Recorded : Attribute(Recorded[k]).shapes # <<>>

RefuseShapes ==
    /\ stage = "build" /\ ~HasShapes
    /\ stage' = "refused"
    /\ UNCHANGED <<job, args, outputs, tasks, head>>

\* Mutant: the index is not brought into a flat attribute.
BuildSliceFlat ==
    LET build(o) ==
            [attr |-> o.attr, prefix |-> o.prefix, shape |-> o.shape, cube |-> o.cube,
             dim |-> Query.dim, idx |-> LocalIndex(o.shape, Query.dim, args.idx),
             ids |-> SliceIds(o.cube, o.shape, Query.dim, args.idx)]
    IN  /\ stage = "build" /\ Query.function = "slice" /\ HasShapes
        /\ outputs' = [k \in DOMAIN Wanted |-> build(Output(Wanted[k]))]
        /\ stage' = "partition"
        /\ UNCHANGED <<job, args, tasks, head>>

BuildSlice ==
    LET build(o) ==
            LET idx == args.idx % o.cube[Query.dim] IN
            [attr |-> o.attr, prefix |-> o.prefix, shape |-> o.shape, cube |-> o.cube,
             dim |-> Query.dim, idx |-> LocalIndex(o.shape, Query.dim, idx),
             ids |-> SliceIds(o.cube, o.shape, Query.dim, idx)]
    IN  /\ stage = "build" /\ Query.function = "slice" /\ HasShapes
        /\ outputs' = [k \in DOMAIN Wanted |-> build(Output(Wanted[k]))]
        /\ stage' = "partition"
        /\ UNCHANGED <<job, args, tasks, head>>

\* All fragments of the columns the traces are in, in the order of their ids.  A
\* column starts where its first trace is in the sorted query.
BuildCurtain ==
    LET build(o) ==
            LET column(k) == FragId(o.shape, Top(args.coords[k]))
                traces(id) == Ascending({k \in DOMAIN args.coords : Top(column(k)) = Top(id)})
                local(k) == SubSeq(ToLocal(o.shape, Top(args.coords[k])), 1, 2)
                all == AllIds(o.cube, o.shape)
                ids == Selected(all, {n \in DOMAIN all : traces(all[n]) # <<>>})
            IN  [attr |-> o.attr, prefix |-> o.prefix, shape |-> o.shape, cube |-> o.cube,
                 ids |-> [n \in DOMAIN ids |->
                    LET ks == traces(ids[n]) IN
                    [id |-> ids[n], offset |-> ks[1] - 1,
                     coordinates |-> [c \in DOMAIN ks |-> local(ks[c])]]]]
    IN  /\ stage = "build" /\ Query.function = "curtain" /\ HasShapes
        /\ outputs' = [k \in DOMAIN Wanted |-> build(Output(Wanted[k]))]
        /\ stage' = "partition"
        /\ UNCHANGED <<job, args, tasks, head>>
-----------------------------------------------------------------------------
TaskCount(njobs, task_size) == (njobs + (task_size - 1)) \div task_size

\* Mutant: the last task is full or is not there.
SplitFull(o) ==
    [i \in 1 .. Len(o.ids) \div job.task_size |->
        [o EXCEPT !.ids = SubSeq(@, (i - 1) * job.task_size + 1, i * job.task_size)]]

\* Mutant: a task starts with the last fragment of the one before.
SplitOverlapping(o) ==
    [i \in 1 .. TaskCount(Len(o.ids), job.task_size) |->
        [o EXCEPT !.ids = SubSeq(@, Max({1, (i - 1) * job.task_size}),
                                    Min({i * job.task_size, Len(o.ids)}))]]

\* partition(): the fragments of an output in tasks of at most task_size.
Split(o) ==
    [i \in 1 .. TaskCount(Len(o.ids), job.task_size) |->
        [o EXCEPT !.ids = SubSeq(@, (i - 1) * job.task_size + 1,
                                    Min({i * job.task_size, Len(o.ids)}))]]

\* The index and the shapes of the header; an attribute has one value per trace.
SliceHeader(ntasks) ==
    LET index == [d \in 1 .. 3 |-> IF d = Query.dim THEN <<Lines(d)[args.idx + 1]>> ELSE Lines(d)]
        size  == [d \in 1 .. 3 |-> Len(index[d])]
    IN  [function |-> "slice", nbundles |-> ntasks,
         attributes |-> <<"data">> \o args.attributes, index |-> index,
         shapes |-> <<size>> \o [a \in DOMAIN args.attributes |-> [size EXCEPT ![3] = 1]]]

CurtainHeader(ntasks) ==
    LET n == Len(args.coords)
        line(d) == [k \in 1 .. n |-> Lines(d)[args.coords[k][d] + 1]]
    IN  [function |-> "curtain", nbundles |-> ntasks,
         attributes |-> <<"data">> \o args.attributes,
         index |-> <<line(1), line(2), Lines(3)>>,
         shapes |-> <<<<n, Len(Lines(3))>>>> \o [a \in DOMAIN args.attributes |-> <<n>>]]

RefuseTaskSize ==
    /\ stage = "partition" /\ job.task_size < 1
    /\ stage' = "refused"
    /\ UNCHANGED <<job, args, outputs, tasks, head>>

\* partition() and header(): the number of bundles is that of the tasks.
Partition ==
    LET split == FlattenSeq([k \in DOMAIN outputs |-> Split(outputs[k])]) IN
    /\ stage = "partition" /\ job.task_size >= 1
    /\ \A k \in DOMAIN outputs : outputs[k].ids # <<>>
    /\ tasks' = split
    /\ head' = IF Query.function = "slice" THEN SliceHeader(Len(split))
                                           ELSE CurtainHeader(Len(split))
    /\ stage' = "planned"
    /\ UNCHANGED <<job, args, outputs>>

\* task_count() throws for a curtain of no traces, in count_tasks(), which is noexcept:
\* the process of the query server ends.
Terminate ==
    /\ stage = "partition" /\ job.task_size >= 1
    /\ \E k \in DOMAIN outputs : outputs[k].ids = <<>>
    /\ stage' = "terminated"
    /\ UNCHANGED <<job, args, outputs, tasks, head>>

Plan ==
    \/ Dispatch \/ UnpackSlice \/ UnpackCurtain
    \/ RefuseShapes \/ BuildSlice \/ BuildCurtain
    \/ RefuseTaskSize \/ Partition \/ Terminate
=============================================================================
