------------------------------ MODULE MCAssembly ------------------------------
(***************************************************************************)
(* Small cubes with and without padding, with attributes of other fragment *)
(* shapes, and with gaps between their line numbers; all their slices, and *)
(* curtains of up to three traces.                                         *)
(***************************************************************************)
EXTENDS Assembly

MCAttrOrder == <<"cdpx", "cdpy">>

Numbers(first, step, n) == [i \in 1 .. n |-> first + step * (i - 1)]

\* The matrices turn and move the coordinates; there is one for the Padded cube only.
Cut(lines, shape, attrs, matrix) ==
    [keys |-> {"line-numbers", "line-labels", "data", "attributes"}
                  \cup (IF matrix = <<>> THEN {} ELSE {"utm-to-lineno"}),
     format_version |-> 1, vol |-> <<[prefix |-> "src", shapes |-> <<shape>>]>>,
     attr |-> [k \in DOMAIN attrs |-> [type |-> attrs[k][1], prefix |-> attrs[k][2],
                                       shapes |-> <<attrs[k][3]>>]],
     line_numbers |-> lines, utm_to_lineno |-> matrix]

\* Padded in every dimension; one attribute fits in a fragment, the other does not.
Padded ==
    Cut(<<Numbers(1, 2, 3), Numbers(0, 1, 3), Numbers(0, 4, 3)>>, <<2, 2, 2>>,
        <<<<"cdpx", "attributes/cdpx", <<4, 4, 1>>>>,
          <<"cdpy", "attributes/cdpy", <<2, 1, 1>>>>>>,
        <<<<1, 1, 0>>, <<0, 1, -2>>>>)

\* Not padded, and cdpy is not recorded.
Full ==
    Cut(<<Numbers(5, 1, 2), Numbers(1, 3, 4), Numbers(0, 4, 2)>>, <<2, 2, 1>>,
        <<<<"cdpx", "attributes/cdpx", <<1, 3, 1>>>>>>, <<>>)

\* Fragments of one trace, and attributes whose fragments hold several of them.
Thin ==
    Cut(<<Numbers(1, 1, 2), Numbers(1, 1, 3), Numbers(0, 1, 2)>>, <<1, 1, 2>>,
        <<<<"cdpx", "attributes/cdpx", <<2, 2, 1>>>>>>, <<>>)

\* Manifests that cannot be planned from, and one of two dimensions.
Unfit ==
    {[Full EXCEPT !.format_version = 2], [Full EXCEPT !.keys = @ \ {"attributes"}],
     [Full EXCEPT !.vol = <<>>], [Full EXCEPT !.vol[1].shapes = <<>>],
     [Full EXCEPT !.attr[1].shapes = <<>>]}
Flat == [Full EXCEPT !.line_numbers = SubSeq(@, 1, 2)]

\* 0 is not a dimension.
Slices ==
    [function : {"slice"}, opts : {"attributes"}, attributes : {{"cdp"}},
     kind : {"index", "lineno"}, dim : 0 .. 3, val : 0 .. 5]

Curtains(kind, coords) ==
    [function : {"curtain"}, opts : {"attributes"}, attributes : {{"cdp", "cdpx"}},
     kind : {kind}, coords : coords]

\* Some traces of every cube, and one that the Full cube does not have.
Traces(m, kind) ==
    IF kind = "index" THEN {<<0, 0>>, <<0, 2>>, <<1, 0>>, <<2, 2>>}
    ELSE {<<m.line_numbers[1][1], m.line_numbers[2][1]>>,
          <<m.line_numbers[1][2], m.line_numbers[2][3]>>,
          <<m.line_numbers[1][1], m.line_numbers[2][3]>>}

\* Before and at the first lines, between lines, between two at the same distance, and at
\* and behind the last.
Places == {<<0, 1>>, <<1, 1>>, <<6, 1>>, <<2, 5>>, <<3, 5>>, <<13, 8>>, <<10, 11>>, <<11, 11>>,
           <<0, 12>>, <<7, 0>>}

\* Queries that are not understood.
Misfits ==
    UNION {{[q EXCEPT !.function = "horizon"], [q EXCEPT !.kind = "depth"],
            [q EXCEPT !.opts = "null attributes", !.attributes = {}]} :
               q \in {s \in Slices : s.kind = "index" /\ s.dim = 1 /\ s.val = 0}}
        \cup Curtains("depth", {<<>>}) \cup Curtains("index", {<<<<0, 0, 0>>>>, <<<<0>>>>})

JobsOf(m) ==
    [manifest : {m}, task_size : {2, 3},
     query : Slices \cup UNION {Curtains(kind, BoundedSeq(Traces(m, kind), 3)) :
                                   kind \in {"index", "lineno"}}]
UtmJobs ==
    [manifest : {Padded, Full}, task_size : {2},
     query : Curtains("utm", BoundedSeq(Places, 2))]
RefusedJobs ==
    [manifest : Unfit, task_size : {2},
     query : {[q EXCEPT !.opts = "null", !.attributes = {}] : q \in Slices}
                 \cup Slices \cup Curtains("index", BoundedSeq({<<0, 0>>}, 2))]
        \cup [manifest : {Full}, task_size : {2}, query : Misfits]
        \cup [manifest : {Flat}, task_size : {2}, query : Curtains("index", {<<<<0, 0>>>>})]
        \cup [manifest : {Full}, task_size : {0}, query : Curtains("index", {<<>>, <<<<0, 0>>>>})]

MCJobs   == UNION {JobsOf(m) : m \in {Padded, Full, Thin}} \cup UtmJobs \cup RefusedJobs
ThinJobs == JobsOf(Thin)
=============================================================================
