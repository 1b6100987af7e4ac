-------------------------------- MODULE Ingest --------------------------------
(***************************************************************************)
(* How a cube comes to the storage: scan reads a SEG-Y file once and finds *)
(* its lines and corners (python/oneseismic/scan), upload reads it again,  *)
(* cuts it into fragments, writes those of a lane - all fragments with the *)
(* same first index - when it has seen the last trace of the lane, and     *)
(* writes the manifest last (python/oneseismic/upload).                    *)
(*                                                                         *)
(* A trace is told by its number in the file, and has two line numbers.    *)
(* Traces come in any order, some pairs of lines have no trace and some    *)
(* have several.  The samples of a fragment are those of its traces, 0 is  *)
(* the zeros of a place without a trace.                                   *)
(*                                                                         *)
(* Upload may be killed at any time and be started again with the same     *)
(* report of scan.  A file of a local file system is truncated when it is  *)
(* opened and then written; a blob is written as a whole, and one that     *)
(* exists is not replaced (upload_blob) and ends the upload.               *)
(***************************************************************************)
EXTENDS Geometry

CONSTANTS
    Files,      \* [traces, samples, exthead, truncated], the files to ingest
    Shapes,     \* the shapes of the fragments of the data and of each attribute
    Stores,     \* subset of {"local", "blobs"}
    MaxStarts   \* how often upload is started again

ASSUME FilesAssumption ==
    \A f \in Files : f.traces \in Seq(Int \X Int) /\ f.samples \in Nat
ASSUME ShapesAssumption == Shapes \in Seq(ShapesOver(1 .. 3))
ASSUME StartsAssumption == MaxStarts \in Nat

VARIABLES
    file,
    store,
    stage,
    trace,      \* the number of traces read in this stage
    last1s,     \* LineScanner: line -> its last trace
    key2s,      \* LineScanner: the lines of dimension 1
    limits,     \* GeoScanner: iline_min, iline_max, xline_min, xline_max
    corners,    \* GeoScanner: p0_linenos, p1_linenos, p2_linenos
    open,       \* fileset.files, <<fileset, ident>> -> samples
    todo,       \* the fragments that commit() has still to yield
    writing,    \* the fragment that is open for writing, if any
    blobs,      \* the storage, <<fileset, ident>> -> samples
    manifest,
    starts

scanner == <<last1s, key2s, limits, corners>>
vars == <<file, store, stage, trace, scanner, open, todo, writing, blobs, manifest,
          starts>>

NoCorner   == <<>>
NoManifest == [lines |-> <<>>]      \* none, or an empty file

\* A file that was truncated and has not got all of its samples yet.
Torn == <<>>

Init ==
    /\ file \in Files /\ store \in Stores
    /\ stage = "header" /\ trace = 0
    /\ last1s = <<>> /\ key2s = {} /\ limits = NoCorner
    /\ corners = [p \in 0 .. 2 |-> NoCorner]
    /\ open = <<>> /\ todo = {} /\ writing = {}
    /\ blobs = <<>> /\ manifest = NoManifest
    /\ starts = 0

TraceCount == Len(file.traces)
Key  == file.traces[trace + 1]
-----------------------------------------------------------------------------
\* scan() of a file with extended text headers raises NameError: exthead is not a name.
ScanHeader ==
    /\ stage = "header"
    /\ stage' = IF file.exthead > 0 THEN "failed" ELSE "scan"
    /\ UNCHANGED <<file, store, trace, scanner, open, todo, writing, blobs, manifest, starts>>

Abs(x) == IF x < 0 THEN -x ELSE x
Manhattan(a, b) == Abs(a[1] - b[1]) + Abs(a[2] - b[2])
IsCloser(target, point, other) == Manhattan(other, target) > Manhattan(point, target)

Widened(l, key) ==
    IF l = NoCorner THEN <<key[1], key[1], key[2], key[2]>>
    ELSE <<IF l[1] > key[1] THEN key[1] ELSE l[1], IF l[2] < key[1] THEN key[1] ELSE l[2],
           IF l[3] > key[2] THEN key[2] ELSE l[3], IF l[4] < key[2] THEN key[2] ELSE l[4]>>

\* (iline_min, xline_min), (iline_max, xline_min), (iline_min, xline_max)
Target(l, p) == <<l[IF p = 1 THEN 2 ELSE 1], l[IF p = 2 THEN 4 ELSE 3]>>

\* Mutant: compare with the limits before this trace.
CornerStale(p, key) ==
    IF corners[p] = NoCorner \/ IsCloser(Target(limits, p), key, corners[p])
      THEN key ELSE corners[p]

Corner(p, key) ==
    IF corners[p] = NoCorner \/ IsCloser(Target(Widened(limits, key), p), key, corners[p])
      THEN key ELSE corners[p]

With(f, x, y) == [z \in DOMAIN f \cup {x} |-> IF z = x THEN y ELSE f[z]]

\* scan_trace_header() of LineScanner and GeoScanner.
ScanTrace ==
    /\ stage = "scan" /\ trace < TraceCount
    /\ last1s' = With(last1s, Key[1], trace)
    /\ key2s' = key2s \cup {Key[2]}
    /\ limits' = Widened(limits, Key)
    /\ corners' = [p \in 0 .. 2 |-> Corner(p, Key)]
    /\ trace' = trace + 1
    /\ UNCHANGED <<file, store, stage, open, todo, writing, blobs, manifest, starts>>

\* A truncated file is refused, and GeoScanner's report needs a trace.
EndScan ==
    /\ stage = "scan" /\ trace = TraceCount
    /\ stage' = IF file.truncated \/ TraceCount = 0 THEN "failed" ELSE "upload"
    /\ trace' = 0
    /\ UNCHANGED <<file, store, scanner, open, todo, writing, blobs, manifest, starts>>
-----------------------------------------------------------------------------
Filesets == DOMAIN Shapes
Keys(d)  == IF d = 1 THEN DOMAIN last1s ELSE key2s
Lines(d) == CHOOSE s \in [1 .. Cardinality(Keys(d)) -> Keys(d)] :
                \A i, j \in DOMAIN s : i < j => s[i] < s[j]

\* The data has all samples in depth, attributes have one.
Cube(s) == <<Cardinality(Keys(1)), Cardinality(Keys(2)), IF s = 1 THEN file.samples ELSE 1>>

\* key1s, key2s, off1s and off2s: the fragment and the place in it of a line, from its
\* index among the sorted lines.
IndexOf(d, key) == Cardinality({k \in Keys(d) : k < key})
Place(s, key)   == [d \in {1, 2} |-> IndexOf(d, key[d]) % Shapes[s][d]]
Lane(s, key1)   == IndexOf(1, key1) \div Shapes[s][1]
ZSections(s)    == FragmentCount(Cube(s), Shapes[s], 3)

Zeros(s) == [xy \in (0 .. Shapes[s][1] - 1) \X (0 .. Shapes[s][2] - 1) |-> 0]
Block(files, b) == IF b \in DOMAIN files THEN files[b] ELSE Zeros(b[1])

\* setlimits(): the last trace of a lane.
SetLimits(s, i) == Max({last1s[key1] : key1 \in {k \in DOMAIN last1s : Lane(s, k) = i}})

\* Mutant: the last trace of a line ends the lane.
LaneEndsPerLine(s) == last1s[Key[1]] = trace

LaneEnds(s) == SetLimits(s, Lane(s, Key[1])) = trace

\* Mutant: a column of fragments more than there is.
LaneIdentsWide(s, i) ==
    {<<i, j, k>> : j \in {(IndexOf(2, key2) + 1) \div Shapes[s][2] : key2 \in key2s},
                   k \in 0 .. ZSections(s) - 1}

LaneIdents(s, i) ==
    {<<i, j, k>> : j \in {IndexOf(2, key2) \div Shapes[s][2] : key2 \in key2s},
                   k \in 0 .. ZSections(s) - 1}

\* put() and the first step of commit(), for each fileset.
Put ==
    LET idents == UNION {{<<s, <<Lane(s, Key[1]), IndexOf(2, Key[2]) \div Shapes[s][2], k>>>> :
                              k \in 0 .. ZSections(s) - 1} : s \in Filesets}
        ends == {s \in Filesets : LaneEnds(s)}
    IN  /\ stage = "upload" /\ todo = {} /\ trace < TraceCount
        /\ open' = [b \in idents \cup DOMAIN open |->
                       IF b \in idents
                         THEN [Block(open, b) EXCEPT ![Place(b[1], Key)] = trace + 1]
                         ELSE open[b]]
        /\ todo' = UNION {{<<s, id>> : id \in LaneIdents(s, Lane(s, Key[1]))} : s \in ends}
        /\ trace' = trace + 1
        /\ UNCHANGED <<file, store, stage, scanner, writing, blobs, manifest, starts>>

\* The filesets commit one after the other; the fragments of a lane come in any order.
\* commit() yields a fragment, which open() truncates where it is a local file.
Open(b) ==
    /\ stage = "upload" /\ writing = {}
    /\ \A c \in todo : b[1] <= c[1]
    /\ writing' = {b}
    /\ blobs' = IF store = "local" THEN With(blobs, b, Torn) ELSE blobs
    /\ UNCHANGED <<file, store, stage, trace, scanner, open, todo, manifest, starts>>

Replaces(exists) == exists => store = "local"

\* Mutant: a fragment that no trace was put in is not written.
CommitTouched(b) ==
    /\ stage = "upload" /\ writing = {b} /\ Replaces(b \in DOMAIN blobs)
    /\ blobs' = IF b \in DOMAIN open THEN With(blobs, b, open[b]) ELSE blobs
    /\ open' = [c \in DOMAIN open \ {b} |-> open[c]]
    /\ todo' = todo \ {b} /\ writing' = {}
    /\ UNCHANGED <<file, store, stage, trace, scanner, manifest, starts>>

\* Mutant: the fragment is not dropped when it is written.
CommitKept(b) ==
    /\ stage = "upload" /\ writing = {b} /\ Replaces(b \in DOMAIN blobs)
    /\ blobs' = With(blobs, b, Block(open, b))
    /\ todo' = todo \ {b} /\ writing' = {}
    /\ UNCHANGED <<file, store, stage, trace, scanner, open, manifest, starts>>

\* The fragment is written, and dropped when commit() goes on.
Commit(b) ==
    /\ stage = "upload" /\ writing = {b} /\ Replaces(b \in DOMAIN blobs)
    /\ blobs' = With(blobs, b, Block(open, b))
    /\ open' = [c \in DOMAIN open \ {b} |-> open[c]]
    /\ todo' = todo \ {b} /\ writing' = {}
    /\ UNCHANGED <<file, store, stage, trace, scanner, manifest, starts>>

\* upload_blob() raises ResourceExistsError.
BlobExists(b) ==
    /\ stage = "upload" /\ writing = {b} /\ ~Replaces(b \in DOMAIN blobs)
    /\ stage' = "stopped" /\ writing' = {}
    /\ UNCHANGED <<file, store, trace, scanner, open, todo, blobs, manifest, starts>>

\* The sample interval, key3s[1] - key3s[0], needs two samples; then open() truncates the
\* manifest of a local file system.
OpenManifest ==
    /\ stage = "upload" /\ todo = {} /\ trace = TraceCount
    /\ IF file.samples < 2
         THEN stage' = "stopped" /\ UNCHANGED manifest
         ELSE /\ stage' = "manifest"
              /\ manifest' = IF store = "local" THEN NoManifest ELSE manifest
    /\ UNCHANGED <<file, store, trace, scanner, open, todo, writing, blobs, starts>>

WriteManifest ==
    /\ stage = "manifest"
    /\ IF Replaces(manifest # NoManifest)
         THEN stage' = "done" /\ manifest' = [lines |-> <<Lines(1), Lines(2)>>]
         ELSE stage' = "stopped" /\ UNCHANGED manifest
    /\ UNCHANGED <<file, store, trace, scanner, open, todo, writing, blobs, starts>>

\* Killed, stopped or done: upload starts from the first trace.
Start ==
    /\ stage \in {"upload", "manifest", "stopped", "done"} /\ starts < MaxStarts
    /\ stage' = "upload"
    /\ trace' = 0 /\ open' = <<>> /\ todo' = {} /\ writing' = {}
    /\ starts' = starts + 1
    /\ UNCHANGED <<file, store, scanner, blobs, manifest>>

Next ==
    \/ ScanHeader \/ ScanTrace \/ EndScan
    \/ Put \/ \E b \in todo : Open(b) \/ Commit(b) \/ BlobExists(b)
    \/ OpenManifest \/ WriteManifest \/ Start

Spec == Init /\ [][Next]_vars
-----------------------------------------------------------------------------
\* The fragments of a fileset, and all of them.
Ids(s) ==
    LET Along(d) == 0 .. FragmentCount(Cube(s), Shapes[s], d) - 1
    IN  Along(1) \X Along(2) \X Along(3)
Idents == UNION {{<<s, id>> : id \in Ids(s)} : s \in Filesets}

TypeOK ==
    /\ file \in Files /\ store \in Stores
    /\ stage \in {"header", "scan", "failed", "upload", "manifest", "stopped", "done"}
    /\ trace \in 0 .. TraceCount /\ starts \in 0 .. MaxStarts
    /\ last1s \in [DOMAIN last1s -> 0 .. TraceCount - 1]
    /\ writing \subseteq todo
    /\ todo \cup DOMAIN open \cup DOMAIN blobs \subseteq Idents
    /\ \A b \in DOMAIN blobs :
          blobs[b] = Torn \/ blobs[b] \in [DOMAIN Zeros(b[1]) -> 0 .. TraceCount]

\* The trace at a place of the cube: the last one in the file with these lines, if any.
TraceAt(key) == Max({0} \cup {t \in 1 .. TraceCount : file.traces[t] = key})

\* A stored fragment has at every place the trace with the lines of that place.
IsWhole(lines, s, id) ==
    \A xy \in DOMAIN Zeros(s) :
        LET g == ToGlobal(Shapes[s], id, <<xy[1], xy[2], 0>>) IN
        blobs[<<s, id>>][xy] = IF g[1] < Cube(s)[1] /\ g[2] < Cube(s)[2]
                                 THEN TraceAt(<<lines[1][g[1] + 1], lines[2][g[2] + 1]>>)
                                 ELSE 0

\* Once there is a manifest, every fragment of the cube that it describes is stored, those
\* without any trace too, and has at every place the trace with the lines of that place,
\* whatever the order of the traces and however often upload was killed.  The exception is
\* a local cube that upload writes again: fragments that this upload, or another one that
\* was killed, has truncated and not written are empty below the old manifest, until an
\* upload is done (commit() and the end of upload(), upload.py 104-147 and 333-386).
ManifestMeansComplete ==
    manifest # NoManifest => \A s \in Filesets : \A id \in Ids(s) :
        /\ <<s, id>> \in DOMAIN blobs
        /\ IF blobs[<<s, id>>] = Torn
             THEN store = "local" /\ stage = "upload"
             ELSE IsWhole(manifest.lines, s, id)

\* What is stored is final: no upload writes a fragment twice ("Calling commit() on the
\* same lane twice will result in the second call giving all zero-padded files", upload.py
\* 125-126).  Only an upload that was started again, of a local cube, truncates a fragment
\* that has its samples, and one that is written after it was truncated gets the samples
\* of the whole file, which are those it had.
FragmentsAreFinal ==
    [][\A s \in Filesets : \A id \in Ids(s) :
          LET b == <<s, id>> IN
          b \in DOMAIN blobs =>
             /\ b \in DOMAIN blobs'
             /\ blobs'[b] # blobs[b] =>
                   IF blobs[b] = Torn THEN IsWhole(<<Lines(1), Lines(2)>>, s, id)'
                   ELSE blobs'[b] = Torn /\ store = "local" /\ starts > 0]_vars

\* Upload holds only fragments of lanes with traces to come ("Commit will prune files
\* whenever it can, to keep resource usage low", upload.py 123-124).
LanesArePruned ==
    stage = "upload" /\ todo = {} =>
        \A b \in DOMAIN open : SetLimits(b[1], b[2][1]) >= trace

\* Of all traces read, those that GeoScanner holds are nearest to the three corners of
\* the lines read, though the corners move while it reads and traces it has passed over
\* are forgotten ("we find the nearest", scanners.py 214-218).
CornersAreNearest ==
    stage = "scan" => \A p \in 0 .. 2 : \A t \in 1 .. trace :
        Manhattan(corners[p], Target(limits, p)) <= Manhattan(file.traces[t], Target(limits, p))
=============================================================================
