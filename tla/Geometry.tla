------------------------------- MODULE Geometry -------------------------------
(***************************************************************************)
(* The geometry of a cube that is cut into fragments of one shape          *)
(* (core/include/oneseismic/geometry.hpp and geometry.impl.hpp).           *)
(*                                                                         *)
(* A shape and a point are sequences, of three dimensions or of two after  *)
(* squeeze().  Dimension d is 1 .. 3 here and 0 .. 2 in the code; points,  *)
(* fragment ids and offsets count from 0, as in the code.  cs is the shape *)
(* of the cube, fs that of a fragment.  The last fragment of a dimension   *)
(* is padded to its full shape.                                            *)
(***************************************************************************)
EXTENDS Integers, SequencesExt

\* CS and FS, CP, FP and FID, of the dimensions D, and the places of an inner box in an
\* outer one: chunks of values that are superstride apart there and substride in itself.
ShapesOver(D)       == [D -> Nat \ {0}]
Dimension(ND)       == 1 .. ND
FragmentCount(cs, fs, d) == (cs[d] + (fs[d] - 1)) \div fs[d]
CubePoints(cs)      == {p \in [DOMAIN cs -> Nat] : \A d \in DOMAIN cs : p[d] < cs[d]}
FragmentPoints(fs)  == {p \in [DOMAIN fs -> Nat] : \A d \in DOMAIN fs : p[d] < fs[d]}
FragmentIds(cs, fs) ==
    {id \in [DOMAIN cs -> Nat] : \A d \in DOMAIN cs : id[d] < FragmentCount(cs, fs, d)}
slice_layout == [iterations : Nat, chunk_size : Nat, initial_skip : Nat,
                 superstride : Nat, substride : Nat]

Product(s) == FoldLeft(LAMBDA x, y : x * y, 1, s)
Squeeze(s, d) == RemoveAt(s, d)

\* The place of a point in its fragment, of a plane in its fragments, and back.
ToLocal(fs, p)      == [d \in DOMAIN p |-> p[d] % fs[d]]
LocalIndex(fs, d, i) == i % fs[d]
FragId(fs, p)       == [d \in DOMAIN p |-> p[d] \div fs[d]]
ToGlobal(fs, id, p) == [d \in DOMAIN p |-> id[d] * fs[d] + p[d]]

Padding(cs, fs, id, d) ==
    IF id[d] # FragmentCount(cs, fs, d) - 1 \/ cs[d] % fs[d] = 0 THEN 0
    ELSE fs[d] - (cs[d] % fs[d])

\* The row-major position of p in a box, and the point at a position.
Offset(p, box) ==
    FoldLeft(LAMBDA acc, d : acc * box[d] + p[d], 0, [d \in DOMAIN p |-> d])
PointAt(off, box) ==
    [d \in DOMAIN box |-> (off \div Product(SubSeq(box, d + 1, Len(box)))) % box[d]]

\* cartesian_product(): the points of the box between begins and ends, row by row.
BoxPoints(begins, ends) ==
    LET extent == [d \in DOMAIN begins |-> ends[d] - begins[d]] IN
    [k \in 1 .. Product(extent) |->
        LET p == PointAt(k - 1, extent) IN [d \in DOMAIN p |-> begins[d] + p[d]]]

\* The ids of the fragments that plane no of dimension d goes through.
SliceIds(cs, fs, d, no) ==
    LET i == no \div fs[d] IN
    BoxPoints([x \in DOMAIN cs |-> IF x = d THEN i ELSE 0],
              [x \in DOMAIN cs |-> IF x = d THEN i + 1 ELSE FragmentCount(cs, fs, x)])
AllIds(cs, fs) ==
    BoxPoints([d \in DOMAIN cs |-> 0], [d \in DOMAIN cs |-> FragmentCount(cs, fs, d)])

\* Where the samples of plane 0 of dimension d are in a fragment.
SliceStride(fs, d) ==
    LET inner == Product(SubSeq(fs, d + 1, Len(fs))) IN
    [iterations   |-> Product(SubSeq(fs, 1, d - 1)),
     chunk_size   |-> inner,
     initial_skip |-> inner,
     superstride  |-> Product(SubSeq(fs, d, Len(fs))),
     substride    |-> inner]

\* Mutant: the chunks of a fragment are copied with their padding.
InjectionStridePadded(cs, fs, id) ==
    LET last == Len(cs)
        real == [d \in DOMAIN cs |-> fs[d] - Padding(cs, fs, id, d)]
    IN  [iterations   |-> Product(Front(real)),
         chunk_size   |-> fs[last],
         initial_skip |-> Offset(ToGlobal(fs, id, [d \in DOMAIN cs |-> 0]), cs),
         superstride  |-> cs[last],
         substride    |-> fs[last]]

\* Where the samples of a fragment go in the array of the cube, without its padding.
InjectionStride(cs, fs, id) ==
    LET last == Len(cs)
        real == [d \in DOMAIN cs |-> fs[d] - Padding(cs, fs, id, d)]
    IN  [iterations   |-> Product(Front(real)),
         chunk_size   |-> real[last],
         initial_skip |-> Offset(ToGlobal(fs, id, [d \in DOMAIN cs |-> 0]), cs),
         superstride  |-> cs[last],
         substride    |-> fs[last]]
=============================================================================
