------------------------------- MODULE MCIngest -------------------------------
(***************************************************************************)
(* Files of up to four traces of three by two lines with gaps between      *)
(* them, in any order, with holes and with duplicates.  The fragments of   *)
(* the data and those of the attribute have lanes of different width.      *)
(* Upload is started again twice: a local cube is written again over a     *)
(* manifest, killed between truncating a fragment and writing it, and      *)
(* written once more.                                                      *)
(***************************************************************************)
EXTENDS Ingest

MCShapes == <<<<2, 1, 2>>, <<1, 2, 1>>>>

Pairs == {1, 2, 5} \X {10, 13}

Good ==
    [traces : BoundedSeq(Pairs, 3), samples : {2}, exthead : {0}, truncated : {FALSE}]

\* Files of four traces that have all lines, one of them twice, and two fragments in depth.
Long ==
    {f \in [traces : [1 .. 4 -> Pairs], samples : {3}, exthead : {0}, truncated : {FALSE}] :
        /\ f.traces[1] = <<2, 10>>
        /\ \A p \in Pairs : \E t \in 1 .. 4 : f.traces[t][1] = p[1]
        /\ f.traces[3][2] = 13 /\ f.traces[4] # f.traces[3]}

\* Files that scan or upload does not take.
Bad ==
    [traces : {<<<<1, 10>>, <<2, 13>>>>}, samples : {1, 3}, exthead : {0, 1},
     truncated : BOOLEAN]

MCFiles == Good \cup Long \cup Bad
=============================================================================
