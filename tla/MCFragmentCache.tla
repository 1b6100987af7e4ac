--------------------------- MODULE MCFragmentCache ---------------------------
(***************************************************************************)
(* Two workers and two fragments, each uploaded and replaced up to twice:  *)
(* an entry can be current, one version late or two.                       *)
(***************************************************************************)
EXTENDS FragmentCache, TLC

CONSTANTS w1, w2, b1, b2

MCWorkers == {w1, w2}
MCBlobs   == {b1, b2}
Symmetry  == Permutations(MCWorkers) \cup Permutations(MCBlobs)
=============================================================================
