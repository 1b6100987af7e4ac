------------------------------ MODULE MCSession ------------------------------
(***************************************************************************)
(* A request for one cube, one for three cubes of which the last has a     *)
(* broken manifest, and one that asks for a cube twice, by aliases, on two *)
(* sessions.                                                               *)
(***************************************************************************)
EXTENDS Session

CONSTANTS r1, r2, r3, a, b, c, d, s1, s2

MCRequests == {r1, r2, r3}
MCCubes    == {a, b, c, d}
MCAsks     == [r \in MCRequests |->
                  CASE r = r1 -> <<a>> [] r = r2 -> <<b, c, d>> [] r = r3 -> <<a, a>>]
=============================================================================
