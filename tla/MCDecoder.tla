------------------------------ MODULE MCDecoder ------------------------------
(***************************************************************************)
(* Messages of three bundles of two attributes, cut and ended anywhere,    *)
(* with a right and a wrong length, for both drivers.                      *)
(***************************************************************************)
EXTENDS Decoder

MCAttrs  == {"data", "cdpx"}
MCAttrOf == [k \in 1 .. 3 |-> IF k = 2 THEN "cdpx" ELSE "data"]
=============================================================================
