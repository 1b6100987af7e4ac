---------------------------- MODULE MCResultServer ----------------------------
(***************************************************************************)
(* One Get and one Stream of the same process, whose result has two parts. *)
(* Time is in units of 2.5 minutes.                                       *)
(***************************************************************************)
EXTENDS ResultServer

CONSTANTS g1, s1

MCGets    == {g1}
MCStreams == {s1}
=============================================================================
