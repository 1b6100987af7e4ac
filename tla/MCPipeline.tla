------------------------------ MODULE MCPipeline ------------------------------
(***************************************************************************)
(* Two queries, of two tasks and of one, and two fetch nodes.              *)
(***************************************************************************)
EXTENDS Pipeline

CONSTANTS q1, q2, n1, n2, p1, p2

MCQueries == {q1, q2}
MCNodes   == {n1, n2}
MCPids    == {p1, p2}
MCNTasks  == [q \in MCQueries |-> IF q = q1 THEN 2 ELSE 1]

\* The queries are in two HTTP requests, or are two fields of one.
TwoRequests == [q \in MCQueries |-> IF q = q1 THEN p1 ELSE p2]
OneRequest  == [q \in MCQueries |-> p1]
=============================================================================
