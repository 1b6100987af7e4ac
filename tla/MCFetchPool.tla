----------------------------- MODULE MCFetchPool -----------------------------
(***************************************************************************)
(* Two tasks that share two workers: the first has as many fragments as    *)
(* there are workers, so its channels are exactly large enough.            *)
(***************************************************************************)
EXTENDS FetchPool

CONSTANTS t1, t2

MCTasks  == {t1, t2}
MCNFrags == [t \in MCTasks |-> 2]
=============================================================================
