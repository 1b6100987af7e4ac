----------------------------- MODULE JobOutcome -----------------------------
(***************************************************************************)
(* What a fetch node promises about the tasks of the "jobs" stream, with   *)
(* no goroutine, channel or download in sight: a task is taken at most     *)
(* once, and a task that was taken ends as a stored part or as a failure,  *)
(* never both and never undone.  Messages are read with NoAck, so a node   *)
(* that dies takes every task it was running with it (Fail takes a set).   *)
(***************************************************************************)
CONSTANT Tasks
VARIABLE status

Init == status = [t \in Tasks |-> "queued"]

Running == {t \in Tasks : status[t] = "running"}

Take(t) ==
    /\ status[t] = "queued"
    /\ status' = [status EXCEPT ![t] = "running"]

\* A message whose task cannot be turned into a process is dropped as it is read.
Drop(t) ==
    /\ status[t] = "queued"
    /\ status' = [status EXCEPT ![t] = "failed"]

Store(t) ==
    /\ status[t] = "running"
    /\ status' = [status EXCEPT ![t] = "stored"]

Fail(T) ==
    /\ T \subseteq Running
    /\ status' = [t \in Tasks |-> IF t \in T THEN "failed" ELSE status[t]]

Next ==
    \/ \E t \in Tasks : Take(t) \/ Drop(t) \/ Store(t)
    \/ \E T \in SUBSET Tasks : Fail(T)

Settle(t) ==
    /\ status[t] = "running"
    /\ Next
    /\ status'[t] \in {"stored", "failed"}

Safety == Init /\ [][Next]_status

Spec == Safety /\ \A t \in Tasks : WF_status(Settle(t))
=============================================================================
