--------------------------- MODULE MCTaskScheduler ---------------------------
(* Instances of TaskScheduler for TLC. *)
EXTENDS TaskScheduler, TLC

\* The instance with several tasks is about the reuse of results.  Its tasks are
\* neither canceled nor expired (an abandoned task has no result to reuse), and
\* at most one handler is between its first step and its transaction.
ReuseOnly ==
    /\ expiring = {} /\ canceling = {}
    /\ \A t \in Tasks : ~expired[t]
    /\ Cardinality(reaping) + Cardinality(burying) <= 1
=============================================================================
