--------------------------- MODULE MCEventWorker ----------------------------
(***************************************************************************)
(* Instances of EventWorker for TLC: one fault budget per question.        *)
(***************************************************************************)
EXTENDS EventWorker, TLC

CONSTANTS w1, w2, e1, e2

OneWorker  == {w1}
TwoWorkers == {w1, w2}
TwoEvents  == {e1, e2}

NoFaults == [k \in FaultKinds |-> 0]

\* Every kind of trouble, once each.
AllFaults == [k \in FaultKinds |-> 1]

\* The database fails, up to as often as one event is tried; the group or the
\* stream is lost once; one Redis call fails before it took effect; one event
\* is published twice and one entry is unreadable.
Recoverable == [NoFaults EXCEPT !["db"] = DbMaxRetries, !["redis"] = 1,
                                !["lose"] = 1, !["dup"] = 1, !["junk"] = 1]

\* One worker process is killed once.
OneCrash == [NoFaults EXCEPT !["crash"] = 1]

Symmetry == Permutations(TwoWorkers) \cup Permutations(TwoEvents)
=============================================================================
