------------------------ MODULE MCWorkerFoundation ------------------------
(* Instances of WorkerFoundation for TLC.                                  *)
EXTENDS WorkerFoundation

CONSTANTS a, b      \* two sources

OneSource == [j \in Jobs |-> a]
\* Odd jobs belong to a, even jobs to b.
TwoSources == [j \in Jobs |-> IF j % 2 = 1 THEN a ELSE b]
SamePriority == [j \in Jobs |-> 1]
\* Every job owns every signal, as a job and the job of its restart do.
SharedSignals == [j \in Jobs |-> Signals]
NoSignals == [j \in Jobs |-> {}]
AllJobs == Jobs
\* The handler version of the first job is no longer registered.
AllButFirst == Jobs \ {1}
AdmitAll == [w \in Workers |-> Jobs]
\* Processes that present the same worker id, as one and its restart do.
SameId == [w \in Workers |-> "supervisor"]
=============================================================================
