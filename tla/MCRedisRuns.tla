---------------------------- MODULE MCRedisRuns ----------------------------
(* Instances of the Redis run manager: one run, two workers. *)
EXTENDS RedisRuns

CONSTANT FirstWorker

\* the workers are alike, and nothing happens before the start of the run: the behaviours
\* that start it on another worker are those of FirstWorker with the two names exchanged
StartedOnFirst == on["start"] \in {NoWorker, FirstWorker}

AnyStatus == Statuses
Paused == {"awaiting_approval"}

=============================================================================
