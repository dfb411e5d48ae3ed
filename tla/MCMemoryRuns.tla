---------------------------- MODULE MCMemoryRuns ----------------------------
(* Instances of the in-memory run manager: model values for runs and streams. *)
EXTENDS MemoryRuns

AnyStatus == Statuses
Paused == {"awaiting_approval"}

=============================================================================
