----------------------------- MODULE MCRunStream -----------------------------
(* An instance of a run, its stream and the client of the stream. *)
EXTENDS RunStream

CONSTANT FirstWorker

\* the workers are alike, and nothing happens before the start of the run: the behaviours
\* that start it on another worker are those of FirstWorker with the two names exchanged
StartedOnFirst == on["start"] \in {NoWorker, FirstWorker}

Paused == {"awaiting_approval"}

=============================================================================
