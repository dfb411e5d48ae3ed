---------------------------- MODULE RunContract ----------------------------
(***************************************************************************)
(* What the run manager promises a client that resumes a run once per      *)
(* pause: the life of a run as its status and its event log show it.       *)
(*                                                                         *)
(* The statuses are those of ResearchRunManager, the events those of       *)
(* EventType, with every node event written NODE.                          *)
(***************************************************************************)
EXTENDS Naturals, Sequences

CONSTANT Runs

Terminal == {"completed", "failed", "cancelled"}
Statuses == {"absent", "running", "awaiting_approval"} \cup Terminal

TerminalEvents == {"RUN_COMPLETED", "RUN_FAILED", "RUN_CANCELLED"}
Events == {"RUN_STARTED", "NODE", "HITL_PAUSED", "HITL_RESUMED", "CACHE_HIT"}
            \cup TerminalEvents

VARIABLES
  status,  \* the status a client reads
  log      \* the events published so far, in order

vars == <<status, log>>

Init == status = [r \in Runs |-> "absent"] /\ log = [r \in Runs |-> <<>>]

\* run r goes from one of the statuses in from to status to, publishing events
Step(r, from, to, events) ==
  /\ status[r] \in from
  /\ status' = [status EXCEPT ![r] = to]
  /\ log' = [log EXCEPT ![r] = @ \o events]

Accept(r)   == Step(r, {"absent"}, "running", <<"RUN_STARTED">>)
Progress(r) == Step(r, {"running"}, "running", <<"NODE">>)
Pause(r)    == Step(r, {"running"}, "awaiting_approval", <<"HITL_PAUSED">>)
Resume(r)   == Step(r, {"awaiting_approval"}, "running", <<"HITL_RESUMED">>)
Cancel(r)   == Step(r, {"running", "awaiting_approval"}, "cancelled", <<"RUN_CANCELLED">>)
Fail(r)     == Step(r, {"running"}, "failed", <<"RUN_FAILED">>)
FromCache(r) == Step(r, {"running"}, "completed", <<"CACHE_HIT", "RUN_COMPLETED">>)

\* a graph's result is stored first and announced once it is archived
Complete(r) == Step(r, {"running"}, "completed", <<>>)
Announce(r) ==
  /\ \A i \in 1..Len(log[r]) : log[r][i] \notin TerminalEvents
  /\ Step(r, {"completed"}, "completed", <<"RUN_COMPLETED">>)

Next == \E r \in Runs :
  \/ Accept(r)
  \/ Progress(r)
  \/ Pause(r)
  \/ Resume(r)
  \/ Cancel(r)
  \/ Fail(r)
  \/ FromCache(r)
  \/ Complete(r)
  \/ Announce(r)

Spec == Init /\ [][Next]_vars

=============================================================================
