----------------------------- MODULE MemoryRuns -----------------------------
(***************************************************************************)
(* ResearchRunManager over InMemoryRunStore: one process, one event loop.  *)
(*                                                                         *)
(* A coroutine gives the loop away only where it really waits.  No method  *)
(* of InMemoryRunStore waits (its queue is unbounded and its lock is never *)
(* held across a wait), so publishing, cancelling, and resuming without    *)
(* edits are single steps.  The waits are those on the graph (astream,     *)
(* aget_state, aupdate_state), on the semantic cache, on the report        *)
(* archive, and a stream's on its queue.  One action is the code between   *)
(* two waits.                                                              *)
(*                                                                         *)
(* The compiled graph and its checkpointer are external here: a thread is  *)
(* the number of node updates its latest checkpoint holds, of Total, and   *)
(* with Hitl the graph stops once before the update that follows Pre.      *)
(***************************************************************************)
EXTENDS Integers, Sequences, FiniteSets

CONSTANTS
  Runs,       \* run ids
  Streams,    \* SSE connections
  Pre, Total, \* node updates before the interrupt, and of a whole pass
  Hitl,       \* ENABLE_HITL = "1"
  UseCache,   \* semantic_cache_enabled()
  ResumeAt,   \* the statuses at which clients' resume requests arrive
  UseEdits,   \* clients resume with edited evidence too
  MaxExecs    \* bound: executions of one run, the first and one per resume

Terminal == {"completed", "failed", "cancelled"}
Statuses == {"absent", "running", "awaiting_approval"} \cup Terminal
TerminalEvents == {"RUN_COMPLETED", "RUN_FAILED", "RUN_CANCELLED"}
Events == {"RUN_STARTED", "NODE", "HITL_PAUSED", "HITL_RESUMED", "CACHE_HIT"}
            \cup TerminalEvents

Execs == 1..MaxExecs

NoRun == "no run"

ASSUME ConstantsAssumption ==
  /\ Pre \in Nat \ {0} /\ Total \in Nat /\ Pre < Total
  /\ Hitl \in BOOLEAN /\ UseCache \in BOOLEAN /\ UseEdits \in BOOLEAN
  /\ ResumeAt \subseteq Statuses
  /\ MaxExecs \in Nat \ {0}
  /\ NoRun \notin Runs

VARIABLES
  \* InMemoryRunStore's record of a run
  status, cancel_event, final_report,
  queue,       \* numbers of the published events that no stream has taken
  log,         \* the events published so far; their index is their sequence number
  \* ResearchRunManager
  starting,    \* start_research_run is waiting for the cache lookup
  editing,     \* a resume_run is waiting for aupdate_state
  launched,    \* _execute tasks created so far; _tasks holds the last one
  phase,       \* what each task waits for
  pos, from,   \* node updates the task's thread has seen, and where it began
  cancelling,  \* Task.cancel() called, CancelledError not thrown yet
  \* the graph's checkpointer
  checkpoint,
  \* SSE connections
  streamOf, streaming, got,
  taken,       \* history: events some stream took from the queue and did not send
  archived     \* history: reports archived

record == <<status, cancel_event, final_report, queue, log>>
manager == <<starting, editing, launched>>
tasks == <<phase, pos, from, cancelling, checkpoint>>
connections == <<streamOf, streaming, got, taken>>
vars == <<record, manager, tasks, connections, archived>>

Phases == {"none", "scheduled", "graph", "snapshot", "archive", "cache", "done"}

NoReport == 0

Init ==
  /\ status = [r \in Runs |-> "absent"]
  /\ cancel_event = [r \in Runs |-> FALSE]
  /\ final_report = [r \in Runs |-> NoReport]
  /\ queue = [r \in Runs |-> <<>>]
  /\ log = [r \in Runs |-> <<>>]
  /\ starting = [r \in Runs |-> FALSE]
  /\ editing = [r \in Runs |-> FALSE]
  /\ launched = [r \in Runs |-> 0]
  /\ phase = [r \in Runs |-> [k \in Execs |-> "none"]]
  /\ pos = [r \in Runs |-> [k \in Execs |-> 0]]
  /\ from = [r \in Runs |-> [k \in Execs |-> 0]]
  /\ cancelling = [r \in Runs |-> [k \in Execs |-> FALSE]]
  /\ checkpoint = [r \in Runs |-> 0]
  /\ streamOf = [s \in Streams |-> NoRun]
  /\ streaming = [s \in Streams |-> FALSE]
  /\ got = [s \in Streams |-> <<>>]
  /\ taken = [r \in Runs |-> {}]
  /\ archived = [r \in Runs |-> 0]

-----------------------------------------------------------------------------
(* Steps shared by the handlers *)

\* InMemoryRunStore.update_run
SetStatus(r, s) == status' = [status EXCEPT ![r] = s]

\* _publish: number each event and put it on the run's queue
Publish(r, events) ==
  /\ log' = [log EXCEPT ![r] = @ \o events]
  /\ queue' = [queue EXCEPT ![r] = @ \o [i \in 1..Len(events) |-> Len(log[r]) + i]]

\* (mutation) no second task while the last one is alive
LaunchUnlessAlive(r) ==
  IF launched[r] > 0 /\ phase[r][launched[r]] # "done"
    THEN UNCHANGED <<launched, phase>>
    ELSE /\ launched' = [launched EXCEPT ![r] = @ + 1]
         /\ phase' = [phase EXCEPT ![r][launched[r] + 1] = "scheduled"]

\* asyncio.create_task(self._execute(...)), kept in _tasks[run_id]
Launch(r) ==
  /\ launched' = [launched EXCEPT ![r] = @ + 1]
  /\ phase' = [phase EXCEPT ![r][launched[r] + 1] = "scheduled"]

Goto(r, k, p) == phase' = [phase EXCEPT ![r][k] = p]

Alive(r, k) == phase[r][k] \notin {"none", "done"}

\* task k goes on from waiting in phase p
Wakes(r, k, p) == phase[r][k] = p /\ ~cancelling[r][k]

-----------------------------------------------------------------------------
(* ResearchRunManager.start_research_run *)

Start(r) ==
  /\ status[r] = "absent"
  /\ SetStatus(r, "running")
  /\ Publish(r, <<"RUN_STARTED">>)
  /\ IF UseCache
       THEN starting' = [starting EXCEPT ![r] = TRUE] /\ UNCHANGED <<launched, phase>>
       ELSE Launch(r) /\ UNCHANGED starting
  /\ UNCHANGED <<cancel_event, final_report, editing, pos, from, cancelling,
                 checkpoint, connections, archived>>

\* the lookup found no similar query, or failed
CacheMiss(r) ==
  /\ starting[r]
  /\ starting' = [starting EXCEPT ![r] = FALSE]
  /\ Launch(r)
  /\ UNCHANGED <<record, editing, pos, from, cancelling, checkpoint, connections, archived>>

\* _complete_from_cache
CacheHit(r) ==
  /\ starting[r]
  /\ starting' = [starting EXCEPT ![r] = FALSE]
  /\ SetStatus(r, "completed")
  /\ final_report' = [final_report EXCEPT ![r] = Total]
  /\ Publish(r, <<"CACHE_HIT", "RUN_COMPLETED">>)
  /\ UNCHANGED <<cancel_event, editing, launched, tasks, connections, archived>>

\* the run id is known to clients once start_research_run has returned
Known(r) == status[r] # "absent" /\ ~starting[r]

-----------------------------------------------------------------------------
(* ResearchRunManager._execute, as task k of run r *)

\* the task begins: a new thread from its inputs, or the latest checkpoint of the thread
Begin(r, k) ==
  /\ Wakes(r, k, "scheduled")
  /\ LET start == IF k = 1 THEN 0 ELSE checkpoint[r]
     IN  pos' = [pos EXCEPT ![r][k] = start] /\ from' = [from EXCEPT ![r][k] = start]
  /\ Goto(r, k, "graph")
  /\ UNCHANGED <<record, manager, cancelling, checkpoint, connections, archived>>

\* (mutation) off by one at the end of the graph
HasUpdateOffByOne(r, k) ==
  pos[r][k] <= Total /\ ~(Hitl /\ pos[r][k] = Pre /\ from[r][k] # Pre)

\* (mutation) only the first execution stops at the interrupt
HasUpdateResumed(r, k) ==
  pos[r][k] < Total /\ ~(Hitl /\ pos[r][k] = Pre /\ k = 1)

\* astream stops before the synthesizer, unless this stream was resumed there
HasUpdate(r, k) ==
  pos[r][k] < Total /\ ~(Hitl /\ pos[r][k] = Pre /\ from[r][k] # Pre)

\* InMemoryRunStore.is_cancelled
IsCancelled(r) == cancel_event[r]

\* a node has run and its checkpoint is stored; the update is published unless the run
\* was cancelled meanwhile, in which case the task ends as if it had been cancelled
NodeUpdate(r, k) ==
  /\ Wakes(r, k, "graph") /\ HasUpdate(r, k)
  /\ pos' = [pos EXCEPT ![r][k] = @ + 1]
  /\ checkpoint' = [checkpoint EXCEPT ![r] = pos[r][k] + 1]
  /\ \/ /\ IsCancelled(r)
        /\ SetStatus(r, "cancelled")
        /\ Goto(r, k, "done")
        /\ UNCHANGED <<log, queue>>
     \/ /\ ~IsCancelled(r)
        /\ Publish(r, <<"NODE">>)
        /\ UNCHANGED <<status, phase>>
  /\ UNCHANGED <<cancel_event, final_report, manager, from, cancelling, connections, archived>>

\* astream is exhausted: the task asks the checkpointer for the thread's state
GraphStops(r, k) ==
  /\ Wakes(r, k, "graph") /\ ~HasUpdate(r, k)
  /\ Goto(r, k, "snapshot")
  /\ UNCHANGED <<record, manager, pos, from, cancelling, checkpoint, connections, archived>>

\* (mutation) pauses whenever approval is enabled, wherever the thread stands
AtInterruptAnywhere(r) == Hitl

\* (mutation) approval ignored
AtInterruptNever(r) == FALSE

\* hitl_enabled() and "synthesizer" among the next nodes of the thread's state
AtInterrupt(r) == Hitl /\ checkpoint[r] = Pre

Pause(r, k) ==
  /\ Wakes(r, k, "snapshot") /\ AtInterrupt(r)
  /\ SetStatus(r, "awaiting_approval")
  /\ Publish(r, <<"HITL_PAUSED">>)
  /\ Goto(r, k, "done")
  /\ UNCHANGED <<cancel_event, final_report, manager, pos, from, cancelling, checkpoint,
                 connections, archived>>

\* otherwise the run is completed; only a whole report is archived, and waited for
Complete(r, k) ==
  /\ Wakes(r, k, "snapshot") /\ ~AtInterrupt(r)
  /\ SetStatus(r, "completed")
  /\ final_report' = [final_report EXCEPT ![r] = checkpoint[r]]
  /\ \/ checkpoint[r] = Total /\ Goto(r, k, "archive") /\ UNCHANGED <<log, queue>>
     \/ checkpoint[r] # Total /\ Goto(r, k, "done") /\ Publish(r, <<"RUN_COMPLETED">>)
  /\ UNCHANGED <<cancel_event, manager, pos, from, cancelling, checkpoint, connections, archived>>

\* _archive_report returns, whether the report was stored or not; _save_cache waits only
\* when the cache is on
Archive(r, k) ==
  /\ Wakes(r, k, "archive")
  /\ \E stored \in {0, 1} : archived' = [archived EXCEPT ![r] = @ + stored]
  /\ \/ UseCache /\ Goto(r, k, "cache") /\ UNCHANGED <<log, queue>>
     \/ ~UseCache /\ Goto(r, k, "done") /\ Publish(r, <<"RUN_COMPLETED">>)
  /\ UNCHANGED <<status, cancel_event, final_report, manager, pos, from, cancelling,
                 checkpoint, connections>>

\* (mutation) an exception of the cache also skips the event that follows it
SaveCacheSilently(r, k) ==
  /\ Wakes(r, k, "cache")
  /\ Goto(r, k, "done")
  /\ UNCHANGED <<record, manager, pos, from, cancelling, checkpoint, connections, archived>>

SaveCache(r, k) ==
  /\ Wakes(r, k, "cache")
  /\ Goto(r, k, "done")
  /\ Publish(r, <<"RUN_COMPLETED">>)
  /\ UNCHANGED <<status, cancel_event, final_report, manager, pos, from, cancelling,
                 checkpoint, connections, archived>>

\* (mutation) the exception ends the task and nothing else
RaisesUnhandled(r, k) ==
  /\ Wakes(r, k, "graph") \/ Wakes(r, k, "snapshot")
  /\ Goto(r, k, "done")
  /\ UNCHANGED <<record, manager, pos, from, cancelling, checkpoint, connections, archived>>

\* a node or the checkpointer raises
Raises(r, k) ==
  /\ Wakes(r, k, "graph") \/ Wakes(r, k, "snapshot")
  /\ SetStatus(r, "failed")
  /\ Publish(r, <<"RUN_FAILED">>)
  /\ Goto(r, k, "done")
  /\ UNCHANGED <<cancel_event, final_report, manager, pos, from, cancelling, checkpoint,
                 connections, archived>>

\* CancelledError is thrown where the task waits; a task that has not begun has no handler
Cancelled(r, k) ==
  /\ cancelling[r][k] /\ Alive(r, k)
  /\ IF phase[r][k] = "scheduled" THEN UNCHANGED status ELSE SetStatus(r, "cancelled")
  /\ Goto(r, k, "done")
  /\ UNCHANGED <<cancel_event, final_report, queue, log, manager, pos, from, cancelling,
                 checkpoint, connections, archived>>

-----------------------------------------------------------------------------
(* ResearchRunManager.resume_run and cancel_run *)

MayResume(r) ==
  /\ Known(r) /\ status[r] \in ResumeAt \ Terminal
  /\ launched[r] + (IF editing[r] THEN 1 ELSE 0) < MaxExecs

Resumed(r) ==
  /\ SetStatus(r, "running")
  /\ Publish(r, <<"HITL_RESUMED">>)
  /\ Launch(r)

Resume(r) ==
  /\ MayResume(r)
  /\ Resumed(r)
  /\ UNCHANGED <<cancel_event, final_report, starting, editing, pos, from, cancelling,
                 checkpoint, connections, archived>>

\* with edits, the status that was checked is no longer looked at after aupdate_state
ResumeWithEdits(r) ==
  /\ UseEdits /\ MayResume(r) /\ ~editing[r]
  /\ editing' = [editing EXCEPT ![r] = TRUE]
  /\ UNCHANGED <<record, starting, launched, tasks, connections, archived>>

EditsApplied(r) ==
  /\ editing[r]
  /\ editing' = [editing EXCEPT ![r] = FALSE]
  /\ Resumed(r)
  /\ UNCHANGED <<cancel_event, final_report, starting, pos, from, cancelling,
                 checkpoint, connections, archived>>

\* aupdate_state raises and the request ends with an error
EditsRefused(r) ==
  /\ editing[r]
  /\ editing' = [editing EXCEPT ![r] = FALSE]
  /\ UNCHANGED <<record, starting, launched, tasks, connections, archived>>

\* (mutation) cancel_run does not look at the status
MayCancelAlways(r) == Known(r)

MayCancel(r) == Known(r) /\ status[r] \notin Terminal

\* only the task launched last is in _tasks
Cancel(r) ==
  /\ MayCancel(r)
  /\ cancel_event' = [cancel_event EXCEPT ![r] = TRUE]
  /\ cancelling' = [cancelling EXCEPT ![r] =
       [k \in Execs |-> @[k] \/ (k = launched[r] /\ Alive(r, k))]]
  /\ SetStatus(r, "cancelled")
  /\ Publish(r, <<"RUN_CANCELLED">>)
  /\ UNCHANGED <<final_report, manager, phase, pos, from, checkpoint, connections, archived>>

-----------------------------------------------------------------------------
(* InMemoryRunStore.stream_events behind an SSE connection *)

Connect(s, r) ==
  /\ streamOf[s] = NoRun /\ Known(r)
  /\ streamOf' = [streamOf EXCEPT ![s] = r]
  /\ streaming' = [streaming EXCEPT ![s] = TRUE]
  /\ UNCHANGED <<record, manager, tasks, got, taken, archived>>

\* (mutation) the event stays on the queue
TakePeeking(r) == queue[r] # <<>> /\ UNCHANGED queue

\* queue.get()
Take(r) == queue[r] # <<>> /\ queue' = [queue EXCEPT ![r] = Tail(@)]

\* a stream takes the next event from the queue that all streams of the run share
Deliver(s, r) ==
  /\ streaming[s] /\ streamOf[s] = r /\ Take(r)
  /\ got' = [got EXCEPT ![s] = Append(@, Head(queue[r]))]
  /\ streaming' = [streaming EXCEPT ![s] = log[r][Head(queue[r])] \notin TerminalEvents]
  /\ UNCHANGED <<status, cancel_event, final_report, log, manager, tasks, streamOf, taken, archived>>

\* (mutation) a stream waits for completion only
OverWhenCompleted(r) == status[r] = "completed"

Over(r) == status[r] \in Terminal

\* a quarter of a second without an event, and the run is over
TimeOut(s, r) ==
  /\ streaming[s] /\ streamOf[s] = r /\ queue[r] = <<>> /\ Over(r)
  /\ streaming' = [streaming EXCEPT ![s] = FALSE]
  /\ UNCHANGED <<record, manager, tasks, streamOf, got, taken, archived>>

\* the client goes away: while the stream waits, or with an event already taken
Disconnect(s, r) ==
  /\ streaming[s] /\ streamOf[s] = r
  /\ streaming' = [streaming EXCEPT ![s] = FALSE]
  /\ \/ UNCHANGED <<queue, taken>>
     \/ /\ Take(r)
        /\ taken' = [taken EXCEPT ![r] = @ \cup {Head(queue[r])}]
  /\ UNCHANGED <<status, cancel_event, final_report, log, manager, tasks, streamOf, got, archived>>

-----------------------------------------------------------------------------

\* what the event loop runs to its next wait
Task(r, k) ==
  \/ Begin(r, k)
  \/ NodeUpdate(r, k)
  \/ GraphStops(r, k)
  \/ Pause(r, k)
  \/ Complete(r, k)
  \/ Archive(r, k)
  \/ SaveCache(r, k)
  \/ Raises(r, k)
  \/ Cancelled(r, k)

Request(r) ==
  \/ Start(r)
  \/ Resume(r)
  \/ ResumeWithEdits(r)
  \/ Cancel(r)

Answer(r) ==
  \/ CacheMiss(r)
  \/ CacheHit(r)
  \/ EditsApplied(r)
  \/ EditsRefused(r)

Connection(s, r) ==
  \/ Connect(s, r)
  \/ Deliver(s, r)
  \/ TimeOut(s, r)
  \/ Disconnect(s, r)

Next ==
  \/ \E r \in Runs : Request(r) \/ Answer(r) \/ (\E k \in Execs : Task(r, k))
  \/ \E s \in Streams, r \in Runs : Connection(s, r)

\* every awaited call returns or raises, and the loop runs what is ready; clients need
\* not start, resume or cancel anything, nor connect or disconnect
Fairness ==
  /\ \A r \in Runs : WF_vars(Answer(r))
  /\ \A r \in Runs, k \in Execs : WF_vars(Task(r, k))
  /\ \A s \in Streams, r \in Runs : WF_vars(Deliver(s, r)) /\ WF_vars(TimeOut(s, r))

Spec == Init /\ [][Next]_vars /\ Fairness

-----------------------------------------------------------------------------
(* Properties for any client *)

\* Every record holds values of its declared type (new_run_record, AgentEvent, Task).
TypeOK ==
  /\ status \in [Runs -> Statuses]
  /\ cancel_event \in [Runs -> BOOLEAN]
  /\ final_report \in [Runs -> 0..Total]
  /\ queue \in [Runs -> Seq(Nat)]
  /\ log \in [Runs -> Seq(Events)]
  /\ starting \in [Runs -> BOOLEAN]
  /\ editing \in [Runs -> BOOLEAN]
  /\ launched \in [Runs -> 0..MaxExecs]
  /\ phase \in [Runs -> [Execs -> Phases]]
  /\ pos \in [Runs -> [Execs -> 0..Total]]
  /\ from \in [Runs -> [Execs -> 0..Total]]
  /\ cancelling \in [Runs -> [Execs -> BOOLEAN]]
  /\ checkpoint \in [Runs -> 0..Total]
  /\ streamOf \in [Streams -> Runs \cup {NoRun}]
  /\ streaming \in [Streams -> BOOLEAN]
  /\ got \in [Streams -> Seq(Nat)]
  /\ taken \in [Runs -> SUBSET Nat]
  /\ archived \in [Runs -> Nat]

Elements(seq) == {seq[i] : i \in 1..Len(seq)}

Increasing(seq) == \A i, j \in 1..Len(seq) : i < j => seq[i] < seq[j]

\* The streams of a run share one queue: each published event is sent to one stream, was
\* taken by one that lost its client, or is still queued, never two of these; and each
\* stream sends in the order of publication.
EventsAccountedFor ==
  /\ \A r \in Runs :
       LET sent(s) == IF streamOf[s] = r THEN Elements(got[s]) ELSE {}
       IN  /\ (UNION {sent(s) : s \in Streams}) \cup taken[r] \cup Elements(queue[r])
                = 1..Len(log[r])
           /\ \A s \in Streams : sent(s) \cap (taken[r] \cup Elements(queue[r])) = {}
           /\ taken[r] \cap Elements(queue[r]) = {}
           /\ Increasing(queue[r])
  /\ \A s, t \in Streams :
       /\ Increasing(got[s])
       /\ s # t /\ streamOf[s] = streamOf[t] => Elements(got[s]) \cap Elements(got[t]) = {}

\* A run that reads "running" has a task, or a start request, that will move it on: no
\* order of resumes, edits and cancellations leaves it running with nobody at work.
RunningHasTask ==
  \A r \in Runs :
    status[r] = "running" => starting[r] \/ \E k \in Execs : Alive(r, k) /\ ~cancelling[r][k]

\* The analyst has resumed the run.
Approved(r) == \E i \in 1..Len(log[r]) : log[r][i] = "HITL_RESUMED"

\* With HITL the nodes behind the interrupt run for an approved run only, in an execution
\* that a resume launched and that took the thread up at the interrupt or behind it: a
\* resume that arrives before the run has paused does not carry its execution past the
\* interrupt, whatever the executions it overlaps store in the checkpoint they share.
SynthesisIsApproved ==
  Hitl => \A r \in Runs :
    /\ checkpoint[r] > Pre => Approved(r)
    /\ \A k \in Execs : pos[r][k] > Pre => k > 1 /\ from[r][k] >= Pre

\* Every run that was started comes to rest: over, or waiting for the analyst.
RunsSettle ==
  \A r \in Runs :
    status[r] = "running" ~> status[r] \in Terminal \cup {"awaiting_approval"}

-----------------------------------------------------------------------------
(* Properties for clients that resume a paused run, once and without edits *)

\* The statuses and events are those of the contract.
Contract == INSTANCE RunContract WITH Runs <- Runs, status <- status, log <- log
ImplementsContract == Contract!Spec

\* A run waiting for approval waits alone, before the synthesizer: no task of it works on
\* and its thread stands where the resume will take it up.
PausedRunIsQuiet ==
  \A r \in Runs : status[r] = "awaiting_approval" =>
    checkpoint[r] = Pre /\ \A k \in Execs : ~Alive(r, k)

\* A completed run has the formatter's report, never a partial one, archived at most once.
CompletedRunHasReport ==
  \A r \in Runs :
    /\ status[r] = "completed" => final_report[r] = Total
    /\ archived[r] <= 1

\* A run that is over says so: its terminal event is eventually published.
EndIsAnnounced ==
  \A r \in Runs :
    status[r] \in Terminal ~> \E i \in 1..Len(log[r]) : log[r][i] \in TerminalEvents

\* No connection outlives its run by more than the events still to be sent.
StreamsEnd ==
  \A s \in Streams, r \in Runs :
    streamOf[s] = r /\ status[r] \in Terminal ~> ~streaming[s]

=============================================================================
