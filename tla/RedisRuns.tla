----------------------------- MODULE RedisRuns -----------------------------
(***************************************************************************)
(* ResearchRunManager over RedisRunStore: several worker processes, one    *)
(* Redis.  The keys of different runs are disjoint, so this is the life of *)
(* one run.                                                                *)
(*                                                                         *)
(* Unlike InMemoryRunStore, every store operation waits for Redis, and any *)
(* other coroutine of any worker may go first.  A coroutine is a fiber: it *)
(* stands before its next Redis command (pc), and one action is that       *)
(* command with the code up to the next one.  _publish is the subroutine   *)
(* number, push, announce.  The graph is external, as in MemoryRuns.       *)
(***************************************************************************)
EXTENDS Integers, Sequences, FiniteSets

CONSTANTS
  Workers,
  Streams,     \* SSE connections
  Pre, Total,  \* node updates before the interrupt, and of a whole pass
  Hitl,        \* ENABLE_HITL = "1"
  ResumeAt,    \* the statuses at which clients' resume requests arrive
  MaxFaults    \* bound: worker crashes and Redis commands that fail

Terminal == {"completed", "failed", "cancelled"}
Statuses == {"absent", "running", "awaiting_approval"} \cup Terminal
TerminalEvents == {"RUN_COMPLETED", "RUN_FAILED", "RUN_CANCELLED"}
Events == {"RUN_STARTED", "NODE", "HITL_PAUSED", "HITL_RESUMED"} \cup TerminalEvents

\* the coroutines of one run: three requests, at most one of each, and the task that each
\* of the first two leaves behind
Requests == {"start", "resume", "cancel"}
Tasks == {"first", "second"}
Fibers == Requests \cup Tasks

NoWorker == "no worker"

ASSUME ConstantsAssumption ==
  /\ NoWorker \notin Workers
  /\ Pre \in Nat /\ Total \in Nat /\ Pre < Total /\ Hitl \in BOOLEAN /\ ResumeAt \subseteq Statuses
  /\ MaxFaults \in Nat

VARIABLES
  \* Redis: the hash run:<id>, its fields status and sequence, the list of events with the
  \* numbers they carry, the cancel key, and the channel's subscribers' buffers
  status, sequence, events, cancel_key, inbox,
  \* the graph's checkpointer
  checkpoint,
  pos, from,    \* node updates a task's thread has seen, and where the task began
  \* workers
  pc, on,       \* a fiber's next command, and the worker it runs on
  event, number, \* what its _publish is publishing
  return,       \* where it goes on after _publish
  cancelling,   \* Task.cancel() called, CancelledError not thrown yet
  crashed,      \* workers that have crashed
  failed,       \* how many Redis commands have raised
  \* SSE connections
  stream, got,
  late          \* history: node events published by a task after the cancel key was set

redis == <<status, sequence, events, cancel_key, inbox>>
graph == <<checkpoint, pos, from>>
publishing == <<event, number, return>>
faults == <<crashed, failed>>
connections == <<stream, got>>
vars == <<redis, graph, pc, on, publishing, cancelling, faults, connections, late>>

Idle == "idle"
Over == {"done", "dead"}

Init ==
  /\ status = "absent" /\ sequence = 0 /\ events = <<>> /\ cancel_key = FALSE
  /\ inbox = [s \in Streams |-> <<>>]
  /\ checkpoint = 0 /\ pos = [t \in Tasks |-> 0] /\ from = [t \in Tasks |-> 0]
  /\ pc = [f \in Fibers |-> Idle] /\ on = [f \in Fibers |-> NoWorker]
  /\ event = [f \in Fibers |-> "NODE"] /\ number = [f \in Fibers |-> 0]
  /\ return = [f \in Fibers |-> Idle]
  /\ cancelling = [t \in Tasks |-> FALSE]
  /\ crashed = {} /\ failed = 0
  /\ stream = [s \in Streams |-> "new"] /\ got = [s \in Streams |-> <<>>]
  /\ late = [t \in Tasks |-> 0]

-----------------------------------------------------------------------------
(* RedisRunStore and _publish *)

Goto(f, p) == pc' = [pc EXCEPT ![f] = p]

\* fiber f calls _publish and goes on at p when it returns
Publish(f, e, p) ==
  /\ Goto(f, "number")
  /\ event' = [event EXCEPT ![f] = e]
  /\ return' = [return EXCEPT ![f] = p]
  /\ UNCHANGED number

\* update_run, HSET of the status alone, then _publish
WriteAndPublish(f, s, e, p) == status' = s /\ Publish(f, e, p)

Throwing(f) == f \in Tasks /\ cancelling[f]

At(f, p) == pc[f] = p /\ ~Throwing(f)

\* (mutation) the number is read and written back by the worker: HGET, and later HSET
NumberByReading(f) ==
  /\ At(f, "number")
  /\ number' = [number EXCEPT ![f] = Len(events) + 1]
  /\ sequence' = Len(events) + 1
  /\ late' = IF f \in Tasks /\ cancel_key /\ event[f] = "NODE"
               THEN [late EXCEPT ![f] = @ + 1] ELSE late
  /\ Goto(f, "push")
  /\ UNCHANGED <<status, events, cancel_key, inbox, graph, on, event, return, cancelling,
                 faults, connections>>

\* next_sequence: HINCRBY
Number(f) ==
  /\ At(f, "number")
  /\ sequence' = sequence + 1
  /\ number' = [number EXCEPT ![f] = sequence + 1]
  /\ late' = IF f \in Tasks /\ cancel_key /\ event[f] = "NODE"
               THEN [late EXCEPT ![f] = @ + 1] ELSE late
  /\ Goto(f, "push")
  /\ UNCHANGED <<status, events, cancel_key, inbox, graph, on, event, return, cancelling,
                 faults, connections>>

\* publish_event: RPUSH
Push(f) ==
  /\ At(f, "push")
  /\ events' = Append(events, [type |-> event[f], sequence_number |-> number[f]])
  /\ Goto(f, "announce")
  /\ UNCHANGED <<status, sequence, cancel_key, inbox, graph, on, publishing, cancelling,
                 faults, connections, late>>

\* publish_event: PUBLISH reaches those who are subscribed at this moment
Announce(f) ==
  /\ At(f, "announce")
  /\ inbox' = [s \in Streams |->
       IF stream[s] \in {"listening", "checking"}
         THEN Append(inbox[s], [type |-> event[f], sequence_number |-> number[f]])
         ELSE inbox[s]]
  /\ Goto(f, return[f])
  /\ number' = [number EXCEPT ![f] = 0]
  /\ UNCHANGED <<status, sequence, events, cancel_key, graph, on, event, return, cancelling,
                 faults, connections, late>>

-----------------------------------------------------------------------------
(* start_research_run, resume_run, cancel_run *)

Up(w) == w \in Workers \ crashed

\* the run id is known to clients once start_research_run has returned
Known == pc["start"] = "done"

\* create_run
Start(w) ==
  /\ Up(w) /\ status = "absent"
  /\ on' = [on EXCEPT !["start"] = w]
  /\ WriteAndPublish("start", "running", "RUN_STARTED", "launch")
  /\ UNCHANGED <<sequence, events, cancel_key, inbox, graph, cancelling, faults, connections, late>>

TaskOf(f) == IF f = "start" THEN "first" ELSE "second"

\* asyncio.create_task(self._execute(...)) on the worker that handles the request
Launch(f) ==
  /\ At(f, "launch")
  /\ pc' = [pc EXCEPT ![f] = "done", ![TaskOf(f)] = "begin"]
  /\ on' = [on EXCEPT ![TaskOf(f)] = on[f]]
  /\ UNCHANGED <<redis, graph, publishing, cancelling, faults, connections, late>>

\* resume_run reads the status of a run that is not over
Resume(w) ==
  /\ Up(w) /\ Known /\ pc["resume"] = Idle /\ status \in ResumeAt \ Terminal
  /\ on' = [on EXCEPT !["resume"] = w]
  /\ Goto("resume", "write")
  /\ UNCHANGED <<redis, graph, publishing, cancelling, faults, connections, late>>

ResumeWrite ==
  /\ At("resume", "write")
  /\ WriteAndPublish("resume", "running", "HITL_RESUMED", "launch")
  /\ UNCHANGED <<sequence, events, cancel_key, inbox, graph, on, cancelling, faults, connections, late>>

\* cancel_run reads the status of a run that is not over
Cancel(w) ==
  /\ Up(w) /\ Known /\ pc["cancel"] = Idle /\ status \notin Terminal
  /\ on' = [on EXCEPT !["cancel"] = w]
  /\ Goto("cancel", "flag")
  /\ UNCHANGED <<redis, graph, publishing, cancelling, faults, connections, late>>

\* the task _tasks[run_id] of a worker: the last one it created
Latest(w, t) == on[t] = w /\ ~(t = "first" /\ on["second"] = w)

\* request_cancel, then Task.cancel() if the task is one of this worker
Flag ==
  /\ At("cancel", "flag")
  /\ cancel_key' = TRUE
  /\ cancelling' = [t \in Tasks |->
       cancelling[t] \/ (Latest(on["cancel"], t) /\ pc[t] \notin {Idle} \cup Over)]
  /\ Goto("cancel", "write")
  /\ UNCHANGED <<status, sequence, events, inbox, graph, on, publishing, faults, connections, late>>

CancelWrite ==
  /\ At("cancel", "write")
  /\ WriteAndPublish("cancel", "cancelled", "RUN_CANCELLED", "done")
  /\ UNCHANGED <<sequence, events, cancel_key, inbox, graph, on, cancelling, faults, connections, late>>

-----------------------------------------------------------------------------
(* _execute *)

\* (mutation) one update more than the pass has nodes
HasUpdateOffByOne(t) == pos[t] <= Total /\ ~(Hitl /\ pos[t] = Pre /\ from[t] # Pre)

\* astream stops before the synthesizer, unless this stream was resumed there
HasUpdate(t) == pos[t] < Total /\ ~(Hitl /\ pos[t] = Pre /\ from[t] # Pre)

\* get_run, then astream: a new thread from its inputs, or the thread's latest checkpoint
Begin(t) ==
  /\ At(t, "begin")
  /\ LET start == IF t = "first" THEN 0 ELSE checkpoint
     IN  pos' = [pos EXCEPT ![t] = start] /\ from' = [from EXCEPT ![t] = start]
  /\ Goto(t, "graph")
  /\ UNCHANGED <<redis, checkpoint, on, publishing, cancelling, faults, connections, late>>

\* a node has run and its checkpoint is stored
NodeUpdate(t) ==
  /\ At(t, "graph") /\ HasUpdate(t)
  /\ pos' = [pos EXCEPT ![t] = @ + 1]
  /\ checkpoint' = pos[t] + 1
  /\ Goto(t, "check")
  /\ UNCHANGED <<redis, from, on, publishing, cancelling, faults, connections, late>>

\* (mutation) is_cancelled is not asked
IsCancelledUnasked(t) ==
  /\ At(t, "check")
  /\ Publish(t, "NODE", "graph")
  /\ UNCHANGED <<redis, graph, on, cancelling, faults, connections, late>>

\* is_cancelled: the update is published, or the task ends as if it had been cancelled
IsCancelled(t) ==
  /\ At(t, "check")
  /\ \/ ~cancel_key /\ Publish(t, "NODE", "graph")
     \/ cancel_key /\ Goto(t, "handler") /\ UNCHANGED publishing
  /\ UNCHANGED <<redis, graph, on, cancelling, faults, connections, late>>

\* astream is exhausted; aget_state says which node is next
GraphStops(t) ==
  /\ At(t, "graph") /\ ~HasUpdate(t)
  /\ Goto(t, IF Hitl /\ checkpoint = Pre THEN "pause" ELSE "complete")
  /\ UNCHANGED <<redis, graph, on, publishing, cancelling, faults, connections, late>>

Pause(t) ==
  /\ At(t, "pause")
  /\ WriteAndPublish(t, "awaiting_approval", "HITL_PAUSED", "done")
  /\ UNCHANGED <<sequence, events, cancel_key, inbox, graph, on, cancelling, faults, connections, late>>

\* the report is archived and cached, by waits of their own, before the end is published
Complete(t) ==
  /\ At(t, "complete")
  /\ WriteAndPublish(t, "completed", "RUN_COMPLETED", "done")
  /\ UNCHANGED <<sequence, events, cancel_key, inbox, graph, on, cancelling, faults, connections, late>>

\* a node or the checkpointer raises
Raises(t) ==
  /\ At(t, "graph")
  /\ Goto(t, "fail")
  /\ UNCHANGED <<redis, graph, on, publishing, cancelling, faults, connections, late>>

Fail(t) ==
  /\ At(t, "fail")
  /\ WriteAndPublish(t, "failed", "RUN_FAILED", "done")
  /\ UNCHANGED <<sequence, events, cancel_key, inbox, graph, on, cancelling, faults, connections, late>>

\* in _execute, what raises here finds no except clause: the task has not begun its try, or
\* is in an except clause already
Unguarded(t) == pc[t] \in {"begin", "handler", "mark", "fail"} \/ event[t] = "RUN_FAILED"

\* CancelledError is thrown where the task waits, once
Interrupted(t) ==
  /\ cancelling[t] /\ pc[t] \notin {Idle} \cup Over
  /\ cancelling' = [cancelling EXCEPT ![t] = FALSE]
  /\ Goto(t, IF Unguarded(t) THEN "done" ELSE "handler")
  /\ UNCHANGED <<redis, graph, on, publishing, faults, connections, late>>

\* except CancelledError: get_run, and an update unless the run already reads cancelled
Handler(t) ==
  /\ At(t, "handler")
  /\ Goto(t, IF status = "cancelled" THEN "done" ELSE "mark")
  /\ UNCHANGED <<redis, graph, on, publishing, cancelling, faults, connections, late>>

MarkCancelled(t) ==
  /\ At(t, "mark")
  /\ status' = "cancelled"
  /\ Goto(t, "done")
  /\ UNCHANGED <<sequence, events, cancel_key, inbox, graph, on, publishing, cancelling,
                 faults, connections, late>>

FaultsLeft == Cardinality(crashed) + failed < MaxFaults

\* (mutation) the except clause of a task does not update the run
FailsToSilently(f) == IF f \in Tasks /\ ~Unguarded(f) THEN "done" ELSE "dead"

\* a request answers 500; a task fails, unless it is unguarded
FailsTo(f) == IF f \in Tasks /\ ~Unguarded(f) THEN "fail" ELSE "dead"

\* a Redis command raises, and has had no effect
CommandFails(f) ==
  /\ FaultsLeft /\ ~Throwing(f) /\ pc[f] \notin {Idle, "launch", "graph"} \cup Over
  /\ failed' = failed + 1
  /\ Goto(f, FailsTo(f))
  /\ UNCHANGED <<redis, graph, on, publishing, cancelling, crashed, connections, late>>

\* a worker process dies, and with it its coroutines; nothing takes them over
Crash(w) ==
  /\ Up(w) /\ FaultsLeft
  /\ crashed' = crashed \cup {w}
  /\ pc' = [f \in Fibers |-> IF on[f] = w /\ pc[f] # "done" THEN "dead" ELSE pc[f]]
  /\ UNCHANGED <<redis, graph, on, publishing, cancelling, failed, connections, late>>

-----------------------------------------------------------------------------
(* RedisRunStore.stream_events behind an SSE connection *)

Listening(s) == stream[s] \in {"listening", "checking"}

\* the connection may have lost its client or its worker at any wait
Moves(s, p) == stream' = [stream EXCEPT ![s] = p]

Ends(e) == e.type \in TerminalEvents

\* the list up to and including the first terminal event
Replayed ==
  LET ends == {i \in 1..Len(events) : Ends(events[i])}
  IN  IF ends = {} THEN events
      ELSE SubSeq(events, 1, CHOOSE i \in ends : \A j \in ends : i <= j)

\* EXISTS and LRANGE, everything in the list is sent
Replay(s) ==
  /\ stream[s] = "new" /\ Known
  /\ got' = [got EXCEPT ![s] = Replayed]
  /\ Moves(s, IF \E i \in 1..Len(events) : Ends(events[i]) THEN "closed" ELSE "replayed")
  /\ UNCHANGED <<redis, graph, pc, on, publishing, cancelling, faults, late>>

Subscribe(s) ==
  /\ stream[s] = "replayed"
  /\ Moves(s, "listening")
  /\ UNCHANGED <<redis, graph, pc, on, publishing, cancelling, faults, got, late>>

\* (mutation) the replayed events are not remembered
SeenNothing(s, e) == FALSE

Seen(s, e) == \E i \in 1..Len(got[s]) : got[s][i] = e

\* get_message; an event that was replayed is skipped
Receive(s) ==
  /\ stream[s] = "listening" /\ inbox[s] # <<>>
  /\ inbox' = [inbox EXCEPT ![s] = Tail(@)]
  /\ LET e == Head(inbox[s])
     IN  IF Seen(s, e)
           THEN UNCHANGED <<got, stream>>
           ELSE /\ got' = [got EXCEPT ![s] = Append(@, e)]
                /\ Moves(s, IF Ends(e) THEN "closed" ELSE "listening")
  /\ UNCHANGED <<status, sequence, events, cancel_key, graph, pc, on, publishing, cancelling,
                 faults, late>>

\* a quarter of a second without a message: the status is read next
Quiet(s) ==
  /\ stream[s] = "listening" /\ inbox[s] = <<>>
  /\ Moves(s, "checking")
  /\ UNCHANGED <<redis, graph, pc, on, publishing, cancelling, faults, got, late>>

\* (mutation) only completion ends a stream
EndsStreamCompleted == status = "completed"

EndsStream == status \in Terminal

\* the stream ends if the run is over, whatever has arrived since
Check(s) ==
  /\ stream[s] = "checking"
  /\ Moves(s, IF EndsStream THEN "closed" ELSE "listening")
  /\ UNCHANGED <<redis, graph, pc, on, publishing, cancelling, faults, got, late>>

\* the client or the worker of the connection goes away
Drop(s) ==
  /\ Listening(s) \/ stream[s] = "replayed"
  /\ Moves(s, "dropped")
  /\ UNCHANGED <<redis, graph, pc, on, publishing, cancelling, faults, got, late>>

-----------------------------------------------------------------------------

Publisher(f) == Number(f) \/ Push(f) \/ Announce(f)

Request == Launch("start") \/ Launch("resume") \/ ResumeWrite \/ Flag \/ CancelWrite

Task(t) ==
  \/ Begin(t)
  \/ NodeUpdate(t)
  \/ IsCancelled(t)
  \/ GraphStops(t)
  \/ Pause(t)
  \/ Complete(t)
  \/ Raises(t)
  \/ Fail(t)
  \/ Interrupted(t)
  \/ Handler(t)
  \/ MarkCancelled(t)

Connection(s) == Replay(s) \/ Subscribe(s) \/ Receive(s) \/ Quiet(s) \/ Check(s)

Next ==
  \/ \E w \in Workers : Start(w) \/ Resume(w) \/ Cancel(w) \/ Crash(w)
  \/ \E f \in Fibers : Publisher(f) \/ CommandFails(f)
  \/ Request
  \/ \E t \in Tasks : Task(t)
  \/ \E s \in Streams : Connection(s) \/ Drop(s)

\* Redis and the graph answer, and a worker that is up runs what is ready; a stream that
\* has begun goes on
Fairness ==
  /\ \A f \in Fibers : WF_vars(Publisher(f))
  /\ WF_vars(Request)
  /\ \A t \in Tasks : WF_vars(Task(t))
  /\ \A s \in Streams : WF_vars(Subscribe(s)) /\ WF_vars(Receive(s))
                         /\ WF_vars(Quiet(s)) /\ WF_vars(Check(s))

Spec == Init /\ [][Next]_vars /\ Fairness

-----------------------------------------------------------------------------
(* Properties *)

Event == [type : Events, sequence_number : Nat]

Commands == {Idle, "number", "push", "announce", "launch", "write", "flag", "begin", "graph",
             "check", "pause", "complete", "fail", "handler", "mark"} \cup Over

\* Keys, fibers and connections hold values of their types.
TypeOK ==
  /\ status \in Statuses /\ sequence \in Nat /\ events \in Seq(Event)
  /\ cancel_key \in BOOLEAN /\ inbox \in [Streams -> Seq(Event)]
  /\ checkpoint \in 0..Total /\ pos \in [Tasks -> 0..Total]
  /\ from \in [Tasks -> 0..Total]
  /\ pc \in [Fibers -> Commands] /\ return \in [Fibers -> {Idle, "launch", "graph", "done"}]
  /\ on \in [Fibers -> Workers \cup {NoWorker}]
  /\ event \in [Fibers -> Events] /\ number \in [Fibers -> Nat]
  /\ cancelling \in [Tasks -> BOOLEAN] /\ crashed \subseteq Workers /\ failed \in Nat
  /\ got \in [Streams -> Seq(Event)]
  /\ stream \in [Streams -> {"new", "replayed", "listening", "checking", "closed", "dropped"}]
  /\ late \in [Tasks -> Nat]

\* No two events of a run carry the same sequence number, whichever workers publish them
\* and however their commands interleave.
NumbersAreUnique ==
  \A i, j \in 1..Len(events) :
    i # j => events[i].sequence_number # events[j].sequence_number

\* A stream never sends an event twice, although the replay and the channel overlap.
NothingIsSentTwice ==
  \A s \in Streams : \A i, j \in 1..Len(got[s]) : i # j => got[s][i] # got[s][j]

\* After a cancellation was requested on any worker, a task reports at most the one node
\* whose update it was about to publish.
CancelStopsWithinOneNode == \A t \in Tasks : late[t] <= 1

\* Fiber f died holding the run: a request that had written "running" and had yet to launch
\* the task, the task that was launched last, or a cancellation that had set the key and had
\* yet to write the status.
DiedHolding(f) ==
  /\ pc[f] = "dead"
  /\ f = "first" => pc["second"] = Idle
  /\ f = "resume" => event["resume"] = "HITL_RESUMED"
  /\ f = "cancel" => cancel_key

\* A run does not stay "running": it is over, or waits for the analyst, in the end, unless
\* the fiber that held it is dead, which nothing takes over.  A Redis command that fails
\* under the task's try kills nothing, and fails the run; a resume request that dies before
\* its first write, a cancellation that dies before the key, or a task that dies after its
\* run has paused, keep nobody from settling it.
RunsSettle ==
  status = "running" ~>
    status \in Terminal \cup {"awaiting_approval"} \/ \E f \in Fibers : DiedHolding(f)

\* A stream of a run that is over, and whose status stays so, ends, whatever has died or
\* failed on the way: by the terminal event, which a publisher that died may never have
\* pushed, or else by the status.
StreamsEnd ==
  \A s \in Streams :
    Listening(s) /\ status \in Terminal ~> ~Listening(s) \/ status \notin Terminal

-----------------------------------------------------------------------------
(* What does not hold *)

\* A stream of a completed run that ended by itself has shown the start and the end of the
\* run: "assert EventType.RUN_COMPLETED in names" of test_distributed_run_manager.py.
StreamShowsStartAndEnd ==
  \A s \in Streams : stream[s] = "closed" /\ status = "completed" =>
    {"RUN_STARTED", "RUN_COMPLETED"} \subseteq {got[s][i].type : i \in 1..Len(got[s])}

=============================================================================
