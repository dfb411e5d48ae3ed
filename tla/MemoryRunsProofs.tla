-------------------------- MODULE MemoryRunsProofs --------------------------
(***************************************************************************)
(* Theorems of MemoryRuns for any clients, runs and connections, and any   *)
(* length of the graph.                                                    *)
(*                                                                         *)
(* The last part is about the clients of RunContract, which resume a run   *)
(* at its pauses only and without edits: for them the manager implements   *)
(* the contract.  For others it does not.                                  *)
(***************************************************************************)
EXTENDS MemoryRuns, TLAPS

USE DEF record, manager, tasks, connections

-----------------------------------------------------------------------------
(* Types *)

\* the executions that are and may yet be launched are as many as there is room for; a run
\* that no request has started has none
LaunchInv ==
  \A r \in Runs :
    /\ status[r] = "absent" => ~starting[r] /\ ~editing[r] /\ launched[r] = 0
    /\ starting[r] => ~editing[r] /\ launched[r] = 0
    /\ editing[r] => launched[r] + 1 <= MaxExecs

\* What is published is numbered after what was published before.
LEMMA PublishTypes ==
  ASSUME TypeOK, NEW r \in Runs, NEW events \in Seq(Events), Publish(r, events)
  PROVE  /\ log' \in [Runs -> Seq(Events)] /\ queue' \in [Runs -> Seq(Nat)]
         /\ log'[r] = log[r] \o events
         /\ queue'[r] = queue[r] \o [i \in 1..Len(events) |-> Len(log[r]) + i]
         /\ \A q \in Runs \ {r} : log'[q] = log[q] /\ queue'[q] = queue[q]
<1> DEFINE numbers == [i \in 1..Len(events) |-> Len(log[r]) + i]
<1>1. log[r] \in Seq(Events) /\ queue[r] \in Seq(Nat) /\ log \in [Runs -> Seq(Events)]
      /\ queue \in [Runs -> Seq(Nat)]
  BY DEF TypeOK
<1>2. Len(log[r]) \in Nat /\ Len(events) \in Nat
  BY <1>1
<1>3. numbers \in Seq(Nat)
  BY <1>2
<1>4. log' = [log EXCEPT ![r] = @ \o events] /\ queue' = [queue EXCEPT ![r] = @ \o numbers]
  BY DEF Publish
<1> HIDE DEF numbers
<1>5. log[r] \o events \in Seq(Events) /\ queue[r] \o numbers \in Seq(Nat)
  BY <1>1, <1>3
<1>6. /\ log' \in [Runs -> Seq(Events)] /\ queue' \in [Runs -> Seq(Nat)]
      /\ log'[r] = log[r] \o events /\ queue'[r] = queue[r] \o numbers
      /\ \A q \in Runs \ {r} : log'[q] = log[q] /\ queue'[q] = queue[q]
  BY <1>1, <1>4, <1>5
<1> QED
  BY <1>6 DEF numbers

\* The events of the manager are sequences of events.
LEMMA EventSequences ==
  /\ \A e \in Events : <<e>> \in Seq(Events)
  /\ <<"CACHE_HIT", "RUN_COMPLETED">> \in Seq(Events)
BY DEF Events, TerminalEvents

\* A launch stays within the executions there is room for.
LEMMA LaunchTypes ==
  ASSUME TypeOK, NEW r \in Runs, launched[r] + 1 <= MaxExecs, Launch(r)
  PROVE  /\ launched' \in [Runs -> 0..MaxExecs] /\ phase' \in [Runs -> [Execs -> Phases]]
         /\ launched'[r] = launched[r] + 1
         /\ \A q \in Runs \ {r} : launched'[q] = launched[q]
<1>1. launched \in [Runs -> 0..MaxExecs] /\ phase \in [Runs -> [Execs -> Phases]] /\ MaxExecs \in Nat
  BY ConstantsAssumption DEF TypeOK
<1>2. launched' \in [Runs -> 0..MaxExecs] /\ launched'[r] = launched[r] + 1
      /\ \A q \in Runs \ {r} : launched'[q] = launched[q]
  BY <1>1 DEF Launch
<1>3. launched[r] + 1 \in Execs
  BY <1>1 DEF Execs
<1>4. phase' \in [Runs -> [Execs -> Phases]]
  BY <1>1, <1>3 DEF Launch, Phases
<1> QED
  BY <1>2, <1>4

\* Records, tasks and connections keep their types, and no request launches an execution
\* more than the bound.
LEMMA TypesAndLaunches == Spec => [](TypeOK /\ LaunchInv)
<1> DEFINE Inv == TypeOK /\ LaunchInv
<1> USE ConstantsAssumption
<1>1. Init => Inv
  <2> SUFFICES ASSUME Init PROVE Inv
    OBVIOUS
  <2>1. TypeOK
    BY DEF Init, TypeOK, Statuses, Terminal, Phases, NoReport, Execs
  <2> QED
    BY <2>1 DEF Init, LaunchInv
<1>2. Inv /\ [Next]_vars => Inv'
  <2> SUFFICES ASSUME Inv, [Next]_vars PROVE Inv'
    OBVIOUS
  <2> USE EventSequences
  <2>1. ASSUME NEW r \in Runs, Start(r) PROVE Inv'
    <3>1. launched[r] = 0 /\ ~editing[r] /\ ~starting[r]
      BY <2>1 DEF Start, LaunchInv
    <3>2. log' \in [Runs -> Seq(Events)] /\ queue' \in [Runs -> Seq(Nat)]
      BY <2>1, PublishTypes DEF Start, Events
    <3>3. CASE UseCache
      BY <2>1, <3>1, <3>2, <3>3 DEF Start, SetStatus, TypeOK, LaunchInv, Statuses
    <3>4. CASE ~UseCache
      <4>1. Launch(r) /\ UNCHANGED starting
        BY <2>1, <3>4 DEF Start
      <4> HIDE DEF Launch
      <4>2. launched' \in [Runs -> 0..MaxExecs] /\ phase' \in [Runs -> [Execs -> Phases]]
            /\ \A q \in Runs \ {r} : launched'[q] = launched[q]
        BY <3>1, <4>1, LaunchTypes
      <4> QED
        BY <2>1, <3>1, <3>2, <4>1, <4>2 DEF Start, SetStatus, TypeOK, LaunchInv, Statuses
    <3> QED
      BY <3>3, <3>4
  <2>2. ASSUME NEW r \in Runs, CacheMiss(r) PROVE Inv'
    <3>1. launched[r] = 0 /\ ~editing[r]
      BY <2>2 DEF CacheMiss, LaunchInv
    <3>2. launched' \in [Runs -> 0..MaxExecs] /\ phase' \in [Runs -> [Execs -> Phases]]
          /\ \A q \in Runs \ {r} : launched'[q] = launched[q]
      BY <2>2, <3>1, LaunchTypes DEF CacheMiss
    <3> QED
      BY <2>2, <3>1, <3>2 DEF CacheMiss, TypeOK, LaunchInv
  <2>3. ASSUME NEW r \in Runs, CacheHit(r) PROVE Inv'
    <3>1. log' \in [Runs -> Seq(Events)] /\ queue' \in [Runs -> Seq(Nat)]
      BY <2>3, PublishTypes DEF CacheHit
    <3>2. status' \in [Runs -> Statuses] /\ final_report' \in [Runs -> 0..Total]
          /\ starting' \in [Runs -> BOOLEAN]
      BY <2>3 DEF CacheHit, SetStatus, TypeOK, Statuses, Terminal
    <3>3. TypeOK'
      BY <2>3, <3>1, <3>2 DEF CacheHit, TypeOK
    <3> QED
      BY <2>3, <3>3 DEF CacheHit, SetStatus, LaunchInv, TypeOK
  <2>4. ASSUME NEW r \in Runs, NEW k \in Execs, Task(r, k) PROVE Inv'
    <3>1. UNCHANGED <<cancel_event, manager, cancelling, connections>>
      BY <2>4 DEF Task, Begin, NodeUpdate, GraphStops, Pause, Complete, Archive, SaveCache,
                  Raises, Cancelled
    <3>2. status' = status \/ \E s \in Statuses \ {"absent"} : status' = [status EXCEPT ![r] = s]
      BY <2>4 DEF Task, Begin, NodeUpdate, GraphStops, Pause, Complete, Archive, SaveCache,
                  Raises, Cancelled, SetStatus, Statuses, Terminal
    <3>3. phase' = phase \/ \E p \in Phases : phase' = [phase EXCEPT ![r][k] = p]
      BY <2>4 DEF Task, Begin, NodeUpdate, GraphStops, Pause, Complete, Archive, SaveCache,
                  Raises, Cancelled, Goto, Phases
    <3>4. UNCHANGED <<log, queue>> \/ \E e \in Events : Publish(r, <<e>>)
      BY <2>4 DEF Task, Begin, NodeUpdate, GraphStops, Pause, Complete, Archive, SaveCache,
                  Raises, Cancelled, Events, TerminalEvents
    <3>5. log' \in [Runs -> Seq(Events)] /\ queue' \in [Runs -> Seq(Nat)]
      BY <3>4, PublishTypes DEF TypeOK
    <3>6. /\ pos' \in [Runs -> [Execs -> 0..Total]] /\ from' \in [Runs -> [Execs -> 0..Total]]
          /\ checkpoint' \in [Runs -> 0..Total] /\ final_report' \in [Runs -> 0..Total]
          /\ archived' \in [Runs -> Nat]
      <4> USE DEF TypeOK
      <4>1. CASE Begin(r, k)
        BY <4>1 DEF Begin
      <4>2. CASE NodeUpdate(r, k)
        <5>1. pos[r][k] \in 0..Total /\ pos[r][k] < Total
          BY <4>2 DEF NodeUpdate, HasUpdate
        <5>2. pos[r][k] + 1 \in 0..Total
          BY <5>1
        <5>3. pos' = [pos EXCEPT ![r][k] = pos[r][k] + 1]
              /\ checkpoint' = [checkpoint EXCEPT ![r] = pos[r][k] + 1]
              /\ UNCHANGED <<from, final_report, archived>>
          BY <4>2 DEF NodeUpdate
        <5> QED
          BY <5>2, <5>3
      <4>3. CASE GraphStops(r, k) \/ Pause(r, k) \/ SaveCache(r, k) \/ Raises(r, k) \/ Cancelled(r, k)
        BY <4>3 DEF GraphStops, Pause, SaveCache, Raises, Cancelled
      <4>4. CASE Complete(r, k)
        BY <4>4 DEF Complete
      <4>5. CASE Archive(r, k)
        BY <4>5, SMTT(40) DEF Archive
      <4> QED
        BY <2>4, <4>1, <4>2, <4>3, <4>4, <4>5 DEF Task
    <3>7. status' \in [Runs -> Statuses] /\ phase' \in [Runs -> [Execs -> Phases]]
      <4>1. status' \in [Runs -> Statuses]
        BY <3>2 DEF TypeOK
      <4>2. phase' \in [Runs -> [Execs -> Phases]]
        <5>1. phase \in [Runs -> [Execs -> Phases]]
          BY DEF TypeOK
        <5>2. \A p \in Phases : [phase EXCEPT ![r][k] = p] \in [Runs -> [Execs -> Phases]]
          BY <5>1
        <5> QED
          BY <3>3, <5>1, <5>2
      <4> QED
        BY <4>1, <4>2
    <3>8. TypeOK'
      BY <3>1, <3>5, <3>6, <3>7 DEF TypeOK
    <3>9. \A q \in Runs : status'[q] = "absent" => status[q] = "absent"
      BY <3>2 DEF TypeOK
    <3> QED
      BY <3>1, <3>8, <3>9 DEF LaunchInv
  <2>5. ASSUME NEW r \in Runs, Resume(r) \/ EditsApplied(r) PROVE Inv'
    <3>1. ~starting[r] /\ launched[r] + 1 <= MaxExecs
      BY <2>5 DEF Resume, MayResume, Known, EditsApplied, LaunchInv, TypeOK
    <3>2. Resumed(r)
      BY <2>5 DEF Resume, EditsApplied
    <3>3. /\ launched' \in [Runs -> 0..MaxExecs] /\ phase' \in [Runs -> [Execs -> Phases]]
          /\ launched'[r] = launched[r] + 1
          /\ \A q \in Runs \ {r} : launched'[q] = launched[q]
      BY <3>1, <3>2, LaunchTypes DEF Resumed
    <3>4. log' \in [Runs -> Seq(Events)] /\ queue' \in [Runs -> Seq(Nat)]
      BY <3>2, PublishTypes DEF Resumed, Events
    <3>5. status' = [status EXCEPT ![r] = "running"]
      BY <3>2 DEF Resumed, SetStatus
    <3>6. editing[r]' => launched[r] + 2 <= MaxExecs
      BY <2>5 DEF Resume, MayResume, EditsApplied, TypeOK
    <3>7. /\ UNCHANGED <<cancel_event, final_report, starting, pos, from, cancelling, checkpoint,
                          connections, archived>>
          /\ editing' \in [Runs -> BOOLEAN]
          /\ \A q \in Runs \ {r} : editing'[q] = editing[q]
      BY <2>5 DEF Resume, EditsApplied, TypeOK
    <3>8. TypeOK'
      BY <3>3, <3>4, <3>5, <3>7 DEF TypeOK, Statuses
    <3>9. \A q \in Runs \ {r} : status'[q] = status[q]
      BY <3>5 DEF TypeOK
    <3>10. status'[r] = "running"
      BY <3>5 DEF TypeOK
    <3>11. LaunchInv'
      <4> SUFFICES ASSUME NEW q \in Runs
                   PROVE  /\ status'[q] = "absent" => ~starting'[q] /\ ~editing'[q] /\ launched'[q] = 0
                          /\ starting'[q] => ~editing'[q] /\ launched'[q] = 0
                          /\ editing'[q] => launched'[q] + 1 <= MaxExecs
        BY DEF LaunchInv
      <4>1. CASE q = r
        BY <3>1, <3>3, <3>6, <3>7, <3>10, <4>1 DEF TypeOK
      <4>2. CASE q # r
        BY <3>3, <3>7, <3>9, <4>2 DEF LaunchInv
      <4> QED
        BY <4>1, <4>2
    <3> QED
      BY <3>8, <3>11
  <2>6. ASSUME NEW r \in Runs, ResumeWithEdits(r) PROVE Inv'
    BY <2>6, SMTT(40) DEF ResumeWithEdits, MayResume, Known, TypeOK, LaunchInv
  <2>7. ASSUME NEW r \in Runs, EditsRefused(r) PROVE Inv'
    BY <2>7 DEF EditsRefused, TypeOK, LaunchInv
  <2>8. ASSUME NEW r \in Runs, Cancel(r) PROVE Inv'
    <3>1. log' \in [Runs -> Seq(Events)] /\ queue' \in [Runs -> Seq(Nat)]
      BY <2>8, PublishTypes DEF Cancel, Events, TerminalEvents
    <3>2. cancelling' \in [Runs -> [Execs -> BOOLEAN]]
      BY <2>8 DEF Cancel, TypeOK
    <3> QED
      BY <2>8, <3>1, <3>2 DEF Cancel, MayCancel, Known, SetStatus, TypeOK, LaunchInv, Statuses, Terminal
  <2>9. ASSUME NEW s \in Streams, NEW r \in Runs, Connection(s, r) PROVE Inv'
    <3>1. UNCHANGED <<status, cancel_event, final_report, log, manager, tasks, archived>>
      BY <2>9 DEF Connection, Connect, Deliver, TimeOut, Disconnect
    <3>2. queue[r] # <<>> => Head(queue[r]) \in Nat /\ Tail(queue[r]) \in Seq(Nat)
      BY DEF TypeOK
    <3>3. /\ queue' \in [Runs -> Seq(Nat)] /\ got' \in [Streams -> Seq(Nat)]
          /\ taken' \in [Runs -> SUBSET Nat]
      <4>1. CASE Connect(s, r) \/ TimeOut(s, r)
        BY <4>1 DEF Connect, TimeOut, TypeOK
      <4>2. CASE Deliver(s, r)
        <5>1. got[s] \in Seq(Nat)
          BY DEF TypeOK
        <5>2. Append(got[s], Head(queue[r])) \in Seq(Nat)
          BY <3>2, <4>2, <5>1 DEF Deliver, Take
        <5> QED
          BY <3>2, <4>2, <5>2 DEF Deliver, Take, TypeOK
      <4>3. CASE Disconnect(s, r)
        <5>1. queue \in [Runs -> Seq(Nat)] /\ taken \in [Runs -> SUBSET Nat]
              /\ got \in [Streams -> Seq(Nat)]
          BY DEF TypeOK
        <5>2. CASE UNCHANGED <<queue, taken>>
          BY <4>3, <5>1, <5>2 DEF Disconnect
        <5>3. CASE Take(r) /\ taken' = [taken EXCEPT ![r] = @ \cup {Head(queue[r])}]
          <6>1. queue' \in [Runs -> Seq(Nat)]
            BY <3>2, <5>1, <5>3 DEF Take
          <6>2. taken[r] \cup {Head(queue[r])} \in SUBSET Nat
            BY <3>2, <5>1, <5>3 DEF Take
          <6>3. taken' \in [Runs -> SUBSET Nat]
            BY <5>1, <5>3, <6>2
          <6> QED
            BY <4>3, <5>1, <6>1, <6>3 DEF Disconnect
        <5> QED
          BY <4>3, <5>2, <5>3 DEF Disconnect
      <4> QED
        BY <2>9, <4>1, <4>2, <4>3 DEF Connection
    <3>4. streamOf' \in [Streams -> Runs \cup {NoRun}] /\ streaming' \in [Streams -> BOOLEAN]
      BY <2>9, ZenonT(40) DEF Connection, Connect, Deliver, TimeOut, Disconnect, TypeOK
    <3>5. TypeOK'
      BY <3>1, <3>3, <3>4 DEF TypeOK
    <3> QED
      BY <3>1, <3>5 DEF LaunchInv
  <2>10. CASE UNCHANGED vars
    BY <2>10 DEF vars, TypeOK, LaunchInv
  <2> QED
    BY <2>1, <2>2, <2>3, <2>4, <2>5, <2>6, <2>7, <2>8, <2>9, <2>10
    DEF Next, Request, Answer
<1> QED
  BY <1>1, <1>2, PTL DEF Spec

\* Every record of the store, task and connection holds values of its declared type.
THEOREM TypeCorrect == Spec => []TypeOK
BY TypesAndLaunches, PTL

-----------------------------------------------------------------------------
(* A running run has a task *)

\* phases of an execution that has yet to set the status
Working == {"scheduled", "graph", "snapshot"}

\* the execution that was launched last is at work on a run that is running
TaskInv ==
  \A r \in Runs :
    /\ \A k \in Execs : k > launched[r] => phase[r][k] = "none" /\ ~cancelling[r][k]
    /\ status[r] = "running" /\ ~starting[r] =>
         /\ launched[r] \in Execs
         /\ phase[r][launched[r]] \in Working /\ ~cancelling[r][launched[r]]

\* What a launch does to the executions of its run.
LEMMA LaunchStarts ==
  ASSUME TypeOK, TaskInv, NEW r \in Runs, launched[r] + 1 <= MaxExecs, Launch(r)
  PROVE  /\ launched'[r] \in Execs /\ phase'[r][launched'[r]] = "scheduled"
         /\ ~cancelling[r][launched'[r]]
         /\ \A k \in Execs : k > launched'[r] => phase'[r][k] = "none" /\ ~cancelling[r][k]
         /\ \A q \in Runs \ {r} : phase'[q] = phase[q]
<1>1. launched[r] \in Nat /\ phase \in [Runs -> [Execs -> Phases]] /\ MaxExecs \in Nat
  BY ConstantsAssumption DEF TypeOK
<1>2. launched'[r] = launched[r] + 1
  BY LaunchTypes
<1>3. launched'[r] \in Execs
  BY <1>1, <1>2 DEF Execs
<1>4. phase' = [phase EXCEPT ![r][launched'[r]] = "scheduled"]
  BY <1>2 DEF Launch
<1>5. \A k \in Execs : k > launched[r] => phase[r][k] = "none" /\ ~cancelling[r][k]
  BY DEF TaskInv
<1>6. \A k \in Execs : k \in Nat
  BY <1>1 DEF Execs
<1> QED
  BY <1>1, <1>2, <1>3, <1>4, <1>5, <1>6

\* The execution that was launched last works on as long as its run is running.
LEMMA LastIsAtWork == Spec => []TaskInv
<1> DEFINE Inv == TypeOK /\ LaunchInv
<1>1. Init => TaskInv
  BY DEF Init, TaskInv
<1>2. Inv /\ TaskInv /\ [Next]_vars => TaskInv'
  <2> SUFFICES ASSUME Inv, TaskInv, [Next]_vars PROVE TaskInv'
    OBVIOUS
  <2>1. ASSUME NEW r \in Runs, Start(r) PROVE TaskInv'
    <3>1. launched[r] + 1 <= MaxExecs
      BY <2>1, ConstantsAssumption DEF Start, LaunchInv
    <3>2. CASE UseCache
      BY <2>1, <3>2, SMTT(40) DEF Start, SetStatus, TaskInv, TypeOK
    <3>3. CASE ~UseCache
      <4>1. Launch(r) /\ UNCHANGED <<starting, cancelling>>
        BY <2>1, <3>3 DEF Start
      <4>2. \A q \in Runs \ {r} : launched'[q] = launched[q] /\ status'[q] = status[q]
        BY <2>1, <3>1, <4>1, LaunchTypes DEF Start, SetStatus, TypeOK
      <4> QED
        BY <3>1, <4>1, <4>2, LaunchStarts DEF TaskInv, Working
    <3> QED
      BY <3>2, <3>3
  <2>2. ASSUME NEW r \in Runs, CacheMiss(r) PROVE TaskInv'
    <3>1. launched[r] + 1 <= MaxExecs /\ Launch(r)
      BY <2>2, ConstantsAssumption DEF CacheMiss, LaunchInv
    <3>2. \A q \in Runs \ {r} : launched'[q] = launched[q] /\ starting'[q] = starting[q]
      BY <2>2, <3>1, LaunchTypes DEF CacheMiss, TypeOK
    <3>3. UNCHANGED <<status, cancelling>>
      BY <2>2 DEF CacheMiss
    <3> QED
      BY <3>1, <3>2, <3>3, LaunchStarts DEF TaskInv, Working
  <2>3. ASSUME NEW r \in Runs, CacheHit(r) PROVE TaskInv'
    BY <2>3 DEF CacheHit, SetStatus, TaskInv, TypeOK
  <2>4. ASSUME NEW r \in Runs, NEW k \in Execs, Task(r, k) PROVE TaskInv'
    <3>1. phase[r][k] \notin {"none"} /\ UNCHANGED <<starting, launched, cancelling>>
      BY <2>4 DEF Task, Begin, NodeUpdate, GraphStops, Pause, Complete, Archive, SaveCache,
                  Raises, Cancelled, Wakes, Alive
    <3>2. \E p \in Phases : phase' = [phase EXCEPT ![r][k] = p]
      <4>1. \A p : phase = [phase EXCEPT ![r][k] = phase[r][k]] /\ phase[r][k] \in Phases
        BY DEF TypeOK
      <4> QED
        BY <2>4, <4>1 DEF Task, Begin, NodeUpdate, GraphStops, Pause, Complete, Archive, SaveCache,
                    Raises, Cancelled, Goto, Phases
    <3>3. /\ \A q \in Runs, j \in Execs : <<q, j>> # <<r, k>> => phase'[q][j] = phase[q][j]
          /\ \A q \in Runs \ {r} : status'[q] = status[q]
      <4>1. status' = status \/ \E s \in Statuses : status' = [status EXCEPT ![r] = s]
        BY <2>4 DEF Task, Begin, NodeUpdate, GraphStops, Pause, Complete, Archive, SaveCache,
                    Raises, Cancelled, SetStatus, Statuses, Terminal
      <4>2. \A q \in Runs \ {r} : status'[q] = status[q]
        BY <4>1 DEF TypeOK
      <4> QED
        BY <3>2, <4>2 DEF TypeOK
    <3>4. status'[r] = "running" =>
            /\ status[r] = "running"
            /\ phase[r][k] \in Working /\ ~cancelling[r][k] => phase'[r][k] \in Working
      BY <2>4 DEF Task, Begin, NodeUpdate, GraphStops, Pause, Complete, Archive, SaveCache,
                  Raises, Cancelled, SetStatus, Goto, Wakes, Working, TypeOK
    <3> QED
      BY <3>1, <3>3, <3>4 DEF TaskInv
  <2>5. ASSUME NEW r \in Runs, Resume(r) \/ EditsApplied(r) PROVE TaskInv'
    <3>1. launched[r] + 1 <= MaxExecs /\ Resumed(r)
      BY <2>5, ConstantsAssumption DEF Resume, MayResume, EditsApplied, LaunchInv, TypeOK
    <3>2. \A q \in Runs \ {r} : launched'[q] = launched[q] /\ status'[q] = status[q]
      BY <3>1, LaunchTypes DEF Resumed, SetStatus, TypeOK
    <3>3. Launch(r) /\ UNCHANGED <<starting, cancelling>>
      BY <2>5, <3>1 DEF Resume, EditsApplied, Resumed
    <3> QED
      BY <3>1, <3>2, <3>3, LaunchStarts DEF TaskInv, Working
  <2>6. ASSUME NEW r \in Runs, ResumeWithEdits(r) \/ EditsRefused(r) PROVE TaskInv'
    BY <2>6 DEF ResumeWithEdits, EditsRefused, TaskInv
  <2>7. ASSUME NEW r \in Runs, Cancel(r) PROVE TaskInv'
    <3>1. UNCHANGED <<starting, launched, phase>>
          /\ status' = [status EXCEPT ![r] = "cancelled"]
      BY <2>7 DEF Cancel, SetStatus
    <3>2. \A q \in Runs \ {r} : cancelling'[q] = cancelling[q] /\ status'[q] = status[q]
      BY <2>7, <3>1 DEF Cancel, TypeOK
    <3>3. \A k \in Execs : k # launched[r] => cancelling'[r][k] = cancelling[r][k]
      BY <2>7 DEF Cancel, TypeOK
    <3>4. \A k \in Execs : k > launched[r] => k # launched[r]
      BY DEF Execs, TypeOK
    <3> QED
      <4>1. status'[r] # "running"
        BY <3>1 DEF TypeOK
      <4>2. \A k \in Execs : k > launched'[r] => phase'[r][k] = "none" /\ ~cancelling'[r][k]
        BY <3>1, <3>3, <3>4 DEF TaskInv
      <4> QED
        BY <3>1, <3>2, <4>1, <4>2 DEF TaskInv
  <2>8. ASSUME NEW s \in Streams, NEW r \in Runs, Connection(s, r) PROVE TaskInv'
    BY <2>8 DEF Connection, Connect, Deliver, TimeOut, Disconnect, TaskInv
  <2>9. CASE UNCHANGED vars
    BY <2>9 DEF vars, TaskInv
  <2> QED
    BY <2>1, <2>2, <2>3, <2>4, <2>5, <2>6, <2>7, <2>8, <2>9 DEF Next, Request, Answer
<1> QED
  BY <1>1, <1>2, TypesAndLaunches, PTL DEF Spec

\* A run that reads running is about to be started, or has an execution that is alive and
\* not being cancelled.
THEOREM SomebodyIsAtWork == Spec => []RunningHasTask
<1>1. TaskInv => RunningHasTask
  BY DEF TaskInv, RunningHasTask, Alive, Working
<1> QED
  BY <1>1, LastIsAtWork, PTL

-----------------------------------------------------------------------------
(* Approval *)

\* executions beyond the first are those of resumes, which have been published, and only
\* they can have begun at the interrupt
ApprovalInv ==
  \A r \in Runs :
    /\ from[r][1] = 0
    /\ launched[r] > 1 => Approved(r)
    /\ checkpoint[r] > Pre => Approved(r)
    /\ \A k \in Execs : pos[r][k] > Pre => from[r][k] >= Pre

\* What has been published stays published.
LEMMA ApprovalStays ==
  ASSUME TypeOK, NEW r \in Runs, NEW events \in Seq(Events), Publish(r, events)
  PROVE  /\ \A q \in Runs : Approved(q) => Approved(q)'
         /\ events = <<"HITL_RESUMED">> => Approved(r)'
<1>1. /\ log'[r] = log[r] \o events /\ log[r] \in Seq(Events)
      /\ \A q \in Runs \ {r} : log'[q] = log[q]
  BY PublishTypes DEF TypeOK
<1>2. /\ Len(log'[r]) = Len(log[r]) + Len(events) /\ Len(log[r]) \in Nat /\ Len(events) \in Nat
      /\ \A i \in 1..Len(log[r]) : i \in 1..Len(log'[r]) /\ log'[r][i] = log[r][i]
      /\ \A i \in 1..Len(events) : log'[r][Len(log[r]) + i] = events[i]
  BY <1>1
<1>3. events = <<"HITL_RESUMED">> => Approved(r)'
  BY <1>2 DEF Approved
<1>4. Approved(r) => Approved(r)'
  BY <1>2 DEF Approved
<1> QED
  BY <1>1, <1>3, <1>4 DEF Approved

\* However resumes and executions overlap, with HITL no node behind the interrupt runs but
\* for a resume, by an execution that found the thread at the interrupt or behind it
\* (interrupt_before, resume_run).
THEOREM NothingSlipsPast == Spec => []SynthesisIsApproved
<1> DEFINE Inv == TypeOK /\ LaunchInv /\ TaskInv
<1> DEFINE Gate == Hitl => ApprovalInv
<1>1. Init => Gate
  BY ConstantsAssumption DEF Init, ApprovalInv, Execs
<1>2. Inv /\ Gate /\ [Next]_vars => Gate'
  <2> SUFFICES ASSUME Inv, ApprovalInv, [Next]_vars, Hitl PROVE ApprovalInv'
    OBVIOUS
  <2> USE EventSequences
  <2>1. ASSUME NEW r \in Runs, Start(r) \/ CacheMiss(r) \/ CacheHit(r)
        PROVE  ApprovalInv'
    <3>1. \A q \in Runs : Approved(q) => Approved(q)'
      BY <2>1, ApprovalStays DEF Start, CacheMiss, CacheHit, Events, Approved
    <3>2. UNCHANGED <<from, checkpoint, pos>>
      BY <2>1 DEF Start, CacheMiss, CacheHit
    <3>3. \A q \in Runs : launched'[q] > 1 => launched[q] > 1
      <4>1. CASE UNCHANGED launched
        BY <4>1
      <4>2. CASE Launch(r)
        <5>1. launched[r] = 0
          BY <2>1, <4>2 DEF Start, CacheMiss, CacheHit, LaunchInv
        <5>2. launched'[r] = 1 /\ \A q \in Runs \ {r} : launched'[q] = launched[q]
          BY <4>2, <5>1, LaunchTypes, ConstantsAssumption
        <5> QED
          BY <5>2
      <4> QED
        BY <2>1, <4>1, <4>2 DEF Start, CacheMiss, CacheHit
    <3> QED
      BY <3>1, <3>2, <3>3 DEF ApprovalInv
  <2>2. ASSUME NEW r \in Runs, Resume(r) \/ EditsApplied(r) PROVE ApprovalInv'
    <3>1. launched[r] + 1 <= MaxExecs /\ Resumed(r)
      BY <2>2, ConstantsAssumption DEF Resume, MayResume, EditsApplied, LaunchInv, TypeOK
    <3>2. Approved(r)' /\ \A q \in Runs : Approved(q) => Approved(q)'
      BY <3>1, ApprovalStays DEF Resumed, Events
    <3>3. \A q \in Runs \ {r} : launched'[q] = launched[q]
      BY <3>1, LaunchTypes DEF Resumed
    <3>4. UNCHANGED <<from, checkpoint, pos>>
      BY <2>2 DEF Resume, EditsApplied
    <3> QED
      BY <3>2, <3>3, <3>4 DEF ApprovalInv
  <2>3. ASSUME NEW r \in Runs, Cancel(r) PROVE ApprovalInv'
    <3>1. \A q \in Runs : Approved(q) => Approved(q)'
      BY <2>3, ApprovalStays DEF Cancel, Events, TerminalEvents
    <3> QED
      BY <2>3, <3>1 DEF Cancel, ApprovalInv
  <2>4. ASSUME NEW r \in Runs, NEW k \in Execs, Begin(r, k) PROVE ApprovalInv'
    <3> DEFINE start == IF k = 1 THEN 0 ELSE checkpoint[r]
    <3>1. /\ pos' = [pos EXCEPT ![r][k] = start] /\ from' = [from EXCEPT ![r][k] = start]
          /\ UNCHANGED <<log, launched, checkpoint>>
      BY <2>4 DEF Begin
    <3>2. start \in Nat /\ Pre \in Nat /\ 1 \in Execs
      BY ConstantsAssumption DEF TypeOK, Execs
    <3>3. from'[r][1] = 0 /\ \A q \in Runs \ {r} : from'[q] = from[q] /\ pos'[q] = pos[q]
      BY <3>1 DEF ApprovalInv, TypeOK
    <3>4. \A j \in Execs : pos'[r][j] > Pre => from'[r][j] >= Pre
      BY <3>1, <3>2 DEF ApprovalInv, TypeOK
    <3> QED
      BY <3>1, <3>3, <3>4 DEF ApprovalInv, Approved
  <2>5. ASSUME NEW r \in Runs, NEW k \in Execs, NodeUpdate(r, k) PROVE ApprovalInv'
    <3>1. /\ pos' = [pos EXCEPT ![r][k] = @ + 1]
          /\ checkpoint' = [checkpoint EXCEPT ![r] = pos[r][k] + 1]
          /\ UNCHANGED <<from, launched>>
          /\ pos[r][k] = Pre => from[r][k] = Pre
          /\ phase[r][k] = "graph"
      BY <2>5 DEF NodeUpdate, HasUpdate, Wakes
    <3>2. /\ pos[r][k] \in Nat /\ from[r][k] \in Nat /\ Pre \in Nat \ {0} /\ k \in Nat \ {0}
          /\ launched[r] \in Nat
      BY ConstantsAssumption DEF TypeOK, Execs
    <3>3. pos[r][k] + 1 > Pre => from[r][k] >= Pre
      BY <3>1, <3>2 DEF ApprovalInv
    <3>4. pos[r][k] + 1 > Pre => Approved(r)
      <4>1. k <= launched[r]
        BY <3>1, <3>2 DEF TaskInv
      <4>2. k = 1 => from[r][k] = 0
        BY DEF ApprovalInv
      <4> QED
        BY <3>2, <3>3, <4>1, <4>2 DEF ApprovalInv
    <3>5. \A q \in Runs : Approved(q) => Approved(q)'
      BY <2>5, ApprovalStays DEF NodeUpdate, Events, Approved
    <3>6. \A j \in Execs : pos'[r][j] > Pre => from'[r][j] >= Pre
      BY <3>1, <3>3 DEF ApprovalInv, TypeOK
    <3>7. checkpoint'[r] > Pre => Approved(r)
      BY <3>1, <3>4 DEF TypeOK
    <3>8. \A q \in Runs \ {r} : pos'[q] = pos[q] /\ checkpoint'[q] = checkpoint[q]
      BY <3>1 DEF TypeOK
    <3> QED
      BY <3>1, <3>5, <3>6, <3>7, <3>8 DEF ApprovalInv
  <2>6. ASSUME NEW r \in Runs, NEW k \in Execs, Task(r, k), ~Begin(r, k), ~NodeUpdate(r, k)
        PROVE  ApprovalInv'
    <3>1. \A q \in Runs : Approved(q) => Approved(q)'
      <4>1. UNCHANGED log \/ \E e \in Events : Publish(r, <<e>>)
        BY <2>6 DEF Task, GraphStops, Pause, Complete, Archive, SaveCache, Raises, Cancelled,
                    Events, TerminalEvents
      <4> QED
        BY <4>1, ApprovalStays DEF Approved
    <3>2. UNCHANGED <<from, launched, checkpoint, pos>>
      BY <2>6 DEF Task, GraphStops, Pause, Complete, Archive, SaveCache, Raises, Cancelled
    <3> QED
      BY <3>1, <3>2 DEF ApprovalInv
  <2>7. ASSUME NEW r \in Runs, ResumeWithEdits(r) \/ EditsRefused(r) PROVE ApprovalInv'
    BY <2>7 DEF ResumeWithEdits, EditsRefused, ApprovalInv, Approved
  <2>8. ASSUME NEW s \in Streams, NEW r \in Runs, Connection(s, r) PROVE ApprovalInv'
    BY <2>8 DEF Connection, Connect, Deliver, TimeOut, Disconnect, ApprovalInv, Approved
  <2>9. CASE UNCHANGED vars
    BY <2>9 DEF vars, ApprovalInv, Approved
  <2> QED
    BY <2>1, <2>2, <2>3, <2>4, <2>5, <2>6, <2>7, <2>8, <2>9 DEF Next, Request, Answer
<1>3. TypeOK /\ Gate => SynthesisIsApproved
  <2> SUFFICES ASSUME TypeOK, ApprovalInv, NEW r \in Runs, NEW k \in Execs, pos[r][k] > Pre
               PROVE  k > 1 /\ from[r][k] >= Pre
    BY DEF SynthesisIsApproved, ApprovalInv
  <2>1. from[r][k] >= Pre /\ from[r][1] = 0
    BY DEF ApprovalInv
  <2>2. k # 1
    BY <2>1, ConstantsAssumption
  <2> QED
    BY <2>1, <2>2, ConstantsAssumption DEF Execs
<1> QED
  BY <1>1, <1>2, <1>3, TypesAndLaunches, LastIsAtWork, PTL DEF Spec

-----------------------------------------------------------------------------
(* Events *)

\* the number of the last event that has left the queue
Gone(r) == Len(log[r]) - Len(queue[r])

\* the queue holds the events that have not left it, in order
QueueInv ==
  \A r \in Runs :
    /\ Gone(r) \in Nat
    /\ \A i \in 1..Len(queue[r]) : queue[r][i] = Gone(r) + i

\* the events a stream has sent, and their order
Sent(s) == Elements(got[s])
Ordered(s) == Increasing(got[s])

\* an event that has left it was sent by one stream or taken by one that lost its client
GoneInv ==
  /\ \A r \in Runs :
       /\ \A i \in 1..Gone(r) :
            i \in taken[r] \/ \E s \in Streams : streamOf[s] = r /\ i \in Sent(s)
       /\ taken[r] \subseteq 1..Gone(r)
       /\ \A s \in Streams : streamOf[s] = r =>
            Sent(s) \subseteq 1..Gone(r) /\ Sent(s) \cap taken[r] = {}
  /\ \A s \in Streams :
       /\ streamOf[s] = NoRun => got[s] = <<>>
       /\ Ordered(s)
       /\ \A t \in Streams : s # t /\ streamOf[s] = streamOf[t] =>
            Sent(s) \cap Sent(t) = {}

\* Publishing changes nothing about the events that have left the queue.
LEMMA PublishKeepsQueue ==
  ASSUME TypeOK, QueueInv, NEW r \in Runs, NEW events \in Seq(Events), Publish(r, events)
  PROVE  QueueInv' /\ \A q \in Runs : Gone(q)' = Gone(q)
<1> DEFINE numbers == [i \in 1..Len(events) |-> Len(log[r]) + i]
<1>1. log[r] \in Seq(Events) /\ queue[r] \in Seq(Nat) /\ Len(events) \in Nat
      /\ Len(log[r]) \in Nat /\ Len(queue[r]) \in Nat
  BY DEF TypeOK
<1>2. /\ log'[r] = log[r] \o events /\ queue'[r] = queue[r] \o numbers
      /\ \A q \in Runs \ {r} : log'[q] = log[q] /\ queue'[q] = queue[q]
  BY PublishTypes
<1>3. numbers \in Seq(Nat) /\ Len(numbers) = Len(events)
  BY <1>1
<1>4. Len(log'[r]) = Len(log[r]) + Len(events) /\ Len(queue'[r]) = Len(queue[r]) + Len(events)
  BY <1>1, <1>2, <1>3
<1>5. \A q \in Runs : Gone(q)' = Gone(q)
  <2>1. Len(log'[r]) - Len(queue'[r]) = Len(log[r]) - Len(queue[r])
    <3> HIDE DEF numbers
    <3> QED
      BY <1>1, <1>4
  <2> QED
    BY <1>2, <2>1 DEF Gone
<1>6. ASSUME NEW i \in 1..Len(queue'[r]) PROVE queue'[r][i] = Gone(r) + i
  <2>1. CASE i <= Len(queue[r])
    <3>1. queue'[r][i] = queue[r][i]
      BY <1>1, <1>2, <1>3, <2>1
    <3> QED
      BY <1>1, <2>1, <3>1 DEF QueueInv
  <2>2. CASE i > Len(queue[r])
    <3>1. i - Len(queue[r]) \in 1..Len(events)
      BY <1>1, <1>4, <2>2
    <3>2. queue'[r][i] = numbers[i - Len(queue[r])]
      BY <1>1, <1>2, <1>3, <1>4, <2>2, <3>1
    <3>3. queue'[r][i] = Len(log[r]) + (i - Len(queue[r]))
      BY <3>1, <3>2
    <3>4. i \in Nat
      BY <1>1, <1>4
    <3> QED
      BY <1>1, <3>3, <3>4 DEF Gone
  <2> QED
    BY <1>1, <1>4, <2>1, <2>2
<1> QED
  BY <1>2, <1>5, <1>6 DEF QueueInv

\* What is taken from the queue is the next event, and nothing else leaves the queue.
LEMMA TakeIsNext ==
  ASSUME TypeOK, QueueInv, NEW r \in Runs, Take(r), log' = log
  PROVE  /\ QueueInv' /\ Head(queue[r]) = Gone(r) + 1 /\ Gone(r)' = Gone(r) + 1
         /\ \A q \in Runs \ {r} : Gone(q)' = Gone(q)
<1>1. queue \in [Runs -> Seq(Nat)] /\ queue[r] \in Seq(Nat) /\ queue[r] # <<>>
      /\ Len(log[r]) \in Nat
  BY DEF TypeOK, Take
<1>2. queue'[r] = Tail(queue[r]) /\ \A q \in Runs \ {r} : queue'[q] = queue[q]
  BY <1>1 DEF Take
<1>3. Len(queue'[r]) = Len(queue[r]) - 1 /\ Len(queue[r]) \in Nat \ {0}
  BY <1>1, <1>2
<1>4. Gone(r)' = Gone(r) + 1 /\ \A q \in Runs \ {r} : Gone(q)' = Gone(q)
  <2>1. Len(log[r]) - (Len(queue[r]) - 1) = (Len(log[r]) - Len(queue[r])) + 1
    BY <1>1, <1>3
  <2> QED
    BY <1>2, <1>3, <2>1 DEF Gone
<1>5. Gone(r) \in Nat /\ \A i \in 1..Len(queue[r]) : queue[r][i] = Gone(r) + i
  BY DEF QueueInv
<1>6. Head(queue[r]) = Gone(r) + 1
  BY <1>1, <1>3, <1>5
<1>7. ASSUME NEW i \in 1..Len(queue'[r]) PROVE queue'[r][i] = Gone(r)' + i
  <2>1. i + 1 \in 1..Len(queue[r]) /\ queue'[r][i] = queue[r][i + 1]
    BY <1>1, <1>2, <1>3
  <2>2. queue[r][i + 1] = Gone(r) + (i + 1)
    BY <1>5, <2>1
  <2> QED
    BY <1>4, <1>5, <2>1, <2>2
<1>8. QueueInv'
  <2>1. ASSUME NEW q \in Runs \ {r} PROVE Gone(q)' \in Nat /\ queue'[q] = queue[q] /\ Gone(q)' = Gone(q)
    BY <1>2, <1>4 DEF QueueInv
  <2>2. Gone(r)' \in Nat
    BY <1>4, <1>5
  <2> QED
    BY <1>7, <2>1, <2>2 DEF QueueInv
<1> QED
  BY <1>4, <1>6, <1>8

\* The last q of l numbers are the first q, shifted.
LEMMA Shifted ==
  ASSUME NEW g \in Nat, NEW q \in Nat, NEW l \in Nat, g = l - q
  PROVE  /\ \A n \in (g + 1)..l : n - g \in 1..q /\ g + (n - g) = n
         /\ \A i \in 1..q : g + i \in (g + 1)..l
OBVIOUS

\* What no step of a connection disturbs stays accounted for.
LEMMA SentStays ==
  ASSUME GoneInv, UNCHANGED <<streamOf, got, taken>>, \A r \in Runs : Gone(r)' = Gone(r)
  PROVE  GoneInv'
<1>1. \A s \in Streams : Sent(s)' = Sent(s) /\ Ordered(s)' = Ordered(s)
  BY DEF Sent, Ordered, Elements, Increasing
<1> QED
  BY <1>1 DEF GoneInv

\* Sending or taking the next event keeps the account: it is larger than all that are gone.
LEMMA NextIsAccounted ==
  ASSUME TypeOK, QueueInv, GoneInv, NEW s \in Streams, NEW r \in Runs, streamOf[s] = r,
         Take(r), log' = log, UNCHANGED streamOf,
         \/ /\ got' = [got EXCEPT ![s] = Append(@, Head(queue[r]))]
            /\ UNCHANGED taken
         \/ /\ taken' = [taken EXCEPT ![r] = @ \cup {Head(queue[r])}]
            /\ UNCHANGED got
  PROVE  GoneInv'
<1> DEFINE next == Gone(r) + 1
<1>1. /\ Head(queue[r]) = next /\ Gone(r)' = next
      /\ \A q \in Runs \ {r} : Gone(q)' = Gone(q)
  BY TakeIsNext
<1>2. Gone(r) \in Nat
  BY DEF QueueInv
<1>3. next \notin 1..Gone(r) /\ 1..next = (1..Gone(r)) \cup {next} /\ next \in Nat
  BY <1>2
<1> HIDE DEF next
<1>4. got \in [Streams -> Seq(Nat)] /\ taken \in [Runs -> SUBSET Nat]
  BY DEF TypeOK
<1>5. CASE got' = [got EXCEPT ![s] = Append(@, Head(queue[r]))] /\ UNCHANGED taken
  <2>1. got'[s] = Append(got[s], next) /\ \A t \in Streams \ {s} : got'[t] = got[t]
    BY <1>1, <1>4, <1>5
  <2>2. Sent(s)' = Sent(s) \cup {next}
    <3>1. got[s] \in Seq(Nat) /\ Len(got[s]) \in Nat
      BY <1>4
    <3>2. /\ Len(got'[s]) = Len(got[s]) + 1 /\ got'[s][Len(got[s]) + 1] = next
          /\ \A i \in 1..Len(got[s]) : got'[s][i] = got[s][i]
      BY <1>3, <2>1, <3>1
    <3>3. 1..Len(got'[s]) = (1..Len(got[s])) \cup {Len(got[s]) + 1}
      BY <3>1, <3>2
    <3> QED
      BY <3>2, <3>3 DEF Sent, Elements
  <2>3. Ordered(s)'
    <3>1. got[s] \in Seq(Nat) /\ Len(got[s]) \in Nat
      BY <1>4
    <3>2. /\ Len(got'[s]) = Len(got[s]) + 1 /\ got'[s][Len(got[s]) + 1] = next
          /\ \A i \in 1..Len(got[s]) : got'[s][i] = got[s][i]
      BY <1>3, <2>1, <3>1
    <3>3. \A i \in 1..Len(got[s]) : got[s][i] \in 1..Gone(r)
      BY DEF GoneInv, Sent, Elements
    <3>4. \A i \in 1..Len(got[s]) : got[s][i] < next
      BY <1>2, <3>3 DEF next
    <3>5. \A i, j \in 1..Len(got[s]) : i < j => got[s][i] < got[s][j]
      BY DEF GoneInv, Ordered, Increasing
    <3>6. ASSUME NEW i \in 1..Len(got'[s]), NEW j \in 1..Len(got'[s]), i < j
          PROVE  got'[s][i] < got'[s][j]
      <4>1. i \in 1..Len(got[s]) /\ (j \in 1..Len(got[s]) \/ j = Len(got[s]) + 1)
        BY <3>1, <3>2, <3>6
      <4>2. CASE j \in 1..Len(got[s])
        <5>1. got[s][i] < got[s][j]
          BY <3>5, <3>6, <4>1, <4>2
        <5> QED
          BY <3>2, <4>1, <4>2, <5>1
      <4>3. CASE j = Len(got[s]) + 1
        BY <3>2, <3>4, <4>1, <4>3
      <4> QED
        BY <4>1, <4>2, <4>3
    <3> QED
      BY <3>6 DEF Ordered, Increasing
  <2>4. next \notin taken[r] /\ \A t \in Streams : streamOf[t] = r => next \notin Sent(t)
    BY <1>3 DEF GoneInv
  <2>5. \A q \in Runs \ {r} : q # streamOf[s]
    OBVIOUS
  <2>6. \A t \in Streams \ {s} : Sent(t)' = Sent(t) /\ (Ordered(t)' <=> Ordered(t))
    BY <2>1 DEF Sent, Ordered, Elements, Increasing
  <2>7. UNCHANGED <<taken, streamOf>>
    BY <1>5
  <2>8. ASSUME NEW q \in Runs
        PROVE  /\ \A i \in 1..Gone(q)' :
                    i \in taken'[q] \/ \E t \in Streams : streamOf'[t] = q /\ i \in Sent(t)'
               /\ taken'[q] \subseteq 1..Gone(q)'
               /\ \A t \in Streams : streamOf'[t] = q =>
                    Sent(t)' \subseteq 1..Gone(q)' /\ Sent(t)' \cap taken'[q] = {}
    <3>1. CASE q = r
      BY <1>1, <1>3, <2>2, <2>4, <2>6, <2>7, <3>1 DEF GoneInv
    <3>2. CASE q # r
      BY <1>1, <2>6, <2>7, <3>2 DEF GoneInv
    <3> QED
      BY <3>1, <3>2
  <2>9. ASSUME NEW t \in Streams
        PROVE  /\ streamOf'[t] = NoRun => got'[t] = <<>>
               /\ Ordered(t)'
               /\ \A u \in Streams : t # u /\ streamOf'[t] = streamOf'[u] =>
                    Sent(t)' \cap Sent(u)' = {}
    <3>1. streamOf'[t] = NoRun => got'[t] = <<>>
      BY <2>1, <2>7, ConstantsAssumption DEF GoneInv
    <3>2. Ordered(t)'
      BY <2>3, <2>6 DEF GoneInv
    <3>3. \A u \in Streams : t # u /\ streamOf'[t] = streamOf'[u] =>
            Sent(t)' \cap Sent(u)' = {}
      BY <2>2, <2>4, <2>6, <2>7 DEF GoneInv
    <3> QED
      BY <3>1, <3>2, <3>3
  <2> QED
    BY <2>8, <2>9 DEF GoneInv
<1>6. CASE taken' = [taken EXCEPT ![r] = @ \cup {Head(queue[r])}] /\ UNCHANGED got
  <2>1. taken'[r] = taken[r] \cup {next} /\ \A q \in Runs \ {r} : taken'[q] = taken[q]
    BY <1>1, <1>4, <1>6
  <2>2. \A t \in Streams : streamOf[t] = r => next \notin Sent(t)
    BY <1>3 DEF GoneInv
  <2>3. UNCHANGED <<got, streamOf>> /\ \A t \in Streams : Sent(t)' = Sent(t) /\ Ordered(t)' = Ordered(t)
    BY <1>6 DEF Sent, Ordered, Elements, Increasing
  <2>4. ASSUME NEW q \in Runs
        PROVE  /\ \A i \in 1..Gone(q)' :
                    i \in taken'[q] \/ \E t \in Streams : streamOf'[t] = q /\ i \in Sent(t)'
               /\ taken'[q] \subseteq 1..Gone(q)'
               /\ \A t \in Streams : streamOf'[t] = q =>
                    Sent(t)' \subseteq 1..Gone(q)' /\ Sent(t)' \cap taken'[q] = {}
    <3>1. CASE q = r
      BY <1>1, <1>3, <2>1, <2>2, <2>3, <3>1 DEF GoneInv
    <3>2. CASE q # r
      BY <1>1, <2>1, <2>3, <3>2 DEF GoneInv
    <3> QED
      BY <3>1, <3>2
  <2> QED
    BY <2>3, <2>4 DEF GoneInv
<1> QED
  BY <1>5, <1>6

\* Each published event is sent to one stream, taken by one that lost its client, or
\* queued, never two of these, and each stream sends in the order of publication.
THEOREM NothingIsLost == Spec => []EventsAccountedFor
<1> DEFINE Inv == QueueInv /\ GoneInv
<1>1. Init => Inv
  <2> SUFFICES ASSUME Init PROVE Inv
    OBVIOUS
  <2>1. \A r \in Runs : Gone(r) = 0 /\ Len(queue[r]) = 0 /\ taken[r] = {} /\ queue[r] = <<>>
    BY DEF Init, Gone
  <2>2. \A s \in Streams : got[s] = <<>> /\ Sent(s) = {} /\ Ordered(s)
    BY DEF Init, Sent, Ordered, Elements, Increasing
  <2>3. QueueInv
    BY <2>1 DEF QueueInv
  <2>4. GoneInv
    BY <2>1, <2>2 DEF GoneInv
  <2> QED
    BY <2>3, <2>4
<1>2. TypeOK /\ Inv /\ [Next]_vars => Inv'
  <2> SUFFICES ASSUME TypeOK, Inv, [Next]_vars PROVE Inv'
    OBVIOUS
  <2>1. ASSUME UNCHANGED <<log, queue, connections>> PROVE Inv'
    <3>1. \A r \in Runs : Gone(r)' = Gone(r)
      BY <2>1 DEF Gone
    <3>2. QueueInv'
      BY <2>1, <3>1 DEF QueueInv
    <3> QED
      BY <2>1, <3>1, <3>2, SentStays
  <2>2. ASSUME NEW r \in Runs, NEW events \in Seq(Events), Publish(r, events), UNCHANGED connections
        PROVE  Inv'
    <3>1. QueueInv' /\ \A q \in Runs : Gone(q)' = Gone(q)
      BY <2>2, PublishKeepsQueue
    <3> QED
      BY <2>2, <3>1, SentStays
  <2>3. ASSUME NEW r \in Runs, Request(r) \/ Answer(r) \/ \E k \in Execs : Task(r, k) PROVE Inv'
    <3>1. UNCHANGED connections
      BY <2>3 DEF Request, Start, Resume, ResumeWithEdits, Cancel, Answer, CacheMiss, CacheHit,
                  EditsApplied, EditsRefused, Task, Begin, NodeUpdate, GraphStops, Pause, Complete,
                  Archive, SaveCache, Raises, Cancelled
    <3>2. CASE Request(r)
      <4>1. UNCHANGED <<log, queue>> \/ \E e \in Events : Publish(r, <<e>>)
        BY <3>2 DEF Request, Start, Resume, Resumed, ResumeWithEdits, Cancel, Events, TerminalEvents
      <4> QED
        BY <2>1, <2>2, <3>1, <4>1, EventSequences
    <3>3. CASE Answer(r)
      <4>1. \/ UNCHANGED <<log, queue>> \/ \E e \in Events : Publish(r, <<e>>)
            \/ Publish(r, <<"CACHE_HIT", "RUN_COMPLETED">>)
        BY <3>3 DEF Answer, CacheMiss, CacheHit, EditsApplied, EditsRefused, Resumed, Events
      <4> QED
        BY <2>1, <2>2, <3>1, <4>1, EventSequences
    <3>4. ASSUME NEW k \in Execs, Task(r, k) PROVE Inv'
      <4>1. UNCHANGED <<log, queue>> \/ \E e \in Events : Publish(r, <<e>>)
        BY <3>4 DEF Task, Begin, NodeUpdate, GraphStops, Pause, Complete, Archive, SaveCache,
                    Raises, Cancelled, Events, TerminalEvents
      <4> QED
        BY <2>1, <2>2, <3>1, <4>1, EventSequences
    <3> QED
      BY <2>3, <3>2, <3>3, <3>4
  <2>4. ASSUME NEW s \in Streams, NEW r \in Runs, Connection(s, r) PROVE Inv'
    <3>1. CASE Connect(s, r)
      <4>1. /\ streamOf[s] = NoRun /\ streamOf' = [streamOf EXCEPT ![s] = r]
            /\ UNCHANGED <<log, queue, got, taken>>
        BY <3>1 DEF Connect
      <4>2. \A q \in Runs : Gone(q)' = Gone(q)
        BY <4>1 DEF Gone
      <4>3. /\ streamOf'[s] = r /\ r # NoRun /\ got[s] = <<>> /\ Sent(s) = {}
            /\ \A t \in Streams \ {s} : streamOf'[t] = streamOf[t]
        BY <4>1, ConstantsAssumption DEF TypeOK, GoneInv, Sent, Elements
      <4>4. QueueInv'
        BY <4>1, <4>2 DEF QueueInv
      <4>5. ASSUME NEW q \in Runs
            PROVE  /\ \A i \in 1..Gone(q) :
                        i \in taken[q] \/ \E t \in Streams : streamOf'[t] = q /\ i \in Sent(t)
                   /\ taken[q] \subseteq 1..Gone(q)
                   /\ \A t \in Streams : streamOf'[t] = q =>
                        Sent(t) \subseteq 1..Gone(q) /\ Sent(t) \cap taken[q] = {}
        BY <4>3 DEF GoneInv
      <4>6. ASSUME NEW t \in Streams
            PROVE  /\ streamOf'[t] = NoRun => got[t] = <<>>
                   /\ Ordered(t)
                   /\ \A u \in Streams : t # u /\ streamOf'[t] = streamOf'[u] =>
                        Sent(t) \cap Sent(u) = {}
        BY <4>3 DEF GoneInv
      <4>7. \A t \in Streams : Sent(t)' = Sent(t) /\ Ordered(t)' = Ordered(t)
        BY <4>1 DEF Sent, Ordered, Elements, Increasing
      <4>8. GoneInv'
        BY <4>1, <4>2, <4>5, <4>6, <4>7 DEF GoneInv
      <4> QED
        BY <4>4, <4>8
    <3>2. CASE Deliver(s, r)
      <4>1. QueueInv'
        BY <3>2, TakeIsNext DEF Deliver
      <4>2. GoneInv'
        BY <3>2, NextIsAccounted DEF Deliver
      <4> QED
        BY <4>1, <4>2
    <3>3. CASE TimeOut(s, r)
      <4>1. \A q \in Runs : Gone(q)' = Gone(q)
        BY <3>3 DEF TimeOut, Gone
      <4>2. UNCHANGED <<queue, streamOf, got, taken>>
        BY <3>3 DEF TimeOut
      <4> QED
        BY <4>1, <4>2, SentStays DEF QueueInv
    <3>4. CASE Disconnect(s, r)
      <4>1. CASE UNCHANGED <<queue, taken>>
        <5>1. \A q \in Runs : Gone(q)' = Gone(q)
          BY <3>4, <4>1 DEF Disconnect, Gone
        <5>2. UNCHANGED <<queue, streamOf, got, taken>>
          BY <3>4, <4>1 DEF Disconnect
        <5> QED
          BY <5>1, <5>2, SentStays DEF QueueInv
      <4>2. CASE Take(r) /\ taken' = [taken EXCEPT ![r] = @ \cup {Head(queue[r])}]
        <5>1. QueueInv'
          BY <3>4, <4>2, TakeIsNext DEF Disconnect
        <5>2. GoneInv'
          BY <3>4, <4>2, NextIsAccounted DEF Disconnect
        <5> QED
          BY <5>1, <5>2
      <4> QED
        BY <3>4, <4>1, <4>2 DEF Disconnect
    <3> QED
      BY <2>4, <3>1, <3>2, <3>3, <3>4 DEF Connection
  <2>5. CASE UNCHANGED vars
    BY <2>1, <2>5 DEF vars
  <2> QED
    BY <2>3, <2>4, <2>5 DEF Next
<1>3. TypeOK /\ Inv => EventsAccountedFor
  <2> SUFFICES ASSUME TypeOK, Inv PROVE EventsAccountedFor
    OBVIOUS
  <2>1. ASSUME NEW r \in Runs PROVE Elements(queue[r]) = (Gone(r) + 1)..Len(log[r])
    <3>1. Len(queue[r]) \in Nat /\ Len(log[r]) \in Nat /\ Gone(r) \in Nat
          /\ Gone(r) = Len(log[r]) - Len(queue[r])
      BY DEF TypeOK, QueueInv, Gone
    <3>2. \A i \in 1..Len(queue[r]) : queue[r][i] = Gone(r) + i
      BY DEF QueueInv
    <3>3. \A n \in (Gone(r) + 1)..Len(log[r]) :
            n - Gone(r) \in 1..Len(queue[r]) /\ queue[r][n - Gone(r)] = n
      <4>1. \A n \in (Gone(r) + 1)..Len(log[r]) :
              n - Gone(r) \in 1..Len(queue[r]) /\ Gone(r) + (n - Gone(r)) = n
        BY <3>1, Shifted
      <4> QED
        BY <3>2, <4>1
    <3>4. ASSUME NEW i \in 1..Len(queue[r]) PROVE queue[r][i] \in (Gone(r) + 1)..Len(log[r])
      <4>1. Gone(r) + i \in (Gone(r) + 1)..Len(log[r])
        BY <3>1, Shifted
      <4> QED
        BY <3>2, <4>1
    <3> QED
      BY <3>3, <3>4 DEF Elements
  <2>2. ASSUME NEW r \in Runs PROVE Increasing(queue[r])
    <3>1. Len(queue[r]) \in Nat /\ Gone(r) \in Nat
      BY DEF TypeOK, QueueInv
    <3> QED
      BY <3>1 DEF QueueInv, Increasing
  <2>3. ASSUME NEW r \in Runs
        PROVE  LET sent(s) == IF streamOf[s] = r THEN Elements(got[s]) ELSE {}
               IN  /\ (UNION {sent(s) : s \in Streams}) \cup taken[r] \cup Elements(queue[r])
                        = 1..Len(log[r])
                   /\ \A s \in Streams : sent(s) \cap (taken[r] \cup Elements(queue[r])) = {}
                   /\ taken[r] \cap Elements(queue[r]) = {}
    <3> DEFINE sent(s) == IF streamOf[s] = r THEN Sent(s) ELSE {}
    <3> SUFFICES /\ (UNION {sent(s) : s \in Streams}) \cup taken[r] \cup Elements(queue[r])
                      = 1..Len(log[r])
                 /\ \A s \in Streams : sent(s) \cap (taken[r] \cup Elements(queue[r])) = {}
                 /\ taken[r] \cap Elements(queue[r]) = {}
      BY DEF Sent
    <3>1. Len(log[r]) \in Nat /\ Gone(r) \in Nat /\ Gone(r) <= Len(log[r])
      BY DEF TypeOK, QueueInv, Gone
    <3>2. /\ 1..Len(log[r]) = (1..Gone(r)) \cup ((Gone(r) + 1)..Len(log[r]))
          /\ (1..Gone(r)) \cap ((Gone(r) + 1)..Len(log[r])) = {}
      BY <3>1
    <3>3. \A s \in Streams : sent(s) \subseteq 1..Gone(r) /\ sent(s) \cap taken[r] = {}
      BY DEF GoneInv
    <3>4. taken[r] \subseteq 1..Gone(r)
      BY DEF GoneInv
    <3>5. \A i \in 1..Gone(r) : i \in taken[r] \/ \E s \in Streams : i \in sent(s)
      BY DEF GoneInv
    <3> DEFINE gone == 1..Gone(r)
               queued == Elements(queue[r])
               all == 1..Len(log[r])
    <3>6. all = gone \cup queued /\ gone \cap queued = {}
      BY <2>1, <3>2
    <3> HIDE DEF sent, gone, queued, all
    <3>7. /\ \A s \in Streams : sent(s) \subseteq gone /\ sent(s) \cap taken[r] = {}
          /\ taken[r] \subseteq gone
          /\ \A i \in gone : i \in taken[r] \/ \E s \in Streams : i \in sent(s)
      BY <3>3, <3>4, <3>5 DEF gone
    <3>8. (UNION {sent(s) : s \in Streams}) \cup taken[r] = gone
      BY <3>7
    <3>9. /\ (UNION {sent(s) : s \in Streams}) \cup taken[r] \cup queued = all
          /\ \A s \in Streams : sent(s) \cap (taken[r] \cup queued) = {}
          /\ taken[r] \cap queued = {}
      BY <3>6, <3>7, <3>8
    <3> QED
      BY <3>9 DEF queued, all
  <2> QED
    BY <2>2, <2>3 DEF EventsAccountedFor, GoneInv, Sent, Ordered
<1> QED
  BY <1>1, <1>2, <1>3, TypeCorrect, PTL DEF Spec

-----------------------------------------------------------------------------
(* The contract: what the manager does for clients that resume a run at    *)
(* its pauses only, and without edits, is a behaviour of RunContract       *)

PausedClients == ResumeAt \subseteq {"awaiting_approval"} /\ ~UseEdits

Unannounced(r) == \A i \in 1..Len(log[r]) : log[r][i] \notin TerminalEvents

\* where a run stands before it is over, while its report is stored, and once it is over
BeforeEnd(r) ==
  status[r] \in {"absent", "running", "awaiting_approval"} =>
    Unannounced(r) /\ archived[r] = 0

Beginning(r) ==
  /\ status[r] = "absent" \/ starting[r] => launched[r] = 0 /\ checkpoint[r] = 0
  /\ starting[r] => status[r] = "running"
  /\ \A k \in Execs : k = 1 /\ phase[r][k] = "scheduled" => checkpoint[r] = 0

Pausing(r) ==
  status[r] = "awaiting_approval" =>
    checkpoint[r] = Pre /\ launched[r] # 0 /\ \A k \in Execs : ~Alive(r, k)

Ending(r) ==
  /\ status[r] = "completed" => final_report[r] = Total
  /\ cancel_event[r] => status[r] = "cancelled"
  /\ archived[r] <= 1

\* an execution of a run: only the last is alive, and the status says what it does
ExecutingAs(r, k) ==
  /\ Alive(r, k) => k = launched[r]
  /\ phase[r][k] \in Working /\ ~cancelling[r][k] => status[r] = "running"
  /\ Alive(r, k) /\ cancelling[r][k] => status[r] = "cancelled"
  /\ phase[r][k] \in {"archive", "cache"} => status[r] = "completed" /\ Unannounced(r)
  /\ phase[r][k] = "archive" => archived[r] = 0
  /\ phase[r][k] = "graph" => pos[r][k] = checkpoint[r]
  /\ phase[r][k] = "snapshot" => checkpoint[r] = Total \/ (Hitl /\ checkpoint[r] = Pre)

Executing(r) == \A k \in Execs : ExecutingAs(r, k)

LifeOf(r) ==
  /\ ~editing[r]
  /\ BeforeEnd(r)
  /\ Beginning(r)
  /\ Pausing(r)
  /\ Ending(r)
  /\ Executing(r)

LifeInv == \A r \in Runs : LifeOf(r)

-----------------------------------------------------------------------------
(* Steps *)

Untouched(r) ==
  /\ status'[r] = status[r] /\ log'[r] = log[r]
  /\ cancel_event'[r] = cancel_event[r] /\ final_report'[r] = final_report[r]
  /\ starting'[r] = starting[r] /\ editing'[r] = editing[r] /\ launched'[r] = launched[r]
  /\ phase'[r] = phase[r] /\ pos'[r] = pos[r] /\ cancelling'[r] = cancelling[r]
  /\ checkpoint'[r] = checkpoint[r] /\ archived'[r] = archived[r]

\* A step of another run leaves a run as it is.
LEMMA UntouchedLife ==
  ASSUME NEW r \in Runs, LifeOf(r), Untouched(r)
  PROVE  LifeOf(r)'
BY DEF LifeOf, Untouched, BeforeEnd, Beginning, Pausing, Ending, Executing, ExecutingAs, Unannounced, Alive

\* An event that does not end the run leaves its end unannounced.
LEMMA StillUnannounced ==
  ASSUME TypeOK, NEW r \in Runs, Unannounced(r), NEW e \in Events \ TerminalEvents,
         Publish(r, <<e>>)
  PROVE  Unannounced(r)'
<1>1. log'[r] = log[r] \o <<e>> /\ log[r] \in Seq(Events)
  BY EventSequences, PublishTypes DEF TypeOK
<1>2. ASSUME NEW i \in 1..Len(log'[r]) PROVE log'[r][i] \notin TerminalEvents
  <2>1. i \in 1..Len(log[r]) \/ i = Len(log[r]) + 1
    BY <1>1
  <2>2. CASE i \in 1..Len(log[r])
    BY <1>1, <2>2 DEF Unannounced
  <2>3. CASE i = Len(log[r]) + 1
    BY <1>1, <2>3
  <2> QED
    BY <2>1, <2>2, <2>3
<1> QED
  BY <1>2 DEF Unannounced

\* A step of an execution touches one run, and only its last execution is alive to take it.
LEMMA TaskTouches ==
  ASSUME TypeOK, NEW r \in Runs, NEW k \in Execs, Task(r, k)
  PROVE  /\ \A q \in Runs \ {r} : Untouched(q)
         /\ UNCHANGED <<cancel_event, starting, editing, launched, cancelling>>
         /\ \A j \in Execs \ {k} : phase'[r][j] = phase[r][j] /\ pos'[r][j] = pos[r][j]
<1>1. UNCHANGED <<cancel_event, starting, editing, launched, cancelling>>
  BY DEF Task, Begin, NodeUpdate, GraphStops, Pause, Complete, Archive, SaveCache, Raises, Cancelled
<1>2. \A q \in Runs \ {r} : log'[q] = log[q]
  <2>1. UNCHANGED log \/ \E e \in Events : Publish(r, <<e>>)
    BY DEF Task, Begin, NodeUpdate, GraphStops, Pause, Complete, Archive, SaveCache, Raises,
           Cancelled, Events, TerminalEvents
  <2> QED
    BY <2>1, EventSequences, PublishTypes
<1>3. /\ status' = status \/ \E v : status' = [status EXCEPT ![r] = v]
      /\ final_report' = final_report \/ \E v : final_report' = [final_report EXCEPT ![r] = v]
      /\ checkpoint' = checkpoint \/ \E v : checkpoint' = [checkpoint EXCEPT ![r] = v]
      /\ archived' = archived \/ \E v : archived' = [archived EXCEPT ![r] = v]
  BY DEF Task, Begin, NodeUpdate, GraphStops, Pause, Complete, Archive, SaveCache, Raises,
         Cancelled, SetStatus
<1>4. phase' = phase \/ \E v : phase' = [phase EXCEPT ![r][k] = v]
  BY DEF Task, Begin, NodeUpdate, GraphStops, Pause, Complete, Archive, SaveCache, Raises,
         Cancelled, Goto
<1>5. pos' = pos \/ \E v : pos' = [pos EXCEPT ![r][k] = v]
  BY DEF Task, Begin, NodeUpdate, GraphStops, Pause, Complete, Archive, SaveCache, Raises,
         Cancelled
<1>6. \A q \in Runs \ {r} : phase'[q] = phase[q] /\ pos'[q] = pos[q]
  BY <1>4, <1>5 DEF TypeOK
<1>7. \A j \in Execs \ {k} : phase'[r][j] = phase[r][j] /\ pos'[r][j] = pos[r][j]
  BY <1>4, <1>5 DEF TypeOK
<1>8. \A q \in Runs \ {r} : /\ status'[q] = status[q] /\ final_report'[q] = final_report[q]
                              /\ checkpoint'[q] = checkpoint[q] /\ archived'[q] = archived[q]
  BY <1>3 DEF TypeOK
<1> QED
  BY <1>1, <1>2, <1>6, <1>7, <1>8 DEF Untouched

\* An execution that takes a step is the last of its run and, unless it is being cancelled,
\* its run is running or, once the graph has come to its end, completed.
LEMMA TaskIsLast ==
  ASSUME TypeOK, NEW r \in Runs, LifeOf(r), NEW k \in Execs, Task(r, k)
  PROVE  /\ k = launched[r] /\ Alive(r, k)
         /\ ~cancelling[r][k] => /\ phase[r][k] \in Working => status[r] = "running"
                                 /\ phase[r][k] \notin Working => status[r] = "completed"
         /\ cancelling[r][k] => Cancelled(r, k)
         /\ \A j \in Execs \ {k} : phase[r][j] \in {"none", "done"}
<1>1. Alive(r, k) /\ (cancelling[r][k] => Cancelled(r, k))
  BY DEF Task, Begin, NodeUpdate, GraphStops, Pause, Complete, Archive, SaveCache, Raises,
         Cancelled, Wakes, Alive
<1>2. phase[r][k] \in Phases
  BY DEF TypeOK
<1> QED
  BY <1>1, <1>2 DEF LifeOf, Executing, ExecutingAs, Alive, Working, Phases

\* A step of the last execution after which the status says what it does.
LEMMA LifeOfLast ==
  ASSUME NEW r \in Runs, NEW k \in Execs, k = launched'[r], ~editing'[r],
         \A j \in Execs : j # k => phase'[r][j] \in {"none", "done"},
         BeforeEnd(r)', Beginning(r)', Pausing(r)', Ending(r)', ExecutingAs(r, k)'
  PROVE  LifeOf(r)'
<1>1. \A j \in Execs : j # k => ExecutingAs(r, j)'
  BY DEF ExecutingAs, Alive, Working
<1> QED
  BY <1>1 DEF LifeOf, Executing

\* The steps of an execution keep the life of its run.
LEMMA TaskLife ==
  ASSUME TypeOK, NEW r \in Runs, LifeOf(r), NEW k \in Execs, Task(r, k)
  PROVE  LifeOf(r)'
<1>1. /\ k = launched[r] /\ launched[r] # 0 /\ ~editing'[r]
      /\ UNCHANGED <<cancel_event, starting, launched, cancelling>>
      /\ \A j \in Execs : j # k => phase'[r][j] \in {"none", "done"}
  BY TaskTouches, TaskIsLast, ConstantsAssumption DEF Execs, LifeOf
<1>12. /\ BeforeEnd(r) /\ Beginning(r) /\ Pausing(r) /\ Ending(r) /\ ExecutingAs(r, k)
       /\ ~cancelling[r][k] => /\ phase[r][k] \in Working => status[r] = "running"
                               /\ phase[r][k] \notin Working => status[r] = "completed"
  BY TaskIsLast DEF LifeOf, Executing
<1>2. /\ status \in [Runs -> Statuses] /\ phase \in [Runs -> [Execs -> Phases]]
      /\ pos \in [Runs -> [Execs -> 0..Total]] /\ checkpoint \in [Runs -> 0..Total]
      /\ final_report \in [Runs -> 0..Total] /\ archived \in [Runs -> Nat]
  BY DEF TypeOK
<1>3. CASE Begin(r, k)
  <2>1. /\ Working \cap {"archive", "cache", "done", "none"} = {} /\ phase[r][k] = "scheduled"
        /\ ~cancelling[r][k] /\ status[r] = "running"
        /\ phase'[r][k] = "graph" /\ pos'[r][k] = checkpoint[r]
        /\ UNCHANGED <<status, log, final_report, checkpoint, archived>>
    BY <1>2, <1>12, <1>3 DEF Begin, Wakes, Goto, Working, Beginning
  <2>10. BeforeEnd(r)' /\ Ending(r)'
    BY <1>1, <1>12, <2>1 DEF BeforeEnd, Ending, Unannounced
  <2>11. Beginning(r)' /\ Pausing(r)'
    BY <1>1, <1>12, <2>1 DEF Beginning, Pausing, Alive
  <2>12. ExecutingAs(r, k)'
    BY <1>1, <1>12, <2>1 DEF ExecutingAs, Alive, Working, Unannounced
  <2> QED
    BY <1>1, <2>10, <2>11, <2>12, LifeOfLast
<1>4. CASE NodeUpdate(r, k)
  <2>1. /\ phase[r][k] = "graph" /\ ~cancelling[r][k] /\ status[r] = "running"
        /\ ~cancel_event[r]
    BY <1>2, <1>12, <1>4 DEF NodeUpdate, Wakes, Working, Ending
  <2>2. /\ Publish(r, <<"NODE">>) /\ pos'[r][k] = pos[r][k] + 1 /\ checkpoint'[r] = pos[r][k] + 1
        /\ UNCHANGED <<status, phase, final_report, archived>>
    BY <1>2, <1>12, <1>4, <2>1 DEF NodeUpdate, IsCancelled
  <2>3. Unannounced(r)'
    BY <1>12, <2>1, <2>2, StillUnannounced DEF BeforeEnd, Events, TerminalEvents
  <2>10. BeforeEnd(r)' /\ Ending(r)'
    BY <1>1, <1>12, <2>1, <2>2, <2>3 DEF BeforeEnd, Ending
  <2>11. Beginning(r)' /\ Pausing(r)'
    BY <1>1, <1>12, <2>1, <2>2, <2>3 DEF Beginning, Pausing, Alive
  <2>12. ExecutingAs(r, k)'
    BY <1>1, <1>12, <2>1, <2>2, <2>3 DEF ExecutingAs, Alive, Working
  <2> QED
    BY <1>1, <2>10, <2>11, <2>12, LifeOfLast
<1>5. CASE GraphStops(r, k)
  <2>1. /\ phase[r][k] = "graph" /\ ~cancelling[r][k] /\ status[r] = "running"
        /\ phase'[r][k] = "snapshot"
        /\ UNCHANGED <<status, log, final_report, checkpoint, archived>>
    BY <1>2, <1>12, <1>5 DEF GraphStops, Wakes, Goto, Working
  <2>2. pos[r][k] = checkpoint[r] /\ checkpoint[r] \in 0..Total /\ Total \in Nat
    BY <1>2, <1>12, <2>1, ConstantsAssumption DEF ExecutingAs
  <2>3. checkpoint[r] = Total \/ (Hitl /\ checkpoint[r] = Pre)
    BY <1>5, <1>12, <2>2 DEF GraphStops, HasUpdate
  <2>10. BeforeEnd(r)' /\ Ending(r)'
    BY <1>1, <1>12, <2>1, <2>3 DEF BeforeEnd, Ending, Unannounced
  <2>11. Beginning(r)' /\ Pausing(r)'
    BY <1>1, <1>12, <2>1, <2>3 DEF Beginning, Pausing, Alive
  <2>12. ExecutingAs(r, k)'
    BY <1>1, <1>12, <2>1, <2>3 DEF ExecutingAs, Alive, Working, Unannounced
  <2> QED
    BY <1>1, <2>10, <2>11, <2>12, LifeOfLast
<1>6. CASE Pause(r, k)
  <2>1. /\ phase[r][k] = "snapshot" /\ ~cancelling[r][k] /\ status[r] = "running"
        /\ phase'[r][k] = "done" /\ status'[r] = "awaiting_approval" /\ checkpoint[r] = Pre
        /\ UNCHANGED <<final_report, checkpoint, archived>> /\ Publish(r, <<"HITL_PAUSED">>)
    BY <1>2, <1>12, <1>6 DEF Pause, Wakes, Goto, SetStatus, Working, AtInterrupt
  <2>2. Unannounced(r)'
    BY <1>12, <2>1, StillUnannounced DEF BeforeEnd, Events, TerminalEvents
  <2>10. BeforeEnd(r)' /\ Ending(r)'
    BY <1>1, <1>12, <2>1, <2>2 DEF BeforeEnd, Ending
  <2>11. Beginning(r)' /\ Pausing(r)'
    BY <1>1, <1>12, <2>1, <2>2 DEF Beginning, Pausing, Alive
  <2>12. ExecutingAs(r, k)'
    BY <1>1, <1>12, <2>1, <2>2 DEF ExecutingAs, Alive, Working
  <2> QED
    BY <1>1, <2>10, <2>11, <2>12, LifeOfLast
<1>7. CASE Complete(r, k)
  <2>1. /\ phase[r][k] = "snapshot" /\ ~cancelling[r][k] /\ status[r] = "running"
        /\ status'[r] = "completed" /\ checkpoint[r] = Total
        /\ UNCHANGED <<checkpoint, archived>>
    BY <1>2, <1>12, <1>7 DEF Complete, Wakes, SetStatus, Working, AtInterrupt, ExecutingAs
  <2>2. phase'[r][k] = "archive" /\ UNCHANGED log /\ final_report'[r] = Total
    BY <1>2, <1>12, <1>7, <2>1 DEF Complete, Goto
  <2>3. Unannounced(r)' /\ archived[r] = 0
    BY <1>12, <2>1, <2>2 DEF BeforeEnd, Unannounced
  <2>10. BeforeEnd(r)' /\ Ending(r)'
    BY <1>1, <1>12, <2>1, <2>2 DEF BeforeEnd, Ending, Unannounced
  <2>11. Beginning(r)' /\ Pausing(r)'
    BY <1>1, <1>12, <2>1, <2>2 DEF Beginning, Pausing, Alive
  <2>12. ExecutingAs(r, k)'
    BY <1>1, <1>12, <2>1, <2>2, <2>3 DEF ExecutingAs, Alive, Working
  <2> QED
    BY <1>1, <2>10, <2>11, <2>12, LifeOfLast
<1>8. CASE Archive(r, k)
  <2>1. /\ phase[r][k] = "archive" /\ ~cancelling[r][k] /\ status[r] = "completed"
        /\ phase'[r][k] \in {"cache", "done"} /\ (phase'[r][k] = "cache" => UNCHANGED log)
        /\ UNCHANGED <<status, final_report, checkpoint>>
    BY <1>2, <1>12, <1>8 DEF Archive, Wakes, Goto, Working
  <2>2. archived[r] = 0 /\ archived'[r] \in {0, 1}
    BY <1>2, <1>12, <1>8, <2>1 DEF Archive, ExecutingAs
  <2>10. BeforeEnd(r)' /\ Ending(r)'
    BY <1>1, <1>12, <2>1, <2>2 DEF BeforeEnd, Ending, Unannounced
  <2>11. Beginning(r)' /\ Pausing(r)'
    BY <1>1, <1>12, <2>1, <2>2 DEF Beginning, Pausing, Alive
  <2>12. ExecutingAs(r, k)'
    BY <1>1, <1>12, <2>1, <2>2 DEF ExecutingAs, Alive, Working, Unannounced
  <2> QED
    BY <1>1, <2>10, <2>11, <2>12, LifeOfLast
<1>9. CASE SaveCache(r, k)
  <2>1. /\ phase[r][k] = "cache" /\ ~cancelling[r][k] /\ status[r] = "completed"
        /\ phase'[r][k] = "done"
        /\ UNCHANGED <<status, final_report, checkpoint, archived>>
    BY <1>2, <1>12, <1>9 DEF SaveCache, Wakes, Goto, Working
  <2>10. BeforeEnd(r)' /\ Ending(r)'
    BY <1>1, <1>12, <2>1 DEF BeforeEnd, Ending
  <2>11. Beginning(r)' /\ Pausing(r)'
    BY <1>1, <1>12, <2>1 DEF Beginning, Pausing, Alive
  <2>12. ExecutingAs(r, k)'
    BY <1>1, <1>12, <2>1 DEF ExecutingAs, Alive, Working
  <2> QED
    BY <1>1, <2>10, <2>11, <2>12, LifeOfLast
<1>10. CASE Raises(r, k)
  <2>1. /\ phase[r][k] \in Working /\ ~cancelling[r][k] /\ status[r] = "running"
        /\ phase'[r][k] = "done" /\ status'[r] = "failed"
        /\ UNCHANGED <<final_report, checkpoint, archived>>
    BY <1>2, <1>12, <1>10 DEF Raises, Wakes, Goto, SetStatus, Working
  <2>10. BeforeEnd(r)' /\ Ending(r)'
    BY <1>1, <1>12, <2>1 DEF BeforeEnd, Ending
  <2>11. Beginning(r)' /\ Pausing(r)'
    BY <1>1, <1>12, <2>1 DEF Beginning, Pausing, Alive
  <2>12. ExecutingAs(r, k)'
    BY <1>1, <1>12, <2>1 DEF ExecutingAs, Alive, Working
  <2> QED
    BY <1>1, <2>10, <2>11, <2>12, LifeOfLast
<1>11. CASE Cancelled(r, k)
  <2>1. /\ cancelling[r][k] /\ Alive(r, k) /\ phase'[r][k] = "done"
        /\ status'[r] = status[r] \/ status'[r] = "cancelled"
        /\ UNCHANGED <<log, final_report, checkpoint, archived>>
    BY <1>2, <1>12, <1>11 DEF Cancelled, Goto, SetStatus
  <2>2. status[r] = "cancelled"
    BY <1>12, <2>1 DEF ExecutingAs
  <2>10. BeforeEnd(r)' /\ Ending(r)'
    BY <1>1, <1>12, <2>1, <2>2 DEF BeforeEnd, Ending
  <2>11. Beginning(r)' /\ Pausing(r)'
    BY <1>1, <1>12, <2>1, <2>2 DEF Beginning, Pausing, Alive
  <2>12. ExecutingAs(r, k)'
    BY <1>1, <1>12, <2>1, <2>2 DEF ExecutingAs, Alive, Working
  <2> QED
    BY <1>1, <2>10, <2>11, <2>12, LifeOfLast
<1> QED
  BY <1>3, <1>4, <1>5, <1>6, <1>7, <1>8, <1>9, <1>10, <1>11 DEF Task

\* What a launch does to the executions of its run.
LEMMA LaunchAlone ==
  ASSUME TypeOK, TaskInv, NEW r \in Runs, launched[r] + 1 <= MaxExecs, Launch(r)
  PROVE  /\ launched'[r] = launched[r] + 1 /\ launched'[r] \in Execs
         /\ phase'[r][launched'[r]] = "scheduled" /\ ~cancelling[r][launched'[r]]
         /\ \A j \in Execs : j # launched'[r] => phase'[r][j] = phase[r][j]
         /\ \A q \in Runs \ {r} : phase'[q] = phase[q] /\ launched'[q] = launched[q]
<1>1. launched'[r] = launched[r] + 1 /\ \A q \in Runs \ {r} : launched'[q] = launched[q]
  BY LaunchTypes
<1>2. phase \in [Runs -> [Execs -> Phases]] /\ phase' = [phase EXCEPT ![r][launched'[r]] = "scheduled"]
  BY <1>1 DEF TypeOK, Launch
<1> QED
  BY <1>1, <1>2, LaunchStarts

\* A request or an answer touches one run.
LEMMA RequestTouches ==
  ASSUME TypeOK, TaskInv, LaunchInv, NEW r \in Runs,
         Start(r) \/ Resume(r) \/ Cancel(r) \/ CacheMiss(r) \/ CacheHit(r)
  PROVE  \A q \in Runs \ {r} : Untouched(q)
<1>1. \A q \in Runs \ {r} : log'[q] = log[q]
  <2>1. \/ UNCHANGED log
        \/ \E e \in Events : Publish(r, <<e>>)
        \/ Publish(r, <<"CACHE_HIT", "RUN_COMPLETED">>)
    BY DEF Start, Resume, Resumed, Cancel, CacheMiss, CacheHit, Events, TerminalEvents
  <2> QED
    BY <2>1, EventSequences, PublishTypes
<1>2. /\ status' = status \/ \E v : status' = [status EXCEPT ![r] = v]
      /\ cancel_event' = cancel_event \/ \E v : cancel_event' = [cancel_event EXCEPT ![r] = v]
      /\ final_report' = final_report \/ \E v : final_report' = [final_report EXCEPT ![r] = v]
      /\ starting' = starting \/ \E v : starting' = [starting EXCEPT ![r] = v]
      /\ UNCHANGED <<editing, pos, checkpoint, archived>>
  BY DEF Start, Resume, Resumed, Cancel, CacheMiss, CacheHit, SetStatus
<1>3. (UNCHANGED <<launched, phase>>) \/ (Launch(r) /\ launched[r] + 1 <= MaxExecs)
  <2>1. launched[r] \in Nat /\ MaxExecs \in Nat \ {0}
    BY ConstantsAssumption DEF TypeOK
  <2>2. CASE Start(r) \/ CacheMiss(r)
    BY <2>1, <2>2 DEF Start, CacheMiss, LaunchInv
  <2>3. CASE Resume(r)
    BY <2>1, <2>3 DEF Resume, Resumed, MayResume
  <2>4. CASE Cancel(r) \/ CacheHit(r)
    BY <2>4 DEF Cancel, CacheHit
  <2> QED
    BY <2>2, <2>3, <2>4
<1>4. \A q \in Runs \ {r} : phase'[q] = phase[q] /\ launched'[q] = launched[q]
  BY <1>3, LaunchAlone
<1>5. \A q \in Runs \ {r} : cancelling'[q] = cancelling[q]
  BY DEF Start, Resume, Resumed, Cancel, CacheMiss, CacheHit, TypeOK
<1>6. \A q \in Runs \ {r} :
        /\ status'[q] = status[q] /\ cancel_event'[q] = cancel_event[q]
        /\ final_report'[q] = final_report[q] /\ starting'[q] = starting[q]
  BY <1>2 DEF TypeOK
<1> QED
  BY <1>1, <1>2, <1>4, <1>5, <1>6 DEF Untouched

\* The requests of such clients, and the answers of the cache, keep the life of their run.
LEMMA RequestLife ==
  ASSUME PausedClients, TypeOK, TaskInv, LaunchInv, NEW r \in Runs, LifeOf(r),
         Start(r) \/ Resume(r) \/ Cancel(r) \/ CacheMiss(r) \/ CacheHit(r)
  PROVE  LifeOf(r)'
<1>1. /\ BeforeEnd(r) /\ Beginning(r) /\ Pausing(r) /\ Ending(r) /\ ~editing[r]
      /\ \A k \in Execs : ExecutingAs(r, k)
  BY DEF LifeOf, Executing
<1>2. ~editing'[r] /\ UNCHANGED <<checkpoint, archived, pos>>
  BY <1>1 DEF Start, Resume, Resumed, Cancel, CacheMiss, CacheHit
<1>3. /\ status \in [Runs -> Statuses] /\ starting \in [Runs -> BOOLEAN]
      /\ cancel_event \in [Runs -> BOOLEAN] /\ final_report \in [Runs -> 0..Total]
      /\ launched[r] \in Nat /\ checkpoint[r] \in Nat /\ archived[r] \in Nat
      /\ cancelling \in [Runs -> [Execs -> BOOLEAN]] /\ phase \in [Runs -> [Execs -> Phases]]
  BY DEF TypeOK
<1>4. launched[r] = 0 => \A k \in Execs : phase[r][k] = "none" /\ ~cancelling[r][k]
  BY DEF TaskInv, Execs
<1>5. CASE Start(r)
  <2>1. /\ status[r] = "absent" /\ status'[r] = "running" /\ launched[r] = 0
        /\ checkpoint[r] = 0 /\ archived[r] = 0 /\ ~cancel_event[r]
        /\ UNCHANGED <<cancel_event, final_report, cancelling>>
        /\ Publish(r, <<"RUN_STARTED">>) /\ Unannounced(r)
    BY <1>1, <1>3, <1>5 DEF Start, SetStatus, Beginning, BeforeEnd, Ending
  <2>2. Unannounced(r)'
    BY <2>1, StillUnannounced DEF Events, TerminalEvents
  <2>3. BeforeEnd(r)' /\ Pausing(r)' /\ Ending(r)'
    BY <1>1, <1>2, <2>1, <2>2 DEF BeforeEnd, Pausing, Ending
  <2>4. CASE UseCache
    <3>1. UNCHANGED <<launched, phase>>
      BY <1>5, <2>4 DEF Start
    <3>2. Beginning(r)'
      BY <1>2, <1>4, <2>1, <3>1 DEF Beginning
    <3>3. Executing(r)'
      BY <1>4, <2>1, <3>1 DEF Executing, ExecutingAs, Alive, Working
    <3> QED
      BY <1>2, <2>3, <3>2, <3>3 DEF LifeOf
  <2>5. CASE ~UseCache
    <3>1. Launch(r) /\ UNCHANGED starting /\ launched[r] + 1 <= MaxExecs /\ ~starting[r]
      BY <1>5, <2>1, <2>5, ConstantsAssumption DEF Start, LaunchInv
    <3>2. /\ launched'[r] = 1 /\ launched'[r] \in Execs /\ phase'[r][1] = "scheduled"
          /\ \A j \in Execs : j # 1 => phase'[r][j] = "none"
      BY <1>4, <2>1, <3>1, LaunchAlone
    <3>3. Beginning(r)'
      BY <1>2, <2>1, <3>1 DEF Beginning
    <3>4. ExecutingAs(r, 1)'
      BY <1>4, <2>1, <3>2 DEF ExecutingAs, Alive, Working
    <3> QED
      BY <1>2, <2>3, <3>2, <3>3, <3>4, LifeOfLast
  <2> QED
    BY <2>4, <2>5
<1>6. CASE CacheMiss(r)
  <2>1. /\ status[r] = "running" /\ launched[r] = 0 /\ checkpoint[r] = 0 /\ ~starting'[r]
        /\ UNCHANGED <<record, cancelling>>
        /\ Launch(r) /\ launched[r] + 1 <= MaxExecs
    BY <1>1, <1>3, <1>6, ConstantsAssumption DEF CacheMiss, Beginning
  <2>2. /\ launched'[r] = 1 /\ launched'[r] \in Execs /\ phase'[r][1] = "scheduled"
        /\ \A j \in Execs : j # 1 => phase'[r][j] = "none"
    BY <1>4, <2>1, LaunchAlone
  <2>3. BeforeEnd(r)' /\ Pausing(r)' /\ Ending(r)'
    BY <1>1, <1>2, <2>1 DEF BeforeEnd, Pausing, Ending, Unannounced
  <2>4. Beginning(r)'
    BY <1>2, <2>1 DEF Beginning
  <2>5. ExecutingAs(r, 1)'
    BY <1>4, <2>1, <2>2 DEF ExecutingAs, Alive, Working
  <2> QED
    BY <1>2, <2>2, <2>3, <2>4, <2>5, LifeOfLast
<1>7. CASE CacheHit(r)
  <2>1. /\ status[r] = "running" /\ launched[r] = 0 /\ ~starting'[r] /\ ~cancel_event[r]
        /\ status'[r] = "completed" /\ final_report'[r] = Total
        /\ UNCHANGED <<cancel_event, launched, phase, cancelling>>
    BY <1>1, <1>3, <1>7 DEF CacheHit, Beginning, Ending, SetStatus
  <2>2. BeforeEnd(r)' /\ Pausing(r)' /\ Ending(r)'
    BY <1>1, <1>2, <2>1 DEF BeforeEnd, Pausing, Ending
  <2>3. Beginning(r)' /\ Executing(r)'
    BY <1>2, <1>4, <2>1 DEF Beginning, Executing, ExecutingAs, Alive, Working
  <2> QED
    BY <1>2, <2>2, <2>3 DEF LifeOf
<1>8. CASE Resume(r)
  <2>1. /\ status[r] = "awaiting_approval" /\ status'[r] = "running" /\ ~starting[r]
        /\ UNCHANGED <<cancel_event, final_report, starting, cancelling>>
        /\ Publish(r, <<"HITL_RESUMED">>)
    BY <1>3, <1>8
       DEF Resume, MayResume, Known, Resumed, SetStatus, PausedClients
  <2>2. /\ launched[r] # 0 /\ archived[r] = 0 /\ ~cancel_event[r] /\ Unannounced(r)
        /\ \A k \in Execs : ~Alive(r, k)
    BY <1>1, <2>1 DEF Pausing, BeforeEnd, Ending
  <2>3. Launch(r) /\ launched[r] + 1 <= MaxExecs
    BY <1>3, <1>8, ConstantsAssumption DEF Resume, Resumed, MayResume
  <2>4. Unannounced(r)'
    BY <2>1, <2>2, StillUnannounced DEF Events, TerminalEvents
  <2>5. PICK k \in Execs : k = launched'[r]
    BY <2>3, LaunchAlone
  <2>6. /\ k = launched[r] + 1 /\ k # 1 /\ phase'[r][k] = "scheduled" /\ ~cancelling'[r][k]
        /\ \A j \in Execs : j # k => phase'[r][j] \in {"none", "done"}
    <3>1. \A j \in Execs : phase[r][j] \in {"none", "done"}
      BY <2>2 DEF Alive
    <3>2. /\ k = launched[r] + 1 /\ phase'[r][k] = "scheduled" /\ ~cancelling[r][k]
          /\ \A j \in Execs : j # k => phase'[r][j] = phase[r][j]
      BY <2>3, <2>5, LaunchAlone
    <3>3. k = launched[r] + 1 /\ k # 1
      <4>1. launched[r] \in Nat /\ launched[r] # 0 /\ k = launched[r] + 1
        BY <1>3, <2>2, <3>2
      <4> QED
        BY <4>1
    <3>4. ~cancelling'[r][k]
      BY <2>1, <3>2
    <3>5. ASSUME NEW j \in Execs, j # k PROVE phase'[r][j] \in {"none", "done"}
      BY <3>1, <3>2, <3>5
    <3> QED
      BY <3>2, <3>3, <3>4, <3>5
  <2>7. BeforeEnd(r)' /\ Pausing(r)' /\ Ending(r)'
    BY <1>1, <1>2, <2>1, <2>2, <2>4 DEF BeforeEnd, Pausing, Ending
  <2>8. Beginning(r)'
    BY <1>2, <2>1, <2>6 DEF Beginning
  <2>9. ExecutingAs(r, k)'
    BY <2>1, <2>5, <2>6 DEF ExecutingAs, Alive, Working
  <2> QED
    BY <1>2, <2>5, <2>6, <2>7, <2>8, <2>9, LifeOfLast
<1>9. CASE Cancel(r)
  <2>1. /\ status[r] \in {"running", "awaiting_approval"} /\ status'[r] = "cancelled"
        /\ ~starting[r] /\ UNCHANGED <<final_report, starting, launched, phase>>
        /\ \A k \in Execs : cancelling'[r][k] <=>
              cancelling[r][k] \/ (k = launched[r] /\ Alive(r, k))
    BY <1>1, <1>3, <1>9 DEF Cancel, MayCancel, Known, SetStatus, Terminal, Statuses
  <2>2. BeforeEnd(r)' /\ Pausing(r)' /\ Ending(r)' /\ Beginning(r)'
    BY <1>1, <1>2, <2>1 DEF BeforeEnd, Pausing, Ending, Beginning
  <2>3. Executing(r)'
    BY <1>1, <1>2, <2>1 DEF Executing, ExecutingAs, Alive, Working
  <2> QED
    BY <1>2, <2>2, <2>3 DEF LifeOf
<1> QED
  BY <1>5, <1>6, <1>7, <1>8, <1>9

\* A step of a connection touches no run, and clients that make no edits send none.
LEMMA LifeKept == PausedClients => (Spec => []LifeInv)
<1> SUFFICES ASSUME PausedClients PROVE Spec => []LifeInv
  OBVIOUS
<1> DEFINE Inv == TypeOK /\ LaunchInv
<1>1. Init => LifeInv
  <2> SUFFICES ASSUME Init, NEW r \in Runs PROVE LifeOf(r)
    BY DEF LifeInv
  <2>1. log[r] = <<>> /\ Len(log[r]) = 0 /\ 1..0 = {}
    BY DEF Init
  <2>2. \A k \in Execs : phase[r][k] = "none" /\ ~cancelling[r][k]
    BY DEF Init
  <2>3. BeforeEnd(r)
    BY <2>1 DEF Init, BeforeEnd, Unannounced
  <2>4. Beginning(r) /\ Pausing(r) /\ Ending(r)
    BY <2>2 DEF Init, Beginning, Pausing, Ending
  <2>5. Executing(r)
    BY <2>2 DEF Executing, ExecutingAs, Alive, Working
  <2> QED
    BY <2>3, <2>4, <2>5 DEF LifeOf, Init
<1>2. Inv /\ TaskInv /\ LifeInv /\ [Next]_vars => LifeInv'
  <2> SUFFICES ASSUME Inv, TaskInv, LifeInv, [Next]_vars PROVE LifeInv'
    OBVIOUS
  <2>1. ASSUME NEW r \in Runs,
               Start(r) \/ Resume(r) \/ Cancel(r) \/ CacheMiss(r) \/ CacheHit(r)
        PROVE  LifeInv'
    <3>1. LifeOf(r)'
      BY <2>1, RequestLife DEF LifeInv
    <3>2. \A q \in Runs \ {r} : LifeOf(q)'
      BY <2>1, RequestTouches, UntouchedLife DEF LifeInv
    <3> QED
      BY <3>1, <3>2 DEF LifeInv
  <2>2. ASSUME NEW r \in Runs, ResumeWithEdits(r) \/ EditsApplied(r) \/ EditsRefused(r)
        PROVE  FALSE
    BY <2>2 DEF ResumeWithEdits, EditsApplied, EditsRefused, PausedClients, LifeInv, LifeOf
  <2>3. ASSUME NEW r \in Runs, NEW k \in Execs, Task(r, k) PROVE LifeInv'
    <3>1. LifeOf(r)'
      BY <2>3, TaskLife DEF LifeInv
    <3>2. \A q \in Runs \ {r} : LifeOf(q)'
      BY <2>3, TaskTouches, UntouchedLife DEF LifeInv
    <3> QED
      BY <3>1, <3>2 DEF LifeInv
  <2>4. (\E s \in Streams, r \in Runs : Connection(s, r)) \/ UNCHANGED vars => LifeInv'
    <3>1. (\E s \in Streams, r \in Runs : Connection(s, r)) \/ UNCHANGED vars
            => \A q \in Runs : Untouched(q)
      BY DEF Connection, Connect, Deliver, TimeOut, Disconnect, Untouched, vars
    <3> QED
      BY <3>1, UntouchedLife DEF LifeInv
  <2> QED
    BY <2>1, <2>2, <2>3, <2>4 DEF Next, Request, Answer
<1> QED
  BY <1>1, <1>2, TypesAndLaunches, LastIsAtWork, PTL DEF Spec

-----------------------------------------------------------------------------
(* Theorems *)

\* While a run waits for approval no execution of it is alive and its thread stands
\* before the synthesizer (_execute, resume_run), for clients that resume at pauses only.
THEOREM PausedIsQuiet == PausedClients => (Spec => []PausedRunIsQuiet)
<1> SUFFICES ASSUME PausedClients PROVE Spec => []PausedRunIsQuiet
  OBVIOUS
<1>1. LifeInv => PausedRunIsQuiet
  BY DEF LifeInv, LifeOf, Pausing, PausedRunIsQuiet
<1> QED
  BY <1>1, LifeKept, PTL

\* A run that reads completed has the whole report, archived once at most (_execute,
\* _archive_report), for clients that resume at pauses only.
THEOREM CompletedIsWhole == PausedClients => (Spec => []CompletedRunHasReport)
<1> SUFFICES ASSUME PausedClients PROVE Spec => []CompletedRunHasReport
  OBVIOUS
<1>1. LifeInv => CompletedRunHasReport
  BY DEF LifeInv, LifeOf, Ending, CompletedRunHasReport
<1> QED
  BY <1>1, LifeKept, PTL

\* An event published while the status changes from one to another is a step of the
\* contract.
LEMMA PublishSteps ==
  ASSUME NEW r \in Runs, NEW old, status[r] \in old, NEW to, SetStatus(r, to),
         NEW events, Publish(r, events)
  PROVE  Contract!Step(r, old, to, events)
BY DEF SetStatus, Publish, Contract!Step

\* The same where the status stays.
LEMMA PublishStays ==
  ASSUME TypeOK, NEW r \in Runs, NEW old, status[r] \in old, UNCHANGED status,
         NEW events, Publish(r, events)
  PROVE  Contract!Step(r, old, status[r], events)
<1>1. SetStatus(r, status[r])
  BY DEF SetStatus, TypeOK
<1> QED
  BY <1>1, PublishSteps

\* The statuses and events of a run, read together, keep RunContract: each step of the
\* manager is one of the contract's or leaves both alone.
THEOREM ContractKept == PausedClients => (Spec => ImplementsContract)
<1> SUFFICES ASSUME PausedClients PROVE Spec => ImplementsContract
  OBVIOUS
<1> DEFINE Inv == TypeOK /\ LaunchInv
<1>1. Init => Contract!Init
  BY DEF Init, Contract!Init
<1>2. Inv /\ LifeInv /\ [Next]_vars => [Contract!Next]_(Contract!vars)
  <2> SUFFICES ASSUME Inv, LifeInv, [Next]_vars PROVE Contract!Next \/ UNCHANGED <<status, log>>
    BY DEF Contract!vars
  <2>1. ASSUME NEW r \in Runs, Start(r) \/ Resume(r) \/ Cancel(r) \/ CacheMiss(r) \/ CacheHit(r)
        PROVE  Contract!Next \/ UNCHANGED <<status, log>>
    <3>0. status[r] \in Statuses /\ (starting[r] => status[r] = "running")
      BY DEF TypeOK, LifeInv, LifeOf, Beginning
    <3>1. CASE Start(r)
      BY <3>1, PublishSteps DEF Start, Contract!Next, Contract!Accept
    <3>2. CASE Resume(r)
      BY <3>2, PublishSteps
         DEF Resume, MayResume, Resumed, PausedClients, Contract!Next, Contract!Resume
    <3>3. CASE Cancel(r)
      <4>1. status[r] \in {"running", "awaiting_approval"}
        BY <3>0, <3>3 DEF Cancel, MayCancel, Known, Statuses, Terminal, Start, LifeInv
      <4> QED
        BY <3>3, <4>1, PublishSteps DEF Cancel, Contract!Next, Contract!Cancel
    <3>4. CASE CacheMiss(r)
      BY <3>4 DEF CacheMiss
    <3>5. CASE CacheHit(r)
      BY <3>0, <3>5, PublishSteps DEF CacheHit, Contract!Next, Contract!FromCache
    <3> QED
      BY <2>1, <3>1, <3>2, <3>3, <3>4, <3>5
  <2>2. ASSUME NEW r \in Runs, ResumeWithEdits(r) \/ EditsApplied(r) \/ EditsRefused(r)
        PROVE  FALSE
    BY <2>2 DEF ResumeWithEdits, EditsApplied, EditsRefused, PausedClients, LifeInv, LifeOf
  <2>3. ASSUME NEW r \in Runs, NEW k \in Execs, Task(r, k)
        PROVE  Contract!Next \/ UNCHANGED <<status, log>>
    <3>0. /\ ~cancelling[r][k] => /\ phase[r][k] \in Working => status[r] = "running"
                                  /\ phase[r][k] \notin Working => status[r] = "completed"
          /\ Ending(r) /\ ExecutingAs(r, k) /\ status \in [Runs -> Statuses]
          /\ log \in [Runs -> Seq(Events)]
      BY <2>3, TaskIsLast DEF LifeInv, LifeOf, Executing, TypeOK
    <3>1. CASE Begin(r, k) \/ GraphStops(r, k)
      BY <3>1 DEF Begin, GraphStops
    <3>2. CASE NodeUpdate(r, k)
      <4>1. status[r] = "running" /\ UNCHANGED status /\ Publish(r, <<"NODE">>)
        BY <3>0, <3>2 DEF NodeUpdate, Wakes, Working, IsCancelled, Ending
      <4> QED
        BY <4>1, PublishStays DEF Contract!Next, Contract!Progress
    <3>3. CASE Pause(r, k)
      BY <3>0, <3>3, PublishSteps DEF Pause, Wakes, Working, Contract!Next, Contract!Pause
    <3>4. CASE Complete(r, k)
      <4>1. status[r] = "running" /\ SetStatus(r, "completed") /\ UNCHANGED log
        BY <3>0, <3>4 DEF Complete, Wakes, Working, ExecutingAs, AtInterrupt
      <4>2. log' = [log EXCEPT ![r] = @ \o <<>>]
        <5>1. log[r] \o <<>> = log[r]
          BY <3>0
        <5> QED
          BY <3>0, <4>1, <5>1
      <4> QED
        BY <4>1, <4>2 DEF SetStatus, Contract!Next, Contract!Complete, Contract!Step
    <3>5. CASE Archive(r, k) \/ SaveCache(r, k)
      <4>1. /\ status[r] = "completed" /\ Unannounced(r) /\ UNCHANGED status
            /\ UNCHANGED log \/ Publish(r, <<"RUN_COMPLETED">>)
        BY <3>0, <3>5 DEF Archive, SaveCache, Wakes, ExecutingAs
      <4>2. Publish(r, <<"RUN_COMPLETED">>) => Contract!Step(r, {"completed"}, "completed", <<"RUN_COMPLETED">>)
        BY <4>1, PublishStays
      <4> QED
        BY <4>1, <4>2 DEF Unannounced, Contract!Next, Contract!Announce, Contract!TerminalEvents,
                          TerminalEvents
    <3>6. CASE Raises(r, k)
      BY <3>0, <3>6, PublishSteps DEF Raises, Wakes, Working, Contract!Next, Contract!Fail
    <3>7. CASE Cancelled(r, k)
      <4>1. status[r] = "cancelled"
        BY <3>0, <3>7 DEF Cancelled, ExecutingAs
      <4> QED
        BY <3>0, <3>7, <4>1 DEF Cancelled, SetStatus
    <3> QED
      BY <2>3, <3>1, <3>2, <3>3, <3>4, <3>5, <3>6, <3>7 DEF Task
  <2>4. (\E s \in Streams, r \in Runs : Connection(s, r)) \/ UNCHANGED vars
          => UNCHANGED <<status, log>>
    BY DEF Connection, Connect, Deliver, TimeOut, Disconnect, vars
  <2> QED
    BY <2>1, <2>2, <2>3, <2>4 DEF Next, Request, Answer
<1> QED
  BY <1>1, <1>2, TypesAndLaunches, LifeKept, PTL DEF Spec, ImplementsContract, Contract!Spec

=============================================================================
