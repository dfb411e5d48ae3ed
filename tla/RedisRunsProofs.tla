--------------------------- MODULE RedisRunsProofs ---------------------------
(***************************************************************************)
(* Theorems of RedisRuns and RunStream for any number of workers,          *)
(* connections and faults, and any length of the graph.                    *)
(*                                                                         *)
(* Numbers are unique because HINCRBY hands each out once: NumbersInv adds *)
(* to it the numbers that are handed out and not pushed yet.  Streams send *)
(* nothing twice because numbers are unique.  A cancelled task reports one *)
(* node at most because it asks for the cancel key before each report, and *)
(* the key is never taken back (LateInv).                                  *)
(*                                                                         *)
(* The client of a stream sees what was sent because between two frames it *)
(* holds at most a line end (ClientInv), and of what an event's frame      *)
(* falls apart into, one piece has the data.                               *)
(***************************************************************************)
EXTENDS RunStream, Recursion, FiniteSetTheorems, TLAPS

USE DEF redis, graph, publishing, faults, connections

-----------------------------------------------------------------------------
(* Types *)

\* A replay sends the events of the list from its first to some later one.
LEMMA ReplayedPrefix ==
  ASSUME TypeOK
  PROVE  /\ Replayed \in Seq(Event)
         /\ Len(Replayed) <= Len(events)
         /\ \A i \in 1..Len(Replayed) : Replayed[i] = events[i]
<1> DEFINE ends == {i \in 1..Len(events) : Ends(events[i])}
<1> DEFINE first == CHOOSE i \in ends : \A j \in ends : i <= j
<1>1. events \in Seq(Event) /\ Len(events) \in Nat
  BY DEF TypeOK
<1>2. CASE ends = {}
  <2>1. Replayed = events
    BY <1>2 DEF Replayed
  <2> QED
    BY <1>1, <2>1
<1>3. CASE ends # {}
  <2>1. Replayed = SubSeq(events, 1, first)
    BY <1>3 DEF Replayed
  <2>2. \E i \in ends : \A j \in ends : i <= j
    <3>1. ends \subseteq Nat
      BY <1>1
    <3>2. PICK i \in ends : \A j \in ends : <<j, i>> \notin OpToRel(<, Nat)
      BY <1>3, <3>1, WFMin, NatLessThanWellFounded, Zenon
    <3>3. \A j \in ends : ~(j < i)
      BY <3>1, <3>2 DEF OpToRel
    <3> QED
      BY <3>1, <3>3
  <2>3. first \in 1..Len(events)
    BY <2>2
  <2> HIDE DEF first
  <2> QED
    BY <1>1, <2>1, <2>3
<1> QED
  BY <1>2, <1>3

\* Keys, fibers and connections keep their types.
THEOREM TypeCorrect == Spec => []TypeOK
<1> USE ConstantsAssumption
        DEF TypeOK, Event, Events, TerminalEvents, Statuses, Terminal, Commands, Idle, Over,
            Fibers, Requests, Tasks
<1>1. Init => TypeOK
  <2> SUFFICES ASSUME Init PROVE TypeOK
    OBVIOUS
  <2> USE DEF Init
  <2>1. /\ inbox \in [Streams -> Seq(Event)] /\ got \in [Streams -> Seq(Event)]
        /\ events \in Seq(Event)
    OBVIOUS
  <2>2. pos \in [Tasks -> 0..Total] /\ from \in [Tasks -> 0..Total] /\ checkpoint \in 0..Total
    OBVIOUS
  <2> QED
    BY <2>1, <2>2
<1>2. TypeOK /\ [Next]_vars => TypeOK'
  <2> SUFFICES ASSUME TypeOK, [Next]_vars PROVE TypeOK'
    OBVIOUS
  <2>1. ASSUME NEW w \in Workers, Start(w) PROVE TypeOK'
    BY <2>1 DEF Start, WriteAndPublish, Publish, Goto
  <2>2. ASSUME NEW w \in Workers, Resume(w) PROVE TypeOK'
    BY <2>2 DEF Resume, Up, Goto
  <2>3. ASSUME NEW w \in Workers, Cancel(w) PROVE TypeOK'
    BY <2>3 DEF Cancel, Up, Goto
  <2>4. ASSUME NEW w \in Workers, Crash(w) PROVE TypeOK'
    BY <2>4 DEF Crash, Up
  <2>30. ASSUME NEW f \in Fibers, CommandFails(f) PROVE TypeOK'
    BY <2>30 DEF CommandFails, FailsTo, Goto
  <2>5. ASSUME NEW f \in Fibers, Number(f) PROVE TypeOK'
    BY <2>5, SMTT(40) DEF Number, At, Goto
  <2>6. ASSUME NEW f \in Fibers, Push(f) PROVE TypeOK'
    BY <2>6, SMTT(40) DEF Push, Goto
  <2>7. ASSUME NEW f \in Fibers, Announce(f) PROVE TypeOK'
    <3>1. [type |-> event[f], sequence_number |-> number[f]] \in Event
      OBVIOUS
    <3> HIDE DEF Event
    <3>2. inbox' \in [Streams -> Seq(Event)]
      BY <2>7, <3>1 DEF Announce
    <3>3. pc' \in [Fibers -> Commands] /\ number' \in [Fibers -> Nat]
      BY <2>7 DEF Announce, Goto
    <3> QED
      BY <2>7, <3>2, <3>3 DEF Announce
  <2>8. ASSUME NEW f \in {"start", "resume"}, Launch(f) PROVE TypeOK'
    BY <2>8 DEF Launch, TaskOf
  <2>9. CASE ResumeWrite
    BY <2>9 DEF ResumeWrite, WriteAndPublish, Publish, Goto
  <2>10. CASE Flag
    BY <2>10 DEF Flag, Goto
  <2>11. CASE CancelWrite
    BY <2>11 DEF CancelWrite, WriteAndPublish, Publish, Goto
  <2>12. ASSUME NEW t \in Tasks, Begin(t) PROVE TypeOK'
    BY <2>12, SMTT(40) DEF Begin, Goto
  <2>13. ASSUME NEW t \in Tasks, NodeUpdate(t) PROVE TypeOK'
    <3>1. pos[t] \in 0..Total /\ pos[t] < Total /\ Total \in Nat
      BY <2>13 DEF NodeUpdate, HasUpdate
    <3>2. pos[t] + 1 \in 0..Total
      BY <3>1, SMTT(40)
    <3>3. pos' \in [Tasks -> 0..Total] /\ checkpoint' \in 0..Total
      BY <2>13, <3>2 DEF NodeUpdate
    <3>4. pc' \in [Fibers -> Commands]
      BY <2>13 DEF NodeUpdate, Goto
    <3> QED
      BY <2>13, <3>3, <3>4 DEF NodeUpdate
  <2>14. ASSUME NEW t \in Tasks, IsCancelled(t) PROVE TypeOK'
    BY <2>14 DEF IsCancelled, Publish, Goto
  <2>15. ASSUME NEW t \in Tasks, GraphStops(t) PROVE TypeOK'
    BY <2>15 DEF GraphStops, Goto
  <2>16. ASSUME NEW t \in Tasks, Pause(t) PROVE TypeOK'
    BY <2>16 DEF Pause, WriteAndPublish, Publish, Goto
  <2>17. ASSUME NEW t \in Tasks, Complete(t) PROVE TypeOK'
    BY <2>17 DEF Complete, WriteAndPublish, Publish, Goto
  <2>18. ASSUME NEW t \in Tasks, Raises(t) PROVE TypeOK'
    BY <2>18 DEF Raises, Goto
  <2>19. ASSUME NEW t \in Tasks, Fail(t) PROVE TypeOK'
    BY <2>19 DEF Fail, WriteAndPublish, Publish, Goto
  <2>20. ASSUME NEW t \in Tasks, Interrupted(t) PROVE TypeOK'
    BY <2>20 DEF Interrupted, Goto
  <2>21. ASSUME NEW t \in Tasks, Handler(t) PROVE TypeOK'
    BY <2>21 DEF Handler, Goto
  <2>22. ASSUME NEW t \in Tasks, MarkCancelled(t) PROVE TypeOK'
    BY <2>22 DEF MarkCancelled, Goto
  <2>23. ASSUME NEW s \in Streams, Replay(s) PROVE TypeOK'
    <3>1. Replayed \in Seq(Event)
      BY ReplayedPrefix
    <3>2. got' \in [Streams -> Seq(Event)]
      BY <2>23, <3>1 DEF Replay
    <3> QED
      BY <2>23, <3>2 DEF Replay, Moves
  <2>24. ASSUME NEW s \in Streams, Subscribe(s) PROVE TypeOK'
    BY <2>24 DEF Subscribe, Moves
  <2>25. ASSUME NEW s \in Streams, Receive(s) PROVE TypeOK'
    <3> HIDE DEF Event
    <3>1. Head(inbox[s]) \in Event /\ Tail(inbox[s]) \in Seq(Event)
      BY <2>25, SMTT(40) DEF Receive
    <3>2. inbox' \in [Streams -> Seq(Event)]
      BY <2>25, <3>1 DEF Receive
    <3>3. got' \in [Streams -> Seq(Event)]
      <4>1. got' = got \/ got' = [got EXCEPT ![s] = Append(@, Head(inbox[s]))]
        BY <2>25 DEF Receive
      <4>2. Append(got[s], Head(inbox[s])) \in Seq(Event)
        BY <3>1
      <4> QED
        BY <4>1, <4>2, ZenonT(40)
    <3>4. stream' \in [Streams -> {"new", "replayed", "listening", "checking", "closed", "dropped"}]
      <4>1. stream' = stream \/ \E v \in {"closed", "listening"} : stream' = [stream EXCEPT ![s] = v]
        BY <2>25, Zenon DEF Receive, Moves
      <4> QED
        BY <4>1
    <3>5. UNCHANGED <<status, sequence, events, cancel_key, graph, pc, on, publishing, cancelling,
                      faults, late>>
      BY <2>25 DEF Receive
    <3> QED
      BY <3>2, <3>3, <3>4, <3>5, SMTT(40) DEF graph, publishing, faults
  <2>26. ASSUME NEW s \in Streams, Quiet(s) PROVE TypeOK'
    BY <2>26 DEF Quiet, Moves
  <2>27. ASSUME NEW s \in Streams, Check(s) PROVE TypeOK'
    BY <2>27 DEF Check, Moves
  <2>28. ASSUME NEW s \in Streams, Drop(s) PROVE TypeOK'
    BY <2>28 DEF Drop, Moves
  <2>29. CASE UNCHANGED vars
    BY <2>29 DEF vars
  <2> QED
    BY <2>1, <2>2, <2>3, <2>4, <2>5, <2>6, <2>7, <2>8, <2>9, <2>10, <2>11, <2>12, <2>13, <2>14, <2>15,
       <2>16, <2>17, <2>18, <2>19, <2>20, <2>21, <2>22, <2>23, <2>24, <2>25, <2>26, <2>27, <2>28, <2>29,
       <2>30, ZenonT(40)
       DEF Next, Publisher, Request, Task, Connection
<1> QED
  BY <1>1, <1>2, PTL DEF Spec

-----------------------------------------------------------------------------
(* Sequence numbers *)

\* every number in the list has been handed out, so has every number that is still to be
\* pushed, and no two of them are the same
NumbersInv ==
  /\ \A i \in 1..Len(events) : events[i].sequence_number <= sequence
  /\ \A f \in Fibers : pc[f] = "push" => number[f] <= sequence
  /\ \A f \in Fibers : pc[f] = "push" =>
       \A i \in 1..Len(events) : events[i].sequence_number # number[f]
  /\ \A f, g \in Fibers : pc[f] = "push" /\ pc[g] = "push" /\ f # g => number[f] # number[g]
  /\ NumbersAreUnique

\* The steps that neither number nor push an event, but may end a push half-way.
LEMMA NumbersStable ==
  ASSUME TypeOK, NumbersInv, events' = events, sequence' = sequence,
         \A f \in Fibers : pc'[f] = "push" => pc[f] = "push" /\ number'[f] = number[f]
  PROVE  NumbersInv'
BY DEF NumbersInv, NumbersAreUnique

\* What a step other than Number and Push does to the numbers.
LEMMA OnlyNumberAndPush ==
  ASSUME TypeOK, [Next]_vars, \A f \in Fibers : ~Number(f) /\ ~Push(f)
  PROVE  /\ events' = events /\ sequence' = sequence
         /\ \A f \in Fibers : pc'[f] = "push" => pc[f] = "push" /\ number'[f] = number[f]
<1> DEFINE Stable == /\ events' = events /\ sequence' = sequence
                     /\ \A f \in Fibers : pc'[f] = "push" => pc[f] = "push" /\ number'[f] = number[f]
<1> USE DEF Fibers, Requests, Tasks, TypeOK
<1>1. ASSUME NEW w \in Workers, Start(w) \/ Resume(w) \/ Cancel(w) \/ Crash(w) PROVE Stable
  BY <1>1 DEF Start, Resume, Cancel, Crash, WriteAndPublish, Publish, Goto
<1>7. ASSUME NEW f \in Fibers, CommandFails(f) PROVE Stable
  BY <1>7 DEF CommandFails, FailsTo, Goto
<1>2. ASSUME NEW f \in Fibers, Announce(f) PROVE Stable
  <2>1. return[f] # "push"
    BY DEF Idle
  <2> QED
    BY <1>2, <2>1 DEF Announce, Goto, At
<1>3. CASE Request
  BY <1>3 DEF Request, Launch, TaskOf, ResumeWrite, Flag, CancelWrite, WriteAndPublish, Publish, Goto
<1>4. ASSUME NEW t \in Tasks, Task(t) PROVE Stable
  BY <1>4 DEF Task, Begin, NodeUpdate, IsCancelled, GraphStops, Pause, Complete, Raises, Fail,
              Interrupted, Handler, MarkCancelled, WriteAndPublish, Publish, Goto
<1>5. ASSUME NEW s \in Streams, Connection(s) \/ Drop(s) PROVE Stable
  BY <1>5 DEF Connection, Replay, Subscribe, Receive, Quiet, Check, Drop
<1>6. CASE UNCHANGED vars
  BY <1>6 DEF vars
<1> QED
  BY <1>1, <1>2, <1>3, <1>4, <1>5, <1>6, <1>7 DEF Next, Publisher

\* The indices of a list with one element more.
LEMMA OneMore ==
  ASSUME NEW k \in Nat
  PROVE  1..(k + 1) = 1..k \cup {k + 1} /\ k + 1 \notin 1..k
OBVIOUS

\* Redis hands each number out once, and a publisher pushes what it was given: however the
\* workers interleave, crash or are cancelled, no two events carry the same number.
THEOREM NumbersCorrect == Spec => []NumbersAreUnique
<1>1. Init => NumbersInv
  BY DEF Init, NumbersInv, NumbersAreUnique, Idle
<1>2. TypeOK /\ NumbersInv /\ [Next]_vars => NumbersInv'
  <2> SUFFICES ASSUME TypeOK, NumbersInv, [Next]_vars PROVE NumbersInv'
    OBVIOUS
  <2>1. /\ sequence \in Nat /\ events \in Seq(Event) /\ Len(events) \in Nat
        /\ number \in [Fibers -> Nat]
        /\ \A i \in 1..Len(events) : events[i].sequence_number \in Nat
    <3>1. sequence \in Nat /\ events \in Seq(Event) /\ number \in [Fibers -> Nat]
      BY DEF TypeOK
    <3>2. Len(events) \in Nat /\ \A i \in 1..Len(events) : events[i] \in Event
      BY <3>1
    <3> QED
      BY <3>1, <3>2 DEF Event
  <2>2. ASSUME NEW f \in Fibers, Number(f) PROVE NumbersInv'
    <3>1. /\ events' = events /\ sequence' = sequence + 1 /\ number'[f] = sequence + 1
          /\ \A g \in Fibers : g # f => number'[g] = number[g] /\ pc'[g] = pc[g]
      BY <2>2 DEF Number, Goto, TypeOK
    <3>2. \A i \in 1..Len(events) : events[i].sequence_number <= sequence
      BY DEF NumbersInv
    <3>3. \A i \in 1..Len(events') : events'[i].sequence_number <= sequence'
      BY <2>1, <3>1, <3>2
    <3>4. \A g \in Fibers : pc'[g] = "push" => number'[g] <= sequence'
      BY <2>1, <3>1 DEF NumbersInv
    <3>5. \A g \in Fibers : pc'[g] = "push" =>
            \A i \in 1..Len(events') : events'[i].sequence_number # number'[g]
      BY <2>1, <3>1, <3>2 DEF NumbersInv
    <3>6. \A g, h \in Fibers : pc'[g] = "push" /\ pc'[h] = "push" /\ g # h =>
            number'[g] # number'[h]
      <4>1. \A g \in Fibers : g # f /\ pc[g] = "push" => number[g] \in Nat /\ number[g] <= sequence
        BY <2>1 DEF NumbersInv
      <4> QED
        BY <2>1, <3>1, <4>1 DEF NumbersInv
    <3>7. NumbersAreUnique'
      BY <3>1 DEF NumbersInv, NumbersAreUnique
    <3> QED
      BY <3>3, <3>4, <3>5, <3>6, <3>7 DEF NumbersInv
  <2>3. ASSUME NEW f \in Fibers, Push(f) PROVE NumbersInv'
    <3> DEFINE n == Len(events) + 1
    <3>1. /\ pc[f] = "push" /\ sequence' = sequence /\ number' = number
          /\ \A g \in Fibers : pc'[g] = "push" => g # f /\ pc[g] = "push"
      BY <2>3 DEF Push, At, Goto, TypeOK
    <3>2. /\ Len(events') = n
          /\ \A i \in 1..Len(events) : events'[i] = events[i]
          /\ events'[n].sequence_number = number[f]
      BY <2>1, <2>3 DEF Push
    <3>3. 1..n = 1..Len(events) \cup {n} /\ n \notin 1..Len(events)
      <4>1. Len(events) \in Nat
        BY <2>1
      <4> QED
        BY <4>1, OneMore
    <3> HIDE DEF n
    <3>4. \A i \in 1..Len(events') : events'[i].sequence_number <= sequence'
      BY <3>1, <3>2, <3>3 DEF NumbersInv
    <3>5. \A g \in Fibers : pc'[g] = "push" => number'[g] <= sequence'
      BY <3>1 DEF NumbersInv
    <3>6. \A g \in Fibers : pc'[g] = "push" =>
            \A i \in 1..Len(events') : events'[i].sequence_number # number'[g]
      BY <3>1, <3>2, <3>3 DEF NumbersInv
    <3>7. \A g, h \in Fibers : pc'[g] = "push" /\ pc'[h] = "push" /\ g # h =>
            number'[g] # number'[h]
      BY <3>1 DEF NumbersInv
    <3>8. NumbersAreUnique'
      <4>1. \A i \in 1..Len(events) : events[i].sequence_number # number[f]
        BY <3>1 DEF NumbersInv
      <4>2. NumbersAreUnique
        BY DEF NumbersInv
      <4> QED
        BY <3>2, <3>3, <4>1, <4>2 DEF NumbersAreUnique
    <3> QED
      BY <3>4, <3>5, <3>6, <3>7, <3>8 DEF NumbersInv
  <2>4. CASE \A f \in Fibers : ~Number(f) /\ ~Push(f)
    BY <2>4, OnlyNumberAndPush, NumbersStable
  <2> QED
    BY <2>2, <2>3, <2>4
<1>3. NumbersInv => NumbersAreUnique
  BY DEF NumbersInv
<1> QED
  BY <1>1, <1>2, <1>3, TypeCorrect, PTL DEF Spec

-----------------------------------------------------------------------------
(* Streams *)

\* Only Replay and Receive send.
LEMMA OthersSendNothing ==
  ASSUME [Next]_vars, \A q \in Streams : ~Replay(q) /\ ~Receive(q)
  PROVE  got' = got
<1>1. ASSUME NEW w \in Workers, Start(w) \/ Resume(w) \/ Cancel(w) \/ Crash(w) PROVE got' = got
  BY <1>1 DEF Start, Resume, Cancel, Crash
<1>7. ASSUME NEW f \in Fibers, CommandFails(f) PROVE got' = got
  BY <1>7 DEF CommandFails
<1>2. ASSUME NEW f \in Fibers, Publisher(f) PROVE got' = got
  BY <1>2 DEF Publisher, Number, Push, Announce
<1>3. CASE Request
  BY <1>3 DEF Request, Launch, ResumeWrite, Flag, CancelWrite
<1>4. ASSUME NEW t \in Tasks, Task(t) PROVE got' = got
  BY <1>4 DEF Task, Begin, NodeUpdate, IsCancelled, GraphStops, Pause, Complete, Raises, Fail,
              Interrupted, Handler, MarkCancelled
<1>5. ASSUME NEW s \in Streams, Connection(s) \/ Drop(s) PROVE got' = got
  BY <1>5 DEF Connection, Subscribe, Quiet, Check, Drop
<1>6. CASE UNCHANGED vars
  BY <1>6 DEF vars
<1> QED
  BY <1>1, <1>2, <1>3, <1>4, <1>5, <1>6, <1>7 DEF Next

\* A stream sends no event twice: what it replays has distinct numbers, and it skips what
\* it has sent before.
THEOREM StreamsCorrect == Spec => []NothingIsSentTwice
<1> USE DEF NothingIsSentTwice
<1>1. Init => NothingIsSentTwice
  BY DEF Init
<1>2. TypeOK /\ NumbersAreUnique /\ NothingIsSentTwice /\ [Next]_vars => NothingIsSentTwice'
  <2> SUFFICES ASSUME TypeOK, NumbersAreUnique, NothingIsSentTwice, [Next]_vars,
                      NEW s \in Streams
               PROVE  \A i, j \in 1..Len(got'[s]) : i # j => got'[s][i] # got'[s][j]
    OBVIOUS
  <2>1. CASE got'[s] = got[s]
    BY <2>1
  <2>2. CASE Replay(s)
    <3>1. got'[s] = Replayed
      BY <2>2 DEF Replay, TypeOK
    <3>2. Len(Replayed) \in Nat /\ Len(events) \in Nat
      BY ReplayedPrefix DEF TypeOK
    <3> QED
      BY <3>1, <3>2, ReplayedPrefix DEF NumbersAreUnique
  <2>3. CASE Receive(s)
    <3> DEFINE e == Head(inbox[s])
    <3>1. got[s] \in Seq(Event)
      BY DEF TypeOK
    <3>2. CASE Seen(s, e)
      <4>1. got'[s] = got[s]
        BY <2>3, <3>2 DEF Receive
      <4> QED
        BY <2>1, <4>1
    <3>3. CASE ~Seen(s, e)
      <4>1. got'[s] = Append(got[s], e)
        BY <2>3, <3>3 DEF Receive, TypeOK
      <4>2. \A i \in 1..Len(got[s]) : got[s][i] # e
        BY <3>3 DEF Seen
      <4> HIDE DEF e
      <4> QED
        BY <3>1, <4>1, <4>2
    <3> QED
      BY <3>2, <3>3
  <2>4. ASSUME NEW q \in Streams, Replay(q) \/ Receive(q), q # s PROVE got'[s] = got[s]
    BY <2>4 DEF Replay, Receive, TypeOK
  <2>5. CASE \A q \in Streams : ~Replay(q) /\ ~Receive(q)
    BY <2>1, <2>5, OthersSendNothing
  <2> QED
    BY <2>1, <2>2, <2>3, <2>4, <2>5
<1> QED
  BY <1>1, <1>2, TypeCorrect, NumbersCorrect, PTL DEF Spec

-----------------------------------------------------------------------------
(* Cancellation *)

\* a task that has reported a node since the cancellation is not about to report another
LateInv ==
  \A t \in Tasks :
    /\ late[t] <= 1
    /\ late[t] = 1 => cancel_key /\ ~(pc[t] = "number" /\ event[t] = "NODE")

\* Every other step leaves the count alone, takes nothing back from the cancel key and
\* publishes no node.
LEMMA OthersReportNoNode ==
  ASSUME TypeOK, [Next]_vars, \A f \in Fibers : ~Number(f), \A t \in Tasks : ~IsCancelled(t)
  PROVE  /\ late' = late
         /\ cancel_key => cancel_key'
         /\ \A t \in Tasks : pc'[t] = "number" /\ event'[t] = "NODE" =>
              pc[t] = "number" /\ event[t] = "NODE"
<1> DEFINE Quietly == /\ late' = late
                      /\ cancel_key => cancel_key'
                      /\ \A t \in Tasks : pc'[t] = "number" /\ event'[t] = "NODE" =>
                           pc[t] = "number" /\ event[t] = "NODE"
<1> USE DEF Fibers, Requests, Tasks, TypeOK, Idle
<1>1. ASSUME NEW w \in Workers, Start(w) \/ Resume(w) \/ Cancel(w) \/ Crash(w) PROVE Quietly
  BY <1>1 DEF Start, Resume, Cancel, Crash, WriteAndPublish, Publish, Goto
<1>7. ASSUME NEW f \in Fibers, CommandFails(f) PROVE Quietly
  BY <1>7 DEF CommandFails, FailsTo, Goto
<1>2. ASSUME NEW f \in Fibers, Push(f) \/ Announce(f) PROVE Quietly
  BY <1>2 DEF Push, Announce, Goto
<1>3. CASE Request
  BY <1>3 DEF Request, Launch, TaskOf, ResumeWrite, Flag, CancelWrite, WriteAndPublish, Publish, Goto
<1>4. ASSUME NEW t \in Tasks, Task(t), ~IsCancelled(t) PROVE Quietly
  <2>1. CASE Pause(t) \/ Complete(t) \/ Fail(t)
    <3>1. PICK e \in Events \ {"NODE"} : event' = [event EXCEPT ![t] = e]
      BY <2>1 DEF Pause, Complete, Fail, WriteAndPublish, Publish, Events, TerminalEvents
    <3>2. pc' = [pc EXCEPT ![t] = "number"] /\ late' = late /\ cancel_key' = cancel_key
      BY <2>1 DEF Pause, Complete, Fail, WriteAndPublish, Publish, Goto
    <3> QED
      BY <3>1, <3>2
  <2>2. CASE ~(Pause(t) \/ Complete(t) \/ Fail(t))
    <3>1. /\ event' = event /\ late' = late /\ cancel_key' = cancel_key
          /\ \E c \in Commands \ {"number"} : pc' = [pc EXCEPT ![t] = c]
      BY <1>4, <2>2 DEF Task, Begin, NodeUpdate, GraphStops, Raises, Interrupted, Handler,
                        MarkCancelled, Goto, Commands, Over
    <3> QED
      BY <3>1
  <2> QED
    BY <2>1, <2>2
<1>5. ASSUME NEW s \in Streams, Connection(s) \/ Drop(s) PROVE Quietly
  BY <1>5 DEF Connection, Replay, Subscribe, Receive, Quiet, Check, Drop
<1>6. CASE UNCHANGED vars
  BY <1>6 DEF vars
<1> QED
  BY <1>1, <1>2, <1>3, <1>4, <1>5, <1>6, <1>7 DEF Next, Publisher

\* After a cancellation was requested, on whatever worker, each task reports at most the one
\* node it was about to publish (is_cancelled in _execute).
THEOREM CancelCorrect == Spec => []CancelStopsWithinOneNode
<1>1. Init => LateInv
  BY DEF Init, LateInv
<1>2. TypeOK /\ LateInv /\ [Next]_vars => LateInv'
  <2> SUFFICES ASSUME TypeOK, LateInv, [Next]_vars PROVE LateInv'
    OBVIOUS
  <2>1. late \in [Tasks -> Nat]
    BY DEF TypeOK
  <2>2. ASSUME NEW f \in Fibers, Number(f) PROVE LateInv'
    <3>1. CASE f \in Tasks /\ cancel_key /\ event[f] = "NODE"
      <4>1. /\ pc[f] = "number" /\ late' = [late EXCEPT ![f] = @ + 1]
            /\ cancel_key' = cancel_key /\ event' = event /\ pc' = [pc EXCEPT ![f] = "push"]
        BY <2>2, <3>1 DEF Number, At, Goto
      <4>2. late[f] = 0
        BY <2>1, <3>1, <4>1 DEF LateInv
      <4> QED
        BY <2>1, <3>1, <4>1, <4>2 DEF LateInv, TypeOK
    <3>2. CASE ~(f \in Tasks /\ cancel_key /\ event[f] = "NODE")
      <4>1. /\ late' = late /\ cancel_key' = cancel_key /\ event' = event
            /\ pc' = [pc EXCEPT ![f] = "push"]
        BY <2>2, <3>2 DEF Number, Goto
      <4> QED
        BY <4>1 DEF LateInv, TypeOK
    <3> QED
      BY <3>1, <3>2
  <2>3. ASSUME NEW t \in Tasks, IsCancelled(t) PROVE LateInv'
    <3>1. late' = late /\ cancel_key' = cancel_key
      BY <2>3 DEF IsCancelled
    <3>2. CASE cancel_key
      <4>1. event' = event /\ pc' = [pc EXCEPT ![t] = "handler"]
        BY <2>3, <3>2 DEF IsCancelled, Goto
      <4> QED
        BY <3>1, <3>2, <4>1 DEF LateInv, TypeOK
    <3>3. CASE ~cancel_key
      BY <3>1, <3>3 DEF LateInv
    <3> QED
      BY <3>2, <3>3
  <2>4. CASE (\A f \in Fibers : ~Number(f)) /\ (\A t \in Tasks : ~IsCancelled(t))
    BY <2>4, OthersReportNoNode DEF LateInv
  <2> QED
    BY <2>2, <2>3, <2>4
<1>3. LateInv => CancelStopsWithinOneNode
  BY DEF LateInv, CancelStopsWithinOneNode
<1> QED
  BY <1>1, <1>2, <1>3, TypeCorrect, PTL DEF Spec

-----------------------------------------------------------------------------
(* The client of a stream *)

Byte ==
  {CR, LF, IdLine, Comment} \cup {EventLine(e) : e \in Event} \cup {DataLine(e) : e \in Event}

Reading == [buffer : Seq(Byte), events : Seq(Event)]

NoData(text) == \A i \in 1..Len(text) : text[i].field # "data"

\* the lines and line ends there are, and which of them hold data
LEMMA Lines ==
  /\ CR \in Byte /\ LF \in Byte /\ IdLine \in Byte /\ Comment \in Byte
  /\ \A e \in Event : EventLine(e) \in Byte /\ DataLine(e) \in Byte
  /\ \A b \in Byte : b.field = "data" => \E e \in Event : b = DataLine(e)
  /\ CR.field = "CR" /\ LF.field = "LF" /\ IdLine.field = "id" /\ Comment.field = ":"
  /\ \A e : EventLine(e).field = "event" /\ DataLine(e).field = "data" /\ DataLine(e).of = e
<1> USE DEF Byte, CR, LF, IdLine, Comment, EventLine, DataLine
<1>1. CR \in Byte /\ LF \in Byte /\ IdLine \in Byte /\ Comment \in Byte
  OBVIOUS
<1>2. \A e \in Event : EventLine(e) \in Byte /\ DataLine(e) \in Byte
  OBVIOUS
<1>3. ASSUME NEW b \in Byte, b.field = "data" PROVE \E e \in Event : b = DataLine(e)
  BY <1>3
<1>4. CR.field = "CR" /\ LF.field = "LF" /\ IdLine.field = "id" /\ Comment.field = ":"
  OBVIOUS
<1>5. \A e : EventLine(e).field = "event" /\ DataLine(e).field = "data" /\ DataLine(e).of = e
  OBVIOUS
<1> QED
  BY <1>1, <1>2, <1>3, <1>4, <1>5

\* A frame without data is nothing to the client.
LEMMA ParseNothing ==
  ASSUME NEW text, NoData(text)
  PROVE  Parse(text) = <<>>
<1>1. LinesOf(text, "data") = {}
  BY DEF NoData, LinesOf
<1>2. Cardinality(LinesOf(text, "data")) # 1
  BY <1>1, FS_EmptySet
<1> QED
  BY <1>2 DEF Parse

\* A frame with one line of data is the event of that line.
LEMMA ParseEvent ==
  ASSUME NEW text, NEW i, LinesOf(text, "data") = {i}
  PROVE  Parse(text) = << text[i].of >>
<1>1. Cardinality(LinesOf(text, "data")) = 1
  BY FS_Singleton
<1>2. (CHOOSE k \in LinesOf(text, "data") : TRUE) = i
  OBVIOUS
<1> QED
  BY <1>1, <1>2 DEF Parse

\* A frame is parsed to events, one at most.
LEMMA ParseType ==
  ASSUME NEW text \in Seq(Byte)
  PROVE  Parse(text) \in Seq(Event)
<1> DEFINE data == LinesOf(text, "data")
<1>1. CASE Cardinality(data) = 1
  <2>1. data # {}
    <3>1. ASSUME data = {} PROVE FALSE
      <4>1. Cardinality({}) = 0
        BY FS_EmptySet
      <4> HIDE DEF data
      <4> QED
        BY <1>1, <3>1, <4>1
    <3> QED
      BY <3>1
  <2>2. PICK i \in data : i = CHOOSE k \in data : TRUE
    BY <2>1
  <2>3. text[i] \in Byte /\ text[i].field = "data"
    BY <2>2 DEF LinesOf
  <2>4. text[i].of \in Event
    BY <2>3, Lines
  <2>5. Parse(text) = << text[i].of >>
    BY <1>1, <2>2 DEF Parse
  <2> QED
    BY <2>4, <2>5
<1>2. CASE Cardinality(data) # 1
  BY <1>2 DEF Parse
<1> QED
  BY <1>1, <1>2

\* a byte keeps the types of what the client holds
LEMMA TakeByteType ==
  ASSUME NEW s \in Reading, NEW byte \in Byte
  PROVE  TakeByte(s, byte) \in Reading
<1> DEFINE text == Append(s.buffer, byte)
<1>1. text \in Seq(Byte) /\ s.events \in Seq(Event)
  BY DEF Reading
<1>2. s.events \o Parse(text) \in Seq(Event)
  <2>1. Parse(text) \in Seq(Event)
    BY <1>1, ParseType
  <2> QED
    BY <1>1, <2>1
<1>3. [buffer |-> <<>>, events |-> s.events \o Parse(text)] \in Reading
  BY <1>2 DEF Reading
<1>4. [s EXCEPT !.buffer = text] \in Reading
  BY <1>1 DEF Reading
<1> QED
  BY <1>3, <1>4 DEF TakeByte

\* what the client holds after the first i of the bytes of a frame
After(f, s, i) == IF i = 0 THEN s ELSE f[i]

Held(f, s, bytes, n) ==
  /\ \A i \in 0..Len(bytes) : After(f, s, i) \in Reading
  /\ After(f, s, 0) = s
  /\ \A i \in 1..Len(bytes) :
       After(f, s, i) = IF Dropped(bytes, n, i) THEN After(f, s, i - 1)
                        ELSE TakeByte(After(f, s, i - 1), Normalized(bytes[i]))

\* A frame is read byte by byte.
LEMMA ReadSteps ==
  ASSUME NEW s \in Reading, NEW bytes \in Seq(Byte), Len(bytes) # 0, NEW n \in Nat
  PROVE  \E f : Held(f, s, bytes, n) /\ After(f, s, Len(bytes)) = ReadCut(s, bytes, n)
<1> DEFINE Step(r, i) ==
      IF Dropped(bytes, n, i) THEN r ELSE TakeByte(r, Normalized(bytes[i]))
    after[i \in 1..Len(bytes)] == Step(IF i = 1 THEN s ELSE after[i - 1], i)
    Steps == {t \in (1..Len(bytes)) \X Reading \X Reading : t[3] = Step(t[2], t[1])}
<1>1. Len(bytes) \in Nat /\ Len(bytes) # 0
  OBVIOUS
<1>2. ASSUME NEW i \in 1..Len(bytes), NEW r \in Reading PROVE Step(r, i) \in Reading
  <2>1. Normalized(bytes[i]) \in Byte
    BY Lines DEF Normalized
  <2> HIDE DEF after
  <2> QED
    BY <2>1, TakeByteType
<1> HIDE DEF Step
<1>3. PICK f \in [1..Len(bytes) -> Reading] :
        \A i \in 1..Len(bytes) : <<i, Previous(f, s, i), f[i]>> \in Steps
  <2>1. \A i \in 1..Len(bytes) : \A r \in Reading : \E q \in Reading : <<i, r, q>> \in Steps
    <3> HIDE DEF after
    <3> QED
      BY <1>2
  <2> HIDE DEF after, Steps
  <2> QED
    BY <1>1, <2>1, RecursionExists
<1>4. \A i \in 1..Len(bytes) : f[i] = Step(IF i = 1 THEN s ELSE f[i - 1], i)
  <2> HIDE DEF after
  <2> QED
    BY <1>3 DEF Previous
<1>5. f = [i \in 1..Len(bytes) |-> Step(IF i = 1 THEN s ELSE f[i - 1], i)]
  <2> HIDE DEF after
  <2> QED
    BY <1>4
<1>6. after = [i \in 1..Len(bytes) |-> Step(IF i = 1 THEN s ELSE after[i - 1], i)]
  BY <1>5
<1>7. ReadCut(s, bytes, n) = after[Len(bytes)]
  BY DEF ReadCut, Step
<1> HIDE DEF after
<1>8. ASSUME NEW i \in 1..Len(bytes) PROVE after[i] = Step(After(after, s, i - 1), i)
  <2>1. (IF i = 1 THEN s ELSE after[i - 1]) = After(after, s, i - 1)
    BY <1>1 DEF After
  <2>2. after[i] = Step(IF i = 1 THEN s ELSE after[i - 1], i)
    BY <1>6
  <2> QED
    BY <2>1, <2>2
<1>9. \A i \in 1..Len(bytes) : after[i] \in Reading
  <2>1. \A i \in 1..Len(bytes) : Previous(after, s, i) \in Reading => after[i] \in Reading
    BY <1>2, <1>6 DEF Previous
  <2> QED
    BY <1>1, <2>1, RecursionType
<1>10. Held(after, s, bytes, n)
  <2>1. \A i \in 0..Len(bytes) : After(after, s, i) \in Reading
    BY <1>9 DEF After
  <2>2. \A i \in 1..Len(bytes) : After(after, s, i) = Step(After(after, s, i - 1), i)
    BY <1>8 DEF After
  <2> QED
    BY <2>1, <2>2 DEF Held, After, Step
<1> QED
  BY <1>1, <1>7, <1>10 DEF After

\* Bytes without data yield no event.
LEMMA TakeQuiet ==
  ASSUME NEW s \in Reading, NoData(s.buffer), NEW byte \in Byte, byte.field # "data"
  PROVE  NoData(TakeByte(s, byte).buffer) /\ TakeByte(s, byte).events = s.events
<1> DEFINE text == Append(s.buffer, byte)
<1>1. s.buffer \in Seq(Byte) /\ s.events \in Seq(Event)
  BY DEF Reading
<1>2. NoData(text)
  BY <1>1 DEF NoData
<1>3. CASE BlankLine(text)
  <2>1. TakeByte(s, byte) = [buffer |-> <<>>, events |-> s.events \o Parse(text)]
    BY <1>3 DEF TakeByte
  <2>2. Parse(text) = <<>>
    BY <1>2, ParseNothing
  <2>3. s.events \o <<>> = s.events
    BY <1>1
  <2>4. NoData(<<>>)
    BY DEF NoData
  <2> QED
    BY <2>1, <2>2, <2>3, <2>4
<1>4. CASE ~BlankLine(text)
  <2>1. TakeByte(s, byte) = [s EXCEPT !.buffer = text]
    BY <1>4 DEF TakeByte
  <2> QED
    BY <1>2, <2>1 DEF Reading
<1> QED
  BY <1>3, <1>4

\* and so do several of them
LEMMA QuietBytes ==
  ASSUME NEW s \in Reading, NoData(s.buffer), NEW bytes \in Seq(Byte), NEW n \in Nat, NEW f,
         Held(f, s, bytes, n),
         NEW m \in 0..Len(bytes), \A i \in 1..m : bytes[i].field # "data"
  PROVE  NoData(After(f, s, m).buffer) /\ After(f, s, m).events = s.events
<1> DEFINE S == {k \in 0..m : NoData(After(f, s, k).buffer) /\ After(f, s, k).events = s.events}
<1>1. Len(bytes) \in Nat
  OBVIOUS
<1>2. 0 \in S
  BY DEF Held
<1>3. ASSUME NEW k \in 0..m, k \in S, k < m PROVE k + 1 \in S
  <2>1. k + 1 \in 1..Len(bytes) /\ k + 1 \in 1..m /\ (k + 1) - 1 = k /\ k \in 0..Len(bytes)
    BY <1>1, <1>3
  <2>2. After(f, s, k) \in Reading
    BY <2>1 DEF Held
  <2>3. Normalized(bytes[k + 1]) \in Byte /\ Normalized(bytes[k + 1]).field # "data"
    BY <2>1, Lines DEF Normalized
  <2>4. \/ After(f, s, k + 1) = After(f, s, k)
        \/ After(f, s, k + 1) = TakeByte(After(f, s, k), Normalized(bytes[k + 1]))
    BY <2>1 DEF Held
  <2>5. NoData(After(f, s, k).buffer) /\ After(f, s, k).events = s.events
    BY <1>3
  <2>6. NoData(After(f, s, k + 1).buffer) /\ After(f, s, k + 1).events = s.events
    <3>1. CASE After(f, s, k + 1) = After(f, s, k)
      BY <2>5, <3>1
    <3>2. CASE After(f, s, k + 1) = TakeByte(After(f, s, k), Normalized(bytes[k + 1]))
      BY <2>2, <2>3, <2>5, <3>2, TakeQuiet
    <3> QED
      BY <2>4, <3>1, <3>2
  <2> QED
    BY <2>1, <2>6
<1>4. \A k \in 0..m : k \in S
  <2>1. m \in Nat
    BY <1>1
  <2> HIDE DEF S
  <2> QED
    BY <1>2, <1>3, <2>1, BoundedInduction
<1>5. m \in 0..m
  BY <1>1
<1> QED
  BY <1>4, <1>5

-----------------------------------------------------------------------------

\* A line is taken into the buffer.
LEMMA TakeLine ==
  ASSUME NEW s \in Reading, NEW byte \in Byte, byte # LF
  PROVE  TakeByte(s, byte) = [buffer |-> Append(s.buffer, byte), events |-> s.events]
<1>1. s.buffer \in Seq(Byte)
  BY DEF Reading
<1>2. ~BlankLine(Append(s.buffer, byte))
  BY <1>1 DEF BlankLine
<1>3. TakeByte(s, byte) = [s EXCEPT !.buffer = Append(s.buffer, byte)]
  BY <1>2 DEF TakeByte
<1> QED
  BY <1>3 DEF Reading

\* the LF after a line, and the one after that
LEMMA TakeEnd ==
  ASSUME NEW text \in Seq(Byte), text # <<>>, text[Len(text)] # LF, NEW events1 \in Seq(Event)
  PROVE  /\ TakeByte([buffer |-> text, events |-> events1], LF)
              = [buffer |-> Append(text, LF), events |-> events1]
         /\ TakeByte([buffer |-> Append(text, LF), events |-> events1], LF)
              = [buffer |-> <<>>, events |-> events1 \o Parse(Append(Append(text, LF), LF))]
         /\ TakeByte([buffer |-> <<>>, events |-> events1], LF)
              = [buffer |-> <<LF>>, events |-> events1]
<1>1. LF \in Byte
  BY Lines
<1>2. ~BlankLine(Append(text, LF))
  BY <1>1 DEF BlankLine
<1>3. BlankLine(Append(Append(text, LF), LF))
  BY <1>1 DEF BlankLine
<1>4. ~BlankLine(Append(<<>>, LF)) /\ Append(<<>>, LF) = <<LF>>
  BY <1>1 DEF BlankLine
<1>5. TakeByte([buffer |-> text, events |-> events1], LF)
        = [buffer |-> Append(text, LF), events |-> events1]
  BY <1>2 DEF TakeByte
<1>6. TakeByte([buffer |-> Append(text, LF), events |-> events1], LF)
        = [buffer |-> <<>>, events |-> events1 \o Parse(Append(Append(text, LF), LF))]
  BY <1>3 DEF TakeByte
<1>7. TakeByte([buffer |-> <<>>, events |-> events1], LF)
        = [buffer |-> <<LF>>, events |-> events1]
  BY <1>4 DEF TakeByte
<1> QED
  BY <1>5, <1>6, <1>7

\* what a line says at the end of a frame
Says(line) == IF line.field = "data" THEN <<line.of>> ELSE <<>>

\* A frame yields what its one line with data says.
LEMMA ParseLine ==
  ASSUME NEW text \in Seq(Byte), NoData(text), NEW line \in Byte
  PROVE  Parse(Append(Append(Append(text, line), LF), LF)) = Says(line)
<1> DEFINE frame == Append(Append(Append(text, line), LF), LF)
<1>1. LF \in Byte /\ LF.field = "LF"
  BY Lines
<1>2. /\ frame \in Seq(Byte) /\ Len(frame) = Len(text) + 3
      /\ \A i \in 1..Len(text) : frame[i] = text[i]
      /\ frame[Len(text) + 1] = line /\ frame[Len(text) + 2] = LF /\ frame[Len(text) + 3] = LF
  BY <1>1
<1>3. \A i \in 1..Len(frame) :
        i \in 1..Len(text) \/ i = Len(text) + 1 \/ i = Len(text) + 2 \/ i = Len(text) + 3
  BY <1>2
<1>4. ASSUME line.field = "data" PROVE LinesOf(frame, "data") = {Len(text) + 1}
  <2> HIDE DEF frame
  <2>1. \A i \in 1..Len(frame) : frame[i].field = "data" <=> i = Len(text) + 1
    BY <1>1, <1>2, <1>3, <1>4 DEF NoData
  <2>2. Len(text) + 1 \in 1..Len(frame)
    BY <1>2
  <2> QED
    BY <2>1, <2>2 DEF LinesOf
<1>5. ASSUME line.field # "data" PROVE NoData(frame)
  <2> HIDE DEF frame
  <2> QED
    BY <1>1, <1>2, <1>3, <1>5 DEF NoData
<1> HIDE DEF frame
<1>6. CASE line.field = "data"
  <2>1. Parse(frame) = << frame[Len(text) + 1].of >>
    BY <1>4, <1>6, ParseEvent
  <2> QED
    BY <1>2, <1>6, <2>1 DEF Says, frame
<1>7. CASE line.field # "data"
  BY <1>5, <1>7, ParseNothing DEF Says, frame
<1> QED
  BY <1>6, <1>7

\* what may be left in the buffer of a client that has read a frame
Rests == {<<>>, <<LF>>}

\* The last line of a frame and the blank line after it, wherever they are cut.
LEMMA LastLine ==
  ASSUME NEW s \in Reading, NEW bytes \in Seq(Byte), NEW n \in Nat, NEW f,
         Held(f, s, bytes, n),
         NEW m \in Nat, Len(bytes) = m + 5, NoData(After(f, s, m).buffer),
         bytes[m + 1] \notin {CR, LF},
         bytes[m + 2] = CR, bytes[m + 3] = LF, bytes[m + 4] = CR, bytes[m + 5] = LF
  PROVE  /\ After(f, s, m + 5).buffer \in Rests
         /\ After(f, s, m + 5).events = After(f, s, m).events \o Says(bytes[m + 1])
<1> DEFINE b == After(f, s, m).buffer
           E == After(f, s, m).events
           text == Append(b, bytes[m + 1])
           over == [buffer |-> <<>>, events |-> E \o Says(bytes[m + 1])]
           rest == [buffer |-> <<LF>>, events |-> E \o Says(bytes[m + 1])]
           Take(i) == TakeByte(After(f, s, i - 1), Normalized(bytes[i]))
<1>1. After(f, s, m) \in Reading /\ b \in Seq(Byte) /\ E \in Seq(Event)
  <2>1. After(f, s, m) \in Reading
    BY DEF Held
  <2> QED
    BY <2>1 DEF Reading
<1>2. CR # LF /\ Normalized(CR) = LF /\ Normalized(LF) = LF /\ LF \in Byte
  BY Lines DEF Normalized
<1>3. bytes[m + 1] \in Byte /\ Normalized(bytes[m + 1]) = bytes[m + 1]
  BY <1>2 DEF Normalized
<1>4. /\ (m + 1) - 1 = m /\ (m + 2) - 1 = m + 1 /\ (m + 3) - 1 = m + 2
      /\ (m + 4) - 1 = m + 3 /\ (m + 5) - 1 = m + 4
      /\ {m + 1, m + 2, m + 3, m + 4, m + 5} \subseteq 1..Len(bytes)
      /\ (m + 2) + 1 = m + 3 /\ (m + 4) + 1 = m + 5
  OBVIOUS
<1>5. /\ After(f, s, m + 1) = Take(m + 1) /\ After(f, s, m + 3) = Take(m + 3)
      /\ After(f, s, m + 5) = Take(m + 5)
      /\ After(f, s, m + 2) = IF n = m + 2 THEN Take(m + 2) ELSE After(f, s, m + 1)
      /\ After(f, s, m + 4) = IF n = m + 4 THEN Take(m + 4) ELSE After(f, s, m + 3)
  <2>1. ~Dropped(bytes, n, m + 1) /\ ~Dropped(bytes, n, m + 3) /\ ~Dropped(bytes, n, m + 5)
    BY <1>2 DEF Dropped
  <2>2. Dropped(bytes, n, m + 2) <=> n # m + 2
    BY <1>4 DEF Dropped
  <2>3. Dropped(bytes, n, m + 4) <=> n # m + 4
    BY <1>4 DEF Dropped
  <2> QED
    BY <1>4, <2>1, <2>2, <2>3 DEF Held
<1>6. After(f, s, m + 1) = [buffer |-> text, events |-> E]
  BY <1>1, <1>3, <1>4, <1>5, TakeLine
<1>7. text \in Seq(Byte) /\ text # <<>> /\ text[Len(text)] # LF
  <2>1. text \in Seq(Byte) /\ Len(text) = Len(b) + 1 /\ text[Len(b) + 1] = bytes[m + 1]
    <3> HIDE DEF b
    <3> QED
      BY <1>1, <1>3
  <2>2. bytes[m + 1] # LF
    OBVIOUS
  <2> HIDE DEF text, b
  <2> QED
    BY <2>1, <2>2
<1>8. Parse(Append(Append(text, LF), LF)) = Says(bytes[m + 1])
  BY <1>1, <1>3, ParseLine
<1>9. /\ TakeByte([buffer |-> text, events |-> E], LF)
           = [buffer |-> Append(text, LF), events |-> E]
      /\ TakeByte([buffer |-> Append(text, LF), events |-> E], LF) = over
  BY <1>1, <1>7, <1>8, TakeEnd
<1>10. TakeByte(over, LF) = rest
  <2>1. ~BlankLine(Append(<<>>, LF)) /\ Append(<<>>, LF) = <<LF>>
    BY <1>2 DEF BlankLine
  <2> QED
    BY <2>1 DEF TakeByte
<1>11. After(f, s, m + 5) \in {over, rest}
  <2> HIDE DEF over, rest, text, E
  <2>1. CASE n = m + 2
    <3>1. After(f, s, m + 2) = [buffer |-> Append(text, LF), events |-> E]
      BY <1>2, <1>4, <1>5, <1>6, <1>9, <2>1
    <3>2. After(f, s, m + 3) = over
      BY <1>2, <1>4, <1>5, <1>9, <3>1
    <3>3. After(f, s, m + 4) = over
      BY <1>5, <2>1, <3>2
    <3> QED
      BY <1>2, <1>4, <1>5, <1>10, <3>3
  <2>2. CASE n = m + 4
    <3>1. After(f, s, m + 2) = [buffer |-> text, events |-> E]
      BY <1>5, <1>6, <2>2
    <3>2. After(f, s, m + 3) = [buffer |-> Append(text, LF), events |-> E]
      BY <1>2, <1>4, <1>5, <1>9, <3>1
    <3>3. After(f, s, m + 4) = over
      BY <1>2, <1>4, <1>5, <1>9, <2>2, <3>2
    <3> QED
      BY <1>2, <1>4, <1>5, <1>10, <3>3
  <2>3. CASE n # m + 2 /\ n # m + 4
    <3>1. After(f, s, m + 2) = [buffer |-> text, events |-> E]
      BY <1>5, <1>6, <2>3
    <3>2. After(f, s, m + 3) = [buffer |-> Append(text, LF), events |-> E]
      BY <1>2, <1>4, <1>5, <1>9, <3>1
    <3>3. After(f, s, m + 4) = [buffer |-> Append(text, LF), events |-> E]
      BY <1>5, <2>3, <3>2
    <3> QED
      BY <1>2, <1>4, <1>5, <1>9, <3>3
  <2> QED
    BY <2>1, <2>2, <2>3
<1>12. over.buffer = <<>> /\ rest.buffer = <<LF>> /\ over.events = E \o Says(bytes[m + 1])
       /\ rest.events = E \o Says(bytes[m + 1])
  OBVIOUS
<1> HIDE DEF over, rest
<1> QED
  BY <1>11, <1>12 DEF Rests

\* A client reads the event of a frame, once, wherever the frame is cut.
LEMMA EventIsRead ==
  ASSUME NEW s \in Reading, s.buffer \in Rests, NEW e \in Event, NEW n \in Nat
  PROVE  /\ ReadCut(s, EventFrame(e), n) \in Reading
         /\ ReadCut(s, EventFrame(e), n).buffer \in Rests
         /\ ReadCut(s, EventFrame(e), n).events = Append(s.events, e)
<1> DEFINE bytes == EventFrame(e)
<1>1. /\ bytes \in Seq(Byte) /\ Len(bytes) = 6 + 5
      /\ bytes[1] = IdLine /\ bytes[2] = CR /\ bytes[3] = LF
      /\ bytes[4] = EventLine(e) /\ bytes[5] = CR /\ bytes[6] = LF
      /\ bytes[6 + 1] = DataLine(e)
      /\ bytes[6 + 2] = CR /\ bytes[6 + 3] = LF /\ bytes[6 + 4] = CR /\ bytes[6 + 5] = LF
  BY Lines DEF EventFrame
<1> HIDE DEF bytes
<1>2. PICK f : Held(f, s, bytes, n) /\ After(f, s, Len(bytes)) = ReadCut(s, bytes, n)
  <2>1. Len(bytes) # 0
    BY <1>1
  <2> QED
    BY <1>1, <2>1, ReadSteps, Zenon
<1>3. NoData(s.buffer)
  BY Lines DEF Rests, NoData
<1>4. \A i \in 1..6 : bytes[i].field # "data"
  <2>1. \A i \in 1..6 : i = 1 \/ i = 2 \/ i = 3 \/ i = 4 \/ i = 5 \/ i = 6
    OBVIOUS
  <2> QED
    BY <1>1, <2>1, Lines
<1>5. NoData(After(f, s, 6).buffer) /\ After(f, s, 6).events = s.events
  <2>1. 6 \in 0..Len(bytes)
    BY <1>1
  <2> QED
    BY <1>1, <1>2, <1>3, <1>4, <2>1, QuietBytes
<1>6. bytes[6 + 1] \notin {CR, LF} /\ Says(bytes[6 + 1]) = <<e>>
  BY <1>1, Lines DEF Says
<1>7. /\ After(f, s, 6 + 5).buffer \in Rests
      /\ After(f, s, 6 + 5).events = After(f, s, 6).events \o Says(bytes[6 + 1])
  <2>1. PICK m \in Nat : m = 6
    OBVIOUS
  <2>2. /\ Len(bytes) = m + 5 /\ NoData(After(f, s, m).buffer) /\ bytes[m + 1] \notin {CR, LF}
        /\ bytes[m + 2] = CR /\ bytes[m + 3] = LF /\ bytes[m + 4] = CR /\ bytes[m + 5] = LF
    BY <1>1, <1>5, <1>6, <2>1
  <2>3. /\ After(f, s, m + 5).buffer \in Rests
        /\ After(f, s, m + 5).events = After(f, s, m).events \o Says(bytes[m + 1])
    BY <1>1, <1>2, <2>2, LastLine
  <2> QED
    BY <2>1, <2>3
<1>8. After(f, s, 6 + 5) \in Reading /\ After(f, s, 6 + 5) = ReadCut(s, bytes, n)
  BY <1>1, <1>2 DEF Held
<1>9. s.events \o <<e>> = Append(s.events, e)
  BY DEF Reading
<1> QED
  BY <1>5, <1>6, <1>7, <1>8, <1>9 DEF bytes

\* A ping is nothing to the client.
LEMMA PingIsRead ==
  ASSUME NEW s \in Reading, s.buffer \in Rests, NEW n \in Nat
  PROVE  /\ ReadCut(s, Ping, n) \in Reading
         /\ ReadCut(s, Ping, n).buffer \in Rests
         /\ ReadCut(s, Ping, n).events = s.events
<1>1. /\ Ping \in Seq(Byte) /\ Len(Ping) = 0 + 5
      /\ Ping[0 + 1] = Comment
      /\ Ping[0 + 2] = CR /\ Ping[0 + 3] = LF /\ Ping[0 + 4] = CR /\ Ping[0 + 5] = LF
  BY Lines DEF Ping
<1>2. PICK f : Held(f, s, Ping, n) /\ After(f, s, Len(Ping)) = ReadCut(s, Ping, n)
  <2>1. Len(Ping) # 0
    BY <1>1
  <2> QED
    BY <1>1, <2>1, ReadSteps, Zenon
<1>3. NoData(s.buffer)
  BY Lines DEF Rests, NoData
<1>4. After(f, s, 0) = s
  BY <1>2 DEF Held
<1>5. Ping[0 + 1] \notin {CR, LF} /\ Says(Ping[0 + 1]) = <<>>
  BY <1>1, Lines DEF Says
<1>6. /\ After(f, s, 0 + 5).buffer \in Rests
      /\ After(f, s, 0 + 5).events = After(f, s, 0).events \o Says(Ping[0 + 1])
  <2>1. 0 \in Nat /\ NoData(After(f, s, 0).buffer)
    BY <1>3, <1>4
  <2> QED
    BY <1>1, <1>2, <1>5, <2>1, LastLine, ZenonT(40)
<1>7. After(f, s, 0 + 5) \in Reading /\ After(f, s, 0 + 5) = ReadCut(s, Ping, n)
  BY <1>1, <1>2 DEF Held
<1>8. s.events \o <<>> = s.events
  BY DEF Reading
<1> QED
  BY <1>4, <1>5, <1>6, <1>7, <1>8

\* between two events a client has at most the end of a frame in its buffer
Between == {r \in Reading : r.buffer \in Rests}

\* an event, whatever the client held between two frames
LEMMA EventsAreRead ==
  ASSUME NEW R \in SUBSET Between, NEW e \in Event
  PROVE  /\ Reads(R, EventFrame(e)) \in SUBSET Between
         /\ \A q \in Reads(R, EventFrame(e)) : \E r \in R : q.events = Append(r.events, e)
<1> SUFFICES ASSUME NEW q \in Reads(R, EventFrame(e))
             PROVE  q \in Between /\ \E r \in R : q.events = Append(r.events, e)
  OBVIOUS
<1>1. PICK r \in R, n \in 0..Len(EventFrame(e)) : q = ReadCut(r, EventFrame(e), n)
  BY DEF Reads
<1>2. r \in Reading /\ r.buffer \in Rests
  BY DEF Between
<1>3. n \in Nat
  BY DEF EventFrame
<1> QED
  BY <1>1, <1>2, <1>3, EventIsRead DEF Between

\* and a ping
LEMMA PingsAreRead ==
  ASSUME NEW R \in SUBSET Between
  PROVE  /\ Reads(R, Ping) \in SUBSET Between
         /\ \A q \in Reads(R, Ping) : \E r \in R : q.events = r.events
<1> SUFFICES ASSUME NEW q \in Reads(R, Ping)
             PROVE  q \in Between /\ \E r \in R : q.events = r.events
  OBVIOUS
<1>1. PICK r \in R, n \in 0..Len(Ping) : q = ReadCut(r, Ping, n)
  BY DEF Reads
<1>2. r \in Reading /\ r.buffer \in Rests
  BY DEF Between
<1>3. n \in Nat
  BY DEF Ping
<1> QED
  BY <1>1, <1>2, <1>3, PingIsRead DEF Between

\* However the network cuts what is sent, and wherever it puts pings, the client reads the
\* events that were sent.
LEMMA SentIsRead ==
  ASSUME NEW s \in Streams, buffer[s] \in Rests, Sent(s) \in Seq(Event),
         NEW reading \in Readings(s)
  PROVE  reading \in Between /\ reading.events = Sent(s)
<1> DEFINE base == {[buffer |-> buffer[s], events |-> <<>>]}
           Heard(R, k) == Reads(R \cup Reads(R, Ping), EventFrame(Sent(s)[k]))
           after[k \in 1..Len(Sent(s))] == Heard(IF k = 1 THEN base ELSE after[k - 1], k)
           X == SUBSET Between
           Steps == {t \in (1..Len(Sent(s))) \X X \X X : t[3] = Heard(t[2], t[1])}
<1>1. Len(Sent(s)) \in Nat
  OBVIOUS
<1>2. base \in SUBSET Between
  <2>1. buffer[s] \in Seq(Byte) /\ <<>> \in Seq(Event)
    <3>1. buffer[s] = <<>> \/ buffer[s] = <<LF>>
      BY DEF Rests
    <3>2. <<>> \in Seq(Byte) /\ <<LF>> \in Seq(Byte) /\ <<>> \in Seq(Event)
      BY Lines
    <3> QED
      BY <3>1, <3>2
  <2>2. [buffer |-> buffer[s], events |-> <<>>] \in Reading
    BY <2>1 DEF Reading
  <2> QED
    BY <2>2 DEF Between
<1>3. ASSUME NEW R \in SUBSET Between, NEW k \in 1..Len(Sent(s))
      PROVE  /\ Heard(R, k) \in SUBSET Between
             /\ \A q \in Heard(R, k) : \E r \in R : q.events = Append(r.events, Sent(s)[k])
  <2>1. Sent(s)[k] \in Event
    OBVIOUS
  <2>2. R \cup Reads(R, Ping) \in SUBSET Between
    BY PingsAreRead
  <2>3. /\ Heard(R, k) \in SUBSET Between
        /\ \A q \in Heard(R, k) :
             \E r \in R \cup Reads(R, Ping) : q.events = Append(r.events, Sent(s)[k])
    BY <2>1, <2>2, EventsAreRead
  <2>4. \A r \in R \cup Reads(R, Ping) : \E p \in R : r.events = p.events
    BY PingsAreRead
  <2> HIDE DEF Heard
  <2> QED
    <3>1. Heard(R, k) \in SUBSET Between
      BY <2>3
    <3>2. ASSUME NEW q \in Heard(R, k)
          PROVE  \E p \in R : q.events = Append(p.events, Sent(s)[k])
      <4>1. PICK r \in R \cup Reads(R, Ping) : q.events = Append(r.events, Sent(s)[k])
        BY <2>3, <3>2
      <4>2. PICK p \in R : r.events = p.events
        BY <2>4
      <4> QED
        BY <4>1, <4>2
    <3> QED
      BY <3>1, <3>2
<1>4. PICK f \in [1..Len(Sent(s)) -> X] :
        \A k \in 1..Len(Sent(s)) : <<k, Previous(f, base, k), f[k]>> \in Steps
  <2> HIDE DEF after, base
  <2>1. \A k \in 1..Len(Sent(s)) : \A R \in X : \E Q \in X : <<k, R, Q>> \in Steps
    <3> HIDE DEF Heard
    <3> QED
      BY <1>3
  <2> HIDE DEF Steps, X
  <2> QED
    BY <1>1, <1>2, <2>1, RecursionExists DEF X
<1>5. \A k \in 1..Len(Sent(s)) : f[k] = Heard(IF k = 1 THEN base ELSE f[k - 1], k)
  <2> HIDE DEF after, Heard, base, X
  <2> QED
    BY <1>4 DEF Previous
<1>6. f = [k \in 1..Len(Sent(s)) |-> Heard(IF k = 1 THEN base ELSE f[k - 1], k)]
  <2> HIDE DEF after, Heard, base, X
  <2> QED
    BY <1>4, <1>5
<1>7. after = [k \in 1..Len(Sent(s)) |-> Heard(IF k = 1 THEN base ELSE after[k - 1], k)]
  <2> HIDE DEF Heard, base, X
  <2> QED
    BY <1>6
<1>8. Readings(s) = After(after, base, Len(Sent(s)))
  BY <1>1 DEF Readings, After
<1> DEFINE S == {k \in 0..Len(Sent(s)) :
                   After(after, base, k) \in SUBSET Between
                     /\ \A q \in After(after, base, k) : q.events = SubSeq(Sent(s), 1, k)}
<1>9. 0 \in S
  <2>1. After(after, base, 0) = base
    BY DEF After
  <2>2. \A q \in base : q.events = SubSeq(Sent(s), 1, 0)
    <3>1. SubSeq(Sent(s), 1, 0) = <<>>
      OBVIOUS
    <3>2. \A q \in base : q.events = <<>>
      <4>1. [buffer |-> buffer[s], events |-> <<>>].events = <<>>
        OBVIOUS
      <4> QED
        BY <4>1, Zenon
    <3> HIDE DEF base
    <3> QED
      BY <3>1, <3>2, Zenon
  <2> HIDE DEF after, base
  <2> QED
    BY <1>1, <1>2, <2>1, <2>2
<1>10. ASSUME NEW k \in 0..Len(Sent(s)), k \in S, k < Len(Sent(s)) PROVE k + 1 \in S
  <2> HIDE DEF Heard, base, after
  <2>1. PICK R \in SUBSET Between :
          R = After(after, base, k) /\ \A q \in R : q.events = SubSeq(Sent(s), 1, k)
    BY <1>10
  <2>2. k + 1 \in 1..Len(Sent(s)) /\ k + 1 \in 0..Len(Sent(s)) /\ (k + 1) - 1 = k /\ k + 1 # 0
    BY <1>1, <1>10
  <2>3. After(after, base, k + 1) = Heard(R, k + 1)
    <3>1. after[k + 1] = Heard(IF k + 1 = 1 THEN base ELSE after[(k + 1) - 1], k + 1)
      BY <1>7, <2>2
    <3>2. (IF k + 1 = 1 THEN base ELSE after[(k + 1) - 1]) = R
      BY <2>1, <2>2 DEF After
    <3> QED
      BY <2>2, <3>1, <3>2 DEF After
  <2>4. /\ Heard(R, k + 1) \in SUBSET Between
        /\ \A q \in Heard(R, k + 1) : \E r \in R : q.events = Append(r.events, Sent(s)[k + 1])
    BY <1>3, <2>2
  <2>5. Append(SubSeq(Sent(s), 1, k), Sent(s)[k + 1]) = SubSeq(Sent(s), 1, k + 1)
    BY <2>2
  <2>6. ASSUME NEW q \in Heard(R, k + 1) PROVE q.events = SubSeq(Sent(s), 1, k + 1)
    <3>1. PICK r \in R : q.events = Append(r.events, Sent(s)[k + 1])
      BY <2>4
    <3>2. r.events = SubSeq(Sent(s), 1, k)
      BY <2>1
    <3> QED
      BY <2>5, <3>1, <3>2
  <2> QED
    BY <2>2, <2>3, <2>4, <2>6
<1>11. Len(Sent(s)) \in S
  <2> HIDE DEF S
  <2>1. \A k \in 0..Len(Sent(s)) : k \in S
    BY <1>1, <1>9, <1>10, BoundedInduction
  <2> QED
    BY <1>1, <2>1
<1>12. SubSeq(Sent(s), 1, Len(Sent(s))) = Sent(s)
  OBVIOUS
<1> HIDE DEF after
<1> QED
  BY <1>8, <1>11, <1>12

\* A stream that has not begun has sent nothing.
NewHasNothing == \A s \in Streams : stream[s] = "new" => got[s] = <<>>

\* the last element alone
LEMMA LastOne ==
  ASSUME NEW T, NEW h \in Seq(T), Len(h) > 0
  PROVE  SubSeq(h, Len(h), Len(h)) = << h[Len(h)] >>
<1>1. PICK n \in Nat : n = Len(h) /\ n \in 1..Len(h)
  OBVIOUS
<1>2. PICK last : last = SubSeq(h, n, n)
  OBVIOUS
<1>3. last \in Seq(T) /\ Len(last) = 1 /\ last[1] = h[n]
  BY <1>1, <1>2
<1>4. last = << last[1] >>
  BY <1>3
<1> QED
  BY <1>1, <1>2, <1>3, <1>4

\* One connection sends or ends in a step, and what it has sent before stays.
LEMMA OneSends ==
  ASSUME TypeOK, NewHasNothing, [Next]_vars
  PROVE  /\ NewHasNothing'
         /\ \A s \in Streams : Sent(s) \in Seq(Event) /\ got'[s] = got[s] \o Sent(s)
         /\ \A s, q \in Streams :
              (got'[s] # got[s] \/ Closes(s)) /\ q # s => got'[q] = got[q]
<1>1. ASSUME NEW s \in Streams, got'[s] = got[s]
      PROVE  Sent(s) \in Seq(Event) /\ got'[s] = got[s] \o Sent(s)
  <2>1. got[s] \in Seq(Event)
    BY DEF TypeOK
  <2>2. Sent(s) = <<>>
    BY <1>1, <2>1 DEF Sent
  <2> QED
    BY <1>1, <2>1, <2>2
<1>2. ASSUME NEW s \in Streams, Replay(s) \/ Receive(s)
      PROVE  /\ \A q \in Streams : q # s => got'[q] = got[q] /\ stream'[q] = stream[q]
             /\ stream'[s] # "new"
             /\ Sent(s) \in Seq(Event) /\ got'[s] = got[s] \o Sent(s)
  <2>1. CASE Replay(s)
    <3>1. got[s] = <<>> /\ got'[s] = Replayed
      BY <2>1 DEF Replay, NewHasNothing, TypeOK
    <3>2. Replayed \in Seq(Event)
      BY ReplayedPrefix
    <3>3. Sent(s) = Replayed
      BY <3>1, <3>2 DEF Sent
    <3>4. /\ stream'[s] # "new"
          /\ \A q \in Streams : q # s => got'[q] = got[q] /\ stream'[q] = stream[q]
      BY <2>1 DEF Replay, Moves, TypeOK
    <3> QED
      BY <3>1, <3>2, <3>3, <3>4
  <2>2. CASE Receive(s)
    <3> DEFINE e == Head(inbox[s])
    <3>1. got[s] \in Seq(Event) /\ e \in Event
      BY <2>2 DEF Receive, TypeOK
    <3>2. got'[s] = got[s] \/ got'[s] = Append(got[s], e)
      <4> HIDE DEF e
      <4> QED
        BY <2>2 DEF Receive, TypeOK, e
    <3>3. Sent(s) \in Seq(Event) /\ got'[s] = got[s] \o Sent(s)
      <4>1. CASE got'[s] = got[s]
        BY <1>1, <4>1
      <4>2. CASE got'[s] = Append(got[s], e)
        <5> HIDE DEF e
        <5>1. Len(got'[s]) = Len(got[s]) + 1 /\ got'[s][Len(got[s]) + 1] = e
          BY <3>1, <4>2
        <5>2. got'[s] \in Seq(Event)
          BY <3>1, <4>2
        <5>3. Sent(s) = <<e>>
          <6>1. Sent(s) = SubSeq(got'[s], Len(got'[s]), Len(got'[s]))
            BY <5>1 DEF Sent
          <6> QED
            BY <3>1, <5>1, <5>2, <6>1, LastOne
        <5> QED
          BY <3>1, <4>2, <5>3
      <4> QED
        BY <3>2, <4>1, <4>2
    <3>4. /\ stream'[s] # "new"
          /\ \A q \in Streams : q # s => got'[q] = got[q] /\ stream'[q] = stream[q]
      BY <2>2 DEF Receive, Moves, TypeOK
    <3> QED
      BY <3>3, <3>4
  <2> QED
    BY <1>2, <2>1, <2>2
<1>3. CASE \E s \in Streams : Replay(s) \/ Receive(s)
  <2>1. PICK s \in Streams : Replay(s) \/ Receive(s)
    BY <1>3
  <2>2. \A q \in Streams : q # s => got'[q] = got[q] /\ stream'[q] = stream[q]
    BY <1>2, <2>1
  <2>3. NewHasNothing'
    BY <1>2, <2>1, <2>2 DEF NewHasNothing
  <2>4. \A q \in Streams : got'[q] # got[q] \/ Closes(q) => q = s
    BY <2>2 DEF Closes
  <2> QED
    BY <1>1, <1>2, <2>1, <2>2, <2>3, <2>4
<1>4. CASE \A s \in Streams : ~Replay(s) /\ ~Receive(s)
  <2>1. got' = got
    BY <1>4, OthersSendNothing
  <2>2. \A s \in Streams : stream'[s] = "new" => stream[s] = "new"
    <3>1. CASE stream' = stream
      BY <3>1
    <3>2. ASSUME NEW q \in Streams, Connection(q) \/ Drop(q)
          PROVE  \A s \in Streams : stream'[s] = "new" => stream[s] = "new"
      BY <1>4, <3>2 DEF Connection, Subscribe, Quiet, Check, Drop, Moves, TypeOK
    <3>3. ASSUME NEW w \in Workers, Start(w) \/ Resume(w) \/ Cancel(w) \/ Crash(w)
          PROVE  stream' = stream
      BY <3>3 DEF Start, Resume, Cancel, Crash
    <3>4. ASSUME NEW f \in Fibers, Publisher(f) \/ CommandFails(f) PROVE stream' = stream
      BY <3>4 DEF Publisher, Number, Push, Announce, CommandFails
    <3>5. ASSUME Request PROVE stream' = stream
      BY <3>5 DEF Request, Launch, ResumeWrite, Flag, CancelWrite
    <3>6. ASSUME NEW t \in Tasks, Task(t) PROVE stream' = stream
      BY <3>6 DEF Task, Begin, NodeUpdate, IsCancelled, GraphStops, Pause, Complete, Raises, Fail,
                  Interrupted, Handler, MarkCancelled
    <3>7. CASE UNCHANGED vars
      BY <3>1, <3>7 DEF vars
    <3> QED
      BY <3>1, <3>2, <3>3, <3>4, <3>5, <3>6, <3>7 DEF Next
  <2>3. NewHasNothing'
    BY <2>1, <2>2 DEF NewHasNothing
  <2> QED
    BY <1>1, <2>1, <2>3
<1> QED
  BY <1>3, <1>4

\* The run and its streams with their clients are the run and its streams.
LEMMA StreamsAreRuns == StreamSpec => Spec
<1>1. StreamInit => Init
  BY DEF StreamInit
<1>2. [StreamNext]_streamVars => [Next]_vars
  BY DEF StreamNext, streamVars
<1> QED
  BY <1>1, <1>2, PTL DEF StreamSpec, Spec

\* what the client holds
ClientInv ==
  /\ NewHasNothing
  /\ buffer \in [Streams -> Rests] /\ shown \in [Streams -> Seq(Event)]
  /\ ClientSeesWhatWasSent

\* The client sees the events of its stream, each once and in order, for any cuts of the
\* frames and any pings between them.
THEOREM ClientCorrect == StreamSpec => []ClientSeesWhatWasSent
<1>1. StreamInit => ClientInv
  BY DEF StreamInit, Init, ClientInv, NewHasNothing, ClientSeesWhatWasSent, Rests
<1>2. TypeOK /\ ClientInv /\ [StreamNext]_streamVars => ClientInv'
  <2> SUFFICES ASSUME TypeOK, ClientInv, [StreamNext]_streamVars PROVE ClientInv'
    OBVIOUS
  <2>1. [Next]_vars
    BY DEF StreamNext, streamVars
  <2>2. /\ NewHasNothing'
        /\ \A s \in Streams : Sent(s) \in Seq(Event) /\ got'[s] = got[s] \o Sent(s)
        /\ \A s, q \in Streams :
             (got'[s] # got[s] \/ Closes(s)) /\ q # s => got'[q] = got[q]
    BY <2>1, OneSends DEF ClientInv
  <2>3. CASE UNCHANGED client /\ \A s \in Streams : got'[s] = got[s]
    BY <2>2, <2>3 DEF ClientInv, ClientSeesWhatWasSent, client
  <2>4. ASSUME NEW s \in Streams, got'[s] # got[s] \/ Closes(s), ClientReads(s)
        PROVE  ClientInv'
    <3>1. PICK reading \in Readings(s) :
            LET read == IF Closes(s) THEN AtEnd(reading) ELSE reading
            IN  /\ buffer' = [buffer EXCEPT ![s] = read.buffer]
                /\ shown' = [shown EXCEPT ![s] = @ \o read.events]
      BY <2>4 DEF ClientReads
    <3> DEFINE read == IF Closes(s) THEN AtEnd(reading) ELSE reading
    <3>2. buffer[s] \in Rests /\ Sent(s) \in Seq(Event)
      BY <2>2 DEF ClientInv
    <3>3. reading \in Between /\ reading.events = Sent(s)
      BY <3>2, SentIsRead
    <3>4. AtEnd(reading).buffer \in Rests /\ AtEnd(reading).events = reading.events
      <4>1. reading.buffer = <<>> \/ reading.buffer = <<LF>>
        BY <3>3 DEF Between, Rests
      <4>2. ~\E i \in 1..Len(reading.buffer) : reading.buffer[i] # LF
        BY <4>1
      <4> QED
        BY <4>2 DEF AtEnd, Rests
    <3>5. read.buffer \in Rests /\ read.events = Sent(s)
      BY <3>1, <3>3, <3>4 DEF Between
    <3>6. buffer' \in [Streams -> Rests]
      BY <3>1, <3>5 DEF ClientInv
    <3>7. shown'[s] = got'[s] /\ \A q \in Streams : q # s => shown'[q] = got'[q]
      BY <2>2, <2>4, <3>1, <3>5 DEF ClientInv, ClientSeesWhatWasSent
    <3>8. shown' \in [Streams -> Seq(Event)]
      <4>1. shown[s] \o Sent(s) \in Seq(Event)
        BY <3>2 DEF ClientInv
      <4> QED
        BY <3>1, <3>5, <4>1 DEF ClientInv
    <3>9. ClientSeesWhatWasSent'
      BY <3>7 DEF ClientSeesWhatWasSent
    <3> QED
      BY <2>2, <3>6, <3>8, <3>9 DEF ClientInv
  <2> QED
    BY <2>3, <2>4 DEF StreamNext, streamVars, vars, Silent
<1>3. ClientInv => ClientSeesWhatWasSent
  BY DEF ClientInv
<1>4. StreamSpec => []TypeOK
  BY StreamsAreRuns, TypeCorrect, PTL
<1> QED
  BY <1>1, <1>2, <1>3, <1>4, PTL DEF StreamSpec

=============================================================================
