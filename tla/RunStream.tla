------------------------------ MODULE RunStream ------------------------------
(***************************************************************************)
(* The SSE streams of RedisRuns together with the frontend that reads      *)
(* them: what a connection sends goes over the wire of SseClient.          *)
(*                                                                         *)
(* A client never answers on its connection, so that it may as well read   *)
(* at once what is sent.  The wire may cut each frame in two and put a     *)
(* ping before it.                                                         *)
(***************************************************************************)
EXTENDS RedisRuns, SseClient

VARIABLES
  buffer, \* the text a client has read of a frame that is not complete
  shown   \* the events iter_run_events has yielded

client == <<buffer, shown>>
streamVars == <<vars, client>>

StreamInit ==
  /\ Init
  /\ buffer = [s \in Streams |-> <<>>] /\ shown = [s \in Streams |-> <<>>]

\* the events that this step of the connection sends
Sent(s) == SubSeq(got'[s], Len(got[s]) + 1, Len(got'[s]))

Closes(s) == stream[s] # "closed" /\ stream'[s] = "closed"

\* what iter_run_events may make of a frame: its bytes may be cut anywhere
Reads(readings, frame) ==
  UNION {{ReadCut(r, frame, n) : n \in 0..Len(frame)} : r \in readings}

\* and of the events, with or without a ping before each
Readings(s) ==
  LET waiting == {[buffer |-> buffer[s], events |-> <<>>]}
      after[k \in 1..Len(Sent(s))] ==
        LET before == IF k = 1 THEN waiting ELSE after[k - 1]
        IN  Reads(before \cup Reads(before, Ping), EventFrame(Sent(s)[k]))
  IN  IF Sent(s) = <<>> THEN waiting ELSE after[Len(Sent(s))]

\* the response goes on, or ends
ClientReads(s) ==
  \E reading \in Readings(s) :
    LET read == IF Closes(s) THEN AtEnd(reading) ELSE reading
    IN  /\ buffer' = [buffer EXCEPT ![s] = read.buffer]
        /\ shown' = [shown EXCEPT ![s] = @ \o read.events]

\* nothing comes on any connection
Silent == \A s \in Streams : got'[s] = got[s] /\ ~Closes(s)

StreamNext ==
  /\ Next
  /\ \/ Silent /\ UNCHANGED client
     \/ \E s \in Streams : (got'[s] # got[s] \/ Closes(s)) /\ ClientReads(s)

StreamSpec == StreamInit /\ [][StreamNext]_streamVars /\ Fairness

-----------------------------------------------------------------------------
(* Properties *)

\* The client has seen the events that were sent to it, each once and in their order,
\* wherever the network cut them: a frame whose CR LF is cut falls apart at a blank line
\* that nobody wrote, and its data still tells the whole event.
ClientSeesWhatWasSent == \A s \in Streams : shown[s] = got[s]

=============================================================================
