------------------------------ MODULE SseClient ------------------------------
(***************************************************************************)
(* How an event crosses an SSE connection: EventSourceResponse writes it   *)
(* as a frame of lines that end in CR LF, the network cuts the bytes       *)
(* anywhere, and iter_run_events of the frontend reads them chunk by       *)
(* chunk.  A byte here is a CR, a LF or a whole line.                      *)
(***************************************************************************)
EXTENDS Naturals, Sequences, FiniteSets

CR == [field |-> "CR"]
LF == [field |-> "LF"]

\* what stream_research yields; the data is one line of JSON, which holds the event's type
\* too
IdLine == [field |-> "id"]
EventLine(e) == [field |-> "event", type |-> e.type]
DataLine(e) == [field |-> "data", of |-> e]

EventFrame(e) == << IdLine, CR, LF, EventLine(e), CR, LF, DataLine(e), CR, LF, CR, LF >>

\* the comment that keeps a connection open
Comment == [field |-> ":"]
Ping == << Comment, CR, LF, CR, LF >>

-----------------------------------------------------------------------------
(* iter_run_events *)

LinesOf(frame, field) == {i \in 1..Len(frame) : frame[i].field = field}

\* (mutation) the event's type is taken from its event line
ParseByEventLine(frame) ==
  LET data == LinesOf(frame, "data")
      names == LinesOf(frame, "event")
      event == frame[CHOOSE i \in data : TRUE].of
  IN  IF Cardinality(data) # 1 THEN <<>>
      ELSE IF names = {} THEN << [event EXCEPT !.type = ""] >>
      ELSE << [event EXCEPT !.type = frame[CHOOSE i \in names : TRUE].type] >>

\* parse_sse_frame: the event of a frame with data that is one JSON document, or nothing
Parse(frame) ==
  LET data == LinesOf(frame, "data")
  IN  IF Cardinality(data) = 1 THEN << frame[CHOOSE i \in data : TRUE].of >> ELSE <<>>

BlankLine(text) == Len(text) > 1 /\ text[Len(text) - 1] = LF /\ text[Len(text)] = LF

\* one more byte of the buffer: at the first blank line a frame is taken off it and parsed
TakeByte(s, byte) ==
  LET text == Append(s.buffer, byte)
  IN  IF BlankLine(text)
        THEN [buffer |-> <<>>, events |-> s.events \o Parse(text)]
        ELSE [s EXCEPT !.buffer = text]

\* bytes that come in two chunks, cut after the first n: the CR of a CR LF that is in one
\* of the chunks
Dropped(bytes, n, i) ==
  bytes[i] = CR /\ i # n /\ i < Len(bytes) /\ bytes[i + 1] = LF

\* chunk.replace("\r\n", "\n").replace("\r", "\n"): a CR at the end of a chunk is a LF
\* already, and the LF of the next chunk one more
Normalized(byte) == IF byte = CR THEN LF ELSE byte

\* the client reads the two chunks with what its buffer holds
ReadCut(s, bytes, n) ==
  LET after[i \in 1..Len(bytes)] ==
        LET before == IF i = 1 THEN s ELSE after[i - 1]
        IN  IF Dropped(bytes, n, i) THEN before ELSE TakeByte(before, Normalized(bytes[i]))
  IN  after[Len(bytes)]

\* the response ends: what is left is parsed if it is not blank
AtEnd(s) ==
  [buffer |-> <<>>,
   events |-> IF \E i \in 1..Len(s.buffer) : s.buffer[i] # LF
                THEN s.events \o Parse(s.buffer) ELSE s.events]

=============================================================================
