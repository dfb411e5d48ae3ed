------------------------------ MODULE Chunking ------------------------------
(***************************************************************************)
(* chunk_document: a document is cut into chunks for retrieval, at blank   *)
(* lines of its text and at the edges of its tables, and inside a table    *)
(* only if the table is too large for a chunk.                             *)
(*                                                                         *)
(* A text is a sequence of lines.  All that decides where it is cut is     *)
(* whether a line is a table's, whether it is blank, and its size; its     *)
(* number tells it from the document's other lines.                        *)
(***************************************************************************)
EXTENDS Naturals, Sequences

CONSTANT MaxChars

ASSUME MaxCharsAssumption == MaxChars \in Nat \ {0}

\* a row of tabs is a table's line and blank at once
Kinds == {"text", "blank", "row", "tabs"}

Line(n, kind, size) == [number |-> n, kind |-> kind, size |-> size]

Lines == [number : Nat, kind : Kinds, size : Nat]

\* a document numbers its lines
Documents == {text \in Seq(Lines) : \A n \in 1..Len(text) : text[n].number = n}

IsTableLine(line) == line.kind \in {"row", "tabs"}
IsBlank(line) == line.kind \in {"blank", "tabs"}

Size(text) ==
  LET upTo[i \in 1..Len(text)] == (IF i = 1 THEN 0 ELSE upTo[i - 1]) + text[i].size
  IN  IF text = <<>> THEN 0 ELSE upTo[Len(text)]

\* text.strip() is not empty
Says(text) == \E i \in 1..Len(text) : ~IsBlank(text[i])

\* not "if current and len(current) + len(row) > max_chars"
Fits(text, more) == text = <<>> \/ Size(text) + Size(more) <= MaxChars

-----------------------------------------------------------------------------
(* Blocks: the tables, and the text between them up to a blank line that   *)
(* ends MaxChars of it                                                     *)

Flushed(s) ==
  [blocks |-> Append(s.blocks, s.buffer), buffer |-> <<>>, in_table |-> s.in_table]

\* one turn of the loop over the lines
TakeLine(s, line) ==
  LET edge  == IsTableLine(line) # s.in_table
      here  == IF edge /\ s.buffer # <<>> THEN Flushed(s) ELSE s
      taken == [blocks |-> here.blocks, buffer |-> Append(here.buffer, line),
                in_table |-> IsTableLine(line)]
  IN  IF ~edge /\ ~IsTableLine(line) /\ IsBlank(line) /\ Size(taken.buffer) >= MaxChars
        THEN Flushed(taken)
        ELSE taken

NoLines == [blocks |-> <<>>, buffer |-> <<>>, in_table |-> FALSE]

AllLines(document) ==
  LET after[n \in 1..Len(document)] ==
        TakeLine(IF n = 1 THEN NoLines ELSE after[n - 1], document[n])
  IN  IF document = <<>> THEN NoLines ELSE after[Len(document)]

WithBuffer(s) == IF s.buffer = <<>> THEN s.blocks ELSE Append(s.blocks, s.buffer)

Blocks(document) == WithBuffer(AllLines(document))

-----------------------------------------------------------------------------
(* Segments: blocks are put together while they fit; a table that is too   *)
(* large is cut between rows                                               *)

TakeRow(s, row) ==
  IF Fits(s.current, <<row>>)
    THEN [s EXCEPT !.current = Append(@, row)]
    ELSE [s EXCEPT !.current = <<row>>, !.pieces = Append(@, s.current)]

NoRows == [pieces |-> <<>>, current |-> <<>>]

AllRows(block) ==
  LET after[i \in 1..Len(block)] == TakeRow(IF i = 1 THEN NoRows ELSE after[i - 1], block[i])
  IN  IF block = <<>> THEN NoRows ELSE after[Len(block)]

\* "if current.strip()": what is left is one more, unless it is blank
WithCurrent(texts, current) == IF Says(current) THEN Append(texts, current) ELSE texts

LastPiece(s) == WithCurrent(s.pieces, s.current)

SplitTableOnRows(block) == LastPiece(AllRows(block))

TableBlock(block) == \E i \in 1..Len(block) : IsTableLine(block[i])

\* (mutation) the text before a large table is put aside and forgotten
TakeBlockForgetting(s, block) ==
  IF TableBlock(block) /\ Size(block) > MaxChars
    THEN [segments |-> s.segments \o SplitTableOnRows(block), current |-> <<>>]
    ELSE IF Fits(s.current, block)
      THEN [s EXCEPT !.current = @ \o block]
      ELSE [segments |-> Append(s.segments, s.current), current |-> block]

\* one turn of the loop over the blocks; blank text before a large table stays, and goes
\* before the text that follows the table
TakeBlock(s, block) ==
  IF TableBlock(block) /\ Size(block) > MaxChars
    THEN IF Says(s.current)
      THEN [segments |-> Append(s.segments, s.current) \o SplitTableOnRows(block), current |-> <<>>]
      ELSE [s EXCEPT !.segments = @ \o SplitTableOnRows(block)]
    ELSE IF Fits(s.current, block)
      THEN [s EXCEPT !.current = @ \o block]
      ELSE [segments |-> Append(s.segments, s.current), current |-> block]

NoBlocks == [segments |-> <<>>, current |-> <<>>]

AllBlocks(blocks) ==
  LET after[b \in 1..Len(blocks)] ==
        TakeBlock(IF b = 1 THEN NoBlocks ELSE after[b - 1], blocks[b])
  IN  IF blocks = <<>> THEN NoBlocks ELSE after[Len(blocks)]

LastSegment(s) == WithCurrent(s.segments, s.current)

Segments(document) == LastSegment(AllBlocks(Blocks(document)))

\* a chunk's content is a segment, blank ones are left out; that its content is stripped, of
\* the blank rows at a table's edge too, is left out of the model
NotBlank(segments) ==
  LET after[j \in 1..Len(segments)] ==
        WithCurrent(IF j = 1 THEN <<>> ELSE after[j - 1], segments[j])
  IN  IF segments = <<>> THEN <<>> ELSE after[Len(segments)]

Chunks(document) == NotBlank(Segments(document))

-----------------------------------------------------------------------------
(* What a reader of the chunks may rely on *)

\* what the one says comes before what the other says in the document
Before(text, later) ==
  \A i \in 1..Len(text), k \in 1..Len(later) :
    ~IsBlank(text[i]) /\ ~IsBlank(later[k]) => text[i].number < later[k].number

\* lines of the document, in its order
Excerpt(text, document) ==
  /\ \A i \in 1..Len(text) :
       text[i].number \in 1..Len(document) /\ text[i] = document[text[i].number]
  /\ \A i, k \in 1..Len(text) : i < k => text[i].number < text[k].number

Holds(text, n) == \E i \in 1..Len(text) : text[i].number = n

\* the chunks one after the other are the document, blank lines aside
EveryLineKept(document) ==
  LET chunks == Chunks(document)
  IN  /\ \A c \in 1..Len(chunks) : Excerpt(chunks[c], document)
      /\ \A c, d \in 1..Len(chunks) : c < d => Before(chunks[c], chunks[d])
      /\ \A n \in 1..Len(document) :
           ~IsBlank(document[n]) => \E c \in 1..Len(chunks) : Holds(chunks[c], n)

\* the lines from the first to the last are a table of the document, whole
IsTable(document, first, last) ==
  /\ \A n \in first..last : IsTableLine(document[n])
  /\ \A n \in {first - 1, last + 1} \cap (1..Len(document)) : ~IsTableLine(document[n])

\* a table that fits in a chunk is in one, whole
TablesWhole(document) ==
  \A first, last \in 1..Len(document) :
    /\ first <= last /\ IsTable(document, first, last)
    /\ Size(SubSeq(document, first, last)) <= MaxChars
    /\ Says(SubSeq(document, first, last))
    => \E c \in 1..Len(Chunks(document)) :
         \A n \in first..last : Holds(Chunks(document)[c], n)

\* a chunk with rows of a table is no larger than it should be, unless it is a single row
RowsWithinSize(document) ==
  \A c \in 1..Len(Chunks(document)) :
    LET chunk == Chunks(document)[c]
    IN  TableBlock(chunk) /\ Len(chunk) > 1 => Size(chunk) <= MaxChars

=============================================================================
