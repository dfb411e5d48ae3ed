----------------------------- MODULE MCKnowledge -----------------------------
(***************************************************************************)
(* Instances of the filings archive, the report archive and the cache: a   *)
(* set of scenarios, each with uploads for the filings and runs that ask.  *)
(***************************************************************************)
EXTENDS Knowledge, TLC

\* nvda2 is nearer to nvda than the threshold, nvda3 at it, amd far below it
MCQueries == {"nvda", "nvda2", "nvda3", "amd", "blank", ""}
MCZeroVectors == {"blank", ""}

Pairs == ("nvda" :> 1 @@ "nvda2" :> 2 @@ "nvda3" :> 3 @@ "amd" :> 4 @@ "blank" :> 5 @@ "" :> 6)
Cosines == << <<100, 97, 95, 60, 0, 0>>, <<97, 100, 96, 60, 0, 0>>, <<95, 96, 100, 60, 0, 0>>,
              <<60, 60, 60, 100, 0, 0>>, <<0, 0, 0, 0, 0, 0>>, <<0, 0, 0, 0, 0, 0>> >>
MCSimilarity == [p \in MCQueries \X MCQueries |-> Cosines[Pairs[p[1]]][Pairs[p[2]]]]

MCPlan == [q \in MCQueries |->
  [ticker |-> IF q = "amd" THEN "AMD" ELSE "NVDA",
   period |-> IF q = "nvda3" THEN "any" ELSE "Q3"]]

-----------------------------------------------------------------------------

Text(lines) == [n \in 1..Len(lines) |-> Line(n, lines[n][1], lines[n][2])]

\* text and rows below, at and above MaxChars, and the two blank lines
LineSorts == {<<"text", 1>>, <<"text", 3>>, <<"blank", 1>>, <<"row", 1>>, <<"row", 2>>,
              <<"row", 4>>, <<"tabs", 1>>}
MCDocuments == {Text(lines) : lines \in UNION {[1..n -> LineSorts] : n \in 1..4}}

Asked(a, b, c) == <<a, b, c>>

Upload(ticker, period, text, near) ==
  [ticker |-> ticker, period |-> period, text |-> text, near |-> near]

TwoChunks == Text(<< <<"text", 3>>, <<"row", 2>> >>)
OneChunk == Text(<< <<"text", 3>> >>)

\* any document, and nobody asks
Uploaded ==
  {[uploads |-> <<Upload("NVDA", "Q3", d, [c \in 1..Len(Chunks(d)) |-> 1])>>, asked |-> Asked("nvda", "nvda", "nvda"),
    clients |-> {}, resumed |-> {}, hitl |-> FALSE] : d \in MCDocuments}

\* filings of two companies and two quarters, and a run that asks while they are added
Searched ==
  {[uploads |-> <<Upload("NVDA", "Q3", TwoChunks, <<n[1], n[2]>>),
                  Upload("NVDA", "Q2", TwoChunks, <<n[3], 2>>),
                  Upload("AMD", "Q3", OneChunk, <<2>>),
                  Upload("NVDA", "Q3", OneChunk, <<n[4]>>)>>,
    asked |-> Asked(q, q, q), clients |-> {1}, resumed |-> {}, hitl |-> FALSE] :
   q \in {"nvda", "nvda3", "amd"}, n \in [1..4 -> 1..2]}

\* three runs, none of which is resumed
Cached ==
  {[uploads |-> <<>>, asked |-> Asked(a, b, c), clients |-> Runs, resumed |-> {}, hitl |-> FALSE] :
   a \in {"nvda", "blank"}, b \in {"nvda2", "amd"}, c \in {"nvda2", "nvda3", "blank"}}

\* two runs, which clients may resume at any time
Approved ==
  {[uploads |-> <<>>, asked |-> Asked("nvda", q, q), clients |-> {1, 2}, resumed |-> {1, 2},
    hitl |-> h] : q \in {"nvda2", "amd", "blank"}, h \in BOOLEAN}

Everything == Uploaded \cup Searched \cup Cached \cup Approved

\* docker-compose.yml: Postgres, HITL and the semantic cache; one client after the other
Composed ==
  {[uploads |-> <<>>, asked |-> Asked("nvda", "amd", "amd"), clients |-> {1, 2},
    resumed |-> {1, 2}, hitl |-> TRUE]}

=============================================================================
