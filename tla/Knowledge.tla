------------------------------ MODULE Knowledge ------------------------------
(***************************************************************************)
(* What outlives a run: the filings archive that runs search, the reports  *)
(* they leave behind, and the semantic cache that answers a run with the   *)
(* report of an earlier one.                                               *)
(*                                                                         *)
(* Each of the three is kept in the process or in Postgres.  The graph is  *)
(* its thread's checkpoint, as in MemoryRuns, with two updates: the        *)
(* research, which searches the filings, and the report, before which the  *)
(* graph stops with HITL.  Failing nodes, cancellation and the events are  *)
(* the subject of MemoryRuns.                                              *)
(***************************************************************************)
EXTENDS Chunking, FiniteSets, FiniteSetsExt

CONSTANTS
  Runs,
  Tickers, Periods, AnyPeriod, \* the period of a plan that asks for none
  Queries, EmptyQuery,
  ZeroVectors, \* queries without a word, whose embedding is the zero vector
  Similarity,  \* cosine similarity of two queries, in hundredths
  Plan,        \* the ticker and the period that the planner reads in a query
  TopK,
  Stores,      \* where use_postgres_persistence() may say that data is kept
  Scenarios    \* what is uploaded and asked, and by which clients; with a document, how
               \* similar its chunks are to the researcher's question

CosineThreshold == 95

Uploads == {u \in [ticker : Tickers, period : Periods, text : Documents, near : Seq(Nat)] :
              Len(u.near) = Len(Chunks(u.text))}

ASSUME KnowledgeAssumption ==
  /\ AnyPeriod \notin Periods
  /\ EmptyQuery \in ZeroVectors /\ ZeroVectors \subseteq Queries
  /\ Similarity \in [Queries \X Queries -> 0..100]
  /\ Plan \in [Queries -> [ticker : Tickers, period : Periods \cup {AnyPeriod}]]
  /\ TopK \in Nat \ {0}
  /\ Stores \subseteq {"memory", "postgres"}
  /\ \A s \in Scenarios : /\ s.uploads \in Seq(Uploads) /\ s.asked \in [Runs -> Queries]
                          /\ s.clients \subseteq Runs /\ s.resumed \subseteq Runs
                          /\ s.hitl \in BOOLEAN

VARIABLES
  store,    \* "memory" or "postgres"
  scenario,
  \* the vector store, and the upload that is being added to it
  uploads, document, adding, chunks,
  \* runs: what they read, and their two executions at most
  status, phase, pos, from, checkpoint,
  evidence, looked, \* the excerpts a run found, and how many chunks there were
  hit, entries,     \* the cache entry that answered a run, and how many there were
  \* the tables of reports and of cached queries
  archive, found,   \* what the SELECT of an execution that is archiving has found
  cache,
  overlapped        \* history: runs two executions of which archived at once

filings == <<uploads, document, adding, chunks>>
tasks == <<status, phase, pos, from, checkpoint>>
reads == <<evidence, looked, hit, entries>>
reports == <<archive, found, overlapped>>
vars == <<store, scenario, filings, tasks, reads, reports, cache>>

Execs == {1, 2}
Statuses == {"absent", "running", "awaiting_approval", "completed"}
Phases == {"none", "graph", "archive", "writing", "cache", "done"}

\* node updates of the graph, and the one before the interrupt
Total == 2
Pre == 1

Init ==
  /\ store \in Stores /\ scenario \in Scenarios
  /\ uploads = scenario.uploads /\ document = <<>> /\ adding = <<>> /\ chunks = <<>>
  /\ status = [r \in Runs |-> "absent"]
  /\ phase = [r \in Runs |-> [k \in Execs |-> "none"]]
  /\ pos = [r \in Runs |-> [k \in Execs |-> 0]] /\ from = [r \in Runs |-> [k \in Execs |-> 0]]
  /\ checkpoint = [r \in Runs |-> 0]
  /\ evidence = [r \in Runs |-> {}] /\ looked = [r \in Runs |-> 0]
  /\ hit = [r \in Runs |-> 0] /\ entries = [r \in Runs |-> 0]
  /\ archive = <<>> /\ found = [r \in Runs |-> [k \in Execs |-> 0]]
  /\ cache = <<>> /\ overlapped = {}

-----------------------------------------------------------------------------
(* RAGRetrieverTool.ingest and add_documents *)

\* chunk_document; a chunk keeps the metadata of its document
Ingest ==
  /\ uploads # <<>> /\ adding = <<>>
  /\ uploads' = Tail(uploads)
  /\ document' = Head(uploads).text
  /\ adding' = [c \in 1..Len(Chunks(document')) |->
       [ticker |-> Head(uploads).ticker, period |-> Head(uploads).period,
        near |-> Head(uploads).near[c]]]
  /\ UNCHANGED <<store, scenario, chunks, tasks, reads, reports, cache>>

\* InMemoryVectorStore waits for the embedding of each chunk
AddOne ==
  /\ store = "memory" /\ adding # <<>>
  /\ chunks' = Append(chunks, Head(adding))
  /\ adding' = Tail(adding)
  /\ UNCHANGED <<store, scenario, uploads, document, tasks, reads, reports, cache>>

\* PgVectorStore commits all of them, or none
AddAll ==
  /\ store = "postgres" /\ adding # <<>>
  /\ chunks' \in {chunks, chunks \o adding}
  /\ adding' = <<>>
  /\ UNCHANGED <<store, scenario, uploads, document, tasks, reads, reports, cache>>

-----------------------------------------------------------------------------
(* similarity_search, and what rag_researcher_node keeps of it *)

InPeriod(c, period) == period = AnyPeriod \/ chunks[c].period = period

\* (mutation) ranked by similarity alone
AheadBySimilarity(c, d, period) ==
  \/ chunks[c].near > chunks[d].near
  \/ chunks[c].near = chunks[d].near /\ store = "memory" /\ c < d

\* chunks of the period go before others, then the more similar; a tie is broken by the
\* order of insertion in the memory, and anyhow in Postgres
Ahead(c, d, period) ==
  \/ InPeriod(c, period) /\ ~InPeriod(d, period)
  \/ /\ InPeriod(c, period) <=> InPeriod(d, period)
     /\ \/ chunks[c].near > chunks[d].near
        \/ chunks[c].near = chunks[d].near /\ store = "memory" /\ c < d

SimilaritySearch(plan) ==
  LET candidates == {c \in 1..Len(chunks) : chunks[c].ticker = plan.ticker}
      results == kSubset(Min({TopK, Cardinality(candidates)}), candidates)
  IN  {S \in results : \A c \in S, d \in candidates \ S : ~Ahead(d, c, plan.period)}

\* excerpts with a temporal warning are dropped
RagResearcher(r) ==
  LET plan == Plan[scenario.asked[r]]
  IN  /\ \E S \in SimilaritySearch(plan) :
           evidence' = [evidence EXCEPT ![r] = {c \in S : InPeriod(c, plan.period)}]
      /\ looked' = [looked EXCEPT ![r] = Len(chunks)]

-----------------------------------------------------------------------------
(* SemanticCacheStore *)

IsZero(q, e) == {q, cache[e].query} \cap ZeroVectors # {}
Score(q, e) == IF IsZero(q, e) THEN 0 ELSE Similarity[<<q, cache[e].query>>]

Best(q) == {e \in 1..Len(cache) : \A d \in 1..Len(cache) : Score(q, d) <= Score(q, e)}

\* (mutation) the threshold itself is enough
HitsInMemoryAtThreshold(q) ==
  {e \in Best(q) : Score(q, e) >= CosineThreshold /\ \A d \in Best(q) : e <= d}

\* the best score, the first of several, if it is above the threshold
HitsInMemory(q) ==
  {e \in Best(q) : Score(q, e) > CosineThreshold /\ \A d \in Best(q) : e <= d}

\* ORDER BY the cosine distance, LIMIT 1.  The distance from a zero vector is NaN, which
\* Postgres sorts last, and "similarity <= COSINE_THRESHOLD" is false of it
NearestRows(q) ==
  LET rows == 1..Len(cache)
      numbers == {e \in rows : ~IsZero(q, e)}
  IN  IF numbers = {} THEN rows
      ELSE {e \in numbers : \A d \in numbers : Score(q, d) <= Score(q, e)}

Missed(q, e) == ~IsZero(q, e) /\ Score(q, e) <= CosineThreshold

\* the entries that may answer a query; none is a miss
Lookup(q) ==
  IF store = "memory" THEN HitsInMemory(q) ELSE {e \in NearestRows(q) : ~Missed(q, e)}

\* nothing is near enough, or the database fails
LookupMisses(q) == store = "postgres" \/ HitsInMemory(q) = {}

-----------------------------------------------------------------------------
(* ResearchRunManager *)

SetStatus(r, s) == status' = [status EXCEPT ![r] = s]
Goto(r, k, p) == phase' = [phase EXCEPT ![r][k] = p]

\* start_research_run: the lookup, and its answer or an execution
Start(r) ==
  /\ r \in scenario.clients /\ status[r] = "absent"
  /\ LET q == scenario.asked[r]
     IN  \/ /\ \E e \in Lookup(q) : hit' = [hit EXCEPT ![r] = e]
            /\ SetStatus(r, "completed")
            /\ UNCHANGED phase
         \/ /\ LookupMisses(q)
            /\ SetStatus(r, "running")
            /\ Goto(r, 1, "graph")
            /\ UNCHANGED hit
  /\ entries' = [entries EXCEPT ![r] = Len(cache)]
  /\ UNCHANGED <<store, scenario, filings, pos, from, checkpoint, evidence, looked, reports, cache>>

\* resume_run at any status that is not terminal; it knows no query
Resume(r) ==
  /\ r \in scenario.resumed /\ status[r] \in {"running", "awaiting_approval"}
  /\ phase[r][2] = "none"
  /\ SetStatus(r, "running")
  /\ Goto(r, 2, "graph")
  /\ pos' = [pos EXCEPT ![r][2] = checkpoint[r]]
  /\ from' = [from EXCEPT ![r][2] = checkpoint[r]]
  /\ UNCHANGED <<store, scenario, filings, checkpoint, reads, reports, cache>>

\* (mutation) one update more than the graph has
HasUpdateOffByOne(r, k) ==
  pos[r][k] <= Total /\ ~(scenario.hitl /\ pos[r][k] = Pre /\ from[r][k] # Pre)

\* astream stops before the report, unless it was resumed there
HasUpdate(r, k) ==
  pos[r][k] < Total /\ ~(scenario.hitl /\ pos[r][k] = Pre /\ from[r][k] # Pre)

NodeUpdate(r, k) ==
  /\ phase[r][k] = "graph" /\ HasUpdate(r, k)
  /\ pos' = [pos EXCEPT ![r][k] = @ + 1]
  /\ checkpoint' = [checkpoint EXCEPT ![r] = pos[r][k] + 1]
  /\ \/ pos[r][k] = 0 /\ RagResearcher(r)
     \/ pos[r][k] # 0 /\ UNCHANGED <<evidence, looked>>
  /\ UNCHANGED <<store, scenario, filings, status, phase, from, hit, entries, reports, cache>>

AtInterrupt(r) == scenario.hitl /\ checkpoint[r] = Pre

GraphStops(r, k) ==
  /\ phase[r][k] = "graph" /\ ~HasUpdate(r, k)
  /\ \/ AtInterrupt(r) /\ SetStatus(r, "awaiting_approval") /\ Goto(r, k, "done")
     \/ ~AtInterrupt(r) /\ SetStatus(r, "completed")
        /\ Goto(r, k, IF checkpoint[r] = Total THEN "archive" ELSE "done")
  /\ UNCHANGED <<store, scenario, filings, pos, from, checkpoint, reads, reports, cache>>

Rows(r) == {i \in 1..Len(archive) : archive[i] = r}

\* (mutation) the row of an earlier execution is not looked for
ExistingNever(r) == {0}

\* session.scalar of the SELECT: any row of the run
Existing(r) == IF Rows(r) = {} THEN {0} ELSE Rows(r)

\* PostgresResearchMemoryStore.save_report begins
SelectReport(r, k) ==
  /\ store = "postgres" /\ phase[r][k] = "archive"
  /\ \E row \in Existing(r) : found' = [found EXCEPT ![r][k] = row]
  /\ overlapped' = IF \E j \in Execs : phase[r][j] = "writing"
                     THEN overlapped \cup {r} ELSE overlapped
  /\ Goto(r, k, "writing")
  /\ UNCHANGED <<store, scenario, filings, status, pos, from, checkpoint, reads, archive, cache>>

\* the row that was found is rewritten, or one is added; an error is swallowed
WriteReport(r, k) ==
  /\ phase[r][k] = "writing"
  /\ archive' \in {archive, IF found[r][k] = 0 THEN Append(archive, r) ELSE archive}
  /\ found' = [found EXCEPT ![r][k] = 0]
  /\ Goto(r, k, "cache")
  /\ UNCHANGED <<store, scenario, filings, status, pos, from, checkpoint, reads, overlapped, cache>>

\* InMemoryResearchMemoryStore.save_report
AppendReport(r, k) ==
  /\ store = "memory" /\ phase[r][k] = "archive"
  /\ archive' = Append(archive, r)
  /\ Goto(r, k, "cache")
  /\ UNCHANGED <<store, scenario, filings, status, pos, from, checkpoint, reads, found, overlapped, cache>>

\* _execute saves the report under the query it was given, or the cache fails
SaveCache(r, k) ==
  /\ phase[r][k] = "cache"
  /\ LET q == IF k = 1 THEN scenario.asked[r] ELSE EmptyQuery
     IN  cache' \in {cache, Append(cache, [query |-> q, run |-> r])}
  /\ Goto(r, k, "done")
  /\ UNCHANGED <<store, scenario, filings, status, pos, from, checkpoint, reads, reports>>

-----------------------------------------------------------------------------

Execute(r, k) ==
  \/ NodeUpdate(r, k)
  \/ GraphStops(r, k)
  \/ SelectReport(r, k)
  \/ WriteReport(r, k)
  \/ AppendReport(r, k)
  \/ SaveCache(r, k)

Next ==
  \/ Ingest \/ AddOne \/ AddAll
  \/ \E r \in Runs : Start(r) \/ Resume(r) \/ \E k \in Execs : Execute(r, k)

Spec == Init /\ [][Next]_vars

-----------------------------------------------------------------------------
(* Properties *)

Chunk == [ticker : Tickers, period : Periods, near : Nat]

\* Rows, tasks and answers hold values of their types; an index is one of a row that exists.
TypeOK ==
  /\ store \in Stores
  /\ adding \in Seq(Chunk) /\ chunks \in Seq(Chunk)
  /\ status \in [Runs -> Statuses] /\ phase \in [Runs -> [Execs -> Phases]]
  /\ pos \in [Runs -> [Execs -> 0..Total]] /\ from \in [Runs -> [Execs -> 0..Total]]
  /\ checkpoint \in [Runs -> 0..Total]
  /\ evidence \in [Runs -> SUBSET (1..Len(chunks))]
  /\ looked \in [Runs -> 0..Len(chunks)]
  /\ hit \in [Runs -> 0..Len(cache)] /\ entries \in [Runs -> 0..Len(cache)]
  /\ archive \in Seq(Runs) /\ found \in [Runs -> [Execs -> 0..Len(archive)]]
  /\ cache \in Seq([query : Queries, run : Runs]) /\ overlapped \subseteq Runs

\* A document that is ingested loses no line and keeps the order of the others, a table
\* that fits in a chunk stays whole, and only a single row makes a chunk of rows too large.
ChunksAreFaithful ==
  document # <<>> =>
    EveryLineKept(document) /\ TablesWhole(document) /\ RowsWithinSize(document)

\* What a run keeps of the filings are the TopK most similar excerpts of its company and
\* its period, of those that were there when it looked: excerpts of other periods, which
\* it drops, do not take their places, although the store returns TopK of all periods.
EvidenceIsNearest ==
  \A r \in Runs :
    LET plan == Plan[scenario.asked[r]]
        there == {c \in 1..looked[r] :
                   chunks[c].ticker = plan.ticker /\ InPeriod(c, plan.period)}
    IN  /\ evidence[r] \subseteq there
        /\ Cardinality(evidence[r]) = Min({TopK, Cardinality(there)})
        /\ \A c \in evidence[r], d \in there \ evidence[r] : chunks[d].near <= chunks[c].near

\* A cached answer is the nearest of the reports that were there, and nearer than the
\* threshold; only Postgres may answer with another, if no distance is a number.
HitIsNearest ==
  \A r \in Runs : hit[r] # 0 =>
    LET q == scenario.asked[r]
    IN  /\ hit[r] <= entries[r]
        /\ \A e \in 1..entries[r] : Score(q, e) <= Score(q, hit[r])
        /\ \/ Score(q, hit[r]) > CosineThreshold
           \/ store = "postgres" /\ \A e \in 1..entries[r] : IsZero(q, e)

\* The table of reports, whose run_id is not unique, has one row per run all the same,
\* unless two executions of the run archived at once.
OneRowPerRun ==
  store = "postgres" =>
    \A r \in Runs : Cardinality(Rows(r)) > 1 => r \in overlapped

-----------------------------------------------------------------------------
(* What does not hold *)

\* A query is never answered with the report of an unrelated one: "assert await
\* store.lookup("completely different commodity weather query") is None" of
\* test_semantic_cache.py.
HitIsSimilar ==
  \A r \in Runs : hit[r] # 0 => Score(scenario.asked[r], hit[r]) > CosineThreshold

=============================================================================
