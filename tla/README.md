# A verification development of the Multi-Agent Financial Researcher

The program answers a question about a listed company.  A FastAPI service starts
a *run*; a LangGraph graph plans it, four researchers gather evidence in
parallel, a validator audits it and may send the graph round again, an analyst
may have to approve or edit the evidence, and a synthesizer writes a report.
Clients follow the run over server-sent events.  This directory models the parts
of the program that decide *what happens, in which order, and what a failure or a
second actor does to it*: TLA+ modules, TLC instances of them, and TLAPS proofs.

All paths below are under `src/`.  `PROJECT.json` maps every definition to the
lines it stands for.

## 1. Inventory

| Component | Code | State | Operations | Talks to |
|---|---|---|---|---|
| Research graph | `app/graph/{workflow,state,routing}.py`, `app/graph/nodes/*` | `ResearchState` channels, LangGraph's next tasks | nine node functions, the conditional edge after the validator, the interrupt before the synthesizer, `aupdate_state` | provider clients, LLM, checkpointer |
| Run manager | `app/services/run_manager.py` | `_tasks`, `_cancel_events`, the store's run record | `start_research_run`, `_execute`, `resume_run`, `cancel_run`, `stream_run_events` | graph, store, cache, archive |
| Run store, in memory | `app/services/run_store.py:39-95` | `_runs`, one `asyncio.Queue` and one `asyncio.Event` per run | `create_run`, `get_run`, `update_run`, `next_sequence`, `publish_event`, `stream_events`, `request_cancel`, `is_cancelled` | run manager |
| Run store, Redis | `app/services/run_store.py:98-213` | a hash, a list, a channel and a cancel key per run | the same, a round trip or a few each | run manager, other workers |
| Provider resilience | `app/infrastructure/http/resilience.py` | semaphore per provider, the breaker's `_failures` and `_opened_at` | `resilient_request`, `allow`, `record_success`, `record_failure` | all provider clients |
| Batch manager, exporter | `app/services/{batch_service,exporter}.py` | semaphore, `active_runs`, files of one directory | `execute_batch`, `_run_ticker`, `_invoke_graph`, `export_to_disk` | graph, checkpointer |
| Semantic cache | `app/infrastructure/cache/semantic.py` | the list `_entries`, or the table `cached_queries` | `lookup` by nearest neighbour, `save` | run manager, embeddings |
| Report archive | `app/memory/long_term.py`, `app/persistence/models.py` | a list per ticker, or the table `research_reports` | `save_report`: append, or select and insert | run manager |
| Chunking, vector retrieval | `app/rag/*`, `app/tools/rag.py` | the list `_chunks`, or the table `document_chunks` | `chunk_document`, `ingest`, `add_documents`, `similarity_search` | `rag_researcher`, embeddings |
| Frontend client | `frontend/client.py`, `frontend/ui_*.py` | the reader's text buffer | `iter_run_events`, `parse_sse_frame`, HTTP requests | SSE endpoint |
| Store and checkpointer selection | `app/services/run_store.py:232-259`, `app/memory/short_term.py`, `app/persistence/database.py` | module globals | lazy creation, fallback to memory | everything |
| Provider clients | `app/tools/{sec,market_data,web_search}.py` | none | fetch and parse | resilience |
| LLM provider | `app/infrastructure/llm/provider.py` | none | structured completions | planner, validator, synthesizer |
| Event adapter | `app/services/event_adapter.py` | none | node update to event | run manager |
| Evaluation suite, API schemas, auth, telemetry | `app/evaluation/*`, `app/api/*` ... | see section 7 | | |

What is hard in it, and what correctness means for each part:

* **Research graph.**  The evidence channel accumulates over concurrent nodes and
  over passes; the verdict, `retry_needed` and the edge taken are computed in
  three places; derived metrics and the audit precede the analyst's edit.  It is
  correct when no evidence is lost or repeated, the loop ends for any limit, the
  verdict agrees with the edge, and the report shows what was approved.
* **Run manager.**  Requests are coroutines that check a status, wait, and act; the
  run's task may be paused, cancelled or fail anywhere; several tasks of one run
  can coexist.  Correct: no run reads `running` with nobody executing it, nothing
  is reported after a cancellation, a completed run has its report, each event
  reaches a client exactly once, every stream ends.
* **Redis store.**  Every command is a round trip between which other workers act; a
  worker may die.  Correct: sequence numbers are unique, a cancellation stops the
  task on another worker, streams neither repeat nor miss events, a command that
  fails fails its run and does not leave it running.
* **Knowledge that outlives a run.**  Chunks are added one by one while runs search
  them; a run is answered by what earlier runs left; two executions of a run archive
  it.  Correct: chunks hold the whole document and whole tables, a run keeps the
  nearest excerpts of its own period, a cached answer is near its query, a run has
  one row in the archive.
* **Frontend client.**  The network cuts frames anywhere.  Correct: it shows each event
  that was sent, once and in order.
* **Resilience.**  Permits must come back however an attempt ends; the breaker's two
  dictionaries must agree; a retried request counts once.
* **Batch.**  The cap, the counter and the summary must be true however jobs fail.

The full list of hazards, each at its line and with the properties aimed at it or
the reason there is none, is `hazards` in `PROJECT.json`.

## 2. Modules

| Module | Models | Checked by | Proved in |
|---|---|---|---|
| `ResearchGraph` | the compiled graph | `MCResearchGraph` | `ResearchGraphProofs` |
| `RunContract` | abstract: what a run promises its client | refined by `MemoryRuns` | `MemoryRunsProofs` |
| `MemoryRuns` | the manager composed with the in-memory store, the cache, the archive and SSE streams | `MCMemoryRuns` | `MemoryRunsProofs` |
| `RedisRuns` | the manager composed with the Redis store, over workers | `MCRedisRuns` | `RedisRunsProofs` |
| `Resilience` | semaphore, circuit breaker, retries | `MCResilience` | `ResilienceProofs` |
| `SseClient` | frames of an SSE response and the frontend's reader, as operators | `RunStream` | `RedisRunsProofs` |
| `RunStream` | `RedisRuns` composed with the client that reads a stream | `MCRunStream` | `RedisRunsProofs` |
| `Chunking` | `chunk_document`, as operators | `Knowledge` | `ChunkingProofs` |
| `Knowledge` | the filings archive, the report archive and the semantic cache, each in the process or in Postgres, and the runs that use them | `MCKnowledge` | `KnowledgeProofs` |
| `Batch` | one batch over the graph, exporter and summary | `MCBatch` | `BatchProofs` |
| `Recursion` | nothing of the program: lemmas about recursive functions | | itself |

### ResearchGraph

Variables are the channels of `ResearchState` under their own names, plus `next`
(LangGraph's runnable nodes), `returned` (writes of the fan-out that wait for the
superstep to end) and `outcome` of the current `astream`.  One action is one node
function: `Planner`, `Research(r)` for each of the four researchers, `Validator`,
`QuantAnalysis`, `Synthesizer`, `Formatter`; `FanIn` is the end of the fan-out's
superstep, when LangGraph applies the writes in the order of node names through
the `operator.add` reducer; `Resume` is `aupdate_state` with or without an edited
list; `NodeRaises` is any node raising.  `plan` is the `ResearchPlan` of the current pass:
the planner makes one anew in each, so that a second pass may ask for other metrics and
other periods, and what the nodes after it read is the latest.  The conditional edge is `Route`, the
audits `DeterministicIssues` and `TemporalIssues`, the margins `Calculated`.  A
researcher catches every failure of its source and then adds what the code adds,
so that "nothing" is among the answers of each (`Answers`).  The LLM's plan and
audit, SEC's facts and the news are sets the model picks from.  An evidence item
keeps the four fields that decisions read.  LangGraph itself is external.

### RunContract and MemoryRuns

`RunContract` has two variables, `status` and `log`, and says which status may
follow which and with which events; among others, that a run ends once and that a
node is reported only while it runs.  `MemoryRuns` implements it: `Contract ==
INSTANCE RunContract WITH Runs <- Runs, status <- status, log <- log`, the abstract
state being the status and the log that clients of the concrete one can see.  A
*step* is what one coroutine does between two awaits, which is what asyncio makes
atomic.  `Start`, `CacheMiss`, `CacheHit` are `start_research_run`;
`Begin`, `NodeUpdate`, `GraphStops`, `Pause`, `Complete`, `Archive`, `SaveCache`,
`Raises` and `Cancelled` are the pieces of `_execute`; `Resume`, `ResumeWithEdits`,
`EditsApplied` and `EditsRefused` those of `resume_run`; `Cancel` is `cancel_run`;
`Connect`, `Deliver`, `TimeOut` and `Disconnect` those of a stream.  A run has up
to `MaxExecs` executions, because `resume_run` accepts any status that is not
terminal.  The thread's checkpoint is a counter of completed nodes, `Pre` of which
precede the interrupt.

### RedisRuns

One run, any number of workers.  Each coroutine (three requests, two tasks) is a
*fiber* with a program counter, and a step is one Redis command: `Number` is
`HINCRBY`, `Push` is `RPUSH`, `Announce` is `PUBLISH`; `ResumeWrite`, `CancelWrite`,
`Pause`, `Complete`, `MarkCancelled` are the `HSET`s of the status; `IsCancelled` is
the `GET` before each node's publication.  `Crash(w)` kills every fiber of a
worker; `CommandFails(f)` makes the command a fiber stands at raise: a request then
answers 500 and is dead, a task goes to its `except` clause if it is under the `try`
and is dead if it is not.  A stream replays the list, subscribes, receives
and, when the channel is quiet, reads the status; `Drop` is its client or its worker
going away.

### SseClient and RunStream

A byte is a CR, a LF or a whole line, as nothing else decides what `iter_run_events`
does.  `EventFrame` is what sse-starlette writes, `ReadCut` its bytes arriving in two
chunks: `Normalized` and `Dropped` are the replacement of line ends, made on each chunk
alone, `TakeByte` the search for a blank line, `Parse` is `parse_sse_frame`, `AtEnd` the
end of the response.  `RunStream` adds the client to each connection of `RedisRuns`: what a step sends is
read at once, its frames cut in two at any byte, with or without a ping before them.

### Chunking

A text is a sequence of lines with a kind, a size and a number.  `Blocks` and
`Segments` are the two loops, `SplitTableOnRows` the third (`AllLines`, `AllBlocks`, `AllRows`):
recursive functions whose k-th
value is what `TakeLine`, `TakeBlock` or `TakeRow` makes of the value before it; `Chunks` is
the result.  The reference the result is held to says nothing of how it is made:
`EveryLineKept` (each chunk is an `Excerpt` of the document, the chunks come in its order and
every line that is not blank is in one), `TablesWhole`, `RowsWithinSize`.

### Knowledge

`Ingest` chunks an upload; `AddOne` and `AddAll` are `add_documents` of the two vector
stores; `SimilaritySearch` the search of both, `RagResearcher` what the node keeps of
it.  `Lookup` gives the cache entries that may answer a query: `HitsInMemory` for the
list, `NearestRows` and `Missed` for Postgres, where the distance from a zero vector is
NaN, which sorts last and compares false.  `Start`, `Resume`, `NodeUpdate` and
`GraphStops` are the manager, `SelectReport` and `WriteReport` the two steps of
`save_report` with Postgres, `SaveCache` the save under the query the execution was
given, which for a resumed one is empty.  Embeddings are abstracted to `Similarity` of
two queries and to how near a chunk is to the question.

### Resilience

`permits` is the provider's semaphore, `failures` and `opened_at` the breaker's
dictionaries, `now` the monotonic clock; each request has a phase and an attempt.
`Enter`, `Call`, `Succeeds`, `FailsForGood`, `FailsForNow`, `Retry` and `Cancelled`
are the ways through `resilient_request`.  `recorded` is a history of what the
breaker was told, and by whom.

### Batch

`phase` is where each job is, `permits` the semaphore, `in_flight` and `max_in_flight` the
counters, `thread` what the checkpointer keeps of a thread (its `final_report` and whether
it is interrupted), `files` the directory.  `Enter`, `PassEnds`, `PassStops`, `Resume`, `Export`, `NoArtifact` and
`Fails` are the ways through `_run_ticker` and `_invoke_graph`; `Summarise` is what follows
`gather`, and `BatchSummary` what it makes of the results.  A list of the summary is indexed
by the numbers of its jobs, as `zip` pairs results and tickers by position.

## 3. Runs, bounds, and what they show

| Run | Instance | Shows |
|---|---|---|
| `research_graph` | quarters of two years; in each pass a plan for the one, the other or neither; two SEC answers; at most one researcher of a fan-out returns nothing; limits 1 to 3; HITL on; an analyst who may strike everything or correct the figures | evidence of all passes is kept, once; verdict, flag and edge agree; the report shows the approved evidence; a valid report has every required metric; nothing any pass has gathered of a year that the last plan does not ask for is validated; the graph always comes to rest |
| `graph_margin` | the same | finding 1 |
| `graph_edited` | the same | finding 2 |
| `memory_runs` | clients resume at a pause; two streams; cache on; three nodes | the manager implements `RunContract`; a paused run has no live execution; a completed run has its report archived once; each event reaches one of the streams that compete for it, and in order; the end of a run is announced; streams end |
| `memory_runs_any_client` | clients resume at any status, with edits; three executions; four nodes, two of them before the interrupt; no stream | what survives executions that overlap: `running` has a task, only an execution that a resume launched at the interrupt passes it, runs settle |
| `redis_runs` | two workers; pause, resume, cancel; one worker crashes or one command fails | unique numbers; a run settles unless the fiber that held it is dead |
| `redis_sse` | two workers, one stream and the client that reads it, no HITL, a cancellation; one worker crashes or one command fails | cancellation stops the run within one node; nothing is sent twice; the client sees what was sent, however frames are cut; the stream of a run that is over ends, also when what was to publish the end has died |
| `redis_stream` | two workers, one stream | finding 3 |
| `knowledge` | both stores; every document of up to four lines of seven sorts; four uploads searched while they are added; three runs answered from the cache; two runs resumed at any time, with and without HITL | chunks are faithful; a run keeps the nearest excerpts of its period; a hit is the nearest entry; one archive row per run |
| `cache_hit` | Postgres and HITL, two runs | finding 4 |
| `resilience` | three requests to a provider with two permits, one to another | permits, an open circuit means repeated failures, one outcome per request, every request ends |
| `batch` | three jobs for two permits, HITL on and off; one list whose run ids collide as file names, one that repeats a ticker | cap, own report (of the ticker, and of the job where its file is its own), truth of the summary, termination |

Why the bounds suffice.

* *Graph.*  The fan-out, the join and the retry loop repeat after the second pass; three
  limits include first, middle and last pass.  Two years and plans for either or neither make
  what one pass fetched stale for the next, and current again.  Both required metrics are
  missing when SEC fails, and the two filings have and have not the arithmetic issue.
  `FewFail` bounds the failures: of the researchers of one fan-out at most one returns
  nothing, not always the same one in each pass.
* *Runs.*  Two streams are the fewest that compete for a queue, and the run with two has
  `EventsAccountedFor`.  Two executions are the fewest that disagree about a run, and the
  third lets one start after the two.  The run of any client has no stream, as none of
  its properties reads one; its `Pre` of 2 lets a resume arrive between the nodes before
  the interrupt.  Elsewhere a `Pre` of 1 and `Total` of 2 or 3 put a node before, at and
  after it.
* *Redis.*  Two workers are the fewest with something between them, and one fault is
  what each of its exceptions needs.  A client makes at most one request of each kind, a
  resume carries no edits, and resumes come at a pause: with resumes at any status the
  instance exceeds five million states.  Workers are alike and nothing happens before
  the start of the run, so `StartedOnFirst` leaves out the behaviours that start it on
  the other worker; no other symmetry is used.
* *Knowledge.*  A chunk holds three characters, so that lines and rows of one to four are
  below, at and above it; four lines make a table between texts, two tables, and a table
  that is split twice.  `TopK` is 2, where the code has 3, so that four uploads of two
  companies and two quarters fill it, tie in it and overfill it.  Cosines are below,
  at and above the threshold.  A run has at most two executions, the fewest that archive
  it at once.
* *Resilience and Batch.*  Two permits for three requests (or jobs) make one wait.

The clock of `Resilience` stops at `MaxTime`, past the reset interval of a circuit
opened early; `MaxExecs` and `MaxFaults` stop the clients and the faults, never the
program.

`CHECK_DEADLOCK FALSE` is in every configuration because the systems do stop: a run that is
over, a batch that has been summarised, requests that have all ended.  What must
*not* stop is a liveness property in each module that has one.

**Fairness.**  Weak fairness on what the event loop runs when it is ready and on
awaited calls, which return or raise: the HTTP calls are under `wait_for` or
client timeouts, Redis commands are answered or raise, which is a step like another.
`asyncio.Semaphore` hands a permit on to a waiter, so entering is fair.  Nothing is
assumed of clients or the analyst: no request, approval, connection, disconnection or
cancellation is fair.  A node is not assumed to succeed, nor a worker to stay alive.
`Knowledge` has safety properties only and no fairness.

### Findings

1. `ValidMarginAtMost100` (`graph_margin`).  `_latest_values` keeps the *last* value
   of a metric, and SEC facts come newest first, so a margin can divide figures of
   two quarters; the audit compares within a quarter.  A report declared valid can
   state a gross margin above 100%.
2. `MarginMatchesFigures` (`graph_edited`).  The margins are computed before the interrupt
   and an edit replaces the evidence after it.  The report then shows the analyst's figures
   and, beside the formula `(Gross Profit / Revenue) * 100`, the margin of the figures that
   they replaced: 150% for a revenue of 2 and a gross profit of 1 in TLC's trace.
3. `StreamShowsStartAndEnd` (`redis_stream`).  A stream ends on the terminal status,
   which precedes the terminal event, and misses what is published between its
   replay and its subscription.
4. `HitIsSimilar` (`cache_hit`).  A resumed run saves its report under the empty query,
   because `resume_run` takes the query from `get_run_status`, which returns none.  The
   empty query embeds to the zero vector; its cosine distance is NaN in Postgres, and
   `similarity <= COSINE_THRESHOLD` is false of NaN, so such a row is a hit for anything
   when no other row is nearer.  With HITL every report is saved that way, and the next
   query is answered with a report about another company.  `HitIsNearest` excepts exactly
   this case, so that it says nothing of the hazard; `HitIsSimilar` alone does.

Smaller observations, made while modelling and stated by the properties' guards:

* `resume_run` refuses only terminal statuses (`run_manager.py:129`).  Resuming a run that is
  still running gives it a second execution, which takes the first one's place in `_tasks`;
  `cancel_run` then cancels the second, and the first, which is forgotten and runs on, raises
  and turns the cancelled run into a failed one.  No doc says that a status is final, so this
  is no finding; it is why the refinement of `RunContract` is for clients that resume at
  pauses.
* Across workers the status is checked and written in separate round trips
  (`run_manager.py:153-161`), so that a cancelled run can be overwritten and read
  awaiting approval; `StreamsEnd` allows for the stream of such a run, which polls on.
* A cancellation that fails or dies between the flag and the status, before the task has
  begun, cancels the task without a trace and leaves the run `running`; so does the death
  of a worker that holds the run, which no other takes over, and a command that fails in a
  start or a resume after the status was written.  `DiedHolding` names these cases, which
  `RunsSettle` excepts; a death of anything else must leave a run that settles.  The streams
  of a run that reads running for good poll for good: `StreamsEnd` is about runs that are
  over.
* `ENABLE_SEMANTIC_CACHE=0`, as `.env.example:20` sets it, does not disable the cache when
  `DATABASE_URL` is set (`semantic.py:10-15`).
* Two executions of a run that archive at once leave two rows.  `OneRowPerRun` excepts them
  and covers those that archive one after the other.
* The batch cap is that of one batch, each `POST` making its own semaphore; a batch resumes
  interrupted graphs without an approval; with HITL a repeated ticker takes the thread's
  older report for its own.  Of repeated tickers `OwnReportExported` therefore says only that
  the file holds a report of the ticker, and that it is the job's own where no other job has
  the file name.
* Errors that are not retryable (a ticker no one lists) also open a circuit, and a late
  success of a request admitted earlier closes it.

## 4. Proofs

TLAPS proves the following for every value of the constants that satisfies the named
assumptions (`ConstantsAssumption` and its like in each module).  Each is the usual
argument: `Init => IInv`, `IInv /\ [Next]_vars => IInv'` with one step per action,
`IInv => Inv`, and a last temporal step.  Every invariant that a passing run checks is
such a theorem, and so is the refinement `ImplementsContract`.

**Recursion** has what the proofs about recursive functions rest on.  A theorem of the library
that takes a predicate as a parameter cannot be used here, but a predicate can be given as
the set of what satisfies it: `Induction` and `BoundedInduction` are induction in that form,
proved from the well-foundedness of `<`; `RecursionExists` says that a recursion has a
sequence of values, if its step is given as a set of triples, and `RecursionType` that each
value is of the type that the step keeps.  This is why `Chunking`, `SseClient`
and `RunStream` are written with recursive functions, and with functions over `1..n` only:
where `Len` occurs, the prover's SMT encoding takes a function over an interval for a
sequence, and one over `0..n` makes its hypotheses contradict each other, so that anything
follows.  No obligation here has such a function.

**ResearchGraphProofs** is a tower.  `TypeOK` comes first, resting on
`FilingEvidenceType` and `AnswersType` (what a researcher adds is a sequence of
evidence).  `ScheduleInv` says where the scheduler can be: writes wait only during
the fan-out, the other nodes run alone (`RunsAlone`), and the graph is interrupted
only before the synthesizer.  On it rest `LoopInv` for `PassesBounded` and
`AuditAgreesWithRoute`, which needs to know that the counter is below the limit
whenever the planner is about to run; `ValidatedInv` for
`ValidReportIsComplete`; and `ReportInv` for `ReportShowsApprovedEvidence`, which
carries what was true at the audit through the pause.  `NoEvidenceLost` rests on `GatherInv`: the items of
a researcher in the channel, in their order, followed by what it has returned and the reducer
has not applied yet, are all that it ever returned.  `ReducedHolds` is the reducer, which
appends four lists at once and must leave each one's items countable
(`HoldsOwn`, `HoldsOthers`).  On `GatherInv` rests `NothingStaleIsValidated`: the plan may be
another in each pass, but what was gathered for the earlier ones is still in the channel
when the last one is audited (`HeldItem`: an item that the channel holds of a researcher's
list is an item of the channel), and an analyst edits it only after the last audit
(`StaleInv`).  None of the properties is inductive
alone: a validator step says nothing of the next one without the place of the
scheduler and what the channels held when it was last there.

**ResilienceProofs**: `TypeOK`, for which one must know that a request backs off
only with attempts left (`BackoffInv`: this is what makes the `raise` after the loop
unreachable), `OpenIffThreshold`, and `PermitsConserved`, by cardinality of the set
of calling requests (`CallingCount`); `OneOutcomePerRequest`, by cardinality of the places
of a request's outcomes (`RecordedCount`).  `OpenMeansRepeatedFailures` rests on
`CountIsEarned`: the breaker's count is never above the number of failures that its provider
had in a row, as a success and an elapsed reset time set it to zero, and an outcome of
another provider changes neither (`RecordedRow`).

**MemoryRunsProofs** holds for clients that resume at any status, with edits or without.
`TypeOK` needs `LaunchInv`: there is room for the execution that a start or a resume in
progress will launch.  `RunningHasTask` rests on `TaskInv`: while a run reads `running` and
is not starting, the execution launched *last* is at work and is not being cancelled; the
older ones may be anything, as `_tasks` has forgotten them.  `SynthesisIsApproved` rests on `ApprovalInv`: the first execution
is the only one that no resume launched, it begins at the start of the thread and never gets
past the interrupt, and a thread behind the interrupt was moved there by an execution that
began at it or behind it, after a resume that the log shows (`ApprovalStays`).  `EventsAccountedFor` rests on
`QueueInv`, the queue holds in order the numbers above those that are gone, and `GoneInv`,
which divides those that are gone among the streams.

Its last part is about the clients of `RunContract`, which resume at pauses only and
without edits (`PausedClients`, the hypothesis of its theorems).  `LifeInv` says of each run
where it stands: what has been announced and archived, where its thread is when it
begins and when it is paused (`Beginning`, `Pausing`), and what its one live execution is
doing (`ExecutingAs`).  It gives `PausedRunIsQuiet` and `CompletedRunHasReport`, and makes
each step of the manager a step of the contract or a stutter: `ImplementsContract`.  For
other clients the refinement is false (first observation of section 3).

**BatchProofs**: `TypeOK` and `CapHolds` are one induction, as `in_flight` is within the cap
because it is the number of jobs inside (`Admitted`) and the permits are the rest.
`OwnReportExported` rests on `OwnInv`: threads keep, and jobs hold from the moment they enter
the graph, reports of their own ticker; a file holds a report of a ticker that its name is made
of, whoever wrote it last; and a name nobody shares is never written by another
(`OneReportTaken` is the step that takes a report, `NothingExported` the steps that do not).  `SummaryIsTrue` rests on
`SummaryInv`: a file holds a report of its name, a job that succeeded has its file, a job that
is done has a result, and nothing of this changes after the summary, since by then every job
is done.

**RedisRunsProofs**: `TypeOK`; `NumbersAreUnique` from `NumbersInv`, which bounds
every number, in the list and held by a fiber that has yet to push, by the counter;
`NothingIsSentTwice`, as a stream sends only what it has not seen;
`CancelStopsWithinOneNode` from `LateInv`: a task that has read the cancel key unset can
report that one node, and reads the key again before another.  All of it holds through
any number of crashes and failing commands.

`ClientSeesWhatWasSent` is proved of `RunStream`.  Between two frames a client holds
nothing, or one LF: the second of the two that the cut of the last CR LF leaves (`ClientInv`).
`ReadSteps` turns the reader into a sequence of states; up to an event's data line the bytes
hold no data, so whatever falls off the buffer is parsed to nothing (`QuietBytes`);
`LastLine` goes through the cuts of the four bytes that follow, after any of which exactly
one frame with that data has been parsed (`EventIsRead`).  A ping has no data, and is read to
nothing (`PingIsRead`).  `OneSends` says that a step of `RedisRuns` sends on one connection and
takes back nothing, and `StreamsAreRuns` carries its invariants over to the composition.

**ChunkingProofs** proves `EveryLineKept`, `TablesWhole` and `RowsWithinSize` of every document
of any length, for every `MaxChars`.  The invariant of the loop over the lines is `Taken`: the
blocks so far and the buffer are the lines so far, cut so that a block with a line of a
table is a table, whole (`Cut`).  That of the loop over the blocks is `Kept`: the segments so far
and the current one hold what the lines seen say, in their order, with no rows beyond the size
(`Assembled`), and the tables that fit whole (`Whole`).  Blank text that waits while a large
table is cut comes later than its place; `PutBlank` is why this does no harm, and
`LeaveOut` why blank segments may be dropped.  `BlocksCut`, `SplitAssembled`, `SegmentsKept` and
`ChunksAmong` are the four loops.

**KnowledgeProofs**: `TypeInv` adds to `TypeOK` that a document is one that numbers its lines.
With `ChunksFaithful` it gives `ChunksAreFaithful`.  `EvidenceIsNearest` rests on
`SearchFindsNearest`: of the first `TopK` in the order of the search, which puts the chunks of
the period before the others, those of the period are its nearest, or all of them; and on
`GrowingKeepsNearest`, as chunks are only added at the end.  `HitIsNearest` rests on
`CacheInv`, which says of every run that what
it was answered with was the nearest of the entries it saw, whatever has been saved
since: `LookupIsNearest` is the lookup itself, in both stores, and `OthersKeepAnswers`
that every other step at most adds a row at the end.  `OneRowPerRun` rests on `RowsInv`: a
run that has not overlapped has one row at most and one execution that writes at most,
and if that one has found no row, there is none.

`PassesBounded` and `OpenIffThreshold` are proved and in no run: once proved for all
constants, a small instance adds nothing to them.

## 5. What is only model-checked

Liveness (`ComesToRest`, `RunsSettle`, `StreamsEnd`, `EndIsAnnounced`, `RequestsEnd`,
`BatchEnds`): the prover has no rule for `ENABLED` here.  The four violations are TLC's as
well.  TLC also checks what is proved: the instances are where a wrong formula shows first,
and where each property is shown to be one that a bug in the code would break.

## 6. Abstractions to keep in mind

* Wording, prompts, traces, warnings, durations and metrics of telemetry are left out.
* Numbers are integers; a margin is in hundredths of a percent and rounded to the nearest, a
  tie to the even one (`Rounded`), which is what `round(..., 2)` does to exact quotients; the
  error of floating point is left out.
* Of the years that an item's text and period name, `ResearchGraph` keeps that of the period.
* `MemoryRuns` makes the check of the cancel flag and the publication after it one step, as
  they are in the event loop; nothing is claimed of that step alone.
* All node events are `NODE`.  The update that announces an interrupt, which the event
  adapter publishes as a synthesis event, is not modelled.
* In `MemoryRuns` the cache hits or misses and the archive stores or not; `Knowledge` says
  which, and leaves out events, failing nodes and cancellation.
* `Chunks` keeps the blank rows at the edge of a table's chunk, which the code strips; no
  property looks at them.
* A write that fails leaves the output directory of `Batch` as it was; that it may leave half
  a file is not modelled.
* In `Knowledge` a graph has two updates, the research and the report.  How near a chunk is
  to the question is given with the upload, how near two queries are by a table.
* In `RedisRuns` a command that raises has had no effect: one that took effect and whose
  answer was lost is not modelled.  Redis loses and expires no key.
* In `RunStream` a step's frames reach the client in that step, cut in two at any byte; a
  network that holds them longer changes nothing the reader can tell.

## 7. Not modelled, and why

* *Store selection, checkpointer selection, database engine.*  Choices made once per
  process.  What a wrong choice costs (a worker that fell back to memory does not know
  the others' runs) relates two stores that share no state, so that no property of the
  model could say more than that they do not.
* *Key expiry.*  The keys of a run live a day; no interleaving leads there.
* *LLM provider.*  Prompts, schemas and the offline stand-in; the plan and the audit it
  returns are nondeterministic in `ResearchGraph`.
* *Provider clients.*  HTTP and parsing; the order of SEC's facts, which matters, is in
  `Filings`.
* *Event adapter.*  A table from node names to event types.
* *Frontend.*  Requests and rendering; its frame reader is `SseClient`.
* *Evaluation suite, API schemas, authentication, health, telemetry.*  Offline scoring and
  stateless checks: no control that several actors or several steps could disturb.

## 8. Plan

1. `RedisRuns` with edits and with resumes at any status, in an instance of one task
   per worker; the interrupt's own update; a command whose answer is lost.
2. Expiring keys: the hash that `HINCRBY` recreates for a run that is a day old.
3. Proofs: what `RunContract` promises (a run ends once, nothing follows its end, a node is
   reported only while it runs) as theorems of the contract, which `MemoryRuns` inherits
   through the refinement; and an abstract specification that `RedisRuns` refines.

## 9. Running

    tlc -workers 2 -config MCResearchGraph.cfg MCResearchGraph
    tlapm ResearchGraphProofs.tla

and likewise for the other instances and proof modules.
