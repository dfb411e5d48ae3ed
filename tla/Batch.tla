------------------------------- MODULE Batch -------------------------------
(***************************************************************************)
(* BatchResearchManager (app/services/batch_service.py) with its exporter: *)
(* one task per ticker of a batch, at most Concurrency of them inside the  *)
(* semaphore, each one pass of the graph and one Markdown file.            *)
(*                                                                         *)
(* The compiled graph and its checkpointer are external.  A thread of the  *)
(* batch keeps the final_report channel of its last complete pass, and     *)
(* whether its latest pass stands before the synthesizer; two jobs of the  *)
(* same ticker run on the same thread.                                     *)
(***************************************************************************)
EXTENDS Integers, Sequences, FiniteSets

CONSTANTS
  Tickers,
  Lists,        \* ticker lists a batch is posted with, stripped and in upper case
  Token,        \* _safe_token of a ticker's run id, which may map two tickers to one
  Labels,       \* the company and period a plan may name, which the file name shows
  Concurrency,  \* max(1, concurrency)
  None,         \* nothing yet
  Error         \* an exception in the place of a result

\* the names of report files
Files == [label : Labels, token : {Token[t] : t \in Tickers}]

ASSUME ConstantsAssumption ==
  /\ Lists \subseteq Seq(Tickers)
  /\ DOMAIN Token = Tickers
  /\ Concurrency \in Nat \ {0}
  /\ None # Error /\ None \notin Files /\ Error \notin Files

VARIABLES
  tickers,      \* the list of this batch
  hitl,         \* ENABLE_HITL = "1" when the graph was compiled
  permits,      \* Semaphore._value
  in_flight, max_in_flight,
  phase,        \* what each job, numbered as in the list, waits for
  thread,       \* the graph's threads, by ticker
  report,       \* the final_report that a job's call of the graph holds, and then exports
  files,        \* the output directory
  result,       \* what the task of a job returned
  summary

counters == <<permits, in_flight, max_in_flight>>
vars == <<tickers, hitl, counters, phase, thread, report, files, result, summary>>

Jobs == DOMAIN tickers

Phases == {"queued", "graph", "snapshot", "resumed", "export", "done"}

\* the phases inside the semaphore
Inside == Phases \ {"queued", "done"}

Init ==
  /\ tickers \in Lists
  /\ hitl \in BOOLEAN
  /\ permits = Concurrency /\ in_flight = 0 /\ max_in_flight = 0
  /\ phase = [i \in Jobs |-> "queued"]
  /\ thread = [t \in Tickers |-> [paused |-> FALSE, final_report |-> None]]
  /\ report = [i \in Jobs |-> None]
  /\ files = <<>>
  /\ result = [i \in Jobs |-> None]
  /\ summary = None

-----------------------------------------------------------------------------
(* _run_ticker *)

Goto(i, p) == phase' = [phase EXCEPT ![i] = p]

\* (mutation) the thread id lacks the ticker
ThreadOfBatch(i) == tickers[1]

\* thread_id, within the batch
Thread(i) == tickers[i]

\* (mutation) the semaphore is not awaited
EnterUnasked(i) ==
  /\ phase[i] = "queued"
  /\ permits' = permits
  /\ in_flight' = in_flight + 1
  /\ max_in_flight' = IF in_flight' > max_in_flight THEN in_flight' ELSE max_in_flight
  /\ Goto(i, "graph")
  /\ report' = [report EXCEPT ![i] = thread[Thread(i)].final_report]
  /\ UNCHANGED <<tickers, hitl, thread, files, result, summary>>

\* async with self.semaphore, and the first ainvoke begins: it loads the channels of the
\* thread, and its inputs leave the final_report of an earlier pass, if any, in its place
Enter(i) ==
  /\ phase[i] = "queued"
  /\ permits > 0 /\ permits' = permits - 1
  /\ in_flight' = in_flight + 1
  /\ max_in_flight' = IF in_flight' > max_in_flight THEN in_flight' ELSE max_in_flight
  /\ Goto(i, "graph")
  /\ report' = [report EXCEPT ![i] = thread[Thread(i)].final_report]
  /\ UNCHANGED <<tickers, hitl, thread, files, result, summary>>

\* (mutation) in_flight is lowered on success only
LeaveOnSuccess(i, value) ==
  /\ in_flight' = IF value = Error THEN in_flight ELSE in_flight - 1
  /\ permits' = permits + 1
  /\ result' = [result EXCEPT ![i] = value]
  /\ Goto(i, "done")
  /\ UNCHANGED max_in_flight

\* (mutation) a task that raises keeps its permit
LeaveKeepingPermit(i, value) ==
  /\ in_flight' = in_flight - 1
  /\ permits' = IF value = Error THEN permits ELSE permits + 1
  /\ result' = [result EXCEPT ![i] = value]
  /\ Goto(i, "done")
  /\ UNCHANGED max_in_flight

\* the finally clause and the end of the async with block, however the task ends
Leave(i, value) ==
  /\ in_flight' = in_flight - 1
  /\ permits' = permits + 1
  /\ result' = [result EXCEPT ![i] = value]
  /\ Goto(i, "done")
  /\ UNCHANGED max_in_flight

\* the graph, the checkpointer or the disk raises
Fails(i) ==
  /\ phase[i] \in Inside
  /\ Leave(i, Error)
  /\ UNCHANGED <<tickers, hitl, thread, report, files, summary>>

-----------------------------------------------------------------------------
(* _invoke_graph *)

\* a pass reaches the formatter: the first one without HITL, or the one that was resumed
PassEnds(i) ==
  /\ phase[i] = "resumed" \/ (phase[i] = "graph" /\ ~hitl)
  /\ \E label \in Labels :
       LET made == [job |-> i, run_id |-> Thread(i), label |-> label]
       IN  /\ thread' = [thread EXCEPT ![Thread(i)] = [paused |-> FALSE, final_report |-> made]]
           /\ report' = [report EXCEPT ![i] = made]
  /\ Goto(i, "export")
  /\ UNCHANGED <<tickers, hitl, counters, files, result, summary>>

\* a first pass stops before the synthesizer: ainvoke returns what it holds, a report only
\* if an earlier pass of the thread had left one when the call began
PassStops(i) ==
  /\ phase[i] = "graph" /\ hitl
  /\ thread' = [thread EXCEPT ![Thread(i)].paused = TRUE]
  /\ Goto(i, IF report[i] = None THEN "snapshot" ELSE "export")
  /\ UNCHANGED <<tickers, hitl, counters, report, files, result, summary>>

\* aget_state: a thread with a next node is resumed at once, nobody is asked to approve
Resume(i) ==
  /\ phase[i] = "snapshot" /\ thread[Thread(i)].paused
  /\ Goto(i, "resumed")
  /\ UNCHANGED <<tickers, hitl, counters, thread, report, files, result, summary>>

\* no report, and nothing left to run
NoArtifact(i) ==
  /\ phase[i] = "snapshot" /\ ~thread[Thread(i)].paused
  /\ Leave(i, Error)
  /\ UNCHANGED <<tickers, hitl, thread, report, files, summary>>

-----------------------------------------------------------------------------
(* ReportExporter.export_to_disk and execute_batch *)

FileName(made) == [label |-> made.label, token |-> Token[made.run_id]]

\* (mutation) a failing write is not noticed
ExportUnwritten(i) ==
  /\ phase[i] = "export"
  /\ \/ files' = [f \in DOMAIN files \cup {FileName(report[i])} |->
                    IF f = FileName(report[i]) THEN report[i] ELSE files[f]]
     \/ UNCHANGED files
  /\ Leave(i, FileName(report[i]))
  /\ UNCHANGED <<tickers, hitl, thread, report, summary>>

\* a file of the same name is overwritten
Export(i) ==
  /\ phase[i] = "export"
  /\ files' = [f \in DOMAIN files \cup {FileName(report[i])} |->
                 IF f = FileName(report[i]) THEN report[i] ELSE files[f]]
  /\ Leave(i, FileName(report[i]))
  /\ UNCHANGED <<tickers, hitl, thread, report, summary>>

\* BatchSummary: gather returns the results in the order of the list, whatever the order of
\* the ends, so an entry of the two lists is found by the number of its job
BatchSummary ==
  LET written == {i \in Jobs : result[i] # Error}
      failed  == {i \in Jobs : result[i] = Error}
  IN  [total |-> Len(tickers), succeeded |-> Cardinality(written), failed |-> Cardinality(failed),
       output_files |-> [i \in written |-> result[i]],
       errors |-> [i \in failed |-> tickers[i]]]

Summarise ==
  /\ summary = None
  /\ \A i \in Jobs : phase[i] = "done"
  /\ summary' = BatchSummary
  /\ UNCHANGED <<tickers, hitl, counters, phase, thread, report, files, result>>

Invoke(i) ==
  \/ PassEnds(i)
  \/ PassStops(i)
  \/ Resume(i)
  \/ NoArtifact(i)
  \/ Export(i)

Next ==
  \/ \E i \in Jobs : Enter(i) \/ Invoke(i) \/ Fails(i)
  \/ Summarise

\* graph calls return or raise, and a free permit goes to a waiting task
Fairness ==
  /\ WF_vars(\E i \in Jobs : Enter(i))
  /\ \A i \in UNION {DOMAIN list : list \in Lists} : WF_vars(i \in Jobs /\ Invoke(i))
  /\ WF_vars(Summarise)

Spec == Init /\ [][Next]_vars /\ Fairness

-----------------------------------------------------------------------------
(* Properties *)

Reports == [job : Jobs, run_id : Tickers, label : Labels]

\* Counters, reports and files hold values of their types; in_flight, which the tests read
\* through max_in_flight, never passes the cap.
TypeOK ==
  /\ tickers \in Lists /\ hitl \in BOOLEAN
  /\ permits \in 0..Concurrency
  /\ in_flight \in 0..Concurrency /\ max_in_flight \in 0..Concurrency
  /\ phase \in [Jobs -> Phases]
  /\ thread \in [Tickers -> [paused : BOOLEAN, final_report : Reports \cup {None}]]
  /\ report \in [Jobs -> Reports \cup {None}]
  /\ DOMAIN files \subseteq Files /\ \A f \in DOMAIN files : files[f] \in Reports
  /\ result \in [Jobs -> Files \cup {None, Error}]

\* The "hard concurrency cap": the permits taken, the counter and the jobs that are inside
\* agree, whichever way jobs end, so that there are never more than Concurrency inside.
CapHolds ==
  /\ permits + in_flight = Concurrency
  /\ in_flight = Cardinality({i \in Jobs : phase[i] \in Inside})

\* No job for another ticker of the batch has files of the same name as job i, and no other
\* job at all.
OwnName(i) == \A j \in Jobs : Token[tickers[j]] = Token[tickers[i]] => tickers[j] = tickers[i]
Alone(i) == \A j \in Jobs : j # i => Token[tickers[j]] # Token[tickers[i]]

\* A job that succeeds has exported a report of its own ticker, although jobs of one ticker
\* share a thread and the files of all jobs a directory, as long as no other ticker's run id
\* yields the same file name; and it is the report of its own pass, run to the formatter, as
\* long as the list names its ticker once.
OwnReportExported ==
  \A i \in Jobs : result[i] \notin {None, Error} =>
    /\ OwnName(i) => files[result[i]].run_id = tickers[i]
    /\ Alone(i) => files[result[i]].job = i

\* The summary can be trusted: what it lists as written is on disk with a report of that
\* name, the tickers it lists as failed are the others, and the numbers add up.
SummaryIsTrue ==
  summary # None =>
    /\ \A k \in DOMAIN summary.output_files :
         /\ summary.output_files[k] \in DOMAIN files
         /\ FileName(files[summary.output_files[k]]) = summary.output_files[k]
    /\ summary.succeeded = Cardinality({i \in Jobs : result[i] \in DOMAIN files})
    /\ summary.succeeded + summary.failed = summary.total
    /\ \A t \in Tickers :
         (\E k \in DOMAIN summary.errors : summary.errors[k] = t)
           <=> \E i \in Jobs : tickers[i] = t /\ result[i] = Error

\* One ticker that fails does not hold up the others: every batch is summarised.
BatchEnds == <>(summary # None)

=============================================================================
