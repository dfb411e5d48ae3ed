---------------------------- MODULE BatchProofs ----------------------------
(***************************************************************************)
(* Theorems of Batch for any lists of tickers, file tokens, labels and     *)
(* concurrency.                                                            *)
(***************************************************************************)
EXTENDS Batch, FiniteSetTheorems, TLAPS

USE DEF counters

\* the jobs inside the semaphore
Admitted == {i \in Jobs : phase[i] \in Inside}

\* a job that is about to export has a report
ExportInv == \A i \in Jobs : phase[i] = "export" => report[i] \in Reports

TypeInv == TypeOK /\ CapHolds /\ ExportInv

\* A batch is a finite list of known tickers.
LEMMA JobsAreFinite ==
  ASSUME tickers \in Lists
  PROVE  /\ Jobs = 1..Len(tickers) /\ Len(tickers) \in Nat /\ IsFiniteSet(Jobs)
         /\ \A i \in Jobs : tickers[i] \in Tickers
<1>1. tickers \in Seq(Tickers)
  BY ConstantsAssumption
<1>2. Jobs = 1..Len(tickers) /\ Len(tickers) \in Nat /\ \A i \in Jobs : tickers[i] \in Tickers
  BY <1>1 DEF Jobs
<1>3. IsFiniteSet(1..Len(tickers))
  BY <1>2, FS_Interval
<1> QED
  BY <1>2, <1>3

\* A job that leaves gives back its permit and its place.
LEMMA LeaveKeepsCap ==
  ASSUME TypeInv, NEW i \in Jobs, phase[i] \in Inside, NEW value, Leave(i, value),
         UNCHANGED tickers
  PROVE  /\ CapHolds' /\ permits' \in 0..Concurrency /\ in_flight' \in 0..Concurrency
         /\ max_in_flight' \in 0..Concurrency
         /\ phase' \in [Jobs -> Phases] /\ phase' = [phase EXCEPT ![i] = "done"]
<1>1. /\ IsFiniteSet(Admitted) /\ Cardinality(Admitted) \in Nat /\ i \in Admitted
      /\ in_flight = Cardinality(Admitted) /\ permits + in_flight = Concurrency
      /\ permits \in Nat /\ in_flight \in Nat /\ max_in_flight \in 0..Concurrency
      /\ phase \in [Jobs -> Phases] /\ Concurrency \in Nat
  <2>1. IsFiniteSet(Admitted)
    BY JobsAreFinite, FS_Subset DEF TypeInv, TypeOK, Admitted
  <2> QED
    BY <2>1, FS_CardinalityType, ConstantsAssumption DEF TypeInv, TypeOK, CapHolds, Admitted
<1>2. /\ phase' = [phase EXCEPT ![i] = "done"] /\ permits' = permits + 1
      /\ in_flight' = in_flight - 1 /\ UNCHANGED max_in_flight /\ Jobs' = Jobs
  BY DEF Leave, Goto, Jobs
<1>3. Admitted' = Admitted \ {i} /\ phase' \in [Jobs -> Phases]
  BY <1>1, <1>2 DEF Admitted, Inside, Phases
<1>4. Cardinality(Admitted') = Cardinality(Admitted) - 1 /\ Cardinality(Admitted') \in Nat
  BY <1>1, <1>3, FS_RemoveElement, FS_CardinalityType
<1>5. CapHolds'
  BY <1>1, <1>2, <1>4 DEF CapHolds, Admitted
<1> QED
  BY <1>1, <1>2, <1>3, <1>4, <1>5

\* A job that enters takes a permit that is there.
LEMMA EnterKeepsCap ==
  ASSUME TypeInv, NEW i \in Jobs, Enter(i)
  PROVE  /\ CapHolds' /\ permits' \in 0..Concurrency /\ in_flight' \in 0..Concurrency
         /\ max_in_flight' \in 0..Concurrency
         /\ phase' \in [Jobs -> Phases] /\ phase' = [phase EXCEPT ![i] = "graph"]
<1>1. /\ IsFiniteSet(Admitted) /\ Cardinality(Admitted) \in Nat
      /\ in_flight = Cardinality(Admitted) /\ permits + in_flight = Concurrency
      /\ permits \in Nat /\ in_flight \in Nat /\ max_in_flight \in 0..Concurrency
      /\ phase \in [Jobs -> Phases] /\ Concurrency \in Nat
  <2>1. IsFiniteSet(Admitted)
    BY JobsAreFinite, FS_Subset DEF TypeInv, TypeOK, Admitted
  <2> QED
    BY <2>1, FS_CardinalityType, ConstantsAssumption DEF TypeInv, TypeOK, CapHolds, Admitted
<1>2. /\ phase' = [phase EXCEPT ![i] = "graph"] /\ permits > 0 /\ permits' = permits - 1
      /\ in_flight' = in_flight + 1 /\ Jobs' = Jobs /\ phase[i] = "queued"
      /\ max_in_flight' = IF in_flight' > max_in_flight THEN in_flight' ELSE max_in_flight
  BY DEF Enter, Goto, Jobs
<1>3. /\ Admitted' = Admitted \cup {i} /\ i \notin Admitted
      /\ phase' \in [Jobs -> Phases]
  BY <1>1, <1>2 DEF Admitted, Inside, Phases
<1>4. Cardinality(Admitted') = Cardinality(Admitted) + 1
  BY <1>1, <1>3, FS_AddElement
<1>5. CapHolds'
  BY <1>1, <1>2, <1>4 DEF CapHolds, Admitted
<1> QED
  BY <1>1, <1>2, <1>3, <1>4, <1>5

\* The steps of a job inside that neither enters nor leaves keep the cap.
LEMMA StayingKeepsCap ==
  ASSUME TypeInv, NEW i \in Jobs, phase[i] \in Inside, NEW p \in Inside, Goto(i, p),
         UNCHANGED <<tickers, counters>>
  PROVE  /\ CapHolds' /\ permits' \in 0..Concurrency /\ in_flight' \in 0..Concurrency
         /\ max_in_flight' \in 0..Concurrency
         /\ phase' \in [Jobs -> Phases] /\ phase' = [phase EXCEPT ![i] = p]
<1>1. phase' = [phase EXCEPT ![i] = p] /\ Jobs' = Jobs /\ phase \in [Jobs -> Phases]
  BY DEF Goto, Jobs, TypeInv, TypeOK
<1>2. Admitted' = Admitted /\ phase' \in [Jobs -> Phases]
  BY <1>1 DEF Admitted, Inside
<1> QED
  BY <1>1, <1>2 DEF CapHolds, Admitted, TypeInv, TypeOK

-----------------------------------------------------------------------------
(* Types *)

\* what a step has to establish once the cap and the phases are known to be kept
Values ==
  /\ thread \in [Tickers -> [paused : BOOLEAN, final_report : Reports \cup {None}]]
  /\ report \in [Jobs -> Reports \cup {None}]
  /\ DOMAIN files \subseteq Files /\ \A f \in DOMAIN files : files[f] \in Reports
  /\ result \in [Jobs -> Files \cup {None, Error}]
  /\ ExportInv

\* The steps of a job keep the cap and the types of its values.
LEMMA JobKeepsTypes ==
  ASSUME TypeInv, NEW i \in Jobs, Enter(i) \/ Invoke(i) \/ Fails(i)
  PROVE  TypeInv'
<1>1. UNCHANGED <<tickers, hitl>> /\ Jobs' = Jobs /\ Reports' = Reports /\ tickers[i] \in Tickers
  <2>1. UNCHANGED <<tickers, hitl>>
    BY DEF Enter, Invoke, Fails, PassEnds, PassStops, Resume, NoArtifact, Export
  <2> QED
    BY <2>1, JobsAreFinite DEF Jobs, Reports, TypeInv, TypeOK
<1>2. /\ thread \in [Tickers -> [paused : BOOLEAN, final_report : Reports \cup {None}]]
      /\ report \in [Jobs -> Reports \cup {None}]
      /\ DOMAIN files \subseteq Files /\ \A f \in DOMAIN files : files[f] \in Reports
      /\ result \in [Jobs -> Files \cup {None, Error}] /\ phase \in [Jobs -> Phases]
      /\ \A j \in Jobs : phase[j] = "export" => report[j] \in Reports
  BY DEF TypeInv, TypeOK, ExportInv
<1>3. SUFFICES /\ CapHolds' /\ permits' \in 0..Concurrency /\ in_flight' \in 0..Concurrency
               /\ max_in_flight' \in 0..Concurrency /\ phase' \in [Jobs -> Phases]
               /\ Values'
  BY <1>1 DEF Values, TypeInv, TypeOK
<1>4. CASE Enter(i)
  <2>1. report' \in [Jobs -> Reports \cup {None}]
    BY <1>1, <1>2, <1>4 DEF Enter, Thread
  <2>2. \A j \in Jobs : phase'[j] = "export" => j # i /\ phase[j] = "export"
    BY <1>2, <1>4, EnterKeepsCap
  <2>3. ExportInv'
    BY <1>1, <1>2, <1>4, <2>2 DEF ExportInv, Enter
  <2>4. Values'
    BY <1>1, <1>2, <1>4, <2>1, <2>3 DEF Values, Enter
  <2> QED
    BY <1>4, <2>4, EnterKeepsCap
<1>5. CASE Fails(i) \/ NoArtifact(i)
  <2>1. /\ phase[i] \in Inside /\ Leave(i, Error) /\ UNCHANGED <<tickers, thread, report, files>>
    BY <1>5 DEF Fails, NoArtifact, Inside, Phases
  <2>2. result' \in [Jobs -> Files \cup {None, Error}]
    BY <1>2, <2>1 DEF Leave
  <2>3. Values'
    BY <1>1, <1>2, <2>1, <2>2, LeaveKeepsCap DEF Values, ExportInv
  <2> QED
    BY <2>1, <2>3, LeaveKeepsCap
<1>6. CASE PassEnds(i)
  <2>1. phase[i] \in Inside /\ Goto(i, "export") /\ UNCHANGED <<tickers, counters, files, result>>
    BY <1>6 DEF PassEnds, Inside, Phases
  <2>2. PICK label \in Labels :
          LET made == [job |-> i, run_id |-> Thread(i), label |-> label]
          IN  /\ thread' = [thread EXCEPT ![Thread(i)] = [paused |-> FALSE, final_report |-> made]]
              /\ report' = [report EXCEPT ![i] = made]
    BY <1>6 DEF PassEnds
  <2>3. [job |-> i, run_id |-> Thread(i), label |-> label] \in Reports
    BY <1>1 DEF Thread, Reports
  <2>4. thread' \in [Tickers -> [paused : BOOLEAN, final_report : Reports \cup {None}]]
    BY <1>2, <2>2, <2>3 DEF Thread
  <2>5. report' \in [Jobs -> Reports \cup {None}] /\ report'[i] \in Reports
    BY <1>2, <2>2, <2>3
  <2>6. "export" \in Inside
    BY DEF Inside, Phases
  <2>7. ExportInv'
    BY <1>1, <1>2, <2>1, <2>2, <2>5, <2>6, StayingKeepsCap DEF ExportInv
  <2>8. Values'
    BY <1>1, <1>2, <2>1, <2>4, <2>5, <2>7 DEF Values
  <2> QED
    BY <2>1, <2>6, <2>8, StayingKeepsCap
<1>7. CASE PassStops(i)
  <2>1. /\ phase[i] \in Inside /\ UNCHANGED <<tickers, counters, report, files, result>>
        /\ thread' = [thread EXCEPT ![Thread(i)].paused = TRUE]
        /\ Goto(i, IF report[i] = None THEN "snapshot" ELSE "export")
    BY <1>7 DEF PassStops, Inside, Phases
  <2>2. Thread(i) \in Tickers
    BY <1>1 DEF Thread
  <2>3. thread' \in [Tickers -> [paused : BOOLEAN, final_report : Reports \cup {None}]]
    BY <1>2, <2>1, <2>2
  <2>4. PICK p \in {"snapshot", "export"} :
          Goto(i, p) /\ (p = "export" => report'[i] \in Reports)
    BY <1>2, <2>1
  <2>5. p \in Inside
    BY DEF Inside, Phases
  <2>6. ExportInv'
    BY <1>1, <1>2, <2>1, <2>4, <2>5, StayingKeepsCap DEF ExportInv
  <2>7. Values'
    BY <1>1, <1>2, <2>1, <2>3, <2>6 DEF Values
  <2> QED
    BY <2>1, <2>4, <2>5, <2>7, StayingKeepsCap
<1>8. CASE Resume(i)
  <2>1. /\ phase[i] \in Inside /\ "resumed" \in Inside /\ Goto(i, "resumed")
        /\ UNCHANGED <<tickers, counters, thread, report, files, result>>
    BY <1>8 DEF Resume, Inside, Phases
  <2>2. Values'
    BY <1>1, <1>2, <2>1, StayingKeepsCap DEF Values, ExportInv
  <2> QED
    BY <2>1, <2>2, StayingKeepsCap
<1>9. CASE Export(i)
  <2> DEFINE name == FileName(report[i])
  <2>1. /\ phase[i] \in Inside /\ Leave(i, name) /\ UNCHANGED <<tickers, thread, report>>
        /\ files' = [f \in DOMAIN files \cup {name} |-> IF f = name THEN report[i] ELSE files[f]]
        /\ report[i] \in Reports
    BY <1>2, <1>9 DEF Export, Inside, Phases
  <2>2. name \in Files
    BY <2>1 DEF Reports, Files, FileName
  <2>3. DOMAIN files' \subseteq Files /\ \A f \in DOMAIN files' : files'[f] \in Reports
    BY <1>2, <2>1, <2>2
  <2>4. result' \in [Jobs -> Files \cup {None, Error}]
    BY <1>2, <2>1, <2>2 DEF Leave
  <2>5. Values'
    BY <1>1, <1>2, <2>1, <2>3, <2>4, LeaveKeepsCap DEF Values, ExportInv
  <2> QED
    BY <2>1, <2>5, LeaveKeepsCap
<1> QED
  BY <1>4, <1>5, <1>6, <1>7, <1>8, <1>9 DEF Invoke

\* What the cap and the types together need to be inductive.
LEMMA TypesKept == Spec => []TypeInv
<1>1. Init => TypeInv
  <2> SUFFICES ASSUME Init PROVE TypeInv
    OBVIOUS
  <2>1. Admitted = {} /\ Cardinality({}) = 0 /\ Concurrency \in Nat
    BY FS_EmptySet, ConstantsAssumption DEF Init, Admitted, Inside
  <2>2. CapHolds
    <3>1. permits + in_flight = Concurrency /\ in_flight = Cardinality(Admitted)
      BY <2>1 DEF Init
    <3> QED
      BY <3>1 DEF CapHolds, Admitted
  <2>3. TypeOK
    BY <2>1 DEF Init, TypeOK, Phases
  <2>4. ExportInv
    BY DEF Init, ExportInv
  <2> QED
    BY <2>2, <2>3, <2>4 DEF TypeInv
<1>2. TypeInv /\ [Next]_vars => TypeInv'
  <2> SUFFICES ASSUME TypeInv, [Next]_vars PROVE TypeInv'
    OBVIOUS
  <2>1. ASSUME NEW i \in Jobs, Enter(i) \/ Invoke(i) \/ Fails(i) PROVE TypeInv'
    BY <2>1, JobKeepsTypes
  <2>2. CASE Summarise \/ UNCHANGED vars
    <3>1. UNCHANGED <<tickers, hitl, counters, phase, thread, report, files, result>>
      BY <2>2 DEF Summarise, vars
    <3> QED
      BY <3>1 DEF TypeInv, TypeOK, CapHolds, ExportInv, Jobs, Reports
  <2> QED
    BY <2>1, <2>2 DEF Next
<1> QED
  BY <1>1, <1>2, PTL DEF Spec

\* Counters, reports and files hold values of their types, and in_flight and
\* max_in_flight never pass the cap (_run_ticker).
THEOREM TypeCorrect == Spec => []TypeOK
BY TypesKept, PTL DEF TypeInv

\* The permits taken, in_flight and the jobs inside the semaphore agree, however jobs end
\* (_run_ticker, its finally clause).
THEOREM CapIsHard == Spec => []CapHolds
BY TypesKept, PTL DEF TypeInv

-----------------------------------------------------------------------------
(* Whose report is exported *)

\* a report made by job i for its ticker
Own(i, made) == made.job = i /\ made.run_id = tickers[i]

\* job i holds a report, its own or one that its thread had
Holds(i) == report[i] # None \/ phase[i] = "export"

\* threads keep, and jobs hold, reports of their ticker, a file holds a report of a ticker
\* that its name is made of, and a job that succeeded has its file; a job whose file name is
\* its own leaves its own report on its thread and on disk
OwnInv ==
  /\ \A t \in Tickers : thread[t].final_report # None => thread[t].final_report.run_id = t
  /\ \A i \in Jobs : Holds(i) => report[i].run_id = tickers[i]
  /\ \A f \in DOMAIN files :
       \E j \in Jobs : files[f].run_id = tickers[j] /\ f.token = Token[tickers[j]]
  /\ \A i \in Jobs : result[i] \notin {None, Error} =>
       result[i] \in DOMAIN files /\ result[i].token = Token[tickers[i]]
  /\ \A i \in Jobs : Alone(i) =>
       /\ thread[tickers[i]].final_report # None => Own(i, thread[tickers[i]].final_report)
       /\ Holds(i) => Own(i, report[i])
       /\ result[i] \notin {None, Error} => Own(i, files[result[i]])

\* A job that fails, or only goes on, leaves what is exported as it is.
LEMMA NothingExported ==
  ASSUME TypeOK, OwnInv, NEW i \in Jobs, UNCHANGED <<tickers, report, files>>,
         \A t \in Tickers : thread'[t].final_report = thread[t].final_report,
         \A j \in Jobs : phase'[j] = "export" => Holds(j),
         UNCHANGED result \/ result' = [result EXCEPT ![i] = Error]
  PROVE  OwnInv'
<1>1. Jobs' = Jobs /\ \A j \in Jobs : tickers[j] \in Tickers /\ Alone(j)' = Alone(j)
  BY JobsAreFinite DEF Jobs, Alone, TypeOK
<1>2. \A j \in Jobs : result'[j] = result[j] \/ result'[j] = Error
  BY DEF TypeOK
<1>3. \A j \in Jobs : Holds(j)' => Holds(j)
  BY <1>1 DEF Holds
<1> QED
  BY <1>1, <1>2, <1>3 DEF OwnInv, Own

\* A job that enters, or reaches the formatter, holds a report of its ticker, and leaves the
\* files as they are.
LEMMA OneReportTaken ==
  ASSUME TypeOK, OwnInv, NEW i \in Jobs, UNCHANGED <<tickers, files, result>>,
         report' = [report EXCEPT ![i] = report'[i]],
         \A j \in Jobs \ {i} : phase'[j] = "export" => Holds(j),
         Holds(i)' => report'[i].run_id = tickers[i],
         Alone(i) /\ Holds(i)' => Own(i, report'[i]),
         \A t \in Tickers : \/ thread'[t].final_report = thread[t].final_report
                            \/ t = tickers[i] /\ Own(i, thread'[t].final_report)
  PROVE  OwnInv'
<1>1. Jobs' = Jobs /\ \A j \in Jobs : tickers[j] \in Tickers /\ Alone(j)' = Alone(j)
  BY JobsAreFinite DEF Jobs, Alone, TypeOK
<1>2. \A j \in Jobs \ {i} : report'[j] = report[j] /\ (Holds(j)' => Holds(j))
  <2>1. report \in [Jobs -> Reports \cup {None}]
    BY DEF TypeOK
  <2>2. \A j \in Jobs \ {i} : report'[j] = report[j]
    BY <2>1
  <2> QED
    BY <1>1, <2>2 DEF Holds
<1>3. \A j \in Jobs \ {i} : Alone(j) => tickers[j] # tickers[i]
  BY DEF Alone
<1>4. \A t \in Tickers : thread'[t].final_report # None => thread'[t].final_report.run_id = t
  BY DEF OwnInv, Own
<1>5. \A j \in Jobs : Holds(j)' => report'[j].run_id = tickers[j]
  BY <1>2 DEF OwnInv
<1>6. \A j \in Jobs : Alone(j) =>
        /\ thread'[tickers[j]].final_report # None => Own(j, thread'[tickers[j]].final_report)
        /\ Holds(j)' => Own(j, report'[j])
  BY <1>1, <1>2, <1>3 DEF OwnInv
<1> QED
  BY <1>1, <1>4, <1>5, <1>6 DEF OwnInv, Own

\* A job that succeeds has exported a report of its own ticker, unless another ticker of the
\* batch has files of the same name, and the report of its own pass, unless another job has
\* (_invoke_graph, export_to_disk).
THEOREM OwnIsExported == Spec => []OwnReportExported
<1>1. Init => OwnInv
  <2> SUFFICES ASSUME Init PROVE OwnInv
    OBVIOUS
  <2>1. \A i \in Jobs : /\ tickers[i] \in Tickers /\ result[i] = None
                        /\ phase[i] = "queued" /\ report[i] = None
    BY JobsAreFinite DEF Init
  <2>2. files = <<>> /\ \A t \in Tickers : thread[t].final_report = None
    BY DEF Init
  <2> QED
    BY <2>1, <2>2 DEF OwnInv, Holds
<1>2. TypeInv /\ OwnInv /\ [Next]_vars => OwnInv'
  <2> SUFFICES ASSUME TypeInv, OwnInv, [Next]_vars PROVE OwnInv'
    OBVIOUS
  <2>1. /\ thread \in [Tickers -> [paused : BOOLEAN, final_report : Reports \cup {None}]]
        /\ report \in [Jobs -> Reports \cup {None}] /\ result \in [Jobs -> Files \cup {None, Error}]
        /\ phase \in [Jobs -> Phases] /\ TypeOK /\ \A j \in Jobs : tickers[j] \in Tickers
    BY JobsAreFinite DEF TypeInv, TypeOK
  <2>2. ASSUME NEW i \in Jobs, Fails(i) \/ NoArtifact(i) \/ Resume(i) PROVE OwnInv'
    <3>1. PICK p \in {"resumed", "done"} : Goto(i, p)
      BY <2>2 DEF Fails, NoArtifact, Resume, Leave
    <3>2. \A j \in Jobs : phase'[j] = "export" => Holds(j)
      BY <2>1, <3>1 DEF Goto, Holds
    <3> QED
      BY <2>1, <2>2, <3>2, NothingExported DEF Fails, NoArtifact, Resume, Leave
  <2>3. ASSUME NEW i \in Jobs, PassStops(i) PROVE OwnInv'
    <3>1. /\ thread' = [thread EXCEPT ![tickers[i]].paused = TRUE]
          /\ UNCHANGED <<tickers, report, files, result>>
          /\ Goto(i, IF report[i] = None THEN "snapshot" ELSE "export")
      BY <2>3 DEF PassStops, Thread
    <3>2. \A t \in Tickers : thread'[t].final_report = thread[t].final_report
      BY <2>1, <3>1
    <3>3. \A j \in Jobs : phase'[j] = "export" => Holds(j)
      BY <2>1, <3>1 DEF Goto, Holds
    <3> QED
      BY <2>1, <3>1, <3>2, <3>3, NothingExported
  <2>4. ASSUME NEW i \in Jobs, Enter(i) PROVE OwnInv'
    <3> DEFINE left == thread[tickers[i]].final_report
    <3>1. /\ UNCHANGED <<tickers, thread, files, result>> /\ Goto(i, "graph")
          /\ report' = [report EXCEPT ![i] = left]
      BY <2>4 DEF Enter, Thread
    <3>2. /\ report'[i] = left /\ report' = [report EXCEPT ![i] = report'[i]]
          /\ \A t \in Tickers : thread'[t].final_report = thread[t].final_report
      BY <2>1, <3>1
    <3>3. /\ left # None => left.run_id = tickers[i]
          /\ Alone(i) /\ left # None => Own(i, left)
      BY <2>1 DEF OwnInv
    <3>4. /\ \A j \in Jobs \ {i} : phase'[j] = "export" => Holds(j)
          /\ Holds(i)' => left # None
      BY <2>1, <3>1, <3>2 DEF Goto, Holds
    <3> HIDE DEF left
    <3> QED
      BY <2>1, <3>1, <3>2, <3>3, <3>4, OneReportTaken
  <2>5. ASSUME NEW i \in Jobs, PassEnds(i) PROVE OwnInv'
    <3>1. PICK label \in Labels :
            LET made == [job |-> i, run_id |-> Thread(i), label |-> label]
            IN  /\ thread' = [thread EXCEPT ![Thread(i)] = [paused |-> FALSE, final_report |-> made]]
                /\ report' = [report EXCEPT ![i] = made]
      BY <2>5 DEF PassEnds
    <3> DEFINE made == [job |-> i, run_id |-> tickers[i], label |-> label]
    <3>2. /\ thread'[tickers[i]].final_report = made
          /\ \A t \in Tickers \ {tickers[i]} : thread'[t] = thread[t]
          /\ report'[i] = made /\ report' = [report EXCEPT ![i] = report'[i]]
          /\ made.run_id = tickers[i] /\ Own(i, made)
      BY <2>1, <3>1 DEF Thread, Own
    <3>3. UNCHANGED <<tickers, files, result>> /\ Goto(i, "export")
      BY <2>5 DEF PassEnds
    <3>4. \A j \in Jobs \ {i} : phase'[j] = "export" => Holds(j)
      BY <2>1, <3>3 DEF Goto, Holds
    <3>5. \A t \in Tickers : \/ thread'[t].final_report = thread[t].final_report
                             \/ t = tickers[i] /\ Own(i, thread'[t].final_report)
      BY <3>2
    <3> HIDE DEF made
    <3> QED
      BY <2>1, <3>2, <3>3, <3>4, <3>5, OneReportTaken
  <2>6. ASSUME NEW i \in Jobs, Export(i) PROVE OwnInv'
    <3> DEFINE name == FileName(report[i])
    <3>1. /\ UNCHANGED <<tickers, thread, report>> /\ result' = [result EXCEPT ![i] = name]
          /\ files' = [f \in DOMAIN files \cup {name} |-> IF f = name THEN report[i] ELSE files[f]]
          /\ phase' = [phase EXCEPT ![i] = "done"] /\ phase[i] = "export"
      BY <2>6 DEF Export, Leave, Goto
    <3>2. Jobs' = Jobs /\ \A j \in Jobs : Alone(j)' = Alone(j)
      BY <3>1 DEF Jobs, Alone
    <3>3. /\ report[i].run_id = tickers[i] /\ (Alone(i) => Own(i, report[i]))
          /\ name.token = Token[tickers[i]]
      BY <2>1, <3>1 DEF OwnInv, Holds, FileName
    <3>4. /\ name \in DOMAIN files' /\ files'[name] = report[i] /\ result'[i] = name
          /\ DOMAIN files' = DOMAIN files \cup {name}
          /\ \A f \in DOMAIN files \ {name} : files'[f] = files[f]
          /\ \A j \in Jobs \ {i} : result'[j] = result[j]
      BY <2>1, <3>1
    <3>5. \A j \in Jobs : Holds(j)' => Holds(j)
      BY <2>1, <3>1, <3>2 DEF Holds
    <3> HIDE DEF name
    <3>6. \A f \in DOMAIN files' :
            \E j \in Jobs : files'[f].run_id = tickers[j] /\ f.token = Token[tickers[j]]
      BY <3>3, <3>4 DEF OwnInv
    <3>7. \A j \in Jobs : result'[j] \notin {None, Error} =>
            result'[j] \in DOMAIN files' /\ result'[j].token = Token[tickers[j]]
      BY <3>3, <3>4 DEF OwnInv
    <3>8. ASSUME NEW j \in Jobs, Alone(j), result'[j] \notin {None, Error}
          PROVE  Own(j, files'[result'[j]])
      <4>1. CASE j = i
        BY <3>3, <3>4, <3>8, <4>1
      <4>2. CASE j # i
        <5>1. result[j] \in DOMAIN files \ {name}
          BY <3>3, <3>4, <3>8, <4>2 DEF OwnInv, Alone
        <5> QED
          BY <3>4, <3>8, <4>2, <5>1 DEF OwnInv
      <4> QED
        BY <4>1, <4>2
    <3>9. UNCHANGED <<tickers, thread, report>>
      BY <3>1
    <3> QED
      BY <3>2, <3>5, <3>6, <3>7, <3>8, <3>9 DEF OwnInv, Own
  <2>7. CASE Summarise \/ UNCHANGED vars
    <3>1. UNCHANGED <<tickers, phase, thread, report, files, result>>
      BY <2>7 DEF Summarise, vars
    <3> QED
      BY <3>1 DEF OwnInv, Own, Holds, Alone, Jobs
  <2> QED
    BY <2>2, <2>3, <2>4, <2>5, <2>6, <2>7 DEF Next, Invoke
<1>3. TypeInv /\ OwnInv => OwnReportExported
  <2> SUFFICES ASSUME OwnInv, NEW i \in Jobs, result[i] \notin {None, Error}
               PROVE  /\ OwnName(i) => files[result[i]].run_id = tickers[i]
                      /\ Alone(i) => files[result[i]].job = i
    BY DEF OwnReportExported
  <2>1. PICK j \in Jobs : /\ files[result[i]].run_id = tickers[j]
                          /\ Token[tickers[j]] = Token[tickers[i]]
    BY DEF OwnInv
  <2> QED
    BY <2>1 DEF OwnInv, Own, OwnName
<1> QED
  BY <1>1, <1>2, <1>3, TypesKept, PTL DEF Spec

-----------------------------------------------------------------------------
(* The summary *)

\* a file holds a report of its name, a job that succeeded has its file, a job that is done
\* has a result, and a summary stays what it was when it was made: every job was done
SummaryInv ==
  /\ \A f \in DOMAIN files : FileName(files[f]) = f
  /\ \A i \in Jobs : result[i] \notin {None, Error} => result[i] \in DOMAIN files
  /\ \A i \in Jobs : phase[i] = "done" => result[i] # None
  /\ summary # None => summary = BatchSummary /\ \A i \in Jobs : phase[i] = "done"

\* The steps of a job come before the summary and keep what it will report.
LEMMA JobKeepsSummary ==
  ASSUME TypeInv, SummaryInv, NEW i \in Jobs, Enter(i) \/ Invoke(i) \/ Fails(i)
  PROVE  SummaryInv'
<1>1. /\ phase \in [Jobs -> Phases] /\ result \in [Jobs -> Files \cup {None, Error}]
      /\ None \notin Files /\ Error \notin Files /\ None # Error
  BY ConstantsAssumption DEF TypeInv, TypeOK
<1>2. /\ phase[i] # "done" /\ summary = None /\ UNCHANGED <<tickers, summary>> /\ Jobs' = Jobs
  BY DEF SummaryInv, Enter, Invoke, Fails, PassEnds, PassStops, Resume, NoArtifact, Export,
         Inside, Jobs
<1>3. SUFFICES /\ \A f \in DOMAIN files' : FileName(files'[f]) = f
               /\ \A j \in Jobs : result'[j] \notin {None, Error} => result'[j] \in DOMAIN files'
               /\ \A j \in Jobs : phase'[j] = "done" => result'[j] # None
  BY <1>2 DEF SummaryInv, FileName
<1>4. CASE Enter(i) \/ PassEnds(i) \/ PassStops(i) \/ Resume(i)
  <2>1. /\ UNCHANGED <<files, result>>
        /\ \E p \in {"graph", "export", "snapshot", "resumed"} : Goto(i, p)
    BY <1>4 DEF Enter, PassEnds, PassStops, Resume
  <2>2. \A j \in Jobs : phase'[j] = "done" => phase[j] = "done"
    BY <1>1, <2>1 DEF Goto
  <2> QED
    BY <2>1, <2>2 DEF SummaryInv
<1>5. CASE NoArtifact(i) \/ Fails(i)
  <2>1. /\ UNCHANGED files /\ result' = [result EXCEPT ![i] = Error]
        /\ phase' = [phase EXCEPT ![i] = "done"]
    BY <1>5 DEF NoArtifact, Fails, Leave, Goto
  <2> QED
    BY <1>1, <2>1 DEF SummaryInv
<1>6. CASE Export(i)
  <2> DEFINE name == FileName(report[i])
  <2>1. /\ result' = [result EXCEPT ![i] = name] /\ phase' = [phase EXCEPT ![i] = "done"]
        /\ files' = [f \in DOMAIN files \cup {name} |-> IF f = name THEN report[i] ELSE files[f]]
    BY <1>6 DEF Export, Leave, Goto
  <2>2. \A f \in DOMAIN files' : FileName(files'[f]) = f
    BY <2>1 DEF SummaryInv
  <2>3. name \in Files
    BY <1>6 DEF TypeInv, ExportInv, Export, Reports, Files, FileName
  <2> HIDE DEF name
  <2> QED
    BY <1>1, <2>1, <2>2, <2>3 DEF SummaryInv
<1> QED
  BY <1>4, <1>5, <1>6 DEF Invoke

\* Once every job is done, a job has its file or has failed.
LEMMA DoneMeansWritten ==
  ASSUME TypeOK, SummaryInv, \A i \in Jobs : phase[i] = "done"
  PROVE  \A i \in Jobs : result[i] \in DOMAIN files <=> result[i] # Error
<1>1. /\ \A i \in Jobs : result[i] # None /\ (result[i] # Error => result[i] \in DOMAIN files)
  BY DEF SummaryInv
<1>2. DOMAIN files \subseteq Files /\ Error \notin Files
  BY ConstantsAssumption DEF TypeOK
<1> QED
  BY <1>1, <1>2

\* What the batch reports at its end is so: every file it lists is on disk with a report of
\* that name, whatever other jobs overwrote, it names the tickers that failed and no other,
\* and every ticker of the list counts once (execute_batch).
THEOREM SummaryCorrect == Spec => []SummaryIsTrue
<1>1. Init => SummaryInv
  BY DEF Init, SummaryInv
<1>2. TypeInv /\ SummaryInv /\ [Next]_vars => SummaryInv'
  <2> SUFFICES ASSUME TypeInv, SummaryInv, [Next]_vars PROVE SummaryInv'
    OBVIOUS
  <2>1. ASSUME NEW i \in Jobs, Enter(i) \/ Invoke(i) \/ Fails(i) PROVE SummaryInv'
    BY <2>1, JobKeepsSummary
  <2>2. CASE Summarise
    <3>1. /\ \A i \in Jobs : phase[i] = "done"
          /\ summary' = BatchSummary
          /\ UNCHANGED <<tickers, phase, files, result>> /\ Jobs' = Jobs
      BY <2>2 DEF Summarise, Jobs
    <3>2. BatchSummary' = BatchSummary
      BY <3>1 DEF BatchSummary, Jobs
    <3> QED
      BY <3>1, <3>2 DEF SummaryInv, FileName
  <2>3. CASE UNCHANGED vars
    <3>1. UNCHANGED <<tickers, phase, files, result, summary>> /\ Jobs' = Jobs
      BY <2>3 DEF vars, Jobs
    <3>2. BatchSummary' = BatchSummary
      BY <3>1 DEF BatchSummary, Jobs
    <3> QED
      BY <3>1, <3>2 DEF SummaryInv, FileName
  <2> QED
    BY <2>1, <2>2, <2>3 DEF Next
<1>3. TypeInv /\ SummaryInv => SummaryIsTrue
  <2> SUFFICES ASSUME TypeOK, SummaryInv, summary # None PROVE SummaryIsTrue
    BY DEF TypeInv, SummaryIsTrue
  <2> DEFINE written == {i \in Jobs : result[i] # Error}
             failed  == {i \in Jobs : result[i] = Error}
  <2>1. summary = BatchSummary /\ \A i \in Jobs : result[i] \in DOMAIN files <=> result[i] # Error
    BY DoneMeansWritten DEF SummaryInv
  <2>2. /\ summary.output_files = [i \in written |-> result[i]]
        /\ summary.errors = [i \in failed |-> tickers[i]]
        /\ summary.succeeded = Cardinality(written) /\ summary.failed = Cardinality(failed)
        /\ summary.total = Len(tickers)
    BY <2>1 DEF BatchSummary
  <2>3. Cardinality(written) + Cardinality(failed) = Len(tickers)
    <3>1. IsFiniteSet(Jobs) /\ Jobs = 1..Len(tickers) /\ Len(tickers) \in Nat
      BY JobsAreFinite DEF TypeOK
    <3>2. Cardinality(Jobs) = Len(tickers)
      BY <3>1, FS_Interval, SMTT(40)
    <3>3. written \cup failed = Jobs /\ written \cap failed = {}
      OBVIOUS
    <3>4. IsFiniteSet(written) /\ IsFiniteSet(failed)
      BY <3>1, FS_Subset
    <3> HIDE DEF written, failed
    <3>5. /\ Cardinality(written \cup failed)
               = Cardinality(written) + Cardinality(failed) - Cardinality(written \cap failed)
          /\ Cardinality(written) \in Nat /\ Cardinality(failed) \in Nat
      BY <3>4, FS_Union, FS_CardinalityType
    <3>6. Cardinality(written \cap failed) = 0 /\ Cardinality(written \cup failed) = Len(tickers)
      BY <3>2, <3>3, FS_EmptySet
    <3> QED
      BY <3>5, <3>6
  <2>4. \A k \in written : result[k] \in DOMAIN files /\ FileName(files[result[k]]) = result[k]
    BY <2>1 DEF SummaryInv
  <2>5. {i \in Jobs : result[i] \in DOMAIN files} = written
    BY <2>1
  <2> QED
    BY <2>2, <2>3, <2>4, <2>5 DEF SummaryIsTrue
<1> QED
  BY <1>1, <1>2, <1>3, TypesKept, PTL DEF Spec

=============================================================================
