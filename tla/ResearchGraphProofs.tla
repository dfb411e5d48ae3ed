------------------------ MODULE ResearchGraphProofs ------------------------
(***************************************************************************)
(* Theorems of ResearchGraph for every value of its constants: any         *)
(* filings, plans, news, audits, edits and any limit on the passes.        *)
(*                                                                         *)
(* The invariants the runs check are not inductive.  ScheduleInv says      *)
(* where the scheduler can be, and each property gets the conjunct that    *)
(* carries it from the node that establishes it to the formatter.          *)
(***************************************************************************)
EXTENDS ResearchGraph, FiniteSetTheorems, TLAPS

-----------------------------------------------------------------------------
(* Types *)

\* What a filing yields are evidence items, whatever metrics the plan requires.
LEMMA FilingEvidenceType ==
  ASSUME NEW filing \in Filings, NEW required
  PROVE  FilingEvidence(filing, required) \subseteq Seq(Evidence)
<1> DEFINE kept == {i \in 1..Len(filing) : required = {} \/ filing[i].metric \in required}
<1> DEFINE item(i) == [source_type |-> "FILING", metric |-> filing[i].metric,
                       period |-> filing[i].period, value |-> filing[i].value]
<1> DEFINE Fact == [metric : Metrics \ {"Price"}, period : Periods, value : Int]
<1>1. filing \in Seq(Fact)
  BY ConstantsAssumption
<1> HIDE DEF Fact
<1>2. \A i \in 1..Len(filing) : filing[i] \in Fact
  BY <1>1
<1>3. \A i \in kept : item(i) \in Evidence
  BY <1>2 DEF Fact, Evidence, SourceTypes
<1>4. SUFFICES ASSUME NEW f \in Ascending(kept)
      PROVE [i \in DOMAIN f |-> item(f[i])] \in Seq(Evidence)
  BY DEF FilingEvidence
<1>5. Cardinality(kept) \in Nat
  <2>1. kept \in SUBSET (1..Len(filing)) /\ Len(filing) \in Nat
    BY <1>1
  <2>2. IsFiniteSet(1..Len(filing))
    BY <2>1, FS_Interval
  <2>3. IsFiniteSet(kept)
    <3> HIDE DEF kept
    <3> QED
      BY <2>1, <2>2, FS_Subset
  <2> QED
    <3> HIDE DEF kept
    <3> QED
      BY <2>3, FS_CardinalityType
<1> HIDE DEF kept, item
<1> DEFINE m == Cardinality(kept)
<1>6. f \in [1..m -> kept]
  BY DEF Ascending
<1> HIDE DEF m
<1>7. [i \in 1..m |-> item(f[i])] \in [1..m -> Evidence]
  BY <1>3, <1>6
<1>8. [i \in 1..m |-> item(f[i])] \in Seq(Evidence)
  BY <1>5, <1>7 DEF m
<1> QED
  BY <1>6, <1>8

\* Every researcher answers with a list of evidence.
LEMMA AnswersType ==
  ASSUME NEW r \in Researchers
  PROVE  Answers(r) \subseteq Seq(Evidence)
<1>1. <<>> \in Seq(Evidence)
  OBVIOUS
<1>2. CASE r = "financial_researcher"
  <2>1. Answers(r) = {<<>>} \cup UNION {FilingEvidence(f, plan.required_raw_metrics) : f \in Filings}
    BY <1>2 DEF Answers, Gathered
  <2> QED
    BY <1>1, <2>1, FilingEvidenceType
<1>3. CASE r = "market_researcher"
  <2> DEFINE item == [source_type |-> "MARKET_API", metric |-> "Price", period |-> Unknown, value |-> 1]
  <2>1. Answers(r) = {<<>>, <<item>>}
    BY <1>3 DEF Answers, Gathered, Quotes
  <2>2. item \in Evidence
    BY ConstantsAssumption DEF Evidence, SourceTypes, Metrics
  <2> HIDE DEF item
  <2>3. <<item>> \in Seq(Evidence)
    BY <2>2
  <2> QED
    BY <1>1, <2>1, <2>3
<1>4. CASE r = "rag_researcher"
  <2> DEFINE item(p) == [source_type |-> "INTERNAL_DOCUMENT", metric |-> NoMetric, period |-> p, value |-> 0]
  <2>1. Answers(r) = {<<>>} \cup
          {<<item(p)>> : p \in {p \in Periods \ {Unknown} :
                                  plan.periods_to_fetch # <<>> => p = plan.periods_to_fetch[1]}}
    BY <1>4 DEF Answers, Gathered, Excerpts
  <2>2. \A p \in Periods : item(p) \in Evidence
    BY DEF Evidence, SourceTypes
  <2> HIDE DEF item
  <2>3. \A p \in Periods : <<item(p)>> \in Seq(Evidence)
    BY <2>2
  <2> QED
    BY <1>1, <2>1, <2>3
<1>5. CASE r = "web_researcher"
  <2>1. Answers(r) = {<<>>} \cup NewsLists
    BY <1>5 DEF Answers, Gathered
  <2> DEFINE News == [source_type : {"NEWS"}, metric : {NoMetric}, period : Periods, value : {0}]
  <2>2. News \subseteq Evidence
    BY DEF Evidence, SourceTypes
  <2>3. ASSUME NEW l \in NewsLists PROVE l \in Seq(Evidence)
    <3>1. l \in Seq(News)
      BY ConstantsAssumption
    <3> HIDE DEF News
    <3>2. Len(l) \in Nat /\ l \in [1..Len(l) -> News]
      BY <3>1
    <3>3. l \in [1..Len(l) -> Evidence]
      BY <2>2, <3>2
    <3> QED
      BY <3>2, <3>3
  <2> QED
    BY <1>1, <2>1, <2>3
<1> QED
  BY <1>2, <1>3, <1>4, <1>5 DEF Researchers

\* Channels keep their types, for every value of the constants.
THEOREM TypeCorrect == Spec => []TypeOK
<1>1. Init => TypeOK
  <2> SUFFICES ASSUME Init PROVE TypeOK
    OBVIOUS
  <2> USE DEF Init
  <2>1. DOMAIN returned = {}
    OBVIOUS
  <2>2. produced \in [Researchers -> Seq(Evidence)]
    OBVIOUS
  <2>3. plan \in ResearchPlan /\ evidence \in Seq(Evidence)
    BY DEF NoPlan, ResearchPlan
  <2> QED
    BY <2>1, <2>2, <2>3 DEF TypeOK, Outcomes
<1>2. TypeOK /\ [Next]_vars => TypeOK'
  <2> SUFFICES ASSUME TypeOK, [Next]_vars PROVE TypeOK'
    OBVIOUS
  <2> USE DEF TypeOK, Outcomes
  <2>1. CASE Planner
    BY <2>1, ConstantsAssumption DEF Planner, FanOut, channels, history
  <2>2. ASSUME NEW r \in Researchers, Research(r) PROVE TypeOK'
    <3>1. PICK answer \in Answers(r) :
            /\ returned' = [q \in DOMAIN returned \cup {r} |-> IF q = r THEN answer ELSE returned[q]]
            /\ produced' = [produced EXCEPT ![r] = @ \o answer]
      BY <2>2 DEF Research
    <3>2. answer \in Seq(Evidence)
      BY <3>1, AnswersType
    <3>3. DOMAIN returned' \subseteq Researchers
      BY <3>1
    <3>4. \A q \in DOMAIN returned' : returned'[q] \in Seq(Evidence)
      BY <3>1, <3>2
    <3>5. produced' \in [Researchers -> Seq(Evidence)]
      BY <3>1, <3>2
    <3> QED
      BY <2>2, <3>3, <3>4, <3>5 DEF Research, channels
  <2>3. CASE FanIn
    <3>1. evidence' \in Seq(Evidence)
      BY <2>3 DEF FanIn, AllReturned, Reduced, Researchers
    <3> QED
      BY <2>3, <3>1 DEF FanIn, channels, history
  <2>4. CASE Validator
    <3>1. PICK deterministic, semantic : Audit(deterministic, semantic)
      BY <2>4 DEF Validator
    <3>2. /\ iteration_count' \in Nat
          /\ is_validated' \in BOOLEAN
          /\ validation_result' \in Validation
      BY <3>1, ConstantsAssumption DEF Audit, Passed, RetryNeeded, Validation
    <3>3. next' \in {{"planner"}, {"quant_analysis"}}
      BY <3>1 DEF Audit, Route
    <3> QED
      BY <2>4, <3>2, <3>3 DEF Validator, history
  <2>5. CASE QuantAnalysis
    BY <2>5 DEF QuantAnalysis, history
  <2>6. CASE Resume
    BY <2>6, ConstantsAssumption DEF Resume
  <2>7. CASE Synthesizer
    BY <2>7 DEF Synthesizer, history
  <2>8. CASE Formatter
    BY <2>8 DEF Formatter, history
  <2>9. CASE NodeRaises
    BY <2>9 DEF NodeRaises, channels, history
  <2>10. CASE UNCHANGED vars
    BY <2>10 DEF vars, channels, history
  <2> QED
    BY <2>1, <2>2, <2>3, <2>4, <2>5, <2>6, <2>7, <2>8, <2>9, <2>10 DEF Next
<1> QED
  BY <1>1, <1>2, PTL DEF Spec

-----------------------------------------------------------------------------
(* Where the scheduler can be *)

\* writes wait only for the fan-out, the graph is interrupted only before the synthesizer,
\* and is done when there is no next node
ScheduleInv ==
  /\ DOMAIN returned # {} => next = Researchers
  /\ outcome = "interrupted" => next = {"synthesizer"}
  /\ outcome = "done" => next = {}

\* The loop's nodes are left only through the validator's edge, and no node runs while the
\* researchers' writes wait.
THEOREM ScheduleCorrect == Spec => []ScheduleInv
<1>1. Init => ScheduleInv
  BY DEF Init, ScheduleInv
<1>2. TypeOK /\ ScheduleInv /\ [Next]_vars => ScheduleInv'
  <2> SUFFICES ASSUME TypeOK, ScheduleInv, [Next]_vars PROVE ScheduleInv'
    OBVIOUS
  <2> USE DEF ScheduleInv
  <2>1. CASE Planner
    BY <2>1 DEF Planner, Ready, Researchers
  <2>2. ASSUME NEW r \in Researchers, Research(r) PROVE ScheduleInv'
    BY <2>2 DEF Research, Ready, channels, TypeOK, Researchers
  <2>3. CASE FanIn
    BY <2>3 DEF FanIn
  <2>4. CASE Validator
    BY <2>4 DEF Validator, Audit, Ready, Researchers
  <2>5. CASE QuantAnalysis
    BY <2>5 DEF QuantAnalysis, Ready, Researchers
  <2>6. CASE Resume
    BY <2>6 DEF Resume
  <2>7. CASE Synthesizer
    BY <2>7 DEF Synthesizer, Ready, Researchers
  <2>8. CASE Formatter
    BY <2>8 DEF Formatter, Ready, Researchers
  <2>9. CASE NodeRaises
    BY <2>9 DEF NodeRaises, Ready, channels
  <2>10. CASE UNCHANGED vars
    BY <2>10 DEF vars, channels
  <2> QED
    BY <2>1, <2>2, <2>3, <2>4, <2>5, <2>6, <2>7, <2>8, <2>9, <2>10 DEF Next
<1> QED
  BY <1>1, <1>2, TypeCorrect, PTL DEF Spec

-----------------------------------------------------------------------------
(* The retry loop *)

Loop == Researchers \cup {"planner", "validator"}

\* A node other than the researchers runs alone.
LEMMA RunsAlone ==
  ASSUME TypeOK, NEW n \in Nodes \ Researchers, Ready(n)
  PROVE  next = {n}
  BY DEF TypeOK, Ready, Nodes

\* Only the validator decides between the loop and what follows it.
LEMMA LoopUnchanged ==
  ASSUME TypeOK, ScheduleInv,
         Planner \/ (\E r \in Researchers : Research(r)) \/ FanIn \/ QuantAnalysis \/ Resume
           \/ Synthesizer \/ Formatter \/ NodeRaises \/ UNCHANGED vars
  PROVE  /\ (next' \cap Loop # {}) <=> (next \cap Loop # {})
         /\ UNCHANGED <<iteration_count, max_iterations, is_validated, validation_result>>
<1> USE DEF Loop, Researchers
<1>1. CASE Planner
  BY <1>1 DEF Planner, Ready, FanOut
<1>2. CASE \E r \in Researchers : Research(r)
  BY <1>2 DEF Research, channels
<1>3. CASE FanIn
  BY <1>3 DEF FanIn, AllReturned, ScheduleInv
<1>4. CASE QuantAnalysis
  <2>1. next = {"quant_analysis"}
    BY <1>4, RunsAlone DEF QuantAnalysis, Nodes
  <2> QED
    BY <1>4, <2>1 DEF QuantAnalysis
<1>5. CASE Resume
  BY <1>5 DEF Resume
<1>6. CASE Synthesizer
  <2>1. next = {"synthesizer"}
    BY <1>6, RunsAlone DEF Synthesizer, Nodes
  <2> QED
    BY <1>6, <2>1 DEF Synthesizer
<1>7. CASE Formatter
  <2>1. next = {"formatter"}
    BY <1>7, RunsAlone DEF Formatter, Nodes
  <2> QED
    BY <1>7, <2>1 DEF Formatter
<1>8. CASE NodeRaises
  BY <1>8 DEF NodeRaises, channels
<1>9. CASE UNCHANGED vars
  BY <1>9 DEF vars, channels
<1> QED
  BY <1>1, <1>2, <1>3, <1>4, <1>5, <1>6, <1>7, <1>8, <1>9

\* What one audit writes and where its edge leads.
LEMMA AuditStep ==
  ASSUME TypeOK, Validator
  PROVE  /\ next = {"validator"}
         /\ max_iterations \in Nat /\ max_iterations' = max_iterations
         /\ iteration_count' = iteration_count + 1
         /\ next' = IF ~is_validated' /\ iteration_count' < max_iterations
                      THEN {"planner"} ELSE {"quant_analysis"}
         /\ is_validated' \in BOOLEAN
         /\ validation_result'.is_valid = is_validated'
         /\ validation_result'.retry_needed <=>
              ~is_validated' /\ iteration_count' < max_iterations
         /\ is_validated' => Critical(TemporalIssues(evidence, plan.periods_to_fetch)) = {}
         /\ is_validated' => Critical(DeterministicIssues(evidence, plan.required_raw_metrics)) = {}
<1>1. PICK llm : Audit(DeterministicIssues(evidence, plan.required_raw_metrics), TemporalIssues(evidence, plan.periods_to_fetch) \cup llm)
  BY DEF Validator
<1> DEFINE det == DeterministicIssues(evidence, plan.required_raw_metrics)
<1> DEFINE sem == TemporalIssues(evidence, plan.periods_to_fetch) \cup llm
<1>2. Audit(det, sem)
  BY <1>1
<1> HIDE DEF det
<1>3. Critical(det \cup sem) = {} <=> Critical(det) = {} /\ Critical(sem) = {}
  BY DEF Critical
<1>4. Critical(sem) = {} => Critical(TemporalIssues(evidence, plan.periods_to_fetch)) = {}
  BY DEF Critical
<1> HIDE DEF sem
<1>5. next = {"validator"}
  <2>1. "validator" \in next /\ "validator" \notin Researchers
    BY DEF Validator, Ready, Researchers
  <2>2. next \in {{"planner"}, Researchers, {"validator"}, {"quant_analysis"},
                  {"synthesizer"}, {"formatter"}, {}}
    BY DEF TypeOK
  <2> QED
    BY <2>1, <2>2
<1>6. max_iterations \in Nat /\ max_iterations' = max_iterations /\ iteration_count \in Nat
  BY ConstantsAssumption DEF Validator, TypeOK
<1>7. /\ iteration_count' = iteration_count + 1
      /\ next' = {Route(is_validated', iteration_count', max_iterations)}
  BY <1>2 DEF Audit
<1>8. /\ is_validated' = Passed(iteration_count' = 1 /\ iteration_count' < max_iterations, det, sem)
      /\ validation_result'.is_valid = (is_validated' /\ Critical(det \cup sem) = {})
      /\ validation_result'.retry_needed =
           RetryNeeded(iteration_count' = 1 /\ iteration_count' < max_iterations,
                       Critical(det \cup sem), iteration_count')
  BY <1>2 DEF Audit
<1>9. is_validated' \in BOOLEAN /\ (is_validated' => Critical(det) = {} /\ Critical(sem) = {})
  BY <1>8 DEF Passed
<1>10. validation_result'.is_valid = is_validated'
  BY <1>3, <1>8, <1>9
<1>11. validation_result'.retry_needed <=> ~is_validated' /\ iteration_count' < max_iterations
  BY <1>3, <1>6, <1>7, <1>8 DEF Passed, RetryNeeded
<1> QED
  BY <1>4, <1>5, <1>6, <1>7, <1>9, <1>10, <1>11 DEF Route, det

LoopInv == PassesBounded /\ AuditAgreesWithRoute

\* The two hold together: only the audit step changes what they speak of.
THEOREM LoopCorrect == Spec => []LoopInv
<1>1. Init => LoopInv
  BY ConstantsAssumption DEF Init, LoopInv, PassesBounded, AuditAgreesWithRoute
<1>2. TypeOK /\ ScheduleInv /\ LoopInv /\ [Next]_vars => LoopInv'
  <2> SUFFICES ASSUME TypeOK, ScheduleInv, LoopInv, [Next]_vars PROVE LoopInv'
    OBVIOUS
  <2> USE DEF LoopInv, PassesBounded, AuditAgreesWithRoute
  <2>1. CASE Validator
    <3>1. /\ next = {"validator"}
          /\ max_iterations \in Nat /\ max_iterations' = max_iterations
          /\ iteration_count' = iteration_count + 1
          /\ next' = IF ~is_validated' /\ iteration_count' < max_iterations
                       THEN {"planner"} ELSE {"quant_analysis"}
          /\ is_validated' \in BOOLEAN
          /\ validation_result'.is_valid = is_validated'
          /\ validation_result'.retry_needed <=>
               ~is_validated' /\ iteration_count' < max_iterations
      BY <2>1, AuditStep
    <3>2. iteration_count \in Nat /\ (iteration_count < max_iterations \/ iteration_count = 0)
      BY <3>1 DEF TypeOK
    <3>3. next' \cap (Researchers \cup {"planner", "validator"}) # {} <=>
            ~is_validated' /\ iteration_count' < max_iterations
      BY <3>1 DEF Researchers
    <3>4. PassesBounded'
      BY <3>1, <3>2, <3>3
    <3>5. AuditAgreesWithRoute'
      BY <3>1, <3>3
    <3> QED
      BY <3>4, <3>5
  <2>2. CASE ~Validator
    <3>1. /\ (next' \cap Loop # {}) <=> (next \cap Loop # {})
          /\ UNCHANGED <<iteration_count, max_iterations, is_validated, validation_result>>
      BY <2>2, LoopUnchanged DEF Next
    <3> QED
      BY <3>1 DEF Loop
  <2> QED
    BY <2>1, <2>2
<1> QED
  BY <1>1, <1>2, TypeCorrect, ScheduleCorrect, PTL DEF Spec

\* The retry loop starts at most max_iterations passes, one if that is 0 or 1, for every
\* plan, evidence and LLM audit (route_after_validation).
THEOREM PassesAreBounded == Spec => []PassesBounded
  BY LoopCorrect, PTL DEF LoopInv

\* What validator_node's audit tells the client is what the graph does with the run.
THEOREM AuditAgrees == Spec => []AuditAgreesWithRoute
  BY LoopCorrect, PTL DEF LoopInv

-----------------------------------------------------------------------------
(* What the report shows *)

\* past the validator: nothing but an analyst changes the evidence any more
Settled == next \in {{"quant_analysis"}, {"synthesizer"}, {"formatter"}, {}}

\* a validated run, and the evidence it was validated with
ValidatedInv ==
  is_validated =>
    /\ Settled
    /\ ~edited => /\ Critical(TemporalIssues(evidence, plan.periods_to_fetch)) = {}
                  /\ Critical(DeterministicIssues(evidence, plan.required_raw_metrics)) = {}

\* what the pause and the two nodes after it carry to the report
ReportInv ==
  /\ Settled => validation_result.is_valid = is_validated
  /\ Hitl /\ outcome = "running" /\ next \in {{"synthesizer"}, {"formatter"}} =>
       approved = evidence
  /\ Reported =>
       /\ final_report.financial_metrics = FinancialMetrics(evidence)
       /\ final_report.evidence = evidence
       /\ final_report.validation_audit = validation_result
       /\ Hitl => approved = evidence

\* Outside the loop only an analyst's edit touches the plan, the evidence or the verdict.
LEMMA SettledStep ==
  ASSUME TypeOK, ScheduleInv, [Next]_vars, Settled
  PROVE  /\ Settled'
         /\ UNCHANGED <<plan, is_validated, validation_result, produced>>
         /\ ~edited' => ~edited /\ evidence' = evidence
<1> USE DEF Settled, Researchers, Nodes
<1>1. CASE Planner
  BY <1>1 DEF Planner, Ready
<1>2. CASE \E r \in Researchers : Research(r)
  BY <1>2 DEF Research, Ready
<1>3. CASE FanIn
  BY <1>3 DEF FanIn, AllReturned, ScheduleInv
<1>4. CASE Validator
  BY <1>4 DEF Validator, Ready
<1>5. CASE QuantAnalysis
  BY <1>5 DEF QuantAnalysis, history
<1>6. CASE Resume
  BY <1>6 DEF Resume
<1>7. CASE Synthesizer
  BY <1>7 DEF Synthesizer, history
<1>8. CASE Formatter
  BY <1>8 DEF Formatter, history
<1>9. CASE NodeRaises
  BY <1>9 DEF NodeRaises, channels, history
<1>10. CASE UNCHANGED vars
  BY <1>10 DEF vars, channels, history
<1> QED
  BY <1>1, <1>2, <1>3, <1>4, <1>5, <1>6, <1>7, <1>8, <1>9, <1>10 DEF Next

\* A run is validated only by evidence without critical issues, and never leaves that state.
THEOREM ValidatedCorrect == Spec => []ValidatedInv
<1>1. Init => ValidatedInv
  BY DEF Init, ValidatedInv
<1>2. TypeOK /\ ScheduleInv /\ ValidatedInv /\ [Next]_vars => ValidatedInv'
  <2> SUFFICES ASSUME TypeOK, ScheduleInv, ValidatedInv, [Next]_vars, is_validated'
               PROVE  /\ Settled'
                      /\ ~edited' => /\ Critical(TemporalIssues(evidence', plan'.periods_to_fetch)) = {}
                                     /\ Critical(DeterministicIssues(evidence', plan'.required_raw_metrics)) = {}
    BY DEF ValidatedInv, Settled, Critical, TemporalIssues, DeterministicIssues
  <2>1. CASE Validator
    <3>1. /\ Settled'
          /\ Critical(TemporalIssues(evidence, plan.periods_to_fetch)) = {}
          /\ Critical(DeterministicIssues(evidence, plan.required_raw_metrics)) = {}
      BY <2>1, AuditStep DEF Settled
    <3>2. evidence' = evidence /\ plan' = plan
      BY <2>1 DEF Validator
    <3> QED
      BY <3>1, <3>2
  <2>2. CASE ~Validator
    <3>1. is_validated' = is_validated
      BY <2>2, LoopUnchanged DEF Next
    <3>2. Settled
      BY <3>1 DEF ValidatedInv
    <3>3. Settled' /\ plan' = plan /\ (~edited' => ~edited /\ evidence' = evidence)
      BY <3>2, SettledStep
    <3> QED
      BY <3>1, <3>3 DEF ValidatedInv
  <2> QED
    BY <2>1, <2>2
<1> QED
  BY <1>1, <1>2, TypeCorrect, ScheduleCorrect, PTL DEF Spec

\* The channels the formatter assembles are those the earlier nodes left.
THEOREM ReportCorrect == Spec => []ReportInv
<1>1. Init => ReportInv
  BY DEF Init, ReportInv, Settled, Reported
<1>2. TypeOK /\ ScheduleInv /\ ReportInv /\ [Next]_vars => ReportInv'
  <2> SUFFICES ASSUME TypeOK, ScheduleInv, ReportInv, [Next]_vars PROVE ReportInv'
    OBVIOUS
  <2> USE DEF ReportInv, ScheduleInv, Reported
  <2>1. CASE Planner
    BY <2>1 DEF Planner, Ready, FanOut, Researchers, Settled
  <2>2. CASE \E r \in Researchers : Research(r)
    BY <2>2 DEF Research, Ready, channels, Settled, Researchers
  <2>3. CASE FanIn
    BY <2>3 DEF FanIn, Settled
  <2>4. CASE Validator
    <3>1. /\ next = {"validator"}
          /\ next' \in {{"planner"}, {"quant_analysis"}}
          /\ validation_result'.is_valid = is_validated'
      BY <2>4, AuditStep
    <3>2. outcome' = "running"
      BY <2>4 DEF Validator, Ready
    <3> QED
      BY <3>1, <3>2
  <2>5. CASE QuantAnalysis
    <3>1. next = {"quant_analysis"} /\ outcome = "running"
      BY <2>5, RunsAlone DEF QuantAnalysis, Ready, Nodes, Researchers
    <3>2. Hitl => outcome' # "running"
      BY <2>5 DEF QuantAnalysis, InterruptBefore
    <3> QED
      BY <2>5, <3>1, <3>2 DEF QuantAnalysis, history, Settled
  <2>6. CASE Resume
    BY <2>6 DEF Resume, Settled
  <2>7. CASE Synthesizer
    <3>1. next = {"synthesizer"} /\ outcome = "running"
      BY <2>7, RunsAlone DEF Synthesizer, Ready, Nodes, Researchers
    <3> QED
      BY <2>7, <3>1 DEF Synthesizer, history, Settled
  <2>8. CASE Formatter
    <3>1. next = {"formatter"} /\ outcome = "running"
      BY <2>8, RunsAlone DEF Formatter, Ready, Nodes, Researchers
    <3> QED
      BY <2>8, <3>1 DEF Formatter, history, Settled
  <2>9. CASE NodeRaises
    BY <2>9 DEF NodeRaises, Ready, channels, history, Settled
  <2>10. CASE UNCHANGED vars
    BY <2>10 DEF vars, channels, history, Settled
  <2> QED
    BY <2>1, <2>2, <2>3, <2>4, <2>5, <2>6, <2>7, <2>8, <2>9, <2>10 DEF Next
<1> QED
  BY <1>1, <1>2, TypeCorrect, ScheduleCorrect, PTL DEF Spec

\* A report shows the evidence the analyst resumed the run with.
THEOREM ReportApproved == Spec => []ReportShowsApprovedEvidence
<1>1. ReportInv => ReportShowsApprovedEvidence
  BY DEF ReportInv, ReportShowsApprovedEvidence, Reported
<1> QED
  BY <1>1, ReportCorrect, PTL

\* Evidence without critical issues has a figure for every required metric.
LEMMA RequiredMetricsPresent ==
  ASSUME NEW ev, NEW required, Critical(DeterministicIssues(ev, required)) = {}
  PROVE  required \subseteq DOMAIN FinancialMetrics(ev)
<1> SUFFICES ASSUME NEW m \in required PROVE m \in DOMAIN FinancialMetrics(ev)
  OBVIOUS
<1> DEFINE missing == [issue_type |-> "MISSING_METRIC", severity |-> "CRITICAL"]
<1>1. Of(ev, m) = {} => missing \in DeterministicIssues(ev, required)
  BY Zenon DEF DeterministicIssues
<1>2. missing \in DeterministicIssues(ev, required) => missing \in Critical(DeterministicIssues(ev, required))
  BY DEF Critical
<1>3. Of(ev, m) # {}
  BY <1>1, <1>2
<1> QED
  BY <1>3 DEF Of, FinancialMetrics

\* A valid report shows a figure for every metric the plan required.
THEOREM ValidReportComplete == Spec => []ValidReportIsComplete
<1>1. ScheduleInv /\ ValidatedInv /\ ReportInv => ValidReportIsComplete
  <2> SUFFICES ASSUME ScheduleInv, ValidatedInv, ReportInv, Reported, ~edited,
                      final_report.validation_audit.is_valid
               PROVE  plan.required_raw_metrics \subseteq DOMAIN final_report.financial_metrics
    BY DEF ValidReportIsComplete
  <2>1. is_validated
    BY DEF ReportInv, ScheduleInv, Settled, Reported
  <2>2. Critical(DeterministicIssues(evidence, plan.required_raw_metrics)) = {}
    BY <2>1 DEF ValidatedInv
  <2>3. plan.required_raw_metrics \subseteq DOMAIN FinancialMetrics(evidence)
    BY <2>2, RequiredMetricsPresent
  <2> QED
    BY <2>3 DEF ReportInv
<1> QED
  BY <1>1, ScheduleCorrect, ValidatedCorrect, ReportCorrect, PTL

-----------------------------------------------------------------------------
(* The evidence *)

\* Every item a researcher returns bears the source type of that researcher.
LEMMA AnswersSource ==
  ASSUME NEW r \in Researchers, NEW answer \in Answers(r)
  PROVE  \A k \in 1..Len(answer) : answer[k].source_type = Source[r]
<1>1. CASE answer = <<>>
  BY <1>1
<1>2. CASE r = "financial_researcher" /\ answer # <<>>
  <2>1. PICK filing \in Filings : answer \in FilingEvidence(filing, plan.required_raw_metrics)
    BY <1>2 DEF Answers, Gathered
  <2> DEFINE required == plan.required_raw_metrics
             kept == {i \in 1..Len(filing) : required = {} \/ filing[i].metric \in required}
             item(i) == [source_type |-> "FILING", metric |-> filing[i].metric,
                         period |-> filing[i].period, value |-> filing[i].value]
  <2>2. PICK f \in Ascending(kept) : answer = [i \in DOMAIN f |-> item(f[i])]
    BY <2>1 DEF FilingEvidence
  <2>3. answer \in Seq(Evidence)
    BY AnswersType
  <2>4. \A k \in 1..Len(answer) : k \in DOMAIN answer
    BY <2>3
  <2>5. \A k \in DOMAIN answer : answer[k].source_type = "FILING"
    BY <2>2
  <2> QED
    BY <1>2, <2>4, <2>5 DEF Source
<1>3. CASE r = "market_researcher" /\ answer # <<>>
  BY <1>3 DEF Answers, Gathered, Quotes, Source
<1>4. CASE r = "rag_researcher" /\ answer # <<>>
  <2>1. PICK p \in Periods :
          answer = <<[source_type |-> "INTERNAL_DOCUMENT", metric |-> NoMetric, period |-> p, value |-> 0]>>
    BY <1>4 DEF Answers, Gathered, Excerpts
  <2> QED
    BY <1>4, <2>1 DEF Source
<1>5. CASE r = "web_researcher" /\ answer # <<>>
  <2> DEFINE News == [source_type : {"NEWS"}, metric : {NoMetric}, period : Periods, value : {0}]
  <2>1. answer \in Seq(News)
    BY <1>5, ConstantsAssumption DEF Answers, Gathered
  <2>2. \A n \in News : n.source_type = "NEWS"
    OBVIOUS
  <2> HIDE DEF News
  <2> QED
    BY <1>5, <2>1, <2>2 DEF Source
<1> QED
  BY <1>1, <1>2, <1>3, <1>4, <1>5 DEF Researchers

\* Items of another source leave those of r where they are.
LEMMA HoldsOthers ==
  ASSUME NEW r \in Researchers, NEW ev \in Seq(Evidence), NEW list \in Seq(Evidence),
         NEW more \in Seq(Evidence), Holds(ev, r, list),
         \A k \in 1..Len(more) : more[k].source_type # Source[r]
  PROVE  Holds(ev \o more, r, list)
<1>1. /\ Len(ev) \in Nat /\ Len(more) \in Nat /\ Len(ev \o more) = Len(ev) + Len(more)
      /\ \A i \in 1..Len(ev) : (ev \o more)[i] = ev[i]
      /\ \A i \in 1..Len(ev \o more) : i \notin 1..Len(ev) =>
           (ev \o more)[i] = more[i - Len(ev)] /\ i - Len(ev) \in 1..Len(more)
  OBVIOUS
<1>2. ItemsOf(ev \o more, r) = ItemsOf(ev, r)
  BY <1>1 DEF ItemsOf
<1>3. \A i \in ItemsOf(ev, r) : (ev \o more)[i] = ev[i]
  BY <1>1 DEF ItemsOf
<1> QED
  BY <1>2, <1>3 DEF Holds

\* Items of r at the end of the evidence are the end of its list.
LEMMA HoldsOwn ==
  ASSUME NEW r \in Researchers, NEW ev \in Seq(Evidence), NEW list \in Seq(Evidence),
         NEW more \in Seq(Evidence), Holds(ev, r, list),
         \A k \in 1..Len(more) : more[k].source_type = Source[r]
  PROVE  Holds(ev \o more, r, list \o more)
<1> DEFINE n == Len(ev)
           m == Len(more)
           old == ItemsOf(ev, r)
           new == ItemsOf(ev \o more, r)
           c == Cardinality(old)
<1>1. /\ n \in Nat /\ m \in Nat /\ Len(ev \o more) = n + m
      /\ \A i \in 1..n : (ev \o more)[i] = ev[i]
      /\ \A k \in 1..m : (ev \o more)[n + k] = more[k]
  OBVIOUS
<1>2. old \subseteq 1..n /\ new = old \cup ((n + 1)..(n + m))
  <2>1. \A i \in (n + 1)..(n + m) : (ev \o more)[i].source_type = Source[r]
    <3> SUFFICES ASSUME NEW i \in (n + 1)..(n + m)
                 PROVE (ev \o more)[i].source_type = Source[r]
      OBVIOUS
    <3>1. i - n \in 1..m /\ i = n + (i - n)
      BY <1>1
    <3> QED
      BY <1>1, <3>1
  <2>2. 1..(n + m) = (1..n) \cup ((n + 1)..(n + m))
    BY <1>1
  <2> QED
    BY <1>1, <2>1, <2>2 DEF ItemsOf
<1>3. IsFiniteSet(old) /\ c \in Nat
  <2>1. IsFiniteSet(1..n)
    BY <1>1, FS_Interval
  <2> QED
    BY <1>2, <2>1, FS_Subset, FS_CardinalityType
<1> HIDE DEF n, m, old, new, c
<1>4. ASSUME NEW k \in 0..m PROVE Cardinality(old \cup ((n + 1)..(n + k))) = c + k
  <2>1. IsFiniteSet((n + 1)..(n + k)) /\ Cardinality((n + 1)..(n + k)) = k
    <3>1. n + 1 \in Int /\ n + k \in Int /\ k \in Nat
      BY <1>1
    <3>2. /\ IsFiniteSet((n + 1)..(n + k))
          /\ Cardinality((n + 1)..(n + k)) = IF n + 1 > n + k THEN 0 ELSE (n + k) - (n + 1) + 1
      BY <3>1, FS_Interval
    <3> QED
      BY <1>1, <3>1, <3>2
  <2>2. old \cap ((n + 1)..(n + k)) = {}
    BY <1>1, <1>2
  <2>3. Cardinality(old \cup ((n + 1)..(n + k)))
          = Cardinality(old) + Cardinality((n + 1)..(n + k)) - Cardinality(old \cap ((n + 1)..(n + k)))
    BY <1>3, <2>1, FS_Union
  <2>4. Cardinality(old \cap ((n + 1)..(n + k))) = 0
    BY <2>2, FS_EmptySet
  <2> QED
    BY <1>1, <1>3, <2>1, <2>3, <2>4 DEF c
<1>5. /\ Len(list) = c /\ Len(list \o more) = c + m
      /\ \A i \in 1..c : (list \o more)[i] = list[i]
      /\ \A k \in 1..m : (list \o more)[c + k] = more[k]
  <2>1. Len(list) = c
    BY DEF Holds, c, old
  <2>2. /\ Len(list \o more) = Len(list) + m
        /\ \A i \in 1..Len(list) : (list \o more)[i] = list[i]
        /\ \A k \in 1..m : (list \o more)[Len(list) + k] = more[k]
    BY DEF m
  <2> QED
    BY <2>1, <2>2
<1>6. Len(list \o more) = Cardinality(new)
  BY <1>1, <1>2, <1>4, <1>5
<1>7. ASSUME NEW i \in old
      PROVE  (ev \o more)[i] = (list \o more)[Cardinality({j \in new : j <= i})]
  <2>1. {j \in new : j <= i} = {j \in old : j <= i}
    BY <1>1, <1>2
  <2> DEFINE upto == {j \in old : j <= i}
  <2>2. i \in upto /\ upto \subseteq old
    BY <1>1, <1>2
  <2> HIDE DEF upto
  <2>3. IsFiniteSet(upto) /\ Cardinality(upto) \in Nat /\ Cardinality(upto) <= c
    BY <1>3, <2>2, FS_Subset, FS_CardinalityType DEF c
  <2>4. Cardinality(upto) # 0
    BY <2>2, <2>3, FS_EmptySet
  <2>5. Cardinality(upto) \in 1..c
    BY <1>3, <2>3, <2>4
  <2>6. ev[i] = list[Cardinality(upto)]
    BY DEF Holds, old, upto
  <2> QED
    BY <1>1, <1>2, <1>5, <2>1, <2>5, <2>6 DEF upto
<1>8. ASSUME NEW i \in (n + 1)..(n + m)
      PROVE  (ev \o more)[i] = (list \o more)[Cardinality({j \in new : j <= i})]
  <2>1. PICK k \in 1..m : i = n + k
    <3>1. i - n \in 1..m /\ i = n + (i - n)
      BY <1>1
    <3> QED
      BY <3>1
  <2>2. {j \in new : j <= i} = old \cup ((n + 1)..(n + k))
    <3>1. \A j \in old : j <= i
      BY <1>1, <1>2, <2>1
    <3>2. \A j \in (n + 1)..(n + m) : j <= i <=> j \in (n + 1)..(n + k)
      BY <1>1, <2>1
    <3>3. (n + 1)..(n + k) \subseteq (n + 1)..(n + m)
      BY <1>1, <2>1
    <3> QED
      BY <1>2, <3>1, <3>2, <3>3
  <2>3. Cardinality({j \in new : j <= i}) = c + k
    BY <1>1, <1>4, <2>1, <2>2
  <2> QED
    BY <1>1, <1>5, <2>1, <2>3
<1> QED
  BY <1>2, <1>6, <1>7, <1>8 DEF Holds, new

\* what a researcher has returned in this superstep and the reducer has not yet applied
Pending(r) == IF r \in DOMAIN returned THEN returned[r] ELSE <<>>

\* the evidence and the writes that wait are together what each researcher ever returned
GatherInv ==
  /\ \A r \in DOMAIN returned : \A k \in 1..Len(returned[r]) : returned[r][k].source_type = Source[r]
  /\ ~edited => \A r \in Researchers : \E list \in Seq(Evidence) :
                  Holds(evidence, r, list) /\ produced[r] = list \o Pending(r)

\* The reducer appends the four lists, and each one's items where they belong.
LEMMA ReducedHolds ==
  ASSUME TypeOK, GatherInv, AllReturned, NEW r \in Researchers,
         NEW list \in Seq(Evidence), Holds(evidence, r, list)
  PROVE  Holds(Reduced(evidence, returned), r, list \o returned[r])
<1> DEFINE f == returned["financial_researcher"]
           m == returned["market_researcher"]
           g == returned["rag_researcher"]
           w == returned["web_researcher"]
           Of1(s, q) == \A k \in 1..Len(s) : s[k].source_type = Source[q]
<1>1. /\ f \in Seq(Evidence) /\ m \in Seq(Evidence) /\ g \in Seq(Evidence) /\ w \in Seq(Evidence)
      /\ evidence \in Seq(Evidence)
  BY DEF TypeOK, AllReturned, Researchers
<1>2. /\ Of1(f, "financial_researcher") /\ Of1(m, "market_researcher")
      /\ Of1(g, "rag_researcher") /\ Of1(w, "web_researcher")
  BY DEF GatherInv, AllReturned, Researchers
<1>3. \A q1, q2 \in Researchers : q1 # q2 => Source[q1] # Source[q2]
  BY DEF Source, Researchers
<1>4. Reduced(evidence, returned) = ((evidence \o f) \o m) \o g \o w
  BY DEF Reduced
<1>5. returned[r] \in Seq(Evidence) /\ list \o returned[r] \in Seq(Evidence)
  BY DEF TypeOK, AllReturned
<1>6. ASSUME NEW ev \in Seq(Evidence), NEW l \in Seq(Evidence), NEW q \in Researchers,
             Holds(ev, r, l)
      PROVE  Holds(ev \o returned[q], r, IF q = r THEN l \o returned[q] ELSE l)
  <2>1. returned[q] \in Seq(Evidence) /\ Of1(returned[q], q)
    BY DEF TypeOK, AllReturned, GatherInv
  <2>2. CASE q = r
    BY <1>6, <2>1, <2>2, HoldsOwn
  <2>3. CASE q # r
    <3>1. \A k \in 1..Len(returned[q]) : returned[q][k].source_type # Source[r]
      BY <1>3, <2>1, <2>3
    <3> QED
      BY <1>6, <2>1, <2>3, <3>1, HoldsOthers
  <2> QED
    BY <2>2, <2>3
<1>7. /\ evidence \o f \in Seq(Evidence) /\ (evidence \o f) \o m \in Seq(Evidence)
      /\ ((evidence \o f) \o m) \o g \in Seq(Evidence)
  BY <1>1
<1> DEFINE l1 == IF r = "financial_researcher" THEN list \o returned[r] ELSE list
           l2 == IF r \in {"financial_researcher", "market_researcher"} THEN list \o returned[r] ELSE list
           l3 == IF r # "web_researcher" THEN list \o returned[r] ELSE list
<1>8. l1 \in Seq(Evidence) /\ l2 \in Seq(Evidence) /\ l3 \in Seq(Evidence)
  BY <1>5
<1>9. Holds(evidence \o f, r, l1)
  BY <1>1, <1>6 DEF Researchers
<1>10. Holds((evidence \o f) \o m, r, l2)
  BY <1>6, <1>7, <1>8, <1>9 DEF Researchers
<1>11. Holds(((evidence \o f) \o m) \o g, r, l3)
  BY <1>6, <1>7, <1>8, <1>10 DEF Researchers
<1>12. Holds((((evidence \o f) \o m) \o g) \o w, r, list \o returned[r])
  BY <1>6, <1>7, <1>8, <1>11 DEF Researchers
<1> QED
  BY <1>4, <1>12

\* Whatever a researcher returns is in the evidence or waits for the reducer.
THEOREM GatherCorrect == Spec => []GatherInv
<1>1. Init => GatherInv
  <2> SUFFICES ASSUME Init PROVE GatherInv
    OBVIOUS
  <2>1. DOMAIN returned = {} /\ evidence = <<>> /\ \A r \in Researchers : produced[r] = <<>>
    BY DEF Init
  <2>2. \A r \in Researchers : Holds(evidence, r, <<>>)
    <3>1. \A r \in Researchers : ItemsOf(evidence, r) = {}
      BY <2>1 DEF ItemsOf
    <3> QED
      BY <3>1, FS_EmptySet DEF Holds
  <2>3. <<>> \in Seq(Evidence) /\ <<>> \o <<>> = <<>>
    OBVIOUS
  <2> QED
    BY <2>1, <2>2, <2>3 DEF GatherInv, Pending
<1>2. TypeOK /\ GatherInv /\ [Next]_vars => GatherInv'
  <2> SUFFICES ASSUME TypeOK, GatherInv, [Next]_vars PROVE GatherInv'
    OBVIOUS
  <2>1. CASE UNCHANGED <<returned, evidence, produced, edited>>
    BY <2>1 DEF GatherInv, Pending
  <2>2. ASSUME NEW r \in Researchers, Research(r) PROVE GatherInv'
    <3>1. PICK answer \in Answers(r) :
            /\ returned' = [q \in DOMAIN returned \cup {r} |-> IF q = r THEN answer ELSE returned[q]]
            /\ produced' = [produced EXCEPT ![r] = @ \o answer]
      BY <2>2 DEF Research
    <3>2. UNCHANGED <<evidence, edited>> /\ r \notin DOMAIN returned
      BY <2>2 DEF Research, channels
    <3>3. answer \in Seq(Evidence) /\ \A k \in 1..Len(answer) : answer[k].source_type = Source[r]
      BY AnswersType, AnswersSource
    <3>4. \A q \in DOMAIN returned' : \A k \in 1..Len(returned'[q]) : returned'[q][k].source_type = Source[q]
      BY <3>1, <3>3 DEF GatherInv
    <3>5. ASSUME ~edited, NEW q \in Researchers
          PROVE  \E list \in Seq(Evidence) : Holds(evidence, q, list) /\ produced'[q] = list \o Pending(q)'
      <4>1. PICK list \in Seq(Evidence) : Holds(evidence, q, list) /\ produced[q] = list \o Pending(q)
        BY <3>5 DEF GatherInv
      <4>2. CASE q = r
        <5>1. Pending(q) = <<>> /\ Pending(q)' = answer
          BY <3>1, <3>2, <4>2 DEF Pending
        <5>2. produced'[q] = produced[q] \o answer
          BY <3>1, <4>2 DEF TypeOK
        <5>3. list \o <<>> = list
          OBVIOUS
        <5> QED
          BY <4>1, <5>1, <5>2, <5>3
      <4>3. CASE q # r
        <5>1. Pending(q)' = Pending(q) /\ produced'[q] = produced[q]
          BY <3>1, <4>3 DEF Pending, TypeOK
        <5> QED
          BY <4>1, <5>1
      <4> QED
        BY <4>2, <4>3
    <3> QED
      BY <3>2, <3>4, <3>5 DEF GatherInv
  <2>3. CASE FanIn
    <3>1. /\ AllReturned /\ evidence' = Reduced(evidence, returned) /\ DOMAIN returned' = {}
          /\ UNCHANGED <<produced, edited>>
      BY <2>3 DEF FanIn, history
    <3>2. ASSUME ~edited, NEW q \in Researchers
          PROVE  \E list \in Seq(Evidence) : Holds(evidence', q, list) /\ produced[q] = list \o Pending(q)'
      <4>1. PICK list \in Seq(Evidence) : Holds(evidence, q, list) /\ produced[q] = list \o Pending(q)
        BY <3>2 DEF GatherInv
      <4>2. Holds(evidence', q, list \o returned[q])
        BY <3>1, <4>1, ReducedHolds
      <4>3. produced[q] = list \o returned[q] /\ Pending(q)' = <<>>
        BY <3>1, <4>1 DEF Pending, AllReturned
      <4>4. list \o returned[q] \in Seq(Evidence)
        BY <3>1 DEF TypeOK, AllReturned
      <4>5. (list \o returned[q]) \o <<>> = list \o returned[q]
        BY <4>4
      <4> QED
        BY <4>2, <4>3, <4>4, <4>5
    <3> QED
      BY <3>1, <3>2 DEF GatherInv
  <2>4. CASE Resume
    <3>1. UNCHANGED <<returned, produced>> /\ (edited' \/ UNCHANGED <<evidence, edited>>)
      BY <2>4 DEF Resume
    <3> QED
      BY <2>1, <3>1 DEF GatherInv
  <2>5. CASE Planner \/ Validator \/ QuantAnalysis \/ Synthesizer \/ Formatter \/ NodeRaises
    BY <2>1, <2>5 DEF Planner, Validator, QuantAnalysis, Synthesizer, Formatter, NodeRaises,
                      channels, history
  <2>6. CASE UNCHANGED vars
    BY <2>1, <2>6 DEF vars, channels, history
  <2> QED
    BY <2>2, <2>3, <2>4, <2>5, <2>6 DEF Next
<1> QED
  BY <1>1, <1>2, TypeCorrect, PTL DEF Spec

\* Until an analyst replaces it, the evidence is everything the researchers have returned
\* over all passes, each one's items once and in their order, in whatever order the four
\* of them return (the operator.add reducer of ResearchState).
THEOREM EvidenceKept == Spec => []NoEvidenceLost
<1>1. TypeOK /\ GatherInv => NoEvidenceLost
  <2> SUFFICES ASSUME TypeOK, GatherInv, ~edited, returned = <<>>, NEW r \in Researchers
               PROVE  Holds(evidence, r, produced[r])
    BY DEF NoEvidenceLost
  <2>1. PICK list \in Seq(Evidence) : Holds(evidence, r, list) /\ produced[r] = list \o Pending(r)
    BY DEF GatherInv
  <2>2. Pending(r) = <<>> /\ list \o <<>> = list
    BY DEF Pending
  <2> QED
    BY <2>1, <2>2
<1> QED
  BY <1>1, GatherCorrect, TypeCorrect, PTL

\* A list that the evidence holds is in the evidence, item for item: the ranks of its items
\* there are different, so each position of the list is the rank of one of them.
LEMMA HeldItem ==
  ASSUME NEW ev \in Seq(Evidence), NEW r \in Researchers, NEW list \in Seq(Evidence),
         Holds(ev, r, list), NEW k \in 1..Len(list)
  PROVE  \E i \in 1..Len(ev) : ev[i] = list[k]
<1> DEFINE items == ItemsOf(ev, r)
           upto(i) == {j \in items : j <= i}
           c == Cardinality(items)
           rank == [i \in items |-> Cardinality(upto(i))]
<1>1. IsFiniteSet(items) /\ items \subseteq 1..Len(ev) /\ Len(ev) \in Nat
  <2>1. Len(ev) \in Nat /\ items \subseteq 1..Len(ev)
    BY DEF ItemsOf
  <2>2. IsFiniteSet(1..Len(ev))
    BY <2>1, FS_Interval
  <2> HIDE DEF items
  <2> QED
    BY <2>1, <2>2, FS_Subset
<1>2. c \in Nat /\ k \in 1..c /\ \A i \in items : ev[i] = list[Cardinality(upto(i))]
  <2>1. c \in Nat
    <3> HIDE DEF items
    <3> QED
      BY <1>1, FS_CardinalityType
  <2> QED
    BY <2>1 DEF Holds
<1> HIDE DEF items
<1>3. ASSUME NEW i \in items
      PROVE  IsFiniteSet(upto(i)) /\ Cardinality(upto(i)) \in 1..c
  <2>1. i \in upto(i) /\ upto(i) \subseteq items
    BY <1>1
  <2> HIDE DEF upto
  <2>2. IsFiniteSet(upto(i)) /\ Cardinality(upto(i)) \in Nat /\ Cardinality(upto(i)) <= c
    BY <1>1, <2>1, FS_Subset, FS_CardinalityType
  <2>3. Cardinality(upto(i)) # 0
    BY <2>1, <2>2, FS_EmptySet
  <2> QED
    BY <1>2, <2>2, <2>3
<1>4. ASSUME NEW i \in items, NEW j \in items, i < j
      PROVE  Cardinality(upto(i)) # Cardinality(upto(j))
  <2>1. upto(i) \subseteq upto(j) /\ j \in upto(j) /\ j \notin upto(i)
    <3>1. i \in Int /\ j \in Int /\ items \subseteq Int
      BY <1>1
    <3>2. \A n \in items : n <= i => n <= j
      BY <1>4, <3>1
    <3>3. j <= j /\ ~(j <= i)
      BY <1>4, <3>1
    <3> QED
      BY <3>2, <3>3
  <2>2. IsFiniteSet(upto(j))
    BY <1>3
  <2> HIDE DEF upto
  <2> QED
    BY <2>1, <2>2, FS_Subset
<1>5. SUFFICES ASSUME \A i \in items : Cardinality(upto(i)) # k PROVE FALSE
  BY <1>1, <1>2
<1> DEFINE others == (1..c) \ {k}
<1>6. rank \in [items -> others]
  BY <1>3, <1>5
<1>7. IsFiniteSet(others) /\ Cardinality(others) < c
  <2>1. IsFiniteSet(1..c) /\ Cardinality(1..c) = c
    BY <1>2, FS_Interval
  <2>2. others \subseteq 1..c /\ others # 1..c
    BY <1>2
  <2> HIDE DEF others
  <2>3. IsFiniteSet(others) /\ Cardinality(others) <= c /\ Cardinality(others) # c
    BY <2>1, <2>2, FS_Subset
  <2>4. Cardinality(others) \in Nat
    BY <2>3, FS_CardinalityType
  <2> QED
    BY <1>2, <2>3, <2>4
<1>8. PICK i, j \in items : i # j /\ rank[i] = rank[j]
  <2> HIDE DEF others, rank
  <2> QED
    BY <1>1, <1>6, <1>7, FS_PigeonHole
<1>9. i < j \/ j < i
  BY <1>1, <1>8
<1> QED
  BY <1>4, <1>8, <1>9

\* an analyst edits only what the validator has left
StaleInv ==
  /\ edited => Settled
  /\ NothingStaleIsValidated

\* No number of passes validates a run for which some researcher ever gathered news or an
\* excerpt of a year the last plan does not ask for (planner_node plans the periods anew in
\* each pass; _temporal_and_conflict_issues reads the latest plan and all the evidence).
THEOREM StaleNeverValidated == Spec => []NothingStaleIsValidated
<1>1. Init => StaleInv
  BY DEF Init, StaleInv, NothingStaleIsValidated
<1>2. TypeOK /\ ScheduleInv /\ ValidatedInv /\ GatherInv /\ StaleInv /\ [Next]_vars => StaleInv'
  <2> SUFFICES ASSUME TypeOK, ScheduleInv, ValidatedInv, GatherInv, StaleInv, [Next]_vars
               PROVE  StaleInv'
    OBVIOUS
  <2>1. edited' => Settled'
    <3>1. CASE Settled
      BY <3>1, SettledStep
    <3>2. CASE ~Settled
      <4>1. ~edited
        BY <3>2 DEF StaleInv
      <4>2. ~Resume
        BY <3>2 DEF Resume, ScheduleInv, Settled
      <4> QED
        BY <4>1, <4>2 DEF Next, Planner, Research, FanIn, Validator, QuantAnalysis, Synthesizer,
                          Formatter, NodeRaises, vars, channels, history
    <3> QED
      BY <3>1, <3>2
  <2>2. ASSUME is_validated', NEW r \in Researchers, NEW k \in 1..Len(produced'[r])
        PROVE  ~IsStale(produced'[r][k], plan'.periods_to_fetch)
    <3>1. CASE Validator
      <4>1. /\ next = {"validator"}
            /\ Critical(TemporalIssues(evidence, plan.periods_to_fetch)) = {}
        BY <2>2, <3>1, AuditStep
      <4>2. ~edited /\ DOMAIN returned = {}
        BY <4>1 DEF StaleInv, Settled, ScheduleInv, Researchers
      <4>3. PICK list \in Seq(Evidence) : Holds(evidence, r, list) /\ produced[r] = list \o Pending(r)
        BY <4>2 DEF GatherInv
      <4>4. produced[r] = list
        <5>1. Pending(r) = <<>> /\ list \o <<>> = list
          BY <4>2 DEF Pending
        <5> QED
          BY <4>3, <5>1
      <4>5. produced' = produced /\ plan' = plan
        BY <3>1 DEF Validator, history
      <4>6. PICK i \in 1..Len(evidence) : evidence[i] = list[k]
        BY <2>2, <4>3, <4>4, <4>5, HeldItem DEF TypeOK
      <4>7. ~IsStale(evidence[i], plan.periods_to_fetch)
        <5> DEFINE issue == [issue_type |-> "PERIOD_INCONSISTENCY", severity |-> "CRITICAL"]
        <5>1. ASSUME IsStale(evidence[i], plan.periods_to_fetch)
              PROVE  issue \in TemporalIssues(evidence, plan.periods_to_fetch)
          BY <4>6, <5>1, Zenon DEF TemporalIssues
        <5>2. issue \notin TemporalIssues(evidence, plan.periods_to_fetch)
          BY <4>1 DEF Critical
        <5> QED
          BY <5>1, <5>2
      <4> QED
        BY <4>4, <4>5, <4>6, <4>7
    <3>2. CASE ~Validator
      <4>1. is_validated
        BY <2>2, <3>2, LoopUnchanged DEF Next
      <4>2. Settled
        BY <4>1 DEF ValidatedInv
      <4>3. produced' = produced /\ plan' = plan
        BY <4>2, SettledStep
      <4> QED
        BY <2>2, <4>1, <4>3 DEF StaleInv, NothingStaleIsValidated
    <3> QED
      BY <3>1, <3>2
  <2> QED
    BY <2>1, <2>2 DEF StaleInv, NothingStaleIsValidated
<1>3. StaleInv => NothingStaleIsValidated
  BY DEF StaleInv
<1> QED
  BY <1>1, <1>2, <1>3, TypeCorrect, ScheduleCorrect, ValidatedCorrect, GatherCorrect, PTL DEF Spec

=============================================================================
