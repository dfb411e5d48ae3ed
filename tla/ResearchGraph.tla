--------------------------- MODULE ResearchGraph ---------------------------
(***************************************************************************)
(* The compiled research graph (app/graph): planner, four researchers in   *)
(* parallel, the validator that joins them, the bounded retry loop back to *)
(* the planner, quant analysis, the human-approval interrupt before the    *)
(* synthesizer, synthesizer and formatter.                                 *)
(*                                                                         *)
(* One action is one node function of app/graph/nodes, applied to the      *)
(* ResearchState channels it reads and writes.  LangGraph's scheduler is   *)
(* external: nodes of one superstep see the same state, and their writes   *)
(* are applied together, in the order of the node names, once all of them  *)
(* have returned (FanIn).                                                  *)
(*                                                                         *)
(* Numbers are integers; a margin is in hundredths of a percent, which is  *)
(* what round(..., 2) keeps.  Of the years a text names only that of the   *)
(* period is kept.  Warnings, traces and wording are left out.             *)
(***************************************************************************)
EXTENDS Integers, Sequences, FiniteSets

CONSTANTS
  Filings,    \* lists of facts SECClient.get_quarterly_financials may return
  Plans,      \* ResearchPlans the planner may decide on, in each pass anew
  Periods,    \* reporting periods and anchors of evidence, and periods a plan may ask for
  Year,       \* the year a period names, Unknown when it names none ("latest")
  NewsLists,  \* lists of news items a search may return
  AuditLists, \* sets of issues the LLM audit may return
  Limits,     \* values of max_iterations a caller passes in
  Hitl,       \* ENABLE_HITL = "1" when the graph was compiled
  Edits,      \* evidence lists an analyst may post with a resume
  None        \* a channel that no node has written yet

Researchers == {"financial_researcher", "market_researcher",
                "rag_researcher", "web_researcher"}

Nodes == Researchers \cup
         {"planner", "validator", "quant_analysis", "synthesizer", "formatter"}

SourceTypes == {"FILING", "MARKET_API", "NEWS", "INTERNAL_DOCUMENT"}

Metrics == {"Revenue", "GrossProfit", "OperatingIncome", "Price"}

NoMetric == "no metric"

\* the period of market quotes, which have neither reporting_period nor temporal_anchor
Unknown == "unknown"

\* the fields of a ResearchPlan that the nodes after the planner read
ResearchPlan == [required_raw_metrics : SUBSET Metrics, periods_to_fetch : Seq(Periods)]

\* the channel before the first plan; the planner runs before any node that reads it
NoPlan == [required_raw_metrics |-> {}, periods_to_fetch |-> <<>>]

(***************************************************************************)
(* An Evidence item.  The producers set metric and value together, so      *)
(* metric = NoMetric also says that there is no value.                     *)
(***************************************************************************)
Evidence == [source_type : SourceTypes, metric : Metrics \cup {NoMetric},
             period : Periods, value : Int]

Issues == [issue_type : {"MISSING_METRIC", "ARITHMETIC_INCONSISTENCY",
                         "PERIOD_INCONSISTENCY", "SEMANTIC_AUDIT"},
           severity : {"CRITICAL", "WARNING"}]

ASSUME ConstantsAssumption ==
  /\ Unknown \in Periods
  /\ Year[Unknown] = Unknown
  /\ Filings \subseteq Seq([metric : Metrics \ {"Price"}, period : Periods, value : Int])
  /\ Plans \subseteq ResearchPlan
  /\ NewsLists \subseteq
       Seq([source_type : {"NEWS"}, metric : {NoMetric}, period : Periods, value : {0}])
  /\ AuditLists \subseteq SUBSET Issues
  /\ Limits \subseteq Nat
  /\ Hitl \in BOOLEAN
  /\ Edits \subseteq Seq(Evidence)

VARIABLES
  next,              \* nodes the next superstep will run (StateSnapshot.next)
  returned,          \* writes of the researchers of this superstep that have returned
  outcome,           \* running, interrupted before the synthesizer, done, or raised
  plan, evidence, iteration_count, max_iterations, is_validated,
  validation_result, calculated_metrics, raw_synthesis, final_report,
  produced,          \* history: everything each researcher ever returned
  approved,          \* history: the evidence the analyst last approved
  edited             \* history: an analyst has replaced the evidence

channels == <<plan, evidence, iteration_count, max_iterations, is_validated,
              validation_result, calculated_metrics, raw_synthesis, final_report>>
history == <<produced, approved, edited>>
vars == <<next, returned, outcome, channels, history>>

-----------------------------------------------------------------------------
(* What the node functions compute *)

\* indices of the items that carry a value, as _evidence_to_raw_metrics keeps them
Quantitative(ev) == {i \in 1..Len(ev) : ev[i].metric # NoMetric}

Of(ev, metric) == {i \in Quantitative(ev) : ev[i].metric = metric}

At(ev, metric, period) == {i \in Of(ev, metric) : ev[i].period = period}

\* a dict filled in list order keeps the last item written under a key
LastOf(ev, indices) == ev[CHOOSE i \in indices : \A j \in indices : j <= i]

\* (mutation) the arithmetic check alone, required metrics unchecked
DeterministicIssuesArithmeticOnly(ev, required) ==
  {[issue_type |-> "ARITHMETIC_INCONSISTENCY", severity |-> "CRITICAL"] :
      p \in {p \in Periods :
               /\ At(ev, "Revenue", p) # {} /\ At(ev, "GrossProfit", p) # {}
               /\ LastOf(ev, At(ev, "GrossProfit", p)).value > LastOf(ev, At(ev, "Revenue", p)).value}}

\* run_deterministic_validation: one issue per kind, the fields are left out
DeterministicIssues(ev, required) ==
  {[issue_type |-> "MISSING_METRIC", severity |-> "CRITICAL"] :
      m \in {m \in required : Of(ev, m) = {}}}
  \cup
  {[issue_type |-> "ARITHMETIC_INCONSISTENCY", severity |-> "CRITICAL"] :
      p \in {p \in Periods :
               /\ At(ev, "Revenue", p) # {} /\ At(ev, "GrossProfit", p) # {}
               /\ LET revenue == LastOf(ev, At(ev, "Revenue", p)).value
                  IN  /\ LastOf(ev, At(ev, "GrossProfit", p)).value > revenue
                      /\ revenue > 0}}

\* the years a plan asks for; a plan whose periods name none asks for no year in particular
WantedYears(requested) == {Year[requested[k]] : k \in DOMAIN requested} \ {Unknown}

\* an item without a figure, or a qualitative one, of none of the years asked for
IsStale(item, requested) ==
  /\ WantedYears(requested) # {}
  /\ Year[item.period] \notin WantedYears(requested) \cup {Unknown}
  /\ item.source_type \in {"NEWS", "INTERNAL_DOCUMENT"} \/ item.metric = NoMetric

\* _temporal_and_conflict_issues; CONFLICTING_VALUES is only ever a warning
TemporalIssues(ev, requested) ==
  {[issue_type |-> "PERIOD_INCONSISTENCY", severity |-> "CRITICAL"] :
      i \in {i \in 1..Len(ev) : IsStale(ev[i], requested)}}

Critical(issues) == {issue \in issues : issue.severity = "CRITICAL"}

\* Python's round(n / d) for d > 0: to the nearest integer, to the even one halfway
Rounded(n, d) ==
  LET twice == 2 * (n % d)
  IN  IF twice < d \/ (twice = d /\ (n \div d) % 2 = 0) THEN n \div d ELSE n \div d + 1

\* calculate_margin, in hundredths of a percent
Margin(numerator, denominator) ==
  IF denominator = 0 THEN 0
  ELSE IF denominator > 0 THEN Rounded(numerator * 10000, denominator)
  ELSE Rounded((0 - numerator) * 10000, 0 - denominator)

\* Mock_Margin is the gross margin under a second name
Numerator == [GrossMargin |-> "GrossProfit", Mock_Margin |-> "GrossProfit",
              OperatingMargin |-> "OperatingIncome"]

\* quant_analysis_node's calculated dict, from the last value of each metric
Calculated(ev) ==
  LET known == {k \in DOMAIN Numerator : Of(ev, "Revenue") # {} /\ Of(ev, Numerator[k]) # {}}
      \* the stub kept when no margin can be computed
      keys  == IF known = {} /\ Quantitative(ev) # {} THEN {"Mock_Margin"} ELSE known
  IN  [k \in keys |->
         IF known = {} THEN 10000
         ELSE Margin(LastOf(ev, Of(ev, Numerator[k])).value,
                     LastOf(ev, Of(ev, "Revenue")).value)]

\* formatter_node's financial_metrics
FinancialMetrics(ev) ==
  [m \in {ev[i].metric : i \in Quantitative(ev)} |-> LastOf(ev, Of(ev, m)).value]

\* route_after_validation
Route(validated, iteration, limit) ==
  IF ~validated /\ iteration < limit THEN "planner" ELSE "quant_analysis"

\* the one way to list the numbers of K from the smallest to the largest
Ascending(K) ==
  {f \in [1..Cardinality(K) -> K] : \A i, j \in DOMAIN f : i < j => f[i] < f[j]}

\* financial_researcher_node keeps the facts of the required metrics, if any is required
FilingEvidence(filing, required) ==
  LET kept == {i \in 1..Len(filing) : required = {} \/ filing[i].metric \in required}
  IN  {[i \in DOMAIN f |->
          [source_type |-> "FILING", metric |-> filing[f[i]].metric,
           period |-> filing[f[i]].period, value |-> filing[f[i]].value]] :
         f \in Ascending(kept)}

\* market_researcher_node skips the fields of a quote that are missing; the price stands for
\* all of them
Quotes ==
  {<<[source_type |-> "MARKET_API", metric |-> "Price", period |-> Unknown, value |-> 1]>>}

\* rag_researcher_node asks for the plan's first period, if there is one, and drops every
\* chunk with a temporal warning, that is of another period; every chunk has a period
Excerpts(requested) ==
  {<<[source_type |-> "INTERNAL_DOCUMENT", metric |-> NoMetric, period |-> p, value |-> 0]>> :
     p \in {p \in Periods \ {Unknown} : requested # <<>> => p = requested[1]}}

\* the lists each researcher may return when its sources answer
Gathered ==
  [financial_researcher |-> UNION {FilingEvidence(f, plan.required_raw_metrics) : f \in Filings},
   market_researcher |-> Quotes,
   rag_researcher |-> Excerpts(plan.periods_to_fetch),
   web_researcher |-> NewsLists]

\* every one of them returns [] on an exception
Answers(r) == {<<>>} \cup Gathered[r]

-----------------------------------------------------------------------------
(* The nodes *)

Init ==
  /\ next = {"planner"}
  /\ returned = <<>>
  /\ outcome = "running"
  /\ plan = NoPlan
  /\ evidence = <<>>
  /\ iteration_count = 0
  /\ max_iterations \in Limits
  /\ is_validated = FALSE
  /\ validation_result = None
  /\ calculated_metrics = <<>>
  /\ raw_synthesis = None
  /\ final_report = None
  /\ produced = [r \in Researchers |-> <<>>]
  /\ approved = None
  /\ edited = FALSE

Ready(node) == outcome = "running" /\ node \in next

\* (mutation) the workflow lacks the edge from the planner to one researcher
FanOutWithoutRag == Researchers \ {"rag_researcher"}

\* the edges from the planner
FanOut == Researchers

\* planner_node: an LLM plan, or the inferred one when the LLM fails; a second pass may ask
\* for other metrics and other periods than the first
Planner ==
  /\ Ready("planner")
  /\ plan' \in Plans
  /\ next' = FanOut
  /\ UNCHANGED <<returned, outcome, evidence, iteration_count, max_iterations, is_validated,
                 validation_result, calculated_metrics, raw_synthesis, final_report, history>>

\* a researcher node returns; its writes wait for the rest of the superstep
Research(r) ==
  /\ Ready(r)
  /\ r \notin DOMAIN returned
  /\ \E answer \in Answers(r) :
       /\ returned' = [q \in DOMAIN returned \cup {r} |-> IF q = r THEN answer ELSE returned[q]]
       /\ produced' = [produced EXCEPT ![r] = @ \o answer]
  /\ UNCHANGED <<next, outcome, channels, approved, edited>>

\* (mutation) a channel without a reducer keeps the writes of the last pass only
ReducedToLastPass(ev, writes) ==
  writes["financial_researcher"] \o writes["market_researcher"]
     \o writes["rag_researcher"] \o writes["web_researcher"]

\* the operator.add reducer of the evidence channel, over the writes in node-name order
Reduced(ev, writes) ==
  ev \o writes["financial_researcher"] \o writes["market_researcher"]
     \o writes["rag_researcher"] \o writes["web_researcher"]

\* (mutation) the join waits for evidence from every researcher
AllReturnedEvidence ==
  DOMAIN returned = Researchers /\ \A r \in Researchers : returned[r] # <<>>

AllReturned == DOMAIN returned = Researchers

\* the edge from all four researchers to the validator
FanIn ==
  /\ outcome = "running"
  /\ AllReturned
  /\ evidence' = Reduced(evidence, returned)
  /\ returned' = <<>>
  /\ next' = {"validator"}
  /\ UNCHANGED <<outcome, plan, iteration_count, max_iterations, is_validated,
                 validation_result, calculated_metrics, raw_synthesis, final_report, history>>

\* (mutation) the last pass still asks for a retry
RetryNeededWithoutLimit(firstPass, critical, iteration) == firstPass \/ critical # {}

RetryNeeded(firstPass, critical, iteration) ==
  firstPass \/ (critical # {} /\ iteration < max_iterations)

\* (mutation) the semantic audit does not count
PassedIgnoringSemantic(firstPass, deterministic, semantic) ==
  ~firstPass /\ Critical(deterministic) = {}

Passed(firstPass, deterministic, semantic) ==
  ~firstPass /\ Critical(deterministic) = {} /\ Critical(semantic) = {}

\* validator_node for given issues, with the edge route_after_validation chooses
Audit(deterministic, semantic) ==
  LET iteration == iteration_count + 1
      critical  == Critical(deterministic \cup semantic)
      firstPass == iteration = 1 /\ iteration < max_iterations
      passed    == Passed(firstPass, deterministic, semantic)
  IN  /\ iteration_count' = iteration
      /\ is_validated' = passed
      /\ validation_result' =
           [is_valid |-> passed /\ critical = {},
            deterministic_passed |-> Critical(deterministic) = {},
            semantic_passed |-> Critical(semantic) = {},
            retry_needed |-> RetryNeeded(firstPass, critical, iteration)]
      /\ next' = {Route(passed, iteration, max_iterations)}

\* the LLM audit that fails counts as passed, with no issues
Validator ==
  /\ Ready("validator")
  /\ \E llm \in AuditLists \cup {{}} :
       Audit(DeterministicIssues(evidence, plan.required_raw_metrics),
             TemporalIssues(evidence, plan.periods_to_fetch) \cup llm)
  /\ UNCHANGED <<returned, outcome, plan, evidence, max_iterations, calculated_metrics,
                 raw_synthesis, final_report, history>>

\* (mutation) compiled without interrupt_before
InterruptBeforeNothing == {}

\* the interrupt_before list the graph is compiled with
InterruptBefore == IF Hitl THEN {"synthesizer"} ELSE {}

\* quant_analysis_node; the graph stops before the synthesizer when compiled for HITL
QuantAnalysis ==
  /\ Ready("quant_analysis")
  /\ calculated_metrics' = Calculated(evidence)
  /\ next' = {"synthesizer"}
  /\ outcome' = IF "synthesizer" \in InterruptBefore THEN "interrupted" ELSE "running"
  /\ UNCHANGED <<returned, plan, evidence, iteration_count, max_iterations, is_validated,
                 validation_result, raw_synthesis, final_report, history>>

\* resume_run on a paused graph: an optional Overwrite of the evidence, then astream(None)
Resume ==
  /\ outcome = "interrupted"
  /\ \/ evidence' = evidence /\ edited' = edited
     \/ evidence' \in Edits /\ edited' = TRUE
  /\ approved' = evidence'
  /\ outcome' = "running"
  /\ UNCHANGED <<next, returned, plan, iteration_count, max_iterations, is_validated,
                 validation_result, calculated_metrics, raw_synthesis, final_report, produced>>

\* synthesizer_node: LLM or fallback text over the evidence and the computed metrics, and a
\* summary in final_report that the formatter replaces
Synthesizer ==
  /\ Ready("synthesizer")
  /\ raw_synthesis' = [calculated_metrics |-> calculated_metrics, evidence |-> evidence]
  /\ final_report' = [evidence_count |-> Len(evidence)]
  /\ next' = {"formatter"}
  /\ UNCHANGED <<returned, outcome, plan, evidence, iteration_count, max_iterations, is_validated,
                 validation_result, calculated_metrics, history>>

\* formatter_node assembles the ResearchReport from the channels
Formatter ==
  /\ Ready("formatter")
  /\ final_report' = [financial_metrics |-> FinancialMetrics(evidence),
                      derived_metrics |-> calculated_metrics,
                      evidence |-> evidence,
                      validation_audit |-> validation_result]
  /\ next' = {}
  /\ outcome' = "done"
  /\ UNCHANGED <<returned, plan, evidence, iteration_count, max_iterations, is_validated,
                 validation_result, calculated_metrics, raw_synthesis, history>>

\* an exception outside a node's try block (building the chat model, validating the
\* audit or the report) ends astream; researchers catch everything
NodeRaises ==
  /\ \E n \in Nodes \ (Researchers \cup {"quant_analysis"}) : Ready(n)
  /\ outcome' = "raised"
  /\ UNCHANGED <<next, returned, channels, history>>

Next ==
  \/ Planner
  \/ \E r \in Researchers : Research(r)
  \/ FanIn
  \/ Validator
  \/ QuantAnalysis
  \/ Resume
  \/ Synthesizer
  \/ Formatter
  \/ NodeRaises

\* every node call returns or raises; nothing obliges an analyst to resume
Fairness ==
  /\ WF_vars(Planner) /\ WF_vars(FanIn) /\ WF_vars(Validator) /\ WF_vars(QuantAnalysis)
  /\ WF_vars(Synthesizer) /\ WF_vars(Formatter)
  /\ \A r \in Researchers : WF_vars(Research(r))

Spec == Init /\ [][Next]_vars /\ Fairness

-----------------------------------------------------------------------------
(* Properties *)

Outcomes == {"running", "interrupted", "done", "raised"}

Validation == [is_valid : BOOLEAN, deterministic_passed : BOOLEAN,
               semantic_passed : BOOLEAN, retry_needed : BOOLEAN]

\* Every channel holds a value of its declared type, and the scheduler runs either one
\* node or the whole fan-out (ResearchState, build_research_graph).
TypeOK ==
  /\ next \in {{"planner"}, Researchers, {"validator"}, {"quant_analysis"},
               {"synthesizer"}, {"formatter"}, {}}
  /\ DOMAIN returned \subseteq Researchers
  /\ \A r \in DOMAIN returned : returned[r] \in Seq(Evidence)
  /\ outcome \in Outcomes
  /\ plan \in ResearchPlan
  /\ evidence \in Seq(Evidence)
  /\ iteration_count \in Nat
  /\ max_iterations \in Limits
  /\ is_validated \in BOOLEAN
  /\ validation_result \in Validation \cup {None}
  /\ produced \in [Researchers -> Seq(Evidence)]
  /\ approved \in Seq(Evidence) \cup {None}
  /\ edited \in BOOLEAN

\* The retry loop is bounded: the planner starts at most Max(1, max_iterations) passes,
\* whatever the validator keeps finding ("a bad plan cannot spin forever").
PassesBounded ==
  /\ iteration_count <= max_iterations \/ iteration_count = 1
  /\ next \cap (Researchers \cup {"planner", "validator"}) # {} =>
       iteration_count < max_iterations \/ iteration_count = 0

\* What the audit of validator_node tells the client (retry_needed, is_valid) is what
\* route_after_validation, which never reads it, does with the run.
AuditAgreesWithRoute ==
  validation_result # None =>
    /\ validation_result.retry_needed <=>
         next \cap (Researchers \cup {"planner", "validator"}) # {}
    /\ validation_result.is_valid <=> is_validated

Source == [financial_researcher |-> "FILING", market_researcher |-> "MARKET_API",
           rag_researcher |-> "INTERNAL_DOCUMENT", web_researcher |-> "NEWS"]

\* where the items of ev are that researcher r gathers
ItemsOf(ev, r) == {i \in 1..Len(ev) : ev[i].source_type = Source[r]}

\* The items of r in ev are those of the list, in its order: the k-th one is the k-th.
Holds(ev, r, list) ==
  /\ Len(list) = Cardinality(ItemsOf(ev, r))
  /\ \A i \in ItemsOf(ev, r) : ev[i] = list[Cardinality({j \in ItemsOf(ev, r) : j <= i})]

\* Fan-in loses and repeats nothing: unless an analyst replaced it, the evidence is
\* everything the researchers returned over all passes, each one's items in order.
NoEvidenceLost ==
  ~edited /\ returned = <<>> => \A r \in Researchers : Holds(evidence, r, produced[r])

\* final_report holds the formatter's report
Reported == outcome = "done"

\* A report of a graph compiled for HITL shows exactly the evidence the analyst resumed
\* it with: nothing is gathered or replaced between the approval and the formatter.
ReportShowsApprovedEvidence ==
  Hitl /\ Reported => final_report.evidence = approved

\* A report whose audit is valid shows a figure for every metric the plan required.
ValidReportIsComplete ==
  Reported /\ ~edited =>
    (final_report.validation_audit.is_valid =>
       plan.required_raw_metrics \subseteq DOMAIN final_report.financial_metrics)

\* Evidence only ever grows and the planner plans anew in each pass, so a validated run is
\* one in which nothing any researcher gathered, for whichever plan of whichever pass, is
\* news or an excerpt of another year than those the last plan asks for.
NothingStaleIsValidated ==
  is_validated =>
    \A r \in Researchers : \A k \in 1..Len(produced[r]) :
      ~IsStale(produced[r][k], plan.periods_to_fetch)

\* The graph never runs forever: it always comes to rest again, finished, failed or
\* waiting for the analyst, and it does so after each resume.
ComesToRest == []<>(outcome # "running")

\* A valid report's gross margin is at most 100%: the validator rejects a gross profit
\* above the revenue of its period as "an invalid financial state".
ValidMarginAtMost100 ==
  Reported /\ ~edited =>
    (/\ final_report.validation_audit.is_valid
     /\ "GrossMargin" \in DOMAIN final_report.derived_metrics =>
       final_report.derived_metrics.GrossMargin <= 10000)

\* The gross margin a report states is what the formula printed beside it gives for the
\* gross profit and the revenue the same report shows.
MarginMatchesFigures ==
  Reported =>
    LET figures == final_report.financial_metrics
        derived == final_report.derived_metrics
    IN  "GrossMargin" \in DOMAIN derived /\ {"GrossProfit", "Revenue"} \subseteq DOMAIN figures =>
          derived.GrossMargin = Margin(figures.GrossProfit, figures.Revenue)

=============================================================================
