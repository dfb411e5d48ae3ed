-------------------------- MODULE MCResearchGraph --------------------------
(***************************************************************************)
(* A small instance of the research graph: quarters of two years that the  *)
(* planner may ask for in any pass, or ask for neither, two SEC answers    *)
(* besides the failure, up to three passes.                                *)
(***************************************************************************)
EXTENDS ResearchGraph

Fact(m, p, v) == [metric |-> m, period |-> p, value |-> v]
News(p) == [source_type |-> "NEWS", metric |-> NoMetric, period |-> p, value |-> 0]

\* newest period first, concept by concept: a filing whose gross profit exceeds the
\* revenue, and a sound one that reports no gross profit for the older period
MCFilings ==
  {<<Fact("Revenue", "Q3-2025", 2), Fact("GrossProfit", "Q3-2025", 3)>>,
   <<Fact("Revenue", "Q3-2025", 4), Fact("Revenue", "Q3-2019", 2),
     Fact("GrossProfit", "Q3-2025", 3), Fact("OperatingIncome", "Q3-2025", 1)>>}

MCPeriods == {"Q3-2025", "Q3-2019", Unknown}

MCYear == [p \in MCPeriods |-> CASE p = "Q3-2025" -> "2025" [] p = "Q3-2019" -> "2019" [] OTHER -> Unknown]

\* either year, or whatever is latest
MCPlans ==
  {[required_raw_metrics |-> {"Revenue", "GrossProfit"}, periods_to_fetch |-> requested] :
     requested \in {<<"Q3-2025">>, <<"Q3-2019">>, <<>>}}

\* a search result of the older year
MCNewsLists == {<<News("Q3-2019")>>}

MCAuditLists == {{[issue_type |-> "SEMANTIC_AUDIT", severity |-> "CRITICAL"]}}

Filed(m, v) == [source_type |-> "FILING", metric |-> m, period |-> "Q3-2025", value |-> v]

\* the analyst strikes everything, or corrects the figures
MCEdits == {<<>>, <<Filed("Revenue", 2), Filed("GrossProfit", 1)>>}

\* (bound) at most one researcher of a superstep returns nothing
FewFail == Cardinality({r \in DOMAIN returned : returned[r] = <<>>}) <= 1

=============================================================================
