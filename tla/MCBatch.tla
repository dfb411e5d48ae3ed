------------------------------ MODULE MCBatch ------------------------------
(***************************************************************************)
(* Batches of three jobs with room for two: one whose tickers B and C have *)
(* run ids that _safe_token maps to one, and one that names A twice.       *)
(***************************************************************************)
EXTENDS Batch

MCTickers == {"A", "B", "C"}
MCLists == {<<"A", "B", "C">>, <<"A", "A", "B">>}
MCToken == [t \in MCTickers |-> IF t = "A" THEN "a" ELSE "bc"]

=============================================================================
