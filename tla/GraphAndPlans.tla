----------------------------- MODULE GraphAndPlans -----------------------------
(***************************************************************************)
(* The graph that answers a prompt and the functions its deterministic     *)
(* parts call: the planner that is the model's fallback, the compiler of   *)
(* its plans, the chart and the prompts that are suggested around it.  The *)
(* graph takes a plan as the columns it uses; what these functions do with *)
(* plans and columns is looked at here, over the same runs.                *)
(***************************************************************************)
EXTENDS AgentGraph, AnalysisPlans

\* What AnalysisPlans says of its functions does not depend on the state; it is
\* looked at before the first prompt.
Opening == prompts = 0

\* Every plan the rules make of a question meets the contract and compiles.
PlansExecute == Opening => EveryPlanExecutes

\* Every suggestion that asks its columns for what their types allow is planned
\* as it reads, those that follow up on the answer to another included.
SuggestionsAnswered == Opening => EverySuggestionIsAnswered

\* The chart selected for a result fits the chart schema and the result.
ChartsFit == Opening => EveryChartFits
================================================================================
