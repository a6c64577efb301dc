----------------------------- MODULE MCAgentGraph -----------------------------
(* Two versions: the first with two columns that mean revenue, one of whose  *)
(* names contains the other's ("net_revenue" and "net_revenue_usd").         *)
(* The functions of AnalysisPlans are checked with it, over the datasets of  *)
(* up to MaxWidth columns of seven profiles.                                 *)
EXTENDS GraphAndPlans, TLC

CONSTANTS v1, v2, net, usd, sales, other, free

TwoVersions == v1 :> <<net, usd>> @@ v2 :> <<sales>>

UsdContainsNet == {<<usd, net>>}

\* A total of revenue, one recalled from earlier, and a question about what
\* can be done with a column it names.
Prompts == {[revenue |-> TRUE, names |-> {}, recalls |-> FALSE, executable |-> TRUE],
            [revenue |-> TRUE, names |-> {}, recalls |-> TRUE, executable |-> TRUE],
            [revenue |-> TRUE, names |-> {net}, recalls |-> FALSE, executable |-> FALSE]}

\* Counts rows, or measures one column, or groups by one.
Plans == {[measures |-> m, others |-> {}] : m \in {{}, {usd}, {sales}}}
         \cup {[measures |-> {net}, others |-> {}], [measures |-> {}, others |-> {net}]}

\* On the first version the first option is unknown, on the second the last.
OptionLists == {<<sales, other, usd>>}

Profile(named, type, few, varied, gaps) ==
  [type |-> type, semantic |-> SemanticType(named, type, few), varied |-> varied,
   gaps |-> gaps]

\* A number, two dates and a number of which two are keys, a flag, a category
\* of one value and text of many.
Profiles == {Profile(FALSE, "decimal", FALSE, TRUE, FALSE),
             Profile(FALSE, "date", FALSE, TRUE, FALSE),
             Profile(TRUE, "timestamp", FALSE, TRUE, FALSE),
             Profile(TRUE, "integer", FALSE, TRUE, FALSE),
             Profile(FALSE, "boolean", TRUE, TRUE, TRUE),
             Profile(FALSE, "text", TRUE, FALSE, FALSE),
             Profile(FALSE, "text", FALSE, TRUE, FALSE)}
==============================================================================
