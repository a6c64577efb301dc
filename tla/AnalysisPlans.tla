----------------------------- MODULE AnalysisPlans -----------------------------
(***************************************************************************)
(* The pure functions between a question and its chart: the types the      *)
(* profiler gives a column, the prompts suggested for a dataset and after  *)
(* an answer, the rules that turn a question into a plan, the contract of  *)
(* a plan, its compilation to SQL and the choice of a chart.               *)
(*                                                                         *)
(* A dataset is the sequence of its columns and a column its place in it.  *)
(* A question is the set of the planner's keywords it contains and the     *)
(* columns it names, in the order it names them.  No column's name is cut  *)
(* in a prompt, contains a keyword or contains the name of another column. *)
(***************************************************************************)
EXTENDS Naturals, Sequences, FiniteSets

CONSTANTS
  ProfiledColumn,  \* the columns that may occur, as profiled
  PlanAggregation, \* aggregations of the plans that are tried
  MaxWidth,        \* bound on the columns of a dataset that is suggested for
  MaxPlanWidth     \* bound on the columns of a dataset that is planned for

NumericType == {"integer", "decimal"}
DateType == {"date", "timestamp"}
Aggregation == {"value", "count", "count_distinct", "sum", "average", "minimum",
                "maximum", "null_count"}

\* inferSemanticType; named: the name has a part "id", "uuid", "key" or "code",
\* few: its values are few for the rows there are.
SemanticType(named, type, few) ==
  IF named THEN "identifier"
  ELSE IF type \in DateType THEN "date"
  ELSE IF type \in NumericType THEN "numeric"
  ELSE IF type = "boolean" \/ few THEN "categorical"
  ELSE "free_text"

\* varied: 2 to 100 distinct values, gaps: some values are missing.
ColumnProfile ==
  {[type |-> t, semantic |-> SemanticType(named, t, few), varied |-> v, gaps |-> g] :
     t \in NumericType \cup DateType \cup {"boolean", "text"},
     named \in BOOLEAN, few \in BOOLEAN, v \in BOOLEAN, g \in BOOLEAN}

ASSUME ProfiledAssumption == ProfiledColumn \subseteq ColumnProfile
ASSUME AggregationAssumption == PlanAggregation \subseteq Aggregation
ASSUME WidthAssumption == MaxWidth \in Nat /\ MaxPlanWidth \in Nat

DatasetsUpTo(n) == UNION {[1..k -> ProfiledColumn] : k \in 1..n}

\* isNumeric and isDate, of the planner and of the compiler.
IsNumeric(column) == column.type \in NumericType
IsDate(column) == column.type \in DateType

Numbers(cols) == {c \in DOMAIN cols : IsNumeric(cols[c])}
Dates(cols) == {c \in DOMAIN cols : IsDate(cols[c])}
Labels(cols) == DOMAIN cols \ (Numbers(cols) \cup Dates(cols))

\* filter: the elements of s that are in wanted, in their order.  (SelectSeq, in a
\* form that can be reasoned about.)
Keep(s, wanted) ==
  LET kept[n \in 0..Len(s)] ==
        IF n = 0 THEN <<>>
        ELSE IF s[n] \in wanted THEN Append(kept[n - 1], s[n])
        ELSE kept[n - 1]
  IN kept[Len(s)]

\* slice(0, n), and the columns in ordinal order.
Firsts(s, n) == SubSeq(s, 1, IF Len(s) < n THEN Len(s) ELSE n)
Ordinals(cols) == [i \in DOMAIN cols |-> i]
Elements(s) == {s[i] : i \in DOMAIN s}

-----------------------------------------------------------------------------
(* The contract of a plan                                                   *)

\* Column 0 stands for columnId null.
RowCount == [column |-> 0, aggregation |-> "count"]
Measure(columns, aggregation) ==
  [i \in DOMAIN columns |-> [column |-> columns[i], aggregation |-> aggregation]]

MakePlan(operation, dimensions, measures, grain, sort, preference) ==
  [operation |-> operation, dimensions |-> dimensions, measures |-> measures,
   grain |-> grain, sort |-> sort, preference |-> preference]

Aggregates(p) == {p.measures[i].aggregation : i \in DOMAIN p.measures}

\* analysisPlanSchema, the bounds of its draft included.
MeetsContract(p) ==
  LET op == p.operation IN
  /\ Len(p.dimensions) <= (IF op = "lookup" THEN 8 ELSE 4)
  /\ Len(p.measures) <= 16
  /\ op # "lookup" => p.measures # <<>>
  /\ p.grain <=> op = "trend"
  /\ op \in {"aggregate", "quality", "correlate"} => p.dimensions = <<>>
  /\ op = "compare" => p.dimensions # <<>>
  /\ op \in {"trend", "distribution"} => Len(p.dimensions) = 1
  /\ op = "distribution" => /\ Len(p.measures) = 1
                            /\ Aggregates(p) \subseteq {"count", "count_distinct"}
  /\ op = "correlate" => /\ Len(p.measures) = 2
                         /\ Aggregates(p) = {"value"}
                         /\ p.sort = <<>>
  /\ op \notin {"correlate", "lookup"} => "value" \notin Aggregates(p)
  /\ op = "quality" => Aggregates(p) = {"null_count"}
  /\ op = "lookup" => p.dimensions # <<>> /\ p.measures = <<>>
  /\ \A i \in DOMAIN p.measures :
       p.measures[i].column = 0 => p.measures[i].aggregation = "count"

-----------------------------------------------------------------------------
(* DuckDbAnalysisCompiler                                                   *)

\* resultDataType and measureDataType
DataType(column) ==
  IF IsNumeric(column) THEN "number" ELSE IF IsDate(column) THEN "date" ELSE "category"
MeasureType(m, cols) ==
  IF m.aggregation \in {"minimum", "maximum", "value"} /\ m.column # 0
  THEN DataType(cols[m.column]) ELSE "number"

\* measureExpression
Measurable(m, cols) ==
  /\ m.column = 0 => m.aggregation = "count"
  /\ m.aggregation \in {"sum", "average"} => IsNumeric(cols[m.column])

\* The fields dimension_i and measure_i of the result, with their types.
DimensionFields(p, cols) ==
  [i \in DOMAIN p.dimensions |->
     [target |-> "dimension", index |-> i, type |-> DataType(cols[p.dimensions[i]])]]
MeasureFields(p, cols) ==
  [i \in DOMAIN p.measures |->
     [target |-> "measure", index |-> i, type |-> MeasureType(p.measures[i], cols)]]
ResultSchema(p, cols) ==
  IF p.operation = "correlate"
  THEN <<[target |-> "measure", index |-> 1, type |-> "number"]>>
  ELSE DimensionFields(p, cols) \o MeasureFields(p, cols)

IsField(s, field) == field.target = s.target /\ field.index = s.index

\* compile, and compileCorrelation for its own operation.
Compiles(p, cols) ==
  /\ Elements(p.dimensions) \subseteq DOMAIN cols
  /\ {p.measures[i].column : i \in DOMAIN p.measures} \ {0} \subseteq DOMAIN cols
  /\ IF p.operation = "correlate"
     THEN \A i \in DOMAIN p.measures : IsNumeric(cols[p.measures[i].column])
     ELSE /\ p.operation = "trend" => p.grain /\ IsDate(cols[p.dimensions[1]])
          /\ \A i \in DOMAIN p.measures : Measurable(p.measures[i], cols)
          /\ \A s \in Elements(p.sort) :
               \E field \in Elements(ResultSchema(p, cols)) : IsField(s, field)

-----------------------------------------------------------------------------
(* DeterministicAnalysisPlanner                                             *)

\* Its keywords, each for the words that are tested together.  "sum" stands for
\* the words that only say that a number is wanted.
Keyword == {"correlation", "missing", "trend", "distribution", "group", "rows",
            "summary", "overview", "count", "average", "minimum", "maximum", "sum"}

\* The keywords that decide, in the order they are tested.
Route(words) ==
  Keep(<<"correlation", "missing", "trend", "distribution", "group", "rows">>, words)

\* aggregationFromQuestion
AggregationFor(words) ==
  LET asked == Keep(<<"average", "minimum", "maximum", "count">>, words) IN
  IF asked # <<>> THEN asked[1] ELSE "sum"

\* A number of the named column, or of rows.
MeasureFor(numeric, words) ==
  IF numeric = <<>> THEN <<RowCount>> ELSE Measure(Firsts(numeric, 1), AggregationFor(words))

\* Seeded fault: a number is promised without a column to take it from.
TotalOfNothing(numeric, words) ==
  {<<[column |-> (IF numeric = <<>> THEN 0 ELSE numeric[1]),
      aggregation |-> AggregationFor(words)]>>}

\* The last group of keywords; without a numeric column only rows are counted.
Totals(numeric, words) ==
  IF "summary" \in words /\ numeric # <<>>
  THEN {[i \in 1..5 |-> [column |-> numeric[1],
                        aggregation |-> <<"count", "sum", "average", "minimum",
                                          "maximum">>[i]]]}
  ELSE IF numeric = <<>>
  THEN IF words \cap {"overview", "count"} # {} THEN {<<RowCount>>} ELSE {}
  ELSE {Measure(Firsts(numeric, 1), IF "count" \in words THEN "count"
                                    ELSE AggregationFor(words))}

\* The plan of a question; none if it is unsupported.
PlansFor(q, cols) ==
  LET numeric == Keep(q.names, Numbers(cols))
      dates == Keep(q.names \o Ordinals(cols), Dates(cols))
      groups == Keep(q.names, Labels(cols))
      categories == Keep(Ordinals(cols),
                         {c \in DOMAIN cols :
                            cols[c].semantic \in {"categorical", "identifier"}})
      selected == IF q.names = <<>> THEN Ordinals(cols) ELSE q.names
      most == <<[target |-> "measure", index |-> 1]>>
      route == Route(q.words)
      GroupedBy(candidates, operation, measures, preference) ==
        {MakePlan(operation, <<candidates[i]>>, measures, FALSE, most, preference) :
           i \in DOMAIN Firsts(candidates, 1)}
  IN IF route = <<>>
     THEN IF q.words = {} THEN {}
          ELSE {MakePlan("aggregate", <<>>, measures, FALSE, <<>>, "table") :
                  measures \in Totals(numeric, q.words)}
     ELSE CASE route[1] = "correlation" ->
                 IF Len(numeric) < 2 THEN {}
                 ELSE {MakePlan("correlate", <<>>, Measure(Firsts(numeric, 2), "value"),
                                FALSE, <<>>, "table")}
            [] route[1] = "missing" ->
                 {MakePlan("quality", <<>>, Measure(Firsts(selected, 16), "null_count"),
                           FALSE, <<>>, "table")}
            [] route[1] = "trend" ->
                 {MakePlan("trend", <<dates[i]>>, MeasureFor(numeric, q.words), TRUE,
                           <<>>, "line") : i \in DOMAIN Firsts(dates, 1)}
            [] route[1] = "distribution" ->
                 GroupedBy(groups \o q.names \o categories, "distribution",
                           <<RowCount>>, "auto")
            [] route[1] = "group" ->
                 GroupedBy(groups \o categories, "compare",
                           MeasureFor(numeric, q.words), "bar")
            [] route[1] = "rows" ->
                 {MakePlan("lookup", Firsts(selected, 8), <<>>, FALSE, <<>>, "table")}

-----------------------------------------------------------------------------
(* SuggestionService                                                        *)

\* numericColumns, dateColumns, categoricalColumns
NumericColumns(cols) ==
  Keep(Ordinals(cols), {c \in Numbers(cols) : cols[c].semantic = "numeric"})
DateColumns(cols) ==
  Keep(Ordinals(cols), Dates(cols) \cup {c \in DOMAIN cols : cols[c].semantic = "date"})

\* Seeded fault: identifiers are grouped by, whatever their type.
CategoricalOrIdentifier(cols) ==
  Keep(Ordinals(cols),
       {c \in DOMAIN cols : /\ cols[c].semantic \in {"categorical", "identifier"}
                            /\ cols[c].varied})

CategoricalColumns(cols) ==
  Keep(Ordinals(cols), {c \in DOMAIN cols : cols[c].semantic = "categorical" /\ cols[c].varied})

Suggestion(kind, columns) == [kind |-> kind, columns |-> columns]

\* createInitialDrafts, at most six of them.
InitialSuggestions(cols) ==
  LET numeric == NumericColumns(cols)
      dates == DateColumns(cols)
      categories == CategoricalColumns(cols)
      missing == Keep(Ordinals(cols), {c \in DOMAIN cols : cols[c].gaps})
      When(condition, kind, columns) ==
        IF condition THEN <<Suggestion(kind, columns)>> ELSE <<>>
  IN Firsts(
       <<Suggestion("overview", Firsts(Ordinals(cols), 4)),
         Suggestion("row_count", <<>>),
         Suggestion("missing_values",
                    Firsts(IF missing # <<>> THEN missing ELSE Ordinals(cols), 4))>>
       \o When(numeric # <<>> /\ categories # <<>>, "comparison",
               Firsts(numeric, 1) \o Firsts(categories, 1))
       \o When(numeric # <<>> /\ dates # <<>>, "trend",
               Firsts(numeric, 1) \o Firsts(dates, 1))
       \o When(Len(numeric) >= 2, "correlation", Firsts(numeric, 2))
       \o When(categories # <<>>, "distribution", Firsts(categories, 1)), 6)

\* [...new Set(columns)]
Distinct(columns) ==
  LET firsts == Keep(Ordinals(columns),
                     {i \in DOMAIN columns : \A j \in 1..(i - 1) : columns[j] # columns[i]})
  IN [i \in DOMAIN firsts |-> columns[firsts[i]]]

\* createFollowUpDrafts, at most four of them, for the plan p answered last.  A
\* draft that repeats the last question is dropped as well; it is kept here.
FollowUps(cols, p) ==
  LET measured == Keep([i \in DOMAIN p.measures |-> p.measures[i].column], DOMAIN cols)
      referenced == Distinct(p.dimensions \o measured)
      Unused(columns) ==
        Firsts(Keep(columns, DOMAIN cols \ Elements(referenced)), 1)
      measure == Firsts(measured, 1)
      dimension == Firsts(p.dimensions, 1)
      With(first, second, kind) ==
        IF first # <<>> /\ second # <<>> THEN <<Suggestion(kind, first \o second)>>
        ELSE <<>>
  IN Firsts(
       With(measure, Unused(CategoricalColumns(cols)), "drill_down")
       \o (IF p.operation = "trend" THEN <<>>
           ELSE With(measure, Unused(DateColumns(cols)), "trend"))
       \o With(measure, Unused(NumericColumns(cols)), "correlation")
       \o With(dimension, measure, "top_values")
       \o (IF referenced = <<>> THEN <<>>
           ELSE <<Suggestion("missing_values", Firsts(referenced, 4))>>), 4)

\* The keywords of the prompt of each kind.
PromptKeywords == [overview |-> {"rows"}, row_count |-> {"count"},
                   missing_values |-> {"count", "missing"},
                   comparison |-> {"group", "sum"}, drill_down |-> {"group", "sum"},
                   top_values |-> {"group", "sum"}, trend |-> {"trend", "group", "sum"},
                   correlation |-> {"correlation"}, distribution |-> {"distribution"}]
Prompt(s) == [words |-> PromptKeywords[s.kind], names |-> s.columns]

-----------------------------------------------------------------------------
(* selectChart                                                              *)

\* Seeded fault: one number is enough for a scatter plot.
ChartTypeScatterOfOne(p, numbers, categories, rows) ==
  IF rows = 0 \/ p.preference \in {"none", "table"} THEN "table"
  ELSE IF p.preference = "scatter" /\ numbers # <<>> THEN "scatter"
  ELSE "table"

ChartType(p, numbers, categories, rows) ==
  LET automatic ==
        IF p.operation = "trend" THEN "line"
        ELSE IF p.operation = "distribution" /\ rows <= 8 THEN "pie"
        ELSE IF p.operation \in {"compare", "distribution", "aggregate"} THEN "bar"
        ELSE "table"
      drawn == IF p.preference \in {"bar", "line", "pie"} THEN p.preference ELSE automatic
  IN IF rows = 0 \/ p.preference \in {"none", "table"} THEN "table"
     ELSE IF p.preference = "scatter" /\ Len(numbers) >= 2 THEN "scatter"
     ELSE IF numbers = <<>> \/ categories = <<>> THEN "table"
     ELSE IF drawn = "line" /\ categories[1].type # "date" THEN "table"
     ELSE drawn

\* x is a sequence of at most one field.
Chart(p, schema, rows) ==
  LET counted == {field \in Elements(schema) : field.type = "number"}
      numbers == Keep(schema, counted)
      categories == Keep(schema, Elements(schema) \ counted)
      type == ChartType(p, numbers, categories, rows)
  IN [type |-> type,
      x |-> CASE type = "table" -> <<>>
              [] type = "scatter" -> Firsts(numbers, 1)
              [] OTHER -> Firsts(categories, 1),
      series |-> CASE type = "table" -> Firsts(schema, 8)
                   [] type = "scatter" -> Tail(Firsts(numbers, 5))
                   [] OTHER -> Firsts(numbers, 4)]

\* chartSpecSchema and chartFieldsMatchResult; a chart that is drawn needs x.
MeetsChartContract(chart) ==
  /\ Len(chart.series) \in 1..8
  /\ chart.type # "table" => chart.x # <<>>
MatchesResult(chart, schema) ==
  /\ Elements(chart.x) \cup Elements(chart.series) \subseteq Elements(schema)
  /\ chart.type # "table" => \A field \in Elements(chart.series) : field.type = "number"

-----------------------------------------------------------------------------
(* Facts about the functions above, over the datasets and plans within the  *)
(* bounds                                                                    *)

SomeNames(cols) ==
  {<<>>} \cup {<<c>> : c \in DOMAIN cols}
         \cup {s \in (DOMAIN cols) \X (DOMAIN cols) : s[1] # s[2]}

\* Whatever a question names and whichever two keywords it contains, the plan
\* the rules make of it meets the contract and compiles: a question is answered
\* or found unsupported, and never fails in the engine.
EveryPlanExecutes ==
  \A cols \in DatasetsUpTo(MaxPlanWidth), v, w \in Keyword :
    \A names \in SomeNames(cols) :
      \A p \in PlansFor([words |-> {v, w}, names |-> names], cols) :
        MeetsContract(p) /\ Compiles(p, cols)

OperationOf == [overview |-> "lookup", row_count |-> "aggregate",
                missing_values |-> "quality", comparison |-> "compare",
                drill_down |-> "compare", top_values |-> "compare", trend |-> "trend",
                correlation |-> "correlate", distribution |-> "distribution"]

PlannedColumns(p) ==
  Elements(p.dimensions) \cup ({p.measures[i].column : i \in DOMAIN p.measures} \ {0})

\* The prompt of s is planned as what s says, over the columns of s.
AnsweredAsShown(s, cols) ==
  \E p \in PlansFor(Prompt(s), cols) :
    /\ p.operation = OperationOf[s.kind]
    /\ PlannedColumns(p) = Elements(s.columns)
    /\ Compiles(p, cols)

\* Totals and correlations are of numbers, and top values are those of a category.
OfItsTypes(s, cols) ==
  LET Type(i) == DataType(cols[s.columns[i]]) IN
  CASE s.kind \in {"drill_down", "trend", "correlation"} -> Type(1) = "number"
    [] s.kind = "top_values" -> Type(1) = "category" /\ Type(2) = "number"
    [] OTHER -> TRUE

\* The profiler's types, by which prompts are suggested, and the rules that plan
\* a question agree: every initial suggestion, and every follow-up to its answer
\* that asks a column for what its type allows, is planned with the operation
\* and exactly the columns it shows.
EverySuggestionIsAnswered ==
  \A cols \in DatasetsUpTo(MaxWidth) :
    \A s \in Elements(InitialSuggestions(cols)) :
      /\ AnsweredAsShown(s, cols)
      /\ \A p \in PlansFor(Prompt(s), cols) : \A f \in Elements(FollowUps(cols, p)) :
           OfItsTypes(f, cols) => AnsweredAsShown(f, cols)

\* Plans a model may return for cols: what the contract and the compiler accept
\* with up to two dimensions, up to two measures or one measure nine times.
TriedMeasures(cols) ==
  LET one == [column : 0..Len(cols), aggregation : PlanAggregation] IN
  {<<>>} \cup {<<m>> : m \in one} \cup (one \X one) \cup {[i \in 1..9 |-> m] : m \in one}
TriedPlans(cols) ==
  {p \in {MakePlan(op, dimensions, measures, op = "trend", <<>>, "auto") :
             op \in {"aggregate", "compare", "trend", "distribution", "correlate",
                     "quality", "lookup"},
             dimensions \in SomeNames(cols), measures \in TriedMeasures(cols)} :
     MeetsContract(p) /\ Compiles(p, cols)}

\* Whatever chart a plan prefers and however many rows it returns, the one that
\* is selected meets the chart contract and matches the result, draws no field
\* against itself and no empty result, and draws a line only over dates.
EveryChartFits ==
  \A cols \in DatasetsUpTo(MaxPlanWidth) : \A p \in TriedPlans(cols) :
    \A preference \in {"auto", "none", "table", "bar", "line", "pie", "scatter"},
       rows \in {0, 8, 9} :
      LET schema == ResultSchema(p, cols)
          chart == Chart([p EXCEPT !.preference = preference], schema, rows)
      IN /\ MeetsChartContract(chart)
         /\ MatchesResult(chart, schema)
         /\ chart.type # "table" =>
              rows > 0 /\ Elements(chart.series) \cap Elements(chart.x) = {}
         /\ chart.type = "line" => chart.x[1].type = "date"
=============================================================================
