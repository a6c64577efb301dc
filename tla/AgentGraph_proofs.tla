-------------------------- MODULE AgentGraph_proofs --------------------------
(***************************************************************************)
(* Proofs about AgentGraph, for every set of versions, columns, questions  *)
(* and model outputs and for every limit, and about the functions of       *)
(* AnalysisPlans, for datasets of any width and questions of any words.    *)
(***************************************************************************)
EXTENDS GraphAndPlans, WellFoundedInduction, SequenceTheorems, TLAPS

-----------------------------------------------------------------------------
(* Types *)

LEMMA EmptyOptions == <<>> \in OptionList
<1>1. <<>> \in [{} -> Option]
  OBVIOUS
<1>2. {} \in SUBSET (1..MaxOptions)
  OBVIOUS
<1> QED
  BY <1>1, <1>2 DEF OptionList

LEMMA InitialSnapshotType == InitialSnapshot \in Snapshot
<1>1. NoClarification \in Clarification
  BY EmptyOptions DEF NoClarification, Clarification
<1> QED
  BY <1>1 DEF InitialSnapshot, Snapshot

\* The columns a version offers make an option list.
LEMMA RevenueOptionsType ==
  ASSUME NEW v \in Version
  PROVE  RevenueOptions(v) \in OptionList
<1> DEFINE S == {j \in DOMAIN Columns[v] : Columns[v][j] \in Revenue}
<1>1. Columns[v] \in Seq(Column) /\ Len(Columns[v]) <= MaxOptions
  BY ColumnsAssumption
<1>2. S \in SUBSET (1..MaxOptions)
  BY <1>1, LimitsAssumption
<1>3. \A i \in S : Columns[v][i] \in Option
  BY <1>1 DEF Option
<1>4. [i \in S |-> Columns[v][i]] \in [S -> Option]
  BY <1>3
<1> QED
  BY <1>2, <1>4 DEF OptionList, RevenueOptions

\* What is left of an option list is one.
LEMMA KnownOptionsType ==
  ASSUME NEW o \in OptionList, NEW v
  PROVE  KnownOptions(o, v) \in OptionList
<1> DEFINE S == {j \in DOMAIN o : o[j] \in Concept \cup ColumnsOf(v)}
<1>1. PICK T \in SUBSET (1..MaxOptions) : o \in [T -> Option]
  BY DEF OptionList
<1>2. S \in SUBSET (1..MaxOptions)
  BY <1>1
<1>3. [i \in S |-> o[i]] \in [S -> Option]
  BY <1>1
<1>4. KnownOptions(o, v) = [i \in S |-> o[i]]
  BY DEF KnownOptions
<1> HIDE DEF S
<1> QED
  BY <1>2, <1>3, <1>4 DEF OptionList

LEMMA ModelDecisionsType == ModelDecisions \subseteq Decision
<1> SUFFICES ASSUME NEW d \in ModelDecisions
             PROVE  d \in Decision
  OBVIOUS
<1>1. CASE \E k \in {"malformed", "history", "unsupported"} :
             d = [kind |-> k, asks |-> FALSE, plan |-> None, options |-> <<>>]
  BY <1>1, EmptyOptions DEF Decision
<1>2. CASE \E p \in PlanDraft :
             d = [kind |-> "analysis", asks |-> FALSE, plan |-> p, options |-> <<>>]
  BY <1>2, EmptyOptions, DraftAssumption DEF Decision
<1>3. CASE \E p \in PlanDraft \cup {None}, o \in OptionDraft :
             d = [kind |-> "analysis", asks |-> TRUE, plan |-> p, options |-> o]
  BY <1>3, DraftAssumption DEF Decision
<1> QED
  BY <1>1, <1>2, <1>3 DEF ModelDecisions

\* From the first node on, a version is known; what validate_plan tests exists.
Located ==
  /\ node \in GraphNode \ {"authorize_and_load_context"} => snapshot.version \in Version
  /\ node = "validate_plan" /\ outcome = "continue" => decision \in Decision

OutcomeType == {"continue", "waiting_for_user", "direct_response", "completed"}

LEMMA AskingType ==
  ASSUME TypeOK, NEW b \in BOOLEAN, NEW o \in OptionList
  PROVE  /\ Asking(b, o) \in Snapshot
         /\ Asking(b, o).version = snapshot.version
<1> DEFINE c == [status |-> "pending", revenue |-> b, options |-> o, answer |-> None]
<1>1. c \in Clarification
  BY DEF Clarification
<1>2. Asking(b, o) = [snapshot EXCEPT !.plan = None, !.clarification = c]
  BY DEF Asking
<1> HIDE DEF c
<1>3. snapshot \in Snapshot
  BY DEF TypeOK
<1> QED
  BY <1>1, <1>2, <1>3 DEF Snapshot

LEMMA ToolCallsType == ToolCalls(node) \in Nat
  BY DEF ToolCalls

LEMMA TypesInit == Init => TypeOK /\ Located
<1> SUFFICES ASSUME Init
             PROVE  TypeOK /\ Located
  OBVIOUS
<1>1. definition \in [Version -> Column \cup {None}]
  BY DEF Init
<1>2. checkpoint \in Snapshot /\ snapshot \in Snapshot
  BY InitialSnapshotType DEF Init
<1> QED
  BY <1>1, <1>2 DEF Init, TypeOK, Located, RunStatus, NodeState, GraphNode

\* A node that ends its work leaves values of the right types.
LEMMA WorkTypes ==
  ASSUME TypeOK,
         NEW s \in Snapshot, s.version \in Version, Persist(s), LeaveTables,
         NEW n \in GraphNode \cup {"END"}, GoTo(n),
         decision' \in Decision \cup {None},
         analysis' \in Analysis \cup {None},
         outcome' \in OutcomeType,
         planCalls' \in Nat,
         n = "validate_plan" /\ outcome' = "continue" => decision' \in Decision
  PROVE  TypeOK' /\ Located'
  BY DEF TypeOK, Located, Persist, GoTo, LeaveTables, NodeState, OutcomeType

LEMMA TypesNext ==
  ASSUME TypeOK, Located, [Next]_vars
  PROVE  TypeOK' /\ Located'
<1> USE DEF LeaveTables, tables, thread
<1>1. CASE Claim
  BY <1>1 DEF Claim, TypeOK, Located, GoTo, Loaded, RunStatus, ActiveStatus, NodeState,
              GraphNode
<1>2. CASE EnterNode
  <2> DEFINE s == [snapshot EXCEPT !.steps = @ + 1, !.tools = @ + ToolCalls(node)]
  <2>1. s \in Snapshot /\ s.version = snapshot.version
    <3> DEFINE m == snapshot.steps + 1
               k == snapshot.tools + ToolCalls(node)
    <3>1. snapshot \in Snapshot /\ m \in Nat /\ k \in Nat
      BY ToolCallsType DEF TypeOK, Snapshot
    <3>2. s = [snapshot EXCEPT !.steps = m, !.tools = k]
      OBVIOUS
    <3> HIDE DEF s, m, k
    <3> QED
      BY <3>1, <3>2 DEF Snapshot
  <2>2. snapshot' = s
    BY <1>2 DEF EnterNode
  <2> HIDE DEF s
  <2>3. TypeOK'
    <3>1. snapshot' \in Snapshot /\ working' \in BOOLEAN
      BY <1>2, <2>1, <2>2 DEF EnterNode
    <3>2. UNCHANGED <<tables, node, decision, analysis, outcome, planCalls>>
      BY <1>2 DEF EnterNode
    <3> QED
      BY <3>1, <3>2 DEF TypeOK
  <2>4. Located'
    BY <1>2, <2>1, <2>2 DEF EnterNode, Located
  <2> QED
    BY <2>3, <2>4
<1>3. CASE StopAtNode
  BY <1>3 DEF StopAtNode, TypeOK, Located, GoTo, NodeState, GraphNode
<1>4. CASE WorkThrows
  BY <1>4 DEF WorkThrows, TypeOK, Located, GoTo, NodeState, GraphNode
<1>5. CASE Authorize
  <2> DEFINE s == [snapshot EXCEPT !.version = attached]
  <2>1. s \in Snapshot /\ s.version \in Version
    BY <1>5 DEF Authorize, TypeOK, Snapshot
  <2>2. Persist(s) /\ GoTo("classify_intent") /\ LeaveTables
    BY <1>5 DEF Authorize
  <2> HIDE DEF s
  <2> QED
    BY <1>5, <2>1, <2>2, WorkTypes DEF Authorize, TypeOK, GraphNode, OutcomeType
<1>6. CASE RetrieveContext
  <2> DEFINE s == [snapshot EXCEPT !.remembered = RememberedFor(snapshot.version)]
  <2>1. snapshot.version \in Version
    BY <1>6 DEF RetrieveContext, WorksIn, Located, GraphNode
  <2>2. RememberedFor(snapshot.version) \in Column \cup {None}
    BY <2>1 DEF RememberedFor, TypeOK
  <2>3. s \in Snapshot /\ s.version \in Version
    BY <2>1, <2>2 DEF TypeOK, Snapshot
  <2>4. Persist(s) /\ GoTo("create_analysis_plan") /\ LeaveTables
    BY <1>6 DEF RetrieveContext
  <2> HIDE DEF s
  <2> QED
    BY <1>6, <2>3, <2>4, WorkTypes DEF RetrieveContext, TypeOK, GraphNode, OutcomeType
<1>7. CASE AskAboutRevenue
  <2> DEFINE s == Asking(TRUE, RevenueOptions(snapshot.version))
  <2>1. snapshot.version \in Version
    BY <1>7 DEF AskAboutRevenue, WorksIn, Located, GraphNode
  <2>2. s \in Snapshot /\ s.version \in Version
    BY <2>1, RevenueOptionsType, AskingType
  <2>3. Persist(s) /\ GoTo("validate_plan") /\ LeaveTables
    BY <1>7 DEF AskAboutRevenue
  <2> HIDE DEF s
  <2> QED
    BY <1>7, <2>2, <2>3, WorkTypes DEF AskAboutRevenue, TypeOK, GraphNode, OutcomeType
<1>8. CASE CreatePlan
  <2> DEFINE s == [snapshot EXCEPT !.plan = None, !.invalid = FALSE]
  <2>1. snapshot.version \in Version
    BY <1>8 DEF CreatePlan, WorksIn, Located, GraphNode
  <2>2. s \in Snapshot /\ s.version \in Version
    BY <2>1 DEF TypeOK, Snapshot
  <2>3. decision' \in Decision /\ planCalls' \in Nat
    BY <1>8, ModelDecisionsType DEF CreatePlan, TypeOK
  <2>4. Persist(s) /\ GoTo("validate_plan") /\ LeaveTables
    BY <1>8 DEF CreatePlan
  <2> HIDE DEF s
  <2> QED
    BY <1>8, <2>2, <2>3, <2>4, WorkTypes DEF CreatePlan, TypeOK, GraphNode, OutcomeType
<1>9. CASE ValidatePlan
  <2>1. snapshot.version \in Version
    BY <1>9 DEF ValidatePlan, WorksIn, Located, GraphNode
  <2>2. outcome = "continue" => decision \in Decision
    BY <1>9 DEF ValidatePlan, WorksIn, Located
  <2>3. snapshot \in Snapshot
    BY DEF TypeOK
  <2>4. snapshot' \in Snapshot /\ snapshot'.version \in Version
    <3>1. CASE snapshot' = snapshot
      BY <3>1, <2>1, <2>3
    <3>2. CASE snapshot' = [snapshot EXCEPT !.invalid = TRUE]
      BY <3>2, <2>1, <2>3 DEF Snapshot
    <3>3. CASE /\ outcome = "continue"
               /\ snapshot' = Asking(FALSE, KnownOptions(decision.options, snapshot.version))
      <4>1. decision.options \in OptionList
        BY <3>3, <2>2 DEF Decision
      <4>2. KnownOptions(decision.options, snapshot.version) \in OptionList
        BY <4>1, KnownOptionsType
      <4> QED
        BY <3>3, <4>2, <2>1, AskingType
    <3>4. CASE /\ outcome = "continue"
               /\ AcceptedPlan(decision)
               /\ snapshot' = [snapshot EXCEPT !.plan = decision.plan, !.invalid = FALSE]
      <4>1. decision.plan \in Plan
        BY <3>4, <2>2 DEF AcceptedPlan, Decision
      <4> QED
        BY <3>4, <4>1, <2>1, <2>3 DEF Snapshot
    <3> QED
      BY <1>9, <3>1, <3>2, <3>3, <3>4 DEF ValidatePlan, Persist
  <2>5. LeaveTables /\ checkpoint' = snapshot'
    BY <1>9 DEF ValidatePlan, Persist
  <2>6. PICK n \in {"clarification_interrupt", "repair_plan", "persist_output",
                    "compile_query"} : GoTo(n)
    BY <1>9 DEF ValidatePlan
  <2>7. outcome' \in OutcomeType /\ UNCHANGED <<decision, analysis, planCalls>>
    BY <1>9 DEF ValidatePlan, TypeOK, OutcomeType
  <2>8. PICK s \in Snapshot : s.version \in Version /\ Persist(s)
    BY <2>4, <2>5 DEF Persist
  <2>9. /\ decision' \in Decision \cup {None}
        /\ analysis' \in Analysis \cup {None}
        /\ planCalls' \in Nat
    BY <2>7 DEF TypeOK
  <2>10. n \in GraphNode \cup {"END"} /\ n # "validate_plan"
    BY <2>6 DEF GraphNode
  <2> QED
    BY <2>5, <2>6, <2>7, <2>8, <2>9, <2>10, WorkTypes
<1>10. CASE RepairPlan
  <2> DEFINE s == [snapshot EXCEPT !.repairs = @ + 1, !.plan = None]
  <2>1. snapshot.version \in Version
    BY <1>10 DEF RepairPlan, WorksIn, Located, GraphNode
  <2>2. s \in Snapshot /\ s.version \in Version
    <3> DEFINE m == snapshot.repairs + 1
    <3>1. snapshot \in Snapshot /\ m \in Nat
      BY DEF TypeOK, Snapshot
    <3>2. s = [snapshot EXCEPT !.repairs = m, !.plan = None]
      OBVIOUS
    <3> HIDE DEF s, m
    <3> QED
      BY <2>1, <3>1, <3>2 DEF Snapshot
  <2>3. decision' \in Decision /\ planCalls' \in Nat
    BY <1>10, ModelDecisionsType DEF RepairPlan, TypeOK
  <2>4. Persist(s) /\ GoTo("validate_plan") /\ LeaveTables
    BY <1>10 DEF RepairPlan
  <2> HIDE DEF s
  <2> QED
    BY <1>10, <2>2, <2>3, <2>4, WorkTypes DEF RepairPlan, TypeOK, GraphNode, OutcomeType
<1>11. CASE ExecuteAnalysis
  <2>1. snapshot.plan \in Plan /\ attached \in Version
    BY <1>11 DEF ExecuteAnalysis, TypeOK, Snapshot
  <2>2. analysis' \in Analysis
    BY <1>11, <2>1 DEF ExecuteAnalysis, Analysis
  <2>3. snapshot.version \in Version
    BY <1>11 DEF ExecuteAnalysis, WorksIn, Located, GraphNode
  <2> QED
    BY <1>11, <2>2, <2>3, WorkTypes DEF ExecuteAnalysis, TypeOK, GraphNode, OutcomeType
<1>12. CASE PassThrough
  <2>1. snapshot.version \in Version
    BY <1>12 DEF PassThrough, NodeAfter, Located, GraphNode
  <2>2. PICK n \in {"retrieve_semantic_context", "END", "execute_analysis",
                    "select_visualization", "generate_explanation",
                    "persist_output"} : GoTo(n)
    BY <1>12 DEF PassThrough, NodeAfter
  <2>3. outcome' \in OutcomeType
    BY <1>12 DEF PassThrough, TypeOK, OutcomeType
  <2> QED
    BY <1>12, <2>1, <2>2, <2>3, WorkTypes DEF PassThrough, TypeOK, GraphNode
<1>13. CASE Pause
  BY <1>13, InitialSnapshotType DEF Pause, Returns, TypeOK, Located, GoTo, RunStatus,
              ActiveStatus, NodeState, GraphNode
<1>14. CASE Complete
  BY <1>14, InitialSnapshotType DEF Complete, Returns, Stores, TypeOK, Located, GoTo,
              RunStatus, ActiveStatus, NodeState, GraphNode
<1>15. CASE Fail
  BY <1>15, InitialSnapshotType DEF Fail, FailedRun, Returns, TypeOK, Located, GoTo,
              RunStatus, ActiveStatus, NodeState, GraphNode
<1>16. CASE \E q \in Question : Send(q)
  BY <1>16, InitialSnapshotType DEF Send, TypeOK, Located, RunStatus, ActiveStatus, NodeState,
              GraphNode
<1>17. CASE \E v \in Version \cup {None} : Attach(v)
  BY <1>17 DEF Attach, TypeOK, Located
<1>18. CASE Cancel
  BY <1>18 DEF Cancel, TypeOK, Located, RunStatus, ActiveStatus
<1>19. CASE \E a \in Answer, save \in BOOLEAN : Resume(a, save)
  <2>1. PICK a \in Answer, save \in BOOLEAN : Resume(a, save)
    BY <1>19
  <2> DEFINE c == Answered(checkpoint.clarification, a)
  <2>2. c \in Clarification
    BY DEF Answered, TypeOK, Snapshot, Clarification
  <2> HIDE DEF c
  <2>3. [checkpoint EXCEPT !.clarification = c] \in Snapshot
    BY <2>2 DEF TypeOK, Snapshot
  <2>4. definition' \in [Version -> Column \cup {None}]
    BY <2>1 DEF Resume, SavesDefinition, TypeOK
  <2>5. checkpoint' = [checkpoint EXCEPT !.clarification = c]
    BY <2>1 DEF Resume, c
  <2> QED
    BY <2>1, <2>3, <2>4, <2>5 DEF Resume, TypeOK, Located, RunStatus, ActiveStatus
<1>20. CASE UNCHANGED vars
  BY <1>20 DEF vars, TypeOK, Located
<1> QED
  BY <1>1, <1>2, <1>3, <1>4, <1>5, <1>6, <1>7, <1>8, <1>9, <1>10, <1>11, <1>12, <1>13, <1>14,
     <1>15, <1>16, <1>17, <1>18, <1>19, <1>20 DEF Next, Respond, Work, User

\* The type invariant holds in every reachable state.
THEOREM TypesHold == Spec => []TypeOK
<1>1. TypeOK /\ Located /\ [Next]_vars => (TypeOK /\ Located)'
  BY TypesNext
<1> QED
  BY TypesInit, <1>1, PTL DEF Spec
-----------------------------------------------------------------------------
(* The invariant *)

\* Nobody answers a run that waits, for its turn or for its user, and no node
\* works where nobody answers.
Quiet == /\ run \in {"queued", "waiting_for_user"} => node = "idle"
         /\ working => node \in GraphNode

\* While a run is answered, its stored checkpoint lags behind in steps and
\* tool calls only.
Agree ==
  node \in GraphNode \cup {"END"} =>
    /\ checkpoint.remembered = snapshot.remembered
    /\ checkpoint.clarification = snapshot.clarification
    /\ checkpoint.repairs = snapshot.repairs

WithinBounds(s) == s.steps <= MaxSteps /\ s.tools <= MaxToolCalls /\ s.repairs <= MaxRepairs

\* An answer allows for one pass through the graph more, and each pass plans once.
Passes(s) == IF s.clarification.status = "answered" THEN 1 ELSE 0

BeforePlanning == {"authorize_and_load_context", "classify_intent",
                   "retrieve_semantic_context", "create_analysis_plan"}
AfterPlanning == (GraphNode \ BeforePlanning) \cup {"END"}

Counted ==
  /\ planCalls <= MaxRepairs + 2
  /\ node \in BeforePlanning => planCalls <= snapshot.repairs + Passes(snapshot)
  /\ node \in AfterPlanning => planCalls <= snapshot.repairs + Passes(snapshot) + 1
  /\ run = "queued" => planCalls <= checkpoint.repairs + Passes(checkpoint)
  /\ run = "waiting_for_user" => planCalls <= checkpoint.repairs + Passes(checkpoint) + 1

\* The plan follows what the user said, in this run and in earlier ones.
Follows(p, s) == UsesDefinition(p, s) /\ UsesAnswer(p, s.clarification)

OnItsData(a) == Refs(a.plan) \subseteq ColumnsOf(a.version)

Planned ==
  node \in {"compile_query", "execute_analysis"} /\ snapshot.plan # None =>
    Follows(snapshot.plan, snapshot)

AfterExecution == {"verify_result", "select_visualization", "generate_explanation",
                   "persist_output", "END"}

Analysed ==
  analysis # None =>
    /\ node \in AfterExecution \cup {"failing"}
    /\ OnItsData(analysis)
    /\ node \in AfterExecution => Follows(analysis.plan, snapshot)

\* A result is stored by the end of its run, after which its rows stay.
Stored ==
  result # None =>
    /\ node = "idle" /\ run = "completed"
    /\ OnItsData(result)
    /\ Follows(result.plan, checkpoint)

Bounded == WithinBounds(snapshot) /\ WithinBounds(checkpoint)

\* LimitsHold and AskedOnce rest on the second line, the promises about a stored
\* result on the last.
GraphInv == /\ TypeOK /\ Located
            /\ Quiet /\ Agree /\ Bounded /\ Counted
            /\ Planned /\ Analysed /\ Stored

LEMMA InvInit == Init => GraphInv
<1> SUFFICES ASSUME Init
             PROVE  GraphInv
  OBVIOUS
<1>1. TypeOK /\ Located
  BY TypesInit
<1>2. /\ snapshot.steps = 0 /\ snapshot.tools = 0 /\ snapshot.repairs = 0
      /\ checkpoint = snapshot
  BY DEF Init, InitialSnapshot
<1>3. Bounded
  BY <1>2, LimitsAssumption DEF Bounded, WithinBounds
<1>4. Counted
  BY LimitsAssumption DEF Init, Counted, BeforePlanning, AfterPlanning, GraphNode
<1>5. Quiet /\ Agree /\ Planned /\ Analysed /\ Stored
  BY DEF Init, Quiet, Agree, Planned, Analysed, Stored, GraphNode
<1> QED
  BY <1>1, <1>3, <1>4, <1>5 DEF GraphInv

LEMMA QuietNext ==
  ASSUME TypeOK, Quiet, [Next]_vars
  PROVE  Quiet'
<1> USE DEF LeaveTables, tables, thread, Quiet
<1>1. CASE Claim
  BY <1>1 DEF Claim, GoTo, GraphNode
<1>2. CASE EnterNode \/ StopAtNode
  BY <1>2 DEF EnterNode, StopAtNode, GraphNode, MayEnter, GoTo
<1>3. CASE Work
  <2>1. working /\ UNCHANGED run /\ working' = FALSE
    BY <1>3 DEF Work, Authorize, RetrieveContext, AskAboutRevenue, CreatePlan, ValidatePlan,
                RepairPlan, ExecuteAnalysis, PassThrough, WorkThrows, WorksIn, GoTo
  <2>2. node # "idle"
    BY <2>1 DEF GraphNode
  <2> QED
    BY <2>1, <2>2
<1>4. CASE Pause \/ Complete \/ Fail
  BY <1>4 DEF Pause, Complete, Fail, Returns, GoTo
<1>5. CASE \E q \in Question : Send(q)
  BY <1>5 DEF Send
<1>6. CASE \E v \in Version \cup {None} : Attach(v)
  BY <1>6 DEF Attach
<1>7. CASE Cancel
  BY <1>7 DEF Cancel
<1>8. CASE \E a \in Answer, save \in BOOLEAN : Resume(a, save)
  BY <1>8 DEF Resume
<1>9. CASE UNCHANGED vars
  BY <1>9 DEF vars
<1> QED
  BY <1>1, <1>2, <1>3, <1>4, <1>5, <1>6, <1>7, <1>8, <1>9 DEF Next, Respond, User


\* What a node's work does to the counters and the clarification.
LEMMA WorkMoves ==
  ASSUME TypeOK, Work
  PROVE  /\ snapshot'.steps = snapshot.steps
         /\ snapshot'.tools = snapshot.tools
         /\ \/ snapshot'.repairs = snapshot.repairs
            \/ RepairPlan /\ snapshot'.repairs = snapshot.repairs + 1
         /\ \/ snapshot'.clarification = snapshot.clarification
            \/ /\ snapshot.clarification.status # "answered"
               /\ snapshot'.clarification.status = "pending"
               /\ AskAboutRevenue \/ ValidatePlan
         /\ \/ checkpoint' = snapshot'
            \/ WorkThrows /\ UNCHANGED <<snapshot, checkpoint>>
<1>1. snapshot \in Snapshot
  BY DEF TypeOK
<1>2. CASE Authorize \/ RetrieveContext \/ CreatePlan
  BY <1>1, <1>2 DEF Authorize, RetrieveContext, CreatePlan, Persist, Snapshot
<1>3. CASE AskAboutRevenue
  BY <1>1, <1>3 DEF AskAboutRevenue, AmbiguousRevenue, Asking, Persist, Snapshot
<1>4. CASE ValidatePlan
  <2>1. checkpoint' = snapshot'
    <3>1. \E s : Persist(s)
      BY <1>4 DEF ValidatePlan
    <3> QED
      BY <3>1 DEF Persist
  <2>2. CASE snapshot' = snapshot \/ snapshot' = [snapshot EXCEPT !.invalid = TRUE]
    BY <1>1, <2>1, <2>2 DEF Snapshot
  <2>3. CASE snapshot' = [snapshot EXCEPT !.plan = decision.plan, !.invalid = FALSE]
    BY <1>1, <2>1, <2>3 DEF Snapshot
  <2>4. CASE /\ ModelAsks(decision)
             /\ snapshot' = Asking(FALSE, KnownOptions(decision.options, snapshot.version))
    <3>1. snapshot.clarification.status # "answered"
      BY <2>4 DEF ModelAsks
    <3> QED
      BY <1>1, <1>4, <2>1, <2>4, <3>1 DEF Asking, Snapshot
  <2> QED
    BY <1>4, <2>2, <2>3, <2>4 DEF ValidatePlan, Persist
<1>5. CASE RepairPlan
  BY <1>1, <1>5 DEF RepairPlan, Persist, Snapshot
<1>6. CASE ExecuteAnalysis \/ PassThrough
  BY <1>1, <1>6 DEF ExecuteAnalysis, PassThrough, Persist
<1>7. CASE WorkThrows
  BY <1>7 DEF WorkThrows, tables
<1> QED
  BY <1>2, <1>3, <1>4, <1>5, <1>6, <1>7 DEF Work

\* What the record of a node's progress does to the snapshot.
LEMMA EnterMoves ==
  ASSUME TypeOK, EnterNode
  PROVE  /\ snapshot'.steps = snapshot.steps + 1
         /\ snapshot'.tools = snapshot.tools + ToolCalls(node)
         /\ snapshot'.repairs = snapshot.repairs
         /\ snapshot'.clarification = snapshot.clarification
         /\ snapshot'.remembered = snapshot.remembered
         /\ snapshot'.plan = snapshot.plan
<1>1. snapshot \in Snapshot
  BY DEF TypeOK
<1> QED
  BY <1>1 DEF EnterNode, Snapshot

LEMMA AgreeNext ==
  ASSUME TypeOK, Quiet, Agree, [Next]_vars
  PROVE  Agree'
<1> USE DEF LeaveTables, tables, thread
<1>1. CASE Claim
  BY <1>1 DEF Claim, Loaded, Agree
<1>2. CASE EnterNode
  <2>1. UNCHANGED <<checkpoint, node>>
    BY <1>2 DEF EnterNode
  <2> QED
    BY <1>2, <2>1, EnterMoves DEF Agree
<1>3. CASE StopAtNode \/ WorkThrows
  BY <1>3 DEF StopAtNode, WorkThrows, GoTo, Agree, GraphNode
<1>4. CASE Work /\ ~WorkThrows
  BY <1>4, WorkMoves DEF Agree
<1>5. CASE Pause \/ Complete \/ Fail
  BY <1>5 DEF Pause, Complete, Fail, Returns, GoTo, Agree, GraphNode
<1>6. CASE \E q \in Question : Send(q)
  BY <1>6 DEF Send, Agree, GraphNode
<1>7. CASE (\E v \in Version \cup {None} : Attach(v)) \/ Cancel
  BY <1>7 DEF Attach, Cancel, Agree
<1>8. CASE \E a \in Answer, save \in BOOLEAN : Resume(a, save)
  BY <1>8 DEF Resume, Quiet, Agree, GraphNode
<1>9. CASE UNCHANGED vars
  BY <1>9 DEF vars, Agree
<1> QED
  BY <1>1, <1>2, <1>3, <1>4, <1>5, <1>6, <1>7, <1>8, <1>9 DEF Next, Respond, User

LEMMA BoundedNext ==
  ASSUME TypeOK, Bounded, [Next]_vars
  PROVE  Bounded'
<1> USE DEF LeaveTables, tables, thread, Bounded, WithinBounds
<1>1. CASE Claim
  BY <1>1 DEF Claim, Loaded
<1>2. CASE EnterNode
  <2>1. UNCHANGED checkpoint /\ WithinLimits(snapshot)
    BY <1>2 DEF EnterNode, MayEnter
  <2>2. snapshot.steps \in Nat /\ snapshot.tools \in Nat /\ ToolCalls(node) \in Nat
    BY ToolCallsType DEF TypeOK, Snapshot
  <2> QED
    BY <1>2, <2>1, <2>2, EnterMoves, LimitsAssumption DEF WithinLimits
<1>3. CASE StopAtNode
  BY <1>3 DEF StopAtNode
<1>4. CASE Work
  <2>1. snapshot.repairs \in Nat /\ (RepairPlan => snapshot.repairs < MaxRepairs)
    BY DEF TypeOK, Snapshot, RepairPlan, RepairsLeft
  <2> QED
    BY <1>4, <2>1, WorkMoves, LimitsAssumption
<1>5. CASE \/ Pause \/ Complete \/ Fail \/ \E q \in Question : Send(q)
  <2>1. WithinBounds(InitialSnapshot)
    BY LimitsAssumption DEF InitialSnapshot
  <2> QED
    BY <1>5, <2>1 DEF Pause, Complete, Fail, Returns, Send
<1>6. CASE (\E v \in Version \cup {None} : Attach(v)) \/ Cancel
  BY <1>6 DEF Attach, Cancel
<1>7. CASE \E a \in Answer, save \in BOOLEAN : Resume(a, save)
  <2>1. checkpoint \in Snapshot
    BY DEF TypeOK
  <2> QED
    BY <1>7, <2>1 DEF Resume, Snapshot
<1>8. CASE UNCHANGED vars
  BY <1>8 DEF vars
<1> QED
  BY <1>1, <1>2, <1>3, <1>4, <1>5, <1>6, <1>7, <1>8 DEF Next, Respond, User


LEMMA CountedNext ==
  ASSUME TypeOK, Quiet, Agree, Bounded, Counted, [Next]_vars
  PROVE  Counted'
<1> USE DEF LeaveTables, tables, thread
<1>1. /\ planCalls \in Nat /\ snapshot.repairs \in Nat /\ checkpoint.repairs \in Nat
      /\ snapshot.repairs <= MaxRepairs
  BY DEF TypeOK, Snapshot, Bounded, WithinBounds
<1>2. BeforePlanning \cap AfterPlanning = {} /\ {"idle", "failing"} \cap AfterPlanning = {}
  BY DEF BeforePlanning, AfterPlanning, GraphNode
<1>3. CASE Claim
  BY <1>1, <1>3 DEF Claim, Loaded, GoTo, Counted, Passes, BeforePlanning, AfterPlanning
<1>4. CASE EnterNode
  <2>1. UNCHANGED <<checkpoint, run, node, planCalls>>
    BY <1>4 DEF EnterNode
  <2> QED
    BY <1>4, <2>1, EnterMoves DEF Counted, Passes
<1>5. CASE StopAtNode \/ WorkThrows
  <2>1. UNCHANGED <<checkpoint, run, planCalls>> /\ node' = "failing"
    BY <1>5 DEF StopAtNode, WorkThrows, GoTo
  <2> QED
    BY <2>1, <1>2 DEF Counted, BeforePlanning, Passes
<1>6. CASE Work /\ ~WorkThrows
  <2>1. /\ UNCHANGED run /\ run \notin {"queued", "waiting_for_user"}
    BY <1>6 DEF Work, Authorize, RetrieveContext, AskAboutRevenue, CreatePlan, ValidatePlan,
                RepairPlan, ExecuteAnalysis, PassThrough, WorksIn, Quiet, GraphNode
  <2> SUFFICES /\ planCalls' <= MaxRepairs + 2
               /\ node' \in BeforePlanning =>
                    planCalls' <= snapshot'.repairs + Passes(snapshot')
               /\ node' \in AfterPlanning =>
                    planCalls' <= snapshot'.repairs + Passes(snapshot') + 1
    BY <2>1 DEF Counted, Passes
  <2>2. Passes(snapshot') = Passes(snapshot) /\ Passes(snapshot) \in 0..1
    BY <1>6, WorkMoves DEF Passes
  <2>3. CASE Authorize \/ RetrieveContext
    BY <1>1, <1>6, <2>2, <2>3, WorkMoves, <1>2
       DEF Authorize, RetrieveContext, RepairPlan, WorksIn, GoTo, Counted, BeforePlanning
  <2>4. CASE AskAboutRevenue
    <3>1. snapshot'.repairs = snapshot.repairs /\ planCalls' = planCalls
      BY <1>6, <2>4, WorkMoves DEF AskAboutRevenue, RepairPlan, WorksIn
    <3> QED
      BY <1>1, <1>2, <2>2, <2>4, <3>1
         DEF AskAboutRevenue, WorksIn, GoTo, Counted, BeforePlanning
  <2>5. CASE CreatePlan
    <3>1. snapshot'.repairs = snapshot.repairs /\ planCalls' = planCalls + 1
      BY <1>6, <2>5, WorkMoves DEF CreatePlan, RepairPlan, WorksIn
    <3>2. planCalls <= snapshot.repairs + Passes(snapshot) /\ node' \notin BeforePlanning
      BY <2>5 DEF CreatePlan, WorksIn, GoTo, Counted, BeforePlanning
    <3> QED
      BY <1>1, <2>2, <3>1, <3>2, LimitsAssumption
  <2>6. CASE ValidatePlan \/ ExecuteAnalysis
    <3>1. snapshot'.repairs = snapshot.repairs /\ planCalls' = planCalls
      BY <1>6, <2>6, WorkMoves DEF ValidatePlan, ExecuteAnalysis, RepairPlan, WorksIn
    <3>2. node \in AfterPlanning /\ node' \notin BeforePlanning
      BY <2>6 DEF ValidatePlan, ExecuteAnalysis, WorksIn, GoTo, BeforePlanning,
                  AfterPlanning, GraphNode
    <3> QED
      BY <2>2, <3>1, <3>2 DEF Counted
  <2>7. CASE RepairPlan
    <3>1. snapshot'.repairs = snapshot.repairs + 1
      BY <2>7 DEF RepairPlan, Persist, TypeOK, Snapshot
    <3>2. node \in AfterPlanning /\ node' \notin BeforePlanning
      BY <2>7 DEF RepairPlan, WorksIn, GoTo, BeforePlanning, AfterPlanning, GraphNode
    <3>3. planCalls' = planCalls + 1 /\ snapshot.repairs < MaxRepairs
      BY <2>7 DEF RepairPlan, RepairsLeft
    <3> QED
      BY <1>1, <2>2, <3>1, <3>2, <3>3, LimitsAssumption DEF Counted
  <2>8. CASE PassThrough
    <3>1. snapshot'.repairs = snapshot.repairs /\ planCalls' = planCalls
      BY <2>8 DEF PassThrough, Persist
    <3>2. (node \in BeforePlanning /\ node' \notin AfterPlanning)
          \/ (node \in AfterPlanning /\ node' \notin BeforePlanning)
      BY <2>8 DEF PassThrough, NodeAfter, GoTo, BeforePlanning, AfterPlanning, GraphNode
    <3> QED
      BY <2>2, <3>1, <3>2 DEF Counted
  <2> QED
    BY <1>6, <2>3, <2>4, <2>5, <2>6, <2>7, <2>8 DEF Work
<1>7. CASE Pause \/ Complete \/ Fail
  <2>1. node' = "idle" /\ UNCHANGED <<checkpoint, planCalls>>
    BY <1>7 DEF Pause, Complete, Fail, Returns, GoTo
  <2>2. run' # "queued" /\ (run' = "waiting_for_user" => node = "END")
    BY <1>7 DEF Pause, Complete, Fail, FailedRun, ActiveStatus, Quiet
  <2>3. node = "END" => planCalls <= checkpoint.repairs + Passes(checkpoint) + 1
    BY DEF Agree, Counted, Passes, AfterPlanning
  <2> QED
    BY <1>2, <2>1, <2>2, <2>3 DEF Counted, Passes, BeforePlanning
<1>8. CASE \E q \in Question : Send(q)
  <2>1. /\ planCalls' = 0 /\ checkpoint'.repairs = 0 /\ node' = "idle"
        /\ checkpoint'.clarification.status = "none"
    BY <1>8 DEF Send, InitialSnapshot, NoClarification
  <2>2. run' = "queued"
    BY <1>8 DEF Send
  <2> QED
    BY <1>2, <2>1, <2>2, LimitsAssumption DEF Counted, Passes, BeforePlanning
<1>9. CASE (\E v \in Version \cup {None} : Attach(v)) \/ Cancel
  BY <1>9 DEF Attach, Cancel, Counted, Passes
<1>10. CASE \E a \in Answer, save \in BOOLEAN : Resume(a, save)
  <2>1. /\ run = "waiting_for_user" /\ run' = "queued"
        /\ UNCHANGED <<node, planCalls>>
        /\ checkpoint.clarification.status = "pending"
    BY <1>10 DEF Resume
  <2>2. checkpoint'.repairs = checkpoint.repairs
        /\ checkpoint'.clarification.status = "answered"
    <3>1. PICK a \in Answer, save \in BOOLEAN : Resume(a, save)
      BY <1>10
    <3>2. checkpoint \in Snapshot /\ checkpoint.clarification \in Clarification
      BY DEF TypeOK, Snapshot
    <3> DEFINE c == Answered(checkpoint.clarification, a)
    <3>3. c.status = "answered"
      BY <3>2 DEF Answered, Clarification
    <3>4. checkpoint' = [checkpoint EXCEPT !.clarification = c]
      BY <3>1 DEF Resume
    <3> HIDE DEF c
    <3> QED
      BY <3>2, <3>3, <3>4 DEF Snapshot
  <2> QED
    BY <1>1, <1>2, <2>1, <2>2 DEF Counted, Passes, Quiet, BeforePlanning
<1>11. CASE UNCHANGED vars
  BY <1>11 DEF vars, Counted, Passes
<1> QED
  BY <1>3, <1>4, <1>5, <1>6, <1>7, <1>8, <1>9, <1>10, <1>11 DEF Next, Respond, User


LEMMA PlannedNext ==
  ASSUME TypeOK, Located, Quiet, Planned, [Next]_vars
  PROVE  Planned'
<1> USE DEF LeaveTables, tables, thread
<1>1. CASE Claim \/ StopAtNode \/ WorkThrows \/ Pause \/ Complete \/ Fail
  BY <1>1 DEF Claim, StopAtNode, WorkThrows, Pause, Complete, Fail, Returns, GoTo, Planned
<1>2. CASE EnterNode
  <2>1. UNCHANGED node
    BY <1>2 DEF EnterNode
  <2> QED
    BY <1>2, <2>1, EnterMoves DEF Planned, Follows, UsesDefinition
<1>3. CASE Authorize \/ RetrieveContext \/ AskAboutRevenue \/ CreatePlan \/ RepairPlan
           \/ ExecuteAnalysis
  BY <1>3 DEF Authorize, RetrieveContext, AskAboutRevenue, CreatePlan, RepairPlan,
              ExecuteAnalysis, GoTo, Planned
<1>4. CASE ValidatePlan
  <2>1. CASE outcome = "continue" /\ AcceptedPlan(decision)
             /\ snapshot' = [snapshot EXCEPT !.plan = decision.plan, !.invalid = FALSE]
    <3>1. Follows(decision.plan, snapshot)
      BY <2>1 DEF AcceptedPlan, ValidPlan, Follows
    <3>2. /\ snapshot'.plan = decision.plan
          /\ snapshot'.remembered = snapshot.remembered
          /\ snapshot'.clarification = snapshot.clarification
      BY <2>1 DEF TypeOK, Snapshot
    <3> QED
      BY <3>1, <3>2 DEF Planned, Follows, UsesDefinition
  <2>2. CASE node' \notin {"compile_query", "execute_analysis"}
    BY <2>2 DEF Planned
  <2> QED
    BY <1>4, <2>1, <2>2 DEF ValidatePlan, Persist, GoTo
<1>5. CASE PassThrough
  <2>1. UNCHANGED snapshot
    BY <1>5 DEF PassThrough, Persist
  <2>2. node' = "execute_analysis" => node = "compile_query"
    <3>1. /\ node \in {"classify_intent", "clarification_interrupt", "compile_query",
                       "verify_result", "select_visualization", "generate_explanation",
                       "persist_output"}
          /\ node' = NodeAfter[node]
      BY <1>5 DEF PassThrough, NodeAfter, GoTo
    <3> QED
      BY <3>1 DEF NodeAfter
  <2>3. node' # "compile_query"
    BY <1>5 DEF PassThrough, NodeAfter, GoTo
  <2> QED
    BY <2>1, <2>2, <2>3 DEF Planned
<1>6. CASE User
  <2>1. UNCHANGED <<node, snapshot>>
    BY <1>6 DEF User, Send, Attach, Cancel, Resume
  <2> QED
    BY <2>1 DEF Planned
<1>7. CASE UNCHANGED vars
  BY <1>7 DEF vars, Planned
<1> QED
  BY <1>1, <1>2, <1>3, <1>4, <1>5, <1>6, <1>7 DEF Next, Respond, Work

LEMMA AnalysedNext ==
  ASSUME TypeOK, Quiet, Planned, Analysed, [Next]_vars
  PROVE  Analysed'
<1> USE DEF LeaveTables, tables, thread
<1>1. CASE Claim
  BY <1>1 DEF Claim, Analysed, AfterExecution
<1>2. CASE EnterNode
  <2>1. UNCHANGED <<node, analysis>>
    BY <1>2 DEF EnterNode
  <2> QED
    BY <1>2, <2>1, EnterMoves DEF Analysed, Follows, UsesDefinition
<1>3. CASE StopAtNode \/ WorkThrows
  BY <1>3 DEF StopAtNode, WorkThrows, GoTo, Analysed, AfterExecution
<1>4. CASE Authorize \/ RetrieveContext \/ AskAboutRevenue \/ CreatePlan \/ ValidatePlan
           \/ RepairPlan
  <2>1. node \notin AfterExecution \cup {"failing"} /\ UNCHANGED analysis
    BY <1>4 DEF Authorize, RetrieveContext, AskAboutRevenue, CreatePlan, ValidatePlan,
                RepairPlan, WorksIn, AfterExecution
  <2> QED
    BY <2>1 DEF Analysed
<1>5. CASE ExecuteAnalysis
  <2>1. /\ node = "execute_analysis" /\ node' = "verify_result"
        /\ snapshot.plan # None /\ UNCHANGED snapshot
        /\ ExecutablePlan(snapshot.plan, attached)
        /\ analysis' = [version |-> attached, plan |-> snapshot.plan]
    BY <1>5 DEF ExecuteAnalysis, WorksIn, GoTo, Persist
  <2>2. analysis'.plan = snapshot.plan /\ analysis'.version = attached
    BY <2>1
  <2> QED
    BY <2>1, <2>2 DEF Analysed, AfterExecution, OnItsData, ExecutablePlan, Planned
<1>6. CASE PassThrough
  <2>1. UNCHANGED <<snapshot, analysis>>
    BY <1>6 DEF PassThrough, Persist
  <2>2. node \in AfterExecution \cup {"failing"} =>
          node \in AfterExecution /\ node' \in AfterExecution
    BY <1>6 DEF PassThrough, NodeAfter, GoTo, AfterExecution
  <2> QED
    BY <2>1, <2>2 DEF Analysed
<1>7. CASE Pause \/ Complete \/ Fail
  BY <1>7 DEF Pause, Complete, Fail, Returns, Analysed
<1>8. CASE User
  <2>1. UNCHANGED <<node, snapshot, analysis>>
    BY <1>8 DEF User, Send, Attach, Cancel, Resume
  <2> QED
    BY <2>1 DEF Analysed
<1>9. CASE UNCHANGED vars
  BY <1>9 DEF vars, Analysed
<1> QED
  BY <1>1, <1>2, <1>3, <1>4, <1>5, <1>6, <1>7, <1>8, <1>9 DEF Next, Respond, Work

LEMMA StoredNext ==
  ASSUME TypeOK, Quiet, Agree, Analysed, Stored, [Next]_vars
  PROVE  Stored'
<1> USE DEF LeaveTables, tables, thread
<1>1. CASE Claim \/ EnterNode \/ StopAtNode \/ Work
  <2>1. UNCHANGED result
    BY <1>1 DEF Claim, EnterNode, StopAtNode, Work, Authorize, RetrieveContext,
                AskAboutRevenue, CreatePlan, ValidatePlan, RepairPlan, ExecuteAnalysis,
                PassThrough, WorkThrows
  <2>2. run = "queued" \/ node # "idle"
    BY <1>1 DEF Claim, EnterNode, StopAtNode, Work, Authorize, RetrieveContext,
                AskAboutRevenue, CreatePlan, ValidatePlan, RepairPlan, ExecuteAnalysis,
                PassThrough, WorkThrows, WorksIn, Quiet, GraphNode
  <2> QED
    BY <2>1, <2>2 DEF Stored
<1>2. CASE Pause \/ Fail
  BY <1>2 DEF Pause, Fail, Stored
<1>3. CASE Complete
  <2>1. /\ node = "END" /\ result = None
        /\ node' = "idle" /\ UNCHANGED checkpoint
        /\ result' = IF Stores THEN analysis ELSE result
        /\ Stores => run' = "completed"
    BY <1>3 DEF Complete, Returns, GoTo, Stored, Stores
  <2>2. Follows(analysis.plan, snapshot) => Follows(analysis.plan, checkpoint)
    BY <2>1 DEF Agree, Follows, UsesDefinition
  <2> QED
    BY <2>1, <2>2 DEF Stored, Stores, Analysed, AfterExecution
<1>4. CASE \E q \in Question : Send(q)
  BY <1>4 DEF Send, Stored
<1>5. CASE \E v \in Version \cup {None} : Attach(v)
  BY <1>5 DEF Attach, Stored
<1>6. CASE Cancel \/ (\E a \in Answer, save \in BOOLEAN : Resume(a, save))
  <2>1. run # "completed" /\ UNCHANGED result
    BY <1>6 DEF Cancel, Resume, ActiveStatus
  <2> QED
    BY <2>1 DEF Stored
<1>7. CASE UNCHANGED vars
  BY <1>7 DEF vars, Stored
<1> QED
  BY <1>1, <1>2, <1>3, <1>4, <1>5, <1>6, <1>7 DEF Next, Respond, User

LEMMA InvNext == GraphInv /\ [Next]_vars => GraphInv'
<1> SUFFICES ASSUME GraphInv, [Next]_vars
             PROVE  GraphInv'
  OBVIOUS
<1>1. /\ TypeOK /\ Located /\ Quiet /\ Agree /\ Bounded /\ Counted
      /\ Planned /\ Analysed /\ Stored
  BY DEF GraphInv
<1>2. TypeOK' /\ Located' /\ Quiet' /\ Agree' /\ Bounded' /\ Counted'
  BY <1>1, TypesNext, QuietNext, AgreeNext, BoundedNext, CountedNext
<1>3. Planned' /\ Analysed' /\ Stored'
  BY <1>1, PlannedNext, AnalysedNext, StoredNext
<1> QED
  BY <1>2, <1>3 DEF GraphInv

\* The invariant that the theorems below rest on holds in every reachable state.
THEOREM GraphInvariant == Spec => []GraphInv
  BY InvInit, InvNext, PTL DEF Spec

\* Whatever the model returns and however often a run is suspended, its steps,
\* tool calls, repairs and planning requests stay within the limits.
THEOREM LimitsAlwaysHold == Spec => []LimitsHold
<1>1. GraphInv => LimitsHold
  BY DEF GraphInv, Bounded, WithinBounds, Counted, LimitsHold
<1> QED
  BY GraphInvariant, <1>1, PTL

\* Whatever is attached meanwhile, a stored analysis uses columns of its version.
THEOREM ResultsOnTheirData == Spec => []ResultOnItsData
<1>1. GraphInv => ResultOnItsData
  BY DEF GraphInv, Stored, OnItsData, ResultOnItsData
<1> QED
  BY GraphInvariant, <1>1, PTL

\* A set of numbers that has an element has a least one.
LEMMA LeastNumber ==
  ASSUME NEW T \in SUBSET Nat, T # {}
  PROVE  \E n \in T : \A m \in T : n <= m
<1> DEFINE Below == {ss \in Nat \X Nat : ss[1] < ss[2]}
<1>1. IsWellFoundedOn(Below, Nat)
  BY NatLessThanWellFounded DEF OpToRel
<1>2. PICK n \in T : \A m \in T : ~ (<<m, n>> \in Below)
  BY <1>1, WFMin
<1>3. ASSUME NEW m \in T PROVE n <= m
  <2>1. ~ (<<m, n>> \in Below) /\ m \in Nat /\ n \in Nat
    BY <1>2
  <2>2. m < n => <<m, n>> \in Below
    BY <2>1
  <2>3. QED
    BY <2>1, <2>2
<1>4. QED
  BY <1>3

\* If one option alone matches the answer, it is the one the code chooses.
LEMMA OnlyMatchChosen ==
  ASSUME NEW c, c.options \in OptionList, NEW column,
         {o \in {c.options[i] : i \in DOMAIN c.options} : Matches(c, o)} = {column}
  PROVE  Chosen(c) = column
<1> DEFINE hits == {i \in DOMAIN c.options : Matches(c, c.options[i])}
           first == CHOOSE i \in hits : \A j \in hits : i <= j
<1>1. hits # {} /\ \A i \in hits : c.options[i] = column
  OBVIOUS
<1>2. hits \subseteq Nat
  <2>1. PICK S \in SUBSET (1..MaxOptions) : c.options \in [S -> Option]
    BY DEF OptionList
  <2>2. DOMAIN c.options = S
    BY <2>1
  <2>3. S \subseteq Nat
    OBVIOUS
  <2> QED
    BY <2>2, <2>3
<1>3. \E i \in hits : \A j \in hits : i <= j
  BY <1>1, <1>2, LeastNumber
<1>4. first \in hits
  BY <1>3
<1>5. Chosen(c) = c.options[first]
  BY <1>1 DEF Chosen
<1> QED
  BY <1>1, <1>4, <1>5

\* A stored analysis follows the answer to the question of its run, when that
\* answer matches one of the offered columns and no other option.
THEOREM AnswersHonoured == Spec => []AnswerHonoured
<1>1. GraphInv => AnswerHonoured
  <2> DEFINE c == checkpoint.clarification
             picked == {o \in {c.options[i] : i \in DOMAIN c.options} : Matches(c, o)}
  <2> SUFFICES ASSUME GraphInv, result # None, c.status = "answered",
                      NEW column \in Column, picked = {column}
               PROVE  /\ column \in (IF c.revenue THEN result.plan.measures
                                                  ELSE Refs(result.plan))
                      /\ column \in ColumnsOf(result.version)
    BY DEF AnswerHonoured
  <2>1. c.options \in OptionList
    BY DEF GraphInv, TypeOK, Snapshot, Clarification
  <2> HIDE DEF c
  <2>2. Chosen(c) = column
    BY <2>1, OnlyMatchChosen
  <2>3. /\ UsesAnswer(result.plan, c)
        /\ Refs(result.plan) \subseteq ColumnsOf(result.version)
    BY DEF c, GraphInv, Stored, OnItsData, Follows
  <2> QED
    BY <2>2, <2>3 DEF UsesAnswer, Refs
<1> QED
  BY GraphInvariant, <1>1, PTL

\* A stored analysis follows the definition retrieved for its prompt.
THEOREM DefinitionsHonoured == Spec => []DefinitionHonoured
<1>1. GraphInv => DefinitionHonoured
  BY DEF GraphInv, Stored, Follows, UsesDefinition, DefinitionHonoured
<1> QED
  BY GraphInvariant, <1>1, PTL

LEMMA AskedOnceStep ==
  ASSUME TypeOK, Quiet, Agree, [Next]_vars,
         checkpoint.clarification.status = "answered", prompts' = prompts
  PROVE  checkpoint'.clarification = checkpoint.clarification
<1> USE DEF LeaveTables, tables, thread
<1>1. CASE Claim \/ EnterNode \/ StopAtNode \/ Pause \/ Complete \/ Fail
  BY <1>1 DEF Claim, EnterNode, StopAtNode, Pause, Complete, Fail, Returns
<1>2. CASE Work
  <2>1. node \in GraphNode
    BY <1>2 DEF Work, Authorize, RetrieveContext, AskAboutRevenue, CreatePlan, ValidatePlan,
                RepairPlan, ExecuteAnalysis, PassThrough, WorkThrows, WorksIn, Quiet
  <2> QED
    BY <1>2, <2>1, WorkMoves DEF Agree
<1>3. CASE \E q \in Question : Send(q)
  BY <1>3 DEF Send, TypeOK
<1>4. CASE (\E v \in Version \cup {None} : Attach(v)) \/ Cancel
  BY <1>4 DEF Attach, Cancel
<1>5. CASE \E a \in Answer, save \in BOOLEAN : Resume(a, save)
  BY <1>5 DEF Resume
<1>6. CASE UNCHANGED vars
  BY <1>6 DEF vars
<1> QED
  BY <1>1, <1>2, <1>3, <1>4, <1>5, <1>6 DEF Next, Respond, User

\* A user who has answered is not asked again by the same run.
THEOREM UsersAskedOnce == Spec => AskedOnce
<1>1. GraphInv /\ [Next]_vars =>
        [checkpoint.clarification.status = "answered" /\ prompts' = prompts
           => checkpoint'.clarification = checkpoint.clarification]_vars
  BY AskedOnceStep DEF GraphInv
<1> QED
  BY GraphInvariant, <1>1, PTL DEF Spec, AskedOnce

-----------------------------------------------------------------------------
(* Keep.  It is defined by recursion over a sequence, and what it returns is  *)
(* proved by induction: a step that fails would fail first at a least number, *)
(* which there is because the natural numbers are well-founded.               *)

\* g gives what is kept of the first n elements of s, for each n up to N.
Keeps(g, s, S, N) ==
  g = [n \in 0..N |-> IF n = 0 THEN <<>>
                      ELSE IF s[n] \in S THEN Append(g[n - 1], s[n])
                      ELSE g[n - 1]]

\* Such a function exists: the least N without one would extend the one for N - 1.
LEMMA KeepsExists ==
  ASSUME NEW s, NEW S, NEW N \in Nat
  PROVE  \E g : Keeps(g, s, S, N)
<1> DEFINE Bad == {n \in Nat : ~ \E g : Keeps(g, s, S, n)}
<1>1. SUFFICES ASSUME Bad # {} PROVE FALSE
  OBVIOUS
<1>2. PICK n \in Bad : \A m \in Bad : n <= m
  BY <1>1, LeastNumber
<1>3. CASE n = 0
  <2>1. Keeps([k \in 0..0 |-> <<>>], s, S, 0)
    BY DEF Keeps
  <2> QED
    BY <1>2, <1>3, <2>1
<1>4. CASE n # 0
  <2>1. n - 1 \in Nat /\ n - 1 \notin Bad /\ n \in Nat
    BY <1>2, <1>4
  <2>2. PICK g : Keeps(g, s, S, n - 1)
    BY <2>1
  <2> DEFINE h == [k \in 0..n |-> IF k = n
                                  THEN IF s[n] \in S THEN Append(g[n - 1], s[n]) ELSE g[n - 1]
                                  ELSE g[k]]
  <2>3. \A k \in 0..(n - 1) : h[k] = g[k] /\ k \in 0..n /\ k # n
    BY <2>1
  <2>4. ASSUME NEW k \in 0..n
        PROVE  h[k] = IF k = 0 THEN <<>>
                      ELSE IF s[k] \in S THEN Append(h[k - 1], s[k])
                      ELSE h[k - 1]
    <3>1. CASE k = n
      BY <3>1, <2>1, <1>4, <2>3
    <3>2. CASE k # n
      <4>1. k \in 0..(n - 1) /\ (k # 0 => k - 1 \in 0..(n - 1))
        BY <3>2, <2>1
      <4>2. g[k] = IF k = 0 THEN <<>>
                   ELSE IF s[k] \in S THEN Append(g[k - 1], s[k])
                   ELSE g[k - 1]
        BY <4>1, <2>2 DEF Keeps
      <4> QED
        BY <4>1, <4>2, <2>3
    <3> QED
      BY <3>1, <3>2
  <2>5. Keeps(h, s, S, n)
    BY <2>4 DEF Keeps
  <2> QED
    BY <2>5, <1>2
<1> QED
  BY <1>3, <1>4

LEMMA KeepUnfolds ==
  ASSUME NEW A, NEW s \in Seq(A), NEW S
  PROVE  \E g : /\ Keep(s, S) = g[Len(s)]
                /\ g[0] = <<>>
                /\ \A n \in 1..Len(s) :
                     g[n] = IF s[n] \in S THEN Append(g[n - 1], s[n]) ELSE g[n - 1]
<1>1. Len(s) \in Nat
  OBVIOUS
<1>2. PICK g : Keeps(g, s, S, Len(s)) /\ Keep(s, S) = g[Len(s)]
  <2>1. \E g : Keeps(g, s, S, Len(s))
    BY <1>1, KeepsExists
  <2> QED
    BY <2>1 DEF Keep, Keeps
<1>3. g[0] = <<>> /\ \A n \in 1..Len(s) :
                       g[n] = IF s[n] \in S THEN Append(g[n - 1], s[n]) ELSE g[n - 1]
  <2>1. 0 \in 0..Len(s) /\ \A n \in 1..Len(s) : n \in 0..Len(s) /\ n # 0
    BY <1>1
  <2>2. Keeps(g, s, S, Len(s))
    BY <1>2
  <2>3. \A n \in 0..Len(s) : g[n] = IF n = 0 THEN <<>>
                                  ELSE IF s[n] \in S THEN Append(g[n - 1], s[n])
                                  ELSE g[n - 1]
    BY <2>2 DEF Keeps
  <2> QED
    BY <2>1, <2>3
<1> QED
  BY <1>2, <1>3

\* t is s at the increasing places e, which are those up to n that hold a member of S.
Picked(t, e, s, S, n) ==
  /\ e \in Seq(1..n)
  /\ Len(e) = Len(t)
  /\ \A i \in 1..Len(e) : t[i] = s[e[i]] /\ s[e[i]] \in S
  /\ \A i, j \in 1..Len(e) : i < j => e[i] < e[j]
  /\ \A j \in 1..n : s[j] \in S => \E i \in 1..Len(e) : e[i] = j

LEMMA PickedNext ==
  ASSUME NEW A, NEW s \in Seq(A), NEW S, NEW n \in 1..Len(s),
         NEW t \in Seq(A), NEW e, Picked(t, e, s, S, n - 1)
  PROVE  /\ s[n] \in S => Picked(Append(t, s[n]), Append(e, n), s, S, n)
         /\ s[n] \notin S => Picked(t, e, s, S, n)
<1>1. n \in Nat /\ 1 <= n /\ n <= Len(s) /\ Len(s) \in Nat
  OBVIOUS
<1>2. e \in Seq(1..(n - 1)) /\ Len(e) = Len(t) /\ Len(e) \in Nat
  BY DEF Picked
<1>3. \A i \in 1..Len(e) : e[i] \in 1..(n - 1)
  BY <1>2
<1>4. e \in Seq(1..n)
  <2>1. 1..(n - 1) \subseteq 1..n
    BY <1>1
  <2> QED
    BY <2>1, <1>2, SeqMonotonic
<1>5. \A j \in 1..n : j = n \/ j \in 1..(n - 1)
  BY <1>1
<1>6. CASE s[n] \notin S
  BY <1>2, <1>4, <1>5, <1>6 DEF Picked
<1>7. CASE s[n] \in S
  <2> DEFINE f == Append(e, n)
             u == Append(t, s[n])
  <2>1. /\ f \in Seq(1..n)
        /\ Len(f) = Len(e) + 1
        /\ \A i \in 1..Len(e) : f[i] = e[i]
        /\ f[Len(e) + 1] = n
    BY <1>4, <1>1, AppendProperties
  <2>2. s[n] \in A
    BY <1>1
  <2>3. /\ Len(u) = Len(t) + 1
        /\ \A i \in 1..Len(t) : u[i] = t[i]
        /\ u[Len(t) + 1] = s[n]
    BY <2>2, AppendProperties
  <2> HIDE DEF f, u
  <2>4. \A i \in 1..Len(f) : i = Len(e) + 1 \/ i \in 1..Len(e)
    BY <1>2, <2>1
  <2>5. \A i \in 1..Len(f) : u[i] = s[f[i]] /\ s[f[i]] \in S
    BY <2>1, <2>3, <2>4, <1>2, <1>7 DEF Picked
  <2>6. \A i, j \in 1..Len(f) : i < j => f[i] < f[j]
    <3>1. SUFFICES ASSUME NEW i \in 1..Len(f), NEW j \in 1..Len(f), i < j
                   PROVE  f[i] < f[j]
      OBVIOUS
    <3>2. i \in 1..Len(e) /\ f[i] = e[i] /\ e[i] \in 1..(n - 1)
      BY <3>1, <2>1, <1>2, <1>3, SMTT(30)
    <3>3. CASE j = Len(e) + 1
      BY <3>2, <3>3, <2>1, <1>1
    <3>4. CASE j \in 1..Len(e)
      BY <3>1, <3>2, <3>4, <2>1 DEF Picked
    <3> QED
      BY <3>3, <3>4, <2>4
  <2>7. \A j \in 1..n : s[j] \in S => \E i \in 1..Len(f) : f[i] = j
    <3>1. SUFFICES ASSUME NEW j \in 1..n, s[j] \in S
                   PROVE  \E i \in 1..Len(f) : f[i] = j
      OBVIOUS
    <3>2. CASE j = n
      <4>1. Len(e) + 1 \in 1..Len(f)
        BY <1>2, <2>1
      <4> QED
        BY <4>1, <3>2, <2>1
    <3>3. CASE j \in 1..(n - 1)
      <4>1. PICK i \in 1..Len(e) : e[i] = j
        BY <3>1, <3>3 DEF Picked
      <4>2. i \in 1..Len(f) /\ f[i] = j
        BY <4>1, <2>1, <1>2
      <4> QED
        BY <4>2
    <3> QED
      BY <3>2, <3>3, <1>5
  <2>8. Picked(u, f, s, S, n)
    BY <2>1, <2>3, <2>5, <2>6, <2>7, <1>2 DEF Picked
  <2> QED
    BY <2>8, <1>7 DEF f, u
<1> QED
  BY <1>6, <1>7

\* Keep returns the members of the set, each where it was before the others.
LEMMA KeepPicks ==
  ASSUME NEW A, NEW s \in Seq(A), NEW S
  PROVE  Keep(s, S) \in Seq(A) /\ \E e : Picked(Keep(s, S), e, s, S, Len(s))
<1>1. PICK g : /\ Keep(s, S) = g[Len(s)]
               /\ g[0] = <<>>
               /\ \A n \in 1..Len(s) :
                    g[n] = IF s[n] \in S THEN Append(g[n - 1], s[n]) ELSE g[n - 1]
  BY KeepUnfolds
<1>2. Len(s) \in Nat
  OBVIOUS
<1> DEFINE Good(n) == g[n] \in Seq(A) /\ \E e : Picked(g[n], e, s, S, n)
           Bad == {n \in 0..Len(s) : ~Good(n)}
<1>3. Good(0)
  <2>1. Picked(<<>>, <<>>, s, S, 0)
    BY DEF Picked
  <2> QED
    BY <2>1, <1>1
<1>4. ASSUME NEW n \in 1..Len(s), Good(n - 1)
      PROVE  Good(n)
  <2>1. PICK e : Picked(g[n - 1], e, s, S, n - 1)
    BY <1>4
  <2>2. s[n] \in A /\ g[n - 1] \in Seq(A)
    BY <1>4
  <2>3. g[n] \in Seq(A)
    <3>1. Append(g[n - 1], s[n]) \in Seq(A)
      BY <2>2, AppendProperties
    <3> QED
      BY <3>1, <1>1, <2>2
  <2>4. /\ s[n] \in S => Picked(Append(g[n - 1], s[n]), Append(e, n), s, S, n)
        /\ s[n] \notin S => Picked(g[n - 1], e, s, S, n)
    BY <2>1, <2>2, PickedNext
  <2> QED
    BY <2>3, <2>4, <1>1
<1>5. Bad = {}
  <2>1. SUFFICES ASSUME Bad # {} PROVE FALSE
    OBVIOUS
  <2>2. PICK n \in Bad : \A m \in Bad : n <= m
    <3>1. Bad \in SUBSET Nat
      BY <1>2
    <3> HIDE DEF Bad
    <3> QED
      BY <2>1, <3>1, LeastNumber
  <2>3. n # 0 /\ n \in 1..Len(s)
    BY <2>2, <1>3, <1>2
  <2>4. n - 1 \notin Bad /\ n - 1 \in 0..Len(s)
    BY <2>2, <2>3, <1>2
  <2> QED
    BY <2>2, <2>3, <2>4, <1>4
<1>6. Good(Len(s))
  BY <1>5, <1>2
<1> QED
  BY <1>1, <1>6

\* Keep returns the members of the set and nothing else.
LEMMA KeepElements ==
  ASSUME NEW A, NEW s \in Seq(A), NEW S
  PROVE  /\ Keep(s, S) \in Seq(A \cap S)
         /\ Elements(Keep(s, S)) = Elements(s) \cap S
<1> DEFINE k == Keep(s, S)
<1>1. k \in Seq(A) /\ \E e : Picked(k, e, s, S, Len(s))
  BY KeepPicks
<1>2. PICK e : Picked(k, e, s, S, Len(s))
  BY <1>1
<1> HIDE DEF k
<1>3. Len(k) = Len(e) /\ Len(k) \in Nat /\ e \in Seq(1..Len(s))
  BY <1>1, <1>2 DEF Picked
<1>4. \A i \in 1..Len(k) : e[i] \in 1..Len(s) /\ k[i] = s[e[i]] /\ k[i] \in A \cap S
  BY <1>1, <1>2, <1>3 DEF Picked
<1>5. k \in Seq(A \cap S)
  <2>1. k \in [1..Len(k) -> A \cap S]
    BY <1>1, <1>4
  <2> QED
    BY <2>1, <1>3
<1>6. Elements(k) = Elements(s) \cap S
  <2>1. DOMAIN k = 1..Len(k) /\ DOMAIN s = 1..Len(s)
    BY <1>1
  <2>2. Elements(k) \subseteq Elements(s) \cap S
    BY <2>1, <1>4 DEF Elements
  <2>3. ASSUME NEW x \in Elements(s) \cap S
        PROVE  x \in Elements(k)
    <3>1. PICK j \in 1..Len(s) : x = s[j] /\ s[j] \in S
      BY <2>1 DEF Elements
    <3>2. PICK i \in 1..Len(e) : e[i] = j
      BY <3>1, <1>2 DEF Picked
    <3>3. i \in 1..Len(k) /\ k[i] = x
      BY <3>1, <3>2, <1>3, <1>4
    <3> QED
      BY <3>3, <2>1 DEF Elements
  <2> QED
    BY <2>2, <2>3
<1> QED
  BY <1>5, <1>6 DEF k

\* The first element that is kept comes first.
LEMMA KeepFirst ==
  ASSUME NEW A, NEW s \in Seq(A), NEW S, NEW i \in 1..Len(s), s[i] \in S,
         \A j \in 1..(i - 1) : s[j] \notin S
  PROVE  Keep(s, S) # <<>> /\ Keep(s, S)[1] = s[i]
<1> DEFINE k == Keep(s, S)
<1>1. k \in Seq(A) /\ \E e : Picked(k, e, s, S, Len(s))
  BY KeepPicks
<1>2. PICK e : Picked(k, e, s, S, Len(s))
  BY <1>1
<1> HIDE DEF k
<1>3. Len(k) = Len(e) /\ Len(k) \in Nat /\ e \in Seq(1..Len(s)) /\ i \in Nat /\ Len(s) \in Nat
  BY <1>1, <1>2 DEF Picked
<1>4. PICK m \in 1..Len(e) : e[m] = i
  BY <1>2 DEF Picked
<1>5. 1 \in 1..Len(e) /\ (m = 1 \/ 1 < m)
  BY <1>3, <1>4
<1>6. e[1] \in 1..Len(s) /\ s[e[1]] \in S /\ k[1] = s[e[1]] /\ (1 < m => e[1] < e[m])
  BY <1>2, <1>3, <1>5 DEF Picked
<1>7. e[1] = i
  <2>1. e[1] <= i
    BY <1>3, <1>4, <1>5, <1>6
  <2>2. ~(e[1] < i)
    BY <1>3, <1>6
  <2> QED
    BY <2>1, <2>2, <1>3, <1>6
<1>8. k # <<>>
  BY <1>3, <1>5
<1> QED
  BY <1>6, <1>7, <1>8 DEF k

\* What differs in the sequence differs in what is kept of it.
LEMMA KeepInjective ==
  ASSUME NEW A, NEW s \in Seq(A), NEW S,
         \A i, j \in 1..Len(s) : i # j => s[i] # s[j]
  PROVE  \A i, j \in 1..Len(Keep(s, S)) : i # j => Keep(s, S)[i] # Keep(s, S)[j]
<1> DEFINE k == Keep(s, S)
<1>1. k \in Seq(A) /\ \E e : Picked(k, e, s, S, Len(s))
  BY KeepPicks
<1>2. PICK e : Picked(k, e, s, S, Len(s))
  BY <1>1
<1> HIDE DEF k
<1>3. Len(k) = Len(e) /\ Len(k) \in Nat /\ e \in Seq(1..Len(s)) /\ Len(s) \in Nat
  BY <1>1, <1>2 DEF Picked
<1>4. ASSUME NEW i \in 1..Len(k), NEW j \in 1..Len(k), i < j
      PROVE  k[i] # k[j]
  <2>1. e[i] < e[j] /\ e[i] \in 1..Len(s) /\ e[j] \in 1..Len(s)
    BY <1>2, <1>3, <1>4 DEF Picked
  <2>2. k[i] = s[e[i]] /\ k[j] = s[e[j]]
    BY <1>2, <1>3 DEF Picked
  <2> QED
    BY <2>1, <2>2
<1>5. \A i, j \in 1..Len(k) : i # j => i < j \/ j < i
  BY <1>3
<1> QED
  BY <1>4, <1>5 DEF k

\* All of a sequence is kept if all of it is wanted.
LEMMA KeepAll ==
  ASSUME NEW A, NEW s \in Seq(A), NEW S, \A i \in 1..Len(s) : s[i] \in S
  PROVE  Keep(s, S) = s
<1>1. PICK g : /\ Keep(s, S) = g[Len(s)]
               /\ g[0] = <<>>
               /\ \A n \in 1..Len(s) :
                    g[n] = IF s[n] \in S THEN Append(g[n - 1], s[n]) ELSE g[n - 1]
  BY KeepUnfolds
<1>2. Len(s) \in Nat
  OBVIOUS
<1> DEFINE Good(n) == g[n] = SubSeq(s, 1, n)
           Bad == {n \in 0..Len(s) : ~Good(n)}
<1>3. Good(0)
  BY <1>1, SubSeqEmpty
<1>4. ASSUME NEW n \in 1..Len(s), Good(n - 1)
      PROVE  Good(n)
  <2>1. g[n] = Append(SubSeq(s, 1, n - 1), s[n])
    BY <1>1, <1>4
  <2>2. SubSeq(s, 1, n - 1) \in Seq(A) /\ s[n] \in A
    <3>1. \A i \in 1..(n - 1) : s[i] \in A
      BY <1>2
    <3>2. n - 1 \in Int /\ 1 \in Int
      BY <1>2
    <3>3. SubSeq(s, 1, n - 1) \in Seq(A)
      BY <3>1, <3>2, SubSeqProperties
    <3> QED
      BY <3>3, <1>2
  <2>3. g[n] = SubSeq(s, 1, n - 1) \o <<s[n]>>
    BY <2>1, <2>2, AppendIsConcat
  <2>4. 1 \in 1..Len(s) /\ n \in 1..Len(s)
    BY <1>2
  <2>5. SubSeq(s, 1, n) = SubSeq(s, 1, n - 1) \o <<s[n]>>
    BY <2>4, SubSeqRecursiveSecond
  <2> QED
    BY <2>3, <2>5
<1>5. Bad = {}
  <2>1. SUFFICES ASSUME Bad # {} PROVE FALSE
    OBVIOUS
  <2>2. PICK n \in Bad : \A m \in Bad : n <= m
    <3>1. Bad \in SUBSET Nat
      BY <1>2
    <3> HIDE DEF Bad
    <3> QED
      BY <2>1, <3>1, LeastNumber
  <2>3. n # 0 /\ n \in 1..Len(s)
    BY <2>2, <1>3, <1>2
  <2>4. n - 1 \notin Bad /\ n - 1 \in 0..Len(s)
    BY <2>2, <2>3, <1>2
  <2> QED
    BY <2>2, <2>3, <2>4, <1>4
<1>6. Good(Len(s))
  BY <1>5, <1>2
<1> QED
  BY <1>1, <1>6, SubSeqFull

\* Nothing is kept if nothing is wanted.
LEMMA KeepNone ==
  ASSUME NEW A, NEW s \in Seq(A), NEW S, Elements(s) \cap S = {}
  PROVE  Keep(s, S) = <<>>
<1>1. Keep(s, S) \in Seq(A \cap S) /\ Elements(Keep(s, S)) = {}
  BY KeepElements
<1>2. Keep(s, S) \in Seq(A \cap S) /\ DOMAIN Keep(s, S) = {}
  BY <1>1 DEF Elements
<1> QED
  BY <1>2

LEMMA FirstsFacts ==
  ASSUME NEW A, NEW s \in Seq(A), NEW n \in Nat
  PROVE  /\ Firsts(s, n) \in Seq(A)
         /\ Len(Firsts(s, n)) = IF Len(s) < n THEN Len(s) ELSE n
         /\ \A i \in 1..Len(Firsts(s, n)) : i \in 1..Len(s) /\ Firsts(s, n)[i] = s[i]
         /\ Elements(Firsts(s, n)) \subseteq Elements(s)
<1> DEFINE m == IF Len(s) < n THEN Len(s) ELSE n
<1>1. m \in Nat /\ m <= Len(s) /\ Len(s) \in Nat
  OBVIOUS
<1>2. /\ SubSeq(s, 1, m) \in Seq(A)
      /\ Len(SubSeq(s, 1, m)) = m
      /\ \A i \in 1..m : SubSeq(s, 1, m)[i] = s[i]
  <2>1. \A i \in 1..m : s[i] \in A
    BY <1>1
  <2>2. 1 \in Int /\ m \in Int
    BY <1>1
  <2> HIDE DEF m
  <2>3. /\ SubSeq(s, 1, m) \in Seq(A)
        /\ Len(SubSeq(s, 1, m)) = IF 1 <= m THEN m - 1 + 1 ELSE 0
        /\ \A i \in 1..(m - 1 + 1) : SubSeq(s, 1, m)[i] = s[1 + i - 1]
    BY <2>1, <2>2, SubSeqProperties
  <2> QED
    BY <2>3, <1>1
<1>3. Firsts(s, n) = SubSeq(s, 1, m)
  BY DEF Firsts
<1> HIDE DEF m
<1>4. /\ Firsts(s, n) \in Seq(A)
      /\ \A i \in 1..Len(Firsts(s, n)) : i \in 1..Len(s) /\ Firsts(s, n)[i] = s[i]
  BY <1>1, <1>2, <1>3
<1>5. Elements(Firsts(s, n)) \subseteq Elements(s)
  BY <1>4 DEF Elements
<1> QED
  BY <1>2, <1>3, <1>4, <1>5 DEF m

LEMMA OrdinalsFacts ==
  ASSUME NEW A, NEW cols \in Seq(A)
  PROVE  /\ Ordinals(cols) \in Seq(DOMAIN cols)
         /\ Len(Ordinals(cols)) = Len(cols)
         /\ \A i \in 1..Len(cols) : Ordinals(cols)[i] = i
         /\ Elements(Ordinals(cols)) = DOMAIN cols
<1>1. DOMAIN cols = 1..Len(cols) /\ Len(cols) \in Nat
  OBVIOUS
<1>2. Ordinals(cols) \in [1..Len(cols) -> DOMAIN cols]
  BY <1>1 DEF Ordinals
<1>3. Ordinals(cols) \in Seq(DOMAIN cols) /\ Len(Ordinals(cols)) = Len(cols)
  BY <1>1, <1>2
<1>4. \A i \in 1..Len(cols) : Ordinals(cols)[i] = i
  BY <1>1 DEF Ordinals
<1>5. Elements(Ordinals(cols)) = DOMAIN cols
  BY <1>1, <1>2, <1>4 DEF Elements
<1> QED
  BY <1>3, <1>4, <1>5

-----------------------------------------------------------------------------
(* Columns, measures and the fields of a result *)

LEMMA FunctionIsSeq ==
  ASSUME NEW S, NEW n \in Nat, NEW f \in [1..n -> S]
  PROVE  f \in Seq(S) /\ Len(f) = n
OBVIOUS

LEMMA NotEmpty ==
  ASSUME NEW S, NEW s \in Seq(S), 1 <= Len(s)
  PROVE  s # <<>>
OBVIOUS

LEMMA NotEmptyLength ==
  ASSUME NEW S, NEW s \in Seq(S), s # <<>>
  PROVE  Len(s) \in Nat /\ 1 <= Len(s) /\ 1 \in 1..Len(s)
OBVIOUS

LEMMA InRange ==
  ASSUME NEW n \in Nat, NEW m \in Nat, m <= n
  PROVE  1..m \subseteq 1..n
OBVIOUS

LEMMA FirstOne ==
  ASSUME NEW A, NEW s \in Seq(A), s # <<>>
  PROVE  /\ Firsts(s, 1) \in Seq(A) /\ Len(Firsts(s, 1)) = 1
         /\ Firsts(s, 1)[1] = s[1] /\ s[1] \in A
         /\ Len(s) \in Nat /\ 1 <= Len(s)
<1>1. Len(s) \in Nat /\ 1 <= Len(s)
  OBVIOUS
<1>2. /\ Firsts(s, 1) \in Seq(A)
      /\ Len(Firsts(s, 1)) = IF Len(s) < 1 THEN Len(s) ELSE 1
      /\ \A i \in 1..Len(Firsts(s, 1)) : Firsts(s, 1)[i] = s[i]
  BY FirstsFacts
<1> QED
  BY <1>1, <1>2

LEMMA FirstTwo ==
  ASSUME NEW A, NEW s \in Seq(A), 2 <= Len(s)
  PROVE  /\ Firsts(s, 2) \in Seq(A) /\ Len(Firsts(s, 2)) = 2
         /\ \A i \in 1..2 : Firsts(s, 2)[i] = s[i] /\ s[i] \in A
<1>1. Len(s) \in Nat /\ 2 \in Nat
  OBVIOUS
<1>2. /\ Firsts(s, 2) \in Seq(A)
      /\ Len(Firsts(s, 2)) = IF Len(s) < 2 THEN Len(s) ELSE 2
      /\ \A i \in 1..Len(Firsts(s, 2)) : Firsts(s, 2)[i] = s[i]
  BY <1>1, FirstsFacts
<1>3. 1..2 \subseteq 1..Len(s)
  BY <1>1, InRange
<1>4. \A i \in 1..2 : s[i] \in A
  BY <1>3
<1> QED
  BY <1>1, <1>2, <1>4

LEMMA FirstSome ==
  ASSUME NEW A, NEW s \in Seq(A), s # <<>>, NEW n \in Nat \ {0}
  PROVE  Firsts(s, n) \in Seq(A) /\ 1 <= Len(Firsts(s, n)) /\ Len(Firsts(s, n)) <= n
<1>1. Len(s) \in Nat /\ 1 <= Len(s)
  BY NotEmptyLength
<1>2. /\ Firsts(s, n) \in Seq(A)
      /\ Len(Firsts(s, n)) = IF Len(s) < n THEN Len(s) ELSE n
  BY FirstsFacts
<1>3. 1 <= n
  OBVIOUS
<1>4. CASE Len(s) < n
  BY <1>1, <1>2, <1>4
<1>5. CASE ~(Len(s) < n)
  BY <1>2, <1>3, <1>5
<1> QED
  BY <1>4, <1>5

\* What a result has for each dimension and each measure of its plan.
ResultField == [target : {"dimension", "measure"}, index : Nat \ {0},
                type : {"number", "date", "category"}]

Measured(cols) == [column : 0..Len(cols), aggregation : Aggregation]

LEMMA ColumnsOfDataset ==
  ASSUME NEW cols \in Seq(ColumnProfile)
  PROVE  /\ DOMAIN cols = 1..Len(cols) /\ Len(cols) \in Nat
         /\ \A c \in DOMAIN cols :
              /\ cols[c].type \in {"integer", "decimal", "date", "timestamp", "boolean",
                                 "text"}
              /\ DataType(cols[c]) \in {"number", "date", "category"}
         /\ Numbers(cols) \subseteq DOMAIN cols /\ Dates(cols) \subseteq DOMAIN cols
         /\ Labels(cols) \subseteq DOMAIN cols
<1>1. \A c \in ColumnProfile :
        c.type \in {"integer", "decimal", "date", "timestamp", "boolean", "text"}
  BY DEF ColumnProfile, NumericType, DateType
<1>2. \A c : DataType(c) \in {"number", "date", "category"}
  BY DEF DataType
<1> QED
  BY <1>1, <1>2 DEF Numbers, Dates, Labels

\* The fields of a result are those of its dimensions and then of its measures.
LEMMA SchemaFacts ==
  ASSUME NEW cols \in Seq(ColumnProfile), NEW p,
         p.dimensions \in Seq(DOMAIN cols), p.measures \in Seq(Measured(cols)),
         p.operation # "correlate"
  PROVE  LET n == Len(p.dimensions)
             m == Len(p.measures)
             schema == ResultSchema(p, cols) IN
         /\ schema \in Seq(ResultField)
         /\ n \in Nat /\ m \in Nat /\ Len(schema) = n + m
         /\ \A i \in 1..n : schema[i] = [target |-> "dimension", index |-> i,
                                         type |-> DataType(cols[p.dimensions[i]])]
         /\ \A i \in 1..m : schema[n + i] = [target |-> "measure", index |-> i,
                                             type |-> MeasureType(p.measures[i], cols)]
<1> DEFINE n == Len(p.dimensions)
           m == Len(p.measures)
           ds == DimensionFields(p, cols)
           ms == MeasureFields(p, cols)
<1>1. /\ n \in Nat /\ m \in Nat
      /\ DOMAIN p.dimensions = 1..n /\ DOMAIN p.measures = 1..m
      /\ \A i \in 1..n : i \in Nat \ {0}
      /\ \A i \in 1..m : i \in Nat \ {0}
  OBVIOUS
<1>2. /\ ds \in Seq(ResultField) /\ Len(ds) = n
      /\ \A i \in 1..n : ds[i] = [target |-> "dimension", index |-> i,
                                  type |-> DataType(cols[p.dimensions[i]])]
  <2>1. ds = [i \in 1..n |-> [target |-> "dimension", index |-> i,
                              type |-> DataType(cols[p.dimensions[i]])]]
    BY <1>1 DEF DimensionFields
  <2>2. \A i \in 1..n : DataType(cols[p.dimensions[i]]) \in {"number", "date", "category"}
    BY DEF DataType
  <2>3. \A i \in 1..n : [target |-> "dimension", index |-> i,
                         type |-> DataType(cols[p.dimensions[i]])] \in ResultField
    BY <1>1, <2>2 DEF ResultField
  <2>4. ds \in [1..n -> ResultField]
    BY <2>1, <2>3
  <2> QED
    BY <2>1, <2>4, <1>1, FunctionIsSeq
<1>3. /\ ms \in Seq(ResultField) /\ Len(ms) = m
      /\ \A i \in 1..m : ms[i] = [target |-> "measure", index |-> i,
                                  type |-> MeasureType(p.measures[i], cols)]
  <2>1. ms = [i \in 1..m |-> [target |-> "measure", index |-> i,
                              type |-> MeasureType(p.measures[i], cols)]]
    BY <1>1 DEF MeasureFields
  <2>2. \A i \in 1..m : MeasureType(p.measures[i], cols) \in {"number", "date", "category"}
    BY DEF MeasureType, DataType
  <2>3. \A i \in 1..m : [target |-> "measure", index |-> i,
                         type |-> MeasureType(p.measures[i], cols)] \in ResultField
    BY <1>1, <2>2 DEF ResultField
  <2>4. ms \in [1..m -> ResultField]
    BY <2>1, <2>3
  <2> QED
    BY <2>1, <2>4, <1>1, FunctionIsSeq
<1>4. ResultSchema(p, cols) = ds \o ms
  BY DEF ResultSchema
<1> HIDE DEF ds, ms, n, m
<1>5. /\ ds \o ms \in Seq(ResultField)
      /\ Len(ds \o ms) = n + m
      /\ \A i \in 1..(n + m) : (ds \o ms)[i] = IF i <= n THEN ds[i] ELSE ms[i - n]
  BY <1>2, <1>3, ConcatProperties
<1>6. \A i \in 1..n : i \in 1..(n + m) /\ i <= n
  BY <1>1
<1>7. \A i \in 1..m : n + i \in 1..(n + m) /\ ~(n + i <= n) /\ n + i - n = i
  BY <1>1
<1>8. \A i \in 1..n : (ds \o ms)[i] = ds[i]
  BY <1>5, <1>6
<1>9. ASSUME NEW i \in 1..m
      PROVE  (ds \o ms)[n + i] = ms[i]
  <2>1. n + i \in 1..(n + m) /\ ~(n + i <= n) /\ n + i - n = i
    BY <1>7
  <2>2. PICK k \in 1..(n + m) : k = n + i
    BY <2>1
  <2>3. (ds \o ms)[k] = IF k <= n THEN ds[k] ELSE ms[k - n]
    BY <1>5
  <2> QED
    BY <1>1, <2>1, <2>2, <2>3
<1> QED
  BY <1>1, <1>2, <1>3, <1>4, <1>5, <1>8, <1>9 DEF n, m

\* Measures a grouped plan may have.
GoodMeasures(ms, cols) ==
  /\ ms \in Seq(Measured(cols))
  /\ 1 <= Len(ms) /\ Len(ms) <= 16
  /\ \A i \in 1..Len(ms) : ms[i].aggregation # "value" /\ Measurable(ms[i], cols)

LEMMA MeasureFacts ==
  ASSUME NEW cols \in Seq(ColumnProfile), NEW s \in Seq(DOMAIN cols),
         NEW a \in Aggregation
  PROVE  /\ Measure(s, a) \in Seq(Measured(cols))
         /\ Len(Measure(s, a)) = Len(s)
         /\ \A i \in 1..Len(s) : Measure(s, a)[i] = [column |-> s[i], aggregation |-> a]
<1>1. DOMAIN s = 1..Len(s) /\ Len(s) \in Nat /\ DOMAIN cols = 1..Len(cols) /\ Len(cols) \in Nat
  OBVIOUS
<1>2. \A i \in 1..Len(s) : [column |-> s[i], aggregation |-> a] \in Measured(cols)
  <2>1. \A i \in 1..Len(s) : s[i] \in 0..Len(cols)
    BY <1>1
  <2> QED
    BY <2>1 DEF Measured
<1>3. Measure(s, a) = [i \in 1..Len(s) |-> [column |-> s[i], aggregation |-> a]]
  BY <1>1 DEF Measure
<1>4. Measure(s, a) \in [1..Len(s) -> Measured(cols)]
  BY <1>2, <1>3
<1> QED
  BY <1>1, <1>3, <1>4, FunctionIsSeq

LEMMA RowCountGood ==
  ASSUME NEW cols \in Seq(ColumnProfile)
  PROVE  GoodMeasures(<<RowCount>>, cols)
<1>1. RowCount \in Measured(cols)
  <2>1. 0 \in 0..Len(cols)
    OBVIOUS
  <2> QED
    BY <2>1 DEF RowCount, Measured, Aggregation
<1>2. /\ <<RowCount>> \in Seq(Measured(cols)) /\ Len(<<RowCount>>) = 1
      /\ <<RowCount>>[1] = RowCount
  BY <1>1
<1>3. RowCount.aggregation # "value" /\ Measurable(RowCount, cols)
  BY DEF RowCount, Measurable
<1>4. \A i \in 1..1 : i = 1
  OBVIOUS
<1> QED
  BY <1>2, <1>3, <1>4 DEF GoodMeasures

\* Any aggregation but "value" of numbers.
LEMMA NumbersGood ==
  ASSUME NEW cols \in Seq(ColumnProfile), NEW s \in Seq(Numbers(cols)),
         1 <= Len(s) /\ Len(s) <= 16,
         NEW a \in Aggregation \ {"value"}
  PROVE  GoodMeasures(Measure(s, a), cols)
<1>1. s \in Seq(DOMAIN cols)
  BY SeqMonotonic DEF Numbers
<1>2. /\ Measure(s, a) \in Seq(Measured(cols))
      /\ Len(Measure(s, a)) = Len(s)
      /\ \A i \in 1..Len(s) : Measure(s, a)[i] = [column |-> s[i], aggregation |-> a]
  BY <1>1, MeasureFacts
<1>3. \A i \in 1..Len(s) : s[i] \in Numbers(cols) /\ s[i] \in DOMAIN cols /\ s[i] # 0
  BY <1>1
<1>4. \A i \in 1..Len(s) : Measurable([column |-> s[i], aggregation |-> a], cols)
  BY <1>3 DEF Measurable, Numbers
<1> DEFINE ms == Measure(s, a)
<1>5. \A i \in 1..Len(s) : [column |-> s[i], aggregation |-> a].aggregation # "value"
  OBVIOUS
<1>6. /\ ms \in Seq(Measured(cols))
      /\ Len(ms) = Len(s)
      /\ \A i \in 1..Len(s) : ms[i].aggregation # "value" /\ Measurable(ms[i], cols)
  BY <1>2, <1>4, <1>5
<1> HIDE DEF ms
<1>7. GoodMeasures(ms, cols)
  BY <1>6 DEF GoodMeasures
<1> QED
  BY <1>7 DEF ms

LEMMA AggregationForType ==
  ASSUME NEW words
  PROVE  AggregationFor(words) \in {"average", "minimum", "maximum", "count", "sum"}
<1> DEFINE all == {"average", "minimum", "maximum", "count"}
           tried == <<"average", "minimum", "maximum", "count">>
<1>1. tried \in Seq(all)
  OBVIOUS
<1>2. Keep(tried, words) \in Seq(all \cap words)
  BY <1>1, KeepElements
<1>3. Keep(tried, words) # <<>> => Keep(tried, words)[1] \in all
  BY <1>2
<1> QED
  BY <1>3 DEF AggregationFor

LEMMA MeasureForGood ==
  ASSUME NEW cols \in Seq(ColumnProfile), NEW numeric \in Seq(Numbers(cols)), NEW words
  PROVE  GoodMeasures(MeasureFor(numeric, words), cols)
<1>1. CASE numeric = <<>>
  BY <1>1, RowCountGood DEF MeasureFor
<1>2. CASE numeric # <<>>
  <2>1. /\ Firsts(numeric, 1) \in Seq(Numbers(cols))
        /\ 1 <= Len(Firsts(numeric, 1)) /\ Len(Firsts(numeric, 1)) <= 16
    <3>1. 1 <= 1 /\ 1 <= 16
      OBVIOUS
    <3> QED
      BY <3>1, <1>2, FirstOne
  <2>2. AggregationFor(words) \in Aggregation \ {"value"}
    BY AggregationForType DEF Aggregation
  <2> QED
    BY <1>2, <2>1, <2>2, NumbersGood DEF MeasureFor
<1> QED
  BY <1>1, <1>2

LEMMA TotalsGood ==
  ASSUME NEW cols \in Seq(ColumnProfile), NEW numeric \in Seq(Numbers(cols)), NEW words,
         NEW ms \in Totals(numeric, words)
  PROVE  GoodMeasures(ms, cols)
<1>1. CASE numeric = <<>>
  <2>1. ms = <<RowCount>>
    BY <1>1 DEF Totals
  <2> QED
    BY <2>1, RowCountGood
<1>2. CASE numeric # <<>> /\ "summary" \in words
  <2> DEFINE five == <<"count", "sum", "average", "minimum", "maximum">>
  <2>1. ms = [i \in 1..5 |-> [column |-> numeric[1], aggregation |-> five[i]]]
    BY <1>2 DEF Totals
  <2>2. numeric[1] \in Numbers(cols) /\ numeric[1] \in 1..Len(cols) /\ Len(cols) \in Nat
    BY <1>2 DEF Numbers
  <2>3. \A i \in 1..5 : five[i] \in Aggregation \ {"value"}
    <3>1. \A i \in 1..5 : i = 1 \/ i = 2 \/ i = 3 \/ i = 4 \/ i = 5
      OBVIOUS
    <3> QED
      BY <3>1 DEF Aggregation
  <2> HIDE DEF five
  <2>4. \A i \in 1..5 : [column |-> numeric[1], aggregation |-> five[i]] \in Measured(cols)
    <3>1. numeric[1] \in 0..Len(cols)
      BY <2>2
    <3> QED
      BY <3>1, <2>3 DEF Measured
  <2>5. \A i \in 1..5 : Measurable([column |-> numeric[1], aggregation |-> five[i]], cols)
    BY <2>2 DEF Measurable, Numbers
  <2>6. ms \in [1..5 -> Measured(cols)] /\ 5 \in Nat
    BY <2>1, <2>4
  <2>7. ms \in Seq(Measured(cols)) /\ Len(ms) = 5
    BY <2>6, FunctionIsSeq, ZenonT(60)
  <2> QED
    BY <2>1, <2>3, <2>5, <2>7 DEF GoodMeasures
<1>3. CASE numeric # <<>> /\ "summary" \notin words
  <2>1. ms = Measure(Firsts(numeric, 1), IF "count" \in words THEN "count"
                                         ELSE AggregationFor(words))
    BY <1>3 DEF Totals
  <2>2. /\ Firsts(numeric, 1) \in Seq(Numbers(cols))
        /\ 1 <= Len(Firsts(numeric, 1)) /\ Len(Firsts(numeric, 1)) <= 16
    <3>1. 1 <= 1 /\ 1 <= 16
      OBVIOUS
    <3> QED
      BY <3>1, <1>3, FirstOne
  <2>3. (IF "count" \in words THEN "count" ELSE AggregationFor(words))
           \in Aggregation \ {"value"}
    BY AggregationForType DEF Aggregation
  <2> QED
    BY <2>1, <2>2, <2>3, NumbersGood
<1> QED
  BY <1>1, <1>2, <1>3

-----------------------------------------------------------------------------
(* The rules that make a plan of a question *)

MostFirst == <<[target |-> "measure", index |-> 1]>>

\* The plans the rules can make: numeric, the numbers a question names, and selected,
\* the columns it names or all of them.
RuleMade(p, numeric, selected, words, cols) ==
  \/ \E ms \in Totals(numeric, words) :
       p = MakePlan("aggregate", <<>>, ms, FALSE, <<>>, "table")
  \/ /\ 2 <= Len(numeric)
     /\ p = MakePlan("correlate", <<>>, Measure(Firsts(numeric, 2), "value"), FALSE,
                     <<>>, "table")
  \/ p = MakePlan("quality", <<>>, Measure(Firsts(selected, 16), "null_count"), FALSE,
                  <<>>, "table")
  \/ \E d \in Dates(cols) :
       p = MakePlan("trend", <<d>>, MeasureFor(numeric, words), TRUE, <<>>, "line")
  \/ \E d \in DOMAIN cols :
       p = MakePlan("distribution", <<d>>, <<RowCount>>, FALSE, MostFirst, "auto")
  \/ \E d \in DOMAIN cols :
       p = MakePlan("compare", <<d>>, MeasureFor(numeric, words), FALSE, MostFirst, "bar")
  \/ p = MakePlan("lookup", Firsts(selected, 8), <<>>, FALSE, <<>>, "table")

LEMMA RouteType ==
  ASSUME NEW words
  PROVE  Route(words) # <<>> =>
           Route(words)[1] \in {"correlation", "missing", "trend", "distribution", "group",
                                "rows"} \cap words
<1> DEFINE all == {"correlation", "missing", "trend", "distribution", "group", "rows"}
           tried == <<"correlation", "missing", "trend", "distribution", "group", "rows">>
<1>1. tried \in Seq(all)
  OBVIOUS
<1>2. Keep(tried, words) \in Seq(all \cap words)
  BY <1>1, KeepElements
<1> HIDE DEF all, tried
<1>3. Keep(tried, words) # <<>> => Keep(tried, words)[1] \in all \cap words
  BY <1>2
<1> QED
  BY <1>3 DEF Route, all, tried

LEMMA RulesMake ==
  ASSUME NEW cols \in Seq(ColumnProfile), cols # <<>>, NEW words,
         NEW names \in Seq(DOMAIN cols),
         NEW p \in PlansFor([words |-> words, names |-> names], cols)
  PROVE  \E numeric \in Seq(Numbers(cols)) :
           \E selected \in Seq(DOMAIN cols) \ {<<>>} :
             RuleMade(p, numeric, selected, words, cols)
<1> DEFINE q == [words |-> words, names |-> names]
           numeric == Keep(names, Numbers(cols))
           dates == Keep(names \o Ordinals(cols), Dates(cols))
           groups == Keep(names, Labels(cols))
           categories == Keep(Ordinals(cols), {c \in DOMAIN cols :
                                cols[c].semantic \in {"categorical", "identifier"}})
           selected == IF names = <<>> THEN Ordinals(cols) ELSE names
           route == Route(words)
<1>1. /\ Ordinals(cols) \in Seq(DOMAIN cols)
      /\ Ordinals(cols) # <<>>
  <2>1. Ordinals(cols) \in Seq(DOMAIN cols) /\ Len(Ordinals(cols)) = Len(cols)
    BY OrdinalsFacts
  <2>2. Len(cols) # 0
    OBVIOUS
  <2> QED
    BY <2>1, <2>2
<1>2. numeric \in Seq(Numbers(cols))
  <2>1. numeric \in Seq(DOMAIN cols \cap Numbers(cols))
    BY KeepElements
  <2>2. DOMAIN cols \cap Numbers(cols) = Numbers(cols)
    BY ColumnsOfDataset
  <2> QED
    BY <2>1, <2>2
<1>3. dates \in Seq(Dates(cols))
  <2>1. names \o Ordinals(cols) \in Seq(DOMAIN cols)
    BY <1>1, ConcatProperties
  <2>2. dates \in Seq(DOMAIN cols \cap Dates(cols))
    BY <2>1, KeepElements
  <2>3. DOMAIN cols \cap Dates(cols) = Dates(cols)
    BY ColumnsOfDataset
  <2> QED
    BY <2>2, <2>3
<1>4. groups \in Seq(DOMAIN cols) /\ categories \in Seq(DOMAIN cols)
  BY <1>1, KeepPicks
<1>5. selected \in Seq(DOMAIN cols) \ {<<>>}
  BY <1>1
<1> DEFINE Grouped(candidates, operation, measures, preference) ==
             {MakePlan(operation, <<candidates[i]>>, measures, FALSE, MostFirst, preference) :
                i \in DOMAIN Firsts(candidates, 1)}
<1>6. p \in (IF route = <<>>
             THEN IF words = {} THEN {}
                  ELSE {MakePlan("aggregate", <<>>, measures, FALSE, <<>>, "table") :
                          measures \in Totals(numeric, words)}
             ELSE CASE route[1] = "correlation" ->
                         IF Len(numeric) < 2 THEN {}
                         ELSE {MakePlan("correlate", <<>>,
                                        Measure(Firsts(numeric, 2), "value"),
                                        FALSE, <<>>, "table")}
                    [] route[1] = "missing" ->
                         {MakePlan("quality", <<>>,
                                   Measure(Firsts(selected, 16), "null_count"),
                                   FALSE, <<>>, "table")}
                    [] route[1] = "trend" ->
                         {MakePlan("trend", <<dates[i]>>, MeasureFor(numeric, words), TRUE,
                                   <<>>, "line") : i \in DOMAIN Firsts(dates, 1)}
                    [] route[1] = "distribution" ->
                         Grouped(groups \o names \o categories, "distribution",
                                 <<RowCount>>, "auto")
                    [] route[1] = "group" ->
                         Grouped(groups \o categories, "compare",
                                 MeasureFor(numeric, words), "bar")
                    [] route[1] = "rows" ->
                         {MakePlan("lookup", Firsts(selected, 8), <<>>, FALSE, <<>>,
                                   "table")})
  BY DEF PlansFor, MostFirst
<1>7. ASSUME NEW candidates \in Seq(DOMAIN cols), NEW i \in DOMAIN Firsts(candidates, 1)
      PROVE  candidates[i] \in DOMAIN cols
  <2>1. i \in 1..Len(candidates)
    BY <1>7, FirstsFacts
  <2> QED
    BY <2>1
<1>8. /\ groups \o names \o categories \in Seq(DOMAIN cols)
      /\ groups \o categories \in Seq(DOMAIN cols)
  <2>1. groups \o names \in Seq(DOMAIN cols) /\ groups \o categories \in Seq(DOMAIN cols)
    BY <1>4, ConcatProperties
  <2> QED
    BY <2>1, <1>4, ConcatProperties
<1>9. \A i \in DOMAIN Firsts(dates, 1) : dates[i] \in Dates(cols)
  <2>1. \A i \in DOMAIN Firsts(dates, 1) : i \in 1..Len(dates)
    BY <1>3, FirstsFacts
  <2> QED
    BY <2>1, <1>3
<1>10. Len(numeric) \in Nat
  BY <1>2
<1>11. route # <<>> => route[1] \in {"correlation", "missing", "trend", "distribution",
                                     "group", "rows"}
  BY RouteType
<1> HIDE DEF numeric, dates, groups, categories, selected, route
<1>12. RuleMade(p, numeric, selected, words, cols)
  <2>1. CASE route = <<>>
    BY <1>6, <2>1 DEF RuleMade
  <2>2. CASE route # <<>> /\ route[1] = "correlation"
    <3>1. /\ ~(Len(numeric) < 2)
          /\ p = MakePlan("correlate", <<>>, Measure(Firsts(numeric, 2), "value"), FALSE,
                          <<>>, "table")
      BY <1>6, <2>2
    <3>2. 2 <= Len(numeric)
      BY <3>1, <1>10
    <3> QED
      BY <3>1, <3>2 DEF RuleMade
  <2>3. CASE route # <<>> /\ route[1] = "missing"
    BY <1>6, <2>3 DEF RuleMade
  <2>4. CASE route # <<>> /\ route[1] = "trend"
    BY <1>6, <1>9, <2>4 DEF RuleMade
  <2>5. CASE route # <<>> /\ route[1] = "distribution"
    <3>1. p \in Grouped(groups \o names \o categories, "distribution", <<RowCount>>, "auto")
      BY <1>6, <2>5
    <3> QED
      BY <3>1, <1>7, <1>8 DEF RuleMade
  <2>6. CASE route # <<>> /\ route[1] = "group"
    <3>1. p \in Grouped(groups \o categories, "compare", MeasureFor(numeric, words), "bar")
      BY <1>6, <2>6
    <3> QED
      BY <3>1, <1>7, <1>8 DEF RuleMade
  <2>7. CASE route # <<>> /\ route[1] = "rows"
    BY <1>6, <2>7 DEF RuleMade
  <2> QED
    BY <1>11, <2>1, <2>2, <2>3, <2>4, <2>5, <2>6, <2>7
<1> QED
  BY <1>2, <1>5, <1>12

-----------------------------------------------------------------------------
(* What the rules make meets the contract and compiles *)

LEMMA EmptyElements == Elements(<<>>) = {} /\ DOMAIN <<>> = {} /\ Len(<<>>) = 0
<1>1. DOMAIN <<>> = {} /\ Len(<<>>) = 0
  OBVIOUS
<1> QED
  BY <1>1 DEF Elements

LEMMA GoodAggregates ==
  ASSUME NEW cols, NEW p, GoodMeasures(p.measures, cols)
  PROVE  /\ "value" \notin Aggregates(p)
         /\ \A i \in DOMAIN p.measures :
              /\ p.measures[i] \in Measured(cols)
              /\ p.measures[i].column = 0 => p.measures[i].aggregation = "count"
              /\ Measurable(p.measures[i], cols)
         /\ p.measures # <<>> /\ Len(p.measures) <= 16
         /\ DOMAIN p.measures = 1..Len(p.measures)
<1>1. p.measures \in Seq(Measured(cols)) /\ 1 <= Len(p.measures) /\ Len(p.measures) <= 16
  BY DEF GoodMeasures
<1>2. DOMAIN p.measures = 1..Len(p.measures)
  BY <1>1
<1>3. p.measures # <<>>
  BY <1>1, NotEmpty
<1>4. \A i \in DOMAIN p.measures : p.measures[i].aggregation # "value"
  BY <1>2 DEF GoodMeasures
<1>5. "value" \notin Aggregates(p)
  BY <1>4 DEF Aggregates
<1>6. \A i \in DOMAIN p.measures : p.measures[i] \in Measured(cols)
  BY <1>1
<1>7. \A i \in DOMAIN p.measures : Measurable(p.measures[i], cols)
  BY <1>2 DEF GoodMeasures
<1> QED
  BY <1>1, <1>2, <1>3, <1>5, <1>6, <1>7 DEF Measurable

\* Columns of measures are columns of the dataset.
LEMMA MeasuredColumns ==
  ASSUME NEW cols \in Seq(ColumnProfile), NEW p, p.measures \in Seq(Measured(cols))
  PROVE  {p.measures[i].column : i \in DOMAIN p.measures} \ {0} \subseteq DOMAIN cols
<1>1. \A i \in DOMAIN p.measures : p.measures[i] \in Measured(cols)
  OBVIOUS
<1>2. \A i \in DOMAIN p.measures : p.measures[i].column \in 0..Len(cols)
  BY <1>1 DEF Measured
<1>3. \A c \in 0..Len(cols) : c # 0 => c \in 1..Len(cols)
  OBVIOUS
<1>4. DOMAIN cols = 1..Len(cols)
  OBVIOUS
<1> QED
  BY <1>2, <1>3, <1>4

\* An order by the first measure names a field of the result.
LEMMA MostFirstIsField ==
  ASSUME NEW cols \in Seq(ColumnProfile), NEW p,
         p.dimensions \in Seq(DOMAIN cols), p.measures \in Seq(Measured(cols)),
         p.measures # <<>>, p.operation # "correlate"
  PROVE  \A s \in Elements(MostFirst) :
           \E field \in Elements(ResultSchema(p, cols)) : IsField(s, field)
<1> DEFINE n == Len(p.dimensions)
           schema == ResultSchema(p, cols)
<1>1. /\ schema \in Seq(ResultField)
      /\ n \in Nat /\ Len(p.measures) \in Nat /\ Len(schema) = n + Len(p.measures)
      /\ \A i \in 1..Len(p.measures) :
           schema[n + i] = [target |-> "measure", index |-> i,
                            type |-> MeasureType(p.measures[i], cols)]
  BY SchemaFacts
<1>2. 1 \in 1..Len(p.measures) /\ 1 <= Len(p.measures)
  BY NotEmptyLength
<1> HIDE DEF n, schema
<1>3. n + 1 \in 1..Len(schema)
  BY <1>1, <1>2
<1>4. schema[n + 1].target = "measure" /\ schema[n + 1].index = 1
  <2>1. schema[n + 1] = [target |-> "measure", index |-> 1,
                         type |-> MeasureType(p.measures[1], cols)]
    BY <1>1, <1>2
  <2> QED
    BY <2>1
<1>5. schema[n + 1] \in Elements(schema)
  BY <1>1, <1>3 DEF Elements
<1>6. \A s \in Elements(MostFirst) : s = [target |-> "measure", index |-> 1]
  BY DEF Elements, MostFirst
<1> QED
  BY <1>4, <1>5, <1>6 DEF IsField, schema

\* What the rules make of numbers or of rows, of all of them or by one column.
GroupedPlan(p, cols) ==
  /\ p.operation \in {"aggregate", "trend", "distribution", "compare"}
  /\ p.dimensions \in Seq(DOMAIN cols)
  /\ GoodMeasures(p.measures, cols)
  /\ p.sort = <<>> \/ p.sort = MostFirst
  /\ p.grain <=> (p.operation = "trend")
  /\ p.operation = "aggregate" => p.dimensions = <<>>
  /\ p.operation # "aggregate" => Len(p.dimensions) = 1
  /\ p.operation = "trend" => IsDate(cols[p.dimensions[1]])
  /\ p.operation = "distribution" => p.measures = <<RowCount>>

LEMMA GroupedPlanFits ==
  ASSUME NEW cols \in Seq(ColumnProfile), NEW p, GroupedPlan(p, cols)
  PROVE  MeetsContract(p) /\ Compiles(p, cols)
<1>1. /\ "value" \notin Aggregates(p)
      /\ \A i \in DOMAIN p.measures :
           /\ p.measures[i] \in Measured(cols)
           /\ p.measures[i].column = 0 => p.measures[i].aggregation = "count"
           /\ Measurable(p.measures[i], cols)
      /\ p.measures # <<>> /\ Len(p.measures) <= 16
      /\ DOMAIN p.measures = 1..Len(p.measures)
  BY GoodAggregates DEF GroupedPlan
<1>2. Len(p.dimensions) <= 4 /\ (p.operation # "aggregate" => p.dimensions # <<>>)
  <2>1. CASE p.operation = "aggregate"
    <3>1. p.dimensions = <<>>
      BY <2>1 DEF GroupedPlan
    <3>2. Len(p.dimensions) = 0
      BY <3>1, EmptyElements
    <3> QED
      BY <3>2, <2>1
  <2>2. CASE p.operation # "aggregate"
    <3>1. Len(p.dimensions) = 1 /\ p.dimensions \in Seq(DOMAIN cols)
      BY <2>2 DEF GroupedPlan
    <3>2. 1 <= Len(p.dimensions) /\ Len(p.dimensions) <= 4
      BY <3>1
    <3>3. p.dimensions # <<>>
      BY <3>1, <3>2, NotEmpty
    <3> QED
      BY <3>2, <3>3
  <2> QED
    BY <2>1, <2>2
<1>3. p.operation = "distribution" =>
        Len(p.measures) = 1 /\ Aggregates(p) \subseteq {"count", "count_distinct"}
  BY DEF RowCount, Aggregates, GroupedPlan
<1>4. /\ p.operation \in {"aggregate", "trend", "distribution", "compare"}
      /\ p.grain <=> (p.operation = "trend")
      /\ p.operation = "aggregate" => p.dimensions = <<>>
      /\ p.operation # "aggregate" => Len(p.dimensions) = 1
  BY DEF GroupedPlan
<1>5. MeetsContract(p)
  BY <1>1, <1>2, <1>3, <1>4 DEF MeetsContract
<1>6. p.measures \in Seq(Measured(cols)) /\ p.dimensions \in Seq(DOMAIN cols)
  BY DEF GroupedPlan, GoodMeasures
<1>7. {p.measures[i].column : i \in DOMAIN p.measures} \ {0} \subseteq DOMAIN cols
  BY <1>6, MeasuredColumns
<1>8. Elements(p.dimensions) \subseteq DOMAIN cols
  BY <1>6 DEF Elements
<1>9. \A s \in Elements(p.sort) :
        \E field \in Elements(ResultSchema(p, cols)) : IsField(s, field)
  <2>1. CASE p.sort = <<>>
    BY <2>1, EmptyElements
  <2>2. CASE p.sort = MostFirst
    BY <2>2, <1>1, <1>4, <1>6, MostFirstIsField
  <2> QED
    BY <2>1, <2>2 DEF GroupedPlan
<1>10. Compiles(p, cols)
  <2>1. p.operation = "trend" => p.grain /\ IsDate(cols[p.dimensions[1]])
    BY <1>4 DEF GroupedPlan
  <2>2. p.operation # "correlate"
    BY <1>4
  <2> QED
    BY <2>1, <2>2, <1>1, <1>7, <1>8, <1>9 DEF Compiles
<1> QED
  BY <1>5, <1>10

LEMMA CorrelationFits ==
  ASSUME NEW cols \in Seq(ColumnProfile), NEW numeric \in Seq(Numbers(cols)),
         2 <= Len(numeric), NEW p,
         p.operation = "correlate", p.dimensions = <<>>, ~p.grain, p.sort = <<>>,
         p.measures = Measure(Firsts(numeric, 2), "value")
  PROVE  /\ MeetsContract(p) /\ Compiles(p, cols)
         /\ p.measures[1].column = numeric[1] /\ p.measures[2].column = numeric[2]
         /\ DOMAIN p.measures = 1..2
<1> DEFINE two == Firsts(numeric, 2)
           ms == p.measures
<1>1. /\ two \in Seq(Numbers(cols)) /\ two \in Seq(DOMAIN cols)
      /\ Len(two) = 2
      /\ \A i \in 1..2 : two[i] = numeric[i] /\ two[i] \in Numbers(cols)
  <2>1. /\ two \in Seq(Numbers(cols)) /\ Len(two) = 2
        /\ \A i \in 1..2 : two[i] = numeric[i] /\ numeric[i] \in Numbers(cols)
    BY FirstTwo
  <2>2. two \in Seq(DOMAIN cols)
    BY <2>1, SeqMonotonic DEF Numbers
  <2> QED
    BY <2>1, <2>2
<1>2. "value" \in Aggregation
  BY DEF Aggregation
<1>3. /\ ms \in Seq(Measured(cols)) /\ Len(ms) = 2
      /\ \A i \in 1..2 : ms[i] = [column |-> two[i], aggregation |-> "value"]
  BY <1>1, <1>2, MeasureFacts
<1>4. \A i \in 1..2 : two[i] \in DOMAIN cols /\ two[i] # 0 /\ IsNumeric(cols[two[i]])
  <2>1. \A c \in Numbers(cols) : c \in DOMAIN cols /\ c # 0 /\ IsNumeric(cols[c])
    BY ColumnsOfDataset DEF Numbers
  <2> QED
    BY <1>1, <2>1
<1> HIDE DEF two, ms
<1>5. DOMAIN ms = 1..2 /\ ms # <<>>
  <2>1. DOMAIN ms = 1..2
    BY <1>3
  <2>2. 1 <= Len(ms)
    BY <1>3
  <2> QED
    BY <2>1, <2>2, <1>3, NotEmpty
<1>6. \A i \in DOMAIN ms : ms[i].column = two[i] /\ ms[i].aggregation = "value"
  BY <1>3, <1>5
<1>7. 1 \in DOMAIN ms /\ 2 \in DOMAIN ms
  BY <1>5
<1>8. Aggregates(p) = {"value"}
  BY <1>6, <1>7 DEF Aggregates, ms
<1>9. MeetsContract(p)
  <2>1. \A i \in DOMAIN p.measures : p.measures[i].column # 0
    BY <1>4, <1>5, <1>6 DEF ms
  <2>2. Len(p.dimensions) <= 4 /\ Len(p.measures) = 2 /\ p.measures # <<>>
    BY <1>3, <1>5, EmptyElements DEF ms
  <2>3. Len(p.measures) <= 16
    <3>1. 2 <= 16
      OBVIOUS
    <3> QED
      BY <3>1, <2>2
  <2> QED
    BY <2>1, <2>2, <2>3, <1>8 DEF MeetsContract
<1>10. Compiles(p, cols)
  <2>1. \A i \in DOMAIN p.measures :
          p.measures[i].column \in DOMAIN cols /\ IsNumeric(cols[p.measures[i].column])
    BY <1>4, <1>5, <1>6 DEF ms
  <2>2. Elements(p.dimensions) = {}
    BY EmptyElements
  <2> QED
    BY <2>1, <2>2 DEF Compiles
<1>11. ms[1].column = numeric[1] /\ ms[2].column = numeric[2]
  BY <1>1, <1>5, <1>6, <1>7
<1> QED
  BY <1>5, <1>9, <1>10, <1>11 DEF ms

LEMMA QualityFits ==
  ASSUME NEW cols \in Seq(ColumnProfile), NEW selected \in Seq(DOMAIN cols),
         selected # <<>>, NEW p,
         p.operation = "quality", p.dimensions = <<>>, ~p.grain, p.sort = <<>>,
         p.measures = Measure(Firsts(selected, 16), "null_count")
  PROVE  /\ MeetsContract(p) /\ Compiles(p, cols)
         /\ {p.measures[i].column : i \in DOMAIN p.measures} = Elements(Firsts(selected, 16))
<1> DEFINE some == Firsts(selected, 16)
           ms == p.measures
<1>1. some \in Seq(DOMAIN cols) /\ 1 <= Len(some) /\ Len(some) <= 16
  <2>1. 16 \in Nat \ {0}
    OBVIOUS
  <2> QED
    BY <2>1, FirstSome
<1>2. "null_count" \in Aggregation
  BY DEF Aggregation
<1>3. /\ ms \in Seq(Measured(cols)) /\ Len(ms) = Len(some)
      /\ \A i \in 1..Len(some) : ms[i] = [column |-> some[i], aggregation |-> "null_count"]
  BY <1>1, <1>2, MeasureFacts
<1>4. DOMAIN cols = 1..Len(cols) /\ DOMAIN some = 1..Len(some) /\ DOMAIN ms = 1..Len(ms)
      /\ Len(some) \in Nat
  BY <1>1, <1>3
<1>5. \A i \in DOMAIN some : some[i] \in DOMAIN cols
  BY <1>1
<1>6. \A c \in DOMAIN cols : c # 0
  BY <1>4
<1> HIDE DEF some, ms
<1>7. \A i \in DOMAIN ms : ms[i].column = some[i] /\ ms[i].aggregation = "null_count"
  BY <1>3, <1>4
<1>8. DOMAIN ms = DOMAIN some /\ 1 \in DOMAIN ms /\ ms # <<>> /\ Len(ms) <= 16
  <2>1. 1 \in 1..Len(some)
    BY <1>1, <1>4
  <2>2. ms # <<>>
    BY <1>1, <1>3, NotEmpty
  <2> QED
    BY <2>1, <2>2, <1>1, <1>3, <1>4
<1>9. Aggregates(p) = {"null_count"}
  BY <1>7, <1>8 DEF Aggregates, ms
<1>10. MeetsContract(p)
  <2>1. \A i \in DOMAIN p.measures : p.measures[i].column # 0
    BY <1>5, <1>6, <1>7, <1>8 DEF ms
  <2>2. Len(p.dimensions) = 0 /\ Len(p.measures) <= 16 /\ p.measures # <<>>
    BY <1>8, EmptyElements DEF ms
  <2> QED
    BY <2>1, <2>2, <1>9 DEF MeetsContract
<1>11. Compiles(p, cols)
  <2>1. \A i \in DOMAIN p.measures :
          p.measures[i].column \in DOMAIN cols /\ p.measures[i].column # 0
    BY <1>5, <1>6, <1>7, <1>8 DEF ms
  <2>2. \A i \in DOMAIN p.measures : Measurable(p.measures[i], cols)
    BY <2>1, <1>7 DEF Measurable, ms
  <2>3. Elements(p.dimensions) = {} /\ Elements(p.sort) = {}
    BY EmptyElements
  <2> QED
    BY <2>1, <2>2, <2>3 DEF Compiles
<1>12. {ms[i].column : i \in DOMAIN ms} = Elements(some)
  BY <1>7, <1>8 DEF Elements
<1> QED
  BY <1>10, <1>11, <1>12 DEF ms, some

LEMMA LookupFits ==
  ASSUME NEW cols \in Seq(ColumnProfile), NEW selected \in Seq(DOMAIN cols),
         selected # <<>>, NEW p,
         p.operation = "lookup", p.dimensions = Firsts(selected, 8), p.measures = <<>>,
         ~p.grain, p.sort = <<>>
  PROVE  MeetsContract(p) /\ Compiles(p, cols)
<1>1. /\ p.dimensions \in Seq(DOMAIN cols)
      /\ 1 <= Len(p.dimensions) /\ Len(p.dimensions) <= 8
  <2>1. 8 \in Nat \ {0}
    OBVIOUS
  <2> QED
    BY <2>1, FirstSome
<1>2. p.dimensions # <<>>
  BY <1>1, NotEmpty
<1>3. DOMAIN p.measures = {} /\ Len(p.measures) = 0 /\ Aggregates(p) = {}
  BY EmptyElements DEF Aggregates
<1>4. MeetsContract(p)
  BY <1>1, <1>2, <1>3 DEF MeetsContract
<1>5. Compiles(p, cols)
  <2>1. Elements(p.dimensions) \subseteq DOMAIN cols
    BY <1>1 DEF Elements
  <2>2. Elements(p.sort) = {}
    BY EmptyElements
  <2> QED
    BY <2>1, <2>2, <1>3 DEF Compiles
<1> QED
  BY <1>4, <1>5

\* Whatever a question says and names, the plan the rules make of it meets the
\* contract of a plan and compiles, for a dataset of any width.
THEOREM RulesPlanWhatExecutes ==
  ASSUME NEW cols \in Seq(ColumnProfile), cols # <<>>, NEW words,
         NEW names \in Seq(DOMAIN cols),
         NEW p \in PlansFor([words |-> words, names |-> names], cols)
  PROVE  MeetsContract(p) /\ Compiles(p, cols)
<1>1. PICK numeric \in Seq(Numbers(cols)) :
        \E selected \in Seq(DOMAIN cols) \ {<<>>} :
          RuleMade(p, numeric, selected, words, cols)
  BY RulesMake
<1>2. PICK selected \in Seq(DOMAIN cols) \ {<<>>} :
        RuleMade(p, numeric, selected, words, cols)
  BY <1>1
<1> DEFINE Fits == MeetsContract(p) /\ Compiles(p, cols)
<1>3. ASSUME NEW ms \in Totals(numeric, words),
             p = MakePlan("aggregate", <<>>, ms, FALSE, <<>>, "table")
      PROVE  Fits
  <2>1. /\ p.operation = "aggregate" /\ p.dimensions = <<>> /\ p.measures = ms
        /\ ~p.grain /\ p.sort = <<>>
    BY <1>3 DEF MakePlan
  <2>2. GoodMeasures(ms, cols)
    BY TotalsGood
  <2>3. p.dimensions \in Seq(DOMAIN cols)
    BY <2>1
  <2>4. GroupedPlan(p, cols)
    BY <2>1, <2>2, <2>3 DEF GroupedPlan
  <2> QED
    BY <2>4, GroupedPlanFits
<1>4. ASSUME NEW d \in Dates(cols),
             p = MakePlan("trend", <<d>>, MeasureFor(numeric, words), TRUE, <<>>, "line")
      PROVE  Fits
  <2>1. /\ p.operation = "trend" /\ p.dimensions = <<d>>
        /\ p.measures = MeasureFor(numeric, words) /\ p.grain /\ p.sort = <<>>
    BY <1>4 DEF MakePlan
  <2>2. GoodMeasures(p.measures, cols)
    BY <2>1, MeasureForGood
  <2>3. d \in DOMAIN cols /\ IsDate(cols[d])
    BY DEF Dates
  <2>4. p.dimensions \in Seq(DOMAIN cols) /\ Len(p.dimensions) = 1 /\ p.dimensions[1] = d
    BY <2>1, <2>3
  <2>5. GroupedPlan(p, cols)
    BY <2>1, <2>2, <2>3, <2>4 DEF GroupedPlan
  <2> QED
    BY <2>5, GroupedPlanFits
<1>5. ASSUME NEW d \in DOMAIN cols,
             p = MakePlan("distribution", <<d>>, <<RowCount>>, FALSE, MostFirst, "auto")
      PROVE  Fits
  <2>1. /\ p.operation = "distribution" /\ p.dimensions = <<d>>
        /\ p.measures = <<RowCount>> /\ ~p.grain /\ p.sort = MostFirst
    BY <1>5 DEF MakePlan
  <2>2. GoodMeasures(p.measures, cols)
    BY <2>1, RowCountGood
  <2>3. p.dimensions \in Seq(DOMAIN cols) /\ Len(p.dimensions) = 1
    BY <2>1
  <2>4. GroupedPlan(p, cols)
    BY <2>1, <2>2, <2>3 DEF GroupedPlan
  <2> QED
    BY <2>4, GroupedPlanFits
<1>6. ASSUME NEW d \in DOMAIN cols,
             p = MakePlan("compare", <<d>>, MeasureFor(numeric, words), FALSE, MostFirst,
                          "bar")
      PROVE  Fits
  <2>1. /\ p.operation = "compare" /\ p.dimensions = <<d>>
        /\ p.measures = MeasureFor(numeric, words) /\ ~p.grain
        /\ p.sort = MostFirst
    BY <1>6 DEF MakePlan
  <2>2. GoodMeasures(p.measures, cols)
    BY <2>1, MeasureForGood
  <2>3. p.dimensions \in Seq(DOMAIN cols) /\ Len(p.dimensions) = 1
    BY <2>1
  <2>4. GroupedPlan(p, cols)
    BY <2>1, <2>2, <2>3 DEF GroupedPlan
  <2> QED
    BY <2>4, GroupedPlanFits
<1>7. ASSUME 2 <= Len(numeric),
             p = MakePlan("correlate", <<>>, Measure(Firsts(numeric, 2), "value"), FALSE,
                          <<>>, "table")
      PROVE  Fits
  <2>1. /\ p.operation = "correlate" /\ p.dimensions = <<>>
        /\ p.measures = Measure(Firsts(numeric, 2), "value") /\ ~p.grain /\ p.sort = <<>>
    BY <1>7 DEF MakePlan
  <2> QED
    BY <2>1, <1>7, CorrelationFits
<1>8. ASSUME p = MakePlan("quality", <<>>, Measure(Firsts(selected, 16), "null_count"),
                          FALSE, <<>>, "table")
      PROVE  Fits
  <2>1. /\ p.operation = "quality" /\ p.dimensions = <<>>
        /\ p.measures = Measure(Firsts(selected, 16), "null_count")
        /\ ~p.grain /\ p.sort = <<>>
    BY <1>8 DEF MakePlan
  <2>2. selected # <<>> /\ selected \in Seq(DOMAIN cols)
    OBVIOUS
  <2> QED
    BY <2>1, <2>2, QualityFits
<1>9. ASSUME p = MakePlan("lookup", Firsts(selected, 8), <<>>, FALSE, <<>>, "table")
      PROVE  Fits
  <2>1. /\ p.operation = "lookup" /\ p.dimensions = Firsts(selected, 8)
        /\ p.measures = <<>> /\ ~p.grain /\ p.sort = <<>>
    BY <1>9 DEF MakePlan
  <2>2. selected # <<>> /\ selected \in Seq(DOMAIN cols)
    OBVIOUS
  <2> QED
    BY <2>1, <2>2, LookupFits
<1> QED
  BY <1>2, <1>3, <1>4, <1>5, <1>6, <1>7, <1>8, <1>9 DEF RuleMade

LEMMA DatasetsAreSequences ==
  ASSUME NEW n \in Nat, NEW cols \in DatasetsUpTo(n)
  PROVE  cols \in Seq(ColumnProfile) /\ cols # <<>>
<1>1. PICK k \in 1..n : cols \in [1..k -> ProfiledColumn]
  BY DEF DatasetsUpTo
<1>2. cols \in [1..k -> ColumnProfile] /\ k \in Nat /\ 1 <= k
  BY <1>1, ProfiledAssumption
<1>3. cols \in Seq(ColumnProfile) /\ Len(cols) = k
  BY <1>2, FunctionIsSeq
<1> QED
  BY <1>2, <1>3, NotEmpty

LEMMA NamesAreSequences ==
  ASSUME NEW cols \in Seq(ColumnProfile), NEW names \in SomeNames(cols)
  PROVE  names \in Seq(DOMAIN cols)
<1>1. CASE names = <<>>
  BY <1>1
<1>2. ASSUME NEW c \in DOMAIN cols, names = <<c>>
      PROVE  names \in Seq(DOMAIN cols)
  BY <1>2
<1>3. ASSUME names \in (DOMAIN cols) \X (DOMAIN cols)
      PROVE  names \in Seq(DOMAIN cols)
  <2>1. PICK c \in DOMAIN cols, d \in DOMAIN cols : names = <<c, d>>
    BY <1>3
  <2> QED
    BY <2>1
<1> QED
  BY <1>1, <1>2, <1>3 DEF SomeNames

\* A question is answered or found unsupported, and never fails in the engine.
LEMMA QuestionsExecute == EveryPlanExecutes
<1> SUFFICES ASSUME NEW cols \in DatasetsUpTo(MaxPlanWidth), NEW v \in Keyword,
                    NEW w \in Keyword, NEW names \in SomeNames(cols),
                    NEW p \in PlansFor([words |-> {v, w}, names |-> names], cols)
             PROVE  MeetsContract(p) /\ Compiles(p, cols)
  BY DEF EveryPlanExecutes
<1>1. cols \in Seq(ColumnProfile) /\ cols # <<>>
  BY DatasetsAreSequences, WidthAssumption
<1>2. names \in Seq(DOMAIN cols)
  BY <1>1, NamesAreSequences
<1> QED
  BY <1>1, <1>2, RulesPlanWhatExecutes

-----------------------------------------------------------------------------
(* The chart of a result *)

\* What a tried plan is made of.
LEMMA TriedPlanFields ==
  ASSUME NEW cols \in Seq(ColumnProfile), NEW p \in TriedPlans(cols)
  PROVE  /\ p.dimensions \in Seq(DOMAIN cols)
         /\ p.measures \in Seq(Measured(cols))
         /\ MeetsContract(p) /\ Compiles(p, cols)
         /\ DOMAIN p = {"operation", "dimensions", "measures", "grain", "sort", "preference"}
<1>1. PICK op \in {"aggregate", "compare", "trend", "distribution", "correlate", "quality",
                   "lookup"},
           ds \in SomeNames(cols), ms \in TriedMeasures(cols) :
        p = MakePlan(op, ds, ms, op = "trend", <<>>, "auto")
  BY DEF TriedPlans
<1>2. MeetsContract(p) /\ Compiles(p, cols)
  BY DEF TriedPlans
<1>3. /\ p.dimensions = ds /\ p.measures = ms
      /\ DOMAIN p = {"operation", "dimensions", "measures", "grain", "sort", "preference"}
  BY <1>1 DEF MakePlan
<1>4. ds \in Seq(DOMAIN cols)
  BY NamesAreSequences
<1>5. ms \in Seq(Measured(cols))
  <2> DEFINE one == [column : 0..Len(cols), aggregation : PlanAggregation]
  <2>1. one \subseteq Measured(cols)
    BY AggregationAssumption DEF Measured
  <2> HIDE DEF one
  <2>2. ASSUME ms = <<>>
        PROVE  ms \in Seq(one)
    BY <2>2
  <2>3. ASSUME NEW m \in one, ms = <<m>>
        PROVE  ms \in Seq(one)
    BY <2>3
  <2>4. ASSUME ms \in one \X one
        PROVE  ms \in Seq(one)
    <3>1. PICK m \in one, k \in one : ms = <<m, k>>
      BY <2>4
    <3> QED
      BY <3>1
  <2>5. ASSUME NEW m \in one, ms = [i \in 1..9 |-> m]
        PROVE  ms \in Seq(one)
    <3>1. ms \in [1..9 -> one] /\ 9 \in Nat
      BY <2>5
    <3> QED
      BY <3>1, FunctionIsSeq
  <2>6. ms \in Seq(one)
    BY <2>2, <2>3, <2>4, <2>5 DEF TriedMeasures, one
  <2> QED
    BY <2>1, <2>6, SeqMonotonic
<1> QED
  BY <1>2, <1>3, <1>4, <1>5

\* The schema of a result is not empty and no two of its fields are the same.
LEMMA SchemaDistinct ==
  ASSUME NEW cols \in Seq(ColumnProfile), NEW p,
         p.dimensions \in Seq(DOMAIN cols), p.measures \in Seq(Measured(cols)),
         MeetsContract(p)
  PROVE  LET schema == ResultSchema(p, cols) IN
         /\ schema \in Seq(ResultField) /\ schema # <<>>
         /\ \A i, j \in 1..Len(schema) : i # j => schema[i] # schema[j]
<1>1. CASE p.operation = "correlate"
  <2> DEFINE r == [target |-> "measure", index |-> 1, type |-> "number"]
  <2>1. ResultSchema(p, cols) = <<r>>
    BY <1>1 DEF ResultSchema
  <2>2. r \in ResultField
    BY DEF ResultField
  <2> HIDE DEF r
  <2>3. <<r>> \in Seq(ResultField) /\ Len(<<r>>) = 1 /\ <<r>> # <<>>
    BY <2>2
  <2>4. \A i, j \in 1..1 : i = j
    OBVIOUS
  <2> QED
    BY <2>1, <2>3, <2>4
<1>2. CASE p.operation # "correlate"
  <2> DEFINE n == Len(p.dimensions)
             m == Len(p.measures)
             schema == ResultSchema(p, cols)
  <2>1. /\ schema \in Seq(ResultField)
        /\ n \in Nat /\ m \in Nat /\ Len(schema) = n + m
        /\ \A i \in 1..n : schema[i] = [target |-> "dimension", index |-> i,
                                        type |-> DataType(cols[p.dimensions[i]])]
        /\ \A i \in 1..m : schema[n + i] = [target |-> "measure", index |-> i,
                                            type |-> MeasureType(p.measures[i], cols)]
    BY <1>2, SchemaFacts
  <2>2. p.dimensions # <<>> \/ p.measures # <<>>
    BY DEF MeetsContract
  <2>3. 1 <= n \/ 1 <= m
    BY <2>2, NotEmptyLength
  <2> HIDE DEF n, m, schema
  <2>4. schema # <<>>
    <3>1. 1 <= n + m
      BY <2>1, <2>3
    <3> QED
      BY <2>1, <3>1, NotEmpty
  <2>5. ASSUME NEW i \in 1..n
        PROVE  schema[i].target = "dimension" /\ schema[i].index = i
    <3>1. schema[i] = [target |-> "dimension", index |-> i,
                       type |-> DataType(cols[p.dimensions[i]])]
      BY <2>1
    <3> QED
      BY <3>1
  <2>6. ASSUME NEW i \in 1..m
        PROVE  schema[n + i].target = "measure" /\ schema[n + i].index = i
    <3>1. schema[n + i] = [target |-> "measure", index |-> i,
                           type |-> MeasureType(p.measures[i], cols)]
      BY <2>1
    <3> QED
      BY <3>1
  <2>7. ASSUME NEW k \in 1..(n + m)
        PROVE  \/ k \in 1..n
               \/ \E i \in 1..m : k = n + i
    <3>1. CASE k <= n
      BY <3>1, <2>1
    <3>2. CASE ~(k <= n)
      <4>1. k - n \in 1..m /\ k = n + (k - n)
        BY <3>2, <2>1
      <4> QED
        BY <4>1
    <3> QED
      BY <3>1, <3>2
  <2>8. ASSUME NEW k \in 1..(n + m), NEW l \in 1..(n + m), schema[k] = schema[l]
        PROVE  k = l
    <3>1. CASE k \in 1..n /\ l \in 1..n
      BY <3>1, <2>5, <2>8
    <3>2. CASE k \in 1..n /\ \E i \in 1..m : l = n + i
      BY <3>2, <2>5, <2>6, <2>8
    <3>3. CASE l \in 1..n /\ \E i \in 1..m : k = n + i
      BY <3>3, <2>5, <2>6, <2>8
    <3>4. ASSUME NEW i \in 1..m, NEW j \in 1..m, k = n + i, l = n + j
          PROVE  k = l
      <4>1. schema[n + i].index = i /\ schema[n + j].index = j
        BY <2>6
      <4>2. i = j
        BY <4>1, <3>4, <2>8
      <4> QED
        BY <4>2, <3>4
    <3> QED
      BY <2>7, <3>1, <3>2, <3>3, <3>4
  <2> QED
    BY <2>1, <2>4, <2>8 DEF schema
<1> QED
  BY <1>1, <1>2

\* What is drawn can be drawn.
LEMMA ChartTypeFacts ==
  ASSUME NEW p, NEW numbers, NEW categories, NEW rows
  PROVE  LET type == ChartType(p, numbers, categories, rows) IN
         /\ type # "table" => rows # 0
         /\ type = "scatter" => Len(numbers) >= 2
         /\ type # "table" /\ type # "scatter" => numbers # <<>> /\ categories # <<>>
         /\ type = "line" => categories[1].type = "date"
<1> DEFINE automatic ==
             IF p.operation = "trend" THEN "line"
             ELSE IF p.operation = "distribution" /\ rows <= 8 THEN "pie"
             ELSE IF p.operation \in {"compare", "distribution", "aggregate"} THEN "bar"
             ELSE "table"
           drawn == IF p.preference \in {"bar", "line", "pie"} THEN p.preference ELSE automatic
           type == ChartType(p, numbers, categories, rows)
<1>1. type = IF rows = 0 \/ p.preference \in {"none", "table"} THEN "table"
             ELSE IF p.preference = "scatter" /\ Len(numbers) >= 2 THEN "scatter"
             ELSE IF numbers = <<>> \/ categories = <<>> THEN "table"
             ELSE IF drawn = "line" /\ categories[1].type # "date" THEN "table"
             ELSE drawn
  BY DEF ChartType
<1>2. drawn \in {"line", "pie", "bar", "table"}
  OBVIOUS
<1> HIDE DEF drawn, type
<1>3. CASE rows = 0 \/ p.preference \in {"none", "table"}
  BY <1>1, <1>3 DEF type
<1>4. CASE /\ ~(rows = 0 \/ p.preference \in {"none", "table"})
           /\ p.preference = "scatter" /\ Len(numbers) >= 2
  BY <1>1, <1>4 DEF type
<1>5. CASE /\ ~(rows = 0 \/ p.preference \in {"none", "table"})
           /\ ~(p.preference = "scatter" /\ Len(numbers) >= 2)
  BY <1>1, <1>2, <1>5 DEF type
<1> QED
  BY <1>3, <1>4, <1>5

\* All that ChartsFit says of the chart of one result.
FitsResult(chart, schema, rows) ==
  /\ MeetsChartContract(chart)
  /\ MatchesResult(chart, schema)
  /\ chart.type # "table" => rows > 0 /\ Elements(chart.series) \cap Elements(chart.x) = {}
  /\ chart.type = "line" => chart.x[1].type = "date"

LEMMA OneElement ==
  ASSUME NEW A, NEW s \in Seq(A), Len(s) = 1
  PROVE  Elements(s) = {s[1]}
<1>1. DOMAIN s = 1..Len(s)
  OBVIOUS
<1>2. \A i \in 1..1 : i = 1
  OBVIOUS
<1>3. 1 \in 1..1
  OBVIOUS
<1> QED
  BY <1>1, <1>2, <1>3 DEF Elements

LEMMA LengthWithin ==
  ASSUME NEW S, NEW s \in Seq(S), 1 <= Len(s), NEW n \in Nat, Len(s) <= n, n <= 8
  PROVE  Len(s) \in 1..8
<1>1. PICK k \in Nat : k = Len(s) /\ 1 <= k /\ k <= n
  OBVIOUS
<1>2. 1 <= k /\ k <= n
  BY <1>1
<1>3. k \in 1..8
  BY <1>2
<1>4. k = Len(s)
  BY <1>1
<1> QED
  BY <1>3, <1>4

LEMMA FirstFive ==
  ASSUME NEW A, NEW s \in Seq(A)
  PROVE  /\ Firsts(s, 5) \in Seq(A)
         /\ Len(Firsts(s, 5)) = IF Len(s) < 5 THEN Len(s) ELSE 5
         /\ \A i \in 1..Len(Firsts(s, 5)) : i \in 1..Len(s) /\ Firsts(s, 5)[i] = s[i]
<1>1. 5 \in Nat
  OBVIOUS
<1> QED
  BY <1>1, FirstsFacts

\* The chart of a result whose fields differ fits it, whatever the plan prefers and
\* however many rows there are.
THEOREM ChartFitsResult ==
  ASSUME NEW schema \in Seq(ResultField), schema # <<>>,
         \A i, j \in 1..Len(schema) : i # j => schema[i] # schema[j],
         NEW p, NEW rows \in Nat
  PROVE  FitsResult(Chart(p, schema, rows), schema, rows)
<1> DEFINE counted == {field \in Elements(schema) : field.type = "number"}
           numbers == Keep(schema, counted)
           categories == Keep(schema, Elements(schema) \ counted)
           type == ChartType(p, numbers, categories, rows)
           chart == Chart(p, schema, rows)
<1>1. /\ numbers \in Seq(ResultField \cap counted)
      /\ Elements(numbers) = Elements(schema) \cap counted
      /\ categories \in Seq(ResultField \cap (Elements(schema) \ counted))
  BY KeepElements
<1>2. \A i, j \in 1..Len(numbers) : i # j => numbers[i] # numbers[j]
  BY KeepInjective
<1>3. counted \subseteq Elements(schema) /\ \A field \in counted : field.type = "number"
  OBVIOUS
<1>4. numbers \in Seq(counted) /\ categories \in Seq(Elements(schema) \ counted)
  <2> HIDE DEF counted, numbers, categories
  <2>1. ResultField \cap counted \subseteq counted
    OBVIOUS
  <2>2. ResultField \cap (Elements(schema) \ counted) \subseteq Elements(schema) \ counted
    OBVIOUS
  <2> QED
    BY <1>1, <2>1, <2>2, SeqMonotonic
<1>5. /\ type # "table" => rows # 0
      /\ type = "scatter" => Len(numbers) >= 2
      /\ type # "table" /\ type # "scatter" => numbers # <<>> /\ categories # <<>>
      /\ type = "line" => categories[1].type = "date"
  BY ChartTypeFacts
<1>6. /\ chart.type = type
      /\ chart.x = CASE type = "table" -> <<>>
                     [] type = "scatter" -> Firsts(numbers, 1)
                     [] OTHER -> Firsts(categories, 1)
      /\ chart.series = CASE type = "table" -> Firsts(schema, 8)
                          [] type = "scatter" -> Tail(Firsts(numbers, 5))
                          [] OTHER -> Firsts(numbers, 4)
  BY DEF Chart
<1> HIDE DEF counted, numbers, categories, type, chart
<1>7. 8 \in Nat \ {0} /\ 4 \in Nat \ {0} /\ 5 \in Nat /\ 1 \in Nat /\ 4 <= 8 /\ 8 <= 8
      /\ (rows # 0 => rows > 0)
  OBVIOUS
<1>8. ASSUME type = "table"
      PROVE  FitsResult(chart, schema, rows)
  <2>1. chart.type = "table" /\ chart.x = <<>> /\ chart.series = Firsts(schema, 8)
    BY <1>6, <1>8
  <2>2. /\ Firsts(schema, 8) \in Seq(ResultField)
        /\ 1 <= Len(Firsts(schema, 8)) /\ Len(Firsts(schema, 8)) <= 8
    BY <1>7, FirstSome
  <2>3. Len(chart.series) \in 1..8
    BY <1>7, <2>1, <2>2, LengthWithin
  <2>4. Elements(chart.series) \subseteq Elements(schema)
    BY <1>7, <2>1, FirstsFacts
  <2>5. Elements(chart.x) = {}
    BY <2>1, EmptyElements
  <2> QED
    BY <2>1, <2>3, <2>4, <2>5 DEF FitsResult, MeetsChartContract, MatchesResult
<1>9. ASSUME type = "scatter"
      PROVE  FitsResult(chart, schema, rows)
  <2> DEFINE five == Firsts(numbers, 5)
  <2>1. /\ chart.type = "scatter" /\ chart.x = Firsts(numbers, 1)
        /\ chart.series = Tail(five)
    BY <1>6, <1>9
  <2>2. Len(numbers) \in Nat /\ 2 <= Len(numbers)
    BY <1>4, <1>5, <1>9
  <2>3. numbers # <<>>
    <3>1. 1 <= Len(numbers)
      BY <2>2
    <3> QED
      BY <1>4, <3>1, NotEmpty
  <2>4. /\ chart.x \in Seq(counted) /\ Len(chart.x) = 1
        /\ chart.x[1] = numbers[1] /\ numbers[1] \in counted
    BY <1>4, <2>1, <2>3, FirstOne
  <2>5. /\ five \in Seq(counted)
        /\ Len(five) = IF Len(numbers) < 5 THEN Len(numbers) ELSE 5
        /\ \A i \in 1..Len(five) : i \in 1..Len(numbers) /\ five[i] = numbers[i]
    BY <1>4, FirstFive
  <2>6. 2 <= Len(five) /\ Len(five) <= 5 /\ Len(five) \in Nat
    <3>1. CASE Len(numbers) < 5
      BY <2>2, <2>5, <3>1
    <3>2. CASE ~(Len(numbers) < 5)
      BY <2>5, <3>2, SMTT(30)
    <3> QED
      BY <3>1, <3>2
  <2> HIDE DEF five
  <2>7. five # <<>>
    <3>1. 1 <= Len(five)
      BY <2>6
    <3> QED
      BY <2>5, <3>1, NotEmpty
  <2>8. /\ chart.series \in Seq(counted)
        /\ Len(chart.series) = Len(five) - 1
        /\ \A i \in 1..Len(chart.series) : chart.series[i] = five[i + 1]
    BY <2>1, <2>5, <2>7, HeadTailProperties
  <2>9. 1 <= Len(chart.series) /\ Len(chart.series) <= 4
    BY <2>6, <2>8
  <2>10. Len(chart.series) \in 1..8
    BY <1>7, <2>8, <2>9, LengthWithin
  <2>11. Elements(chart.series) \subseteq counted /\ Elements(chart.x) = {numbers[1]}
    <3>1. Elements(chart.series) \subseteq counted
      BY <2>8 DEF Elements
    <3> QED
      BY <3>1, <2>4, OneElement
  <2>12. ASSUME NEW i \in 1..Len(chart.series)
         PROVE  chart.series[i] # numbers[1]
    <3>1. PICK n \in Nat : n = Len(five) /\ 2 <= n
      BY <2>6
    <3>2. i + 1 \in 1..n /\ i + 1 # 1
      BY <2>8, <3>1
    <3>3. i + 1 \in 1..Len(numbers) /\ five[i + 1] = numbers[i + 1]
      BY <2>5, <3>1, <3>2
    <3>4. 1 \in 1..Len(numbers)
      BY <1>4, <2>3, NotEmptyLength
    <3>5. numbers[i + 1] # numbers[1]
      BY <1>2, <3>2, <3>3, <3>4
    <3> QED
      BY <2>8, <3>3, <3>5
  <2>13. Elements(chart.series) \cap Elements(chart.x) = {}
    <3>1. DOMAIN chart.series = 1..Len(chart.series)
      BY <2>8
    <3> QED
      BY <3>1, <2>11, <2>12 DEF Elements
  <2>14. chart.x # <<>>
    <3>1. 1 <= 1
      OBVIOUS
    <3> QED
      BY <3>1, <2>4, NotEmpty
  <2>15. MeetsChartContract(chart)
    BY <2>10, <2>14 DEF MeetsChartContract
  <2>16. MatchesResult(chart, schema)
    BY <1>3, <2>4, <2>11 DEF MatchesResult
  <2> QED
    BY <1>5, <1>7, <1>9, <2>1, <2>13, <2>15, <2>16 DEF FitsResult
<1>10. ASSUME type # "table" /\ type # "scatter"
       PROVE  FitsResult(chart, schema, rows)
  <2>1. /\ chart.type = type /\ chart.x = Firsts(categories, 1)
        /\ chart.series = Firsts(numbers, 4)
    BY <1>6, <1>10
  <2>2. numbers # <<>> /\ categories # <<>>
    BY <1>5, <1>10
  <2>3. /\ chart.x \in Seq(Elements(schema) \ counted) /\ Len(chart.x) = 1
        /\ chart.x[1] = categories[1] /\ categories[1] \in Elements(schema) \ counted
    BY <1>4, <2>1, <2>2, FirstOne
  <2>4. /\ chart.series \in Seq(counted)
        /\ 1 <= Len(chart.series) /\ Len(chart.series) <= 4
    BY <1>4, <1>7, <2>1, <2>2, FirstSome
  <2>5. Len(chart.series) \in 1..8
    BY <1>7, <2>4, LengthWithin
  <2>6. Elements(chart.series) \subseteq counted /\ Elements(chart.x) = {categories[1]}
    <3>1. Elements(chart.series) \subseteq counted
      BY <2>4 DEF Elements
    <3> QED
      BY <3>1, <2>3, OneElement
  <2>7. chart.x # <<>>
    <3>1. 1 <= 1
      OBVIOUS
    <3> QED
      BY <3>1, <2>3, NotEmpty
  <2>8. MeetsChartContract(chart)
    BY <2>5, <2>7 DEF MeetsChartContract
  <2>9. MatchesResult(chart, schema)
    BY <1>3, <2>3, <2>6 DEF MatchesResult
  <2>10. Elements(chart.series) \cap Elements(chart.x) = {}
    BY <2>3, <2>6
  <2>11. chart.type = "line" => chart.x[1].type = "date"
    BY <1>5, <2>1, <2>3
  <2> QED
    BY <1>5, <1>7, <1>10, <2>1, <2>8, <2>9, <2>10, <2>11 DEF FitsResult
<1>11. FitsResult(chart, schema, rows)
  BY <1>8, <1>9, <1>10
<1> QED
  BY <1>11 DEF chart

\* The chart of whatever a plan returns fits it.
LEMMA ChartsFitResults == EveryChartFits
<1> SUFFICES ASSUME NEW cols \in DatasetsUpTo(MaxPlanWidth), NEW p \in TriedPlans(cols),
                    NEW preference \in {"auto", "none", "table", "bar", "line", "pie",
                                      "scatter"},
                    NEW rows \in {0, 8, 9}
             PROVE  LET schema == ResultSchema(p, cols)
                        chart == Chart([p EXCEPT !.preference = preference], schema, rows)
                    IN FitsResult(chart, schema, rows)
  BY DEF EveryChartFits, FitsResult
<1>1. cols \in Seq(ColumnProfile)
  BY DatasetsAreSequences, WidthAssumption
<1>2. /\ p.dimensions \in Seq(DOMAIN cols) /\ p.measures \in Seq(Measured(cols))
      /\ MeetsContract(p)
  BY <1>1, TriedPlanFields
<1> DEFINE schema == ResultSchema(p, cols)
           q == [p EXCEPT !.preference = preference]
<1>3. /\ schema \in Seq(ResultField) /\ schema # <<>>
      /\ \A i, j \in 1..Len(schema) : i # j => schema[i] # schema[j]
  BY <1>1, <1>2, SchemaDistinct
<1>4. rows \in Nat
  OBVIOUS
<1> HIDE DEF schema, q
<1>5. FitsResult(Chart(q, schema, rows), schema, rows)
  BY <1>3, <1>4, ChartFitsResult
<1> QED
  BY <1>5 DEF schema, q

-----------------------------------------------------------------------------
(* The prompts that are suggested *)

\* What the rules make of a route, once it is known.
LEMMA PlansByRoute ==
  ASSUME NEW words, NEW names, NEW cols
  PROVE  LET made == PlansFor([words |-> words, names |-> names], cols)
             numeric == Keep(names, Numbers(cols))
             dates == Keep(names \o Ordinals(cols), Dates(cols))
             groups == Keep(names, Labels(cols))
             categories == Keep(Ordinals(cols), {c \in DOMAIN cols :
                                  cols[c].semantic \in {"categorical", "identifier"}})
             selected == IF names = <<>> THEN Ordinals(cols) ELSE names
             route == Route(words)
         IN /\ route = <<>> /\ words # {} =>
                 \A ms \in Totals(numeric, words) :
                   MakePlan("aggregate", <<>>, ms, FALSE, <<>>, "table") \in made
            /\ route # <<>> =>
                 /\ route[1] = "correlation" /\ ~(Len(numeric) < 2) =>
                      MakePlan("correlate", <<>>, Measure(Firsts(numeric, 2), "value"),
                               FALSE, <<>>, "table") \in made
                 /\ route[1] = "missing" =>
                      MakePlan("quality", <<>>, Measure(Firsts(selected, 16), "null_count"),
                               FALSE, <<>>, "table") \in made
                 /\ route[1] = "trend" =>
                      \A i \in DOMAIN Firsts(dates, 1) :
                        MakePlan("trend", <<dates[i]>>, MeasureFor(numeric, words), TRUE,
                                 <<>>, "line") \in made
                 /\ route[1] = "distribution" =>
                      \A i \in DOMAIN Firsts(groups \o names \o categories, 1) :
                        MakePlan("distribution", <<(groups \o names \o categories)[i]>>,
                                 <<RowCount>>, FALSE, MostFirst, "auto") \in made
                 /\ route[1] = "group" =>
                      \A i \in DOMAIN Firsts(groups \o categories, 1) :
                        MakePlan("compare", <<(groups \o categories)[i]>>,
                                 MeasureFor(numeric, words), FALSE, MostFirst, "bar")
                          \in made
                 /\ route[1] = "rows" =>
                      MakePlan("lookup", Firsts(selected, 8), <<>>, FALSE, <<>>, "table")
                        \in made
<1> DEFINE made == PlansFor([words |-> words, names |-> names], cols)
           numeric == Keep(names, Numbers(cols))
           dates == Keep(names \o Ordinals(cols), Dates(cols))
           groups == Keep(names, Labels(cols))
           categories == Keep(Ordinals(cols), {c \in DOMAIN cols :
                                cols[c].semantic \in {"categorical", "identifier"}})
           selected == IF names = <<>> THEN Ordinals(cols) ELSE names
           route == Route(words)
           Grouped(candidates, operation, measures, preference) ==
             {MakePlan(operation, <<candidates[i]>>, measures, FALSE, MostFirst, preference) :
                i \in DOMAIN Firsts(candidates, 1)}
<1>1. \A p : p \in made <=> p \in
        (IF route = <<>>
         THEN IF words = {} THEN {}
              ELSE {MakePlan("aggregate", <<>>, measures, FALSE, <<>>, "table") :
                      measures \in Totals(numeric, words)}
         ELSE CASE route[1] = "correlation" ->
                     IF Len(numeric) < 2 THEN {}
                     ELSE {MakePlan("correlate", <<>>, Measure(Firsts(numeric, 2), "value"),
                                    FALSE, <<>>, "table")}
                [] route[1] = "missing" ->
                     {MakePlan("quality", <<>>, Measure(Firsts(selected, 16), "null_count"),
                               FALSE, <<>>, "table")}
                [] route[1] = "trend" ->
                     {MakePlan("trend", <<dates[i]>>, MeasureFor(numeric, words), TRUE,
                               <<>>, "line") : i \in DOMAIN Firsts(dates, 1)}
                [] route[1] = "distribution" ->
                     Grouped(groups \o names \o categories, "distribution",
                             <<RowCount>>, "auto")
                [] route[1] = "group" ->
                     Grouped(groups \o categories, "compare",
                             MeasureFor(numeric, words), "bar")
                [] route[1] = "rows" ->
                     {MakePlan("lookup", Firsts(selected, 8), <<>>, FALSE, <<>>, "table")})
  BY DEF PlansFor, MostFirst
<1> HIDE DEF made, numeric, dates, groups, categories, selected, route
<1>2. route = <<>> /\ words # {} =>
        \A p : p \in made <=>
          p \in {MakePlan("aggregate", <<>>, measures, FALSE, <<>>, "table") :
                   measures \in Totals(numeric, words)}
  BY <1>1
<1>3. route # <<>> /\ route[1] = "correlation" /\ ~(Len(numeric) < 2) =>
        \A p : p \in made <=>
          p \in {MakePlan("correlate", <<>>, Measure(Firsts(numeric, 2), "value"), FALSE,
                          <<>>, "table")}
  BY <1>1
<1>4. route # <<>> /\ route[1] = "missing" =>
        \A p : p \in made <=>
          p \in {MakePlan("quality", <<>>, Measure(Firsts(selected, 16), "null_count"),
                          FALSE, <<>>, "table")}
  BY <1>1
<1>5. route # <<>> /\ route[1] = "trend" =>
        \A p : p \in made <=>
          p \in {MakePlan("trend", <<dates[i]>>, MeasureFor(numeric, words), TRUE, <<>>,
                          "line") : i \in DOMAIN Firsts(dates, 1)}
  BY <1>1
<1>6. route # <<>> /\ route[1] = "distribution" =>
        \A p : p \in made <=>
          p \in Grouped(groups \o names \o categories, "distribution", <<RowCount>>, "auto")
  BY <1>1
<1>7. route # <<>> /\ route[1] = "group" =>
        \A p : p \in made <=>
          p \in Grouped(groups \o categories, "compare", MeasureFor(numeric, words), "bar")
  BY <1>1
<1>8. route # <<>> /\ route[1] = "rows" =>
        \A p : p \in made <=>
          p \in {MakePlan("lookup", Firsts(selected, 8), <<>>, FALSE, <<>>, "table")}
  BY <1>1
<1> QED
  BY <1>2, <1>3, <1>4, <1>5, <1>6, <1>7, <1>8
  DEF made, numeric, dates, groups, categories, selected, route

\* The first of the deciding keywords a prompt contains.
Deciding == <<"correlation", "missing", "trend", "distribution", "group", "rows">>

DecidingWord == {"correlation", "missing", "trend", "distribution", "group", "rows"}

LEMMA DecidingIs == Deciding \in Seq(DecidingWord) /\ Len(Deciding) = 6
BY DEF Deciding, DecidingWord

LEMMA RouteTo ==
  ASSUME NEW words, NEW i \in 1..Len(Deciding), Deciding[i] \in words,
         \A j \in 1..(i - 1) : Deciding[j] \notin words
  PROVE  Route(words) # <<>> /\ Route(words)[1] = Deciding[i]
<1>1. Keep(Deciding, words) # <<>> /\ Keep(Deciding, words)[1] = Deciding[i]
  BY DecidingIs, KeepFirst, ZenonT(60)
<1> QED
  BY <1>1 DEF Route, Deciding

LEMMA RoutesOfPrompts ==
  /\ Route({"rows"}) # <<>> /\ Route({"rows"})[1] = "rows"
  /\ Route({"count"}) = <<>>
  /\ Route({"count", "missing"}) # <<>> /\ Route({"count", "missing"})[1] = "missing"
  /\ Route({"group", "sum"}) # <<>> /\ Route({"group", "sum"})[1] = "group"
  /\ Route({"trend", "group", "sum"}) # <<>>
  /\ Route({"trend", "group", "sum"})[1] = "trend"
  /\ Route({"correlation"}) # <<>> /\ Route({"correlation"})[1] = "correlation"
  /\ Route({"distribution"}) # <<>> /\ Route({"distribution"})[1] = "distribution"
<1>1. /\ Deciding[1] = "correlation" /\ Deciding[2] = "missing" /\ Deciding[3] = "trend"
      /\ Deciding[4] = "distribution" /\ Deciding[5] = "group" /\ Deciding[6] = "rows"
      /\ 2 \in 1..Len(Deciding) /\ 3 \in 1..Len(Deciding) /\ 4 \in 1..Len(Deciding)
      /\ 5 \in 1..Len(Deciding) /\ 6 \in 1..Len(Deciding) /\ 1 \in 1..Len(Deciding)
  BY DecidingIs DEF Deciding
<1>2. /\ \A j \in 1..(2 - 1) : j = 1
      /\ \A j \in 1..(3 - 1) : j = 1 \/ j = 2
      /\ \A j \in 1..(4 - 1) : j = 1 \/ j = 2 \/ j = 3
      /\ \A j \in 1..(5 - 1) : j = 1 \/ j = 2 \/ j = 3 \/ j = 4
      /\ \A j \in 1..(6 - 1) : j = 1 \/ j = 2 \/ j = 3 \/ j = 4 \/ j = 5
      /\ \A j \in 1..(1 - 1) : FALSE
  OBVIOUS
<1>3. Route({"rows"}) # <<>> /\ Route({"rows"})[1] = "rows"
  <2>1. \A j \in 1..(6 - 1) : Deciding[j] \notin {"rows"}
    BY <1>1, <1>2
  <2>2. PICK i \in 1..Len(Deciding) :
          /\ Deciding[i] = "rows"
          /\ \A j \in 1..(i - 1) : Deciding[j] \notin {"rows"}
    BY <1>1, <2>1
  <2> QED
    BY <2>2, RouteTo
<1>4. Route({"count", "missing"}) # <<>> /\ Route({"count", "missing"})[1] = "missing"
  <2>1. \A j \in 1..(2 - 1) : Deciding[j] \notin {"count", "missing"}
    BY <1>1, <1>2
  <2>2. PICK i \in 1..Len(Deciding) :
          /\ Deciding[i] = "missing"
          /\ \A j \in 1..(i - 1) : Deciding[j] \notin {"count", "missing"}
    BY <1>1, <2>1
  <2> QED
    BY <2>2, RouteTo
<1>5. Route({"group", "sum"}) # <<>> /\ Route({"group", "sum"})[1] = "group"
  <2>1. \A j \in 1..(5 - 1) : Deciding[j] \notin {"group", "sum"}
    BY <1>1, <1>2
  <2>2. PICK i \in 1..Len(Deciding) :
          /\ Deciding[i] = "group"
          /\ \A j \in 1..(i - 1) : Deciding[j] \notin {"group", "sum"}
    BY <1>1, <2>1
  <2> QED
    BY <2>2, RouteTo
<1>6. /\ Route({"trend", "group", "sum"}) # <<>>
      /\ Route({"trend", "group", "sum"})[1] = "trend"
  <2>1. \A j \in 1..(3 - 1) : Deciding[j] \notin {"trend", "group", "sum"}
    BY <1>1, <1>2
  <2>2. PICK i \in 1..Len(Deciding) :
          /\ Deciding[i] = "trend"
          /\ \A j \in 1..(i - 1) : Deciding[j] \notin {"trend", "group", "sum"}
    BY <1>1, <2>1
  <2> QED
    BY <2>2, RouteTo
<1>7. Route({"correlation"}) # <<>> /\ Route({"correlation"})[1] = "correlation"
  <2>1. \A j \in 1..(1 - 1) : Deciding[j] \notin {"correlation"}
    BY <1>2
  <2>2. PICK i \in 1..Len(Deciding) :
          /\ Deciding[i] = "correlation"
          /\ \A j \in 1..(i - 1) : Deciding[j] \notin {"correlation"}
    BY <1>1, <2>1
  <2> QED
    BY <2>2, RouteTo
<1>8. Route({"distribution"}) # <<>> /\ Route({"distribution"})[1] = "distribution"
  <2>1. \A j \in 1..(4 - 1) : Deciding[j] \notin {"distribution"}
    BY <1>1, <1>2
  <2>2. PICK i \in 1..Len(Deciding) :
          /\ Deciding[i] = "distribution"
          /\ \A j \in 1..(i - 1) : Deciding[j] \notin {"distribution"}
    BY <1>1, <2>1
  <2> QED
    BY <2>2, RouteTo
<1>9. Route({"count"}) = <<>>
  <2>1. Deciding \in Seq({"correlation", "missing", "trend", "distribution", "group", "rows"})
    BY DEF Deciding
  <2>2. Elements(Deciding) \cap {"count"} = {}
    BY <2>1 DEF Elements
  <2>3. Keep(Deciding, {"count"}) = <<>>
    BY <2>1, <2>2, KeepNone
  <2> QED
    BY <2>3 DEF Route, Deciding
<1> QED
  BY <1>3, <1>4, <1>5, <1>6, <1>7, <1>8, <1>9

LEMMA OnlyElement ==
  ASSUME NEW A, NEW s \in Seq(A), NEW a, Elements(s) = {a}
  PROVE  /\ s # <<>> /\ s[1] = a
         /\ Firsts(s, 1) \in Seq(A) /\ Len(Firsts(s, 1)) = 1 /\ Firsts(s, 1)[1] = a
<1>1. s # <<>>
  BY EmptyElements
<1>2. DOMAIN s = 1..Len(s) /\ 1 \in 1..Len(s)
  BY <1>1, NotEmptyLength
<1>3. s[1] \in Elements(s)
  BY <1>2 DEF Elements
<1>4. s[1] = a
  BY <1>3, SMTT(30)
<1> QED
  BY <1>1, <1>4, FirstOne

LEMMA FirstsAll ==
  ASSUME NEW A, NEW s \in Seq(A), NEW n \in Nat, Len(s) <= n
  PROVE  Elements(Firsts(s, n)) = Elements(s)
<1>1. /\ Firsts(s, n) \in Seq(A)
      /\ Len(Firsts(s, n)) = IF Len(s) < n THEN Len(s) ELSE n
      /\ \A i \in 1..Len(Firsts(s, n)) : i \in 1..Len(s) /\ Firsts(s, n)[i] = s[i]
  BY FirstsFacts
<1>2. Len(s) \in Nat
  OBVIOUS
<1>3. Len(Firsts(s, n)) = Len(s)
  <2>1. CASE Len(s) < n
    BY <1>1, <2>1
  <2>2. CASE ~(Len(s) < n)
    BY <1>1, <1>2, <2>2
  <2> QED
    BY <2>1, <2>2
<1>4. DOMAIN s = 1..Len(s) /\ DOMAIN Firsts(s, n) = 1..Len(s)
  BY <1>1, <1>3
<1> QED
  BY <1>1, <1>3, <1>4 DEF Elements

\* The columns some measures are taken from.
ColumnsMeasured(ms) == {ms[i].column : i \in DOMAIN ms} \ {0}

LEMMA PlannedColumnsAre ==
  ASSUME NEW p
  PROVE  PlannedColumns(p) = Elements(p.dimensions) \cup ColumnsMeasured(p.measures)
BY DEF PlannedColumns, ColumnsMeasured

\* The columns a measure of s is taken from are those of s.
LEMMA MeasureColumns ==
  ASSUME NEW cols \in Seq(ColumnProfile), NEW s \in Seq(DOMAIN cols),
         NEW a \in Aggregation, NEW ms, ms = Measure(s, a)
  PROVE  ColumnsMeasured(ms) = Elements(s)
<1>1. /\ ms \in Seq(Measured(cols)) /\ Len(ms) = Len(s)
      /\ \A i \in 1..Len(s) : ms[i] = [column |-> s[i], aggregation |-> a]
  BY MeasureFacts
<1>2. ASSUME NEW i \in 1..Len(s)
      PROVE  ms[i].column = s[i]
  <2>1. ms[i] = [column |-> s[i], aggregation |-> a]
    BY <1>1
  <2> QED
    BY <2>1
<1>3. DOMAIN ms = 1..Len(s) /\ DOMAIN s = 1..Len(s)
  BY <1>1
<1>4. {ms[i].column : i \in DOMAIN ms} = Elements(s)
  BY <1>2, <1>3 DEF Elements
<1>5. Elements(s) \subseteq DOMAIN cols
  BY <1>3 DEF Elements
<1>6. 0 \notin DOMAIN cols
  <2>1. DOMAIN cols = 1..Len(cols)
    OBVIOUS
  <2>2. \A n : 0 \notin 1..n
    OBVIOUS
  <2> QED
    BY <2>1, <2>2
<1> QED
  BY <1>4, <1>5, <1>6 DEF ColumnsMeasured

\* The columns a measure that counts rows is taken from.
LEMMA RowCountColumns ==
  ASSUME NEW ms, ms = <<RowCount>>
  PROVE  ColumnsMeasured(ms) = {}
<1>1. RowCount.column = 0
  BY DEF RowCount
<1>2. DOMAIN ms = 1..1 /\ ms[1] = RowCount
  OBVIOUS
<1>3. \A i \in 1..1 : i = 1
  OBVIOUS
<1> QED
  BY <1>1, <1>2, <1>3 DEF ColumnsMeasured

LEMMA MeasureForColumns ==
  ASSUME NEW cols \in Seq(ColumnProfile), NEW numeric \in Seq(DOMAIN cols),
         NEW a, Elements(numeric) = {a}, NEW words, NEW ms, ms = MeasureFor(numeric, words)
  PROVE  ColumnsMeasured(ms) = {a}
<1>1. /\ numeric # <<>> /\ Firsts(numeric, 1) \in Seq(DOMAIN cols)
      /\ Len(Firsts(numeric, 1)) = 1 /\ Firsts(numeric, 1)[1] = a
  BY OnlyElement
<1>2. AggregationFor(words) \in Aggregation
  BY AggregationForType DEF Aggregation
<1>3. ms = Measure(Firsts(numeric, 1), AggregationFor(words))
  BY <1>1 DEF MeasureFor
<1>4. Elements(Firsts(numeric, 1)) = {a}
  BY <1>1, OneElement
<1>5. ColumnsMeasured(ms) = Elements(Firsts(numeric, 1))
  BY <1>1, <1>2, <1>3, MeasureColumns
<1> QED
  BY <1>4, <1>5

\* A question over these columns is planned as op, over them.
PlannedAs(words, columns, op, cols) ==
  \E p \in PlansFor([words |-> words, names |-> columns], cols) :
    p.operation = op /\ PlannedColumns(p) = Elements(columns)

LEMMA RowsPlanned ==
  ASSUME NEW cols \in Seq(ColumnProfile), NEW columns \in Seq(DOMAIN cols),
         columns # <<>>, Len(columns) <= 8
  PROVE  PlannedAs({"rows"}, columns, "lookup", cols)
<1>1. PICK p \in PlansFor([words |-> {"rows"}, names |-> columns], cols) :
        p = MakePlan("lookup", Firsts(columns, 8), <<>>, FALSE, <<>>, "table")
  BY PlansByRoute, RoutesOfPrompts
<1>2. p.operation = "lookup" /\ p.dimensions = Firsts(columns, 8) /\ p.measures = <<>>
  BY <1>1 DEF MakePlan
<1>3. Elements(Firsts(columns, 8)) = Elements(columns)
  <2>1. 8 \in Nat
    OBVIOUS
  <2> QED
    BY <2>1, FirstsAll
<1>4. ColumnsMeasured(p.measures) = {}
  BY <1>2, EmptyElements DEF ColumnsMeasured
<1> QED
  BY <1>2, <1>3, <1>4, PlannedColumnsAre DEF PlannedAs

LEMMA CountPlanned ==
  ASSUME NEW cols \in Seq(ColumnProfile)
  PROVE  PlannedAs({"count"}, <<>>, "aggregate", cols)
<1>1. Keep(<<>>, Numbers(cols)) = <<>>
  <2>1. <<>> \in Seq({}) /\ Elements(<<>>) \cap Numbers(cols) = {}
    BY EmptyElements
  <2> QED
    BY <2>1, KeepNone
<1>2. <<RowCount>> \in Totals(<<>>, {"count"})
  BY DEF Totals
<1>3. PICK p \in PlansFor([words |-> {"count"}, names |-> <<>>], cols) :
        p = MakePlan("aggregate", <<>>, <<RowCount>>, FALSE, <<>>, "table")
  <2>1. {"count"} # {} /\ Route({"count"}) = <<>>
    BY RoutesOfPrompts
  <2> QED
    BY <1>1, <1>2, <2>1, PlansByRoute
<1>4. p.operation = "aggregate" /\ p.dimensions = <<>> /\ p.measures = <<RowCount>>
  BY <1>3 DEF MakePlan
<1>5. ColumnsMeasured(p.measures) = {}
  BY <1>4, RowCountColumns
<1> QED
  BY <1>4, <1>5, EmptyElements, PlannedColumnsAre DEF PlannedAs

LEMMA MissingPlanned ==
  ASSUME NEW cols \in Seq(ColumnProfile), NEW columns \in Seq(DOMAIN cols),
         columns # <<>>, Len(columns) <= 16
  PROVE  PlannedAs({"count", "missing"}, columns, "quality", cols)
<1>1. PICK p \in PlansFor([words |-> {"count", "missing"}, names |-> columns], cols) :
        p = MakePlan("quality", <<>>, Measure(Firsts(columns, 16), "null_count"), FALSE,
                     <<>>, "table")
  BY PlansByRoute, RoutesOfPrompts
<1>2. /\ p.operation = "quality" /\ p.dimensions = <<>>
      /\ p.measures = Measure(Firsts(columns, 16), "null_count")
  BY <1>1 DEF MakePlan
<1>3. 16 \in Nat /\ "null_count" \in Aggregation
  BY DEF Aggregation
<1>4. Firsts(columns, 16) \in Seq(DOMAIN cols)
  BY <1>3, FirstsFacts
<1>5. Elements(Firsts(columns, 16)) = Elements(columns)
  BY <1>3, FirstsAll
<1>6. ColumnsMeasured(p.measures) = Elements(columns)
  BY <1>2, <1>3, <1>4, <1>5, MeasureColumns
<1> QED
  BY <1>2, <1>6, EmptyElements, PlannedColumnsAre DEF PlannedAs

\* Numbers, dates and labels share no column, and are all of them.
LEMMA TypesDisjoint ==
  ASSUME NEW cols
  PROVE  /\ Numbers(cols) \cap Dates(cols) = {}
         /\ Numbers(cols) \cap Labels(cols) = {}
         /\ Dates(cols) \cap Labels(cols) = {}
         /\ Numbers(cols) \subseteq DOMAIN cols /\ Dates(cols) \subseteq DOMAIN cols
         /\ Labels(cols) \subseteq DOMAIN cols
BY DEF Numbers, Dates, Labels, IsNumeric, IsDate, NumericType, DateType

\* The one number among two columns, and the one label, whatever their order.
LEMMA KeptOfTwo ==
  ASSUME NEW cols \in Seq(ColumnProfile), NEW columns \in Seq(DOMAIN cols),
         NEW S, NEW a, NEW b, Elements(columns) = {a, b}, a \in S, b \notin S \/ b = a
  PROVE  Keep(columns, S) \in Seq(DOMAIN cols) /\ Elements(Keep(columns, S)) = {a}
<1>1. Keep(columns, S) \in Seq(DOMAIN cols)
  BY KeepPicks
<1>2. Elements(Keep(columns, S)) = Elements(columns) \cap S
  BY KeepElements
<1> QED
  BY <1>1, <1>2

\* The first of what a sequence is followed by is its own.
LEMMA FirstOfConcat ==
  ASSUME NEW A, NEW s \in Seq(A), NEW t \in Seq(A), s # <<>>
  PROVE  /\ s \o t \in Seq(A) /\ 1 \in DOMAIN Firsts(s \o t, 1)
         /\ (s \o t)[1] = s[1]
<1>1. /\ s \o t \in Seq(A) /\ Len(s \o t) = Len(s) + Len(t)
      /\ \A i \in 1..(Len(s) + Len(t)) :
           (s \o t)[i] = IF i <= Len(s) THEN s[i] ELSE t[i - Len(s)]
  BY ConcatProperties
<1>2. Len(s) \in Nat /\ 1 <= Len(s) /\ Len(t) \in Nat
  BY NotEmptyLength
<1>3. PICK n \in Nat, m \in Nat : n = Len(s) /\ m = Len(t) /\ 1 <= n
  BY <1>2
<1>4. 1 \in 1..(n + m) /\ 1 <= n + m
  BY <1>3
<1>5. (s \o t)[1] = s[1]
  BY <1>1, <1>3, <1>4
<1>6. s \o t # <<>>
  <2>1. 1 <= Len(s \o t)
    BY <1>1, <1>3, <1>4
  <2> QED
    BY <1>1, <2>1, NotEmpty
<1>7. Firsts(s \o t, 1) \in Seq(A) /\ Len(Firsts(s \o t, 1)) = 1
  BY <1>1, <1>6, FirstOne
<1>8. DOMAIN Firsts(s \o t, 1) = 1..1
  BY <1>7
<1>9. 1 \in 1..1
  OBVIOUS
<1> QED
  BY <1>1, <1>5, <1>8, <1>9

LEMMA LabelledColumns ==
  ASSUME NEW cols \in Seq(ColumnProfile)
  PROVE  Keep(Ordinals(cols), {c \in DOMAIN cols :
                cols[c].semantic \in {"categorical", "identifier"}}) \in Seq(DOMAIN cols)
<1>1. Ordinals(cols) \in Seq(DOMAIN cols)
  BY OrdinalsFacts
<1> QED
  BY <1>1, KeepPicks

LEMMA GroupPlanned ==
  ASSUME NEW cols \in Seq(ColumnProfile), NEW columns \in Seq(DOMAIN cols),
         NEW a \in Numbers(cols), NEW b \in Labels(cols), Elements(columns) = {a, b}
  PROVE  PlannedAs({"group", "sum"}, columns, "compare", cols)
<1> DEFINE words == {"group", "sum"}
           numeric == Keep(columns, Numbers(cols))
           groups == Keep(columns, Labels(cols))
           categories == Keep(Ordinals(cols), {c \in DOMAIN cols :
                                cols[c].semantic \in {"categorical", "identifier"}})
<1>1. numeric \in Seq(DOMAIN cols) /\ Elements(numeric) = {a}
  <2>1. b \notin Numbers(cols)
    BY TypesDisjoint
  <2> QED
    BY <2>1, KeptOfTwo
<1>2. groups \in Seq(DOMAIN cols) /\ Elements(groups) = {b}
  <2>1. a \notin Labels(cols) /\ Elements(columns) = {b, a}
    BY TypesDisjoint
  <2> QED
    BY <2>1, KeptOfTwo
<1>3. groups # <<>> /\ groups[1] = b
  BY <1>2, OnlyElement
<1>4. categories \in Seq(DOMAIN cols)
  BY LabelledColumns
<1>5. 1 \in DOMAIN Firsts(groups \o categories, 1) /\ (groups \o categories)[1] = b
  BY <1>2, <1>3, <1>4, FirstOfConcat
<1>6. Route(words) # <<>> /\ Route(words)[1] = "group"
  BY RoutesOfPrompts
<1>7. PICK p \in PlansFor([words |-> words, names |-> columns], cols) :
        p = MakePlan("compare", <<b>>, MeasureFor(numeric, words), FALSE, MostFirst, "bar")
  BY <1>5, <1>6, PlansByRoute
<1> HIDE DEF numeric, words
<1>8. /\ p.operation = "compare" /\ p.dimensions = <<b>>
      /\ p.measures = MeasureFor(numeric, words)
  BY <1>7 DEF MakePlan
<1>9. ColumnsMeasured(p.measures) = {a}
  BY <1>1, <1>8, MeasureForColumns
<1>10. Elements(p.dimensions) = {b}
  <2>1. <<b>> \in Seq({b}) /\ Len(<<b>>) = 1 /\ <<b>>[1] = b
    OBVIOUS
  <2> QED
    BY <1>8, <2>1, OneElement
<1> QED
  BY <1>7, <1>8, <1>9, <1>10, PlannedColumnsAre DEF PlannedAs, words

LEMMA TrendPlanned ==
  ASSUME NEW cols \in Seq(ColumnProfile), NEW a \in Numbers(cols), NEW b \in Dates(cols)
  PROVE  PlannedAs({"trend", "group", "sum"}, <<a, b>>, "trend", cols)
<1> DEFINE words == {"trend", "group", "sum"}
           columns == <<a, b>>
           numeric == Keep(columns, Numbers(cols))
           candidates == columns \o Ordinals(cols)
           dates == Keep(candidates, Dates(cols))
<1>1. a \in DOMAIN cols /\ b \in DOMAIN cols /\ a \notin Dates(cols) /\ b \notin Numbers(cols)
  BY TypesDisjoint
<1>2. columns \in Seq(DOMAIN cols) /\ Elements(columns) = {a, b}
  <2>1. columns \in Seq(DOMAIN cols) /\ Len(columns) = 2 /\ columns[1] = a /\ columns[2] = b
    BY <1>1
  <2>2. DOMAIN columns = 1..2
    BY <2>1
  <2>3. \A i \in 1..2 : i = 1 \/ i = 2
    OBVIOUS
  <2>4. 1 \in 1..2 /\ 2 \in 1..2
    OBVIOUS
  <2> HIDE DEF columns
  <2> QED
    BY <2>1, <2>2, <2>3, <2>4 DEF Elements
<1>3. numeric \in Seq(DOMAIN cols) /\ Elements(numeric) = {a}
  <2> HIDE DEF columns
  <2> QED
    BY <1>1, <1>2, KeptOfTwo
<1>4. dates # <<>> /\ dates[1] = b /\ dates \in Seq(DOMAIN cols)
  <2>1. Ordinals(cols) \in Seq(DOMAIN cols)
    BY OrdinalsFacts
  <2>2. /\ candidates \in Seq(DOMAIN cols)
        /\ Len(candidates) = 2 + Len(Ordinals(cols))
        /\ \A i \in 1..(2 + Len(Ordinals(cols))) :
             candidates[i] = IF i <= 2 THEN columns[i] ELSE Ordinals(cols)[i - 2]
    <3>1. Len(columns) = 2
      OBVIOUS
    <3> HIDE DEF columns
    <3>2. /\ candidates \in Seq(DOMAIN cols)
          /\ Len(candidates) = Len(columns) + Len(Ordinals(cols))
          /\ \A i \in 1..(Len(columns) + Len(Ordinals(cols))) :
               candidates[i] = IF i <= Len(columns) THEN columns[i]
                               ELSE Ordinals(cols)[i - Len(columns)]
      BY <1>2, <2>1, ConcatProperties
    <3> HIDE DEF candidates
    <3> QED
      BY <3>1, <3>2
  <2>3. PICK n \in Nat : n = Len(Ordinals(cols))
    BY <2>1
  <2>4. 1 \in 1..(2 + n) /\ 2 \in 1..(2 + n) /\ \A j \in 1..(2 - 1) : j = 1
    BY <2>3
  <2>5. candidates[1] = a /\ candidates[2] = b /\ 2 \in 1..Len(candidates)
    <3>1. candidates[1] = columns[1] /\ candidates[2] = columns[2]
      <4> HIDE DEF columns, candidates
      <4> QED
        BY <2>2, <2>3, <2>4
    <3>2. columns[1] = a /\ columns[2] = b
      OBVIOUS
    <3>3. 2 \in 1..Len(candidates)
      BY <2>2, <2>3, <2>4
    <3> QED
      BY <3>1, <3>2, <3>3
  <2> HIDE DEF candidates, columns
  <2>6. \A j \in 1..(2 - 1) : candidates[j] \notin Dates(cols)
    BY <1>1, <2>4, <2>5
  <2>7. dates # <<>> /\ dates[1] = candidates[2]
    BY <1>1, <2>2, <2>5, <2>6, KeepFirst
  <2>8. dates \in Seq(DOMAIN cols)
    BY <2>2, KeepPicks
  <2> QED
    BY <2>5, <2>7, <2>8
<1>5. 1 \in DOMAIN Firsts(dates, 1)
  <2> HIDE DEF dates
  <2>1. Firsts(dates, 1) \in Seq(DOMAIN cols) /\ Len(Firsts(dates, 1)) = 1
    BY <1>4, FirstOne
  <2>2. DOMAIN Firsts(dates, 1) = 1..1 /\ 1 \in 1..1
    BY <2>1
  <2> QED
    BY <2>2
<1>6. Route(words) # <<>> /\ Route(words)[1] = "trend"
  BY RoutesOfPrompts
<1>7. PICK p \in PlansFor([words |-> words, names |-> columns], cols) :
        p = MakePlan("trend", <<b>>, MeasureFor(numeric, words), TRUE, <<>>, "line")
  <2> HIDE DEF columns, words
  <2> QED
    BY <1>4, <1>5, <1>6, PlansByRoute
<1> HIDE DEF numeric, words, columns
<1>8. /\ p.operation = "trend" /\ p.dimensions = <<b>>
      /\ p.measures = MeasureFor(numeric, words)
  BY <1>7 DEF MakePlan
<1>9. ColumnsMeasured(p.measures) = {a}
  BY <1>3, <1>8, MeasureForColumns
<1>10. Elements(p.dimensions) = {b}
  <2>1. <<b>> \in Seq({b}) /\ Len(<<b>>) = 1 /\ <<b>>[1] = b
    OBVIOUS
  <2> QED
    BY <1>8, <2>1, OneElement
<1>11. p.operation = "trend" /\ PlannedColumns(p) = Elements(columns)
  BY <1>2, <1>8, <1>9, <1>10, PlannedColumnsAre
<1> QED
  BY <1>7, <1>11 DEF PlannedAs, words, columns

LEMMA SeqMembers ==
  ASSUME NEW A, NEW s \in Seq(A)
  PROVE  \A i \in 1..Len(s) : s[i] \in A
OBVIOUS

LEMMA PairIs ==
  ASSUME NEW A, NEW s \in Seq(A), Len(s) = 2
  PROVE  Elements(s) = {s[1], s[2]}
<1>1. DOMAIN s = 1..2
  OBVIOUS
<1>2. \A i \in 1..2 : i = 1 \/ i = 2
  OBVIOUS
<1>3. 1 \in 1..2 /\ 2 \in 1..2
  OBVIOUS
<1> QED
  BY <1>1, <1>2, <1>3 DEF Elements

LEMMA CorrelationPlanned ==
  ASSUME NEW cols \in Seq(ColumnProfile), NEW columns \in Seq(Numbers(cols)),
         Len(columns) = 2
  PROVE  PlannedAs({"correlation"}, columns, "correlate", cols)
<1> DEFINE words == {"correlation"}
<1>1. Keep(columns, Numbers(cols)) = columns
  <2>1. \A i \in 1..Len(columns) : columns[i] \in Numbers(cols)
    BY SeqMembers
  <2> QED
    BY <2>1, KeepAll
<1>2. ~(Len(columns) < 2) /\ Len(columns) <= 2 /\ 2 \in Nat
  OBVIOUS
<1>3. Route(words) # <<>> /\ Route(words)[1] = "correlation"
  BY RoutesOfPrompts
<1>4. PICK p \in PlansFor([words |-> words, names |-> columns], cols) :
        p = MakePlan("correlate", <<>>, Measure(Firsts(columns, 2), "value"), FALSE, <<>>,
                     "table")
  BY <1>1, <1>2, <1>3, PlansByRoute
<1> HIDE DEF words
<1>5. /\ p.operation = "correlate" /\ p.dimensions = <<>>
      /\ p.measures = Measure(Firsts(columns, 2), "value")
  BY <1>4 DEF MakePlan
<1>6. columns \in Seq(DOMAIN cols)
  BY TypesDisjoint, SeqMonotonic
<1>7. /\ Firsts(columns, 2) \in Seq(DOMAIN cols)
      /\ Elements(Firsts(columns, 2)) = Elements(columns)
  BY <1>2, <1>6, FirstsFacts, FirstsAll
<1>8. "value" \in Aggregation
  BY DEF Aggregation
<1>9. ColumnsMeasured(p.measures) = Elements(columns)
  BY <1>5, <1>7, <1>8, MeasureColumns
<1> QED
  BY <1>4, <1>5, <1>9, EmptyElements, PlannedColumnsAre DEF PlannedAs, words

LEMMA DistributionPlanned ==
  ASSUME NEW cols \in Seq(ColumnProfile), NEW columns \in Seq(Labels(cols)),
         Len(columns) = 1
  PROVE  PlannedAs({"distribution"}, columns, "distribution", cols)
<1> DEFINE words == {"distribution"}
           b == columns[1]
           groups == Keep(columns, Labels(cols))
           categories == Keep(Ordinals(cols), {c \in DOMAIN cols :
                                cols[c].semantic \in {"categorical", "identifier"}})
<1>1. columns \in Seq(DOMAIN cols)
  BY TypesDisjoint, SeqMonotonic
<1>2. columns # <<>>
  <2>1. 1 <= Len(columns)
    OBVIOUS
  <2> QED
    BY <2>1, NotEmpty
<1>3. groups = columns
  <2>1. \A i \in 1..Len(columns) : columns[i] \in Labels(cols)
    BY SeqMembers
  <2> QED
    BY <2>1, KeepAll
<1>4. categories \in Seq(DOMAIN cols)
  BY LabelledColumns
<1> HIDE DEF groups, categories, b, words
<1>5. columns \o columns \in Seq(DOMAIN cols) /\ columns \o columns # <<>>
      /\ (columns \o columns)[1] = columns[1]
  <2>1. /\ columns \o columns \in Seq(DOMAIN cols)
        /\ 1 \in DOMAIN Firsts(columns \o columns, 1)
        /\ (columns \o columns)[1] = columns[1]
    BY <1>1, <1>2, FirstOfConcat
  <2>2. columns \o columns # <<>>
    <3>1. Len(columns \o columns) = Len(columns) + Len(columns)
      BY <1>1, ConcatProperties
    <3>2. 1 <= Len(columns \o columns)
      BY <3>1
    <3> QED
      BY <2>1, <3>2, NotEmpty
  <2> QED
    BY <2>1, <2>2
<1>6. /\ 1 \in DOMAIN Firsts(groups \o columns \o categories, 1)
      /\ (groups \o columns \o categories)[1] = b
  BY <1>3, <1>4, <1>5, FirstOfConcat DEF b
<1>7. Route(words) # <<>> /\ Route(words)[1] = "distribution"
  BY RoutesOfPrompts DEF words
<1>8. PICK p \in PlansFor([words |-> words, names |-> columns], cols) :
        p = MakePlan("distribution", <<b>>, <<RowCount>>, FALSE, MostFirst, "auto")
  BY <1>6, <1>7, PlansByRoute DEF groups, categories
<1>9. p.operation = "distribution" /\ p.dimensions = <<b>> /\ p.measures = <<RowCount>>
  BY <1>8 DEF MakePlan
<1>10. ColumnsMeasured(p.measures) = {}
  BY <1>9, RowCountColumns
<1>11. Elements(p.dimensions) = {b} /\ Elements(columns) = {b}
  <2>1. <<b>> \in Seq({b}) /\ Len(<<b>>) = 1 /\ <<b>>[1] = b
    OBVIOUS
  <2>2. Elements(columns) = {b}
    BY OneElement DEF b
  <2> QED
    BY <1>9, <2>1, <2>2, OneElement
<1> QED
  BY <1>8, <1>9, <1>10, <1>11, PlannedColumnsAre DEF PlannedAs, words

\* What a prompt of each kind needs of the columns it shows.
Answerable(s, cols) ==
  /\ s.columns \in Seq(DOMAIN cols)
  /\ \/ s.kind = "overview" /\ s.columns # <<>> /\ Len(s.columns) <= 8
     \/ s.kind = "row_count" /\ s.columns = <<>>
     \/ s.kind = "missing_values" /\ s.columns # <<>> /\ Len(s.columns) <= 16
     \/ /\ s.kind \in {"comparison", "drill_down", "top_values"}
        /\ \E a \in Numbers(cols), b \in Labels(cols) : Elements(s.columns) = {a, b}
     \/ /\ s.kind = "trend"
        /\ \E a \in Numbers(cols), b \in Dates(cols) : s.columns = <<a, b>>
     \/ /\ s.kind = "correlation"
        /\ s.columns \in Seq(Numbers(cols)) /\ Len(s.columns) = 2
     \/ /\ s.kind = "distribution"
        /\ s.columns \in Seq(Labels(cols)) /\ Len(s.columns) = 1

\* A prompt that shows what its kind needs is planned as what it says, over the
\* columns it shows, and its plan compiles: for a dataset of any width.
THEOREM PromptsPlannedAsShown ==
  ASSUME NEW cols \in Seq(ColumnProfile), cols # <<>>, NEW s, Answerable(s, cols)
  PROVE  AnsweredAsShown(s, cols)
<1> DEFINE columns == s.columns
           PlannedWith(words, op) ==
             /\ Prompt(s) = [words |-> words, names |-> columns]
             /\ OperationOf[s.kind] = op
             /\ PlannedAs(words, columns, op, cols)
<1>1. columns \in Seq(DOMAIN cols)
  BY DEF Answerable
<1>2. ASSUME NEW words, NEW op, PlannedWith(words, op)
      PROVE  AnsweredAsShown(s, cols)
  <2>1. PICK p \in PlansFor([words |-> words, names |-> columns], cols) :
          p.operation = op /\ PlannedColumns(p) = Elements(columns)
    BY <1>2 DEF PlannedAs
  <2>2. Compiles(p, cols)
    BY <1>1, <2>1, RulesPlanWhatExecutes
  <2> QED
    BY <1>2, <2>1, <2>2 DEF AnsweredAsShown
<1>3. CASE s.kind = "overview" /\ columns # <<>> /\ Len(columns) <= 8
  <2>1. PlannedWith({"rows"}, "lookup")
    BY <1>1, <1>3, RowsPlanned DEF Prompt, PromptKeywords, OperationOf
  <2> QED
    BY <1>2, <2>1
<1>4. CASE s.kind = "row_count" /\ columns = <<>>
  <2>1. PlannedWith({"count"}, "aggregate")
    BY <1>4, CountPlanned DEF Prompt, PromptKeywords, OperationOf
  <2> QED
    BY <1>2, <2>1
<1>5. CASE s.kind = "missing_values" /\ columns # <<>> /\ Len(columns) <= 16
  <2>1. PlannedWith({"count", "missing"}, "quality")
    BY <1>1, <1>5, MissingPlanned DEF Prompt, PromptKeywords, OperationOf
  <2> QED
    BY <1>2, <2>1
<1>6. CASE /\ s.kind \in {"comparison", "drill_down", "top_values"}
           /\ \E a \in Numbers(cols), b \in Labels(cols) : Elements(columns) = {a, b}
  <2>1. PlannedAs({"group", "sum"}, columns, "compare", cols)
    BY <1>1, <1>6, GroupPlanned
  <2>2. PromptKeywords[s.kind] = {"group", "sum"} /\ OperationOf[s.kind] = "compare"
    <3>1. CASE s.kind = "comparison"
      BY <3>1 DEF PromptKeywords, OperationOf
    <3>2. CASE s.kind = "drill_down"
      BY <3>2 DEF PromptKeywords, OperationOf
    <3>3. CASE s.kind = "top_values"
      BY <3>3 DEF PromptKeywords, OperationOf
    <3> QED
      BY <1>6, <3>1, <3>2, <3>3
  <2>3. PlannedWith({"group", "sum"}, "compare")
    BY <2>1, <2>2 DEF Prompt
  <2> QED
    BY <1>2, <2>3
<1>7. CASE /\ s.kind = "trend"
           /\ \E a \in Numbers(cols), b \in Dates(cols) : columns = <<a, b>>
  <2>1. PlannedAs({"trend", "group", "sum"}, columns, "trend", cols)
    BY <1>7, TrendPlanned
  <2>2. PlannedWith({"trend", "group", "sum"}, "trend")
    BY <1>7, <2>1 DEF Prompt, PromptKeywords, OperationOf
  <2> QED
    BY <1>2, <2>2
<1>8. CASE s.kind = "correlation" /\ columns \in Seq(Numbers(cols)) /\ Len(columns) = 2
  <2>1. PlannedAs({"correlation"}, columns, "correlate", cols)
    BY <1>8, CorrelationPlanned
  <2>2. PlannedWith({"correlation"}, "correlate")
    BY <1>8, <2>1 DEF Prompt, PromptKeywords, OperationOf
  <2> QED
    BY <1>2, <2>2
<1>9. CASE s.kind = "distribution" /\ columns \in Seq(Labels(cols)) /\ Len(columns) = 1
  <2>1. PlannedAs({"distribution"}, columns, "distribution", cols)
    BY <1>9, DistributionPlanned
  <2>2. PlannedWith({"distribution"}, "distribution")
    BY <1>9, <2>1 DEF Prompt, PromptKeywords, OperationOf
  <2> QED
    BY <1>2, <2>2
<1> QED
  BY <1>3, <1>4, <1>5, <1>6, <1>7, <1>8, <1>9 DEF Answerable

\* The profiler's words for a column agree with its type.
LEMMA SemanticsFollowTypes ==
  ASSUME NEW c \in ColumnProfile
  PROVE  /\ c.semantic = "date" => IsDate(c)
         /\ c.semantic = "categorical" => ~IsNumeric(c) /\ ~IsDate(c)
<1>1. PICK t \in NumericType \cup DateType \cup {"boolean", "text"}, named \in BOOLEAN,
           few \in BOOLEAN, v \in BOOLEAN, g \in BOOLEAN :
        c = [type |-> t, semantic |-> SemanticType(named, t, few), varied |-> v, gaps |-> g]
  BY DEF ColumnProfile
<1>2. c.type = t /\ c.semantic = SemanticType(named, t, few)
  BY <1>1
<1>3. /\ SemanticType(named, t, few) = "date" => t \in DateType
      /\ SemanticType(named, t, few) = "categorical" =>
           t \notin NumericType /\ t \notin DateType
  BY DEF SemanticType
<1> QED
  BY <1>2, <1>3 DEF IsNumeric, IsDate

LEMMA DataTypes ==
  ASSUME NEW cols, NEW c \in DOMAIN cols
  PROVE  /\ DataType(cols[c]) = "number" => c \in Numbers(cols)
         /\ DataType(cols[c]) = "category" => c \in Labels(cols)
BY DEF DataType, Numbers, Dates, Labels

\* The columns prompts are suggested for have the types those prompts need.
LEMMA SuggestedColumns ==
  ASSUME NEW cols \in Seq(ColumnProfile)
  PROVE  /\ NumericColumns(cols) \in Seq(Numbers(cols))
         /\ DateColumns(cols) \in Seq(Dates(cols))
         /\ CategoricalColumns(cols) \in Seq(Labels(cols))
<1>1. Ordinals(cols) \in Seq(DOMAIN cols)
  BY OrdinalsFacts
<1>2. \A c \in DOMAIN cols : cols[c] \in ColumnProfile
  OBVIOUS
<1>3. ASSUME NEW S, NEW T, DOMAIN cols \cap S \subseteq T
      PROVE  Keep(Ordinals(cols), S) \in Seq(T)
  <2>1. Keep(Ordinals(cols), S) \in Seq(DOMAIN cols \cap S)
    BY <1>1, KeepElements
  <2> QED
    BY <1>3, <2>1, SeqMonotonic
<1>4. NumericColumns(cols) \in Seq(Numbers(cols))
  <2>1. {c \in Numbers(cols) : cols[c].semantic = "numeric"} \subseteq Numbers(cols)
    OBVIOUS
  <2> QED
    BY <1>3, <2>1 DEF NumericColumns
<1>5. DateColumns(cols) \in Seq(Dates(cols))
  <2>1. Dates(cols) \cup {c \in DOMAIN cols : cols[c].semantic = "date"} \subseteq Dates(cols)
    BY <1>2, SemanticsFollowTypes DEF Dates
  <2> QED
    BY <1>3, <2>1 DEF DateColumns
<1>6. CategoricalColumns(cols) \in Seq(Labels(cols))
  <2>1. {c \in DOMAIN cols : cols[c].semantic = "categorical" /\ cols[c].varied}
          \subseteq Labels(cols)
    BY <1>2, SemanticsFollowTypes DEF Labels, Numbers, Dates
  <2> QED
    BY <1>3, <2>1 DEF CategoricalColumns
<1> QED
  BY <1>4, <1>5, <1>6

LEMMA FirstsEmpty ==
  ASSUME NEW A, NEW s \in Seq(A), Firsts(s, 1) # <<>>
  PROVE  s # <<>>
<1>1. SUFFICES ASSUME s = <<>> PROVE Firsts(s, 1) = <<>>
  OBVIOUS
<1>2. 1 \in Nat /\ Len(s) = 0
  BY <1>1, EmptyElements
<1>3. /\ Firsts(s, 1) \in Seq(A)
      /\ Len(Firsts(s, 1)) = IF Len(s) < 1 THEN Len(s) ELSE 1
  BY <1>2, FirstsFacts, ZenonT(60)
<1>4. Len(Firsts(s, 1)) = 0
  BY <1>2, <1>3
<1> QED
  BY <1>3, <1>4, EmptySeq

LEMMA FirstsPair ==
  ASSUME NEW S, NEW T, NEW s \in Seq(S), NEW t \in Seq(T), s # <<>>, t # <<>>
  PROVE  \E x \in S, y \in T : Firsts(s, 1) \o Firsts(t, 1) = <<x, y>>
<1>1. /\ Firsts(s, 1) \in Seq(S) /\ Len(Firsts(s, 1)) = 1 /\ s[1] \in S
      /\ Firsts(s, 1)[1] = s[1]
      /\ Firsts(t, 1) \in Seq(T) /\ Len(Firsts(t, 1)) = 1 /\ t[1] \in T
      /\ Firsts(t, 1)[1] = t[1]
  BY FirstOne
<1>2. PICK x \in S, y \in T : x = s[1] /\ y = t[1]
  BY <1>1
<1> DEFINE A == S \cup T
<1> HIDE DEF A
<1>3. PICK f \in Seq(A), g \in Seq(A) : /\ f = Firsts(s, 1) /\ Len(f) = 1 /\ f[1] = x
                                        /\ g = Firsts(t, 1) /\ Len(g) = 1 /\ g[1] = y
  <2>1. S \subseteq A /\ T \subseteq A
    BY DEF A
  <2>2. Firsts(s, 1) \in Seq(A) /\ Firsts(t, 1) \in Seq(A)
    BY <1>1, <2>1, SeqMonotonic
  <2> QED
    BY <1>1, <1>2, <2>2
<1>4. f \o g = <<x, y>>
  <2>1. /\ f \o g \in Seq(A) /\ Len(f \o g) = Len(f) + Len(g)
        /\ \A i \in 1..(Len(f) + Len(g)) :
             (f \o g)[i] = IF i <= Len(f) THEN f[i] ELSE g[i - Len(f)]
    BY ConcatProperties
  <2>2. /\ Len(f \o g) = 2
        /\ \A i \in 1..2 : (f \o g)[i] = IF i <= 1 THEN f[i] ELSE g[i - 1]
    BY <1>3, <2>1
  <2>3. 1 \in 1..2 /\ 2 \in 1..2 /\ 1 <= 1 /\ ~(2 <= 1) /\ 2 - 1 = 1
    OBVIOUS
  <2>4. (f \o g)[1] = x /\ (f \o g)[2] = y
    BY <1>3, <2>2, <2>3
  <2>5. PICK h \in Seq(A) : h = f \o g /\ Len(h) = 2 /\ h[1] = x /\ h[2] = y
    BY <2>1, <2>2, <2>4
  <2>6. h = <<x, y>>
    <3>1. <<x, y>> \in Seq(A) /\ Len(<<x, y>>) = 2 /\ <<x, y>>[1] = x /\ <<x, y>>[2] = y
      BY DEF A
    <3>2. \A i \in 1..2 : i = 1 \/ i = 2
      OBVIOUS
    <3>3. PICK k \in Seq(A) : k = <<x, y>> /\ Len(k) = 2 /\ k[1] = x /\ k[2] = y
      BY <3>1
    <3>4. \A i \in 1..Len(h) : h[i] = k[i]
      BY <2>5, <3>2, <3>3
    <3>5. h = k
      BY <2>5, <3>3, <3>4, SeqEqual
    <3> QED
      BY <3>3, <3>5
  <2> QED
    BY <2>5, <2>6
<1> QED
  BY <1>3, <1>4

\* Two columns of which the prompt shows each.
LEMMA ShowsPair ==
  ASSUME NEW cols \in Seq(ColumnProfile), NEW x \in DOMAIN cols, NEW y \in DOMAIN cols
  PROVE  /\ <<x, y>> \in Seq(DOMAIN cols) /\ Len(<<x, y>>) = 2
         /\ Elements(<<x, y>>) = {x, y}
<1>1. <<x, y>> \in Seq(DOMAIN cols) /\ Len(<<x, y>>) = 2 /\ <<x, y>>[1] = x /\ <<x, y>>[2] = y
  OBVIOUS
<1> QED
  BY <1>1, PairIs

LEMMA GroupAnswerable ==
  ASSUME NEW cols, NEW s, s.kind \in {"comparison", "drill_down", "top_values"},
         s.columns \in Seq(DOMAIN cols), NEW x \in Numbers(cols), NEW y \in Labels(cols),
         Elements(s.columns) = {x, y}
  PROVE  Answerable(s, cols)
BY DEF Answerable

LEMMA TrendAnswerable ==
  ASSUME NEW cols, NEW s, s.kind = "trend", s.columns \in Seq(DOMAIN cols),
         NEW x \in Numbers(cols), NEW y \in Dates(cols), s.columns = <<x, y>>
  PROVE  Answerable(s, cols)
<1>1. \E a \in Numbers(cols), b \in Dates(cols) : s.columns = <<a, b>>
  OBVIOUS
<1> QED
  BY <1>1 DEF Answerable

LEMMA InitialAnswerable ==
  ASSUME NEW cols \in Seq(ColumnProfile), cols # <<>>
  PROVE  \A s \in Elements(InitialSuggestions(cols)) : Answerable(s, cols)
<1> DEFINE Drafts == {s \in [kind : DOMAIN PromptKeywords, columns : Seq(DOMAIN cols)] :
                        Answerable(s, cols)}
           numeric == NumericColumns(cols)
           dates == DateColumns(cols)
           categories == CategoricalColumns(cols)
           ordinals == Ordinals(cols)
           missing == Keep(ordinals, {c \in DOMAIN cols : cols[c].gaps})
           When(condition, kind, columns) ==
             IF condition THEN <<Suggestion(kind, columns)>> ELSE <<>>
           first == <<Suggestion("overview", Firsts(ordinals, 4)),
                      Suggestion("row_count", <<>>),
                      Suggestion("missing_values",
                                 Firsts(IF missing # <<>> THEN missing ELSE ordinals, 4))>>
           comparison == When(numeric # <<>> /\ categories # <<>>, "comparison",
                              Firsts(numeric, 1) \o Firsts(categories, 1))
           trend == When(numeric # <<>> /\ dates # <<>>, "trend",
                         Firsts(numeric, 1) \o Firsts(dates, 1))
           correlation == When(Len(numeric) >= 2, "correlation", Firsts(numeric, 2))
           distribution == When(categories # <<>>, "distribution", Firsts(categories, 1))
<1>1. InitialSuggestions(cols) =
        Firsts(first \o comparison \o trend \o correlation \o distribution, 6)
  BY DEF InitialSuggestions
<1>2. /\ numeric \in Seq(Numbers(cols)) /\ dates \in Seq(Dates(cols))
      /\ categories \in Seq(Labels(cols))
  BY SuggestedColumns
<1>3. /\ numeric \in Seq(DOMAIN cols) /\ dates \in Seq(DOMAIN cols)
      /\ categories \in Seq(DOMAIN cols)
  BY <1>2, TypesDisjoint, SeqMonotonic
<1>4. ordinals \in Seq(DOMAIN cols) /\ ordinals # <<>> /\ missing \in Seq(DOMAIN cols)
  <2>1. ordinals \in Seq(DOMAIN cols) /\ Len(ordinals) = Len(cols)
    BY OrdinalsFacts
  <2>2. ordinals # <<>>
    <3>1. 1 <= Len(cols)
      BY NotEmptyLength
    <3> QED
      BY <2>1, <3>1, NotEmpty
  <2> HIDE DEF ordinals
  <2>3. missing \in Seq(DOMAIN cols)
    BY <2>1, KeepPicks
  <2> QED
    BY <2>1, <2>2, <2>3
<1> HIDE DEF numeric, dates, categories, ordinals, missing
<1>5. ASSUME NEW kind \in DOMAIN PromptKeywords, NEW columns \in Seq(DOMAIN cols),
             Answerable(Suggestion(kind, columns), cols)
      PROVE  Suggestion(kind, columns) \in Drafts
  BY <1>5 DEF Suggestion
<1>6. \A kind, columns : /\ Suggestion(kind, columns).kind = kind
                         /\ Suggestion(kind, columns).columns = columns
  BY DEF Suggestion
<1>7. {"overview", "row_count", "missing_values", "comparison", "trend", "correlation",
       "distribution"} \subseteq DOMAIN PromptKeywords
  BY DEF PromptKeywords
<1> HIDE DEF Drafts
<1>8. first \in Seq(Drafts)
  <2> DEFINE some == IF missing # <<>> THEN missing ELSE ordinals
  <2>1. some \in Seq(DOMAIN cols) /\ some # <<>>
    BY <1>4
  <2> HIDE DEF some
  <2>2. 4 \in Nat \ {0} /\ (\A n \in Nat : n <= 4 => n <= 8 /\ n <= 16)
    OBVIOUS
  <2>3. ASSUME NEW columns \in Seq(DOMAIN cols), columns # <<>>
        PROVE  /\ Firsts(columns, 4) \in Seq(DOMAIN cols) /\ Firsts(columns, 4) # <<>>
               /\ Len(Firsts(columns, 4)) <= 8 /\ Len(Firsts(columns, 4)) <= 16
    <3>1. /\ Firsts(columns, 4) \in Seq(DOMAIN cols)
          /\ 1 <= Len(Firsts(columns, 4)) /\ Len(Firsts(columns, 4)) <= 4
      BY <2>2, <2>3, FirstSome
    <3>2. Firsts(columns, 4) # <<>> /\ Len(Firsts(columns, 4)) \in Nat
      BY <3>1, NotEmpty
    <3> QED
      BY <2>2, <3>1, <3>2
  <2>4. Suggestion("overview", Firsts(ordinals, 4)) \in Drafts
    <3>1. Answerable(Suggestion("overview", Firsts(ordinals, 4)), cols)
      BY <1>4, <1>6, <2>3 DEF Answerable
    <3> QED
      BY <1>4, <1>5, <1>7, <2>3, <3>1
  <2>5. Suggestion("row_count", <<>>) \in Drafts
    <3>1. <<>> \in Seq(DOMAIN cols)
      OBVIOUS
    <3>2. Answerable(Suggestion("row_count", <<>>), cols)
      BY <1>6, <3>1 DEF Answerable
    <3> QED
      BY <1>5, <1>7, <3>1, <3>2
  <2>6. Suggestion("missing_values", Firsts(some, 4)) \in Drafts
    <3>1. Answerable(Suggestion("missing_values", Firsts(some, 4)), cols)
      BY <1>6, <2>1, <2>3 DEF Answerable
    <3> QED
      BY <1>5, <1>7, <2>1, <2>3, <3>1
  <2> QED
    BY <2>4, <2>5, <2>6 DEF some
<1>9. comparison \in Seq(Drafts)
  <2>1. CASE numeric # <<>> /\ categories # <<>>
    <3>1. PICK x \in Numbers(cols), y \in Labels(cols) :
            Firsts(numeric, 1) \o Firsts(categories, 1) = <<x, y>>
      BY <1>2, <2>1, FirstsPair
    <3>2. PICK columns \in Seq(DOMAIN cols) :
            /\ columns = Firsts(numeric, 1) \o Firsts(categories, 1)
            /\ columns = <<x, y>> /\ Elements(columns) = {x, y}
      BY <3>1, TypesDisjoint, ShowsPair
    <3>3. Answerable(Suggestion("comparison", columns), cols)
      <4>1. PICK d : d = Suggestion("comparison", columns)
        OBVIOUS
      <4>2. d.kind \in {"comparison", "drill_down", "top_values"} /\ d.columns = columns
        BY <1>6, <4>1
      <4>3. d.columns \in Seq(DOMAIN cols) /\ Elements(d.columns) = {x, y}
        BY <3>2, <4>2
      <4>4. Answerable(d, cols)
        BY <4>2, <4>3, GroupAnswerable
      <4> QED
        BY <4>1, <4>4
    <3>4. Suggestion("comparison", columns) \in Drafts
      BY <1>5, <1>7, <3>3
    <3>5. comparison = <<Suggestion("comparison", columns)>>
      BY <2>1, <3>2
    <3> QED
      BY <3>4, <3>5
  <2>2. CASE ~(numeric # <<>> /\ categories # <<>>)
    BY <2>2
  <2> QED
    BY <2>1, <2>2
<1>10. trend \in Seq(Drafts)
  <2>1. CASE numeric # <<>> /\ dates # <<>>
    <3>1. PICK x \in Numbers(cols), y \in Dates(cols) :
            Firsts(numeric, 1) \o Firsts(dates, 1) = <<x, y>>
      BY <1>2, <2>1, FirstsPair
    <3>2. PICK columns \in Seq(DOMAIN cols) :
            /\ columns = Firsts(numeric, 1) \o Firsts(dates, 1)
            /\ columns = <<x, y>> /\ Elements(columns) = {x, y}
      BY <3>1, TypesDisjoint, ShowsPair
    <3>3. Answerable(Suggestion("trend", columns), cols)
      BY <1>6, <3>2, TrendAnswerable
    <3>4. Suggestion("trend", columns) \in Drafts
      BY <1>5, <1>7, <3>3
    <3>5. trend = <<Suggestion("trend", columns)>>
      BY <2>1, <3>2
    <3> QED
      BY <3>4, <3>5
  <2>2. CASE ~(numeric # <<>> /\ dates # <<>>)
    BY <2>2
  <2> QED
    BY <2>1, <2>2
<1>11. correlation \in Seq(Drafts)
  <2>1. CASE Len(numeric) >= 2
    <3>1. 2 <= Len(numeric)
      BY <1>2, <2>1
    <3>2. /\ Firsts(numeric, 2) \in Seq(Numbers(cols))
          /\ Firsts(numeric, 2) \in Seq(DOMAIN cols)
          /\ Len(Firsts(numeric, 2)) = 2
      BY <1>2, <1>3, <3>1, FirstTwo
    <3>3. Answerable(Suggestion("correlation", Firsts(numeric, 2)), cols)
      BY <1>6, <3>2 DEF Answerable
    <3>4. Suggestion("correlation", Firsts(numeric, 2)) \in Drafts
      BY <1>5, <1>7, <3>2, <3>3
    <3> QED
      BY <2>1, <3>4
  <2>2. CASE ~(Len(numeric) >= 2)
    BY <2>2
  <2> QED
    BY <2>1, <2>2
<1>12. distribution \in Seq(Drafts)
  <2>1. CASE categories # <<>>
    <3>1. /\ Firsts(categories, 1) \in Seq(Labels(cols))
          /\ Firsts(categories, 1) \in Seq(DOMAIN cols) /\ Len(Firsts(categories, 1)) = 1
      BY <1>2, <1>3, <2>1, FirstOne
    <3>2. Answerable(Suggestion("distribution", Firsts(categories, 1)), cols)
      BY <1>6, <3>1 DEF Answerable
    <3>3. Suggestion("distribution", Firsts(categories, 1)) \in Drafts
      BY <1>5, <1>7, <3>1, <3>2
    <3> QED
      BY <2>1, <3>3
  <2>2. CASE categories = <<>>
    BY <2>2
  <2> QED
    BY <2>1, <2>2
<1> HIDE DEF first, comparison, trend, correlation, distribution
<1>13. first \o comparison \o trend \o correlation \o distribution \in Seq(Drafts)
  <2>1. first \o comparison \in Seq(Drafts)
    BY <1>8, <1>9, ConcatProperties
  <2>2. first \o comparison \o trend \in Seq(Drafts)
    BY <1>10, <2>1, ConcatProperties
  <2>3. first \o comparison \o trend \o correlation \in Seq(Drafts)
    BY <1>11, <2>2, ConcatProperties
  <2> QED
    BY <1>12, <2>3, ConcatProperties
<1>14. InitialSuggestions(cols) \in Seq(Drafts)
  <2>1. 6 \in Nat
    OBVIOUS
  <2> QED
    BY <1>1, <1>13, <2>1, FirstsFacts
<1>15. \A s \in Elements(InitialSuggestions(cols)) : s \in Drafts
  BY <1>14, SeqMembers DEF Elements
<1> QED
  BY <1>15 DEF Drafts

\* The rules take their dimensions and their measures from the dataset.
LEMMA RulesOverColumns ==
  ASSUME NEW cols \in Seq(ColumnProfile), cols # <<>>, NEW words,
         NEW names \in Seq(DOMAIN cols),
         NEW p \in PlansFor([words |-> words, names |-> names], cols)
  PROVE  p.dimensions \in Seq(DOMAIN cols) /\ p.measures \in Seq(Measured(cols))
<1> DEFINE Typed == p.dimensions \in Seq(DOMAIN cols) /\ p.measures \in Seq(Measured(cols))
<1>1. PICK numeric \in Seq(Numbers(cols)) :
        \E selected \in Seq(DOMAIN cols) \ {<<>>} :
          RuleMade(p, numeric, selected, words, cols)
  BY RulesMake
<1>2. PICK selected \in Seq(DOMAIN cols) : RuleMade(p, numeric, selected, words, cols)
  BY <1>1
<1>3. <<>> \in Seq(DOMAIN cols) /\ <<>> \in Seq(Measured(cols))
      /\ \A d \in DOMAIN cols : <<d>> \in Seq(DOMAIN cols)
  OBVIOUS
<1>4. /\ MeasureFor(numeric, words) \in Seq(Measured(cols))
      /\ <<RowCount>> \in Seq(Measured(cols))
  BY MeasureForGood, RowCountGood DEF GoodMeasures
<1>5. ASSUME NEW ms \in Totals(numeric, words),
             p = MakePlan("aggregate", <<>>, ms, FALSE, <<>>, "table")
      PROVE  Typed
  <2>1. p.dimensions = <<>> /\ p.measures = ms
    BY <1>5 DEF MakePlan
  <2>2. ms \in Seq(Measured(cols))
    BY TotalsGood DEF GoodMeasures
  <2> QED
    BY <1>3, <2>1, <2>2
<1>6. ASSUME p = MakePlan("correlate", <<>>, Measure(Firsts(numeric, 2), "value"), FALSE,
                          <<>>, "table")
      PROVE  Typed
  <2>1. p.dimensions = <<>> /\ p.measures = Measure(Firsts(numeric, 2), "value")
    BY <1>6 DEF MakePlan
  <2>2. numeric \in Seq(DOMAIN cols)
    BY TypesDisjoint, SeqMonotonic
  <2>3. 2 \in Nat /\ "value" \in Aggregation
    BY DEF Aggregation
  <2>4. Firsts(numeric, 2) \in Seq(DOMAIN cols)
    BY <2>2, <2>3, FirstsFacts
  <2>5. Measure(Firsts(numeric, 2), "value") \in Seq(Measured(cols))
    BY <2>3, <2>4, MeasureFacts
  <2> QED
    BY <1>3, <2>1, <2>5
<1>7. ASSUME p = MakePlan("quality", <<>>, Measure(Firsts(selected, 16), "null_count"),
                          FALSE, <<>>, "table")
      PROVE  Typed
  <2>1. p.dimensions = <<>> /\ p.measures = Measure(Firsts(selected, 16), "null_count")
    BY <1>7 DEF MakePlan
  <2>2. 16 \in Nat /\ "null_count" \in Aggregation
    BY DEF Aggregation
  <2>3. Firsts(selected, 16) \in Seq(DOMAIN cols)
    BY <2>2, FirstsFacts
  <2>4. Measure(Firsts(selected, 16), "null_count") \in Seq(Measured(cols))
    BY <2>2, <2>3, MeasureFacts
  <2> QED
    BY <1>3, <2>1, <2>4
<1>8. ASSUME NEW d \in Dates(cols),
             p = MakePlan("trend", <<d>>, MeasureFor(numeric, words), TRUE, <<>>, "line")
      PROVE  Typed
  <2>1. p.dimensions = <<d>> /\ p.measures = MeasureFor(numeric, words)
    BY <1>8 DEF MakePlan
  <2>2. d \in DOMAIN cols
    BY TypesDisjoint
  <2> QED
    BY <1>3, <1>4, <2>1, <2>2
<1>9. ASSUME NEW d \in DOMAIN cols,
             p = MakePlan("distribution", <<d>>, <<RowCount>>, FALSE, MostFirst, "auto")
      PROVE  Typed
  <2>1. p.dimensions = <<d>> /\ p.measures = <<RowCount>>
    BY <1>9 DEF MakePlan
  <2> QED
    BY <1>3, <1>4, <2>1
<1>10. ASSUME NEW d \in DOMAIN cols,
              p = MakePlan("compare", <<d>>, MeasureFor(numeric, words), FALSE, MostFirst,
                           "bar")
       PROVE  Typed
  <2>1. p.dimensions = <<d>> /\ p.measures = MeasureFor(numeric, words)
    BY <1>10 DEF MakePlan
  <2> QED
    BY <1>3, <1>4, <2>1
<1>11. ASSUME p = MakePlan("lookup", Firsts(selected, 8), <<>>, FALSE, <<>>, "table")
       PROVE  Typed
  <2>1. p.dimensions = Firsts(selected, 8) /\ p.measures = <<>>
    BY <1>11 DEF MakePlan
  <2>2. 8 \in Nat
    OBVIOUS
  <2>3. Firsts(selected, 8) \in Seq(DOMAIN cols)
    BY <2>2, FirstsFacts
  <2> QED
    BY <1>3, <2>1, <2>3
<1> QED
  BY <1>2, <1>5, <1>6, <1>7, <1>8, <1>9, <1>10, <1>11 DEF RuleMade

\* Without its repetitions a list of columns is a list of columns.
LEMMA DistinctColumns ==
  ASSUME NEW A, NEW s \in Seq(A)
  PROVE  Distinct(s) \in Seq(A)
<1> DEFINE firsts == Keep(Ordinals(s), {i \in DOMAIN s : \A j \in 1..(i - 1) : s[j] # s[i]})
<1>1. Ordinals(s) \in Seq(DOMAIN s)
  BY OrdinalsFacts
<1>2. firsts \in Seq(DOMAIN s)
  BY <1>1, KeepPicks
<1>3. Distinct(s) = [i \in DOMAIN firsts |-> s[firsts[i]]]
  BY DEF Distinct
<1> HIDE DEF firsts
<1>4. DOMAIN firsts = 1..Len(firsts) /\ Len(firsts) \in Nat
  BY <1>2
<1>5. \A i \in 1..Len(firsts) : s[firsts[i]] \in A
  <2>1. \A i \in 1..Len(firsts) : firsts[i] \in DOMAIN s
    BY <1>2, SeqMembers
  <2>2. DOMAIN s = 1..Len(s)
    OBVIOUS
  <2> QED
    BY <2>1, <2>2, SeqMembers
<1>6. Distinct(s) \in [1..Len(firsts) -> A]
  BY <1>3, <1>4, <1>5
<1> QED
  BY <1>4, <1>6, FunctionIsSeq

\* A draft of this kind that shows a column of S and then one of T.
PairDraft(f, kind, S, T, cols) ==
  \E x \in S, y \in T :
    /\ f.kind = kind /\ f.columns \in Seq(DOMAIN cols)
    /\ f.columns = <<x, y>> /\ Elements(f.columns) = {x, y}
    /\ f.columns[1] = x /\ f.columns[2] = y

LEMMA PairsDrafted ==
  ASSUME NEW cols \in Seq(ColumnProfile), NEW S \in SUBSET DOMAIN cols,
         NEW T \in SUBSET DOMAIN cols, NEW s \in Seq(S), NEW t \in Seq(T),
         Firsts(s, 1) # <<>>, Firsts(t, 1) # <<>>, NEW kind
  PROVE  PairDraft(Suggestion(kind, Firsts(s, 1) \o Firsts(t, 1)), kind, S, T, cols)
<1>1. s # <<>> /\ t # <<>>
  BY FirstsEmpty
<1>2. PICK x \in S, y \in T : Firsts(s, 1) \o Firsts(t, 1) = <<x, y>>
  <2>1. s \in Seq(S) /\ t \in Seq(T) /\ s # <<>> /\ t # <<>>
    BY <1>1
  <2> QED
    BY ONLY <2>1, FirstsPair, SMTT(40)
<1>3. x \in DOMAIN cols /\ y \in DOMAIN cols
  OBVIOUS
<1>4. /\ <<x, y>> \in Seq(DOMAIN cols) /\ Elements(<<x, y>>) = {x, y}
      /\ <<x, y>>[1] = x /\ <<x, y>>[2] = y
  BY <1>3, ShowsPair
<1>5. PICK columns : columns = Firsts(s, 1) \o Firsts(t, 1) /\ columns = <<x, y>>
  BY <1>2
<1>6. PICK f : f = Suggestion(kind, columns)
  OBVIOUS
<1>7. f.kind = kind /\ f.columns = columns
  BY <1>6 DEF Suggestion
<1>8. PairDraft(f, kind, S, T, cols)
  BY <1>4, <1>5, <1>7 DEF PairDraft
<1> QED
  BY <1>5, <1>6, <1>8

LEMMA DrillAnswerable ==
  ASSUME NEW cols, NEW f, OfItsTypes(f, cols),
         PairDraft(f, "drill_down", DOMAIN cols, Labels(cols), cols)
  PROVE  Answerable(f, cols)
<1>1. PICK x \in DOMAIN cols, y \in Labels(cols) :
        /\ f.kind = "drill_down" /\ f.columns \in Seq(DOMAIN cols)
        /\ Elements(f.columns) = {x, y} /\ f.columns[1] = x
  BY DEF PairDraft
<1>2. DataType(cols[x]) = "number"
  BY <1>1 DEF OfItsTypes
<1>3. x \in Numbers(cols) /\ f.kind \in {"comparison", "drill_down", "top_values"}
  BY <1>1, <1>2, DataTypes
<1> QED
  BY <1>1, <1>3, GroupAnswerable

LEMMA TopAnswerable ==
  ASSUME NEW cols, NEW f, OfItsTypes(f, cols),
         PairDraft(f, "top_values", DOMAIN cols, DOMAIN cols, cols)
  PROVE  Answerable(f, cols)
<1>1. PICK x \in DOMAIN cols, y \in DOMAIN cols :
        /\ f.kind = "top_values" /\ f.columns \in Seq(DOMAIN cols)
        /\ Elements(f.columns) = {x, y} /\ f.columns[1] = x /\ f.columns[2] = y
  BY DEF PairDraft
<1>2. DataType(cols[x]) = "category" /\ DataType(cols[y]) = "number"
  BY <1>1 DEF OfItsTypes
<1>3. x \in Labels(cols) /\ y \in Numbers(cols)
  BY <1>2, DataTypes
<1>4. f.kind \in {"comparison", "drill_down", "top_values"} /\ Elements(f.columns) = {y, x}
  BY <1>1
<1> QED
  BY <1>1, <1>3, <1>4, GroupAnswerable

LEMMA LaterTrendAnswerable ==
  ASSUME NEW cols, NEW f, OfItsTypes(f, cols),
         PairDraft(f, "trend", DOMAIN cols, Dates(cols), cols)
  PROVE  Answerable(f, cols)
<1>1. PICK x \in DOMAIN cols, y \in Dates(cols) :
        /\ f.kind = "trend" /\ f.columns \in Seq(DOMAIN cols)
        /\ f.columns = <<x, y>> /\ f.columns[1] = x
  BY DEF PairDraft
<1>2. DataType(cols[x]) = "number"
  BY <1>1 DEF OfItsTypes
<1>3. x \in Numbers(cols)
  BY <1>2, DataTypes
<1> QED
  BY <1>1, <1>3, TrendAnswerable

LEMMA LaterCorrelationAnswerable ==
  ASSUME NEW cols, NEW f, OfItsTypes(f, cols),
         PairDraft(f, "correlation", DOMAIN cols, Numbers(cols), cols)
  PROVE  Answerable(f, cols)
<1>1. PICK x \in DOMAIN cols, y \in Numbers(cols) :
        /\ f.kind = "correlation" /\ f.columns \in Seq(DOMAIN cols)
        /\ f.columns = <<x, y>> /\ f.columns[1] = x
  BY DEF PairDraft
<1>2. DataType(cols[x]) = "number"
  BY <1>1 DEF OfItsTypes
<1>3. x \in Numbers(cols)
  BY <1>2, DataTypes
<1>4. <<x, y>> \in Seq(Numbers(cols)) /\ Len(<<x, y>>) = 2
  BY <1>3
<1>5. f.columns \in Seq(Numbers(cols)) /\ Len(f.columns) = 2
  BY <1>1, <1>4
<1> QED
  BY <1>1, <1>5 DEF Answerable

\* Drafts that are answerable if they ask a column for what its type allows.
FollowUpDraft(cols) ==
  {f \in [kind : DOMAIN PromptKeywords, columns : Seq(DOMAIN cols)] :
     OfItsTypes(f, cols) => Answerable(f, cols)}

LEMMA DraftOfPair ==
  ASSUME NEW cols \in Seq(ColumnProfile), NEW S \in SUBSET DOMAIN cols,
         NEW T \in SUBSET DOMAIN cols, NEW s \in Seq(S), NEW t \in Seq(T),
         NEW kind \in DOMAIN PromptKeywords,
         \A f : PairDraft(f, kind, S, T, cols) /\ OfItsTypes(f, cols) => Answerable(f, cols)
  PROVE  (IF Firsts(s, 1) # <<>> /\ Firsts(t, 1) # <<>>
          THEN <<Suggestion(kind, Firsts(s, 1) \o Firsts(t, 1))>> ELSE <<>>)
           \in Seq(FollowUpDraft(cols))
<1>1. CASE Firsts(s, 1) # <<>> /\ Firsts(t, 1) # <<>>
  <2>1. PICK f : f = Suggestion(kind, Firsts(s, 1) \o Firsts(t, 1))
    OBVIOUS
  <2>2. PairDraft(f, kind, S, T, cols)
    BY <1>1, <2>1, PairsDrafted
  <2>3. f.kind = kind /\ f.columns \in Seq(DOMAIN cols)
    BY <2>2 DEF PairDraft
  <2>4. f \in [kind : DOMAIN PromptKeywords, columns : Seq(DOMAIN cols)]
    BY <2>1, <2>3 DEF Suggestion
  <2>5. f \in FollowUpDraft(cols)
    BY <2>2, <2>4 DEF FollowUpDraft
  <2>6. <<f>> \in Seq(FollowUpDraft(cols))
    BY <2>5
  <2> QED
    BY <1>1, <2>1, <2>6
<1>2. CASE ~(Firsts(s, 1) # <<>> /\ Firsts(t, 1) # <<>>)
  BY <1>2
<1> QED
  BY <1>1, <1>2

LEMMA DraftOfMissing ==
  ASSUME NEW cols \in Seq(ColumnProfile), NEW columns \in Seq(DOMAIN cols)
  PROVE  (IF columns = <<>> THEN <<>>
          ELSE <<Suggestion("missing_values", Firsts(columns, 4))>>)
           \in Seq(FollowUpDraft(cols))
<1>1. CASE columns # <<>>
  <2>1. 4 \in Nat \ {0} /\ \A n \in Nat : n <= 4 => n <= 16
    OBVIOUS
  <2>2. PICK shown \in Seq(DOMAIN cols) :
          shown = Firsts(columns, 4) /\ 1 <= Len(shown) /\ Len(shown) <= 4
    BY <1>1, <2>1, FirstSome
  <2>3. shown # <<>> /\ Len(shown) <= 16
    BY <2>1, <2>2, NotEmpty
  <2>4. PICK f : f = Suggestion("missing_values", shown)
    OBVIOUS
  <2>5. Answerable(f, cols)
    <3>1. f.kind = "missing_values" /\ f.columns = shown
      BY <2>4 DEF Suggestion
    <3> QED
      BY <2>3, <3>1 DEF Answerable
  <2>6. f \in [kind : DOMAIN PromptKeywords, columns : Seq(DOMAIN cols)]
    BY <2>4 DEF Suggestion, PromptKeywords
  <2>7. f \in FollowUpDraft(cols)
    BY <2>5, <2>6 DEF FollowUpDraft
  <2>8. <<f>> \in Seq(FollowUpDraft(cols))
    BY <2>7
  <2> QED
    BY <1>1, <2>2, <2>4, <2>8
<1>2. CASE columns = <<>>
  BY <1>2
<1> QED
  BY <1>1, <1>2

LEMMA FollowUpsAnswerable ==
  ASSUME NEW cols \in Seq(ColumnProfile), NEW p,
         p.dimensions \in Seq(DOMAIN cols), p.measures \in Seq(Measured(cols))
  PROVE  \A f \in Elements(FollowUps(cols, p)) : OfItsTypes(f, cols) => Answerable(f, cols)
<1> DEFINE D == FollowUpDraft(cols)
           taken == [i \in DOMAIN p.measures |-> p.measures[i].column]
           measured == Keep(taken, DOMAIN cols)
           referenced == Distinct(p.dimensions \o measured)
           Others(columns) == Keep(columns, DOMAIN cols \ Elements(referenced))
           With(first, second, kind) ==
             IF first # <<>> /\ second # <<>> THEN <<Suggestion(kind, first \o second)>>
             ELSE <<>>
           measure == Firsts(measured, 1)
           dimension == Firsts(p.dimensions, 1)
           drill == With(measure, Firsts(Others(CategoricalColumns(cols)), 1), "drill_down")
           trend == IF p.operation = "trend" THEN <<>>
                    ELSE With(measure, Firsts(Others(DateColumns(cols)), 1), "trend")
           correlation ==
             With(measure, Firsts(Others(NumericColumns(cols)), 1), "correlation")
           top == With(dimension, measure, "top_values")
           missing == IF referenced = <<>> THEN <<>>
                      ELSE <<Suggestion("missing_values", Firsts(referenced, 4))>>
<1>1. FollowUps(cols, p) = Firsts(drill \o trend \o correlation \o top \o missing, 4)
  BY DEF FollowUps
<1>2. measured \in Seq(DOMAIN cols)
  <2>1. DOMAIN p.measures = 1..Len(p.measures) /\ Len(p.measures) \in Nat
    OBVIOUS
  <2>2. \A i \in 1..Len(p.measures) : p.measures[i] \in Measured(cols)
    BY SeqMembers
  <2>3. \A i \in 1..Len(p.measures) : p.measures[i].column \in 0..Len(cols)
    BY <2>2 DEF Measured
  <2>4. taken \in [1..Len(p.measures) -> 0..Len(cols)]
    BY <2>1, <2>3
  <2> HIDE DEF taken
  <2>5. taken \in Seq(0..Len(cols))
    BY <2>1, <2>4, FunctionIsSeq
  <2>6. measured \in Seq(0..Len(cols) \cap DOMAIN cols)
    BY <2>5, KeepElements
  <2>7. 0..Len(cols) \cap DOMAIN cols \subseteq DOMAIN cols
    OBVIOUS
  <2> QED
    BY <2>6, <2>7, SeqMonotonic
<1> HIDE DEF measured
<1>3. referenced \in Seq(DOMAIN cols)
  <2>1. p.dimensions \o measured \in Seq(DOMAIN cols)
    BY <1>2, ConcatProperties
  <2> QED
    BY <2>1, DistinctColumns
<1> HIDE DEF referenced
<1>4. /\ Others(NumericColumns(cols)) \in Seq(Numbers(cols))
      /\ Others(DateColumns(cols)) \in Seq(Dates(cols))
      /\ Others(CategoricalColumns(cols)) \in Seq(Labels(cols))
  BY SuggestedColumns, KeepPicks
<1>5. /\ DOMAIN cols \in SUBSET DOMAIN cols /\ Numbers(cols) \in SUBSET DOMAIN cols
      /\ Dates(cols) \in SUBSET DOMAIN cols /\ Labels(cols) \in SUBSET DOMAIN cols
  BY TypesDisjoint
<1>6. {"drill_down", "trend", "correlation", "top_values"} \subseteq DOMAIN PromptKeywords
  BY DEF PromptKeywords
<1> HIDE DEF D, Others
<1>7. drill \in Seq(D)
  BY <1>2, <1>4, <1>5, <1>6, DrillAnswerable, DraftOfPair DEF D
<1>8. trend \in Seq(D)
  <2>1. With(measure, Firsts(Others(DateColumns(cols)), 1), "trend") \in Seq(D)
    BY <1>2, <1>4, <1>5, <1>6, LaterTrendAnswerable, DraftOfPair DEF D
  <2>2. <<>> \in Seq(D)
    OBVIOUS
  <2> HIDE DEF With
  <2> QED
    BY <2>1, <2>2
<1>9. correlation \in Seq(D)
  BY <1>2, <1>4, <1>5, <1>6, LaterCorrelationAnswerable, DraftOfPair DEF D
<1>10. top \in Seq(D)
  BY <1>2, <1>5, <1>6, TopAnswerable, DraftOfPair DEF D
<1>11. missing \in Seq(D)
  BY <1>3, DraftOfMissing DEF D
<1> HIDE DEF drill, trend, correlation, top, missing, taken, measure, dimension, With
<1>12. drill \o trend \o correlation \o top \o missing \in Seq(D)
  <2>1. drill \o trend \in Seq(D)
    BY <1>7, <1>8, ConcatProperties
  <2>2. drill \o trend \o correlation \in Seq(D)
    BY <1>9, <2>1, ConcatProperties
  <2>3. drill \o trend \o correlation \o top \in Seq(D)
    BY <1>10, <2>2, ConcatProperties
  <2> QED
    BY <1>11, <2>3, ConcatProperties
<1>13. FollowUps(cols, p) \in Seq(D)
  <2>1. 4 \in Nat
    OBVIOUS
  <2>2. PICK all \in Seq(D) : all = drill \o trend \o correlation \o top \o missing
    BY <1>12
  <2>3. Firsts(all, 4) \in Seq(D)
    BY <2>1, FirstsFacts
  <2> QED
    BY <1>1, <2>2, <2>3
<1>14. \A f \in Elements(FollowUps(cols, p)) : f \in D
  BY <1>13, SeqMembers DEF Elements
<1> QED
  BY <1>14 DEF D, FollowUpDraft

\* Every prompt that is suggested for a dataset, first or after an answer, is planned
\* as it reads: whatever the dataset's columns.
THEOREM SuggestionsPlannedAsShown ==
  ASSUME NEW cols \in Seq(ColumnProfile), cols # <<>>,
         NEW s \in Elements(InitialSuggestions(cols))
  PROVE  /\ AnsweredAsShown(s, cols)
         /\ \A p \in PlansFor(Prompt(s), cols) : \A f \in Elements(FollowUps(cols, p)) :
              OfItsTypes(f, cols) => AnsweredAsShown(f, cols)
<1>1. Answerable(s, cols)
  BY InitialAnswerable
<1>2. AnsweredAsShown(s, cols)
  BY <1>1, PromptsPlannedAsShown
<1>3. s.columns \in Seq(DOMAIN cols)
  BY <1>1 DEF Answerable
<1>4. ASSUME NEW p \in PlansFor(Prompt(s), cols), NEW f \in Elements(FollowUps(cols, p)),
             OfItsTypes(f, cols)
      PROVE  AnsweredAsShown(f, cols)
  <2>1. p.dimensions \in Seq(DOMAIN cols) /\ p.measures \in Seq(Measured(cols))
    BY <1>3, RulesOverColumns DEF Prompt
  <2>2. Answerable(f, cols)
    BY <1>4, <2>1, FollowUpsAnswerable
  <2> QED
    BY <2>2, PromptsPlannedAsShown
<1> QED
  BY <1>2, <1>4

LEMMA EverySuggestionPlanned == EverySuggestionIsAnswered
<1>1. \A cols \in DatasetsUpTo(MaxWidth) : cols \in Seq(ColumnProfile) /\ cols # <<>>
  BY DatasetsAreSequences, WidthAssumption
<1> QED
  BY <1>1, SuggestionsPlannedAsShown DEF EverySuggestionIsAnswered

-----------------------------------------------------------------------------
(* The same, of the graph's runs *)

\* The planner's rules: no question is planned as what the contract or the compiler
\* then refuses.
THEOREM PlansAlwaysExecute == Spec => []PlansExecute
<1>1. PlansExecute
  BY QuestionsExecute DEF PlansExecute
<1> QED
  BY <1>1, PTL

\* The suggestions and the planner: no prompt is suggested that is answered as
\* something else, or not at all.
THEOREM SuggestionsAlwaysAnswered == Spec => []SuggestionsAnswered
<1>1. SuggestionsAnswered
  BY EverySuggestionPlanned DEF SuggestionsAnswered
<1> QED
  BY <1>1, PTL

\* selectChart: no chart is selected that its result cannot fill.
THEOREM ChartsAlwaysFit == Spec => []ChartsFit
<1>1. ChartsFit
  BY ChartsFitResults DEF ChartsFit
<1> QED
  BY <1>1, PTL
==============================================================================
