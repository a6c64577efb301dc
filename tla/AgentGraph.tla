------------------------------ MODULE AgentGraph ------------------------------
(***************************************************************************)
(* The analysis graph that answers a prompt: its thirteen nodes, the       *)
(* planning model that may return anything its schema admits, the          *)
(* clarification that may interrupt it, and the user who meanwhile cancels,*)
(* answers, saves a definition or attaches another dataset version.        *)
(*                                                                         *)
(* One conversation and its current prompt are modelled; ConversationRuns  *)
(* shows that a run has one responder at a time.  A node takes two steps:  *)
(* the transaction that records its progress, then its work with the save  *)
(* of the checkpoint.  Column ids are primary keys, so no two versions     *)
(* share one.  The one alias definitionAlias recognises is "revenue".      *)
(***************************************************************************)
EXTENDS Naturals, Sequences

CONSTANTS
  None,         \* null
  Version,      \* ready dataset versions of the user
  Columns,      \* Columns[v]: the column ids of v in ordinal order
  Revenue,      \* columns whose name includes "revenue"
  Concept,      \* options a model may offer that name no column
  Words,        \* answers of the user's own wording
  LabelWithin,  \* <<a, o>>: answer a, normalised, contains the label of o
  Question,     \* prompts, by what the graph tests of their text
  PlanDraft,    \* plans the model may return
  OptionDraft,  \* option lists the model may return
  MaxPrompts,   \* bound on the prompts of the conversation
  MaxOptions,   \* bound on the columns of a version: at most the schema's eight
                \* options, so that the slice to eight keeps every column
  MaxSteps, MaxRepairs, MaxToolCalls  \* AGENT_MAX_*

ColumnsOf(v) == {Columns[v][i] : i \in DOMAIN Columns[v]}
Column == UNION {ColumnsOf(v) : v \in Version}
Option == Column \cup Concept
Answer == Option \cup Words

\* Options in the order they are tried; a gap is one that was filtered out.
OptionList == UNION {[S -> Option] : S \in SUBSET (1..MaxOptions)}

\* Columns used as measures, and as dimensions or filters.
Plan == [measures : SUBSET Column, others : SUBSET Column]
Refs(p) == p.measures \cup p.others

ASSUME ColumnsAssumption ==
  /\ \A v \in Version : Columns[v] \in Seq(Column) /\ Len(Columns[v]) <= MaxOptions
  /\ \A v, w \in Version : v # w => ColumnsOf(v) \cap ColumnsOf(w) = {}
  /\ Concept \cap Column = {}

ASSUME NoneAssumption == None \notin Version \cup Answer \cup Plan

ASSUME DraftAssumption == /\ PlanDraft \subseteq Plan
                          /\ OptionDraft \subseteq OptionList

ASSUME QuestionAssumption ==
  Question \subseteq [revenue : BOOLEAN,       \* mentions "revenue"
                      names : SUBSET Column,   \* the columns it names in full
                      recalls : BOOLEAN,       \* reads as a conversation_history request
                      executable : BOOLEAN]    \* isExecutableAnalyticalRequest

ASSUME LimitsAssumption == /\ MaxPrompts \in Nat /\ MaxOptions \in Nat /\ MaxSteps \in Nat
                           /\ MaxRepairs \in Nat /\ MaxToolCalls \in Nat

VARIABLES
  attached,    \* conversations.active_dataset_version_id
  definition,  \* the "revenue" row of memory_records of each version
  prompts,     \* prompts sent so far
  question,    \* the current one
  run,         \* agent_runs.status of its run
  checkpoint,  \* its row of agent_checkpoints
  result,      \* its rows of analysis_plans and analysis_results
  node,        \* the node its responder enters next, or works in
  working,     \* whether that node's progress was recorded
  snapshot,    \* the responder's copy of the checkpoint
  decision, analysis, outcome,  \* the rest of AnalysisRuntimeState
  planCalls    \* how often the model was asked for a plan of this prompt

tables == <<attached, definition, prompts, question, run, checkpoint, result>>
thread == <<node, working, snapshot, decision, analysis, outcome>>
vars == <<tables, thread, planCalls>>

GraphNode == {"authorize_and_load_context", "classify_intent",
              "retrieve_semantic_context", "create_analysis_plan", "validate_plan",
              "repair_plan", "clarification_interrupt", "compile_query",
              "execute_analysis", "verify_result", "select_visualization",
              "generate_explanation", "persist_output"}

\* Besides the nodes: no responder, the graph has ended, an error was thrown.
NodeState == GraphNode \cup {"idle", "END", "failing"}

ActiveStatus == {"queued", "running", "waiting_for_user"}
RunStatus == ActiveStatus \cup {"none", "completed", "failed", "cancelled"}

Clarification == [status : {"none", "pending", "answered"},
                  revenue : BOOLEAN,  \* asks REVENUE_DEFINITION_QUESTION
                  options : OptionList, answer : Answer \cup {None}]
NoClarification == [status |-> "none", revenue |-> FALSE, options |-> <<>>,
                    answer |-> None]

Snapshot == [version : Version \cup {None}, remembered : Column \cup {None},
             plan : Plan \cup {None}, invalid : BOOLEAN,
             clarification : Clarification,
             steps : Nat, repairs : Nat, tools : Nat]

\* initialSnapshot, which also stands for the absent row.
InitialSnapshot == [version |-> None, remembered |-> None, plan |-> None,
                    invalid |-> FALSE, clarification |-> NoClarification,
                    steps |-> 0, repairs |-> 0, tools |-> 0]

\* What safeParse and validate_plan tell apart in a planning decision.
Decision == [kind : {"malformed", "history", "unsupported", "analysis"},
             asks : BOOLEAN, plan : Plan \cup {None}, options : OptionList]

Analysis == [version : Version, plan : Plan]

-----------------------------------------------------------------------------
(* What the nodes test *)

\* retrieve_semantic_context is the one node whose calls depend on the intent.
ToolCalls(n) ==
  CASE n = "authorize_and_load_context" -> 1
    [] n = "execute_analysis" -> 1
    [] n = "retrieve_semantic_context" -> IF question.recalls THEN 0 ELSE 1
    [] OTHER -> 0

WithinLimits(s) == s.steps < MaxSteps /\ s.tools + ToolCalls(node) <= MaxToolCalls

\* The value of option o is the answer, or its label is within the answer.
Matches(c, o) == o = c.answer \/ <<c.answer, o>> \in LabelWithin

\* The first option that matches.
Chosen(c) ==
  LET hits == {i \in DOMAIN c.options : Matches(c, c.options[i])}
  IN IF hits = {} THEN None
     ELSE c.options[CHOOSE i \in hits : \A j \in hits : i <= j]

\* findConfirmedDefinitions for the snapshot's version, matched to the question.
RememberedFor(v) ==
  IF question.recalls \/ ~question.revenue THEN None ELSE definition[v]

\* The columns the server offers: those of the version that mean revenue.
RevenueOptions(v) ==
  [i \in {j \in DOMAIN Columns[v] : Columns[v][j] \in Revenue} |-> Columns[v][i]]

\* localMaterialAmbiguity
AmbiguousRevenue(s) ==
  /\ s.clarification.status # "answered"
  /\ s.remembered \notin ColumnsOf(s.version)
  /\ question.revenue
  /\ \E c, d \in ColumnsOf(s.version) \cap Revenue : c # d
  /\ ColumnsOf(s.version) \cap Revenue \cap question.names = {}

\* providerAmbiguity keeps the options that name no column or a known one.
KnownOptions(options, v) ==
  [i \in {j \in DOMAIN options : options[j] \in Concept \cup ColumnsOf(v)} |-> options[i]]

\* Seeded fault: an answered revenue question is taken for any other question.
UsesAnswerAnywhere(p, c) ==
  c.status = "answered" /\ Chosen(c) \in Column => Chosen(c) \in Refs(p)

UsesAnswer(p, c) ==
  c.status = "answered" /\ Chosen(c) \in Column =>
    Chosen(c) \in (IF c.revenue THEN p.measures ELSE Refs(p))

\* Seeded fault: the definition may be used as a dimension.
UsesDefinitionAnywhere(p, s) == s.remembered # None => s.remembered \in Refs(p)

UsesDefinition(p, s) == s.remembered # None => s.remembered \in p.measures

\* validatePlanColumns
ValidPlan(p, s) == /\ Refs(p) \subseteq ColumnsOf(s.version)
                   /\ UsesDefinition(p, s)
                   /\ UsesAnswer(p, s.clarification)

\* What createPlan of the model returns: it is parsed against the draft schema
\* only, and the rest of the schema is tested by validate_plan.
ModelDecisions ==
  {[kind |-> k, asks |-> FALSE, plan |-> None, options |-> <<>>] :
     k \in {"malformed", "history", "unsupported"}}
  \cup {[kind |-> "analysis", asks |-> FALSE, plan |-> p, options |-> <<>>] :
          p \in PlanDraft}
  \cup {[kind |-> "analysis", asks |-> TRUE, plan |-> p, options |-> o] :
          p \in PlanDraft \cup {None}, o \in OptionDraft}

-----------------------------------------------------------------------------
(* The responder: one node after the other *)

GoTo(n) == node' = n /\ working' = FALSE

Persist(s) == snapshot' = s /\ checkpoint' = s

LeaveTables == UNCHANGED <<attached, definition, prompts, question, run, result>>

WorksIn(n) == node = n /\ working

\* Seeded fault: a resumed run starts from a new snapshot that keeps the answer.
LoadedAnew == [InitialSnapshot EXCEPT !.clarification = checkpoint.clarification]

\* respond loads the row and starts at the first node, resumed or not.
Loaded == checkpoint

\* claimRun and checkpoints.load
Claim ==
  /\ run = "queued"
  /\ node = "idle"
  /\ run' = "running"
  /\ GoTo("authorize_and_load_context")
  /\ snapshot' = Loaded
  /\ UNCHANGED <<attached, definition, prompts, question, checkpoint, result,
                 decision, analysis, outcome, planCalls>>

\* assertActive, the limits and recordRunProgress, which tests the run again.
MayEnter == run = "running" /\ WithinLimits(snapshot)

EnterNode ==
  /\ node \in GraphNode
  /\ ~working
  /\ MayEnter
  /\ working' = TRUE
  /\ snapshot' = [snapshot EXCEPT !.steps = @ + 1, !.tools = @ + ToolCalls(node)]
  /\ UNCHANGED <<tables, node, decision, analysis, outcome, planCalls>>

StopAtNode ==
  /\ node \in GraphNode
  /\ ~working
  /\ ~MayEnter
  /\ GoTo("failing")
  /\ UNCHANGED <<tables, snapshot, decision, analysis, outcome, planCalls>>

\* A query, the storage, the engine, the model or the save of the checkpoint
\* fails, or a node finds what it needs missing.
WorkThrows ==
  /\ working
  /\ GoTo("failing")
  /\ UNCHANGED <<tables, snapshot, decision, analysis, outcome, planCalls>>

\* loadProfile reads the attached version, of a running run only.
Authorize ==
  /\ WorksIn("authorize_and_load_context")
  /\ run = "running"
  /\ attached # None
  /\ Persist([snapshot EXCEPT !.version = attached])
  /\ GoTo("classify_intent")
  /\ UNCHANGED <<decision, analysis, outcome, planCalls>>
  /\ LeaveTables

RetrieveContext ==
  /\ WorksIn("retrieve_semantic_context")
  /\ Persist([snapshot EXCEPT !.remembered = RememberedFor(snapshot.version)])
  /\ GoTo("create_analysis_plan")
  /\ UNCHANGED <<decision, analysis, outcome, planCalls>>
  /\ LeaveTables

\* The snapshot that waits for the answer to a question with these options.
Asking(revenue, options) ==
  [snapshot EXCEPT !.plan = None,
                   !.clarification = [status |-> "pending", revenue |-> revenue,
                                      options |-> options, answer |-> None]]

AskAboutRevenue ==
  /\ WorksIn("create_analysis_plan")
  /\ AmbiguousRevenue(snapshot)
  /\ Persist(Asking(TRUE, RevenueOptions(snapshot.version)))
  /\ outcome' = "waiting_for_user"
  /\ GoTo("validate_plan")
  /\ UNCHANGED <<decision, analysis, planCalls>>
  /\ LeaveTables

CreatePlan ==
  /\ WorksIn("create_analysis_plan")
  /\ ~AmbiguousRevenue(snapshot)
  /\ decision' \in ModelDecisions
  /\ planCalls' = planCalls + 1
  /\ Persist([snapshot EXCEPT !.plan = None, !.invalid = FALSE])
  /\ GoTo("validate_plan")
  /\ UNCHANGED <<analysis, outcome>>
  /\ LeaveTables

\* What validate_plan makes of the decision, tried in this order.
RefusedDecision(d) ==
  d.kind = "malformed" \/ (d.kind = "unsupported" /\ question.executable)

DirectResponse(d) == d.kind = "history" \/ (d.kind = "unsupported" /\ ~question.executable)

ModelAsks(d) == d.kind = "analysis" /\ d.asks /\ snapshot.clarification.status # "answered"

PlansAnalysis(d) == d.kind = "analysis" /\ ~ModelAsks(d)

AcceptedPlan(d) == PlansAnalysis(d) /\ d.plan # None /\ ValidPlan(d.plan, snapshot)

RejectedPlan(d) == RefusedDecision(d) \/ (PlansAnalysis(d) /\ ~AcceptedPlan(d))

\* validate_plan and the edge that validationRoute picks.
ValidatePlan ==
  /\ WorksIn("validate_plan")
  /\ \/ /\ outcome = "waiting_for_user"
        /\ Persist(snapshot)
        /\ GoTo("clarification_interrupt")
        /\ UNCHANGED outcome
     \/ /\ outcome = "continue" /\ RejectedPlan(decision)
        /\ Persist([snapshot EXCEPT !.invalid = TRUE])
        /\ GoTo("repair_plan")
        /\ UNCHANGED outcome
     \/ /\ outcome = "continue" /\ DirectResponse(decision)
        /\ Persist(snapshot)
        /\ GoTo("persist_output")
        /\ outcome' = "direct_response"
     \/ /\ outcome = "continue" /\ ModelAsks(decision)
        /\ Persist(Asking(FALSE, KnownOptions(decision.options, snapshot.version)))
        /\ GoTo("clarification_interrupt")
        /\ outcome' = "waiting_for_user"
     \/ /\ outcome = "continue" /\ AcceptedPlan(decision)
        /\ Persist([snapshot EXCEPT !.plan = decision.plan, !.invalid = FALSE])
        /\ GoTo("compile_query")
        /\ UNCHANGED outcome
  /\ UNCHANGED <<decision, analysis, planCalls>>
  /\ LeaveTables

RepairsLeft == snapshot.repairs < MaxRepairs

RepairPlan ==
  /\ WorksIn("repair_plan")
  /\ RepairsLeft
  /\ decision' \in ModelDecisions
  /\ planCalls' = planCalls + 1
  /\ Persist([snapshot EXCEPT !.repairs = @ + 1, !.plan = None])
  /\ GoTo("validate_plan")
  /\ UNCHANGED <<analysis, outcome>>
  /\ LeaveTables

\* requireColumn of the compiler, for every column of the plan.
ExecutablePlan(p, v) == Refs(p) \subseteq ColumnsOf(v)

\* executePlan reads the attached version anew.
ExecuteAnalysis ==
  /\ WorksIn("execute_analysis")
  /\ snapshot.plan # None
  /\ run = "running"
  /\ attached # None
  /\ ExecutablePlan(snapshot.plan, attached)
  /\ analysis' = [version |-> attached, plan |-> snapshot.plan]
  /\ Persist(snapshot)
  /\ GoTo("verify_result")
  /\ UNCHANGED <<decision, outcome, planCalls>>
  /\ LeaveTables

\* The nodes that change nothing a property tells apart, with the node after
\* them.  generate_explanation falls back to a fixed text when the model's is
\* malformed.
NodeAfter == [classify_intent |-> "retrieve_semantic_context",
              clarification_interrupt |-> "END",
              compile_query |-> "execute_analysis",
              verify_result |-> "select_visualization",
              select_visualization |-> "generate_explanation",
              generate_explanation |-> "persist_output",
              persist_output |-> "END"]

\* persist_output ends a direct response as completed, too.
PassThrough ==
  /\ working
  /\ node \in DOMAIN NodeAfter
  /\ node = "compile_query" => snapshot.plan # None
  /\ node \in {"verify_result", "generate_explanation"} =>
       analysis # None /\ snapshot.plan # None
  /\ Persist(snapshot)
  /\ GoTo(NodeAfter[node])
  /\ outcome' = IF node = "persist_output" THEN "completed" ELSE outcome
  /\ UNCHANGED <<decision, analysis, planCalls>>
  /\ LeaveTables

-----------------------------------------------------------------------------
(* The responder: what becomes of the run *)

\* process returns, and the state of the graph is gone.
Returns ==
  /\ GoTo("idle")
  /\ snapshot' = InitialSnapshot
  /\ decision' = None
  /\ analysis' = None
  /\ outcome' = "continue"
  /\ UNCHANGED <<attached, definition, prompts, question, checkpoint, planCalls>>

\* pauseRun
Pause ==
  /\ node = "END"
  /\ outcome = "waiting_for_user"
  /\ run' = IF run = "running" THEN "waiting_for_user" ELSE run
  /\ Returns
  /\ UNCHANGED result

Stores == analysis # None /\ run \in {"running", "waiting_for_user"}

\* completeRun
Complete ==
  /\ node = "END"
  /\ outcome # "waiting_for_user"
  /\ run' = IF run \in {"running", "waiting_for_user"} THEN "completed" ELSE run
  /\ result' = IF Stores THEN analysis ELSE result
  /\ Returns

\* Seeded fault: a cancelled run is the only one that failRun ends.
FailedIfCancelled == IF run = "cancelled" THEN "failed" ELSE run

FailedRun == IF run \in ActiveStatus THEN "failed" ELSE run

\* failRun
Fail ==
  /\ node = "failing"
  /\ run' = FailedRun
  /\ Returns
  /\ UNCHANGED result

-----------------------------------------------------------------------------
(* The user *)

\* The next prompt.  One is taken while no run is active; the responder of a
\* cancelled run may still work, on rows of its own, and is waited for here.
Send(q) ==
  /\ run \notin ActiveStatus
  /\ node = "idle"
  /\ prompts < MaxPrompts
  /\ prompts' = prompts + 1
  /\ question' = q
  /\ run' = "queued"
  /\ checkpoint' = InitialSnapshot
  /\ result' = None
  /\ planCalls' = 0
  /\ UNCHANGED <<attached, definition, thread>>

\* attachDatasetVersion, which asks for no run to have ended.
Attach(v) ==
  /\ attached # v
  /\ attached' = v
  /\ UNCHANGED <<definition, prompts, question, run, checkpoint, result, thread, planCalls>>

\* cancelRun
Cancel ==
  /\ run \in ActiveStatus
  /\ run' = "cancelled"
  /\ UNCHANGED <<attached, definition, prompts, question, checkpoint, result, thread,
                 planCalls>>

Answered(c, a) == [c EXCEPT !.status = "answered", !.answer = a]

\* saveConfirmedDefinition stores the column under the version attached now.
SavesDefinition(c) ==
  /\ attached # None
  /\ c.revenue
  /\ Chosen(c) \in Column
  /\ definition' = [definition EXCEPT ![attached] = Chosen(c)]

\* resumeRun
Resume(a, save) ==
  /\ run = "waiting_for_user"
  /\ checkpoint.clarification.status = "pending"
  /\ LET c == Answered(checkpoint.clarification, a) IN
       /\ checkpoint' = [checkpoint EXCEPT !.clarification = c]
       /\ IF save THEN SavesDefinition(c) ELSE UNCHANGED definition
  /\ run' = "queued"
  /\ UNCHANGED <<attached, prompts, question, result, thread, planCalls>>

-----------------------------------------------------------------------------

Init ==
  /\ attached = None
  /\ definition = [v \in Version |-> None]
  /\ prompts = 0
  /\ question \in Question
  /\ run = "none"
  /\ checkpoint = InitialSnapshot
  /\ result = None
  /\ node = "idle"
  /\ working = FALSE
  /\ snapshot = InitialSnapshot
  /\ decision = None
  /\ analysis = None
  /\ outcome = "continue"
  /\ planCalls = 0

Work == \/ Authorize
        \/ RetrieveContext
        \/ AskAboutRevenue
        \/ CreatePlan
        \/ ValidatePlan
        \/ RepairPlan
        \/ ExecuteAnalysis
        \/ PassThrough
        \/ WorkThrows

Respond == \/ Claim
           \/ EnterNode
           \/ StopAtNode
           \/ Work
           \/ Pause
           \/ Complete
           \/ Fail

User == \/ \E q \in Question : Send(q)
        \/ \E v \in Version \cup {None} : Attach(v)
        \/ Cancel
        \/ \E a \in Answer, save \in BOOLEAN : Resume(a, save)

Next == Respond \/ User

Spec == Init /\ [][Next]_vars

\* BullMQ delivers every queued run, and a node's calls return or time out.
FairSpec == Spec /\ WF_vars(Respond)

-----------------------------------------------------------------------------
(* Properties *)

\* The type invariant: each variable holds values its column or field admits.
TypeOK ==
  /\ attached \in Version \cup {None}
  /\ definition \in [Version -> Column \cup {None}]
  /\ prompts \in Nat
  /\ question \in Question
  /\ run \in RunStatus
  /\ checkpoint \in Snapshot
  /\ result \in Analysis \cup {None}
  /\ node \in NodeState
  /\ working \in BOOLEAN
  /\ snapshot \in Snapshot
  /\ decision \in Decision \cup {None}
  /\ analysis \in Analysis \cup {None}
  /\ outcome \in {"continue", "waiting_for_user", "direct_response", "completed"}
  /\ planCalls \in Nat

\* The configured limits bound the whole run, on both sides of a clarification
\* and in every row saved on the way, and with them the planning requests that
\* the user's provider account is charged for.
LimitsHold ==
  /\ \A s \in {snapshot, checkpoint} : /\ s.steps <= MaxSteps
                                       /\ s.tools <= MaxToolCalls
                                       /\ s.repairs <= MaxRepairs
  /\ planCalls <= MaxRepairs + 2

\* A user who has answered is not asked again: neither the local revenue check
\* nor the model, at whatever repair, replaces an answered clarification.
AskedOnce ==
  [][checkpoint.clarification.status = "answered" /\ prompts' = prompts
       => checkpoint'.clarification = checkpoint.clarification]_vars

\* A stored analysis uses columns of the very version it was computed on,
\* although the user may attach another one between any two nodes.
ResultOnItsData ==
  result # None => Refs(result.plan) \subseteq ColumnsOf(result.version)

\* A user whose answer matches one of the offered columns, and no other option,
\* gets an analysis that uses this column (measures it, if revenue was asked
\* for), computed on the version it belongs to.  SelectedColumnBound is about
\* the answers that match several.
AnswerHonoured ==
  LET c == checkpoint.clarification IN
  result # None /\ c.status = "answered" =>
    \A column \in Column :
      {o \in {c.options[i] : i \in DOMAIN c.options} : Matches(c, o)} = {column} =>
        /\ column \in (IF c.revenue THEN result.plan.measures ELSE Refs(result.plan))
        /\ column \in ColumnsOf(result.version)

\* The column a user picks among the options is bound to the stored plan, as
\* docs/specs/007-agent-workflow.md:131 has it; the code binds another if that
\* one's label is within the name of the picked column, and comes first.
SelectedColumnBound ==
  LET c == checkpoint.clarification IN
  result # None /\ c.status = "answered" =>
    \A i \in DOMAIN c.options :
      c.options[i] = c.answer /\ c.answer \in Column =>
        c.answer \in (IF c.revenue THEN result.plan.measures ELSE Refs(result.plan))

\* A stored analysis measures the column that a confirmed definition, saved by
\* an earlier prompt and retrieved for this one, gives to the asked term.
DefinitionHonoured ==
  result # None /\ checkpoint.remembered # None =>
    checkpoint.remembered \in result.plan.measures

\* However often the model's plans are refused, a run that is taken on is
\* answered, asks its user, or ends.
RunComesToRest ==
  run \in {"queued", "running"} ~> run \notin {"queued", "running"}
=============================================================================
