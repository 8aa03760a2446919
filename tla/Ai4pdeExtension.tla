--------------------------- MODULE Ai4pdeExtension ---------------------------
(***************************************************************************)
(* The AI4PDE extension (metaharness_ext/ai4pde): a case in XML becomes a*)
(* task and a plan, its graph is committed to the runtime, and the solver*)
(* in the executor's slot is judged against thresholds and a baseline.   *)
(* Risk, budget and the signals for a mutation are worked out, but nothing *)
(* that decides on the candidate asks for them.                          *)
(***************************************************************************)
EXTENDS ExtensionRun

ProblemType == {"forward", "inverse", "design"}
SolverFamily == {"pinn_strong", "classical_hybrid", "pino"}
Level == {"green", "yellow", "red"}
Violations ==
  {"residual_threshold_exceeded", "boundary_conditions_failed",
   "baseline_divergence_exceeded"}

(* The parts of a case that its validation looks at, and of the task that*)
(* come out of it; a component other than the bundled one may be bound to*)
(* the executor's slot, and a reference may come with numbers of its own.*)
PDECase ==
  [declared : BOOLEAN,              \* every name of the equation is a parameter
   mesh : {"none", "file", "generated"}, located : BOOLEAN,
   required : BOOLEAN,              \* it names components the graph must have
   graph : {"none", "missing", "lacks a component", "good"}]
PDETaskRequest ==
  [problem_type : ProblemType, family : SolverFamily, budget : Level,
   executor : {"bundled", "other"}, reference : {"none", "default", "own"},
   case : PDECase]
PDEPlan ==
  [selected_method : SolverFamily, template_id : {"none", "forward", "inverse"},
   reference : {"none", "default", "own"}]
PDERunArtifact == [solver_family : SolverFamily, exceeds : SUBSET Violations]
ValidationBundle ==
  [passed : BOOLEAN, violations : SUBSET Violations,
   next_action : {"accept", "retry"}, rollback_recommended : BOOLEAN]
MutationSignal ==
  {"repeated_partial", "repeated_failure_family", "baseline_divergence_widening",
   "cost_too_high"}
RiskDecision ==
  [risk_level : Level, budget_level : Level, signals : SUBSET MutationSignal]

------------------------------------------------------------------------------
GeometryIssue(case) == case.mesh # "none" /\ ~case.located
RuntimeIssue(case) == case.required /\ case.graph # "good"
CaseIssues(case) ==
  {i \in {"expression", "geometry", "runtime"} :
     \/ i = "expression" /\ ~case.declared
     \/ i = "geometry" /\ GeometryIssue(case)
     \/ i = "runtime" /\ RuntimeIssue(case)}

IssueTaskFromCase ==
  /\ At("issue")
  /\ IF CaseIssues(task.case) = {} THEN Goto("probe") ELSE Raise
  /\ UNCHANGED <<task, env, plan, disk, run, report, verdict, handed, truth>>

(* The graph is committed before anything has run on it; a case that names *)
(* no components is not asked whether its graph exists.                  *)
CommitGraph ==
  /\ At("probe")
  /\ IF task.case.graph = "missing" THEN Raise /\ UNCHANGED env
     ELSE /\ env' = [made |-> TRUE, committed |-> TRUE]
          /\ Goto("compile")
  /\ UNCHANGED <<task, plan, disk, run, report, verdict, handed, truth>>

(* The first template of the problem's type, stable or a candidate; its  *)
(* method replaces only the default one.                                 *)
Template(type) == IF type = "design" THEN "none" ELSE type
TemplateMethod(template) ==
  IF template = "inverse" THEN "classical_hybrid" ELSE "pinn_strong"

BuildPlan ==
  /\ At("compile")
  /\ LET template == Template(task.problem_type)
     IN  plan' = [selected_method |->
                    IF task.family = "pinn_strong" THEN TemplateMethod(template)
                    ELSE task.family,
                  template_id |-> template, reference |-> task.reference]
  /\ Goto("execute")
  /\ UNCHANGED <<task, env, disk, run, report, verdict, handed, truth>>

------------------------------------------------------------------------------
(* The bundled solvers are fast and have always the same residual: it is *)
(* within the threshold and below the default baseline, but a reference's*)
(* own may be lower still.                                               *)
BundledMisses == SUBSET {v \in {"baseline_divergence_exceeded"} : plan.reference = "own"}
OtherMisses == SUBSET Violations

ExecutePlan ==
  /\ At("execute")
  /\ \/ /\ task.executor = "bundled"
        /\ plan.selected_method \in {"pinn_strong", "classical_hybrid"}
        /\ \E misses \in BundledMisses :
             /\ run' = [solver_family |-> plan.selected_method, exceeds |-> misses]
             /\ truth' = [truth EXCEPT !.exit = "0", !.wrote = misses]
        /\ Goto("validate")
     \/ /\ task.executor = "bundled"
        /\ plan.selected_method \notin {"pinn_strong", "classical_hybrid"}
        /\ Raise
        /\ UNCHANGED <<run, truth>>
     \/ /\ task.executor = "other"
        /\ \E misses \in OtherMisses :
             /\ run' = [solver_family |-> plan.selected_method, exceeds |-> misses]
             /\ truth' = [truth EXCEPT !.exit = "0", !.wrote = misses]
        /\ Goto("validate")
  /\ UNCHANGED <<task, env, plan, disk, report, verdict, handed>>

------------------------------------------------------------------------------
(* The validators that the plan requires are not what decides: the three *)
(* that exist always run.                                                *)
ValidateRun ==
  /\ At("validate")
  /\ LET accepted == run.exceeds = {}
     IN  report' = [passed |-> accepted, violations |-> run.exceeds,
                    next_action |-> IF accepted THEN "accept" ELSE "retry",
                    rollback_recommended |->
                      "baseline_divergence_exceeded" \in run.exceeds]
  /\ Goto("judge")
  /\ UNCHANGED <<task, env, plan, disk, run, verdict, handed, truth>>

ClassifyRisk ==
  IF task.budget = "red" THEN "red"
  ELSE IF task.problem_type = "inverse" \/ plan.selected_method = "classical_hybrid"
  THEN "yellow" ELSE "green"

EvaluateTriggers ==
  {s \in MutationSignal :
     \/ s = "repeated_partial" /\ report.next_action = "retry"
     \/ s = "repeated_failure_family" /\ report.violations # {}
     \/ s = "baseline_divergence_widening" /\ report.rollback_recommended
     \/ s = "cost_too_high" /\ task.budget = "red"}

Classify ==
  /\ At("judge")
  /\ verdict' = [risk_level |-> ClassifyRisk, budget_level |-> task.budget,
                 signals |-> EvaluateTriggers]
  /\ Goto("hand over")
  /\ UNCHANGED <<task, env, plan, disk, run, report, handed, truth>>

(* The validator has written its events already: a rejection among them  *)
(* comes before the gate that is added here.                             *)
CoreValid == report.next_action = "accept" /\ report.violations = {}
SessionEvents ==
  <<[type |-> "candidate_validated", valid |-> report.passed]>>
    \o (IF report.violations = {} THEN <<>>
        ELSE <<[type |-> "candidate_rejected", valid |-> FALSE]>>)
    \o <<[type |-> "safety_gate_evaluated", valid |-> report.passed]>>

HandOver ==
  /\ At("hand over")
  /\ handed' = Handed(CoreValid, CoreValid, SessionEvents)
  /\ Goto("done")
  /\ UNCHANGED <<task, env, plan, disk, run, report, verdict, truth>>

------------------------------------------------------------------------------
PlainCase ==
  [declared |-> TRUE, mesh |-> "none", located |-> TRUE, required |-> FALSE,
   graph |-> "none"]

(* The parts of a case and those of its task are varied in turn.         *)
Tasks ==
  {t \in PDETaskRequest :
     \/ t.case = PlainCase
     \/ /\ t.problem_type = "forward" /\ t.family = "pinn_strong"
        /\ t.budget = "green" /\ t.executor = "bundled" /\ t.reference = "none"}

Next ==
  \/ IssueTaskFromCase \/ CommitGraph \/ BuildPlan \/ ExecutePlan
  \/ ValidateRun \/ Classify \/ HandOver

Typed ==
  /\ task \in PDETaskRequest
  /\ Made(plan) => plan \in PDEPlan
  /\ Made(run) => run \in PDERunArtifact
  /\ Made(report) => report \in ValidationBundle
  /\ Made(verdict) => verdict \in RiskDecision

(* The solver came to its end and missed neither a threshold nor the     *)
(* baseline, on a graph that was committed for a case without issues.    *)
Earned ==
  /\ truth.exit = "0" /\ truth.wrote = {}
  /\ Made(env) /\ CaseIssues(task.case) = {}

(* The violations of a report are the thresholds that were missed, and a *)
(* rollback is recommended only for a task judged by its own reference or*)
(* by another executor.                                                  *)
CauseNamed ==
  /\ report.violations = truth.wrote
  /\ report.rollback_recommended =>
       task.reference = "own" \/ task.executor = "other"
==============================================================================
