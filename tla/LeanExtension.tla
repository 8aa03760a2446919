---------------------------- MODULE LeanExtension ----------------------------
(***************************************************************************)
(* The Lean extension (metaharness_ext/lean): a gateway proves one lemma,*)
(* audits one file, or works through a blueprint item by item until one is *)
(* not proven.  Without the variable MHE_RUN_REAL_LEAN the executor asks a *)
(* mock whatever the policy says.  There is no policy component and no   *)
(* governance adapter: the validation report decides.                    *)
(***************************************************************************)
EXTENDS ExtensionRun

Needs == {"MHE_RUN_REAL_LEAN", "lean", "lake", "project root"}
LeanFamily == {"formal_proof", "proof_audit", "formalization_project"}
Diagnostics == {"error", "warning", "sorry"}

(* A blueprint's items are named in the order of the task; uses is the set *)
(* of pairs of an item and one it depends on, and item 3 does not exist. *)
Blueprints ==
  [items : {<<1>>, <<1, 2>>}, uses : SUBSET {<<1, 2>>, <<2, 1>>, <<1, 3>>}]
LeanTaskSpec ==
  [family : LeanFamily, mode : {"dry_run", "real_lean"}, budget : 1..2,
   builds : BOOLEAN,                 \* the project has a lakefile.lean
   blueprint : Blueprints]
LeanEnvironmentReport ==
  [lean_available : BOOLEAN, lake_available : BOOLEAN,
   project_root_found : BOOLEAN, blocks_promotion : BOOLEAN]
LeanRunPlan ==
  [items : {<<>>, <<1>>, <<2>>, <<1, 2>>, <<2, 1>>}, attempts : 0..1, budget : 1..2,
   target : {"task's file", "workspace file"}]
LeanRunArtifact ==
  [exit_code : {"0", "1", "124"}, diagnostics : SUBSET (Diagnostics \cup {"timeout"}),
   execution_mode : {"dry_run", "real_lean"}]
LeanValidationStatus ==
  {"fully_proven", "partially_proven", "budget_exhausted", "compilation_failed",
   "environment_failed", "timeout"}
LeanValidationReport ==
  [status : LeanValidationStatus, passed : BOOLEAN, retriable : BOOLEAN]

Project == task.family = "formalization_project"
OptedIn == "MHE_RUN_REAL_LEAN" \notin truth.lacks

------------------------------------------------------------------------------
IssueTask ==
  /\ At("issue")
  /\ Goto("probe")
  /\ UNCHANGED <<task, env, plan, disk, run, report, verdict, handed, truth>>

(* Nothing is looked at for a dry run, nor without the variable.         *)
DryRunReport ==
  [lean_available |-> TRUE, lake_available |-> TRUE,
   project_root_found |-> "project root" \notin truth'.lacks,
   blocks_promotion |-> FALSE]
RealReport(lacks) ==
  [lean_available |-> "lean" \notin lacks, lake_available |-> "lake" \notin lacks,
   project_root_found |-> "project root" \notin lacks,
   blocks_promotion |-> {"lean", "lake", "project root"} \cap lacks # {}]
ClosedReport ==
  [lean_available |-> FALSE, lake_available |-> FALSE,
   project_root_found |-> FALSE, blocks_promotion |-> TRUE]

Probe ==
  /\ At("probe")
  /\ \E lacks \in SUBSET Needs :
       /\ truth' = [truth EXCEPT !.lacks = lacks]
       /\ env' = IF task.mode = "dry_run" THEN DryRunReport
                 ELSE IF "MHE_RUN_REAL_LEAN" \in lacks THEN ClosedReport
                 ELSE RealReport(lacks)
  /\ Goto("compile")
  /\ UNCHANGED <<task, plan, disk, run, report, verdict, handed>>

(* An item may only depend on items of the blueprint, and on none of those *)
(* that depend on it; the order is one in which each follows what it uses. *)
Labels(blueprint) == {blueprint.items[i] : i \in DOMAIN blueprint.items}
UsesOf(blueprint) == {u \in blueprint.uses : u[1] \in Labels(blueprint)}
Known(blueprint) == \A u \in UsesOf(blueprint) : u[2] \in Labels(blueprint)
Acyclic(blueprint) == ~{<<1, 2>>, <<2, 1>>} \subseteq UsesOf(blueprint)
OrderBlueprintItems(blueprint) ==
  IF <<1, 2>> \in UsesOf(blueprint) THEN <<2, 1>> ELSE blueprint.items

(* A single proof is its own plan, in its first attempt; a blueprint that*)
(* cannot be ordered is an error of the gateway's caller.                *)
Compile ==
  /\ At("compile")
  /\ IF Project
     THEN IF Known(task.blueprint) /\ Acyclic(task.blueprint)
          THEN /\ plan' = [items |-> OrderBlueprintItems(task.blueprint),
                           attempts |-> 0, budget |-> task.budget,
                           target |-> "workspace file"]
               /\ Goto("execute")
          ELSE Raise /\ UNCHANGED plan
     ELSE /\ plan' = [items |-> <<1>>, attempts |-> 1, budget |-> task.budget,
                      target |-> "task's file"]
          /\ Goto("execute")
  /\ UNCHANGED <<task, env, disk, run, report, verdict, handed, truth>>

------------------------------------------------------------------------------
Artifact(exit, diagnostics, mode) ==
  [exit_code |-> exit, diagnostics |-> diagnostics, execution_mode |-> mode]

ExecuteMock ==
  /\ task.mode = "dry_run" \/ ~OptedIn
  /\ run' = Artifact("0", {}, "dry_run")
  /\ Goto("validate")
  /\ UNCHANGED truth

(* A project with a lakefile.lean is built first.  A build that does not *)
(* end in time raises, and so does a lake that is not there.             *)
BuildFails ==
  /\ task.builds
  /\ \/ \E wrote \in SUBSET Diagnostics :
          /\ run' = Artifact("1", wrote, "real_lean")
          /\ truth' = [truth EXCEPT !.exit = "1", !.wrote = wrote]
          /\ Goto("validate")
     \/ Raise /\ truth' = [truth EXCEPT !.exit = "timeout"] /\ UNCHANGED run

(* The file of a workspace ends in the sorry that prepare wrote.         *)
Speaks(exit, wrote) ==
  plan.target = "workspace file" /\ exit = "0" => "sorry" \in wrote
RunLean ==
  \/ \E exit \in {"0", "1"}, wrote \in SUBSET Diagnostics :
       /\ Speaks(exit, wrote)
       /\ run' = Artifact(exit, wrote, "real_lean")
       /\ truth' = [truth EXCEPT !.exit = exit, !.wrote = wrote]
  \/ /\ run' = Artifact("124", {"timeout"}, "real_lean")
     /\ truth' = [truth EXCEPT !.exit = "timeout", !.wrote = {}]

ExecuteReal ==
  /\ task.mode = "real_lean" /\ OptedIn
  /\ IF "lake" \in truth.lacks THEN Raise /\ UNCHANGED <<run, truth>>
     ELSE \/ BuildFails
          \/ RunLean /\ Goto("validate")

ExecutePlan ==
  /\ At("execute")
  /\ ExecuteMock \/ ExecuteReal
  /\ UNCHANGED <<task, env, plan, disk, report, verdict, handed>>

------------------------------------------------------------------------------
(* What the artifact says is looked at in this order.                    *)
Status ==
  CASE env.blocks_promotion -> "environment_failed"
    [] ~env.blocks_promotion /\ "timeout" \in run.diagnostics -> "timeout"
    [] ~env.blocks_promotion /\ "timeout" \notin run.diagnostics ->
         IF run.exit_code # "0" \/ "error" \in run.diagnostics
         THEN "compilation_failed"
         ELSE IF "sorry" \notin run.diagnostics THEN "fully_proven"
         ELSE IF plan.attempts >= plan.budget THEN "budget_exhausted"
         ELSE "partially_proven"

(* The next item's turn comes only when this one is proven.              *)
ValidateRun ==
  /\ At("validate")
  /\ report' = [status |-> Status, passed |-> Status = "fully_proven",
                retriable |-> Status \in {"timeout", "compilation_failed",
                                          "partially_proven"}]
  /\ IF Project /\ Status = "fully_proven" /\ Len(plan.items) > 1
     THEN Goto("execute") /\ plan' = [plan EXCEPT !.items = Tail(@)]
     ELSE Goto("done") /\ UNCHANGED plan
  /\ UNCHANGED <<task, env, disk, run, verdict, handed, truth>>

------------------------------------------------------------------------------
(* A blueprint is only looked at in a project.                           *)
Tasks ==
  {t \in LeanTaskSpec :
     t.family # "formalization_project" => t.blueprint = [items |-> <<1>>, uses |-> {}]}

Next == IssueTask \/ Probe \/ Compile \/ ExecutePlan \/ ValidateRun

Typed ==
  /\ task \in LeanTaskSpec
  /\ Made(env) => env \in LeanEnvironmentReport
  /\ Made(plan) => plan \in LeanRunPlan
  /\ Made(run) => run \in LeanRunArtifact
  /\ Made(report) => report \in LeanValidationReport

(* The mock's word is enough for who asked for a dry run; any other proof*)
(* has been read by Lean, which found neither an error nor a sorry.      *)
Earned ==
  task.mode = "real_lean" =>
    /\ truth.exit = "0"
    /\ truth.wrote \cap {"sorry", "error"} = {}
    /\ truth.lacks = {}

(* A report blames the environment for what it lacks, the time for a     *)
(* timeout, the compiler for an error, and calls partial just a proof that*)
(* compiles with a sorry.                                                *)
CauseNamed ==
  /\ report.status = "environment_failed" => truth.lacks # {}
  /\ report.status = "timeout" => truth.exit = "timeout"
  /\ report.status = "compilation_failed" =>
       truth.exit = "1" \/ "error" \in truth.wrote
  /\ report.status \in {"partially_proven", "budget_exhausted"} =>
       truth.exit = "0" /\ "sorry" \in truth.wrote
==============================================================================
