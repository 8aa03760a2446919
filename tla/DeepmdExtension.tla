--------------------------- MODULE DeepmdExtension ---------------------------
(***************************************************************************)
(* The DeePMD extension (metaharness_ext/deepmd): a dp command trains,   *)
(* freezes, tests or compresses a model, or a DP-GEN workflow iterates   *)
(* over many, and what the run directory holds afterwards is the evidence. *)
(* Every run has a directory of its own.                                 *)
(***************************************************************************)
EXTENDS ExtensionRun

DPGenWorkflows == {"dpgen_run", "dpgen_simplify"}
MetricModes == {"test", "model_devi", "neighbor_stat"}
Modes == {"train", "freeze", "compress", "dpgen_autotest"} \cup MetricModes
           \cup DPGenWorkflows
DPGen(mode) == mode \in DPGenWorkflows \cup {"dpgen_autotest"}
(* What a run needs; the machine and the workspace are DP-GEN's, and the *)
(* data sets those of the other modes.                                   *)
Needs == {"binary", "python", "paths", "machine"}
(* What the evidence of a run may hold: files, metrics that its output   *)
(* states, and, in a DP-GEN directory, iterations that went through their*)
(* three stages or not, models (which are no text) and the word converged. *)
Evidence(mode) ==
  CASE mode = "train" -> {"checkpoint", "lcurve.out"}
    [] mode = "freeze" -> {"frozen_model.pb"}
    [] mode = "compress" -> {"compressed_model.pb", "model of another name"}
    [] mode \in MetricModes -> {"metrics"}
    [] mode = "dpgen_autotest" -> {"result.json"}
    [] OTHER -> {"record.dpgen", "iteration", "unfinished iteration",
                 "iteration's model", "converged"}
Files == UNION {Evidence(m) : m \in Modes}

DeepMDExperimentSpec ==
  [mode : Modes, scheduled : BOOLEAN,  \* batch or remote machine
   configured : BOOLEAN]               \* with its command and root
DeepMDEnvironmentReport ==
  [missing_prerequisites : SUBSET {"binary", "python", "machine"},
   missing_required_paths : SUBSET {"paths"},
   fallback_reason : {"none", "binary_not_found", "missing_python_runtime",
                      "missing_machine"}]
DeepMDRunPlan == [mode : Modes, sources : SUBSET {"paths"}]
DeepMDRunArtifact ==
  [status : {"completed", "failed", "unavailable"}, code : {"none", "0", "1"},
   reason : {"none", "workspace_prepare_failed", "binary_not_found",
             "command_timeout"}, files : SUBSET Files]
Accepted ==
  {"trained", "frozen", "tested", "compressed", "model_devi_computed",
   "neighbor_stat_computed", "baseline_success", "simplify_success",
   "converged", "autotest_validated"}
DeepMDValidationReport ==
  [passed : BOOLEAN,
   status : Accepted \cup {"environment_invalid", "workspace_failed", "run_failed",
                           "runtime_failed", "validation_failed"},
   issues : SUBSET
     [code : {"deepmd_binary_not_found", "deepmd_workspace_prepare_failed",
              "deepmd_run_failed", "deepmd_runtime_failed",
              "deepmd_missing_evidence"}, blocks : {TRUE}]]
DeepMDPolicyReport == [passed : BOOLEAN, decision : {"allow", "defer", "reject"}]

------------------------------------------------------------------------------
IssueTask ==
  /\ At("issue")
  /\ Goto("probe")
  /\ UNCHANGED <<task, env, plan, disk, run, report, verdict, handed, truth>>

MachineLacks(lacks) ==
  IF DPGen(task.mode) /\ (~task.configured \/ "machine" \in lacks)
  THEN {"machine"} ELSE {}

Probe ==
  /\ At("probe")
  /\ \E lacks \in SUBSET Needs :
       /\ "machine" \in lacks => DPGen(task.mode)
       /\ LET missing == (lacks \cap {"binary", "python"}) \cup MachineLacks(lacks)
          IN  env' = [missing_prerequisites |-> missing,
                      missing_required_paths |-> lacks \cap {"paths"},
                      fallback_reason |->
                        IF "binary" \in missing THEN "binary_not_found"
                        ELSE IF "python" \in missing THEN "missing_python_runtime"
                        ELSE IF "machine" \in missing THEN "missing_machine"
                        ELSE "none"]
       /\ truth' = [truth EXCEPT !.lacks = lacks]
  /\ Goto("compile")
  /\ UNCHANGED <<task, plan, disk, run, report, verdict, handed>>

(* A plan has a run identifier of its own, and with it a new directory;  *)
(* only DP-GEN's has files to be copied into it.                         *)
BuildPlan ==
  /\ At("compile")
  /\ plan' = [mode |-> task.mode,
              sources |-> IF DPGen(task.mode) THEN {"paths"} ELSE {}]
  /\ disk' = {}
  /\ Goto("execute")
  /\ UNCHANGED <<task, env, run, report, verdict, handed, truth>>

------------------------------------------------------------------------------
BuildArtifact(status, code, reason, files) ==
  [status |-> status, code |-> code, reason |-> reason, files |-> files]

PrepareFails == plan.sources \cap truth.lacks # {}

Unprepared ==
  /\ PrepareFails
  /\ run' = BuildArtifact("failed", "none", "workspace_prepare_failed", disk)
  /\ Goto("validate")
  /\ UNCHANGED <<disk, truth>>
NoBinary ==
  /\ ~PrepareFails /\ "binary" \in truth.lacks
  /\ run' = BuildArtifact("unavailable", "none", "binary_not_found", disk)
  /\ Goto("validate")
  /\ UNCHANGED <<disk, truth>>

(* The collector reads each file of an iteration as text, so that it     *)
(* raises over the first model that an iteration has left there.         *)
CollectorRaises(files) ==
  plan.mode \in DPGenWorkflows /\ "iteration's model" \in files

RunCommand ==
  /\ ~PrepareFails /\ "binary" \notin truth.lacks
  /\ \E exit \in {"0", "1", "timeout"}, wrote \in SUBSET Evidence(plan.mode) :
       /\ "iteration's model" \in wrote =>
            wrote \cap {"iteration", "unfinished iteration"} # {}
       /\ disk' = disk \cup wrote
       /\ truth' = [truth EXCEPT !.exit = exit, !.wrote = wrote]
       /\ IF CollectorRaises(wrote) THEN Raise /\ UNCHANGED run
          ELSE /\ run' = BuildArtifact(
                    IF exit = "0" THEN "completed" ELSE "failed",
                    IF exit = "timeout" THEN "none" ELSE exit,
                    IF exit = "timeout" THEN "command_timeout" ELSE "none", disk')
               /\ Goto("validate")

Execute ==
  /\ At("execute")
  /\ Unprepared \/ NoBinary \/ RunCommand
  /\ UNCHANGED <<task, env, plan, report, verdict, handed>>

------------------------------------------------------------------------------
(* What each mode accepts as evidence.  A compressed model counts under  *)
(* its usual name only.                                                  *)
IterationEvidence ==
  /\ {"record.dpgen", "iteration"} \subseteq run.files
  /\ "unfinished iteration" \notin run.files
Sufficient ==
  CASE plan.mode = "compress" -> "compressed_model.pb" \in run.files
    [] plan.mode \in DPGenWorkflows -> IterationEvidence
    [] OTHER -> run.files # {}
SuccessStatus ==
  CASE plan.mode = "train" -> "trained"
    [] plan.mode = "freeze" -> "frozen"
    [] plan.mode = "test" -> "tested"
    [] plan.mode = "compress" -> "compressed"
    [] plan.mode = "model_devi" -> "model_devi_computed"
    [] plan.mode = "neighbor_stat" -> "neighbor_stat_computed"
    [] plan.mode = "dpgen_run" -> "baseline_success"
    [] plan.mode = "dpgen_simplify" ->
         IF "converged" \in run.files THEN "converged" ELSE "simplify_success"
    [] plan.mode = "dpgen_autotest" -> "autotest_validated"

Verdict ==
  IF run.status = "unavailable"
  THEN <<"environment_invalid", {Issue("deepmd_binary_not_found", TRUE)}>>
  ELSE IF run.reason = "workspace_prepare_failed"
  THEN <<"workspace_failed", {Issue("deepmd_workspace_prepare_failed", TRUE)}>>
  ELSE IF run.status = "failed"
  THEN IF plan.mode \in DPGenWorkflows
       THEN <<"run_failed", {Issue("deepmd_run_failed", TRUE)}>>
       ELSE <<"runtime_failed", {Issue("deepmd_runtime_failed", TRUE)}>>
  ELSE IF Sufficient THEN <<SuccessStatus, {}>>
  ELSE <<"validation_failed", {Issue("deepmd_missing_evidence", TRUE)}>>

ValidateRun ==
  /\ At("validate")
  /\ report' = [passed |-> Verdict[1] \in Accepted, status |-> Verdict[1],
                issues |-> Verdict[2]]
  /\ Goto("judge")
  /\ UNCHANGED <<task, env, plan, disk, run, verdict, handed, truth>>

Gates ==
  GateIf(env.missing_prerequisites \cup env.missing_required_paths # {},
         "environment_prerequisites", "defer")
    \cup GateIf(report.status \notin Accepted, "run_status", "reject")
    \cup GateIf(plan.mode \in DPGenWorkflows
                  /\ run.files \cap {"iteration", "unfinished iteration"} = {},
                "dpgen_iteration_evidence", "defer")
    \cup GateIf(plan.mode = "dpgen_autotest" /\ "result.json" \notin run.files,
                "autotest_property_evidence", "defer")

Judge ==
  /\ At("judge")
  /\ verdict' = [passed |-> Decision(Gates) = "allow", decision |-> Decision(Gates)]
  /\ Goto("hand over")
  /\ UNCHANGED <<task, env, plan, disk, run, report, handed, truth>>

CoreValid ==
  /\ report.passed /\ ~Blocking(report.issues)
  /\ verdict.passed /\ verdict.decision = "allow"

(* No event tells of a rejection.                                        *)
SessionEvents ==
  <<[type |-> "candidate_validated", valid |-> report.passed],
    [type |-> "safety_gate_evaluated", valid |-> verdict.decision = "allow"]>>

HandOver ==
  /\ At("hand over")
  /\ handed' = Handed(CoreValid, CoreValid, SessionEvents)
  /\ Goto("done")
  /\ UNCHANGED <<task, env, plan, disk, run, report, verdict, truth>>

------------------------------------------------------------------------------
Tasks ==
  {s \in DeepMDExperimentSpec :
     /\ s.scheduled => DPGen(s.mode)
     /\ ~s.scheduled => s.configured}

Next ==
  \/ IssueTask \/ Probe \/ BuildPlan \/ Execute \/ ValidateRun \/ Judge \/ HandOver

Typed ==
  /\ task \in DeepMDExperimentSpec
  /\ Made(env) => env \in DeepMDEnvironmentReport
  /\ Made(plan) => plan \in DeepMDRunPlan
  /\ Made(run) => run \in DeepMDRunArtifact
  /\ Made(report) => report \in DeepMDValidationReport
  /\ Made(verdict) => verdict \in DeepMDPolicyReport

(* Everything the environment asks for was there, the command ended with *)
(* exit code 0, and it wrote what its mode is for.                       *)
Earned ==
  /\ truth.lacks = {} /\ MachineLacks(truth.lacks) = {}
  /\ truth.exit = "0"
  /\ truth.wrote # {}
  /\ task.mode = "compress" => "compressed_model.pb" \in truth.wrote
  /\ task.mode \in DPGenWorkflows => "unfinished iteration" \notin truth.wrote

(* A report blames the environment for the binary and the workspace for  *)
(* the paths, and a command that failed or timed out is never reported as*)
(* anything but that.                                                    *)
CauseNamed ==
  /\ report.status = "environment_invalid" => "binary" \in truth.lacks
  /\ report.status = "workspace_failed" => "paths" \in truth.lacks
  /\ truth.exit \in {"1", "timeout"} =>
       report.status \in {"run_failed", "runtime_failed"}
==============================================================================
