---------------------------- MODULE JediExtension ----------------------------
(***************************************************************************)
(* The JEDI extension (metaharness_ext/jedi): a data-assimilation binary *)
(* runs on a rendered YAML configuration, to print its schema, to validate *)
(* only or for real, and a real run is judged by its primary output, its *)
(* diagnostics and its references.                                       *)
(***************************************************************************)
EXTENDS ExtensionRun

Families == {"variational", "local_ensemble_da", "hofx", "forecast"}
Modes == {"schema", "validate_only", "real_run"}
(* What a run needs: programs, the workspace's test input, and files.    *)
Needs == {"binary", "launcher", "libraries", "testinput", "background", "reference"}
Departures == {"good departures", "bad departures"}
Files == {"schema.json", "output", "reference file"} \cup Departures

JediExperimentSpec ==
  [family : Families, mode : Modes, check : {"runtime_only", "rms_improves"},
   ownDirectory : BOOLEAN,     \* working_directory is given
   launched : BOOLEAN,         \* launcher is not "direct"
   claims : BOOLEAN]           \* the credentials the manifest asks for
JediEnvironmentReport == [smokeReady : BOOLEAN, lacks : SUBSET Needs]
JediRunPlan ==
  [mode : Modes, outputs : SUBSET Files, diagnostics : SUBSET Files,
   references : SUBSET Files, paths : SUBSET Needs]
JediRunArtifact ==
  [status : {"completed", "failed", "unavailable"}, code : {"none", "0", "1"},
   reason : {"none", "missing_required_runtime_path", "binary_not_found",
             "launcher_not_found", "command_timeout"},
   schema : BOOLEAN, outputs : SUBSET Files, diagnostics : SUBSET Files,
   references : SUBSET Files]
JediValidationReport ==
  [passed : BOOLEAN,
   status : {"environment_invalid", "runtime_failed", "validation_failed",
             "validated", "executed"},
   decision : {"allow", "defer", "reject"}]
JediPolicyReport == [passed : BOOLEAN, decision : {"allow", "defer", "reject"}]

------------------------------------------------------------------------------
(* The paths that the probe looks at and those that the plan requires: a *)
(* variational task's references are only in the second list.            *)
RequiredPaths(family) ==
  IF family = "local_ensemble_da" THEN {"background", "reference"}
  ELSE {"background"}
RequiredRuntimePaths(family) ==
  IF family \in {"variational", "local_ensemble_da"}
  THEN {"background", "reference"} ELSE {"background"}

(* The ingress policy of the manifest comes before the task.             *)
IssueTask ==
  /\ At("issue")
  /\ IF task.claims THEN Goto("probe") ELSE Raise
  /\ UNCHANGED <<task, env, plan, disk, run, report, verdict, handed, truth>>

Probe ==
  /\ At("probe")
  /\ \E lacks \in SUBSET Needs :
       LET seen == lacks \ ((IF task.launched THEN {} ELSE {"launcher"})
                     \cup ({"background", "reference"} \ RequiredPaths(task.family)))
       IN  /\ env' = [smokeReady |-> seen = {}, lacks |-> seen]
           /\ truth' = [truth EXCEPT !.lacks = lacks]
  /\ Goto("compile")
  /\ UNCHANGED <<task, plan, disk, run, report, verdict, handed>>

ExpectedOutputs(spec) ==
  IF spec.mode = "schema" THEN {"schema.json"}
  ELSE IF spec.mode = "real_run" THEN {"output"} ELSE {}
ExpectedDiagnostics(spec) ==
  IF spec.mode = "real_run" /\ spec.family \in {"variational", "local_ensemble_da"}
  THEN Departures ELSE {}
ExpectedReferences(spec) ==
  IF spec.mode = "real_run" THEN {"reference file"} ELSE {}

(* Without a directory of its own a run gets a new one.                  *)
BuildPlan ==
  /\ At("compile")
  /\ plan' = [mode |-> task.mode, outputs |-> ExpectedOutputs(task),
              diagnostics |-> ExpectedDiagnostics(task),
              references |-> ExpectedReferences(task),
              paths |-> RequiredRuntimePaths(task.family)]
  /\ disk' = IF task.ownDirectory THEN disk ELSE {}
  /\ Goto("execute")
  /\ UNCHANGED <<task, env, run, report, verdict, handed, truth>>

------------------------------------------------------------------------------
BuildArtifact(status, code, reason, files) ==
  [status |-> status, code |-> code, reason |-> reason,
   schema |-> "schema.json" \in files,
   outputs |-> plan.outputs \cap files,
   diagnostics |-> plan.diagnostics \cap files,
   references |-> plan.references \cap files]

(* What the executor finds missing, in its order; it does not ask the    *)
(* environment report, of which it only keeps the evidence.              *)
Fallback ==
  CASE plan.paths \cap truth.lacks # {} -> "missing_required_runtime_path"
    [] plan.paths \cap truth.lacks = {} /\ "binary" \in truth.lacks ->
         "binary_not_found"
    [] plan.paths \cap truth.lacks = {} /\ "binary" \notin truth.lacks
         /\ task.launched /\ "launcher" \in truth.lacks -> "launcher_not_found"
    [] OTHER -> "none"

Expected == plan.outputs \cup plan.diagnostics \cup plan.references
(* The files after a run that wrote some, of which one departures file.  *)
Written(wrote) ==
  IF wrote \cap Departures # {} THEN (disk \ Departures) \cup wrote
  ELSE disk \cup wrote

Execute ==
  /\ At("execute")
  /\ \/ /\ Fallback # "none"
        /\ run' = BuildArtifact("unavailable", "none", Fallback, disk)
        /\ UNCHANGED <<disk, truth>>
     \/ /\ Fallback = "none"
        /\ \E exit \in {"0", "1", "timeout"}, wrote \in SUBSET Expected :
             /\ ~(Departures \subseteq wrote)
             /\ "libraries" \in truth.lacks => exit = "1" /\ wrote = {}
             /\ disk' = Written(wrote)
             /\ truth' = [truth EXCEPT !.exit = exit, !.wrote = wrote]
             /\ run' = BuildArtifact(
                  IF exit = "0" THEN "completed" ELSE "failed",
                  IF exit = "timeout" THEN "none" ELSE exit,
                  IF exit = "timeout" THEN "command_timeout" ELSE "none", disk')
  /\ Goto("validate")
  /\ UNCHANGED <<task, env, plan, report, verdict, handed>>

------------------------------------------------------------------------------
PolicyDecisionForStatus(status) ==
  CASE status \in {"validated", "executed"} -> "allow"
    [] status = "environment_invalid" -> "reject"
    [] OTHER -> "defer"

RmsImproves == "good departures" \in run.diagnostics

ReportStatus ==
  IF run.status = "unavailable" THEN "environment_invalid"
  ELSE IF run.reason = "command_timeout" \/ run.code # "0" THEN "runtime_failed"
  ELSE CASE plan.mode = "schema" ->
              IF run.schema THEN "validated" ELSE "validation_failed"
         [] plan.mode = "validate_only" -> "validated"
         [] plan.mode = "real_run" ->
              IF run.outputs = {}
                 \/ (run.diagnostics = {} /\ run.references = {})
                 \/ (task.check = "rms_improves" /\ ~RmsImproves)
              THEN "validation_failed" ELSE "executed"

(* A summary names at least the log of the run as a file that was scanned, *)
(* so that its own check, for any structured signal, is always met.      *)
FilesScanned == run.diagnostics \cup {"stdout.log"}
HasStructuredSignal == FilesScanned # {}

ValidateRun ==
  /\ At("validate")
  /\ LET status == IF ReportStatus = "executed" /\ ~HasStructuredSignal
                   THEN "validation_failed" ELSE ReportStatus
     IN  report' = [passed |-> status \in {"validated", "executed"},
                    status |-> status,
                    decision |-> PolicyDecisionForStatus(status)]
  /\ Goto("judge")
  /\ UNCHANGED <<task, env, plan, disk, run, verdict, handed, truth>>

(* The policy returns at the first of the status gates, and otherwise    *)
(* collects what the evidence of a real run lacks.                       *)
Gates ==
  CASE report.status = "environment_invalid" ->
         {Gate("environment_readiness", "reject")}
    [] report.status \in {"runtime_failed", "validation_failed"} ->
         {Gate("run_status", "defer")}
    [] OTHER ->
         GateIf(plan.mode = "real_run" /\ run.outputs = {},
                "primary_output_evidence", "defer")
           \cup GateIf(plan.mode = "real_run" /\ run.diagnostics = {}
                         /\ run.references = {},
                       "diagnostic_or_reference_evidence", "defer")
           \cup GateIf(plan.mode = "real_run" /\ ~HasStructuredSignal,
                       "diagnostics_structured_signal", "defer")

Judge ==
  /\ At("judge")
  /\ verdict' = [passed |-> Decision(Gates) = "allow", decision |-> Decision(Gates)]
  /\ Goto("hand over")
  /\ UNCHANGED <<task, env, plan, disk, run, report, handed, truth>>

CoreValid == report.passed /\ verdict.decision = "allow"

(* The validator has made its events already, a rejection included, and  *)
(* the adapter adds the gate's after them.                               *)
SessionEvents ==
  <<[type |-> "candidate_validated", valid |-> report.decision = "allow"]>>
    \o (IF report.decision = "reject"
        THEN <<[type |-> "candidate_rejected", valid |-> FALSE]>> ELSE <<>>)
    \o <<[type |-> "safety_gate_evaluated", valid |-> verdict.decision = "allow"]>>

HandOver ==
  /\ At("hand over")
  /\ handed' = Handed(CoreValid, CoreValid, SessionEvents)
  /\ Goto("done")
  /\ UNCHANGED <<task, env, plan, disk, run, report, verdict, truth>>

------------------------------------------------------------------------------
Tasks ==
  {s \in JediExperimentSpec :
     /\ s.check = "rms_improves" => s.family = "variational" /\ s.mode = "real_run"
     /\ s.launched => s.family = "hofx"
     /\ s.ownDirectory \/ s.family = "variational"
     /\ ~s.claims => s.family = "forecast" /\ s.mode = "schema"}

Next ==
  \/ IssueTask \/ Probe \/ BuildPlan \/ Execute \/ ValidateRun \/ Judge \/ HandOver

Typed ==
  /\ task \in JediExperimentSpec
  /\ Made(env) => env \in JediEnvironmentReport
  /\ Made(plan) => plan \in JediRunPlan
  /\ Made(run) => run \in JediRunArtifact
  /\ Made(report) => report \in JediValidationReport
  /\ Made(verdict) => verdict \in JediPolicyReport

(* The binary and the files the plan requires were there, the command    *)
(* ended with exit code 0, and it has written what its mode is to leave; *)
(* but in a directory the task names itself a former run may have.       *)
Left == IF task.ownDirectory THEN disk ELSE truth.wrote
Earned ==
  /\ plan.paths \cap truth.lacks = {} /\ "binary" \notin truth.lacks
  /\ truth.exit = "0"
  /\ plan.outputs \subseteq Left
  /\ task.check = "rms_improves" => "good departures" \in Left

(* A report blames the environment exactly when nothing was run, and a   *)
(* command that failed or timed out is reported as that.                 *)
CauseNamed ==
  /\ report.status = "environment_invalid" <=> truth.exit = "not run"
  /\ truth.exit \in {"1", "timeout"} => report.status = "runtime_failed"
==============================================================================
