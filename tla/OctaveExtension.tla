--------------------------- MODULE OctaveExtension ---------------------------
(***************************************************************************)
(* The Octave extension (metaharness_ext/octave): a script runs under    *)
(* octave-cli in a directory named after the hash of its specification,  *)
(* locally or as a Kubernetes job, and its declared outputs are its      *)
(* evidence.                                                             *)
(***************************************************************************)
EXTENDS ExtensionRun

Prerequisites == {"binary", "package", "workspace"}
(* An output to come is a variable, a file or a figure.                  *)
Outputs == {"variable", "file", "figure"}
SpecFaults == {"family", "binary name", "gui", "function mode"}

OctaveExperimentSpec ==
  [fault : SpecFaults \cup {"none"},
   unsafe : BOOLEAN,                    \* a pattern the scanner refuses
   expects : SUBSET Outputs,
   required : SUBSET Outputs,
   nanAllowed : BOOLEAN,
   stiffness : {"known", "unknown"},    \* script.method_hints
   invariants : BOOLEAN]                \* outputs declare invariants

OctaveEnvironmentReport ==
  [available : BOOLEAN, blocks : BOOLEAN, lacks : SUBSET Prerequisites]
OctaveRunPlan == [expects : SUBSET Outputs, required : SUBSET Outputs]
OctaveWarning == {"blocking", "suspicious", "benign"}
OctaveRunArtifact ==
  [status : {"completed", "failed", "timeout", "unavailable"},
   code : {"none", "0", "1"},
   outputs : SUBSET Outputs, figures : SUBSET Outputs,
   logs : BOOLEAN, parsed : {"none", "good", "nan", "far"},
   warnings : SUBSET OctaveWarning, remote : BOOLEAN]
OctaveValidationStatus ==
  {"executed", "environment_invalid", "runtime_failed", "output_missing",
   "numeric_validation_failed"}
OctaveValidationReport ==
  [passed : BOOLEAN, status : OctaveValidationStatus, issues : SUBSET
     [code : {"octave_run_unavailable", "octave_command_timeout",
              "octave_missing_exit_code", "octave_runtime_failed",
              "octave_blocking_warning", "octave_suspicious_warning",
              "octave_output_missing", "octave_evidence_missing",
              "octave_numeric_nan", "octave_numeric_tolerance_failed",
              "octave_context_invariant_deferred"}, blocks : BOOLEAN],
   governance : {"ready", "defer", "blocked"}, evidence : BOOLEAN]
OctavePolicyReport ==
  [passed : BOOLEAN, decision : {"allow", "defer", "reject"}]

------------------------------------------------------------------------------
(* The gateway.                                                          *)

Issues(spec) ==
  /\ spec.fault = "none"
  /\ spec.expects # {}

Issue_task ==
  /\ At("issue")
  /\ IF Issues(task) THEN Goto("probe") ELSE Raise
  /\ UNCHANGED <<task, env, plan, disk, run, report, verdict, handed, truth>>

(* The probe.  A version it cannot read is a warning; a package list it  *)
(* cannot read names no package, so that an installed one is missing.    *)
Probe ==
  /\ At("probe")
  /\ \E lacks \in SUBSET Prerequisites, unread \in SUBSET {"package"} :
       LET missing == lacks \cup unread
       IN  /\ env' = [available |-> missing = {}, blocks |-> missing # {},
                      lacks |-> missing]
           /\ truth' = [truth EXCEPT !.lacks = lacks]
  /\ Goto("compile")
  /\ UNCHANGED <<task, plan, disk, run, report, verdict, handed>>

(* The compiler gets the report only when the environment is available, so *)
(* that its own two refusals are for callers other than the gateway.     *)
Unsafe(spec) == spec.unsafe
Compile ==
  /\ At("compile")
  /\ IF Unsafe(task)
     THEN Raise /\ UNCHANGED plan
     ELSE /\ plan' = [expects |-> task.expects, required |-> task.required]
          /\ Goto("execute")
  /\ UNCHANGED <<task, env, disk, run, report, verdict, handed, truth>>

------------------------------------------------------------------------------
(* The executor.                                                         *)

Artifact(status, code, outputs, figures, logs, warnings) ==
  [status |-> status, code |-> code, outputs |-> outputs, figures |-> figures,
   logs |-> logs, parsed |-> "none", warnings |-> warnings, remote |-> FALSE]
Unavailable == Artifact("unavailable", "none", {}, {}, FALSE, {"blocking"})

(* What is in the run directory counts, whoever wrote it.                *)
Discovered(files) == plan.expects \cap files

(* The wrapper raises an error when a declared variable is not defined, so *)
(* that a run which ends well has saved it; a figure, or a JSON file where *)
(* there is no encoder, may be missing all the same.                     *)
WrapperWrites(exit) ==
  {wrote \in SUBSET plan.expects :
     exit = "0" => plan.expects \cap {"variable"} \subseteq wrote}

(* The binary found by the probe may be gone when the run starts.        *)
Execute ==
  /\ At("execute")
  /\ \/ /\ ~env.available
        /\ run' = Unavailable
        /\ UNCHANGED <<disk, truth>>
     \/ /\ env.available
        /\ run' = Unavailable
        /\ truth' = [truth EXCEPT !.lacks = {"binary"}]
        /\ UNCHANGED disk
     \/ /\ env.available
        /\ \E exit \in {"0", "1", "timeout"} :
           \E wrote \in WrapperWrites(exit),
              says \in {{}, {"blocking"}, {"suspicious"}, {"benign"}} :
             /\ truth' = [truth EXCEPT !.exit = exit, !.wrote = wrote]
             /\ disk' = disk \cup wrote
             /\ run' = Artifact(
                  CASE exit = "0" -> "completed" [] exit = "1" -> "failed"
                    [] OTHER -> "timeout",
                  IF exit = "timeout" THEN "none" ELSE exit,
                  Discovered(disk') \ {"figure"}, Discovered(disk') \cap {"figure"},
                  TRUE, says)
  /\ Goto("parse")
  /\ UNCHANGED <<task, env, plan, report, verdict, handed>>

(* A Kubernetes job gives no exit code, and only its output files; one    *)
(* that was cancelled counts as failed.  A job that has not ended when its *)
(* result is asked for, that the backend does not know, or whose workspace *)
(* is gone, is unavailable.                                              *)
Collected(exit, logs) ==
  [Artifact(IF exit = "0" THEN "completed" ELSE "failed", "none",
            disk' \cap Outputs, {}, logs, {}) EXCEPT !.remote = TRUE]
NoResult == [Artifact("unavailable", "none", {}, {}, FALSE, {}) EXCEPT !.remote = TRUE]

ExecuteInKubernetes ==
  /\ At("execute")
  /\ env.available
  /\ \E exit \in {"0", "1", "cancelled", "unfinished"}, logs \in BOOLEAN :
     \E wrote \in WrapperWrites(exit) :
       /\ truth' = [truth EXCEPT !.exit = exit, !.wrote = wrote]
       /\ \/ exit # "unfinished" /\ disk' = disk \cup wrote
             /\ run' = Collected(exit, logs)
          \/ disk' \in {{}, disk \cup wrote} /\ run' = NoResult
  /\ Goto("parse")
  /\ UNCHANGED <<task, env, plan, report, verdict, handed>>

(* The executor parses no output; the benchmark driver reads the printed *)
(* values of a completed run, another caller does not.                   *)
ParseOutputs ==
  /\ At("parse")
  /\ \/ UNCHANGED <<run, truth>>
     \/ /\ run.status = "completed" /\ ~run.remote
        /\ "variable" \in run.outputs
        /\ \E value \in {"good", "nan", "far"} :
             /\ run' = [run EXCEPT !.parsed = value]
             /\ truth' = [truth EXCEPT !.content = value]
  /\ Goto("validate")
  /\ UNCHANGED <<task, env, plan, disk, report, verdict, handed>>

------------------------------------------------------------------------------
(* The validator.                                                        *)

(* Each of the early returns, in their order.                            *)
EarlyIssue ==
  CASE run.status = "unavailable" -> "octave_run_unavailable"
    [] run.status = "timeout" -> "octave_command_timeout"
    [] run.status # "timeout" /\ run.status # "unavailable" /\ run.code = "none" ->
         "octave_missing_exit_code"
    [] run.code = "1" -> "octave_runtime_failed"
    [] OTHER -> "none"

Present(output) ==
  IF output = "variable" THEN run.parsed # "none"
  ELSE output \in run.outputs \cup run.figures
MissingEvidence == {o \in plan.expects : ~Present(o)}

(* A value that is not a number passes the tolerance check.              *)
NumericIssues ==
  IF "variable" \notin plan.expects THEN {}
  ELSE IssueIf(run.parsed = "nan" /\ ~task.nanAllowed, "octave_numeric_nan", TRUE)
         \cup IssueIf(run.parsed = "far", "octave_numeric_tolerance_failed", TRUE)

OutputIssues ==
  IssueIf("blocking" \in run.warnings, "octave_blocking_warning", TRUE)
    \cup IssueIf("suspicious" \in run.warnings, "octave_suspicious_warning", FALSE)
    \cup {Issue("octave_output_missing", o \in plan.required) : o \in MissingEvidence}
    \cup NumericIssues

StatusFromIssues(issues) ==
  CASE MissingEvidence # {} -> "output_missing"
    [] MissingEvidence = {} /\ NumericIssues # {} -> "numeric_validation_failed"
    [] MissingEvidence = {} /\ NumericIssues = {} /\ Blocking(issues) ->
         "runtime_failed"
    [] OTHER -> "executed"

FinalizeReport(status, issues) ==
  [passed |-> status = "executed", status |-> status, issues |-> issues,
   governance |-> IF Blocking(issues) THEN "blocked"
                  ELSE IF status = "executed" THEN "ready" ELSE "defer",
   evidence |-> run.logs]

Validate ==
  /\ At("validate")
  /\ report' =
       IF EarlyIssue # "none"
       THEN FinalizeReport(IF EarlyIssue = "octave_run_unavailable"
                           THEN "environment_invalid" ELSE "runtime_failed",
                           {Issue(EarlyIssue, TRUE)})
       ELSE FinalizeReport(StatusFromIssues(OutputIssues), OutputIssues)
  /\ Goto("judge")
  /\ UNCHANGED <<task, env, plan, disk, run, verdict, handed, truth>>

(* The scientific context adds its issues to a report that has its verdict *)
(* already; none of them blocks.                                         *)
PostValidate ==
  /\ At("judge")
  /\ task.invariants
  /\ Issue("octave_context_invariant_deferred", FALSE) \notin report.issues
  /\ report' = [report EXCEPT !.issues =
                  @ \cup {Issue("octave_context_invariant_deferred", FALSE)}]
  /\ UNCHANGED <<stage, task, env, plan, disk, run, verdict, handed, truth>>

------------------------------------------------------------------------------
(* The policy and the governance adapter.                                *)

(* A bundle may be built with the environment report or without it.      *)
Gates(withEnv) ==
  GateIf(withEnv /\ ~env.available, "octave_environment_readiness", "reject")
    \cup GateIf(report.governance = "blocked", "octave_validation_status", "reject")
    \cup GateIf(report.governance = "defer", "octave_validation_status", "defer")
    \cup GateIf(~report.evidence, "octave_evidence_files", "defer")
    \cup GateIf(run.status = "completed" /\ run.outputs = {},
                "octave_output_completeness", "defer")

Judge ==
  /\ At("judge")
  /\ \E withEnv \in BOOLEAN :
       verdict' = [passed |-> Decision(Gates(withEnv)) = "allow",
                   decision |-> Decision(Gates(withEnv))]
  /\ Goto("hand over")
  /\ UNCHANGED <<task, env, plan, disk, run, report, handed, truth>>

CoreValid ==
  /\ report.passed
  /\ report.governance = "ready"
  /\ verdict.passed
  /\ ~Blocking(report.issues)

SessionEvents == CandidateEvents(report.passed, verdict.decision)

HandOver ==
  /\ At("hand over")
  /\ handed' = Handed(CoreValid, CoreValid, SessionEvents)
  /\ Goto("done")
  /\ UNCHANGED <<task, env, plan, disk, run, report, verdict, truth>>

------------------------------------------------------------------------------
Tasks ==
  {s \in OctaveExperimentSpec :
     /\ s.required \subseteq s.expects
     /\ s.fault # "none" => s.expects = {"file"} /\ ~s.unsafe /\ ~s.nanAllowed
     /\ s.unsafe => s.expects = {"file"} /\ ~s.nanAllowed /\ ~s.invariants
     /\ s.stiffness = "known" /\ (s.invariants => s.expects = {"file"})
     /\ "figure" \in s.required => s.required = s.expects}

Next ==
  \/ Issue_task \/ Probe \/ Compile
  \/ Execute \/ ExecuteInKubernetes \/ ParseOutputs
  \/ Validate \/ PostValidate \/ Judge \/ HandOver

Typed ==
  /\ task \in OctaveExperimentSpec
  /\ Made(env) => env \in OctaveEnvironmentReport
  /\ Made(plan) => plan \in OctaveRunPlan
  /\ Made(run) => run \in OctaveRunArtifact
  /\ Made(report) => report \in OctaveValidationReport
  /\ Made(verdict) => verdict \in OctavePolicyReport

(* A run that earns its promotion: octave-cli was there and ended with   *)
(* exit code 0, the declared variables were saved by it and the value it *)
(* printed is one the task accepts; the other declared outputs are in the *)
(* run directory, though a former run may have left them.                *)
Earned ==
  /\ truth.lacks = {}
  /\ truth.exit = "0"
  /\ task.expects \cap {"variable"} \subseteq truth.wrote
  /\ task.expects \subseteq disk
  /\ "variable" \in task.expects =>
       truth.content \in {"good"} \cup (IF task.nanAllowed THEN {"nan"} ELSE {})

(* What the artifact of a run lists was written by that run.             *)
ListsItsOwn == run.outputs \cup run.figures \subseteq truth.wrote

(* The status of a report names what really went wrong, but that it takes *)
(* an unreadable package list for missing packages, and a Kubernetes job *)
(* without a result, however it ends, for a missing environment.         *)
ListUnread == "package" \in env.lacks \ truth.lacks
JobLost == run.remote /\ run.status = "unavailable"
CauseNamed ==
  /\ report.status = "environment_invalid" =>
       truth.lacks # {} \/ ListUnread \/ JobLost
  /\ truth.lacks # {} => report.status = "environment_invalid"
  /\ truth.exit \in {"1", "timeout", "cancelled"} =>
       report.status = "runtime_failed" \/ JobLost
==============================================================================
