---------------------------- MODULE MooseExtension ---------------------------
(***************************************************************************)
(* The MOOSE extension (metaharness_ext/moose): an input deck is written *)
(* and the solver called on it; the outputs the task expects are looked  *)
(* for in the run directory.  The gateway's baseline runs without a report *)
(* on the environment.  There is a policy, but no governance adapter.    *)
(***************************************************************************)
EXTENDS ExtensionRun

Needs == {"binary", "executable bit", "probe directory", "run directory", "input file"}
Outputs == {"required output", "optional output"}
(* What the solver says: nothing of note, a line "error:", or a residual *)
(* that is no number to Python.                                          *)
Talk == {"quiet", "error line", "odd residual"}

MooseProblemSpec ==
  [supervised : BOOLEAN,                  \* an environment report is asked for
   by_path : BOOLEAN, mode : {"inline", "file"}, expected_outputs : SUBSET Outputs]
MooseEnvironmentReport ==
  [available : BOOLEAN, missing_prerequisites : SUBSET {"binary", "workspace"}]
MooseRunPlan == [by_path : BOOLEAN, expected_outputs : SUBSET Outputs]
MooseRunArtifact ==
  [status : {"completed", "failed", "timeout", "unavailable"},
   return_code : {"none", "0", "1"}, output_files : SUBSET Outputs,
   blocking_warning : BOOLEAN]
MooseValidationReport ==
  [passed : BOOLEAN,
   status : {"environment_invalid", "runtime_failed", "output_missing", "executed"},
   issues : SUBSET ([code : {"moose_run_unavailable", "moose_timeout",
                             "moose_runtime_failed", "moose_blocking_warning",
                             "moose_output_missing"},
                     blocks : {TRUE}]
                      \cup {Issue("moose_output_missing", FALSE)})]
MoosePolicyReport == [passed : BOOLEAN, decision : {"allow", "reject"}]

------------------------------------------------------------------------------
IssueTask ==
  /\ At("issue")
  /\ Goto("probe")
  /\ UNCHANGED <<task, env, plan, disk, run, report, verdict, handed, truth>>

(* The probe writes to a directory of its own, not to the run's.         *)
MissingPrerequisites(lacks) ==
  (IF {"binary", "executable bit"} \cap lacks # {} THEN {"binary"} ELSE {})
    \cup IF "probe directory" \in lacks THEN {"workspace"} ELSE {}

Probe ==
  /\ At("probe")
  /\ \E lacks \in SUBSET Needs :
       /\ env' = IF ~task.supervised THEN Nothing
                 ELSE [available |-> MissingPrerequisites(lacks) = {},
                       missing_prerequisites |-> MissingPrerequisites(lacks)]
       /\ truth' = [truth EXCEPT !.lacks = lacks]
  /\ Goto("compile")
  /\ UNCHANGED <<task, plan, disk, run, report, verdict, handed>>

(* A report that says unavailable is an error of the compiler, and so is *)
(* an input file that cannot be read.                                    *)
Unavailable == Made(env) /\ ~env.available
Compile ==
  /\ At("compile")
  /\ IF Unavailable \/ (task.mode = "file" /\ "input file" \in truth.lacks)
     THEN Raise /\ UNCHANGED plan
     ELSE /\ plan' = [by_path |-> task.by_path,
                      expected_outputs |-> task.expected_outputs]
          /\ Goto("execute")
  /\ UNCHANGED <<task, env, disk, run, report, verdict, handed, truth>>

------------------------------------------------------------------------------
Artifact(status, code, outputs, warned) ==
  [status |-> status, return_code |-> code, output_files |-> outputs,
   blocking_warning |-> warned]

(* A file at the given path is enough, though it may not be executable;  *)
(* then the call of it raises.                                           *)
Resolved ==
  /\ "binary" \notin truth.lacks
  /\ plan.by_path \/ "executable bit" \notin truth.lacks

DiscoverOutputs(files) == plan.expected_outputs \cap files

(* The warnings are those of stderr, to which a timeout adds a line of its *)
(* own; the metrics are read first, and an odd residual ends the run after *)
(* the solver has done its work.                                         *)
RunCommand ==
  \E exit \in {"0", "1", "timeout"}, wrote \in SUBSET Outputs, says \in Talk :
    /\ truth' = [truth EXCEPT !.exit = exit, !.wrote = wrote, !.content = says]
    /\ disk' = disk \cup wrote
    /\ IF says = "odd residual" THEN Raise /\ UNCHANGED run
       ELSE /\ run' = CASE exit = "timeout" ->
                             Artifact("timeout", "none", DiscoverOutputs(disk'),
                                      says = "error line")
                        [] exit # "timeout" ->
                             Artifact(IF exit = "0" THEN "completed" ELSE "failed",
                                      exit, DiscoverOutputs(disk'), says = "error line")
            /\ Goto("validate")

ExecutePlan ==
  /\ At("execute")
  /\ IF "run directory" \in truth.lacks
     THEN Raise /\ UNCHANGED <<disk, run, truth>>
     ELSE IF ~Resolved
     THEN /\ run' = Artifact("unavailable", "none", {}, TRUE)
          /\ Goto("validate")
          /\ UNCHANGED <<disk, truth>>
     ELSE IF "executable bit" \in truth.lacks
     THEN Raise /\ UNCHANGED <<disk, run, truth>>
     ELSE RunCommand
  /\ UNCHANGED <<task, env, plan, report, verdict, handed>>

------------------------------------------------------------------------------
(* A wrong form of MissingOutputs: one output is as good as all.         *)
MissingOutputs_AnyWillDo ==
  IF run.output_files # {} THEN {} ELSE plan.expected_outputs

MissingOutputs == plan.expected_outputs \ run.output_files
EvidenceIssues ==
  IssueIf(run.blocking_warning, "moose_blocking_warning", TRUE)
    \cup {Issue("moose_output_missing", o = "required output") : o \in MissingOutputs}

(* A blocking warning has the status of a missing output, if the task    *)
(* expects one at all.                                                   *)
StatusAndIssues ==
  CASE run.status = "unavailable" ->
         <<"environment_invalid", {Issue("moose_run_unavailable", TRUE)}>>
    [] run.status = "timeout" -> <<"runtime_failed", {Issue("moose_timeout", TRUE)}>>
    [] run.status = "failed" ->
         <<"runtime_failed", {Issue("moose_runtime_failed", TRUE)}>>
    [] run.status = "completed" ->
         <<IF plan.expected_outputs # {} /\ Blocking(EvidenceIssues)
           THEN "output_missing" ELSE "executed", EvidenceIssues>>

ValidateRun ==
  /\ At("validate")
  /\ report' = [passed |-> StatusAndIssues[1] = "executed"
                             /\ ~Blocking(StatusAndIssues[2]),
                status |-> StatusAndIssues[1], issues |-> StatusAndIssues[2]]
  /\ Goto("judge")
  /\ UNCHANGED <<task, env, plan, disk, run, verdict, handed, truth>>

Judge ==
  /\ At("judge")
  /\ LET allowed == ~Unavailable /\ report.passed /\ ~Blocking(report.issues)
     IN  verdict' = [passed |-> allowed,
                     decision |-> IF allowed THEN "allow" ELSE "reject"]
  /\ Goto("done")
  /\ UNCHANGED <<task, env, plan, disk, run, report, handed, truth>>

------------------------------------------------------------------------------
Tasks == MooseProblemSpec

Next ==
  IssueTask \/ Probe \/ Compile \/ ExecutePlan \/ ValidateRun \/ Judge

Typed ==
  /\ task \in MooseProblemSpec
  /\ Made(env) => env \in MooseEnvironmentReport
  /\ Made(plan) => plan \in MooseRunPlan
  /\ Made(run) => run \in MooseRunArtifact
  /\ Made(report) => report \in MooseValidationReport
  /\ Made(verdict) => verdict \in MoosePolicyReport

(* The solver ended with exit code 0 and without an error line, and the  *)
(* output that is required lies in the directory, though a former run may *)
(* have left it.                                                         *)
Earned ==
  /\ truth.exit = "0" /\ truth.content = "quiet"
  /\ {"binary", "executable bit"} \cap truth.lacks = {}
  /\ "required output" \in task.expected_outputs => "required output" \in disk

(* A report blames the environment only for the binary, the run exactly  *)
(* when the solver failed or timed out, and the outputs for an error line*)
(* or a file that is missing.                                            *)
CauseNamed ==
  /\ report.status = "environment_invalid" =>
       {"binary", "executable bit"} \cap truth.lacks # {}
  /\ truth.exit \in {"1", "timeout"} <=> report.status = "runtime_failed"
  /\ report.status = "output_missing" =>
       truth.content = "error line" \/ "required output" \notin disk
==============================================================================
