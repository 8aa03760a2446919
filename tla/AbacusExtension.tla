--------------------------- MODULE AbacusExtension ---------------------------
(***************************************************************************)
(* The ABACUS extension (metaharness_ext/abacus): one binary calculates in *)
(* the four families scf, nscf, relax and md, and each family has its own*)
(* evidence in the output directory.  There is neither a policy nor a    *)
(* governance adapter, and a task's run directory is always the same.    *)
(***************************************************************************)
EXTENDS ExtensionRun

AbacusApplicationFamily == {"scf", "nscf", "relax", "md"}
(* DeePMD support is asked for by an md task with the dp solver.         *)
Needs == {"binary", "launcher", "paths", "deeppmd_support"}
Outputs == {"OUT", "running log", "final structure", "md dump"}
Files == Outputs \cup {"STRU"}   \* the structure the executor itself writes

AbacusExperimentSpec ==
  [family : AbacusApplicationFamily, esolver_type : {"ksdft", "dp"},
   launched : BOOLEAN, paths : BOOLEAN]     \* it names files that must exist
AbacusEnvironmentReport ==
  [abacus_available : BOOLEAN, launcher_available : BOOLEAN,
   required_paths_present : BOOLEAN, missing_prerequisites : SUBSET {"deeppmd_support"}]
AbacusRunPlan ==
  [family : AbacusApplicationFamily, launched : BOOLEAN, expected_logs : SUBSET Files]
AbacusRunArtifact ==
  [status : {"completed", "failed", "unavailable"}, code : {"none", "0", "1"},
   fallback_reason : {"none", "binary_not_found", "launcher_not_found",
                      "command_timeout"},
   output_files : SUBSET Files, diagnostic_files : SUBSET Files,
   structure_files : SUBSET Files]
AbacusValidationReport ==
  [passed : BOOLEAN,
   status : {"environment_invalid", "runtime_failed", "validation_failed", "executed"},
   issues : SUBSET [code : {"abacus_binary_not_found", "abacus_launcher_not_found",
                            "abacus_command_timeout", "abacus_runtime_failed",
                            "abacus_missing_evidence"},
                    blocks : {TRUE}],
   governance_state : {"defer", "blocked"}]

------------------------------------------------------------------------------
(* The checks of the specification's own validator.                      *)
Accepted(spec) ==
  /\ spec.esolver_type = "dp" => spec.family = "md" /\ spec.paths
  /\ spec.family = "nscf" => spec.paths

IssueTask ==
  /\ At("issue")
  /\ Goto("probe")
  /\ UNCHANGED <<task, env, plan, disk, run, report, verdict, handed, truth>>

RequiredPathGroups(spec) == IF spec.paths THEN {"paths"} ELSE {}
EnvironmentPrerequisites(spec) ==
  IF spec.family = "md" /\ spec.esolver_type = "dp" THEN {"deeppmd_support"} ELSE {}

(* The probe asks the binary for its support, so that one which is missing *)
(* supports nothing.                                                     *)
Probe ==
  /\ At("probe")
  /\ \E lacks \in SUBSET Needs :
       /\ "binary" \in lacks => "deeppmd_support" \in lacks
       /\ env' = [abacus_available |-> "binary" \notin lacks,
                  launcher_available |-> ~(task.launched /\ "launcher" \in lacks),
                  required_paths_present |->
                    RequiredPathGroups(task) \cap lacks = {},
                  missing_prerequisites |-> EnvironmentPrerequisites(task) \cap lacks]
       /\ truth' = [truth EXCEPT !.lacks = lacks]
  /\ Goto("compile")
  /\ UNCHANGED <<task, plan, disk, run, report, verdict, handed>>

(* Only the names of the environment's evidence go into the plan.        *)
Compile ==
  /\ At("compile")
  /\ plan' = [family |-> task.family, launched |-> task.launched,
              expected_logs |-> {"running log"}]
  /\ Goto("execute")
  /\ UNCHANGED <<task, env, disk, run, report, verdict, handed, truth>>

------------------------------------------------------------------------------
BuildArtifact(status, code, reason, outputs, diagnostics, structures) ==
  [status |-> status, code |-> code, fallback_reason |-> reason,
   output_files |-> outputs, diagnostic_files |-> diagnostics,
   structure_files |-> structures]
NoEvidence(status, reason) == BuildArtifact(status, "none", reason, {}, {}, {})

FallbackReason ==
  IF "binary" \in truth.lacks THEN "binary_not_found"
  ELSE IF plan.launched /\ "launcher" \in truth.lacks THEN "launcher_not_found"
  ELSE "none"

WriteInputs == disk \cup {"STRU"}

(* Files in the output directory are there if the directory is; the      *)
(* structures are those of the whole run directory, the input's among them.*)
DiscoverOutputs(files) == IF "OUT" \in files THEN files \ {"STRU"} ELSE {}
DiscoverDiagnostics(files) == plan.expected_logs \cap files
DiscoverStructureFiles(files) == files \cap {"STRU", "final structure"}

RunCommand ==
  /\ FallbackReason = "none"
  /\ \E exit \in {"0", "1", "timeout"}, wrote \in SUBSET Outputs :
       /\ wrote # {} => "OUT" \in wrote
       /\ disk' = WriteInputs \cup wrote
       /\ truth' = [truth EXCEPT !.exit = exit, !.wrote = wrote]
       /\ run' = IF exit = "timeout" THEN NoEvidence("failed", "command_timeout")
                 ELSE BuildArtifact(IF exit = "0" THEN "completed" ELSE "failed",
                        exit, "none", DiscoverOutputs(disk'),
                        DiscoverDiagnostics(disk'), DiscoverStructureFiles(disk'))

ExecutePlan ==
  /\ At("execute")
  /\ \/ /\ FallbackReason # "none"
        /\ run' = NoEvidence("unavailable", FallbackReason)
        /\ disk' = WriteInputs
        /\ UNCHANGED truth
     \/ RunCommand
  /\ Goto("validate")
  /\ UNCHANGED <<task, env, plan, report, verdict, handed>>

------------------------------------------------------------------------------
(* What each family must have left.                                      *)
FamilyEvidence ==
  /\ "OUT" \in run.output_files
  /\ plan.family \in {"scf", "nscf"} => "running log" \in run.diagnostic_files
  /\ plan.family = "relax" =>
       (run.output_files \cup run.structure_files) \cap {"STRU", "final structure"} # {}
  /\ plan.family = "md" => "md dump" \in run.output_files

UnavailableCode ==
  IF run.fallback_reason = "binary_not_found"
  THEN "abacus_binary_not_found" ELSE "abacus_launcher_not_found"

StatusAndIssues ==
  CASE run.status = "unavailable" ->
         <<"environment_invalid", {Issue(UnavailableCode, TRUE)}>>
    [] run.fallback_reason = "command_timeout" ->
         <<"runtime_failed", {Issue("abacus_command_timeout", TRUE)}>>
    [] run.code = "1" -> <<"runtime_failed", {Issue("abacus_runtime_failed", TRUE)}>>
    [] run.code = "0" ->
         IF FamilyEvidence THEN <<"executed", {}>>
         ELSE <<"validation_failed", {Issue("abacus_missing_evidence", TRUE)}>>

ValidateRun ==
  /\ At("validate")
  /\ LET passed == StatusAndIssues[1] = "executed"
     IN  report' = [passed |-> passed, status |-> StatusAndIssues[1],
                    issues |-> StatusAndIssues[2],
                    governance_state |-> IF passed THEN "defer" ELSE "blocked"]
  /\ Goto("done")
  /\ UNCHANGED <<task, env, plan, disk, run, verdict, handed, truth>>

------------------------------------------------------------------------------
Tasks == {s \in AbacusExperimentSpec : Accepted(s)}

Next == IssueTask \/ Probe \/ Compile \/ ExecutePlan \/ ValidateRun

Typed ==
  /\ task \in AbacusExperimentSpec
  /\ Made(env) => env \in AbacusEnvironmentReport
  /\ Made(plan) => plan \in AbacusRunPlan
  /\ Made(run) => run \in AbacusRunArtifact
  /\ Made(report) => report \in AbacusValidationReport

(* The binary ran and ended with exit code 0, and what its family is for *)
(* lies in the directory, though a former run may have left it.  A relaxed *)
(* structure need not: the one given as input counts as one.             *)
Earned ==
  /\ truth.exit = "0" /\ "binary" \notin truth.lacks
  /\ task.launched => "launcher" \notin truth.lacks
  /\ "OUT" \in disk
  /\ task.family \in {"scf", "nscf"} => "running log" \in disk
  /\ task.family = "md" => "md dump" \in disk

(* A relaxation has left the structure it was run for.                   *)
RelaxedIsThere == task.family = "relax" => "final structure" \in disk

(* A report blames the environment only for a binary or launcher that is *)
(* missing, the run exactly when the program failed or timed out, and the*)
(* outputs only when one is not there.                                   *)
CauseNamed ==
  /\ report.status = "environment_invalid" =>
       {"binary", "launcher"} \cap truth.lacks # {}
  /\ truth.exit \in {"1", "timeout"} <=> report.status = "runtime_failed"
  /\ report.status = "validation_failed" => Outputs \ disk # {}
==============================================================================
