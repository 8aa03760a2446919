--------------------------- MODULE BoutppExtension ---------------------------
(***************************************************************************)
(* The BOUT++ extension (metaharness_ext/boutpp): a compiled model runs  *)
(* under MPI in a data directory, into which the files of a source case  *)
(* are copied first, and its settings, logs, dumps and restarts are looked *)
(* for by their names.                                                   *)
(***************************************************************************)
EXTENDS ExtensionRun

Needs == {"root", "launcher", "named launcher", "executable", "reader"}
(* Settings and logs are always asked for, dumps and restarts perhaps.   *)
Outputs == {"logs", "dumps"}
(* What a dump holds: the variables and sizes asked for, or others; a dump *)
(* that cannot be read tells nothing.                                    *)
Contents == {"none", "good", "variable missing", "other size", "unreadable"}

BoutPPProblemSpec ==
  [launcher_mode : {"mpi", "direct"},
   executable : {"path", "source case", "build tree"},   \* where it lies
   source : SUBSET {"dumps"},     \* old outputs in the source case's data
   sameDirectory : BOOLEAN,       \* the plan's workspace is the executor's
   required : {{"logs"}, {"logs", "dumps"}},
   asks : {"none", "variables", "threshold"}]  \* the validation section
BoutPPEnvironmentReport ==
  [available : BOOLEAN, blocks_promotion : BOOLEAN, missing : SUBSET Needs]
BoutPPRunPlan ==
  [launcher_mode : {"mpi", "direct"}, executable : {"path", "source case", "build tree"},
   sameDirectory : BOOLEAN, required : SUBSET Outputs]
BoutPPRunArtifact ==
  [status : {"completed", "failed", "timeout", "unavailable"},
   code : {"none", "0", "1", "-1", "-2"}, files : SUBSET Outputs,
   missing_artifacts : SUBSET (Outputs \cup {"executable"}), log : {"good", "slow"}]
BoutPPPostprocessReport ==
  [status : {"completed", "partial", "unavailable"}, content : Contents]
BoutPPValidationStatus ==
  {"environment_unavailable", "runtime_failed", "artifact_missing",
   "variable_missing", "domain_validation_failed", "metric_threshold_exceeded",
   "executed"}
BoutPPValidationReport ==
  [passed : BOOLEAN, status : BoutPPValidationStatus, blocks : BOOLEAN]
BoutPPPolicyReport == [passed : BOOLEAN, decision : {"allow", "defer", "reject"}]

------------------------------------------------------------------------------
IssueTask ==
  /\ At("issue")
  /\ Goto("probe")
  /\ UNCHANGED <<task, env, plan, disk, run, report, verdict, handed, truth>>

(* The probe wants some launcher, in the direct mode too, and finds an   *)
(* executable in the build tree, where the executor does not look.       *)
ProbeMisses(lacks) == lacks \cap {"root", "launcher", "executable"}
Probe ==
  /\ At("probe")
  /\ \E lacks \in {l \in SUBSET Needs : Cardinality(l) <= 2} :
       /\ "launcher" \in lacks => "named launcher" \in lacks
       /\ env' = [available |-> ProbeMisses(lacks) = {},
                  blocks_promotion |-> ProbeMisses(lacks) # {},
                  missing |-> ProbeMisses(lacks)]
       /\ truth' = [truth EXCEPT !.lacks = lacks]
  /\ Goto("compile")
  /\ UNCHANGED <<task, plan, disk, run, report, verdict, handed>>

Compile ==
  /\ At("compile")
  /\ plan' = [launcher_mode |-> task.launcher_mode, executable |-> task.executable,
              sameDirectory |-> task.sameDirectory, required |-> task.required]
  /\ Goto("execute")
  /\ UNCHANGED <<task, env, disk, run, report, verdict, handed, truth>>

------------------------------------------------------------------------------
UnavailableReason ==
  \/ plan.launcher_mode = "mpi" /\ "named launcher" \in truth.lacks
  \/ "executable" \in truth.lacks
  \/ plan.executable = "build tree"

(* The old outputs of the source case are in the data directory when the *)
(* run begins.                                                           *)
CopySourceData == disk \cup task.source

DiscoverArtifacts(status, code, files, log) ==
  [status |-> status, code |-> code, files |-> files,
   missing_artifacts |-> plan.required \ files, log |-> log]

(* A run whose plan names another directory than the executor's finds no *)
(* input there, and leaves its outputs there.                            *)
RunCommand ==
  /\ ~UnavailableReason
  /\ \E exit \in {"0", "1", "timeout", "os error"}, wrote \in SUBSET Outputs,
        content \in Contents, log \in {"good", "slow"} :
       /\ exit = "os error" => wrote = {}
       /\ task.asks # "threshold" => log = "good"
       /\ task.asks # "variables" => content \in {"none", "good"}
       /\ content = "none" <=> "dumps" \notin wrote \cup CopySourceData
       /\ "logs" \notin wrote => log = "good"
       /\ "reader" \in truth.lacks /\ task.asks = "variables" =>
            content \in {"none", "unreadable"}
       /\ disk' = CopySourceData \cup IF plan.sameDirectory THEN wrote ELSE {}
       /\ truth' = [truth EXCEPT !.exit = exit, !.wrote = wrote, !.content = content]
       /\ run' = DiscoverArtifacts(
            CASE exit = "0" -> "completed" [] exit = "timeout" -> "timeout"
              [] OTHER -> "failed",
            CASE exit = "timeout" -> "-1" [] exit = "os error" -> "-2"
              [] OTHER -> exit,
            disk', log)

Execute ==
  /\ At("execute")
  /\ \/ /\ UnavailableReason
        /\ run' = [status |-> "unavailable", code |-> "none", files |-> {},
                   missing_artifacts |-> {"executable"}, log |-> "good"]
        /\ UNCHANGED <<disk, truth>>
     \/ RunCommand
  /\ Goto("postprocess")
  /\ UNCHANGED <<task, env, plan, report, verdict, handed>>

(* What the NetCDF reader says of the dumps; without a dump, nothing.    *)
CollectNetcdfMetadata == IF "dumps" \in run.files THEN truth.content ELSE "none"

(* The postprocess report goes to the validator with the artifact.       *)
Postprocess ==
  /\ At("postprocess")
  /\ verdict' = [status |-> IF run.status = "unavailable" THEN "unavailable"
                            ELSE IF run.status = "completed" THEN "completed"
                            ELSE "partial",
                 content |-> IF run.status = "unavailable" THEN "none"
                             ELSE CollectNetcdfMetadata]
  /\ Goto("validate")
  /\ UNCHANGED <<task, env, plan, disk, run, report, handed, truth>>

------------------------------------------------------------------------------
(* The checks, in their order; each returns at once.  A metric that the  *)
(* logs do not state is within its threshold.                            *)
ValidationStatus(post) ==
  CASE run.status = "unavailable" -> "environment_unavailable"
    [] run.status \in {"timeout", "failed"} -> "runtime_failed"
    [] run.status = "completed" /\ run.missing_artifacts # {} -> "artifact_missing"
    [] OTHER ->
         IF task.asks = "variables"
              /\ post.content \in {"none", "variable missing", "unreadable"}
         THEN "variable_missing"
         ELSE IF task.asks = "variables" /\ post.content = "other size"
         THEN "domain_validation_failed"
         ELSE IF task.asks = "threshold" /\ run.log = "slow"
         THEN "metric_threshold_exceeded"
         ELSE "executed"

Validate ==
  /\ At("validate")
  /\ LET status == ValidationStatus(verdict)
     IN  report' = [passed |-> status = "executed", status |-> status,
                    blocks |-> status # "executed"]
  /\ verdict' = Nothing
  /\ Goto("judge")
  /\ UNCHANGED <<task, env, plan, disk, run, handed, truth>>

Gates ==
  GateIf(~env.available \/ env.blocks_promotion, "boutpp_environment_readiness",
         "reject")
    \cup GateIf(run.status \in {"failed", "timeout", "unavailable"},
                "boutpp_artifact_status", "reject")
    \cup GateIf(report.blocks, "boutpp_validation_status", "reject")
    \cup GateIf(~report.blocks /\ ~report.passed, "boutpp_validation_status", "defer")
(* One gate more says that not all of the others have passed.            *)
GatesAndReadiness ==
  Gates \cup GateIf(Gates # {}, "boutpp_evidence_ready", "defer")

Judge ==
  /\ At("judge")
  /\ verdict' = [passed |-> Decision(GatesAndReadiness) = "allow",
                 decision |-> Decision(GatesAndReadiness)]
  /\ Goto("hand over")
  /\ UNCHANGED <<task, env, plan, disk, run, report, handed, truth>>

CoreValid ==
  /\ report.passed /\ ~report.blocks
  /\ verdict.passed /\ verdict.decision = "allow"
HandOver ==
  /\ At("hand over")
  /\ handed' = Handed(CoreValid, CoreValid,
                      CandidateEvents(report.passed, verdict.decision))
  /\ Goto("done")
  /\ UNCHANGED <<task, env, plan, disk, run, report, verdict, truth>>

------------------------------------------------------------------------------
Tasks == BoutPPProblemSpec

Next ==
  \/ IssueTask \/ Probe \/ Compile \/ Execute \/ Postprocess \/ Validate
  \/ Judge \/ HandOver

Typed ==
  /\ task \in BoutPPProblemSpec
  /\ Made(env) => env \in BoutPPEnvironmentReport
  /\ Made(plan) => plan \in BoutPPRunPlan
  /\ Made(run) => run \in BoutPPRunArtifact
  /\ Made(report) => report \in BoutPPValidationReport
  /\ Made(verdict) => verdict \in BoutPPPolicyReport \cup BoutPPPostprocessReport

(* The program ended with exit code 0 in an environment that had all it  *)
(* needs; dumps and restarts that are asked for lie in the directory,    *)
(* though a source case's dump may stand for the run's.                  *)
Earned ==
  /\ truth.exit = "0"
  /\ {"root", "launcher", "executable"} \cap truth.lacks = {}
  /\ task.launcher_mode = "mpi" => "named launcher" \notin truth.lacks
  /\ task.required \subseteq truth.wrote \cup disk
  /\ task.asks = "variables" =>
       truth.content = "good" \/ "dumps" \notin truth.wrote

(* A report blames the run exactly when the program failed, timed out or *)
(* could not be started, and an output or a variable only when it is     *)
(* missing.                                                              *)
CauseNamed ==
  /\ report.status = "runtime_failed" => truth.exit \in {"1", "timeout", "os error"}
  /\ truth.exit \in {"1", "timeout", "os error"} => report.status = "runtime_failed"
  /\ report.status = "artifact_missing" => task.required \ disk # {}
  /\ report.status = "variable_missing" =>
       "dumps" \notin disk \/ truth.content \in {"variable missing", "unreadable"}
==============================================================================
