-------------------------- MODULE QcomputeExtension --------------------------
(***************************************************************************)
(* The QCompute extension (metaharness_ext/qcompute): a circuit is       *)
(* compiled for a simulator or for the Quafu cloud, measured, perhaps    *)
(* measured again to mitigate errors, and judged by its counts, fidelity *)
(* and noise.                                                            *)
(***************************************************************************)
EXTENDS ExtensionRun

Platforms == {"quafu", "qiskit_aer", "pennylane_aer", "ibm_quantum"}
NoiseModels == {"none", "low", "high", "real"}
Calibrations == {"none", "fresh", "stale", "very stale"}
(* What a run needs: the packages, a token, a connection, a chip in      *)
(* service, and as many qubits as the circuit has.                       *)
Needs == {"dependency", "token", "connection", "chip", "qubits"}
Counts == {"good counts", "bad counts", "short counts"}

QComputeExperimentSpec ==
  [platform : Platforms, simulator : BOOLEAN, tooWide : BOOLEAN,
   needsToken : BOOLEAN, noise : NoiseModels, mitigation : SUBSET {"zne", "rem"},
   threshold : BOOLEAN]
QComputeEnvironmentReport ==
  [available : BOOLEAN,
   status : {"online", "unsupported_platform", "dependency_missing",
             "invalid_backend_spec", "missing_api_token", "connection_error",
             "chip_maintenance", "calibration_stale", "insufficient_qubits",
             "calibration_unavailable"},
   calibration : Calibrations, blocks : BOOLEAN]
QComputeRunPlan == [estimate : {"ideal", "noisy"}, threshold : BOOLEAN]
QComputeRunArtifact ==
  [status : {"completed", "failed"}, error : {"none", "unavailable", "exception"},
   counts : Counts \cup {"none"}, raw : BOOLEAN, mitigated : SUBSET {"zne", "rem"}]
QComputeValidationStatus ==
  {"environment_invalid", "execution_failed", "result_incomplete",
   "below_fidelity", "noise_corrupted", "validated", "converged"}
QComputeValidationReport ==
  [passed : BOOLEAN, status : QComputeValidationStatus, ready : BOOLEAN]
QComputePolicyReport == [passed : BOOLEAN, decision : {"allow", "defer", "reject"}]

Quafu == task.platform = "quafu"
MaxRetries == 3

------------------------------------------------------------------------------
IssueTask ==
  /\ At("issue")
  /\ Goto("probe")
  /\ UNCHANGED <<task, env, plan, disk, run, report, verdict, handed, truth>>

(* The first thing that the probe of a platform finds amiss; on Quafu the*)
(* age of the calibration is asked after the chip.                       *)
PlatformStatus(lacks, calibration) ==
  CASE task.platform = "ibm_quantum" -> "unsupported_platform"
    [] task.platform # "ibm_quantum" /\ "dependency" \in lacks -> "dependency_missing"
    [] task.platform = "qiskit_aer" /\ "dependency" \notin lacks /\ ~task.simulator ->
         "invalid_backend_spec"
    [] Quafu /\ "dependency" \notin lacks /\ "token" \in lacks -> "missing_api_token"
    [] Quafu /\ lacks \cap {"dependency", "token"} = {} /\ "connection" \in lacks ->
         "connection_error"
    [] Quafu /\ lacks \cap {"dependency", "token", "connection"} = {}
         /\ "chip" \in lacks -> "chip_maintenance"
    [] Quafu /\ lacks \cap {"dependency", "token", "connection", "chip"} = {}
         /\ calibration = "very stale" -> "calibration_stale"
    [] OTHER -> "online"

(* The calibration that the probe gets to see.                           *)
CalibrationData(lacks, calibration) ==
  IF Quafu /\ lacks \cap {"dependency", "token", "connection"} = {}
  THEN calibration ELSE "none"

(* The chip's own qubit count replaces the one the task declares.        *)
InsufficientQubits(lacks, calibration) ==
  IF Quafu /\ PlatformStatus(lacks, calibration) = "online"
  THEN "qubits" \in lacks ELSE task.tooWide

(* Later checks overwrite the status of the earlier ones.                *)
EnvironmentStatus(lacks, calibration) ==
  IF task.noise = "real" /\ CalibrationData(lacks, calibration) = "none"
  THEN "calibration_unavailable"
  ELSE IF task.needsToken /\ "token" \in lacks THEN "missing_api_token"
  ELSE IF InsufficientQubits(lacks, calibration) THEN "insufficient_qubits"
  ELSE PlatformStatus(lacks, calibration)

(* A stale calibration is only to warn, and yet is written down as a     *)
(* prerequisite that is not met, which blocks.                           *)
Probe ==
  /\ At("probe")
  /\ \E lacks \in SUBSET Needs, calibration \in Calibrations :
       /\ ~Quafu => lacks \subseteq {"dependency", "token"} /\ calibration = "none"
       /\ LET status == EnvironmentStatus(lacks, calibration)
              seen == CalibrationData(lacks, calibration)
          IN  env' = [available |-> status = "online", status |-> status,
                      calibration |-> seen,
                      blocks |-> status # "online" \/ seen = "stale"]
       /\ truth' = [truth EXCEPT !.lacks = lacks]
  /\ IF env'.available THEN Goto("compile") ELSE Goto("refuse")
  /\ UNCHANGED <<task, plan, disk, run, report, verdict, handed>>

(* The gateway's own bundle for a task whose backend is not available.   *)
FailedEnvironmentBundle ==
  /\ At("refuse")
  /\ plan' = [estimate |-> "noisy", threshold |-> FALSE]
  /\ run' = [status |-> "failed", error |-> "unavailable", counts |-> "none",
             raw |-> FALSE, mitigated |-> {}]
  /\ report' = [passed |-> FALSE, status |-> "execution_failed", ready |-> FALSE]
  /\ Goto("judge")
  /\ UNCHANGED <<task, env, disk, verdict, handed, truth>>

(* A circuit that is wider than the task declares is refused, and so is  *)
(* one that Qiskit cannot load or transpile.                             *)
BuildPlan ==
  /\ At("compile")
  /\ \/ Raise /\ UNCHANGED plan
     \/ /\ ~task.tooWide
        /\ plan' = [estimate |-> IF task.noise = "none" THEN "ideal" ELSE "noisy",
                    threshold |-> task.threshold]
        /\ IF Quafu THEN Goto("submit") ELSE Goto("execute")
  /\ disk' = {}
  /\ UNCHANGED <<task, env, run, report, verdict, handed, truth>>

------------------------------------------------------------------------------
Artifact(status, error, counts, mitigated) ==
  [status |-> status, error |-> error, counts |-> counts,
   raw |-> status = "completed", mitigated |-> mitigated]

(* Whatever the backend raises becomes a failed artifact.                *)
FailedArtifact ==
  /\ run' = Artifact("failed", "exception", "none", {})
  /\ Goto("validate")
  /\ UNCHANGED disk

(* Each strategy runs the circuit again on the backend; when one of those*)
(* runs raises, the counts of the first are lost with it.  Readout errors*)
(* are only corrected where the noise has some.                          *)
Mitigated(counts) ==
  \/ /\ run' = Artifact("completed", "none", counts,
                  task.mitigation \ (IF task.noise = "none" THEN {"rem"} ELSE {}))
     /\ disk' = disk \cup {"result.json"}
     /\ Goto("validate")
  \/ task.mitigation # {} /\ FailedArtifact

Execute ==
  /\ At("execute")
  /\ \/ /\ FailedArtifact
        /\ truth' = [truth EXCEPT !.exit = "raised"]
     \/ \E counts \in Counts \ {"short counts"} :
          /\ Mitigated(counts)
          /\ truth' = [truth EXCEPT !.exit = "measured", !.content = counts]
  /\ UNCHANGED <<task, env, plan, report, verdict, handed>>

(* A submission that the network or the queue refuses is tried again, even *)
(* when the cloud has taken the job and only the answer was lost.        *)
Attempts == IF Made(run) THEN run.attempts ELSE 0
Taken == [truth EXCEPT !.wrote = @ \cup {Attempts + 1}]

Submit ==
  /\ At("submit")
  /\ \/ /\ truth' = [Taken EXCEPT !.exit = "queued"]
        /\ Goto("poll")
        /\ UNCHANGED <<run, disk>>
     \/ /\ truth' \in {truth, Taken}
        /\ IF Attempts + 1 < MaxRetries
           THEN /\ run' = [attempts |-> Attempts + 1]
                /\ UNCHANGED <<stage, disk>>
           ELSE FailedArtifact
     \/ FailedArtifact /\ UNCHANGED truth
  /\ UNCHANGED <<task, env, plan, report, verdict, handed>>

(* Until the job is terminal or the polling strategy is exhausted, which *)
(* leaves the job where it is; a result without counts raises.           *)
PollUntilComplete ==
  /\ At("poll")
  /\ \/ /\ truth' = [truth EXCEPT !.exit = "measured"]
        /\ FailedArtifact
     \/ /\ UNCHANGED truth
        /\ FailedArtifact
     \/ \E counts \in Counts :
          /\ Mitigated(counts)
          /\ truth' = [truth EXCEPT !.exit = "measured", !.content = counts]
  /\ UNCHANGED <<task, env, plan, report, verdict, handed>>

------------------------------------------------------------------------------
(* In hundredths: what the noise model costs, and what mitigation gives  *)
(* back.  Real noise counts in full, so that no mitigation saves it.     *)
NoiseImpactScore ==
  CASE task.noise = "none" -> 0 [] task.noise = "low" -> 30
    [] task.noise = "high" -> 60 [] task.noise = "real" -> 100
AdjustedNoiseImpactScore ==
  (NoiseImpactScore * (IF "zne" \in run.mitigated THEN 7 ELSE 10)
     * (IF "rem" \in run.mitigated THEN 8 ELSE 10)) \div 100
ComputeFidelity == run.counts

ValidationStatus ==
  IF ~env.available \/ env.blocks THEN "environment_invalid"
  ELSE IF run.status # "completed" THEN "execution_failed"
  ELSE IF run.counts = "short counts" THEN "result_incomplete"
  ELSE IF plan.threshold /\ ComputeFidelity = "bad counts" THEN "below_fidelity"
  ELSE IF AdjustedNoiseImpactScore >= 50 THEN "noise_corrupted"
  ELSE IF plan.estimate = "ideal" THEN "converged" ELSE "validated"

ValidateRun ==
  /\ At("validate")
  /\ LET passed == ValidationStatus \in {"validated", "converged"}
     IN  report' = [passed |-> passed, status |-> ValidationStatus, ready |-> passed]
  /\ Goto("judge")
  /\ UNCHANGED <<task, env, plan, disk, run, verdict, handed, truth>>

Gates ==
  GateIf(env.blocks \/ ~env.available, "environment_readiness", "reject")
    \cup GateIf(report.status \in {"environment_invalid", "execution_failed"},
                "validation_status", "reject")
    \cup GateIf(report.status \in {"result_incomplete", "below_fidelity",
                                   "noise_corrupted"}, "validation_status", "defer")
    \cup GateIf(~run.raw, "raw_output_anchor", "defer")
    \cup GateIf(~report.ready, "promotion_readiness", "defer")

Judge ==
  /\ At("judge")
  /\ verdict' = [passed |-> Decision(Gates) = "allow", decision |-> Decision(Gates)]
  /\ Goto("hand over")
  /\ UNCHANGED <<task, env, plan, disk, run, report, handed, truth>>

CoreValid ==
  report.passed /\ report.ready /\ verdict.passed /\ verdict.decision = "allow"

HandOver ==
  /\ At("hand over")
  /\ handed' = Handed(CoreValid, CoreValid,
                      CandidateEvents(report.passed, verdict.decision))
  /\ Goto("done")
  /\ UNCHANGED <<task, env, plan, disk, run, report, verdict, truth>>

------------------------------------------------------------------------------
Tasks ==
  {s \in QComputeExperimentSpec :
     /\ s.simulator <=> s.platform # "quafu"
     /\ s.platform = "ibm_quantum" => s.noise = "none" /\ s.mitigation = {}
     /\ s.mitigation \in {{}, {"zne"}, {"zne", "rem"}}
     /\ s.needsToken => s.platform = "qiskit_aer" /\ s.noise = "none"
     /\ s.tooWide => s.mitigation = {} /\ s.noise = "none"}
  \cup {[platform |-> "qiskit_aer", simulator |-> FALSE, tooWide |-> FALSE,
         needsToken |-> FALSE, noise |-> "none", mitigation |-> {},
         threshold |-> FALSE]}

Next ==
  \/ IssueTask \/ Probe \/ FailedEnvironmentBundle \/ BuildPlan \/ Execute
  \/ Submit \/ PollUntilComplete \/ ValidateRun \/ Judge \/ HandOver

Typed ==
  /\ task \in QComputeExperimentSpec
  /\ Made(env) => env \in QComputeEnvironmentReport
  /\ Made(plan) => plan \in QComputeRunPlan
  /\ Made(run) => run \in QComputeRunArtifact \cup [attempts : 1..MaxRetries]
  /\ Made(report) => report \in QComputeValidationReport
  /\ Made(verdict) => verdict \in QComputePolicyReport

(* The circuit was measured in full, by packages and with a token that   *)
(* were there, and well enough where a threshold is given.               *)
Earned ==
  /\ truth.exit = "measured" /\ "dependency" \notin truth.lacks
  /\ Quafu => truth.lacks = {} /\ truth.wrote # {}
  /\ truth.content \in Counts \ {"short counts"}
  /\ task.threshold => truth.content = "good counts"
  /\ "result.json" \in disk

(* Without an environment nothing is validated, what is validated was    *)
(* measured, and the fidelity is blamed only for counts that were bad.   *)
CauseNamed ==
  /\ ~env.available => report.status = "execution_failed"
  /\ report.status \in {"validated", "converged"} => truth.exit = "measured"
  /\ report.status = "below_fidelity" => truth.content = "bad counts"
==============================================================================
