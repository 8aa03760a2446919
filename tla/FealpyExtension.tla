--------------------------- MODULE FealpyExtension ---------------------------
(***************************************************************************)
(* The FEALPy extension (metaharness_ext/fealpy): a generated Python     *)
(* script solves a PDE in a process of its own and prints one line of    *)
(* JSON, which is all that is read back; a quota estimated from the mesh *)
(* refuses tasks that would be too large.                                *)
(***************************************************************************)
EXTENDS ExtensionRun

(* A family's script measures the error of a scalar solution, of one with*)
(* no gradient, or of none: the mixed ones (darcy, stokes and            *)
(* navier_stokes) print null for both norms.                             *)
PdeFamilies == {"scalar", "no gradient", "mixed"}
Metrics(family) ==
  CASE family = "scalar" -> {"l2", "h1"}
    [] family = "no gradient" -> {"l2"}
    [] family = "mixed" -> {}

CONSTANTS DofLimit   \* of the quota provider

MeshSpec == [type : {"tri", "tet"}, nx : 1..3, nz : 0..3]    \* nz = 0: not given
FealpyProblemSpec ==
  [family : PdeFamilies \cup {"unsupported"}, mesh : MeshSpec, degree : 1..2]
FealpyEnvironmentReport ==
  [available : BOOLEAN, blocks : BOOLEAN, lacks : SUBSET {"fealpy", "backend"}]
FealpyRunPlan == [metrics : SUBSET {"l2", "h1"}, exhausted : BOOLEAN]
FealpyRunArtifact ==
  [status : {"completed", "failed", "timeout", "unavailable"},
   l2 : {"none", "small", "large", "nan"}, h1 : {"none", "small", "large", "nan"},
   refs : BOOLEAN]
FealpyValidationReport ==
  [passed : BOOLEAN,
   status : {"executed", "environment_invalid", "runtime_failed",
             "output_missing", "numeric_validation_failed"},
   issues : SUBSET [code : {"FEALPY_ENV_UNAVAILABLE", "FEALPY_TIMEOUT",
     "FEALPY_RUNTIME_FAILED", "FEALPY_OUTPUT_MISSING", "FEALPY_L2_TOLERANCE",
     "FEALPY_H1_TOLERANCE"}, blocks : {TRUE}]]
FealpyPolicyReport == [passed : BOOLEAN, decision : {"allow", "defer", "reject"}]

------------------------------------------------------------------------------
(* The quota.  The estimate is three-dimensional only when nz is given; the*)
(* script's mesh takes nx for a missing nz.                              *)

Nodes(n, degree) == degree * n + 1
(* A wrong form of EstimateDofs: every mesh is flat.                     *)
EstimateDofs_Flat(mesh, degree) == Nodes(mesh.nx, degree) * Nodes(mesh.nx, degree)

EstimateDofs(mesh, degree) ==
  Nodes(mesh.nx, degree) * Nodes(mesh.nx, degree)
    * (IF mesh.type = "tet" /\ mesh.nz # 0 THEN Nodes(mesh.nz, degree) ELSE 1)
BuiltDofs(mesh, degree) ==
  Nodes(mesh.nx, degree) * Nodes(mesh.nx, degree)
    * (IF mesh.type = "tri" THEN 1
       ELSE Nodes(IF mesh.nz = 0 THEN mesh.nx ELSE mesh.nz, degree))
Exhausted(spec) == EstimateDofs(spec.mesh, spec.degree) > DofLimit

------------------------------------------------------------------------------
IssueTask ==
  /\ At("issue")
  /\ IF task.family = "unsupported" THEN Raise ELSE Goto("probe")
  /\ UNCHANGED <<task, env, plan, disk, run, report, verdict, handed, truth>>

(* Other backends than the requested one may be missing.                 *)
Probe ==
  /\ At("probe")
  /\ \E lacks \in SUBSET {"fealpy", "backend"} :
       /\ env' = [available |-> lacks = {}, blocks |-> lacks # {}, lacks |-> lacks]
       /\ truth' = [truth EXCEPT !.lacks = lacks]
  /\ Goto("compile")
  /\ UNCHANGED <<task, plan, disk, run, report, verdict, handed>>

Compile ==
  /\ At("compile")
  /\ plan' = [metrics |-> Metrics(task.family), exhausted |-> Exhausted(task)]
  /\ Goto("execute")
  /\ UNCHANGED <<task, env, disk, run, report, verdict, handed, truth>>

Artifact(status, l2, h1, refs) ==
  [status |-> status, l2 |-> l2, h1 |-> h1, refs |-> refs]
(* A wrong form of Failed: the status of the process is not looked at.   *)
Failed_Completed(status) == Artifact("completed", "none", "none", TRUE)

Failed(status) == Artifact(status, "none", "none", TRUE)

(* A wrong form of ParseOutput: whatever was printed is a result.        *)
ParseOutput_Any(metrics, line) ==
  Artifact("completed", IF "l2" \in metrics THEN line ELSE "none",
           IF "h1" \in metrics THEN line ELSE "none", TRUE)

(* The last line of the output is read; a script that ends well may still*)
(* have printed something else than its result.                          *)
ParseOutput(metrics, line) ==
  IF line = "garbage" THEN Failed("failed")
  ELSE Artifact("completed", IF "l2" \in metrics THEN line ELSE "none",
                IF "h1" \in metrics THEN line ELSE "none", TRUE)

RunSolver ==
  \/ /\ run' = Failed("timeout")
     /\ truth' = [truth EXCEPT !.exit = "timeout"]
  \/ /\ run' = Failed("failed")      \* a nonzero exit or an OSError
     /\ truth' = [truth EXCEPT !.exit = "1"]
  \/ \E line \in {"garbage", "small", "large", "nan"} :
       /\ run' = ParseOutput(plan.metrics, line)
       /\ truth' = [truth EXCEPT !.exit = "0", !.content = line]

(* The quota is looked at before the environment.                        *)
Execute ==
  /\ At("execute")
  /\ \/ /\ plan.exhausted
        /\ run' = Failed("failed")
        /\ UNCHANGED truth
     \/ /\ ~plan.exhausted /\ ~env.available
        /\ run' = Artifact("unavailable", "none", "none", FALSE)
        /\ UNCHANGED truth
     \/ /\ ~plan.exhausted /\ env.available
        /\ RunSolver
  /\ Goto("validate")
  /\ UNCHANGED <<task, env, plan, disk, report, verdict, handed>>

(* The scheduler adapter refuses an exhausted quota, and the artifact of a *)
(* Kubernetes job has the job's status and no metric.  One that has not  *)
(* ended when its result is asked for, that the backend does not know, or *)
(* whose workspace is gone, is unavailable.                              *)
JobStatus(exit) ==
  CASE exit = "0" -> "completed" [] exit = "1" -> "failed"
    [] exit = "timeout" -> "timeout"

ExecuteInKubernetes ==
  /\ At("execute")
  /\ env.available
  /\ \/ plan.exhausted /\ Raise /\ UNCHANGED <<run, truth>>
     \/ /\ ~plan.exhausted
        /\ \E exit \in {"0", "1", "timeout", "unfinished"} :
             /\ truth' = [truth EXCEPT !.exit = exit]
             /\ \/ exit # "unfinished" /\ run' = Failed(JobStatus(exit))
                \/ run' = Failed("unavailable")
        /\ Goto("validate")
  /\ UNCHANGED <<task, env, plan, disk, report, verdict, handed>>

------------------------------------------------------------------------------
Rejection(status, code) ==
  [passed |-> FALSE, status |-> status, issues |-> {Issue(code, TRUE)}]

(* A norm that is missing or not a number is not below its tolerance.    *)
ToleranceIssues ==
  IssueIf(run.l2 # "small", "FEALPY_L2_TOLERANCE", TRUE)
    \cup IssueIf(run.h1 # "small", "FEALPY_H1_TOLERANCE", TRUE)

Validate ==
  /\ At("validate")
  /\ report' =
       CASE run.status = "unavailable" ->
              Rejection("environment_invalid", "FEALPY_ENV_UNAVAILABLE")
         [] run.status = "timeout" -> Rejection("runtime_failed", "FEALPY_TIMEOUT")
         [] run.status = "failed" ->
              Rejection("runtime_failed", "FEALPY_RUNTIME_FAILED")
         [] run.status = "completed" /\ run.l2 = "none" /\ run.h1 = "none" ->
              Rejection("output_missing", "FEALPY_OUTPUT_MISSING")
         [] OTHER ->
              [passed |-> ToleranceIssues = {},
               status |-> IF ToleranceIssues = {} THEN "executed"
                          ELSE "numeric_validation_failed",
               issues |-> ToleranceIssues]
  /\ Goto("judge")
  /\ UNCHANGED <<task, env, plan, disk, run, verdict, handed, truth>>

(* The bundle's own two references make its list never empty.            *)
EvidenceRefs == {"run", "artifact"} \cup (IF run.refs THEN {"plan"} ELSE {})

Gates(withEnv) ==
  GateIf(withEnv /\ (env.blocks \/ ~env.available),
         "fealpy_environment_readiness", "reject")
    \cup GateIf(Blocking(report.issues), "fealpy_validation_status", "reject")
    \cup GateIf(~Blocking(report.issues) /\ ~report.passed,
                "fealpy_validation_status", "defer")
    \cup GateIf(EvidenceRefs = {}, "fealpy_evidence_files", "defer")

Judge ==
  /\ At("judge")
  /\ \E withEnv \in BOOLEAN :
       verdict' = [passed |-> Decision(Gates(withEnv)) = "allow",
                   decision |-> Decision(Gates(withEnv))]
  /\ Goto("hand over")
  /\ UNCHANGED <<task, env, plan, disk, run, report, handed, truth>>

CoreValid ==
  /\ report.passed /\ ~Blocking(report.issues)
  /\ verdict.passed /\ verdict.decision = "allow"

SessionEvents == CandidateEvents(report.passed, verdict.decision)

HandOver ==
  /\ At("hand over")
  /\ handed' = Handed(CoreValid, CoreValid, SessionEvents)
  /\ Goto("done")
  /\ UNCHANGED <<task, env, plan, disk, run, report, verdict, truth>>

------------------------------------------------------------------------------
Tasks ==
  {s \in FealpyProblemSpec :
     /\ s.mesh.type = "tri" => s.mesh.nz = 0
     /\ s.family \in {"unsupported", "mixed", "no gradient"} =>
          s.mesh = [type |-> "tri", nx |-> 1, nz |-> 0] /\ s.degree = 1}

Next ==
  \/ IssueTask \/ Probe \/ Compile \/ Execute \/ ExecuteInKubernetes
  \/ Validate \/ Judge \/ HandOver

Typed ==
  /\ task \in FealpyProblemSpec
  /\ Made(env) => env \in FealpyEnvironmentReport
  /\ Made(plan) => plan \in FealpyRunPlan
  /\ Made(run) => run \in FealpyRunArtifact
  /\ Made(report) => report \in FealpyValidationReport
  /\ Made(verdict) => verdict \in FealpyPolicyReport

(* The script ran on the requested backend, ended with exit code 0 and   *)
(* printed two norms below their tolerances.  It did not solve for more  *)
(* than the limit, when the mesh says how deep it is.                    *)
WithinQuota ==
  task.mesh.type = "tri" \/ task.mesh.nz # 0 => BuiltDofs(task.mesh, task.degree) <= DofLimit
Earned ==
  truth.lacks = {} /\ truth.exit = "0" /\ truth.content = "small" /\ WithinQuota

(* A report blames the environment only when it lacked something, and a  *)
(* script that failed or timed out is reported as that; but a Kubernetes *)
(* job without a result is taken for a missing environment, however it   *)
(* ends.  Only the artifact of a job has references of its own then.     *)
JobLost == run.status = "unavailable" /\ run.refs
CauseNamed ==
  /\ report.status = "environment_invalid" => truth.lacks # {} \/ JobLost
  /\ truth.exit \in {"1", "timeout"} =>
       report.status = "runtime_failed" \/ JobLost
==============================================================================
