---------------------------- MODULE PycfdExtension ---------------------------
(***************************************************************************)
(* The PyCFD extension (metaharness_ext/pycfd): a generated script solves*)
(* a case of the Euler equations and prints its metrics as one JSON line;*)
(* the validator compares two residual norms with a tolerance.           *)
(***************************************************************************)
EXTENDS ExtensionRun

PyCFDCaseType == {"vortex", "airfoil", "mms"}     \* the airfoil needs a mesh file
Generated == {"vortex", "mms"}
Needs == {"source", "numpy", "Solvers.py", "import", "cases", "airfoil mesh"}
(* A norm may be left out, and JSON lets a NaN through.                  *)
Norms == {"absent", "within", "above", "NaN"}

(* A dotted override that names no field fails, a plain one is ignored.  *)
PyCFDProblemSpec ==
  [case_type : PyCFDCaseType, override : {"none", "ignored", "dotted"}]
PyCFDEnvironmentReport ==
  [available : BOOLEAN, blocks_promotion : BOOLEAN,
   status : {"pycfd_source_not_found", "solvers_py_not_found", "partial", "ready"},
   available_case_types : SUBSET PyCFDCaseType]
PyCFDRunPlan == [case_type : PyCFDCaseType]
PyCFDRunArtifact ==
  [status : {"completed", "failed", "timeout", "unavailable", "diverged"},
   return_code : {"0", "1", "-1", "-2"}, residual_l1 : Norms, residual_l2 : Norms]
PyCFDValidationReport ==
  [passed : BOOLEAN,
   status : {"environment_unavailable", "runtime_failed", "residual_exceeded",
             "executed"},
   issues : SUBSET [code : {"pycfd_environment_unavailable", "pycfd_timeout",
                            "pycfd_runtime_failure", "pycfd_residual_l1_exceeded",
                            "pycfd_residual_l2_exceeded"},
                    blocks : {TRUE}]]
PyCFDPolicyReport == [passed : BOOLEAN, decision : {"allow", "defer", "reject"}]

------------------------------------------------------------------------------
IssueTask ==
  /\ At("issue")
  /\ IF task.override = "dotted" THEN Raise ELSE Goto("probe")
  /\ UNCHANGED <<task, env, plan, disk, run, report, verdict, handed, truth>>

ProbeCaseTypes(lacks) ==
  IF "cases" \in lacks THEN Generated
  ELSE PyCFDCaseType \ IF "airfoil mesh" \in lacks THEN {"airfoil"} ELSE {}

(* A missing source or solver ends the probe; a missing numpy does not.  *)
EnvironmentReport(lacks) ==
  LET early == {"source", "Solvers.py"} \cap lacks # {}
      late == {"numpy", "import"} \cap lacks # {}
  IN  [available |-> ~early /\ ~late, blocks_promotion |-> early \/ late,
       status |-> IF "source" \in lacks THEN "pycfd_source_not_found"
                  ELSE IF early THEN "solvers_py_not_found"
                  ELSE IF late THEN "partial" ELSE "ready",
       available_case_types |-> IF early THEN {} ELSE ProbeCaseTypes(lacks)]

Probe ==
  /\ At("probe")
  /\ \E lacks \in SUBSET Needs :
       /\ {"source", "Solvers.py", "numpy"} \cap lacks # {} => "import" \in lacks
       /\ env' = EnvironmentReport(lacks)
       /\ truth' = [truth EXCEPT !.lacks = lacks]
  /\ Goto("compile")
  /\ UNCHANGED <<task, plan, disk, run, report, verdict, handed>>

Compile ==
  /\ At("compile")
  /\ plan' = [case_type |-> task.case_type]
  /\ Goto("execute")
  /\ UNCHANGED <<task, env, disk, run, report, verdict, handed, truth>>

------------------------------------------------------------------------------
Artifact(status, code, l1, l2) ==
  [status |-> status, return_code |-> code, residual_l1 |-> l1, residual_l2 |-> l2]
Unmeasured(status, code) == Artifact(status, code, "absent", "absent")

(* Whether the script can come to its end: the report is not consulted.  *)
MeshMissing == plan.case_type = "airfoil" /\ {"cases", "airfoil mesh"} \cap truth.lacks # {}
Solvable == "import" \notin truth.lacks /\ ~MeshMissing

Interrupted ==
  \E failure \in {<<"timeout", "timeout", "-1">>, <<"os error", "failed", "-2">>,
                  <<"1", "failed", "1">>} :
    /\ run' = Unmeasured(failure[2], failure[3])
    /\ truth' = [truth EXCEPT !.exit = failure[1]]

(* The worse of two norms that were printed.                             *)
Worse(l1, l2) ==
  CASE "above" \in {l1, l2} -> "above"
    [] "above" \notin {l1, l2} /\ "absent" \in {l1, l2} -> "absent"
    [] {l1, l2} \cap {"above", "absent"} = {} /\ "NaN" \in {l1, l2} -> "NaN"
    [] l1 = "within" /\ l2 = "within" -> "within"

(* The script ended well: without a JSON line it has failed all the same,*)
(* and with one its own status and norms are taken over.                 *)
ReadMetrics ==
  \/ run' = Unmeasured("failed", "0") /\ truth' = [truth EXCEPT !.exit = "0"]
  \/ \E status \in {"completed", "failed", "diverged", "unavailable"},
        l1 \in Norms, l2 \in Norms :
       /\ run' = Artifact(status, "0", l1, l2)
       /\ truth' = [truth EXCEPT !.exit = "0", !.content = Worse(l1, l2)]

Execute ==
  /\ At("execute")
  /\ \/ Interrupted
     \/ Solvable /\ ReadMetrics
  /\ Goto("validate")
  /\ UNCHANGED <<task, env, plan, disk, report, verdict, handed>>

------------------------------------------------------------------------------
(* A comparison with NaN is false, whatever it is compared with.         *)
Exceeds(norm) == norm = "above"
Accepts(norm) == norm # "absent" /\ ~Exceeds(norm)
Passed ==
  Accepts(run.residual_l1) /\ Accepts(run.residual_l2) /\ run.status = "completed"

StatusAndIssues ==
  CASE run.status = "unavailable" ->
         <<"environment_unavailable", {Issue("pycfd_environment_unavailable", TRUE)}>>
    [] run.status = "timeout" -> <<"runtime_failed", {Issue("pycfd_timeout", TRUE)}>>
    [] run.status = "failed" ->
         <<"runtime_failed", {Issue("pycfd_runtime_failure", TRUE)}>>
    [] run.status \notin {"unavailable", "timeout", "failed"} ->
         <<IF Passed THEN "executed" ELSE "residual_exceeded",
           IssueIf(Exceeds(run.residual_l1), "pycfd_residual_l1_exceeded", TRUE) \cup
           IssueIf(Exceeds(run.residual_l2), "pycfd_residual_l2_exceeded", TRUE)>>

Validate ==
  /\ At("validate")
  /\ report' = [passed |-> StatusAndIssues[1] = "executed",
                status |-> StatusAndIssues[1], issues |-> StatusAndIssues[2]]
  /\ Goto("judge")
  /\ UNCHANGED <<task, env, plan, disk, run, verdict, handed, truth>>

------------------------------------------------------------------------------
Failed == report.status \in {"runtime_failed", "environment_unavailable"}
Gates ==
  GateIf(~env.available \/ env.blocks_promotion, "pycfd_environment_readiness", "reject")
    \cup GateIf(Failed, "pycfd_validation_status", "reject")
    \cup GateIf(~Failed /\ (Blocking(report.issues) \/ ~report.passed),
                "pycfd_validation_status", "defer")
GatesAndReadiness ==
  Gates \cup GateIf(Gates # {}, "pycfd_evidence_ready", "defer")

Judge ==
  /\ At("judge")
  /\ verdict' = [passed |-> Decision(GatesAndReadiness) = "allow",
                 decision |-> Decision(GatesAndReadiness)]
  /\ Goto("hand over")
  /\ UNCHANGED <<task, env, plan, disk, run, report, handed, truth>>

CoreValid ==
  /\ report.passed /\ ~Blocking(report.issues)
  /\ verdict.passed /\ verdict.decision = "allow"
HandOver ==
  /\ At("hand over")
  /\ handed' = Handed(CoreValid, CoreValid,
                      CandidateEvents(report.passed, verdict.decision))
  /\ Goto("done")
  /\ UNCHANGED <<task, env, plan, disk, run, report, verdict, truth>>

------------------------------------------------------------------------------
Tasks == PyCFDProblemSpec

Next ==
  IssueTask \/ Probe \/ Compile \/ Execute \/ Validate \/ Judge \/ HandOver

Typed ==
  /\ task \in PyCFDProblemSpec
  /\ Made(env) => env \in PyCFDEnvironmentReport
  /\ Made(plan) => plan \in PyCFDRunPlan
  /\ Made(run) => run \in PyCFDRunArtifact
  /\ Made(report) => report \in PyCFDValidationReport
  /\ Made(verdict) => verdict \in PyCFDPolicyReport

(* The script ended with exit code 0 in an environment that had all the  *)
(* case needs, and printed two norms of which none is above the tolerance *)
(* (NaN is not).                                                         *)
Earned ==
  /\ truth.exit = "0"
  /\ {"source", "Solvers.py", "numpy", "import"} \cap truth.lacks = {}
  /\ task.case_type = "airfoil" => {"cases", "airfoil mesh"} \cap truth.lacks = {}
  /\ truth.content \in {"within", "NaN"}

(* Both norms were printed and are below the tolerance.                  *)
NormsWithin == truth.content = "within"

(* A script that failed, timed out or could not be started is reported as*)
(* that, and a residual is blamed only when it is above the tolerance or *)
(* was not printed.                                                      *)
CauseNamed ==
  /\ truth.exit \in {"1", "timeout", "os error"} => report.status = "runtime_failed"
  /\ report.status = "residual_exceeded" =>
       \/ run.status = "diverged"
       \/ truth.content \in {"absent", "above"}
==============================================================================
