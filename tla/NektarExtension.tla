--------------------------- MODULE NektarExtension ---------------------------
(***************************************************************************)
(* The Nektar++ extension (metaharness_ext/nektar): a session file is    *)
(* rendered for a flow or a transport solver, FieldConvert works on the  *)
(* fields that the solver leaves, and the error norms which both print are *)
(* what a run is judged by.  There is no probe and no policy: the        *)
(* validation report is the last word.  A task has one run directory.    *)
(***************************************************************************)
EXTENDS ExtensionRun

Needs == {"mesh", "solver", "FieldConvert"}
Fields == {"fld", "chk"}
Files == Fields \cup {"vtu"}
(* The L2 errors that a program prints: within the tolerance, beyond it, *)
(* or not a number, which the pattern for a number does not match.       *)
Norms == {"none", "within", "exceeds", "nan"}

NektarProblemSpec ==
  [solver_family : {"ADR", "INCNS"},
   geometry : {"inline", "overlay"},         \* made, or a mesh file's
   planar : BOOLEAN,                         \* dimension is 2
   regions : {"few", "many"},                \* boundary regions, of four at most
   step : {"convert", "evaluate error", "unsupported"}]
NektarSessionPlan ==
  [solver_family : {"ADR", "INCNS"}, render_geometry_inline : BOOLEAN,
   step : {"convert", "evaluate error", "unsupported"}]
NektarRunArtifact ==
  [status : {"completed", "failed", "unavailable"}, code : {"none", "0", "1"},
   reason : {"none", "mesh_source_not_found", "solver_binary_not_found",
             "solver_timeout"},
   fields : SUBSET Fields, derived : SUBSET {"vtu"},
   norms : Norms \ {"nan"},
   postprocess : {"none", "skipped", "unavailable", "failed", "completed"}]
NektarValidationReport ==
  [passed : BOOLEAN, solver_exited_cleanly : BOOLEAN, field_files_exist : BOOLEAN,
   error_vs_reference : {"none", "true", "false"}]

------------------------------------------------------------------------------
(* What is installed is settled with the task: no component looks at it  *)
(* before it is needed.                                                  *)
IssueTask ==
  /\ At("issue")
  /\ \E lacks \in SUBSET Needs : truth' = [truth EXCEPT !.lacks = lacks]
  /\ Goto("compile")
  /\ UNCHANGED <<task, env, plan, disk, run, report, verdict, handed>>

(* The geometry that is made when no mesh is named is a square's: it has *)
(* two dimensions and four sides.                                        *)
Unsupported == task.geometry = "inline" /\ (~task.planar \/ task.regions = "many")

BuildPlan ==
  /\ At("compile")
  /\ IF Unsupported THEN Raise /\ UNCHANGED plan
     ELSE /\ plan' = [solver_family |-> task.solver_family,
                      render_geometry_inline |-> task.geometry = "inline",
                      step |-> task.step]
          /\ Goto("execute")
  /\ UNCHANGED <<task, env, disk, run, report, verdict, handed, truth>>

------------------------------------------------------------------------------
BuildRunArtifact(status, code, reason, fields, norms) ==
  [status |-> status, code |-> code, reason |-> reason, fields |-> fields,
   derived |-> {}, norms |-> norms, postprocess |-> "none"]

ExtractErrorNorms(printed) == IF printed = "nan" THEN "none" ELSE printed

MeshMissing == ~plan.render_geometry_inline /\ "mesh" \in truth.lacks
BinaryMissing == ~MeshMissing /\ "solver" \in truth.lacks

(* Every field file of the directory is an output of this run.           *)
DiscoverOutputs(files) == files \cap Fields

RunSolver ==
  /\ ~MeshMissing /\ ~BinaryMissing
  /\ \E exit \in {"0", "1", "timeout"}, wrote \in SUBSET Fields, printed \in Norms :
       /\ disk' = disk \cup wrote
       /\ truth' = [truth EXCEPT !.exit = exit, !.wrote = wrote, !.content = printed]
       /\ run' = BuildRunArtifact(
            IF exit = "0" THEN "completed" ELSE "failed",
            IF exit = "timeout" THEN "none" ELSE exit,
            IF exit = "timeout" THEN "solver_timeout" ELSE "none",
            DiscoverOutputs(disk'), ExtractErrorNorms(printed))

Unavailable(reason) ==
  /\ run' = BuildRunArtifact("unavailable", "none", reason, {}, "none")
  /\ UNCHANGED <<disk, truth>>

ExecutePlan ==
  /\ At("execute")
  /\ \/ MeshMissing /\ Unavailable("mesh_source_not_found")
     \/ BinaryMissing /\ Unavailable("solver_binary_not_found")
     \/ RunSolver
  /\ Goto("postprocess")
  /\ UNCHANGED <<task, env, plan, report, verdict, handed>>

------------------------------------------------------------------------------
(* One step of FieldConvert.  The norms it prints replace the solver's; of *)
(* an error evaluation the file it is told to write is not expected.     *)
StepSkipped == plan.step = "unsupported" \/ run.fields = {}
StepUnavailable == ~StepSkipped /\ "FieldConvert" \in truth.lacks

RunFieldConvert ==
  /\ ~StepSkipped /\ ~StepUnavailable
  /\ \E exit \in {"0", "1", "timeout"}, wrote \in SUBSET {"vtu"},
        printed \in IF plan.step = "evaluate error" THEN Norms ELSE {"none"} :
       LET read == IF exit = "timeout" THEN "none" ELSE ExtractErrorNorms(printed)
       IN  /\ disk' = disk \cup wrote
           /\ truth' = IF exit = "timeout" \/ printed = "none" THEN truth
                       ELSE [truth EXCEPT !.content = printed]
           /\ run' = [run EXCEPT
                !.postprocess = IF exit = "0" THEN "completed" ELSE "failed",
                !.derived = IF exit = "timeout" THEN @ ELSE disk' \cap {"vtu"},
                !.norms = IF read = "none" THEN @ ELSE read]

RunPostprocess ==
  /\ At("postprocess")
  /\ \/ /\ StepSkipped
        /\ run' = [run EXCEPT !.postprocess = "completed"]
        /\ UNCHANGED <<disk, truth>>
     \/ /\ StepUnavailable
        /\ run' = [run EXCEPT !.postprocess = "unavailable"]
        /\ UNCHANGED <<disk, truth>>
     \/ RunFieldConvert
  /\ Goto("validate")
  /\ UNCHANGED <<task, env, plan, report, verdict, handed>>

------------------------------------------------------------------------------
(* No norm is no objection, and a failed FieldConvert is only a message. *)
ErrorVsReference ==
  CASE run.norms = "none" -> "none"
    [] run.norms = "within" -> "true"
    [] run.norms = "exceeds" -> "false"

ValidateRun ==
  /\ At("validate")
  /\ report' = [passed |-> /\ run.code = "0" /\ run.fields # {}
                           /\ ErrorVsReference # "false",
                solver_exited_cleanly |-> run.code = "0",
                field_files_exist |-> run.fields # {},
                error_vs_reference |-> ErrorVsReference]
  /\ Goto("done")
  /\ UNCHANGED <<task, env, plan, disk, run, verdict, handed, truth>>

------------------------------------------------------------------------------
Tasks == {s \in NektarProblemSpec : s.geometry = "overlay" => s.planar}

Next == IssueTask \/ BuildPlan \/ ExecutePlan \/ RunPostprocess \/ ValidateRun

Typed ==
  /\ task \in NektarProblemSpec
  /\ Made(plan) => plan \in NektarSessionPlan
  /\ Made(run) => run \in NektarRunArtifact
  /\ Made(report) => report \in NektarValidationReport

(* The solver ended with exit code 0, the norms printed last, if any, are *)
(* not beyond the tolerance (they may be no numbers), and fields lie in  *)
(* the directory, though a former run may have left them.                *)
Earned ==
  /\ truth.exit = "0" /\ "solver" \notin truth.lacks
  /\ task.geometry = "overlay" => "mesh" \notin truth.lacks
  /\ truth.content # "exceeds"
  /\ disk \cap Fields # {}

(* The artifact's reason and status and the comparison with the reference*)
(* tell what happened; a norm that is no number may be judged either way.*)
CauseNamed ==
  /\ run.reason = "solver_timeout" <=> truth.exit = "timeout"
  /\ run.status = "unavailable" => truth.lacks # {}
  /\ report.error_vs_reference = "true" => truth.content \in {"within", "nan"}
  /\ report.error_vs_reference = "false" => truth.content \in {"exceeds", "nan"}
==============================================================================
