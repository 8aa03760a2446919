---------------------------- MODULE ExtensionsProofs ---------------------------
(***************************************************************************)
(* Proofs about Extensions, for any number of runs of a task: what a       *)
(* report says is so, and what is promoted was earned.  For each of the    *)
(* twelve extensions, XInv ties what the components have left by each      *)
(* stage to what really happened; it holds of a task that begins           *)
(* (XBegins), of one that is run again in the directory of its last run    *)
(* (XRestarts), and after each step (XStep), and it implies what is said   *)
(* of the extension (XHolds).  ExtensionsInv joins the twelve.             *)
(***************************************************************************)
EXTENDS Extensions, TLAPS

------------------------------------------------------------------------------
(* What the proofs of the extensions have in common: the restart of a task *)
(* by Again, the records that can stand for what really happened, and      *)
(* which components have not worked yet.                                   *)
Restarts ==
  /\ stage' = "issue"
  /\ env' = Nothing /\ plan' = Nothing /\ run' = Nothing /\ report' = Nothing
  /\ verdict' = Nothing /\ handed' = NotHanded /\ truth' = Untouched
  /\ UNCHANGED <<task, disk>>
Truths(lacks, exits, wrote, contents) ==
  [lacks : lacks, exit : exits, wrote : wrote, content : contents]
NotJudged == verdict = Nothing /\ handed = Nothing
NotReported == report = Nothing /\ NotJudged
NotRun == run = Nothing /\ NotReported
NotPlanned == plan = Nothing /\ NotRun

------------------------------------------------------------------------------
(* Octave.  OctaveInv says, for each stage of a run, what the components   *)
(* that have worked are known to have left, and how that stands to what    *)
(* really happened.                                                        *)
OctaveTruth ==
    truth \in Truths(SUBSET Octave!Prerequisites,
                     {"not run", "0", "1", "timeout", "cancelled", "unfinished"},
                     SUBSET Octave!Outputs, {"none", "good", "nan", "far"})
OctaveProbed ==
    /\ env \in Octave!OctaveEnvironmentReport
    /\ env.available <=> env.lacks = {}
    /\ truth.lacks \subseteq env.lacks
    /\ env.lacks \subseteq truth.lacks \cup {"package"}
    /\ truth.exit = "not run" /\ truth.content = "none"
OctavePlanned == plan \in Octave!OctaveRunPlan /\ plan.expects = task.expects
OctaveRan ==
    /\ run \in Octave!OctaveRunArtifact
    /\ truth.lacks # {} => run.status = "unavailable"
    /\ run.status = "unavailable" => truth.lacks # {} \/ Octave!ListUnread \/ Octave!JobLost
    /\ run.status = "completed" =>
         truth.exit = "0" /\ task.expects \cap {"variable"} \subseteq truth.wrote
    /\ run.status = "failed" => truth.exit \in {"1", "cancelled"}
    /\ run.status = "timeout" => truth.exit = "timeout"
    /\ run.status = "unavailable" => truth.exit = "not run" \/ Octave!JobLost
    /\ run.outputs \cup run.figures \subseteq disk
    /\ run.code = "0" => run.status = "completed"
    /\ run.code = "1" => run.status = "failed"
    /\ run.parsed # "none" => truth.content = run.parsed /\ "variable" \in disk
OctaveReported ==
    /\ report \in Octave!OctaveValidationReport
    /\ Octave!CauseNamed /\ (report.passed => Octave!Earned)
OctaveGiven ==
    /\ task \in Octave!OctaveExperimentSpec /\ OctaveTruth
    /\ env = Nothing \/ env \in Octave!OctaveEnvironmentReport
    /\ plan = Nothing \/ plan \in Octave!OctaveRunPlan
    /\ run = Nothing \/ run \in Octave!OctaveRunArtifact

OctaveInv ==
    /\ OctaveGiven
    /\ \/ stage \in {"issue", "probe"} /\ Idle
       \/ stage = "compile" /\ OctaveProbed /\ NotPlanned
       \/ stage = "execute" /\ OctaveProbed /\ OctavePlanned /\ NotRun
       \/ stage \in {"parse", "validate"} /\ OctavePlanned /\ OctaveRan /\ NotReported
       \/ stage = "judge" /\ OctaveReported /\ NotJudged
       \/ stage = "hand over" /\ OctaveReported /\ verdict \in Octave!OctavePolicyReport /\ handed = Nothing
       \/ stage = "done" /\ OctaveReported /\ verdict \in Octave!OctavePolicyReport
            /\ handed.made /\ (handed.promoted => report.passed)
       \/ stage = "raised" /\ NotReported

(* A run of Octave begins in OctaveInv, from a fresh start or when the     *)
(* task is run again, and stays there when nothing happens.                *)
LEMMA OctaveBegins ==
    ASSUME At("issue"), Idle, task \in Octave!Tasks PROVE OctaveInv
BY DEF Idle, OctaveInv, OctaveGiven, Untouched, OctaveTruth, Truths, At, Octave!Tasks

LEMMA OctaveRestarts == ASSUME OctaveInv, Restarts PROVE OctaveInv'
BY DEF Restarts, OctaveInv, OctaveGiven, Untouched, Idle, OctaveTruth, Truths

LEMMA OctaveStays == ASSUME OctaveInv, UNCHANGED vars PROVE OctaveInv'
BY DEF vars, OctaveTruth, OctaveProbed, OctavePlanned, OctaveRan, OctaveReported,
    OctaveGiven, OctaveInv, Idle, NotHanded, NotPlanned, NotRun, NotReported, NotJudged,
    Octave!CauseNamed, Octave!Earned, Octave!ListUnread, Octave!JobLost

(* Every step of Octave preserves OctaveInv, one component at a time.      *)
LEMMA OctaveStep == ASSUME OctaveInv, Octave!Next PROVE OctaveInv'
<1> USE DEF Octave!At, Octave!Goto, Octave!Raise, NotPlanned, NotRun, NotReported, NotJudged
<1>1. CASE Octave!Issue_task
  BY <1>1 DEF Octave!Issue_task, OctaveInv, OctaveGiven, OctaveTruth, Idle, NotHanded
<1>2. CASE Octave!Probe
  <2>1. OctaveGiven /\ Idle /\ At("probe")
    BY <1>2 DEF Octave!Probe, OctaveInv, At, OctaveProbed, OctaveRan, OctaveReported
  <2>2. PICK lacks \in SUBSET Octave!Prerequisites, unread \in SUBSET {"package"} :
          /\ env' = [available |-> lacks \cup unread = {}, blocks |-> lacks \cup unread # {},
                     lacks |-> lacks \cup unread]
          /\ truth' = [truth EXCEPT !.lacks = lacks]
    BY <1>2 DEF Octave!Probe
  <2>3. truth' = [lacks |-> lacks, exit |-> "not run", wrote |-> {}, content |-> "none"]
    BY <2>1, <2>2 DEF Idle, Untouched
  <2>4. OctaveTruth'
    BY <2>3 DEF OctaveTruth, Truths
  <2>5. /\ env' \in Octave!OctaveEnvironmentReport
        /\ env'.lacks = lacks \cup unread /\ (env'.available <=> env'.lacks = {})
    BY <2>2 DEF Octave!OctaveEnvironmentReport, Octave!Prerequisites
  <2>6. OctaveProbed'
    <3>1. truth'.lacks = lacks /\ truth'.exit = "not run" /\ truth'.content = "none"
      BY <2>3
    <3>2. lacks \subseteq env'.lacks /\ env'.lacks \subseteq lacks \cup {"package"}
      BY <2>5
    <3> QED BY <2>5, <3>1, <3>2 DEF OctaveProbed
  <2>7. stage' = "compile" /\ NotPlanned' /\ task' = task
    BY <1>2, <2>1 DEF Octave!Probe, Idle, NotHanded
  <2>8. OctaveGiven'
    BY <2>1, <2>4, <2>5, <2>7 DEF OctaveGiven
  <2> QED BY <2>6, <2>7, <2>8 DEF OctaveInv
<1>3. CASE Octave!Compile
  <2>1. OctaveGiven /\ OctaveProbed /\ NotPlanned
    BY <1>3 DEF Octave!Compile, OctaveInv
  <2>2. UNCHANGED <<task, env, disk, run, report, verdict, handed, truth>>
    BY <1>3 DEF Octave!Compile
  <2>3. CASE Octave!Unsafe(task)
    BY <1>3, <2>1, <2>2, <2>3 DEF Octave!Compile, OctaveInv, OctaveGiven, OctaveTruth
  <2>4. CASE ~ Octave!Unsafe(task)
    <3>1. stage' = "execute" /\ plan' = [expects |-> task.expects, required |-> task.required]
      BY <1>3, <2>4 DEF Octave!Compile
    <3>2. OctavePlanned'
      BY <2>1, <2>2, <3>1 DEF OctaveGiven, Octave!OctaveExperimentSpec,
         Octave!OctaveRunPlan, OctavePlanned
    <3>3. OctaveProbed' /\ NotRun' /\ OctaveGiven'
      BY <2>1, <2>2, <3>2 DEF OctaveProbed, OctaveGiven, OctavePlanned, OctaveTruth
    <3> QED BY <3>1, <3>2, <3>3 DEF OctaveInv
  <2> QED BY <2>3, <2>4
<1>4. CASE Octave!Execute
  <2>1. OctaveGiven /\ OctaveProbed /\ OctavePlanned /\ NotRun
    BY <1>4 DEF Octave!Execute, OctaveInv, Idle
  <2>2. UNCHANGED <<task, env, plan, report, verdict, handed>> /\ stage' = "parse"
    BY <1>4 DEF Octave!Execute
  <2>3. OctavePlanned' /\ NotReported'
    BY <2>1, <2>2 DEF OctavePlanned
  <2>4. ASSUME OctaveTruth', OctaveRan' PROVE OctaveInv'
    BY <2>1, <2>2, <2>3, <2>4 DEF OctaveInv, OctaveGiven, OctaveRan
  <2>5. ASSUME run' = Octave!Unavailable PROVE /\ run' \in Octave!OctaveRunArtifact
           /\ run'.status = "unavailable" /\ run'.code = "none" /\ run'.outputs = {} /\ run'.figures = {}
           /\ run'.parsed = "none"
    BY <2>5 DEF Octave!Unavailable, Octave!Artifact, Octave!OctaveRunArtifact,
       Octave!OctaveWarning
  <2>6. CASE ~ env.available /\ run' = Octave!Unavailable /\ UNCHANGED <<disk, truth>>
    <3>1. OctaveTruth' /\ truth'.exit = "not run"
      BY <2>1, <2>6 DEF OctaveGiven, OctaveTruth, OctaveProbed
    <3>2. truth'.lacks # {} \/ Octave!ListUnread'
      <4>1. env.lacks # {} /\ env.lacks \subseteq truth.lacks \cup {"package"}
        BY <2>1, <2>6 DEF OctaveProbed
      <4>2. truth' = truth /\ env' = env
        BY <2>2, <2>6
      <4> QED BY <4>1, <4>2 DEF Octave!ListUnread
    <3>3. /\ run' \in Octave!OctaveRunArtifact
          /\ run'.status = "unavailable" /\ run'.code = "none" /\ run'.outputs = {}
          /\ run'.figures = {} /\ run'.parsed = "none"
      BY <2>5, <2>6
    <3>4. OctaveRan'
      BY <3>1, <3>2, <3>3 DEF OctaveRan
    <3> QED BY <2>4, <3>1, <3>4
  <2>7. CASE /\ run' = Octave!Unavailable
             /\ truth' = [truth EXCEPT !.lacks = {"binary"}]
             /\ UNCHANGED disk
    <3>1. OctaveTruth' /\ truth'.lacks = {"binary"} /\ truth'.exit = "not run"
      BY <2>1, <2>7 DEF OctaveGiven, OctaveTruth, OctaveProbed, Truths,
         Octave!Prerequisites
    <3>2. truth'.lacks # {}
      BY <3>1
    <3>3. /\ run' \in Octave!OctaveRunArtifact
          /\ run'.status = "unavailable" /\ run'.code = "none" /\ run'.outputs = {}
          /\ run'.figures = {} /\ run'.parsed = "none"
      BY <2>5, <2>7
    <3>4. OctaveRan'
      BY <3>1, <3>2, <3>3 DEF OctaveRan
    <3> QED BY <2>4, <3>1, <3>4
  <2>8. ASSUME env.available,
               NEW exit \in {"0", "1", "timeout"},
               NEW wrote \in Octave!WrapperWrites(exit),
               NEW says \in {{}, {"blocking"}, {"suspicious"}, {"benign"}},
               truth' = [truth EXCEPT !.exit = exit, !.wrote = wrote],
               disk' = disk \cup wrote,
               run' = Octave!Artifact(
                  CASE exit = "0" -> "completed" [] exit = "1" -> "failed"
                    [] OTHER -> "timeout",
                  IF exit = "timeout" THEN "none" ELSE exit,
                  Octave!Discovered(disk') \ {"figure"}, Octave!Discovered(disk') \cap {"figure"},
                  TRUE, says)
        PROVE  OctaveInv'
    <3>1. wrote \in SUBSET Octave!Outputs /\ plan.expects \in SUBSET Octave!Outputs
      BY <2>1 DEF OctavePlanned, Octave!OctaveRunPlan, Octave!WrapperWrites
    <3>2. /\ OctaveTruth' /\ truth'.lacks = {} /\ truth'.exit = exit
          /\ truth'.content = "none" /\ truth'.wrote = wrote
      BY <2>1, <2>8, <3>1 DEF OctaveGiven, OctaveTruth, OctaveProbed, Truths
    <3>6. exit = "0" => task'.expects \cap {"variable"} \subseteq truth'.wrote
      BY <2>1, <2>2, <2>8, <3>2 DEF OctavePlanned, Octave!WrapperWrites
    <3>3. /\ run'.status = CASE exit = "0" -> "completed" [] exit = "1" -> "failed" [] OTHER -> "timeout"
          /\ run'.code = IF exit = "timeout" THEN "none" ELSE exit
          /\ run'.outputs \cup run'.figures \subseteq disk'
          /\ run'.parsed = "none"
      BY <2>8 DEF Octave!Artifact, Octave!Discovered
    <3>4. run' \in Octave!OctaveRunArtifact
      BY <2>8, <3>1 DEF Octave!Artifact, Octave!Discovered, Octave!OctaveRunArtifact,
         Octave!OctaveWarning
    <3>5. OctaveRan'
      BY <3>2, <3>3, <3>4, <3>6 DEF OctaveRan
    <3> QED BY <2>4, <3>2, <3>5
  <2> QED BY <1>4, <2>6, <2>7, <2>8 DEF Octave!Execute
<1>5. CASE Octave!ExecuteInKubernetes
  <2>1. OctaveGiven /\ OctaveProbed /\ OctavePlanned /\ NotRun
    BY <1>5 DEF Octave!ExecuteInKubernetes, OctaveInv, Idle
  <2>2. UNCHANGED <<task, env, plan, report, verdict, handed>> /\ stage' = "parse" /\ env.available
    BY <1>5 DEF Octave!ExecuteInKubernetes
  <2>3. PICK exit \in {"0", "1", "cancelled", "unfinished"}, logs \in BOOLEAN :
          \E wrote \in Octave!WrapperWrites(exit) :
             /\ truth' = [truth EXCEPT !.exit = exit, !.wrote = wrote]
             /\ \/ exit # "unfinished" /\ disk' = disk \cup wrote
                   /\ run' = Octave!Collected(exit, logs)
                \/ disk' \in {{}, disk \cup wrote} /\ run' = Octave!NoResult
    BY <1>5 DEF Octave!ExecuteInKubernetes
  <2>3w. PICK wrote \in Octave!WrapperWrites(exit) :
             /\ truth' = [truth EXCEPT !.exit = exit, !.wrote = wrote]
             /\ \/ exit # "unfinished" /\ disk' = disk \cup wrote
                   /\ run' = Octave!Collected(exit, logs)
                \/ disk' \in {{}, disk \cup wrote} /\ run' = Octave!NoResult
    BY <2>3
  <2>4. wrote \in SUBSET Octave!Outputs
    BY <2>1 DEF OctavePlanned, Octave!OctaveRunPlan, Octave!WrapperWrites
  <2>5. OctaveTruth' /\ truth'.lacks = {} /\ truth'.exit = exit /\ truth'.wrote = wrote
    BY <2>1, <2>2, <2>3w, <2>4 DEF OctaveGiven, OctaveTruth, OctaveProbed, Truths
  <2>6. OctaveRan'
    <3>1. CASE exit # "unfinished" /\ run' = Octave!Collected(exit, logs)
      <4>1. /\ run'.status = (IF exit = "0" THEN "completed" ELSE "failed") /\ run'.code = "none"
            /\ run'.outputs \cup run'.figures \subseteq disk' /\ run'.parsed = "none"
            /\ run' \in Octave!OctaveRunArtifact
        BY <3>1 DEF Octave!Collected, Octave!Artifact, Octave!OctaveRunArtifact
      <4>2. run'.status = "failed" => exit \in {"1", "cancelled"}
        BY <3>1, <4>1
      <4>3. exit = "0" => task'.expects \cap {"variable"} \subseteq truth'.wrote
        BY <2>1, <2>2, <2>5 DEF OctavePlanned, Octave!WrapperWrites
      <4> QED BY <2>5, <4>1, <4>2, <4>3 DEF OctaveRan
    <3>2. CASE run' = Octave!NoResult
      <4>1. /\ run'.status = "unavailable" /\ run'.code = "none" /\ run'.remote
            /\ run'.outputs = {} /\ run'.figures = {} /\ run'.parsed = "none"
            /\ run' \in Octave!OctaveRunArtifact
        BY <3>2 DEF Octave!NoResult, Octave!Artifact, Octave!OctaveRunArtifact
      <4>2. Octave!JobLost'
        BY <4>1 DEF Octave!JobLost
      <4> QED BY <2>5, <4>1, <4>2 DEF OctaveRan
    <3> QED BY <2>3w, <3>1, <3>2
  <2> QED BY <2>1, <2>2, <2>5, <2>6 DEF OctaveInv, OctaveGiven, OctavePlanned, OctaveRan
<1>6. CASE Octave!ParseOutputs
  <2>1. OctaveGiven /\ OctavePlanned /\ OctaveRan /\ NotReported
    BY <1>6 DEF Octave!ParseOutputs, OctaveInv, Idle
  <2>2. UNCHANGED <<task, env, plan, disk, report, verdict, handed>> /\ stage' = "validate"
    BY <1>6 DEF Octave!ParseOutputs
  <2>3. ASSUME OctaveTruth', OctaveRan' PROVE OctaveInv'
    BY <2>1, <2>2, <2>3 DEF OctaveInv, OctaveGiven, OctaveRan, OctavePlanned
  <2>4. CASE UNCHANGED <<run, truth>>
    BY <2>1, <2>2, <2>3, <2>4 DEF OctaveRan, OctaveGiven, OctaveTruth, Octave!ListUnread,
       Octave!JobLost
  <2>5. ASSUME NEW value \in {"good", "nan", "far"}, "variable" \in run.outputs, run' = [run EXCEPT !.parsed = value],
               truth' = [truth EXCEPT !.content = value]
        PROVE  OctaveInv'
    <3>1. /\ OctaveTruth' /\ truth'.lacks = truth.lacks /\ truth'.exit = truth.exit
          /\ truth'.wrote = truth.wrote /\ truth'.content = value
      BY <2>1, <2>5 DEF OctaveGiven, OctaveTruth, Truths
    <3>2. /\ run' \in Octave!OctaveRunArtifact /\ run'.status = run.status /\ run'.code = run.code
          /\ run'.outputs = run.outputs /\ run'.figures = run.figures /\ run'.parsed = value
          /\ run'.remote = run.remote
      BY <2>1, <2>5 DEF OctaveRan, Octave!OctaveRunArtifact
    <3>3. OctaveRan'
      BY <2>1, <2>2, <2>5, <3>1, <3>2 DEF OctaveRan, Octave!ListUnread, Octave!JobLost
    <3> QED BY <2>3, <3>1, <3>3
  <2> QED BY <1>6, <2>4, <2>5 DEF Octave!ParseOutputs
<1>7. CASE Octave!Validate
  <2>1. OctaveGiven /\ OctavePlanned /\ OctaveRan /\ NotReported
    BY <1>7 DEF Octave!Validate, OctaveInv, Idle
  <2>2. UNCHANGED <<task, env, plan, disk, run, verdict, handed, truth>> /\ stage' = "judge"
    BY <1>7 DEF Octave!Validate
  <2>3. ASSUME OctaveReported' PROVE OctaveInv'
    BY <2>1, <2>2, <2>3 DEF OctaveInv, OctaveGiven, OctaveTruth
  <2>4. CASE Octave!EarlyIssue # "none"
    <3> DEFINE issues == {Octave!Issue(Octave!EarlyIssue, TRUE)}
               status == IF Octave!EarlyIssue = "octave_run_unavailable"
                         THEN "environment_invalid" ELSE "runtime_failed"
    <3>1. report' = Octave!FinalizeReport(status, issues)
      BY <1>7, <2>4 DEF Octave!Validate
    <3>2. Octave!EarlyIssue \in {"octave_run_unavailable", "octave_command_timeout",
              "octave_missing_exit_code", "octave_runtime_failed"}
      BY <2>4 DEF Octave!EarlyIssue
    <3>3. issues \in SUBSET [code : {Octave!EarlyIssue}, blocks : BOOLEAN]
      BY DEF Octave!Issue
    <3>4. status \in {"environment_invalid", "runtime_failed"}
      OBVIOUS
    <3>5. status = "environment_invalid" <=> run.status = "unavailable"
      BY <2>1, <2>4 DEF Octave!EarlyIssue, OctaveRan, Octave!OctaveRunArtifact
    <3> HIDE DEF issues, status
    <3>6. /\ report' \in Octave!OctaveValidationReport
          /\ report'.status = status /\ report'.passed = FALSE
      BY <2>1, <3>1, <3>2, <3>3, <3>4 DEF Octave!FinalizeReport, OctaveRan,
         Octave!OctaveRunArtifact,
         Octave!OctaveValidationReport, Octave!OctaveValidationStatus
    <3>7. OctaveReported'
      BY <2>1, <2>2, <3>4, <3>5, <3>6 DEF OctaveRan, OctaveReported, Octave!CauseNamed,
         Octave!OctaveRunArtifact, Octave!ListUnread, Octave!JobLost
    <3> QED BY <2>3, <3>7
  <2>5. CASE Octave!EarlyIssue = "none"
    <3> DEFINE issues == Octave!OutputIssues
               status == Octave!StatusFromIssues(issues)
    <3>1. report' = Octave!FinalizeReport(status, issues)
      BY <1>7, <2>5 DEF Octave!Validate
    <3>2. /\ run.status = "completed" /\ truth.lacks = {} /\ truth.exit = "0"
          /\ task.expects \cap {"variable"} \subseteq truth.wrote
      BY <2>1, <2>5 DEF Octave!EarlyIssue, OctaveRan, Octave!OctaveRunArtifact
    <3>3. issues \in SUBSET [code : {"octave_blocking_warning", "octave_suspicious_warning",
             "octave_output_missing", "octave_numeric_nan", "octave_numeric_tolerance_failed"},
             blocks : BOOLEAN]
      <4>1. Octave!NumericIssues \in SUBSET [code : {"octave_numeric_nan", "octave_numeric_tolerance_failed"}, blocks : BOOLEAN]
        <5>1. Octave!Issue("octave_numeric_nan", TRUE) \in [code : {"octave_numeric_nan", "octave_numeric_tolerance_failed"}, blocks : BOOLEAN]
          BY DEF Octave!Issue
        <5>2. Octave!Issue("octave_numeric_tolerance_failed", TRUE) \in [code : {"octave_numeric_nan", "octave_numeric_tolerance_failed"}, blocks : BOOLEAN]
          BY DEF Octave!Issue
        <5> QED BY <5>1, <5>2 DEF Octave!IssueIf, Octave!NumericIssues
      <4>2. {Octave!Issue("octave_output_missing", o \in plan.required) : o \in Octave!MissingEvidence}
              \in SUBSET [code : {"octave_output_missing"}, blocks : BOOLEAN]
        <5>1. ASSUME NEW o \in Octave!MissingEvidence
              PROVE  Octave!Issue("octave_output_missing", o \in plan.required)
                       \in [code : {"octave_output_missing"}, blocks : BOOLEAN]
          <6>1. (o \in plan.required) \in BOOLEAN
            OBVIOUS
          <6> QED BY <6>1, Zenon DEF Octave!Issue
        <5> QED BY <5>1
      <4>3. Octave!IssueIf("blocking" \in run.warnings, "octave_blocking_warning", TRUE)
              \in SUBSET [code : {"octave_blocking_warning"}, blocks : BOOLEAN]
        BY DEF Octave!Issue, Octave!IssueIf
      <4>4. Octave!IssueIf("suspicious" \in run.warnings, "octave_suspicious_warning", FALSE)
              \in SUBSET [code : {"octave_suspicious_warning"}, blocks : BOOLEAN]
        BY DEF Octave!Issue, Octave!IssueIf
      <4> QED BY <4>1, <4>2, <4>3, <4>4 DEF Octave!OutputIssues
    <3>4. status \in {"output_missing", "numeric_validation_failed", "runtime_failed", "executed"}
      BY DEF Octave!StatusFromIssues
    <3>5. ASSUME status = "executed" PROVE Octave!MissingEvidence = {} /\ Octave!NumericIssues = {}
      BY <3>5 DEF Octave!StatusFromIssues
    <3>6. ASSUME Octave!MissingEvidence = {} /\ Octave!NumericIssues = {} PROVE Octave!Earned
      <4>1. \A o \in plan.expects : Octave!Present(o)
        BY <3>6 DEF Octave!MissingEvidence
      <4>2. task.expects \subseteq disk
        <5>1. ASSUME NEW o \in task.expects PROVE o \in disk
          <6>1. CASE o # "variable"
            BY <2>1, <4>1, <6>1 DEF Octave!Present, OctavePlanned, OctaveRan
          <6>2. CASE o = "variable"
            <7>1. run.parsed # "none"
              BY <2>1, <4>1, <6>2 DEF Octave!Present, OctavePlanned
            <7> QED BY <2>1, <6>2, <7>1 DEF OctaveRan
          <6> QED BY <6>1, <6>2
        <5> QED BY <5>1
      <4>3. "variable" \in task.expects => truth.content \in {"good"} \cup (IF task.nanAllowed THEN {"nan"} ELSE {})
        <5> SUFFICES ASSUME "variable" \in task.expects
                     PROVE  truth.content \in {"good"} \cup (IF task.nanAllowed THEN {"nan"} ELSE {})
          OBVIOUS
        <5>1. run.parsed # "none" /\ truth.content = run.parsed /\ "variable" \in plan.expects
          BY <2>1, <4>1 DEF Octave!Present, OctavePlanned, OctaveRan
        <5>2. run.parsed # "far"
          BY <3>6, <5>1 DEF Octave!NumericIssues, Octave!IssueIf
        <5>3. run.parsed = "nan" => task.nanAllowed
          BY <3>6, <5>1 DEF Octave!NumericIssues, Octave!IssueIf
        <5>4. run.parsed \in {"none", "good", "nan", "far"}
          BY <2>1 DEF OctaveRan, Octave!OctaveRunArtifact
        <5> QED BY <5>1, <5>2, <5>3, <5>4
      <4> QED BY <3>2, <4>2, <4>3 DEF Octave!Earned
    <3> HIDE DEF issues, status
    <3>7. /\ report' \in Octave!OctaveValidationReport
          /\ report'.status = status /\ (report'.passed = (status = "executed"))
      BY <2>1, <3>1, <3>3, <3>4 DEF Octave!FinalizeReport, OctaveRan,
         Octave!OctaveRunArtifact,
         Octave!OctaveValidationReport, Octave!OctaveValidationStatus
    <3>8. OctaveReported'
      BY <2>1, <2>2, <3>2, <3>4, <3>5, <3>6, <3>7 DEF OctaveRan, OctaveReported,
         Octave!CauseNamed, Octave!Earned
    <3> QED BY <2>3, <3>8
  <2> QED BY <1>7, <2>4, <2>5
<1>8. CASE Octave!PostValidate
  <2>1. OctaveGiven /\ OctaveReported /\ NotJudged
    BY <1>8 DEF Octave!PostValidate, OctaveInv, Idle
  <2>2. UNCHANGED <<stage, task, env, plan, disk, run, verdict, handed, truth>> /\ stage = "judge"
    BY <1>8 DEF Octave!PostValidate
  <2>3. /\ report' \in Octave!OctaveValidationReport
        /\ report'.status = report.status /\ report'.passed = report.passed
    <3> DEFINE i == Octave!Issue("octave_context_invariant_deferred", FALSE)
    <3>1. report' = [report EXCEPT !.issues = @ \cup {i}] /\ report \in Octave!OctaveValidationReport
      BY <1>8, <2>1 DEF Octave!PostValidate, OctaveReported
    <3>2. i \in [code : {"octave_context_invariant_deferred"}, blocks : BOOLEAN]
      BY DEF Octave!Issue
    <3> HIDE DEF i
    <3> QED BY <3>1, <3>2 DEF Octave!OctaveValidationReport
  <2>4. OctaveReported'
    BY <2>1, <2>2, <2>3 DEF OctaveReported, Octave!CauseNamed, Octave!Earned,
     Octave!ListUnread, Octave!JobLost
  <2> QED BY <2>1, <2>2, <2>4 DEF OctaveInv, OctaveGiven, OctaveTruth
<1>9. CASE Octave!Judge
  <2>1. OctaveGiven /\ OctaveReported /\ NotJudged
    BY <1>9 DEF Octave!Judge, OctaveInv, Idle
  <2>2. UNCHANGED <<task, env, plan, disk, run, report, handed, truth>> /\ stage' = "hand over"
    BY <1>9 DEF Octave!Judge
  <2>3. verdict' \in Octave!OctavePolicyReport
    <3>1. PICK withEnv \in BOOLEAN :
            verdict' = [passed |-> Octave!Decision(Octave!Gates(withEnv)) = "allow",
                        decision |-> Octave!Decision(Octave!Gates(withEnv))]
      BY <1>9 DEF Octave!Judge
    <3>2. Octave!Decision(Octave!Gates(withEnv)) \in {"allow", "defer", "reject"}
      BY DEF Octave!Decision
    <3> QED BY <3>1, <3>2 DEF Octave!OctavePolicyReport
  <2>4. OctaveReported'
    BY <2>1, <2>2 DEF OctaveReported, Octave!CauseNamed, Octave!Earned,
     Octave!ListUnread, Octave!JobLost
  <2> QED BY <2>1, <2>2, <2>3, <2>4 DEF OctaveInv, OctaveGiven, OctaveTruth
<1>10. CASE Octave!HandOver
  <2>1. OctaveGiven /\ OctaveReported /\ verdict \in Octave!OctavePolicyReport
    BY <1>10 DEF Octave!HandOver, OctaveInv, Idle
  <2>2. UNCHANGED <<task, env, plan, disk, run, report, verdict, truth>> /\ stage' = "done"
    BY <1>10 DEF Octave!HandOver
  <2>3. handed'.made = TRUE /\ handed'.promoted = Octave!CoreValid
    BY <1>10 DEF Octave!HandOver, Octave!Handed
  <2>4. OctaveReported'
    BY <2>1, <2>2 DEF OctaveReported, Octave!CauseNamed, Octave!Earned,
     Octave!ListUnread, Octave!JobLost
  <2>5. handed'.promoted => report'.passed
    BY <2>2, <2>3 DEF Octave!CoreValid
  <2> QED BY <2>1, <2>2, <2>3, <2>4, <2>5 DEF OctaveInv, OctaveGiven, OctaveTruth
<1> QED BY <1>1, <1>2, <1>3, <1>4, <1>5, <1>6, <1>7, <1>8, <1>9, <1>10 DEF Octave!Next

(* OctaveInv is enough for the three properties.                           *)
LEMMA OctaveHolds ==
  ASSUME OctaveInv PROVE Octave!Typed /\ (Made(report) => Octave!CauseNamed) /\ (Accepted => Octave!Earned)
BY DEF OctaveInv, OctaveGiven, OctaveReported, NotPlanned, NotRun, NotReported,
   NotJudged, Octave!Typed, Made, Octave!Made, Nothing, Octave!Nothing, Idle, NotHanded,
   Accepted, At

------------------------------------------------------------------------------
(* FEALPy.  FealpyInv says, for each stage of a run, what the components   *)
(* that have worked are known to have left, and how that stands to what    *)
(* really happened.                                                        *)
FealpyTruth ==
  truth \in Truths(SUBSET {"fealpy", "backend"},
                   {"not run", "0", "1", "timeout", "unfinished"},
                   {{}}, {"none", "garbage", "small", "large", "nan"})
FealpyProbed ==
  /\ env \in Fealpy!FealpyEnvironmentReport
  /\ env.available <=> truth.lacks = {}
  /\ truth.exit = "not run" /\ task.family # "unsupported"
FealpyPlanned ==
  /\ plan \in Fealpy!FealpyRunPlan
  /\ ~plan.exhausted => Fealpy!WithinQuota
FealpyRan ==
  /\ run \in Fealpy!FealpyRunArtifact
  /\ run.status = "completed" =>
       truth.lacks = {} /\ truth.exit = "0" /\ Fealpy!WithinQuota
  /\ run.status = "unavailable" => truth.lacks # {} \/ Fealpy!JobLost
  /\ truth.exit = "1" => run.status = "failed" \/ Fealpy!JobLost
  /\ truth.exit = "timeout" => run.status = "timeout" \/ Fealpy!JobLost
  /\ run.l2 # "none" => truth.content = run.l2
FealpyReported ==
  /\ report \in Fealpy!FealpyValidationReport
  /\ Fealpy!CauseNamed /\ (report.passed => Fealpy!Earned)
FealpyGiven ==
  /\ task \in Fealpy!FealpyProblemSpec /\ FealpyTruth
  /\ env = Nothing \/ env \in Fealpy!FealpyEnvironmentReport
  /\ plan = Nothing \/ plan \in Fealpy!FealpyRunPlan
  /\ run = Nothing \/ run \in Fealpy!FealpyRunArtifact
FealpyInv ==
  /\ FealpyGiven
  /\ \/ stage = "issue" /\ Idle
     \/ stage = "probe" /\ Idle /\ task.family # "unsupported"
     \/ stage = "compile" /\ FealpyProbed /\ NotPlanned
     \/ stage = "execute" /\ FealpyProbed /\ FealpyPlanned /\ NotRun
     \/ stage = "validate" /\ FealpyRan /\ NotReported
     \/ stage = "judge" /\ FealpyReported /\ NotJudged
     \/ stage = "hand over" /\ FealpyReported /\ verdict \in Fealpy!FealpyPolicyReport
          /\ handed = Nothing
     \/ stage = "done" /\ FealpyReported /\ verdict \in Fealpy!FealpyPolicyReport
          /\ handed.made /\ (handed.promoted => report.passed)
     \/ stage = "raised" /\ NotReported

(* A run of FEALPy begins in FealpyInv, from a fresh start or when the     *)
(* task is run again, and stays there when nothing happens.                *)
LEMMA FealpyBegins ==
  ASSUME At("issue"), Idle, task \in Fealpy!Tasks PROVE FealpyInv
BY DEF Idle, FealpyInv, FealpyGiven, Untouched, FealpyTruth, Truths, At, NotHanded,
   Fealpy!Tasks

LEMMA FealpyRestarts == ASSUME FealpyInv, Restarts PROVE FealpyInv'
BY DEF Restarts, FealpyInv, FealpyGiven, Untouched, Idle, NotHanded, FealpyTruth, Truths

LEMMA FealpyQuota ==
  ASSUME task \in Fealpy!FealpyProblemSpec, ~Fealpy!Exhausted(task)
  PROVE  Fealpy!WithinQuota
<1> DEFINE m == task.mesh
           n == Fealpy!Nodes(m.nx, task.degree)
<1> SUFFICES ASSUME m.type = "tri" \/ m.nz # 0
             PROVE  Fealpy!BuiltDofs(m, task.degree) <= DofLimit
  BY DEF Fealpy!WithinQuota
<1>1. m.nx \in Int /\ m.nz \in Int /\ task.degree \in Int /\ m.type \in {"tri", "tet"}
  BY DEF Fealpy!FealpyProblemSpec, Fealpy!MeshSpec
<1>2. Fealpy!BuiltDofs(m, task.degree) = Fealpy!EstimateDofs(m, task.degree)
  BY <1>1 DEF Fealpy!BuiltDofs, Fealpy!EstimateDofs
<1>3. Fealpy!EstimateDofs(m, task.degree) \in Int
  <2>1. n \in Int /\ Fealpy!Nodes(m.nz, task.degree) \in Int
    BY <1>1 DEF Fealpy!Nodes
  <2> QED BY <2>1 DEF Fealpy!EstimateDofs
<1>4. ~(Fealpy!EstimateDofs(m, task.degree) > DofLimit)
  BY DEF Fealpy!Exhausted
<1> QED BY <1>2, <1>3, <1>4, ExtensionsAssumption DEF ExtensionsAssumption

LEMMA FealpyStays == ASSUME FealpyInv, UNCHANGED vars PROVE FealpyInv'
BY DEF vars, FealpyTruth, FealpyProbed, FealpyPlanned, FealpyRan, FealpyReported,
    FealpyGiven, FealpyInv, Idle, NotHanded, NotPlanned, NotRun, NotReported, NotJudged,
    Fealpy!CauseNamed, Fealpy!Earned, Fealpy!WithinQuota, Fealpy!JobLost

(* Every step of FEALPy preserves FealpyInv, one component at a time.      *)
LEMMA FealpyStep == ASSUME FealpyInv, Fealpy!Next PROVE FealpyInv'
<1> USE DEF Fealpy!At, Fealpy!Goto, Fealpy!Raise, NotPlanned, NotRun, NotReported, NotJudged
<1>1. CASE Fealpy!IssueTask
  BY <1>1 DEF Fealpy!IssueTask, FealpyInv, FealpyGiven, FealpyTruth, Idle, NotHanded
<1>2. CASE Fealpy!Probe
  <2>1. FealpyGiven /\ Idle /\ task.family # "unsupported"
    BY <1>2 DEF Fealpy!Probe, FealpyInv
  <2>2. PICK lacks \in SUBSET {"fealpy", "backend"} :
          /\ env' = [available |-> lacks = {}, blocks |-> lacks # {}, lacks |-> lacks]
          /\ truth' = [truth EXCEPT !.lacks = lacks]
    BY <1>2 DEF Fealpy!Probe
  <2>3. truth' = [lacks |-> lacks, exit |-> "not run", wrote |-> {}, content |-> "none"]
    BY <2>1, <2>2 DEF Idle, Untouched
  <2>4. FealpyTruth'
    BY <2>3 DEF FealpyTruth, Truths
  <2>5. env' \in Fealpy!FealpyEnvironmentReport
    BY <2>2 DEF Fealpy!FealpyEnvironmentReport
  <2>6. FealpyProbed'
    <3>1. env'.available = (lacks = {})
      BY <2>2
    <3>2. truth'.lacks = lacks /\ truth'.exit = "not run"
      BY <2>3
    <3> QED BY <1>2, <2>1, <2>5, <3>1, <3>2 DEF FealpyProbed, Fealpy!Probe
  <2>7. stage' = "compile" /\ NotPlanned' /\ task' = task
    BY <1>2, <2>1 DEF Fealpy!Probe, Idle, NotHanded
  <2>8. FealpyGiven'
    BY <2>1, <2>4, <2>5, <2>7 DEF FealpyGiven
  <2> QED BY <2>6, <2>7, <2>8 DEF FealpyInv
<1>3. CASE Fealpy!Compile
  <2>1. FealpyGiven /\ FealpyProbed /\ NotPlanned
    BY <1>3 DEF Fealpy!Compile, FealpyInv
  <2>2. UNCHANGED <<task, env, disk, run, report, verdict, handed, truth>> /\ stage' = "execute"
    BY <1>3 DEF Fealpy!Compile
  <2>3. plan' = [metrics |-> Fealpy!Metrics(task.family), exhausted |-> Fealpy!Exhausted(task)]
    BY <1>3 DEF Fealpy!Compile
  <2>4. Fealpy!Exhausted(task) \in BOOLEAN
    BY DEF Fealpy!Exhausted
  <2>5. Fealpy!Metrics(task.family) \in SUBSET {"l2", "h1"}
    <3>1. task.family \in {"scalar", "no gradient", "mixed", "unsupported"}
      BY <2>1 DEF FealpyGiven, Fealpy!FealpyProblemSpec, Fealpy!PdeFamilies
    <3> QED BY <2>1, <3>1 DEF Fealpy!Metrics, FealpyProbed
  <2>6. plan' \in Fealpy!FealpyRunPlan /\ plan'.exhausted = Fealpy!Exhausted(task)
    BY <2>3, <2>4, <2>5 DEF Fealpy!FealpyRunPlan
  <2>7. FealpyPlanned'
    BY <2>1, <2>2, <2>6, FealpyQuota DEF FealpyPlanned, FealpyGiven, Fealpy!WithinQuota
  <2>8. FealpyProbed' /\ NotRun' /\ FealpyGiven'
    BY <2>1, <2>2, <2>6 DEF FealpyProbed, FealpyGiven, FealpyTruth
  <2> QED BY <2>2, <2>7, <2>8 DEF FealpyInv
<1>4. CASE Fealpy!Execute
  <2>1. FealpyGiven /\ FealpyProbed /\ FealpyPlanned /\ NotRun
    BY <1>4 DEF Fealpy!Execute, FealpyInv, Idle
  <2>2. UNCHANGED <<task, env, plan, disk, report, verdict, handed>> /\ stage' = "validate"
    BY <1>4 DEF Fealpy!Execute
  <2>3. ASSUME FealpyTruth', FealpyRan' PROVE FealpyInv'
    BY <2>1, <2>2, <2>3 DEF FealpyInv, FealpyGiven, FealpyRan
  <2>4. ASSUME NEW status \in {"failed", "timeout"}
        PROVE  /\ Fealpy!Failed(status) \in Fealpy!FealpyRunArtifact
               /\ Fealpy!Failed(status).status = status /\ Fealpy!Failed(status).l2 = "none"
    BY DEF Fealpy!Failed, Fealpy!Artifact, Fealpy!FealpyRunArtifact
  <2>5. CASE plan.exhausted /\ run' = Fealpy!Failed("failed") /\ UNCHANGED truth
    BY <2>1, <2>3, <2>4, <2>5 DEF FealpyRan, FealpyGiven, FealpyTruth, FealpyProbed
  <2>6. CASE /\ ~plan.exhausted /\ ~env.available
             /\ run' = Fealpy!Artifact("unavailable", "none", "none", FALSE)
             /\ UNCHANGED truth
    <3>1. /\ run' \in Fealpy!FealpyRunArtifact
          /\ run'.status = "unavailable" /\ run'.l2 = "none"
      BY <2>6 DEF Fealpy!Artifact, Fealpy!FealpyRunArtifact
    <3> QED BY <2>1, <2>3, <2>6, <3>1 DEF FealpyRan, FealpyGiven, FealpyTruth,
        FealpyProbed
  <2>7. CASE ~plan.exhausted /\ env.available /\ Fealpy!RunSolver
    <3>1. truth.lacks = {} /\ Fealpy!WithinQuota'
      BY <2>1, <2>2, <2>7 DEF FealpyProbed, FealpyPlanned, Fealpy!WithinQuota
    <3>2. ASSUME NEW status \in {"failed", "timeout"}, NEW exit \in {"1", "timeout"},
                 status = "failed" <=> exit = "1",
                 run' = Fealpy!Failed(status), truth' = [truth EXCEPT !.exit = exit]
          PROVE  FealpyInv'
      <4>1. /\ FealpyTruth' /\ truth'.exit = exit /\ truth'.lacks = {}
        BY <2>1, <3>1, <3>2 DEF FealpyGiven, FealpyTruth, Truths
      <4>2. run' \in Fealpy!FealpyRunArtifact /\ run'.status = status /\ run'.l2 = "none"
        BY <2>4, <3>2
      <4>3. FealpyRan'
        BY <3>1, <3>2, <4>1, <4>2 DEF FealpyRan
      <4> QED BY <2>3, <4>1, <4>3
    <3>3. ASSUME NEW line \in {"garbage", "small", "large", "nan"},
                 run' = Fealpy!ParseOutput(plan.metrics, line),
                 truth' = [truth EXCEPT !.exit = "0", !.content = line]
          PROVE  FealpyInv'
      <4>1. /\ FealpyTruth' /\ truth'.exit = "0" /\ truth'.lacks = {} /\ truth'.content = line
        BY <2>1, <3>1, <3>3 DEF FealpyGiven, FealpyTruth, Truths
      <4>2. CASE line = "garbage"
        <5>1. run' = Fealpy!Failed("failed")
          BY <3>3, <4>2 DEF Fealpy!ParseOutput
        <5> QED BY <2>3, <2>4, <4>1, <5>1 DEF FealpyRan
      <4>3. CASE line # "garbage"
        <5>1. run' = [status |-> "completed", l2 |-> IF "l2" \in plan.metrics THEN line ELSE "none",
                      h1 |-> IF "h1" \in plan.metrics THEN line ELSE "none", refs |-> TRUE]
          BY <3>3, <4>3 DEF Fealpy!ParseOutput, Fealpy!Artifact
        <5>2. run' \in Fealpy!FealpyRunArtifact
          BY <4>3, <5>1 DEF Fealpy!FealpyRunArtifact
        <5>3. run'.status = "completed" /\ run'.l2 \in {line, "none"}
          BY <5>1
        <5>4. FealpyRan'
          BY <3>1, <4>1, <5>2, <5>3 DEF FealpyRan
        <5> QED BY <2>3, <4>1, <5>4
      <4> QED BY <4>2, <4>3
    <3> QED BY <2>7, <3>2, <3>3 DEF Fealpy!RunSolver
  <2> QED BY <1>4, <2>5, <2>6, <2>7 DEF Fealpy!Execute
<1>5. CASE Fealpy!ExecuteInKubernetes
  <2>1. FealpyGiven /\ FealpyProbed /\ FealpyPlanned /\ NotRun /\ env.available
    BY <1>5 DEF Fealpy!ExecuteInKubernetes, FealpyInv, Idle
  <2>2. UNCHANGED <<task, env, plan, disk, report, verdict, handed>>
    BY <1>5 DEF Fealpy!ExecuteInKubernetes
  <2>3. CASE plan.exhausted /\ stage' = "raised" /\ UNCHANGED <<run, truth>>
    BY <2>1, <2>2, <2>3 DEF FealpyInv, FealpyGiven, FealpyTruth
  <2>4. ASSUME ~plan.exhausted, stage' = "validate",
               NEW status \in {"completed", "failed", "timeout", "unavailable"},
               NEW exit \in {"0", "1", "timeout", "unfinished"},
               status # "unavailable" => exit # "unfinished" /\ status = Fealpy!JobStatus(exit),
               run' = Fealpy!Failed(status), truth' = [truth EXCEPT !.exit = exit]
        PROVE  FealpyInv'
    <3>1. truth.lacks = {} /\ Fealpy!WithinQuota'
      BY <2>1, <2>2, <2>4 DEF FealpyProbed, FealpyPlanned, Fealpy!WithinQuota
    <3>2. FealpyTruth' /\ truth'.exit = exit /\ truth'.lacks = {}
      BY <2>1, <2>4, <3>1 DEF FealpyGiven, FealpyTruth, Truths
    <3>3. /\ run' \in Fealpy!FealpyRunArtifact /\ run'.status = status
          /\ run'.l2 = "none" /\ run'.refs
      BY <2>4 DEF Fealpy!Failed, Fealpy!Artifact, Fealpy!FealpyRunArtifact
    <3>4. status = "unavailable" => Fealpy!JobLost'
      BY <3>3 DEF Fealpy!JobLost
    <3>5. status # "unavailable" =>
            /\ status = "completed" => exit = "0"
            /\ exit = "1" => status = "failed"
            /\ exit = "timeout" => status = "timeout"
      BY <2>4 DEF Fealpy!JobStatus
    <3>6. FealpyRan'
      BY <2>4, <3>1, <3>2, <3>3, <3>4, <3>5 DEF FealpyRan
    <3> QED BY <2>1, <2>2, <2>4, <3>2, <3>3, <3>6 DEF FealpyInv, FealpyGiven
  <2>5. CASE ~plan.exhausted
    <3>1. PICK exit \in {"0", "1", "timeout", "unfinished"} :
             /\ truth' = [truth EXCEPT !.exit = exit]
             /\ \/ exit # "unfinished" /\ run' = Fealpy!Failed(Fealpy!JobStatus(exit))
                \/ run' = Fealpy!Failed("unavailable")
      BY <1>5, <2>5 DEF Fealpy!ExecuteInKubernetes
    <3>2. stage' = "validate"
      BY <1>5, <2>5 DEF Fealpy!ExecuteInKubernetes
    <3>3. CASE exit # "unfinished" /\ run' = Fealpy!Failed(Fealpy!JobStatus(exit))
      <4>1. Fealpy!JobStatus(exit) \in {"completed", "failed", "timeout"}
        BY <3>3 DEF Fealpy!JobStatus
      <4> QED BY <2>4, <2>5, <3>1, <3>2, <3>3, <4>1
    <3>4. CASE run' = Fealpy!Failed("unavailable")
      BY <2>4, <2>5, <3>1, <3>2, <3>4
    <3> QED BY <3>1, <3>3, <3>4
  <2> QED BY <1>5, <2>3, <2>5 DEF Fealpy!ExecuteInKubernetes
<1>6. CASE Fealpy!Validate
  <2>1. FealpyGiven /\ FealpyRan /\ NotReported
    BY <1>6 DEF Fealpy!Validate, FealpyInv, Idle
  <2>2. UNCHANGED <<task, env, plan, disk, run, verdict, handed, truth>> /\ stage' = "judge"
    BY <1>6 DEF Fealpy!Validate
  <2>3. ASSUME FealpyReported' PROVE FealpyInv'
    BY <2>1, <2>2, <2>3 DEF FealpyInv, FealpyGiven, FealpyTruth
  <2>4. ASSUME NEW status, NEW code, report' = Fealpy!Rejection(status, code),
               \/ status = "environment_invalid" /\ run.status = "unavailable"
               \/ status = "runtime_failed"
               \/ status = "output_missing" /\ run.status = "completed",
               code \in {"FEALPY_ENV_UNAVAILABLE", "FEALPY_TIMEOUT",
                         "FEALPY_RUNTIME_FAILED", "FEALPY_OUTPUT_MISSING"}
        PROVE  FealpyReported'
    <3>1. Fealpy!Issue(code, TRUE) \in [code : {code}, blocks : {TRUE}]
      BY DEF Fealpy!Issue
    <3>2. report' \in Fealpy!FealpyValidationReport
      BY <2>4, <3>1 DEF Fealpy!Rejection, Fealpy!FealpyValidationReport
    <3>3. report'.passed = FALSE /\ report'.status = status
      BY <2>4 DEF Fealpy!Rejection
    <3> QED BY <2>1, <2>2, <2>4, <3>2, <3>3 DEF FealpyReported, FealpyRan,
        Fealpy!CauseNamed, Fealpy!JobLost
  <2>5. CASE run.status = "unavailable"
    BY <1>6, <2>3, <2>4, <2>5 DEF Fealpy!Validate
  <2>6. CASE run.status = "timeout"
    BY <1>6, <2>3, <2>4, <2>6 DEF Fealpy!Validate
  <2>7. CASE run.status = "failed"
    BY <1>6, <2>3, <2>4, <2>7 DEF Fealpy!Validate
  <2>8. CASE run.status = "completed" /\ run.l2 = "none" /\ run.h1 = "none"
    BY <1>6, <2>3, <2>4, <2>8 DEF Fealpy!Validate
  <2>9. CASE run.status = "completed" /\ ~(run.l2 = "none" /\ run.h1 = "none")
    <3> DEFINE issues == Fealpy!ToleranceIssues
               status == IF issues = {} THEN "executed" ELSE "numeric_validation_failed"
    <3>1. report' = [passed |-> issues = {}, status |-> status, issues |-> issues]
      BY <1>6, <2>9 DEF Fealpy!Validate
    <3>2. issues \in SUBSET [code : {"FEALPY_L2_TOLERANCE", "FEALPY_H1_TOLERANCE"}, blocks : {TRUE}]
      <4>1. ASSUME NEW code \in {"FEALPY_L2_TOLERANCE", "FEALPY_H1_TOLERANCE"}
            PROVE  Fealpy!Issue(code, TRUE) \in [code : {"FEALPY_L2_TOLERANCE", "FEALPY_H1_TOLERANCE"}, blocks : {TRUE}]
        BY DEF Fealpy!Issue
      <4> QED BY <4>1 DEF Fealpy!ToleranceIssues, Fealpy!IssueIf
    <3>3. issues = {} => run.l2 = "small"
      BY DEF Fealpy!ToleranceIssues, Fealpy!IssueIf
    <3>4. truth.lacks = {} /\ truth.exit = "0" /\ Fealpy!WithinQuota /\ (run.l2 = "small" => truth.content = "small")
      BY <2>1, <2>9 DEF FealpyRan
    <3>5. status \in {"executed", "numeric_validation_failed"}
      OBVIOUS
    <3> HIDE DEF issues, status
    <3>6. report' \in Fealpy!FealpyValidationReport
      BY <3>1, <3>2, <3>5 DEF Fealpy!FealpyValidationReport
    <3>7. report'.passed = (issues = {}) /\ report'.status = status
      BY <3>1
    <3>8. FealpyReported'
      BY <2>2, <3>3, <3>4, <3>5, <3>6, <3>7 DEF FealpyReported, Fealpy!CauseNamed,
         Fealpy!Earned, Fealpy!WithinQuota, Fealpy!JobLost
    <3> QED BY <2>3, <3>8
  <2> QED BY <2>1, <2>5, <2>6, <2>7, <2>8, <2>9 DEF FealpyRan, Fealpy!FealpyRunArtifact
<1>7. CASE Fealpy!Judge
  <2>1. FealpyGiven /\ FealpyReported /\ NotJudged
    BY <1>7 DEF Fealpy!Judge, FealpyInv, Idle
  <2>2. UNCHANGED <<task, env, plan, disk, run, report, handed, truth>> /\ stage' = "hand over"
    BY <1>7 DEF Fealpy!Judge
  <2>3. verdict' \in Fealpy!FealpyPolicyReport
    <3>1. PICK withEnv \in BOOLEAN :
            verdict' = [passed |-> Fealpy!Decision(Fealpy!Gates(withEnv)) = "allow",
                        decision |-> Fealpy!Decision(Fealpy!Gates(withEnv))]
      BY <1>7 DEF Fealpy!Judge
    <3>2. Fealpy!Decision(Fealpy!Gates(withEnv)) \in {"allow", "defer", "reject"}
      BY DEF Fealpy!Decision
    <3> QED BY <3>1, <3>2 DEF Fealpy!FealpyPolicyReport
  <2>4. FealpyReported'
    BY <2>1, <2>2 DEF FealpyReported, Fealpy!CauseNamed, Fealpy!Earned,
       Fealpy!WithinQuota, Fealpy!JobLost
  <2> QED BY <2>1, <2>2, <2>3, <2>4 DEF FealpyInv, FealpyGiven, FealpyTruth
<1>8. CASE Fealpy!HandOver
  <2>1. FealpyGiven /\ FealpyReported /\ verdict \in Fealpy!FealpyPolicyReport
    BY <1>8 DEF Fealpy!HandOver, FealpyInv, Idle
  <2>2. UNCHANGED <<task, env, plan, disk, run, report, verdict, truth>> /\ stage' = "done"
    BY <1>8 DEF Fealpy!HandOver
  <2>3. handed'.made = TRUE /\ handed'.promoted = Fealpy!CoreValid
    BY <1>8 DEF Fealpy!HandOver, Fealpy!Handed
  <2>4. FealpyReported'
    BY <2>1, <2>2 DEF FealpyReported, Fealpy!CauseNamed, Fealpy!Earned,
       Fealpy!WithinQuota, Fealpy!JobLost
  <2>5. handed'.promoted => report'.passed
    BY <2>2, <2>3 DEF Fealpy!CoreValid
  <2> QED BY <2>1, <2>2, <2>3, <2>4, <2>5 DEF FealpyInv, FealpyGiven, FealpyTruth
<1> QED BY <1>1, <1>2, <1>3, <1>4, <1>5, <1>6, <1>7, <1>8 DEF Fealpy!Next

(* FealpyInv is enough for the three properties.                           *)
LEMMA FealpyHolds ==
  ASSUME FealpyInv
  PROVE  Fealpy!Typed /\ (Made(report) => Fealpy!CauseNamed) /\ (Accepted => Fealpy!Earned)
BY DEF FealpyInv, FealpyGiven, FealpyReported, NotPlanned, NotRun, NotReported,
   NotJudged,
  Fealpy!Typed, Made, Fealpy!Made, Nothing, Fealpy!Nothing, Idle, NotHanded, Accepted, At

------------------------------------------------------------------------------
(* JEDI.  JediInv says, for each stage of a run, what the components that  *)
(* have worked are known to have left, and how that stands to what really  *)
(* happened.                                                               *)
JediTruth ==
  truth \in Truths(SUBSET Jedi!Needs, {"not run", "0", "1", "timeout"},
                   SUBSET Jedi!Files, {"none"})
JediPlanned ==
  /\ plan \in Jedi!JediRunPlan /\ plan.mode = task.mode
  /\ plan.outputs = Jedi!ExpectedOutputs(task)
JediReady == plan.paths \cap truth.lacks = {} /\ "binary" \notin truth.lacks
JediRan ==
  /\ run \in Jedi!JediRunArtifact
  /\ run.status = "unavailable" <=> truth.exit = "not run"
  /\ run.code = "0" => truth.exit = "0" /\ JediReady
  /\ truth.exit = "timeout" => run.reason = "command_timeout"
  /\ run.outputs \subseteq plan.outputs \cap Jedi!Left
  /\ run.diagnostics \subseteq Jedi!Left
  /\ run.schema => "schema.json" \in Jedi!Left
JediCleared == ~task.ownDirectory => disk = {}
JediReported ==
  /\ report \in Jedi!JediValidationReport
  /\ Jedi!CauseNamed /\ (report.passed => Jedi!Earned)
JediGiven ==
  /\ task \in Jedi!Tasks /\ JediTruth
  /\ env = Nothing \/ env \in Jedi!JediEnvironmentReport
  /\ plan = Nothing \/ plan \in Jedi!JediRunPlan
  /\ run = Nothing \/ run \in Jedi!JediRunArtifact
JediInv ==
  /\ JediGiven
  /\ \/ stage \in {"issue", "probe"} /\ Idle
     \/ stage = "compile" /\ truth.exit = "not run" /\ NotPlanned
     \/ stage = "execute" /\ truth.exit = "not run" /\ JediPlanned /\ JediCleared /\ NotRun
     \/ stage = "validate" /\ JediPlanned /\ JediRan /\ NotReported
     \/ stage = "judge" /\ JediReported /\ NotJudged
     \/ stage = "hand over" /\ JediReported /\ verdict \in Jedi!JediPolicyReport
          /\ handed = Nothing
     \/ stage = "done" /\ JediReported /\ verdict \in Jedi!JediPolicyReport
          /\ handed.made /\ (handed.promoted => report.passed)
     \/ stage = "raised" /\ NotReported

(* A run of JEDI begins in JediInv, from a fresh start or when the task is *)
(* run again, and stays there when nothing happens.                        *)
LEMMA JediBegins ==
  ASSUME At("issue"), Idle, task \in Jedi!Tasks PROVE JediInv
BY DEF Idle, JediInv, JediGiven, Untouched, JediTruth, Truths, At, NotHanded, Jedi!Tasks

LEMMA JediRestarts == ASSUME JediInv, Restarts PROVE JediInv'
BY DEF Restarts, JediInv, JediGiven, Untouched, Idle, NotHanded, JediTruth, Truths

LEMMA JediStays == ASSUME JediInv, UNCHANGED vars PROVE JediInv'
BY DEF vars, JediTruth, JediPlanned, JediReady, JediRan, JediReported, JediGiven,
    JediCleared, JediInv, Idle, NotHanded, NotPlanned, NotRun, NotReported, NotJudged,
    Jedi!CauseNamed, Jedi!Earned, Jedi!Left

(* Every step of JEDI preserves JediInv, one component at a time.          *)
LEMMA JediStep == ASSUME JediInv, Jedi!Next PROVE JediInv'
<1> USE DEF Jedi!At, Jedi!Goto, Jedi!Raise, NotPlanned, NotRun, NotReported, NotJudged
<1>1. CASE Jedi!IssueTask
  BY <1>1 DEF Jedi!IssueTask, JediInv, JediGiven, JediTruth, Idle, NotHanded
<1>2. CASE Jedi!Probe
  <2>1. JediGiven /\ Idle
    BY <1>2 DEF Jedi!Probe, JediInv
  <2>2. PICK lacks \in SUBSET Jedi!Needs :
          LET seen == lacks \ ((IF task.launched THEN {} ELSE {"launcher"})
                        \cup ({"background", "reference"} \ Jedi!RequiredPaths(task.family)))
          IN  /\ env' = [smokeReady |-> seen = {}, lacks |-> seen]
              /\ truth' = [truth EXCEPT !.lacks = lacks]
    BY <1>2 DEF Jedi!Probe
  <2>3. truth' = [lacks |-> lacks, exit |-> "not run", wrote |-> {}, content |-> "none"]
    BY <2>1, <2>2 DEF Idle, Untouched
  <2>4. JediTruth' /\ truth'.exit = "not run"
    BY <2>3 DEF JediTruth, Truths
  <2>5. env' \in Jedi!JediEnvironmentReport
    <3> DEFINE seen == lacks \ ((IF task.launched THEN {} ELSE {"launcher"})
                        \cup ({"background", "reference"} \ Jedi!RequiredPaths(task.family)))
    <3>1. seen \in SUBSET Jedi!Needs /\ env' = [smokeReady |-> seen = {}, lacks |-> seen]
      BY <2>2
    <3> HIDE DEF seen
    <3> QED BY <3>1 DEF Jedi!JediEnvironmentReport
  <2>6. stage' = "compile" /\ NotPlanned' /\ task' = task
    BY <1>2, <2>1 DEF Jedi!Probe, Idle, NotHanded
  <2>7. JediGiven'
    BY <2>1, <2>4, <2>5, <2>6 DEF JediGiven
  <2> QED BY <2>4, <2>6, <2>7 DEF JediInv
<1>3. CASE Jedi!BuildPlan
  <2>1. JediGiven /\ truth.exit = "not run" /\ NotPlanned
    BY <1>3 DEF Jedi!BuildPlan, JediInv
  <2>2. UNCHANGED <<task, env, run, report, verdict, handed, truth>> /\ stage' = "execute"
    BY <1>3 DEF Jedi!BuildPlan
  <2>3. plan' = [mode |-> task.mode, outputs |-> Jedi!ExpectedOutputs(task),
                 diagnostics |-> Jedi!ExpectedDiagnostics(task),
                 references |-> Jedi!ExpectedReferences(task),
                 paths |-> Jedi!RequiredRuntimePaths(task.family)]
    BY <1>3 DEF Jedi!BuildPlan
  <2>4. /\ Jedi!ExpectedOutputs(task) \in SUBSET Jedi!Files
        /\ Jedi!ExpectedDiagnostics(task) \in SUBSET Jedi!Files
        /\ Jedi!ExpectedReferences(task) \in SUBSET Jedi!Files
        /\ Jedi!RequiredRuntimePaths(task.family) \in SUBSET Jedi!Needs
    BY DEF Jedi!ExpectedOutputs, Jedi!ExpectedDiagnostics, Jedi!ExpectedReferences,
       Jedi!RequiredRuntimePaths, Jedi!Files, Jedi!Needs, Jedi!Departures
  <2>5. task.mode \in Jedi!Modes
    BY <2>1 DEF JediGiven, Jedi!Tasks, Jedi!JediExperimentSpec
  <2>6. plan' \in Jedi!JediRunPlan
    BY <2>3, <2>4, <2>5 DEF Jedi!JediRunPlan
  <2>7. JediPlanned'
    BY <2>2, <2>3, <2>6 DEF JediPlanned, Jedi!ExpectedOutputs
  <2>8. NotRun' /\ JediGiven'
    BY <2>1, <2>2, <2>6 DEF JediGiven, JediTruth
  <2>9. JediCleared'
    BY <1>3, <2>2 DEF Jedi!BuildPlan, JediCleared
  <2> QED BY <2>1, <2>2, <2>7, <2>8, <2>9 DEF JediInv
<1>4. CASE Jedi!Execute
  <2>1. JediGiven /\ truth.exit = "not run" /\ JediPlanned /\ JediCleared /\ NotRun
    BY <1>4 DEF Jedi!Execute, JediInv, Idle
  <2>2. UNCHANGED <<task, env, plan, report, verdict, handed>> /\ stage' = "validate"
    BY <1>4 DEF Jedi!Execute
  <2>3. ASSUME JediTruth', JediRan' PROVE JediInv'
    BY <2>1, <2>2, <2>3 DEF JediInv, JediGiven, JediRan, JediPlanned,
       Jedi!ExpectedOutputs
  <2>4. ASSUME NEW status \in {"completed", "failed", "unavailable"}, NEW code \in {"none", "0", "1"},
               NEW reason \in {"none", "missing_required_runtime_path", "binary_not_found",
                               "launcher_not_found", "command_timeout"},
               NEW files, run' = Jedi!BuildArtifact(status, code, reason, files)
        PROVE  /\ run' \in Jedi!JediRunArtifact
               /\ run'.status = status /\ run'.code = code /\ run'.reason = reason
               /\ run'.outputs = plan.outputs \cap files
               /\ run'.diagnostics = plan.diagnostics \cap files
               /\ run'.schema = ("schema.json" \in files)
    <3>1. run' = [status |-> status, code |-> code, reason |-> reason,
            schema |-> "schema.json" \in files,
            outputs |-> plan.outputs \cap files,
            diagnostics |-> plan.diagnostics \cap files,
            references |-> plan.references \cap files]
      BY <2>4 DEF Jedi!BuildArtifact
    <3>2. /\ plan.outputs \cap files \in SUBSET Jedi!Files
          /\ plan.diagnostics \cap files \in SUBSET Jedi!Files
          /\ plan.references \cap files \in SUBSET Jedi!Files
      BY <2>1 DEF JediPlanned, Jedi!JediRunPlan
    <3>3. run' \in Jedi!JediRunArtifact
      BY <3>1, <3>2 DEF Jedi!JediRunArtifact
    <3> QED BY <3>1, <3>3
  <2>5. CASE /\ Jedi!Fallback # "none"
             /\ run' = Jedi!BuildArtifact("unavailable", "none", Jedi!Fallback, disk)
             /\ UNCHANGED <<disk, truth>>
    <3>1. Jedi!Fallback \in {"missing_required_runtime_path", "binary_not_found", "launcher_not_found"}
      BY <2>5 DEF Jedi!Fallback
    <3>2. /\ run' \in Jedi!JediRunArtifact
          /\ run'.status = "unavailable" /\ run'.code = "none"
          /\ run'.outputs = plan.outputs \cap disk
          /\ run'.diagnostics = plan.diagnostics \cap disk
          /\ run'.schema = ("schema.json" \in disk)
      BY <2>4, <2>5, <3>1
    <3>3. disk' \subseteq Jedi!Left'
      BY <2>1, <2>2, <2>5 DEF JediCleared, Jedi!Left
    <3>4. JediRan'
      BY <2>1, <2>2, <2>5, <3>2, <3>3 DEF JediRan
    <3> QED BY <2>1, <2>3, <2>5, <3>4 DEF JediGiven, JediTruth
  <2>6. ASSUME Jedi!Fallback = "none", NEW exit \in {"0", "1", "timeout"},
               NEW wrote \in SUBSET Jedi!Expected,
               truth' = [truth EXCEPT !.exit = exit, !.wrote = wrote],
               disk' = Jedi!Written(wrote),
               run' = Jedi!BuildArtifact(
                  IF exit = "0" THEN "completed" ELSE "failed",
                  IF exit = "timeout" THEN "none" ELSE exit,
                  IF exit = "timeout" THEN "command_timeout" ELSE "none", disk')
        PROVE  JediInv'
    <3>1. JediReady
      BY <2>6 DEF Jedi!Fallback, JediReady
    <3>2. wrote \in SUBSET Jedi!Files
      BY <2>1, <2>6 DEF JediPlanned, Jedi!JediRunPlan, Jedi!Expected
    <3>3. /\ JediTruth' /\ truth'.exit = exit /\ truth'.lacks = truth.lacks
          /\ truth'.wrote = wrote
      BY <2>1, <2>6, <3>2 DEF JediGiven, JediTruth, Truths
    <3>4. /\ run' \in Jedi!JediRunArtifact
          /\ run'.status = (IF exit = "0" THEN "completed" ELSE "failed")
          /\ run'.code = (IF exit = "timeout" THEN "none" ELSE exit)
          /\ run'.reason = (IF exit = "timeout" THEN "command_timeout" ELSE "none")
          /\ run'.outputs = plan.outputs \cap disk'
          /\ run'.diagnostics = plan.diagnostics \cap disk'
          /\ run'.schema = ("schema.json" \in disk')
      BY <2>4, <2>6
    <3>5. JediRan'
      <4>1. JediReady'
        BY <2>2, <3>1, <3>3 DEF JediReady
      <4>2. run'.status # "unavailable" /\ (run'.code = "0" => exit = "0")
        BY <3>4
      <4>3. disk' \subseteq Jedi!Left'
        <5>1. disk = {} => disk' \subseteq wrote
          BY <2>6 DEF Jedi!Written
        <5> QED BY <2>1, <2>2, <3>3, <5>1 DEF JediCleared, Jedi!Left
      <4> QED BY <2>2, <2>6, <3>3, <3>4, <4>1, <4>2, <4>3 DEF JediRan
    <3> QED BY <2>3, <3>3, <3>5
  <2> QED BY <1>4, <2>5, <2>6 DEF Jedi!Execute
<1>5. CASE Jedi!ValidateRun
  <2>1. JediGiven /\ JediPlanned /\ JediRan /\ NotReported
    BY <1>5 DEF Jedi!ValidateRun, JediInv, Idle
  <2>2. UNCHANGED <<task, env, plan, disk, run, verdict, handed, truth>> /\ stage' = "judge"
    BY <1>5 DEF Jedi!ValidateRun
  <2> DEFINE passed == {"validated", "executed"}
             status == IF Jedi!ReportStatus = "executed" /\ ~Jedi!HasStructuredSignal
                       THEN "validation_failed" ELSE Jedi!ReportStatus
  <2>3. report' = [passed |-> status \in passed, status |-> status,
                   decision |-> Jedi!PolicyDecisionForStatus(status)]
    BY <1>5 DEF Jedi!ValidateRun
  <2>4. plan.mode \in Jedi!Modes /\ task.mode = plan.mode
    BY <2>1 DEF JediPlanned, Jedi!JediRunPlan
  <2>5. status \in {"environment_invalid", "runtime_failed", "validation_failed", "validated", "executed"}
    BY <2>4 DEF Jedi!ReportStatus, Jedi!Modes
  <2>6. status = "environment_invalid" <=> run.status = "unavailable"
    BY <2>4 DEF Jedi!ReportStatus, Jedi!Modes
  <2>7. run.status # "unavailable" /\ (run.reason = "command_timeout" \/ run.code # "0")
          => status = "runtime_failed"
    BY DEF Jedi!ReportStatus
  <2>8. ASSUME status \in passed PROVE Jedi!Earned
    <3>1. run.status # "unavailable" /\ run.code = "0"
      BY <2>6, <2>7, <2>8
    <3>2. truth.exit = "0" /\ JediReady
      BY <2>1, <3>1 DEF JediRan
    <3>3. CASE plan.mode = "schema"
      <4>1. run.schema
        BY <2>8, <3>3 DEF Jedi!ReportStatus
      <4>2. plan.outputs = {"schema.json"} /\ task.check # "rms_improves"
        BY <2>1, <2>4, <3>3 DEF JediPlanned, Jedi!ExpectedOutputs, JediGiven, Jedi!Tasks
      <4> QED BY <2>1, <3>2, <4>1, <4>2 DEF JediRan, Jedi!Earned, JediReady
    <3>4. CASE plan.mode = "validate_only"
      <4>1. plan.outputs = {} /\ task.check # "rms_improves"
        BY <2>1, <2>4, <3>4 DEF JediPlanned, Jedi!ExpectedOutputs, JediGiven, Jedi!Tasks
      <4> QED BY <3>2, <4>1 DEF Jedi!Earned, JediReady
    <3>5. CASE plan.mode = "real_run"
      <4>1. run.outputs # {} /\ (task.check = "rms_improves" => Jedi!RmsImproves)
        BY <2>8, <3>5 DEF Jedi!ReportStatus
      <4>2. plan.outputs = {"output"}
        BY <2>1, <2>4, <3>5 DEF JediPlanned, Jedi!ExpectedOutputs
      <4> QED BY <2>1, <3>2, <4>1, <4>2 DEF JediRan, Jedi!RmsImproves, Jedi!Earned,
          JediReady
    <3> QED BY <2>4, <3>3, <3>4, <3>5 DEF Jedi!Modes
  <2> HIDE DEF status
  <2>9. Jedi!PolicyDecisionForStatus(status) \in {"allow", "defer", "reject"}
    BY DEF Jedi!PolicyDecisionForStatus
  <2>10. report' \in Jedi!JediValidationReport
    <3>1. (status \in passed) \in BOOLEAN
      OBVIOUS
    <3> HIDE DEF passed
    <3> QED BY <2>3, <2>5, <2>9, <3>1 DEF Jedi!JediValidationReport
  <2>11. report'.passed = (status \in passed) /\ report'.status = status
    BY <2>3
  <2>12. truth.exit \in {"1", "timeout"} => status = "runtime_failed"
    BY <2>1, <2>7 DEF JediRan
  <2>13. JediReported'
    <3>1. Jedi!Earned => Jedi!Earned'
      BY <2>2 DEF Jedi!Earned, Jedi!Left
    <3>2. Jedi!CauseNamed'
      BY <2>1, <2>2, <2>6, <2>11, <2>12 DEF Jedi!CauseNamed, JediRan
    <3> HIDE DEF passed
    <3> QED BY <2>8, <2>10, <2>11, <3>1, <3>2 DEF JediReported
  <2> QED BY <2>1, <2>2, <2>13 DEF JediInv, JediGiven, JediTruth
<1>6. CASE Jedi!Judge
  <2>1. JediGiven /\ JediReported /\ NotJudged
    BY <1>6 DEF Jedi!Judge, JediInv, Idle
  <2>2. UNCHANGED <<task, env, plan, disk, run, report, handed, truth>> /\ stage' = "hand over"
    BY <1>6 DEF Jedi!Judge
  <2>3. verdict' \in Jedi!JediPolicyReport
    <3>1. verdict' = [passed |-> Jedi!Decision(Jedi!Gates) = "allow",
                      decision |-> Jedi!Decision(Jedi!Gates)]
      BY <1>6 DEF Jedi!Judge
    <3>2. Jedi!Decision(Jedi!Gates) \in {"allow", "defer", "reject"}
      BY DEF Jedi!Decision
    <3> QED BY <3>1, <3>2 DEF Jedi!JediPolicyReport
  <2>4. JediReported'
    BY <2>1, <2>2 DEF JediReported, Jedi!CauseNamed, Jedi!Earned, Jedi!Left
  <2> QED BY <2>1, <2>2, <2>3, <2>4 DEF JediInv, JediGiven, JediTruth
<1>7. CASE Jedi!HandOver
  <2>1. JediGiven /\ JediReported /\ verdict \in Jedi!JediPolicyReport
    BY <1>7 DEF Jedi!HandOver, JediInv, Idle
  <2>2. UNCHANGED <<task, env, plan, disk, run, report, verdict, truth>> /\ stage' = "done"
    BY <1>7 DEF Jedi!HandOver
  <2>3. handed'.made = TRUE /\ handed'.promoted = Jedi!CoreValid
    BY <1>7 DEF Jedi!HandOver, Jedi!Handed
  <2>4. JediReported'
    BY <2>1, <2>2 DEF JediReported, Jedi!CauseNamed, Jedi!Earned, Jedi!Left
  <2>5. handed'.promoted => report'.passed
    BY <2>2, <2>3 DEF Jedi!CoreValid
  <2> QED BY <2>1, <2>2, <2>3, <2>4, <2>5 DEF JediInv, JediGiven, JediTruth
<1> QED BY <1>1, <1>2, <1>3, <1>4, <1>5, <1>6, <1>7 DEF Jedi!Next

(* JediInv is enough for the three properties.                             *)
LEMMA JediHolds ==
  ASSUME JediInv
  PROVE  Jedi!Typed /\ (Made(report) => Jedi!CauseNamed) /\ (Accepted => Jedi!Earned)
BY DEF JediInv, JediGiven, JediReported, NotPlanned, NotRun, NotReported, NotJudged,
  Jedi!Typed, Made, Jedi!Made, Nothing, Jedi!Nothing, Idle, NotHanded, Accepted, At, Jedi!Tasks

------------------------------------------------------------------------------
(* QCompute.  QcomputeInv says, for each stage of a run, what the          *)
(* components that have worked are known to have left, and how that stands *)
(* to what really happened.                                                *)
QcomputeTruth ==
  truth \in Truths(SUBSET Qcompute!Needs, {"not run", "raised", "queued", "measured"},
                   SUBSET Nat, {"none"} \cup Qcompute!Counts)
QcomputeProbed ==
  /\ env \in Qcompute!QComputeEnvironmentReport
  /\ env.available =>
       "dependency" \notin truth.lacks /\ (Qcompute!Quafu => truth.lacks = {})
QcomputePlanned ==
  /\ plan \in Qcompute!QComputeRunPlan /\ plan.threshold = task.threshold
  /\ env.available
QcomputeRan ==
  /\ run \in Qcompute!QComputeRunArtifact
  /\ run.status = "completed" =>
       /\ truth.exit = "measured" /\ "result.json" \in disk
       /\ truth.content = run.counts /\ run.counts # "none"
       /\ Qcompute!Quafu => truth.wrote # {}
QcomputeReported ==
  /\ report \in Qcompute!QComputeValidationReport
  /\ Qcompute!CauseNamed /\ (report.passed => Qcompute!Earned)
QcomputeGiven ==
  /\ task \in Qcompute!QComputeExperimentSpec /\ QcomputeTruth
  /\ env = Nothing \/ env \in Qcompute!QComputeEnvironmentReport
  /\ plan = Nothing \/ plan \in Qcompute!QComputeRunPlan
  /\ run = Nothing \/ run \in Qcompute!QComputeRunArtifact \cup [attempts : 1..Qcompute!MaxRetries]
QcomputeTried ==
  /\ Qcompute!Quafu /\ NotReported
  /\ run = Nothing \/ run \in [attempts : 1..Qcompute!MaxRetries]
QcomputeInv ==
  /\ QcomputeGiven
  /\ \/ stage \in {"issue", "probe"} /\ Idle
     \/ stage = "refuse" /\ QcomputeProbed /\ NotPlanned
     \/ stage = "compile" /\ QcomputeProbed /\ env.available /\ NotPlanned
     \/ stage = "submit" /\ QcomputeProbed /\ QcomputePlanned /\ QcomputeTried
     \/ stage = "poll" /\ QcomputeProbed /\ QcomputePlanned /\ QcomputeTried
          /\ truth.wrote # {}
     \/ stage = "execute" /\ QcomputeProbed /\ QcomputePlanned /\ ~Qcompute!Quafu /\ NotRun
     \/ stage = "validate" /\ QcomputeProbed /\ QcomputePlanned /\ QcomputeRan /\ NotReported
     \/ stage = "judge" /\ QcomputeReported /\ NotJudged
     \/ stage = "hand over" /\ QcomputeReported /\ verdict \in Qcompute!QComputePolicyReport
          /\ handed = Nothing
     \/ stage = "done" /\ QcomputeReported /\ verdict \in Qcompute!QComputePolicyReport
          /\ handed.made /\ (handed.promoted => report.passed)
     \/ stage = "raised" /\ NotReported

(* A run of QCompute begins in QcomputeInv, from a fresh start or when the *)
(* task is run again, and stays there when nothing happens.                *)
LEMMA QcomputeTasks == Qcompute!Tasks \subseteq Qcompute!QComputeExperimentSpec
<1>1. [platform |-> "qiskit_aer", simulator |-> FALSE, tooWide |-> FALSE, needsToken |-> FALSE,
       noise |-> "none", mitigation |-> {}, threshold |-> FALSE]
        \in Qcompute!QComputeExperimentSpec
  BY DEF Qcompute!QComputeExperimentSpec, Qcompute!Platforms, Qcompute!NoiseModels
<1> QED BY <1>1 DEF Qcompute!Tasks

LEMMA QcomputeBegins ==
  ASSUME At("issue"), Idle, task \in Qcompute!Tasks PROVE QcomputeInv
BY QcomputeTasks DEF Idle, QcomputeInv, QcomputeGiven, Untouched, QcomputeTruth, Truths,
   At, NotHanded

LEMMA QcomputeRestarts == ASSUME QcomputeInv, Restarts PROVE QcomputeInv'
BY DEF Restarts, QcomputeInv, QcomputeGiven, Untouched, Idle, NotHanded, QcomputeTruth,
   Truths

LEMMA QcomputeStays == ASSUME QcomputeInv, UNCHANGED vars PROVE QcomputeInv'
BY DEF vars, QcomputeTruth, QcomputeProbed, QcomputePlanned, QcomputeRan,
    QcomputeReported, QcomputeGiven, QcomputeTried, QcomputeInv, Idle, NotHanded,
    NotPlanned, NotRun, NotReported, NotJudged, Qcompute!CauseNamed, Qcompute!Earned,
    Qcompute!Quafu

(* Every step of QCompute preserves QcomputeInv, one component at a time.  *)
LEMMA QcomputeStep == ASSUME QcomputeInv, Qcompute!Next PROVE QcomputeInv'
<1> USE DEF Qcompute!At, Qcompute!Goto, Qcompute!Raise, NotPlanned, NotRun, NotReported, NotJudged
<1>1. CASE Qcompute!IssueTask
  BY <1>1 DEF Qcompute!IssueTask, QcomputeInv, QcomputeGiven, QcomputeTruth, Idle,
     NotHanded
<1>2. CASE Qcompute!Probe
  <2>1. QcomputeGiven /\ Idle
    BY <1>2 DEF Qcompute!Probe, QcomputeInv
  <2>2. PICK lacks \in SUBSET Qcompute!Needs : \E calibration \in Qcompute!Calibrations :
          /\ LET status == Qcompute!EnvironmentStatus(lacks, calibration)
                 seen == Qcompute!CalibrationData(lacks, calibration)
             IN  env' = [available |-> status = "online", status |-> status,
                         calibration |-> seen,
                         blocks |-> status # "online" \/ seen = "stale"]
          /\ truth' = [truth EXCEPT !.lacks = lacks]
    BY <1>2 DEF Qcompute!Probe
  <2>3. PICK calibration \in Qcompute!Calibrations :
             LET status == Qcompute!EnvironmentStatus(lacks, calibration)
                 seen == Qcompute!CalibrationData(lacks, calibration)
             IN  env' = [available |-> status = "online", status |-> status,
                         calibration |-> seen,
                         blocks |-> status # "online" \/ seen = "stale"]
    BY <2>2
  <2> DEFINE status == Qcompute!EnvironmentStatus(lacks, calibration)
             seen == Qcompute!CalibrationData(lacks, calibration)
             platform == Qcompute!PlatformStatus(lacks, calibration)
  <2>4. truth' = [lacks |-> lacks, exit |-> "not run", wrote |-> {}, content |-> "none"]
    BY <2>1, <2>2 DEF Idle, Untouched
  <2>5. QcomputeTruth' /\ truth'.lacks = lacks
    BY <2>4 DEF QcomputeTruth, Truths
  <2>6. env' \in Qcompute!QComputeEnvironmentReport
    <3>1. platform \in {"online", "unsupported_platform", "dependency_missing",
             "invalid_backend_spec", "missing_api_token", "connection_error",
             "chip_maintenance", "calibration_stale"}
      BY Zenon DEF Qcompute!PlatformStatus
    <3> HIDE DEF platform
    <3>2. status \in {"online", "unsupported_platform", "dependency_missing",
             "invalid_backend_spec", "missing_api_token", "connection_error",
             "chip_maintenance", "calibration_stale", "insufficient_qubits",
             "calibration_unavailable"}
      BY <3>1 DEF Qcompute!EnvironmentStatus, platform
    <3>3. seen \in Qcompute!Calibrations
      BY DEF Qcompute!CalibrationData, Qcompute!Calibrations
    <3>4. env' = [available |-> status = "online", status |-> status, calibration |-> seen,
                  blocks |-> status # "online" \/ seen = "stale"]
      BY <2>3
    <3>5. (status = "online") \in BOOLEAN /\ (status # "online" \/ seen = "stale") \in BOOLEAN
      OBVIOUS
    <3> HIDE DEF status, seen
    <3> QED BY <3>2, <3>3, <3>4, <3>5 DEF Qcompute!QComputeEnvironmentReport
  <2>7. env'.available = (status = "online")
    BY <2>3
  <2>8. task' = task /\ NotPlanned' /\ stage' = (IF env'.available THEN "compile" ELSE "refuse")
    BY <1>2, <2>1 DEF Qcompute!Probe, Idle, NotHanded
  <2>9. QcomputeProbed'
    <3>1. ASSUME status = "online" PROVE "dependency" \notin lacks /\ (Qcompute!Quafu => lacks = {})
      <4>1. platform = "online" /\ ~Qcompute!InsufficientQubits(lacks, calibration)
        BY <3>1 DEF Qcompute!EnvironmentStatus
      <4>2. task.platform # "ibm_quantum" /\ "dependency" \notin lacks
        BY <4>1 DEF Qcompute!PlatformStatus
      <4>3. ASSUME Qcompute!Quafu PROVE lacks = {}
        <5>1. "token" \notin lacks
          BY <4>1, <4>2, <4>3 DEF Qcompute!PlatformStatus, Qcompute!Quafu
        <5>2. "connection" \notin lacks
          BY <4>1, <4>2, <4>3, <5>1 DEF Qcompute!PlatformStatus, Qcompute!Quafu
        <5>3. "chip" \notin lacks
          BY <4>1, <4>2, <4>3, <5>1, <5>2 DEF Qcompute!PlatformStatus, Qcompute!Quafu
        <5>4. "qubits" \notin lacks
          BY <4>1, <4>3 DEF Qcompute!InsufficientQubits
        <5> QED BY <4>2, <5>1, <5>2, <5>3, <5>4 DEF Qcompute!Needs
      <4> QED BY <4>2, <4>3
    <3> HIDE DEF status
    <3> QED BY <2>5, <2>6, <2>7, <2>8, <3>1 DEF QcomputeProbed, Qcompute!Quafu
  <2>10. QcomputeGiven'
    BY <2>1, <2>5, <2>6, <2>8 DEF QcomputeGiven
  <2> QED BY <2>8, <2>9, <2>10 DEF QcomputeInv
<1>3. CASE Qcompute!FailedEnvironmentBundle
  <2>1. QcomputeGiven /\ QcomputeProbed /\ NotPlanned
    BY <1>3 DEF Qcompute!FailedEnvironmentBundle, QcomputeInv
  <2>2. UNCHANGED <<task, env, disk, verdict, handed, truth>> /\ stage' = "judge"
    BY <1>3 DEF Qcompute!FailedEnvironmentBundle
  <2>3. plan' \in Qcompute!QComputeRunPlan
    BY <1>3 DEF Qcompute!FailedEnvironmentBundle, Qcompute!QComputeRunPlan
  <2>4. run' \in Qcompute!QComputeRunArtifact
    BY <1>3 DEF Qcompute!FailedEnvironmentBundle, Qcompute!QComputeRunArtifact
  <2>5. /\ report' \in Qcompute!QComputeValidationReport
        /\ report'.passed = FALSE /\ report'.status = "execution_failed"
    BY <1>3 DEF Qcompute!FailedEnvironmentBundle, Qcompute!QComputeValidationReport,
       Qcompute!QComputeValidationStatus
  <2>6. QcomputeReported'
    BY <2>5 DEF QcomputeReported, Qcompute!CauseNamed
  <2> QED BY <2>1, <2>2, <2>3, <2>4, <2>6 DEF QcomputeInv, QcomputeGiven, QcomputeTruth
<1>4. CASE Qcompute!BuildPlan
  <2>1. QcomputeGiven /\ QcomputeProbed /\ env.available /\ NotPlanned
    BY <1>4 DEF Qcompute!BuildPlan, QcomputeInv, Idle
  <2>2. UNCHANGED <<task, env, run, report, verdict, handed, truth>>
    BY <1>4 DEF Qcompute!BuildPlan
  <2>3. CASE stage' = "raised" /\ UNCHANGED plan
    BY <2>1, <2>2, <2>3 DEF QcomputeInv, QcomputeGiven, QcomputeTruth
  <2>4. CASE /\ plan' = [estimate |-> IF task.noise = "none" THEN "ideal" ELSE "noisy",
                         threshold |-> task.threshold]
             /\ stage' = (IF Qcompute!Quafu THEN "submit" ELSE "execute")
    <3>1. task.threshold \in BOOLEAN
      BY <2>1 DEF QcomputeGiven, Qcompute!QComputeExperimentSpec
    <3>2. plan' \in Qcompute!QComputeRunPlan /\ plan'.threshold = task.threshold
      BY <2>4, <3>1 DEF Qcompute!QComputeRunPlan
    <3>3. QcomputeGiven' /\ QcomputeProbed' /\ QcomputePlanned' /\ NotRun'
      BY <2>1, <2>2, <3>2 DEF QcomputeGiven, QcomputeProbed, QcomputePlanned,
         QcomputeTruth, Qcompute!Quafu
    <3>4. Qcompute!Quafu' <=> Qcompute!Quafu
      BY <2>2 DEF Qcompute!Quafu
    <3> QED BY <2>4, <3>3, <3>4 DEF QcomputeInv, QcomputeTried
  <2> QED BY <1>4, <2>3, <2>4 DEF Qcompute!BuildPlan
<1>5. ASSUME QcomputeGiven, QcomputeProbed, QcomputePlanned, NotReported,
             UNCHANGED <<task, env, plan, report, verdict, handed>>
      PROVE  /\ truth'.lacks = truth.lacks => QcomputeProbed' /\ QcomputePlanned' /\ NotReported'
             /\ QcomputeTruth' /\ (run' = Nothing \/ run' \in Qcompute!QComputeRunArtifact
                  \/ run' \in [attempts : 1..Qcompute!MaxRetries]) => QcomputeGiven'
  BY <1>5 DEF QcomputeProbed, QcomputePlanned, Qcompute!Quafu, QcomputeGiven
<1>6. ASSUME QcomputeGiven, QcomputeProbed, QcomputePlanned, NotReported,
             UNCHANGED <<task, env, plan, report, verdict, handed>>,
             QcomputeTruth', truth'.lacks = truth.lacks, Qcompute!FailedArtifact
      PROVE  QcomputeInv'
  <2>1. run' \in Qcompute!QComputeRunArtifact /\ run'.status = "failed" /\ stage' = "validate"
    BY <1>6 DEF Qcompute!FailedArtifact, Qcompute!Artifact, Qcompute!QComputeRunArtifact
  <2>2. QcomputeRan'
    BY <2>1 DEF QcomputeRan
  <2> QED BY <1>5, <1>6, <2>1, <2>2 DEF QcomputeInv
<1>7. ASSUME QcomputeGiven, QcomputeProbed, QcomputePlanned, NotReported,
             UNCHANGED <<task, env, plan, report, verdict, handed>>,
             NEW counts \in Qcompute!Counts, Qcompute!Mitigated(counts),
             truth' = [truth EXCEPT !.exit = "measured", !.content = counts],
             Qcompute!Quafu => truth.wrote # {}
      PROVE  QcomputeInv'
  <2>1. /\ QcomputeTruth' /\ truth'.lacks = truth.lacks /\ truth'.exit = "measured"
        /\ truth'.content = counts /\ truth'.wrote = truth.wrote
    BY <1>7 DEF QcomputeGiven, QcomputeTruth, Truths
  <2>2. CASE Qcompute!FailedArtifact
    BY <1>6, <1>7, <2>1, <2>2
  <2>3. CASE /\ run' = Qcompute!Artifact("completed", "none", counts,
                  task.mitigation \ (IF task.noise = "none" THEN {"rem"} ELSE {}))
             /\ disk' = disk \cup {"result.json"}
             /\ stage' = "validate"
    <3> DEFINE mitigated == task.mitigation \ (IF task.noise = "none" THEN {"rem"} ELSE {})
    <3>1. mitigated \in SUBSET {"zne", "rem"}
      BY <1>7 DEF QcomputeGiven, Qcompute!QComputeExperimentSpec
    <3>2. run' = Qcompute!Artifact("completed", "none", counts, mitigated)
      BY <2>3
    <3> HIDE DEF mitigated
    <3>3. run' \in Qcompute!QComputeRunArtifact /\ run'.counts = counts /\ run'.status = "completed"
      BY <3>1, <3>2 DEF Qcompute!Artifact, Qcompute!QComputeRunArtifact
    <3>4. counts # "none"
      BY DEF Qcompute!Counts
    <3>5. QcomputeRan'
      BY <1>7, <2>1, <2>3, <3>3, <3>4 DEF QcomputeRan, Qcompute!Quafu
    <3> QED BY <1>5, <1>7, <2>1, <2>3, <3>3, <3>5 DEF QcomputeInv
  <2> QED BY <1>7, <2>2, <2>3 DEF Qcompute!Mitigated
<1>8. CASE Qcompute!Execute
  <2>1. QcomputeGiven /\ QcomputeProbed /\ QcomputePlanned /\ NotRun /\ ~Qcompute!Quafu
    BY <1>8 DEF Qcompute!Execute, QcomputeInv, Idle
  <2>2. UNCHANGED <<task, env, plan, report, verdict, handed>>
    BY <1>8 DEF Qcompute!Execute
  <2>3. CASE Qcompute!FailedArtifact /\ truth' = [truth EXCEPT !.exit = "raised"]
    <3>1. QcomputeTruth' /\ truth'.lacks = truth.lacks
      BY <2>1, <2>3 DEF QcomputeGiven, QcomputeTruth, Truths
    <3> QED BY <1>6, <2>1, <2>2, <2>3, <3>1
  <2>4. ASSUME NEW counts \in Qcompute!Counts \ {"short counts"}, Qcompute!Mitigated(counts),
               truth' = [truth EXCEPT !.exit = "measured", !.content = counts]
        PROVE  QcomputeInv'
    BY <1>7, <2>1, <2>2, <2>4
  <2> QED BY <1>8, <2>3, <2>4 DEF Qcompute!Execute
<1>9. CASE Qcompute!Submit
  <2>1. QcomputeGiven /\ QcomputeProbed /\ QcomputePlanned /\ QcomputeTried /\ NotReported
    BY <1>9 DEF Qcompute!Submit, QcomputeInv, Idle, QcomputeTried
  <2>2. UNCHANGED <<task, env, plan, report, verdict, handed>>
    BY <1>9 DEF Qcompute!Submit
  <2>3. Qcompute!Attempts \in 0..3
    BY <2>1 DEF QcomputeTried, Qcompute!Attempts, Qcompute!Made, Qcompute!Nothing,
       Nothing, Qcompute!MaxRetries
  <2>4. /\ Qcompute!Taken \in Truths(SUBSET Qcompute!Needs, {"not run", "raised", "queued", "measured"},
                   SUBSET Nat, {"none"} \cup Qcompute!Counts)
        /\ Qcompute!Taken.lacks = truth.lacks /\ Qcompute!Taken.wrote # {}
    <3>1. Qcompute!Attempts + 1 \in Nat
      BY <2>3
    <3> QED BY <2>1, <3>1 DEF QcomputeGiven, QcomputeTruth, Truths, Qcompute!Taken
  <2>5. CASE /\ truth' = [Qcompute!Taken EXCEPT !.exit = "queued"]
             /\ stage' = "poll"
             /\ UNCHANGED <<run, disk>>
    <3>1. QcomputeTruth' /\ truth'.lacks = truth.lacks /\ truth'.wrote # {}
      BY <2>4, <2>5 DEF QcomputeTruth, Truths
    <3>2. QcomputeTried' /\ (run' = Nothing \/ run' \in [attempts : 1..Qcompute!MaxRetries])
      BY <2>1, <2>2, <2>5 DEF QcomputeTried, Qcompute!Quafu
    <3> QED BY <1>5, <2>1, <2>2, <2>5, <3>1, <3>2 DEF QcomputeInv
  <2>6. CASE truth' \in {truth, Qcompute!Taken}
    <3>1. QcomputeTruth' /\ truth'.lacks = truth.lacks
      BY <2>1, <2>4, <2>6 DEF QcomputeGiven, QcomputeTruth
    <3>2. CASE /\ Qcompute!Attempts + 1 < Qcompute!MaxRetries
               /\ run' = [attempts |-> Qcompute!Attempts + 1]
               /\ UNCHANGED <<stage, disk>>
      <4>1. Qcompute!Attempts + 1 \in 1..Qcompute!MaxRetries
        BY <2>3, <3>2 DEF Qcompute!MaxRetries
      <4>2. run' \in [attempts : 1..Qcompute!MaxRetries]
        BY <3>2, <4>1
      <4>3. QcomputeTried' /\ stage' = "submit"
        BY <1>9, <2>1, <2>2, <3>2, <4>2 DEF QcomputeTried, Qcompute!Quafu,
           Qcompute!Submit
      <4> QED BY <1>5, <2>1, <2>2, <3>1, <4>2, <4>3 DEF QcomputeInv
    <3>3. CASE Qcompute!FailedArtifact
      BY <1>6, <2>1, <2>2, <3>1, <3>3
    <3>4. \/ /\ Qcompute!Attempts + 1 < Qcompute!MaxRetries
             /\ run' = [attempts |-> Qcompute!Attempts + 1]
             /\ UNCHANGED <<stage, disk>>
          \/ Qcompute!FailedArtifact
          \/ truth' = [Qcompute!Taken EXCEPT !.exit = "queued"] /\ stage' = "poll" /\ UNCHANGED <<run, disk>>
      BY <1>9 DEF Qcompute!Submit
    <3> QED BY <2>5, <3>2, <3>3, <3>4
  <2>7. CASE Qcompute!FailedArtifact /\ UNCHANGED truth
    BY <1>6, <2>1, <2>2, <2>7 DEF QcomputeGiven, QcomputeTruth
  <2> QED BY <1>9, <2>5, <2>6, <2>7 DEF Qcompute!Submit
<1>10. CASE Qcompute!PollUntilComplete
  <2>1. /\ QcomputeGiven /\ QcomputeProbed /\ QcomputePlanned /\ NotReported
        /\ truth.wrote # {}
    BY <1>10 DEF Qcompute!PollUntilComplete, QcomputeInv, Idle, QcomputeTried
  <2>2. UNCHANGED <<task, env, plan, report, verdict, handed>>
    BY <1>10 DEF Qcompute!PollUntilComplete
  <2>3. CASE Qcompute!FailedArtifact /\ truth' = [truth EXCEPT !.exit = "measured"]
    <3>1. QcomputeTruth' /\ truth'.lacks = truth.lacks
      BY <2>1, <2>3 DEF QcomputeGiven, QcomputeTruth, Truths
    <3> QED BY <1>6, <2>1, <2>2, <2>3, <3>1
  <2>4. CASE Qcompute!FailedArtifact /\ UNCHANGED truth
    BY <1>6, <2>1, <2>2, <2>4 DEF QcomputeGiven, QcomputeTruth
  <2>5. ASSUME NEW counts \in Qcompute!Counts, Qcompute!Mitigated(counts),
               truth' = [truth EXCEPT !.exit = "measured", !.content = counts]
        PROVE  QcomputeInv'
    BY <1>7, <2>1, <2>2, <2>5
  <2> QED BY <1>10, <2>3, <2>4, <2>5 DEF Qcompute!PollUntilComplete
<1>11. CASE Qcompute!ValidateRun
  <2>1. QcomputeGiven /\ QcomputeProbed /\ QcomputePlanned /\ QcomputeRan /\ NotReported
    BY <1>11 DEF Qcompute!ValidateRun, QcomputeInv, Idle
  <2>2. UNCHANGED <<task, env, plan, disk, run, verdict, handed, truth>> /\ stage' = "judge"
    BY <1>11 DEF Qcompute!ValidateRun
  <2> DEFINE status == Qcompute!ValidationStatus
             passed == status \in {"validated", "converged"}
  <2>3. report' = [passed |-> passed, status |-> status, ready |-> passed]
    BY <1>11 DEF Qcompute!ValidateRun
  <2>4. status \in Qcompute!QComputeValidationStatus
    BY DEF Qcompute!ValidationStatus, Qcompute!QComputeValidationStatus
  <2>5. status = "below_fidelity" => run.status = "completed" /\ run.counts = "bad counts"
    BY DEF Qcompute!ValidationStatus, Qcompute!ComputeFidelity
  <2>6. passed => /\ run.status = "completed" /\ run.counts # "short counts"
                  /\ plan.threshold => run.counts # "bad counts"
    BY DEF Qcompute!ValidationStatus, Qcompute!ComputeFidelity
  <2> HIDE DEF status
  <2>7. passed => Qcompute!Earned
    <3> SUFFICES ASSUME passed PROVE Qcompute!Earned
      OBVIOUS
    <3> HIDE DEF passed
    <3>1. run.status = "completed" /\ run.counts # "short counts" /\ (task.threshold => run.counts # "bad counts")
      BY <2>1, <2>6 DEF QcomputePlanned
    <3>2. /\ truth.exit = "measured" /\ "result.json" \in disk
          /\ truth.content = run.counts /\ run.counts # "none"
          /\ Qcompute!Quafu => truth.wrote # {}
      BY <2>1, <3>1 DEF QcomputeRan
    <3>3. run.counts \in Qcompute!Counts
      BY <2>1, <3>2 DEF QcomputeRan, Qcompute!QComputeRunArtifact
    <3>4. "dependency" \notin truth.lacks /\ (Qcompute!Quafu => truth.lacks = {})
      BY <2>1 DEF QcomputeProbed, QcomputePlanned
    <3>5. task.threshold => truth.content = "good counts"
      BY <3>1, <3>2, <3>3 DEF Qcompute!Counts
    <3> QED BY <3>1, <3>2, <3>3, <3>4, <3>5 DEF Qcompute!Earned
  <2>8. Qcompute!Earned => Qcompute!Earned'
    BY <2>2 DEF Qcompute!Earned, Qcompute!Quafu
  <2>9. passed \in BOOLEAN /\ (status \in {"validated", "converged"} <=> passed)
    OBVIOUS
  <2> HIDE DEF passed
  <2>10. report' \in Qcompute!QComputeValidationReport
    BY <2>3, <2>4, <2>9 DEF Qcompute!QComputeValidationReport
  <2>11. report'.passed = passed /\ report'.status = status
    BY <2>3
  <2>12. Qcompute!CauseNamed'
    BY <2>1, <2>2, <2>5, <2>6, <2>9, <2>11 DEF Qcompute!CauseNamed, QcomputeRan,
       QcomputePlanned
  <2>13. QcomputeReported'
    BY <2>7, <2>8, <2>10, <2>11, <2>12 DEF QcomputeReported
  <2> QED BY <2>1, <2>2, <2>13 DEF QcomputeInv, QcomputeGiven, QcomputeTruth
<1>12. CASE Qcompute!Judge
  <2>1. QcomputeGiven /\ QcomputeReported /\ NotJudged
    BY <1>12 DEF Qcompute!Judge, QcomputeInv, Idle
  <2>2. UNCHANGED <<task, env, plan, disk, run, report, handed, truth>> /\ stage' = "hand over"
    BY <1>12 DEF Qcompute!Judge
  <2>3. verdict' \in Qcompute!QComputePolicyReport
    <3>1. verdict' = [passed |-> Qcompute!Decision(Qcompute!Gates) = "allow",
                      decision |-> Qcompute!Decision(Qcompute!Gates)]
      BY <1>12 DEF Qcompute!Judge
    <3>2. Qcompute!Decision(Qcompute!Gates) \in {"allow", "defer", "reject"}
      BY DEF Qcompute!Decision
    <3> QED BY <3>1, <3>2 DEF Qcompute!QComputePolicyReport
  <2>4. QcomputeReported'
    BY <2>1, <2>2 DEF QcomputeReported, Qcompute!CauseNamed, Qcompute!Earned,
       Qcompute!Quafu
  <2> QED BY <2>1, <2>2, <2>3, <2>4 DEF QcomputeInv, QcomputeGiven, QcomputeTruth
<1>13. CASE Qcompute!HandOver
  <2>1. QcomputeGiven /\ QcomputeReported /\ verdict \in Qcompute!QComputePolicyReport
    BY <1>13 DEF Qcompute!HandOver, QcomputeInv, Idle
  <2>2. UNCHANGED <<task, env, plan, disk, run, report, verdict, truth>> /\ stage' = "done"
    BY <1>13 DEF Qcompute!HandOver
  <2>3. handed'.made = TRUE /\ handed'.promoted = Qcompute!CoreValid
    BY <1>13 DEF Qcompute!HandOver, Qcompute!Handed
  <2>4. QcomputeReported'
    BY <2>1, <2>2 DEF QcomputeReported, Qcompute!CauseNamed, Qcompute!Earned,
       Qcompute!Quafu
  <2>5. handed'.promoted => report'.passed
    BY <2>2, <2>3 DEF Qcompute!CoreValid
  <2> QED BY <2>1, <2>2, <2>3, <2>4, <2>5 DEF QcomputeInv, QcomputeGiven, QcomputeTruth
<1> QED
  BY <1>1, <1>2, <1>3, <1>4, <1>8, <1>9, <1>10, <1>11, <1>12, <1>13 DEF Qcompute!Next

(* QcomputeInv is enough for the three properties.                         *)
LEMMA QcomputeHolds ==
  ASSUME QcomputeInv
  PROVE  Qcompute!Typed /\ (Made(report) => Qcompute!CauseNamed) /\ (Accepted => Qcompute!Earned)
BY DEF QcomputeInv, QcomputeGiven, QcomputeReported, NotPlanned, NotRun, NotReported,
   NotJudged,
  Qcompute!Typed, Made, Qcompute!Made, Nothing, Qcompute!Nothing, Idle, NotHanded, Accepted, At, QcomputeTried

------------------------------------------------------------------------------
(* DeePMD.  DeepmdInv says, for each stage of a run, what the components   *)
(* that have worked are known to have left, and how that stands to what    *)
(* really happened.                                                        *)
DeepmdTruth ==
  truth \in Truths(SUBSET Deepmd!Needs, {"not run", "0", "1", "timeout"},
                   SUBSET Deepmd!Files, {"none"})
DeepmdProbed ==
  /\ env \in Deepmd!DeepMDEnvironmentReport
  /\ env.missing_prerequisites \cup env.missing_required_paths = {} =>
       truth.lacks = {} /\ Deepmd!MachineLacks(truth.lacks) = {}
DeepmdPlanned == plan \in Deepmd!DeepMDRunPlan /\ plan.mode = task.mode
DeepmdRan ==
  /\ run \in Deepmd!DeepMDRunArtifact
  /\ run.status = "unavailable" => "binary" \in truth.lacks
  /\ run.reason = "workspace_prepare_failed" => "paths" \in truth.lacks
  /\ truth.exit \in {"1", "timeout"} =>
       run.status = "failed" /\ run.reason # "workspace_prepare_failed"
  /\ run.status = "completed" => truth.exit = "0" /\ run.files = truth.wrote
(* What a report that passes stands for: all that Earned asks for, but the *)
(* environment, which only the policy looks at.                            *)
DeepmdRunEarned ==
  /\ truth.exit = "0"
  /\ truth.wrote # {}
  /\ task.mode = "compress" => "compressed_model.pb" \in truth.wrote
  /\ task.mode \in Deepmd!DPGenWorkflows => "unfinished iteration" \notin truth.wrote
DeepmdReported ==
  /\ report \in Deepmd!DeepMDValidationReport
  /\ Deepmd!CauseNamed /\ (report.passed => DeepmdRunEarned)
DeepmdJudged ==
  /\ verdict \in Deepmd!DeepMDPolicyReport
  /\ verdict.passed => truth.lacks = {} /\ Deepmd!MachineLacks(truth.lacks) = {}
DeepmdGiven ==
  /\ task \in Deepmd!DeepMDExperimentSpec /\ DeepmdTruth
  /\ env = Nothing \/ env \in Deepmd!DeepMDEnvironmentReport
  /\ plan = Nothing \/ plan \in Deepmd!DeepMDRunPlan
  /\ run = Nothing \/ run \in Deepmd!DeepMDRunArtifact
DeepmdInv ==
  /\ DeepmdGiven
  /\ \/ stage \in {"issue", "probe"} /\ Idle
     \/ stage = "compile" /\ DeepmdProbed /\ truth.exit = "not run" /\ NotPlanned
     \/ stage = "execute" /\ DeepmdProbed /\ truth.exit = "not run" /\ DeepmdPlanned
          /\ disk = {} /\ NotRun
     \/ stage = "validate" /\ DeepmdProbed /\ DeepmdPlanned /\ DeepmdRan /\ NotReported
     \/ stage = "judge" /\ DeepmdProbed /\ DeepmdReported /\ NotJudged
     \/ stage = "hand over" /\ DeepmdReported /\ DeepmdJudged /\ handed = Nothing
     \/ stage = "done" /\ DeepmdReported /\ DeepmdJudged
          /\ handed.made /\ (handed.promoted => report.passed /\ verdict.passed)
     \/ stage = "raised" /\ NotReported

(* A run of DeePMD begins in DeepmdInv, from a fresh start or when the     *)
(* task is run again, and stays there when nothing happens.                *)
LEMMA DeepmdBegins ==
  ASSUME At("issue"), Idle, task \in Deepmd!Tasks PROVE DeepmdInv
BY DEF Idle, DeepmdInv, DeepmdGiven, Untouched, DeepmdTruth, Truths, At, NotHanded,
   Deepmd!Tasks

LEMMA DeepmdRestarts == ASSUME DeepmdInv, Restarts PROVE DeepmdInv'
BY DEF Restarts, DeepmdInv, DeepmdGiven, Untouched, Idle, NotHanded, DeepmdTruth, Truths

LEMMA DeepmdStays == ASSUME DeepmdInv, UNCHANGED vars PROVE DeepmdInv'
<1> USE DEF vars
<1>1. DeepmdGiven'
  BY DEF DeepmdInv, DeepmdGiven, DeepmdTruth
<1>2. DeepmdProbed => DeepmdProbed'
  BY DEF DeepmdProbed, Deepmd!MachineLacks, Deepmd!DPGen
<1>3. DeepmdPlanned => DeepmdPlanned'
  BY DEF DeepmdPlanned
<1>4. DeepmdRan => DeepmdRan'
  BY DEF DeepmdRan
<1>5. DeepmdReported => DeepmdReported'
  BY DEF DeepmdReported, DeepmdRunEarned, Deepmd!CauseNamed
<1>6. DeepmdJudged => DeepmdJudged'
  BY DEF DeepmdJudged, Deepmd!MachineLacks, Deepmd!DPGen
<1> QED BY <1>1, <1>2, <1>3, <1>4, <1>5, <1>6 DEF DeepmdInv, Idle, NotHanded,
    NotPlanned, NotRun, NotReported, NotJudged

(* Every step of DeePMD preserves DeepmdInv, one component at a time.      *)
LEMMA DeepmdStep == ASSUME DeepmdInv, Deepmd!Next PROVE DeepmdInv'
<1> USE DEF Deepmd!At, Deepmd!Goto, Deepmd!Raise, NotPlanned, NotRun, NotReported, NotJudged
<1>1. CASE Deepmd!IssueTask
  BY <1>1 DEF Deepmd!IssueTask, DeepmdInv, DeepmdGiven, DeepmdTruth, Idle, NotHanded
<1>2. CASE Deepmd!Probe
  <2>1. DeepmdGiven /\ Idle
    BY <1>2 DEF Deepmd!Probe, DeepmdInv
  <2>2. PICK lacks \in SUBSET Deepmd!Needs :
          /\ "machine" \in lacks => Deepmd!DPGen(task.mode)
          /\ LET missing == (lacks \cap {"binary", "python"}) \cup Deepmd!MachineLacks(lacks)
             IN  env' = [missing_prerequisites |-> missing,
                         missing_required_paths |-> lacks \cap {"paths"},
                         fallback_reason |->
                           IF "binary" \in missing THEN "binary_not_found"
                           ELSE IF "python" \in missing THEN "missing_python_runtime"
                           ELSE IF "machine" \in missing THEN "missing_machine"
                           ELSE "none"]
          /\ truth' = [truth EXCEPT !.lacks = lacks]
    BY <1>2 DEF Deepmd!Probe
  <2> DEFINE missing == (lacks \cap {"binary", "python"}) \cup Deepmd!MachineLacks(lacks)
             reason == IF "binary" \in missing THEN "binary_not_found"
                       ELSE IF "python" \in missing THEN "missing_python_runtime"
                       ELSE IF "machine" \in missing THEN "missing_machine"
                       ELSE "none"
  <2>3. truth' = [lacks |-> lacks, exit |-> "not run", wrote |-> {}, content |-> "none"]
    BY <2>1, <2>2 DEF Idle, Untouched
  <2>4. DeepmdTruth' /\ truth'.exit = "not run" /\ truth'.lacks = lacks
    BY <2>3 DEF DeepmdTruth, Truths
  <2>5. /\ env' \in Deepmd!DeepMDEnvironmentReport
        /\ env'.missing_prerequisites = missing
        /\ env'.missing_required_paths = lacks \cap {"paths"}
    <3>1. env' = [missing_prerequisites |-> missing, missing_required_paths |-> lacks \cap {"paths"},
                  fallback_reason |-> reason]
      BY <2>2
    <3>2. missing \in SUBSET {"binary", "python", "machine"} /\ lacks \cap {"paths"} \in SUBSET {"paths"}
      BY DEF Deepmd!MachineLacks
    <3>3. reason \in {"none", "binary_not_found", "missing_python_runtime", "missing_machine"}
      OBVIOUS
    <3> HIDE DEF missing, reason
    <3> QED BY <3>1, <3>2, <3>3 DEF Deepmd!DeepMDEnvironmentReport
  <2>6. stage' = "compile" /\ NotPlanned' /\ task' = task
    BY <1>2, <2>1 DEF Deepmd!Probe, Idle, NotHanded
  <2>7. DeepmdGiven'
    BY <2>1, <2>4, <2>5, <2>6 DEF DeepmdGiven
  <2>8. DeepmdProbed'
    <3>1. ASSUME missing \cup (lacks \cap {"paths"}) = {}
          PROVE  lacks = {} /\ Deepmd!MachineLacks(lacks) = {}
      <4>1. Deepmd!MachineLacks(lacks) = {} /\ lacks \cap {"binary", "python", "paths"} = {}
        BY <3>1
      <4>2. "machine" \notin lacks
        BY <2>2, <4>1 DEF Deepmd!MachineLacks
      <4> QED BY <4>1, <4>2 DEF Deepmd!Needs
    <3> HIDE DEF missing
    <3> QED BY <2>4, <2>5, <2>6, <3>1 DEF DeepmdProbed, Deepmd!MachineLacks
  <2> QED BY <2>4, <2>6, <2>7, <2>8 DEF DeepmdInv
<1>3. CASE Deepmd!BuildPlan
  <2>1. DeepmdGiven /\ DeepmdProbed /\ truth.exit = "not run" /\ NotPlanned
    BY <1>3 DEF Deepmd!BuildPlan, DeepmdInv
  <2>2. UNCHANGED <<task, env, run, report, verdict, handed, truth>> /\ stage' = "execute" /\ disk' = {}
    BY <1>3 DEF Deepmd!BuildPlan
  <2>3. plan' \in Deepmd!DeepMDRunPlan /\ plan'.mode = task.mode
    BY <1>3, <2>1 DEF Deepmd!BuildPlan, DeepmdGiven, Deepmd!DeepMDExperimentSpec,
       Deepmd!DeepMDRunPlan
  <2>4. DeepmdGiven' /\ DeepmdProbed' /\ DeepmdPlanned' /\ NotRun'
    BY <2>1, <2>2, <2>3 DEF DeepmdGiven, DeepmdProbed, DeepmdPlanned, DeepmdTruth,
       Deepmd!MachineLacks
  <2> QED BY <2>1, <2>2, <2>4 DEF DeepmdInv
<1>4. CASE Deepmd!Execute
  <2>1. /\ DeepmdGiven /\ DeepmdProbed /\ truth.exit = "not run" /\ DeepmdPlanned
        /\ disk = {} /\ NotRun
    BY <1>4 DEF Deepmd!Execute, DeepmdInv, Idle
  <2>2. UNCHANGED <<task, env, plan, report, verdict, handed>>
    BY <1>4 DEF Deepmd!Execute
  <2>3. ASSUME DeepmdTruth', truth'.lacks = truth.lacks, stage' = "validate", DeepmdRan'
        PROVE  DeepmdInv'
    <3>1. DeepmdProbed'
      BY <2>1, <2>2, <2>3 DEF DeepmdProbed, Deepmd!MachineLacks
    <3> QED BY <2>1, <2>2, <2>3, <3>1 DEF DeepmdInv, DeepmdGiven, DeepmdRan,
        DeepmdPlanned
  <2>4. CASE Deepmd!Unprepared
    <3>1. "paths" \in truth.lacks
      BY <2>1, <2>4 DEF Deepmd!Unprepared, Deepmd!PrepareFails, DeepmdPlanned,
         Deepmd!DeepMDRunPlan
    <3>2. /\ run' \in Deepmd!DeepMDRunArtifact /\ run'.status = "failed"
          /\ stage' = "validate" /\ truth' = truth
      BY <2>1, <2>4 DEF Deepmd!Unprepared, Deepmd!BuildArtifact,
         Deepmd!DeepMDRunArtifact
    <3>3. DeepmdRan'
      BY <2>1, <3>1, <3>2 DEF DeepmdRan
    <3> QED BY <2>1, <2>3, <3>2, <3>3 DEF DeepmdGiven, DeepmdTruth
  <2>5. CASE Deepmd!NoBinary
    <3>1. /\ run' \in Deepmd!DeepMDRunArtifact /\ run'.status = "unavailable"
          /\ run'.reason = "binary_not_found" /\ "binary" \in truth.lacks
          /\ stage' = "validate" /\ truth' = truth
      BY <2>1, <2>5 DEF Deepmd!NoBinary, Deepmd!BuildArtifact, Deepmd!DeepMDRunArtifact
    <3>2. DeepmdRan'
      BY <2>1, <3>1 DEF DeepmdRan
    <3> QED BY <2>1, <2>3, <3>1, <3>2 DEF DeepmdGiven, DeepmdTruth
  <2>6. ASSUME NEW exit \in {"0", "1", "timeout"}, NEW wrote \in SUBSET Deepmd!Evidence(plan.mode),
               disk' = disk \cup wrote,
               truth' = [truth EXCEPT !.exit = exit, !.wrote = wrote],
               IF Deepmd!CollectorRaises(wrote) THEN stage' = "raised" /\ UNCHANGED run
               ELSE /\ run' = Deepmd!BuildArtifact(
                         IF exit = "0" THEN "completed" ELSE "failed",
                         IF exit = "timeout" THEN "none" ELSE exit,
                         IF exit = "timeout" THEN "command_timeout" ELSE "none", disk')
                    /\ stage' = "validate"
        PROVE  DeepmdInv'
    <3>1. wrote \in SUBSET Deepmd!Files
      <4>1. plan.mode \in Deepmd!Modes
        BY <2>1 DEF DeepmdPlanned, Deepmd!DeepMDRunPlan
      <4> QED BY <2>6, <4>1 DEF Deepmd!Files
    <3>2. /\ DeepmdTruth' /\ truth'.lacks = truth.lacks /\ truth'.exit = exit
          /\ truth'.wrote = wrote /\ disk' = wrote
      BY <2>1, <2>6, <3>1 DEF DeepmdGiven, DeepmdTruth, Truths
    <3>3. CASE Deepmd!CollectorRaises(wrote)
      BY <2>1, <2>2, <2>6, <3>2, <3>3 DEF DeepmdInv, DeepmdGiven
    <3>4. CASE ~Deepmd!CollectorRaises(wrote)
      <4>1. run' = [status |-> IF exit = "0" THEN "completed" ELSE "failed",
                    code |-> IF exit = "timeout" THEN "none" ELSE exit,
                    reason |-> IF exit = "timeout" THEN "command_timeout" ELSE "none",
                    files |-> wrote]
        BY <2>6, <3>2, <3>4 DEF Deepmd!BuildArtifact
      <4>2. run' \in Deepmd!DeepMDRunArtifact
        BY <3>1, <4>1 DEF Deepmd!DeepMDRunArtifact
      <4>3. /\ run'.status = (IF exit = "0" THEN "completed" ELSE "failed")
            /\ run'.reason \in {"command_timeout", "none"} /\ run'.files = wrote
        BY <4>1
      <4>4. DeepmdRan'
        BY <3>2, <4>2, <4>3 DEF DeepmdRan
      <4> QED BY <2>3, <2>6, <3>2, <3>4, <4>4
    <3> QED BY <3>3, <3>4
  <2> QED BY <1>4, <2>4, <2>5, <2>6 DEF Deepmd!Execute, Deepmd!RunCommand
<1>5. CASE Deepmd!ValidateRun
  <2>1. DeepmdGiven /\ DeepmdProbed /\ DeepmdPlanned /\ DeepmdRan /\ NotReported
    BY <1>5 DEF Deepmd!ValidateRun, DeepmdInv, Idle
  <2>2. UNCHANGED <<task, env, plan, disk, run, verdict, handed, truth>> /\ stage' = "judge"
    BY <1>5 DEF Deepmd!ValidateRun
  <2>3. ASSUME DeepmdReported' PROVE DeepmdInv'
    <3>1. DeepmdProbed'
      BY <2>1, <2>2 DEF DeepmdProbed, Deepmd!MachineLacks
    <3> QED BY <2>1, <2>2, <2>3, <3>1 DEF DeepmdInv, DeepmdGiven, DeepmdTruth
  <2>4. report' = [passed |-> Deepmd!Verdict[1] \in Deepmd!Accepted, status |-> Deepmd!Verdict[1],
                   issues |-> Deepmd!Verdict[2]]
    BY <1>5 DEF Deepmd!ValidateRun
  <2>5. ASSUME NEW status \in {"environment_invalid", "workspace_failed", "run_failed",
                               "runtime_failed", "validation_failed"},
               NEW code \in {"deepmd_binary_not_found", "deepmd_workspace_prepare_failed",
                             "deepmd_run_failed", "deepmd_runtime_failed", "deepmd_missing_evidence"},
               Deepmd!Verdict = <<status, {Deepmd!Issue(code, TRUE)}>>,
               status = "environment_invalid" => run.status = "unavailable",
               status = "workspace_failed" => run.reason = "workspace_prepare_failed",
               run.status = "failed" /\ run.reason # "workspace_prepare_failed" =>
                 status \in {"run_failed", "runtime_failed"}
        PROVE  DeepmdInv'
    <3>1. status \notin Deepmd!Accepted
      BY DEF Deepmd!Accepted
    <3>2. report' = [passed |-> FALSE, status |-> status, issues |-> {Deepmd!Issue(code, TRUE)}]
      <4>1. Deepmd!Verdict[1] = status /\ Deepmd!Verdict[2] = {Deepmd!Issue(code, TRUE)}
        BY <2>5
      <4>2. (Deepmd!Verdict[1] \in Deepmd!Accepted) = FALSE
        BY <3>1, <4>1
      <4> QED BY <2>4, <4>1, <4>2
    <3>3. Deepmd!Issue(code, TRUE) \in [code : {code}, blocks : {TRUE}]
      BY DEF Deepmd!Issue
    <3>4. report' \in Deepmd!DeepMDValidationReport /\ report'.passed = FALSE /\ report'.status = status
      BY <3>2, <3>3 DEF Deepmd!DeepMDValidationReport
    <3>5. DeepmdReported'
      BY <2>1, <2>2, <2>5, <3>4 DEF DeepmdReported, DeepmdRan, Deepmd!CauseNamed
    <3> QED BY <2>3, <3>5
  <2>6. CASE run.status = "unavailable"
    <3>1. Deepmd!Verdict = <<"environment_invalid", {Deepmd!Issue("deepmd_binary_not_found", TRUE)}>>
      BY <2>6 DEF Deepmd!Verdict
    <3> QED BY <2>5, <2>6, <3>1
  <2>7. CASE run.status # "unavailable" /\ run.reason = "workspace_prepare_failed"
    <3>1. Deepmd!Verdict = <<"workspace_failed", {Deepmd!Issue("deepmd_workspace_prepare_failed", TRUE)}>>
      BY <2>7 DEF Deepmd!Verdict
    <3> QED BY <2>5, <2>7, <3>1
  <2>8. CASE run.status = "failed" /\ run.reason # "workspace_prepare_failed"
    <3>1. CASE plan.mode \in Deepmd!DPGenWorkflows
      <4>1. Deepmd!Verdict = <<"run_failed", {Deepmd!Issue("deepmd_run_failed", TRUE)}>>
        BY <2>8, <3>1 DEF Deepmd!Verdict
      <4> QED BY <2>5, <4>1
    <3>2. CASE plan.mode \notin Deepmd!DPGenWorkflows
      <4>1. Deepmd!Verdict = <<"runtime_failed", {Deepmd!Issue("deepmd_runtime_failed", TRUE)}>>
        BY <2>8, <3>2 DEF Deepmd!Verdict
      <4> QED BY <2>5, <4>1
    <3> QED BY <3>1, <3>2
  <2>9. CASE run.status = "completed" /\ run.reason # "workspace_prepare_failed" /\ ~Deepmd!Sufficient
    <3>1. Deepmd!Verdict = <<"validation_failed", {Deepmd!Issue("deepmd_missing_evidence", TRUE)}>>
      BY <2>9 DEF Deepmd!Verdict
    <3> QED BY <2>5, <2>9, <3>1
  <2>10. CASE run.status = "completed" /\ run.reason # "workspace_prepare_failed" /\ Deepmd!Sufficient
    <3> DEFINE status == Deepmd!SuccessStatus
    <3>1. Deepmd!Verdict = <<status, {}>>
      BY <2>10 DEF Deepmd!Verdict
    <3>2. plan.mode \in Deepmd!Modes /\ plan.mode = task.mode
      BY <2>1 DEF DeepmdPlanned, Deepmd!DeepMDRunPlan
    <3>3. status \in Deepmd!Accepted
      BY <3>2 DEF Deepmd!SuccessStatus, Deepmd!Modes, Deepmd!MetricModes,
         Deepmd!DPGenWorkflows, Deepmd!Accepted
    <3>4. truth.exit = "0" /\ run.files = truth.wrote
      BY <2>1, <2>10 DEF DeepmdRan
    <3>5. DeepmdRunEarned
      <4>1. CASE plan.mode = "compress"
        BY <2>10, <3>2, <3>4, <4>1 DEF Deepmd!Sufficient, DeepmdRunEarned,
           Deepmd!DPGenWorkflows
      <4>2. CASE plan.mode \in Deepmd!DPGenWorkflows
        BY <2>10, <3>2, <3>4, <4>2 DEF Deepmd!Sufficient, DeepmdRunEarned,
           Deepmd!DPGenWorkflows,
           Deepmd!IterationEvidence
      <4>3. CASE plan.mode # "compress" /\ plan.mode \notin Deepmd!DPGenWorkflows
        BY <2>10, <3>2, <3>4, <4>3 DEF Deepmd!Sufficient, DeepmdRunEarned
      <4> QED BY <4>1, <4>2, <4>3
    <3> HIDE DEF status
    <3>6. report' = [passed |-> TRUE, status |-> status, issues |-> {}]
      BY <2>4, <3>1, <3>3
    <3>7. report' \in Deepmd!DeepMDValidationReport /\ report'.status \in Deepmd!Accepted
      BY <3>3, <3>6 DEF Deepmd!DeepMDValidationReport
    <3>8. Deepmd!CauseNamed'
      BY <2>2, <3>4, <3>7 DEF Deepmd!CauseNamed, Deepmd!Accepted
    <3>9. DeepmdReported'
      BY <2>2, <3>5, <3>7, <3>8 DEF DeepmdReported, DeepmdRunEarned
    <3> QED BY <2>3, <3>9
  <2> QED BY <2>1, <2>6, <2>7, <2>8, <2>9, <2>10 DEF DeepmdRan, Deepmd!DeepMDRunArtifact
<1>6. CASE Deepmd!Judge
  <2>1. DeepmdGiven /\ DeepmdProbed /\ DeepmdReported /\ NotJudged
    BY <1>6 DEF Deepmd!Judge, DeepmdInv, Idle
  <2>2. UNCHANGED <<task, env, plan, disk, run, report, handed, truth>> /\ stage' = "hand over"
    BY <1>6 DEF Deepmd!Judge
  <2>3. verdict' = [passed |-> Deepmd!Decision(Deepmd!Gates) = "allow",
                    decision |-> Deepmd!Decision(Deepmd!Gates)]
    BY <1>6 DEF Deepmd!Judge
  <2>4. Deepmd!Decision(Deepmd!Gates) \in {"allow", "defer", "reject"}
    BY DEF Deepmd!Decision
  <2>5. ASSUME env.missing_prerequisites \cup env.missing_required_paths # {}
        PROVE  Deepmd!Decision(Deepmd!Gates) # "allow"
    <3> DEFINE g == Deepmd!Gate("environment_prerequisites", "defer")
    <3>1. g \in Deepmd!Gates
      BY <2>5 DEF Deepmd!Gates, Deepmd!GateIf
    <3>2. g.decision = "defer"
      BY DEF Deepmd!Gate
    <3> QED BY <3>1, <3>2 DEF Deepmd!Decision
  <2>6. verdict' \in Deepmd!DeepMDPolicyReport
    BY <2>3, <2>4 DEF Deepmd!DeepMDPolicyReport
  <2>7. verdict'.passed => env.missing_prerequisites \cup env.missing_required_paths = {}
    BY <2>3, <2>5
  <2>8. DeepmdJudged'
    BY <2>1, <2>2, <2>6, <2>7 DEF DeepmdJudged, DeepmdProbed, Deepmd!MachineLacks
  <2>9. DeepmdReported'
    BY <2>1, <2>2 DEF DeepmdReported, Deepmd!CauseNamed, DeepmdRunEarned
  <2> QED BY <2>1, <2>2, <2>8, <2>9 DEF DeepmdInv, DeepmdGiven, DeepmdTruth
<1>7. CASE Deepmd!HandOver
  <2>1. DeepmdGiven /\ DeepmdReported /\ DeepmdJudged
    BY <1>7 DEF Deepmd!HandOver, DeepmdInv, Idle
  <2>2. UNCHANGED <<task, env, plan, disk, run, report, verdict, truth>> /\ stage' = "done"
    BY <1>7 DEF Deepmd!HandOver
  <2>3. handed'.made = TRUE /\ handed'.promoted = Deepmd!CoreValid
    BY <1>7 DEF Deepmd!HandOver, Deepmd!Handed
  <2>4. DeepmdReported' /\ DeepmdJudged'
    BY <2>1, <2>2 DEF DeepmdReported, DeepmdJudged, Deepmd!CauseNamed, DeepmdRunEarned,
       Deepmd!MachineLacks
  <2>5. handed'.promoted => report'.passed /\ verdict'.passed
    BY <2>2, <2>3 DEF Deepmd!CoreValid
  <2> QED BY <2>1, <2>2, <2>3, <2>4, <2>5 DEF DeepmdInv, DeepmdGiven, DeepmdTruth
<1> QED BY <1>1, <1>2, <1>3, <1>4, <1>5, <1>6, <1>7 DEF Deepmd!Next

(* DeepmdInv is enough for the three properties.                           *)
LEMMA DeepmdHolds ==
  ASSUME DeepmdInv
  PROVE  Deepmd!Typed /\ (Made(report) => Deepmd!CauseNamed) /\ (Accepted => Deepmd!Earned)
<1> USE DEF NotPlanned, NotRun, NotReported, NotJudged, Made, Nothing, Idle, NotHanded
<1>1. Deepmd!Typed
  BY DEF DeepmdInv, DeepmdGiven, DeepmdReported, DeepmdJudged, Deepmd!Typed,
    Deepmd!Made, Deepmd!Nothing
<1>2. Made(report) => Deepmd!CauseNamed
  BY DEF DeepmdInv, DeepmdReported
<1>3. ASSUME Accepted PROVE Deepmd!Earned
  <2>1. DeepmdReported /\ DeepmdJudged /\ report.passed /\ verdict.passed
    BY <1>3 DEF Accepted, At, DeepmdInv
  <2> QED BY <2>1 DEF DeepmdReported, DeepmdRunEarned, DeepmdJudged, Deepmd!Earned
<1> QED BY <1>1, <1>2, <1>3

------------------------------------------------------------------------------
(* Nektar++.  NektarInv says, for each stage of a run, what the components *)
(* that have worked are known to have left, and how that stands to what    *)
(* really happened.                                                        *)
NektarTruth ==
  truth \in Truths(SUBSET Nektar!Needs, {"not run", "0", "1", "timeout"},
                   SUBSET Nektar!Fields, Nektar!Norms)
NektarPlanned ==
  /\ plan \in Nektar!NektarSessionPlan
  /\ plan.render_geometry_inline <=> task.geometry = "inline"
NektarRan ==
  /\ run \in Nektar!NektarRunArtifact
  /\ run.reason = "solver_timeout" <=> truth.exit = "timeout"
  /\ run.status = "unavailable" => truth.lacks # {}
  /\ run.code = "0" =>
       /\ truth.exit = "0" /\ "solver" \notin truth.lacks
       /\ task.geometry = "overlay" => "mesh" \notin truth.lacks
  /\ run.fields \subseteq disk
  /\ run.norms = "within" => truth.content \in {"within", "nan"}
  /\ run.norms = "exceeds" => truth.content \in {"exceeds", "nan"}
  /\ truth.content = "exceeds" => run.norms = "exceeds"
NektarUnrun == truth.exit = "not run" /\ truth.content = "none"
NektarReported ==
  /\ report \in Nektar!NektarValidationReport
  /\ Nektar!CauseNamed /\ (report.passed => Nektar!Earned)
NektarGiven ==
  /\ task \in Nektar!NektarProblemSpec /\ NektarTruth
  /\ plan = Nothing \/ plan \in Nektar!NektarSessionPlan
  /\ run = Nothing \/ run \in Nektar!NektarRunArtifact
NektarInv ==
  /\ NektarGiven
  /\ \/ stage = "issue" /\ Idle
     \/ stage = "compile" /\ NektarUnrun /\ NotPlanned
     \/ stage = "execute" /\ NektarUnrun /\ NektarPlanned /\ NotRun
     \/ stage \in {"postprocess", "validate"} /\ NektarPlanned /\ NektarRan /\ NotReported
     \/ stage = "done" /\ NektarReported /\ NotJudged
     \/ stage = "raised" /\ NotReported

(* A run of Nektar++ begins in NektarInv, from a fresh start or when the   *)
(* task is run again, and stays there when nothing happens.                *)
LEMMA NektarBegins ==
  ASSUME At("issue"), Idle, task \in Nektar!Tasks PROVE NektarInv
BY DEF Idle, NektarInv, NektarGiven, Untouched, NektarTruth, Truths, At, NotHanded,
   Nektar!Tasks, Nektar!Norms

LEMMA NektarRestarts == ASSUME NektarInv, Restarts PROVE NektarInv'
BY DEF Restarts, NektarInv, NektarGiven, Untouched, Idle, NotHanded, NektarTruth,
   Truths, Nektar!Norms

LEMMA NektarStays == ASSUME NektarInv, UNCHANGED vars PROVE NektarInv'
BY DEF vars, NektarTruth, NektarPlanned, NektarRan, NektarReported, NektarGiven,
    NektarInv, NektarUnrun, Idle, NotHanded, NotPlanned, NotRun, NotReported, NotJudged,
    Nektar!CauseNamed, Nektar!Earned

(* Every step of Nektar++ preserves NektarInv, one component at a time.    *)
LEMMA NektarStep == ASSUME NektarInv, Nektar!Next PROVE NektarInv'
<1> USE DEF Nektar!At, Nektar!Goto, Nektar!Raise, NotPlanned, NotRun, NotReported, NotJudged
<1>1. CASE Nektar!IssueTask
  <2>1. NektarGiven /\ Idle
    BY <1>1 DEF Nektar!IssueTask, NektarInv
  <2>2. PICK lacks \in SUBSET Nektar!Needs : truth' = [truth EXCEPT !.lacks = lacks]
    BY <1>1 DEF Nektar!IssueTask
  <2>3. truth' = [lacks |-> lacks, exit |-> "not run", wrote |-> {}, content |-> "none"]
    BY <2>1, <2>2 DEF Idle, Untouched
  <2>4. NektarTruth' /\ NektarUnrun'
    BY <2>3 DEF NektarTruth, NektarUnrun, Truths, Nektar!Norms
  <2>5. stage' = "compile" /\ NotPlanned' /\ task' = task
    BY <1>1, <2>1 DEF Nektar!IssueTask, Idle, NotHanded
  <2> QED BY <2>1, <2>4, <2>5 DEF NektarInv, NektarGiven
<1>2. CASE Nektar!BuildPlan
  <2>1. NektarGiven /\ NektarUnrun /\ NotPlanned
    BY <1>2 DEF Nektar!BuildPlan, NektarInv, Idle
  <2>2. UNCHANGED <<task, env, disk, run, report, verdict, handed, truth>>
    BY <1>2 DEF Nektar!BuildPlan
  <2>3. CASE Nektar!Unsupported
    BY <1>2, <2>1, <2>2, <2>3 DEF Nektar!BuildPlan, NektarInv, NektarGiven, NektarTruth
  <2>4. CASE ~Nektar!Unsupported
    <3>1. /\ stage' = "execute"
          /\ plan' = [solver_family |-> task.solver_family,
                      render_geometry_inline |-> task.geometry = "inline",
                      step |-> task.step]
      BY <1>2, <2>4 DEF Nektar!BuildPlan
    <3>2. plan' \in Nektar!NektarSessionPlan
      BY <2>1, <3>1 DEF NektarGiven, Nektar!NektarProblemSpec, Nektar!NektarSessionPlan
    <3>3. plan'.render_geometry_inline = (task.geometry = "inline")
      BY <3>1
    <3>4. NektarPlanned' /\ NektarGiven' /\ NektarUnrun' /\ NotRun'
      BY <2>1, <2>2, <3>2, <3>3 DEF NektarPlanned, NektarGiven, NektarTruth, NektarUnrun
    <3> QED BY <2>1, <2>2, <3>1, <3>4 DEF NektarInv
  <2> QED BY <2>3, <2>4
<1>3. CASE Nektar!ExecutePlan
  <2>1. NektarGiven /\ NektarUnrun /\ NektarPlanned /\ NotRun
    BY <1>3 DEF Nektar!ExecutePlan, NektarInv, Idle
  <2>2. UNCHANGED <<task, env, plan, report, verdict, handed>> /\ stage' = "postprocess"
    BY <1>3 DEF Nektar!ExecutePlan
  <2>3. ASSUME NektarTruth', NektarRan' PROVE NektarInv'
    BY <2>1, <2>2, <2>3 DEF NektarInv, NektarGiven, NektarRan, NektarPlanned
  <2>4. ASSUME NEW reason \in {"mesh_source_not_found", "solver_binary_not_found"},
               truth.lacks # {}, Nektar!Unavailable(reason)
        PROVE  NektarInv'
    <3>1. /\ run' \in Nektar!NektarRunArtifact /\ run'.status = "unavailable"
          /\ run'.reason = reason /\ run'.code = "none" /\ run'.fields = {}
          /\ run'.norms = "none"
      BY <2>4 DEF Nektar!Unavailable, Nektar!BuildRunArtifact, Nektar!NektarRunArtifact,
         Nektar!Norms
    <3>2. disk' = disk /\ truth' = truth
      BY <2>4 DEF Nektar!Unavailable
    <3>3. NektarRan'
      BY <2>1, <2>4, <3>1, <3>2 DEF NektarRan, NektarUnrun
    <3> QED BY <2>1, <2>3, <3>2, <3>3 DEF NektarGiven, NektarTruth
  <2>5. ASSUME ~Nektar!MeshMissing, ~Nektar!BinaryMissing,
               NEW exit \in {"0", "1", "timeout"}, NEW wrote \in SUBSET Nektar!Fields,
               NEW printed \in Nektar!Norms, disk' = disk \cup wrote,
               truth' = [truth EXCEPT !.exit = exit, !.wrote = wrote, !.content = printed],
               run' = Nektar!BuildRunArtifact(
                        IF exit = "0" THEN "completed" ELSE "failed",
                        IF exit = "timeout" THEN "none" ELSE exit,
                        IF exit = "timeout" THEN "solver_timeout" ELSE "none",
                        Nektar!DiscoverOutputs(disk'), Nektar!ExtractErrorNorms(printed))
        PROVE  NektarInv'
    <3>1. /\ "solver" \notin truth.lacks
          /\ task.geometry = "overlay" => "mesh" \notin truth.lacks
      BY <2>1, <2>5 DEF Nektar!MeshMissing, Nektar!BinaryMissing, NektarPlanned
    <3>2. /\ NektarTruth' /\ truth'.lacks = truth.lacks /\ truth'.exit = exit
          /\ truth'.content = printed
      BY <2>1, <2>5 DEF NektarGiven, NektarTruth, Truths
    <3> DEFINE fields == Nektar!DiscoverOutputs(disk')
               norms == Nektar!ExtractErrorNorms(printed)
    <3>3. fields \in SUBSET Nektar!Fields /\ fields \subseteq disk'
      BY DEF Nektar!DiscoverOutputs
    <3>4. /\ norms \in Nektar!Norms \ {"nan"} /\ (norms # "none" => printed = norms)
          /\ printed = "exceeds" => norms = "exceeds"
      BY DEF Nektar!ExtractErrorNorms, Nektar!Norms
    <3> HIDE DEF fields, norms
    <3>5. run' = [status |-> IF exit = "0" THEN "completed" ELSE "failed",
                  code |-> IF exit = "timeout" THEN "none" ELSE exit,
                  reason |-> IF exit = "timeout" THEN "solver_timeout" ELSE "none",
                  fields |-> fields, derived |-> {}, norms |-> norms, postprocess |-> "none"]
      BY <2>5 DEF Nektar!BuildRunArtifact, fields, norms
    <3>6. run' \in Nektar!NektarRunArtifact
      BY <3>3, <3>4, <3>5 DEF Nektar!NektarRunArtifact
    <3>7. /\ run'.status # "unavailable" /\ (run'.code = "0" => exit = "0")
          /\ run'.reason = "solver_timeout" <=> exit = "timeout"
          /\ run'.fields = fields /\ run'.norms = norms
      BY <3>5
    <3>8. NektarRan'
      BY <2>2, <3>1, <3>2, <3>3, <3>4, <3>6, <3>7 DEF NektarRan
    <3> QED BY <2>3, <3>2, <3>8
  <2> QED BY <1>3, <2>4, <2>5 DEF Nektar!ExecutePlan, Nektar!RunSolver,
      Nektar!MeshMissing, Nektar!BinaryMissing
<1>4. CASE Nektar!RunPostprocess
  <2>1. NektarGiven /\ NektarPlanned /\ NektarRan /\ NotReported
    BY <1>4 DEF Nektar!RunPostprocess, NektarInv, Idle
  <2>2. UNCHANGED <<task, env, plan, report, verdict, handed>> /\ stage' = "validate"
    BY <1>4 DEF Nektar!RunPostprocess
  <2>3. ASSUME NektarTruth', NektarRan' PROVE NektarInv'
    BY <2>1, <2>2, <2>3 DEF NektarInv, NektarGiven, NektarRan, NektarPlanned
  <2>4. ASSUME NEW status \in {"completed", "unavailable"},
               run' = [run EXCEPT !.postprocess = status], UNCHANGED <<disk, truth>>
        PROVE  NektarInv'
    <3>1. /\ run' \in Nektar!NektarRunArtifact /\ run'.status = run.status
          /\ run'.reason = run.reason /\ run'.code = run.code
          /\ run'.fields = run.fields /\ run'.norms = run.norms
      BY <2>1, <2>4 DEF NektarRan, Nektar!NektarRunArtifact
    <3>2. NektarRan'
      BY <2>1, <2>2, <2>4, <3>1 DEF NektarRan
    <3> QED BY <2>1, <2>3, <2>4, <3>2 DEF NektarGiven, NektarTruth
  <2>5. ASSUME NEW exit \in {"0", "1", "timeout"}, NEW wrote \in SUBSET {"vtu"},
               NEW printed \in Nektar!Norms, disk' = disk \cup wrote,
               truth' = IF exit = "timeout" \/ printed = "none" THEN truth
                        ELSE [truth EXCEPT !.content = printed],
               NEW read, read = (IF exit = "timeout" THEN "none" ELSE Nektar!ExtractErrorNorms(printed)),
               run' = [run EXCEPT
                !.postprocess = IF exit = "0" THEN "completed" ELSE "failed",
                !.derived = IF exit = "timeout" THEN @ ELSE disk' \cap {"vtu"},
                !.norms = IF read = "none" THEN @ ELSE read]
        PROVE  NektarInv'
    <3>1. read \in Nektar!Norms \ {"nan"}
      BY <2>5 DEF Nektar!ExtractErrorNorms, Nektar!Norms
    <3>2. /\ run' \in Nektar!NektarRunArtifact /\ run'.status = run.status
          /\ run'.reason = run.reason /\ run'.code = run.code
          /\ run'.fields = run.fields /\ run'.norms = (IF read = "none" THEN run.norms ELSE read)
      BY <2>1, <2>5, <3>1 DEF NektarRan, Nektar!NektarRunArtifact
    <3>3. /\ NektarTruth' /\ truth'.lacks = truth.lacks /\ truth'.exit = truth.exit
          /\ truth'.content = (IF exit = "timeout" \/ printed = "none" THEN truth.content ELSE printed)
      BY <2>1, <2>5 DEF NektarGiven, NektarTruth, Truths
    <3>4. /\ read # "none" => truth'.content = read
          /\ read = "none" => truth'.content \in {truth.content, "nan"}
      BY <2>5, <3>3 DEF Nektar!ExtractErrorNorms, Nektar!Norms
    <3>8. truth'.content = "exceeds" =>
            read = "exceeds" \/ (read = "none" /\ truth.content = "exceeds")
      BY <3>1, <3>4 DEF Nektar!Norms
    <3>5. /\ run'.norms = "within" => truth'.content \in {"within", "nan"}
          /\ run'.norms = "exceeds" => truth'.content \in {"exceeds", "nan"}
          /\ truth'.content = "exceeds" => run'.norms = "exceeds"
      BY <2>1, <3>2, <3>4, <3>8 DEF NektarRan
    <3>6. run'.fields \subseteq disk'
      BY <2>1, <2>5, <3>2 DEF NektarRan
    <3>7. NektarRan'
      BY <2>1, <2>2, <3>2, <3>3, <3>5, <3>6 DEF NektarRan
    <3> QED BY <2>3, <3>3, <3>7
  <2>6. CASE Nektar!RunFieldConvert
    <3>1. PICK exit \in {"0", "1", "timeout"}, wrote \in SUBSET {"vtu"},
               printed \in IF plan.step = "evaluate error" THEN Nektar!Norms ELSE {"none"} :
            LET read == IF exit = "timeout" THEN "none" ELSE Nektar!ExtractErrorNorms(printed)
            IN  /\ disk' = disk \cup wrote
                /\ truth' = IF exit = "timeout" \/ printed = "none" THEN truth
                            ELSE [truth EXCEPT !.content = printed]
                /\ run' = [run EXCEPT
                     !.postprocess = IF exit = "0" THEN "completed" ELSE "failed",
                     !.derived = IF exit = "timeout" THEN @ ELSE disk' \cap {"vtu"},
                     !.norms = IF read = "none" THEN @ ELSE read]
      BY <2>6 DEF Nektar!RunFieldConvert
    <3>2. printed \in Nektar!Norms
      BY <3>1 DEF Nektar!Norms
    <3> QED BY <2>5, <3>1, <3>2
  <2> QED BY <1>4, <2>4, <2>6 DEF Nektar!RunPostprocess
<1>5. CASE Nektar!ValidateRun
  <2>1. NektarGiven /\ NektarPlanned /\ NektarRan /\ NotReported
    BY <1>5 DEF Nektar!ValidateRun, NektarInv, Idle
  <2>2. UNCHANGED <<task, env, plan, disk, run, verdict, handed, truth>> /\ stage' = "done"
    BY <1>5 DEF Nektar!ValidateRun
  <2> DEFINE compared == Nektar!ErrorVsReference
             passed == /\ run.code = "0" /\ run.fields # {}
                       /\ compared # "false"
  <2>3. report' = [passed |-> passed, solver_exited_cleanly |-> run.code = "0",
                   field_files_exist |-> run.fields # {}, error_vs_reference |-> compared]
    BY <1>5 DEF Nektar!ValidateRun
  <2>4. /\ compared \in {"none", "true", "false"}
        /\ compared = "true" => run.norms = "within"
        /\ compared = "false" <=> run.norms = "exceeds"
    <3>1. run.norms \in {"none", "within", "exceeds"}
      BY <2>1 DEF NektarRan, Nektar!NektarRunArtifact, Nektar!Norms
    <3> QED BY <3>1 DEF Nektar!ErrorVsReference
  <2>5. passed \in BOOLEAN /\ (run.code = "0") \in BOOLEAN /\ (run.fields # {}) \in BOOLEAN
    OBVIOUS
  <2>6. passed => Nektar!Earned
    <3>1. run.fields \subseteq Nektar!Fields
      BY <2>1 DEF NektarRan, Nektar!NektarRunArtifact
    <3>2. compared # "false" => truth.content # "exceeds"
      BY <2>1, <2>4 DEF NektarRan
    <3> QED BY <2>1, <3>1, <3>2 DEF NektarRan, Nektar!Earned
  <2> HIDE DEF compared, passed
  <2>7. report' \in Nektar!NektarValidationReport
    BY <2>3, <2>4, <2>5 DEF Nektar!NektarValidationReport
  <2>8. report'.passed = passed /\ report'.error_vs_reference = compared
    BY <2>3
  <2>9. Nektar!CauseNamed'
    BY <2>1, <2>2, <2>4, <2>8 DEF Nektar!CauseNamed, NektarRan
  <2>10. NektarReported'
    BY <2>2, <2>6, <2>7, <2>8, <2>9 DEF NektarReported, Nektar!Earned
  <2> QED BY <2>1, <2>2, <2>10 DEF NektarInv, NektarGiven, NektarTruth
<1> QED BY <1>1, <1>2, <1>3, <1>4, <1>5 DEF Nektar!Next

(* NektarInv is enough for the three properties.                           *)
LEMMA NektarHolds ==
  ASSUME NektarInv
  PROVE  Nektar!Typed /\ (Made(report) => Nektar!CauseNamed) /\ (Accepted => Nektar!Earned)
BY DEF NektarInv, NektarGiven, NektarReported, NotPlanned, NotRun, NotReported,
   NotJudged,
  Nektar!Typed, Made, Nektar!Made, Nothing, Nektar!Nothing, Idle, NotHanded, Accepted, At

------------------------------------------------------------------------------
(* BOUT++.  BoutppInv says, for each stage of a run, what the components   *)
(* that have worked are known to have left, and how that stands to what    *)
(* really happened.                                                        *)
BoutppTruth ==
  truth \in Truths(SUBSET Boutpp!Needs, {"not run", "0", "1", "timeout", "os error"},
                   SUBSET Boutpp!Outputs, Boutpp!Contents)
BoutppProbed ==
  /\ env \in Boutpp!BoutPPEnvironmentReport
  /\ env.available <=> {"root", "launcher", "executable"} \cap truth.lacks = {}
BoutppPlanned ==
  /\ plan \in Boutpp!BoutPPRunPlan
  /\ plan.launcher_mode = task.launcher_mode /\ plan.required = task.required
BoutppRan ==
  /\ run \in Boutpp!BoutPPRunArtifact
  /\ run.status = "unavailable" => truth.exit = "not run"
  /\ run.status \in {"timeout", "failed"} =>
       truth.exit \in {"1", "timeout", "os error"}
  /\ run.status = "completed" =>
       /\ truth.exit = "0"
       /\ task.launcher_mode = "mpi" => "named launcher" \notin truth.lacks
  /\ run.status # "unavailable" =>
       run.files = disk /\ run.missing_artifacts = task.required \ disk
  /\ "dumps" \in run.files => truth.content # "none"
BoutppPostprocessed ==
  /\ verdict \in Boutpp!BoutPPPostprocessReport
  /\ run.status # "unavailable" => verdict.content = Boutpp!CollectNetcdfMetadata
(* What a report that passes stands for: all that Earned asks for, but the *)
(* environment, which only the policy looks at.                            *)
BoutppRunEarned ==
  /\ truth.exit = "0"
  /\ task.launcher_mode = "mpi" => "named launcher" \notin truth.lacks
  /\ task.required \subseteq truth.wrote \cup disk
  /\ task.asks = "variables" =>
       truth.content = "good" \/ "dumps" \notin truth.wrote
BoutppReported ==
  /\ report \in Boutpp!BoutPPValidationReport
  /\ Boutpp!CauseNamed /\ (report.passed => BoutppRunEarned)
BoutppJudged ==
  /\ verdict \in Boutpp!BoutPPPolicyReport
  /\ verdict.passed => {"root", "launcher", "executable"} \cap truth.lacks = {}
BoutppGiven ==
  /\ task \in Boutpp!BoutPPProblemSpec /\ BoutppTruth
  /\ disk \in SUBSET Boutpp!Outputs
  /\ env = Nothing \/ env \in Boutpp!BoutPPEnvironmentReport
  /\ plan = Nothing \/ plan \in Boutpp!BoutPPRunPlan
  /\ run = Nothing \/ run \in Boutpp!BoutPPRunArtifact
BoutppInv ==
  /\ BoutppGiven
  /\ \/ stage \in {"issue", "probe"} /\ Idle
     \/ stage = "compile" /\ BoutppProbed /\ truth.exit = "not run" /\ NotPlanned
     \/ stage = "execute" /\ BoutppProbed /\ truth.exit = "not run" /\ BoutppPlanned
          /\ NotRun
     \/ stage = "postprocess" /\ BoutppProbed /\ BoutppPlanned /\ BoutppRan /\ NotReported
     \/ stage = "validate" /\ BoutppProbed /\ BoutppPlanned /\ BoutppRan
          /\ BoutppPostprocessed /\ report = Nothing /\ handed = Nothing
     \/ stage = "judge" /\ BoutppProbed /\ BoutppReported /\ NotJudged
     \/ stage = "hand over" /\ BoutppReported /\ BoutppJudged /\ handed = Nothing
     \/ stage = "done" /\ BoutppReported /\ BoutppJudged
          /\ handed.made /\ (handed.promoted => report.passed /\ verdict.passed)

(* A run of BOUT++ begins in BoutppInv, from a fresh start or when the     *)
(* task is run again, and stays there when nothing happens.                *)
LEMMA BoutppBegins ==
  ASSUME At("issue"), Idle, disk = {}, task \in Boutpp!Tasks PROVE BoutppInv
BY DEF Idle, BoutppInv, BoutppGiven, Untouched, BoutppTruth, Truths, At, NotHanded,
   Boutpp!Tasks, Boutpp!Contents

LEMMA BoutppRestarts == ASSUME BoutppInv, Restarts PROVE BoutppInv'
BY DEF Restarts, BoutppInv, BoutppGiven, Untouched, Idle, NotHanded, BoutppTruth,
   Truths, Boutpp!Contents

LEMMA BoutppStays == ASSUME BoutppInv, UNCHANGED vars PROVE BoutppInv'
<1> USE DEF vars
<1>1. BoutppGiven'
  BY DEF BoutppInv, BoutppGiven, BoutppTruth
<1>2. BoutppProbed => BoutppProbed'
  BY DEF BoutppProbed, Boutpp!CollectNetcdfMetadata
<1>3. BoutppPlanned => BoutppPlanned'
  BY DEF BoutppPlanned
<1>4. BoutppRan => BoutppRan'
  BY DEF BoutppRan
<1>5. BoutppPostprocessed => BoutppPostprocessed'
  BY DEF BoutppPostprocessed, Boutpp!CollectNetcdfMetadata
<1>6. BoutppReported => BoutppReported'
  BY DEF BoutppReported, BoutppRunEarned, Boutpp!CauseNamed
<1>7. BoutppJudged => BoutppJudged'
  BY DEF BoutppJudged, Boutpp!CollectNetcdfMetadata
<1> QED BY <1>1, <1>2, <1>3, <1>4, <1>5, <1>6, <1>7 DEF BoutppInv, Idle, NotHanded,
    NotPlanned, NotRun, NotReported, NotJudged

(* Every step of BOUT++ preserves BoutppInv, one component at a time.      *)
LEMMA BoutppStep == ASSUME BoutppInv, Boutpp!Next PROVE BoutppInv'
<1> USE DEF Boutpp!At, Boutpp!Goto, Boutpp!Raise, NotPlanned, NotRun, NotReported, NotJudged
<1>1. CASE Boutpp!IssueTask
  BY <1>1 DEF Boutpp!IssueTask, BoutppInv, BoutppGiven, BoutppTruth, Idle, NotHanded
<1>2. CASE Boutpp!Probe
  <2>1. BoutppGiven /\ Idle
    BY <1>2 DEF Boutpp!Probe, BoutppInv
  <2>2. PICK lacks \in SUBSET Boutpp!Needs :
          /\ env' = [available |-> Boutpp!ProbeMisses(lacks) = {},
                     blocks_promotion |-> Boutpp!ProbeMisses(lacks) # {},
                     missing |-> Boutpp!ProbeMisses(lacks)]
          /\ truth' = [truth EXCEPT !.lacks = lacks]
    BY <1>2 DEF Boutpp!Probe
  <2>3. truth' = [lacks |-> lacks, exit |-> "not run", wrote |-> {}, content |-> "none"]
    BY <2>1, <2>2 DEF Idle, Untouched
  <2>4. BoutppTruth' /\ truth'.exit = "not run" /\ truth'.lacks = lacks
    BY <2>3 DEF BoutppTruth, Truths, Boutpp!Contents
  <2>5. env' \in Boutpp!BoutPPEnvironmentReport
    <3>1. Boutpp!ProbeMisses(lacks) \in SUBSET Boutpp!Needs
      BY DEF Boutpp!ProbeMisses
    <3> QED BY <2>2, <3>1 DEF Boutpp!BoutPPEnvironmentReport
  <2>6. env'.available = (Boutpp!ProbeMisses(lacks) = {})
    BY <2>2
  <2>7. BoutppProbed'
    BY <2>4, <2>5, <2>6 DEF BoutppProbed, Boutpp!ProbeMisses
  <2>8. stage' = "compile" /\ NotPlanned' /\ task' = task /\ disk' = disk
    BY <1>2, <2>1 DEF Boutpp!Probe, Idle, NotHanded
  <2>9. BoutppGiven'
    BY <2>1, <2>4, <2>5, <2>8 DEF BoutppGiven
  <2> QED BY <2>4, <2>7, <2>8, <2>9 DEF BoutppInv
<1>3. CASE Boutpp!Compile
  <2>1. BoutppGiven /\ BoutppProbed /\ truth.exit = "not run" /\ NotPlanned
    BY <1>3 DEF Boutpp!Compile, BoutppInv
  <2>2. UNCHANGED <<task, env, disk, run, report, verdict, handed, truth>> /\ stage' = "execute"
    BY <1>3 DEF Boutpp!Compile
  <2>3. plan' = [launcher_mode |-> task.launcher_mode, executable |-> task.executable,
                 sameDirectory |-> task.sameDirectory, required |-> task.required]
    BY <1>3 DEF Boutpp!Compile
  <2>4. task.required \in SUBSET Boutpp!Outputs /\ task.sameDirectory \in BOOLEAN
        /\ task.launcher_mode \in {"mpi", "direct"}
        /\ task.executable \in {"path", "source case", "build tree"}
    BY <2>1 DEF BoutppGiven, Boutpp!BoutPPProblemSpec, Boutpp!Outputs
  <2>5. plan' \in Boutpp!BoutPPRunPlan
    BY <2>3, <2>4 DEF Boutpp!BoutPPRunPlan
  <2>6. BoutppPlanned'
    BY <2>2, <2>3, <2>5 DEF BoutppPlanned
  <2>7. BoutppGiven' /\ BoutppProbed' /\ NotRun'
    BY <2>1, <2>2, <2>5 DEF BoutppGiven, BoutppProbed, BoutppTruth
  <2> QED BY <2>1, <2>2, <2>6, <2>7 DEF BoutppInv
<1>4. CASE Boutpp!Execute
  <2>1. BoutppGiven /\ BoutppProbed /\ truth.exit = "not run" /\ BoutppPlanned /\ NotRun
    BY <1>4 DEF Boutpp!Execute, BoutppInv, Idle
  <2>2. UNCHANGED <<task, env, plan, report, verdict, handed>> /\ stage' = "postprocess"
    BY <1>4 DEF Boutpp!Execute
  <2>3. ASSUME BoutppTruth', truth'.lacks = truth.lacks, disk' \in SUBSET Boutpp!Outputs, BoutppRan'
        PROVE  BoutppInv'
    <3>1. BoutppProbed'
      BY <2>1, <2>2, <2>3 DEF BoutppProbed
    <3> QED BY <2>1, <2>2, <2>3, <3>1 DEF BoutppInv, BoutppGiven, BoutppRan,
        BoutppPlanned
  <2>4. CASE /\ run' = [status |-> "unavailable", code |-> "none", files |-> {},
                        missing_artifacts |-> {"executable"}, log |-> "good"]
             /\ UNCHANGED <<disk, truth>>
    <3>1. run' \in Boutpp!BoutPPRunArtifact /\ run'.status = "unavailable" /\ run'.files = {}
      BY <2>4 DEF Boutpp!BoutPPRunArtifact
    <3>2. BoutppRan'
      BY <2>1, <2>4, <3>1 DEF BoutppRan
    <3> QED BY <2>1, <2>3, <2>4, <3>2 DEF BoutppGiven, BoutppTruth
  <2>5. ASSUME ~Boutpp!UnavailableReason, NEW exit \in {"0", "1", "timeout", "os error"},
               NEW wrote \in SUBSET Boutpp!Outputs, NEW content \in Boutpp!Contents,
               NEW log \in {"good", "slow"},
               content = "none" <=> "dumps" \notin wrote \cup Boutpp!CopySourceData,
               disk' = Boutpp!CopySourceData \cup IF plan.sameDirectory THEN wrote ELSE {},
               truth' = [truth EXCEPT !.exit = exit, !.wrote = wrote, !.content = content],
               run' = Boutpp!DiscoverArtifacts(
                 CASE exit = "0" -> "completed" [] exit = "timeout" -> "timeout"
                   [] OTHER -> "failed",
                 CASE exit = "timeout" -> "-1" [] exit = "os error" -> "-2"
                   [] OTHER -> exit,
                 disk', log)
        PROVE  BoutppInv'
    <3>1. /\ BoutppTruth' /\ truth'.lacks = truth.lacks /\ truth'.exit = exit
          /\ truth'.content = content
      BY <2>1, <2>5 DEF BoutppGiven, BoutppTruth, Truths
    <3>2. disk' \in SUBSET Boutpp!Outputs
      BY <2>1, <2>5 DEF BoutppGiven, Boutpp!CopySourceData, Boutpp!BoutPPProblemSpec,
         Boutpp!Outputs
    <3>3. "dumps" \in disk' => content # "none"
      BY <2>5
    <3> DEFINE status == CASE exit = "0" -> "completed" [] exit = "timeout" -> "timeout"
                           [] OTHER -> "failed"
               code == CASE exit = "timeout" -> "-1" [] exit = "os error" -> "-2"
                         [] OTHER -> exit
    <3>4. run' = [status |-> status, code |-> code, files |-> disk',
                  missing_artifacts |-> plan.required \ disk', log |-> log]
      BY <2>5 DEF Boutpp!DiscoverArtifacts
    <3>5. /\ status \in {"completed", "failed", "timeout"} /\ code \in {"0", "1", "-1", "-2"}
          /\ status \in {"timeout", "failed"} <=> exit \in {"1", "timeout", "os error"}
          /\ status = "completed" <=> exit = "0"
      OBVIOUS
    <3> HIDE DEF status, code
    <3>6. plan.required \ disk' \in SUBSET Boutpp!Outputs
      BY <2>1 DEF BoutppPlanned, Boutpp!BoutPPRunPlan
    <3>7. run' \in Boutpp!BoutPPRunArtifact
      BY <3>2, <3>4, <3>5, <3>6 DEF Boutpp!BoutPPRunArtifact
    <3>8. /\ run'.status = status /\ run'.files = disk'
          /\ run'.missing_artifacts = task'.required \ disk'
      BY <2>1, <2>2, <3>4 DEF BoutppPlanned
    <3>9. task'.launcher_mode = "mpi" => "named launcher" \notin truth'.lacks
      BY <2>1, <2>2, <2>5, <3>1 DEF BoutppPlanned, Boutpp!UnavailableReason
    <3>10. BoutppRan'
      BY <3>1, <3>3, <3>5, <3>7, <3>8, <3>9 DEF BoutppRan
    <3> QED BY <2>3, <3>1, <3>2, <3>10
  <2>6. CASE Boutpp!RunCommand
    <3>1. PICK exit \in {"0", "1", "timeout", "os error"}, wrote \in SUBSET Boutpp!Outputs,
               content \in Boutpp!Contents, log \in {"good", "slow"} :
            /\ exit = "os error" => wrote = {}
            /\ task.asks # "threshold" => log = "good"
            /\ task.asks # "variables" => content \in {"none", "good"}
            /\ content = "none" <=> "dumps" \notin wrote \cup Boutpp!CopySourceData
            /\ "logs" \notin wrote => log = "good"
            /\ "reader" \in truth.lacks /\ task.asks = "variables" =>
                 content \in {"none", "unreadable"}
            /\ disk' = Boutpp!CopySourceData \cup IF plan.sameDirectory THEN wrote ELSE {}
            /\ truth' = [truth EXCEPT !.exit = exit, !.wrote = wrote, !.content = content]
            /\ run' = Boutpp!DiscoverArtifacts(
                 CASE exit = "0" -> "completed" [] exit = "timeout" -> "timeout"
                   [] OTHER -> "failed",
                 CASE exit = "timeout" -> "-1" [] exit = "os error" -> "-2"
                   [] OTHER -> exit,
                 disk', log)
      BY <2>6, Zenon DEF Boutpp!RunCommand
    <3>2. ~Boutpp!UnavailableReason
      BY <2>6 DEF Boutpp!RunCommand
    <3> QED BY <2>5, <3>1, <3>2
  <2> QED BY <1>4, <2>4, <2>6 DEF Boutpp!Execute
<1>5. CASE Boutpp!Postprocess
  <2>1. BoutppGiven /\ BoutppProbed /\ BoutppPlanned /\ BoutppRan /\ NotReported
    BY <1>5 DEF Boutpp!Postprocess, BoutppInv, Idle
  <2>2. UNCHANGED <<task, env, plan, disk, run, report, handed, truth>> /\ stage' = "validate"
    BY <1>5 DEF Boutpp!Postprocess
  <2> DEFINE content == IF run.status = "unavailable" THEN "none" ELSE Boutpp!CollectNetcdfMetadata
             status == IF run.status = "unavailable" THEN "unavailable"
                       ELSE IF run.status = "completed" THEN "completed" ELSE "partial"
  <2>3. verdict' = [status |-> status, content |-> content]
    BY <1>5 DEF Boutpp!Postprocess
  <2>4. truth.content \in Boutpp!Contents
    BY <2>1 DEF BoutppGiven, BoutppTruth, Truths
  <2>5. content \in Boutpp!Contents /\ status \in {"completed", "partial", "unavailable"}
    BY <2>4 DEF Boutpp!CollectNetcdfMetadata, Boutpp!Contents
  <2>6. run.status # "unavailable" => content = Boutpp!CollectNetcdfMetadata
    OBVIOUS
  <2> HIDE DEF content, status
  <2>7. verdict' \in Boutpp!BoutPPPostprocessReport /\ verdict'.content = content
    BY <2>3, <2>5 DEF Boutpp!BoutPPPostprocessReport
  <2>8. BoutppPostprocessed'
    BY <2>2, <2>6, <2>7 DEF BoutppPostprocessed, Boutpp!CollectNetcdfMetadata
  <2>9. BoutppGiven' /\ BoutppProbed' /\ BoutppPlanned' /\ BoutppRan'
    BY <2>1, <2>2 DEF BoutppGiven, BoutppProbed, BoutppPlanned, BoutppRan, BoutppTruth
  <2> QED BY <2>1, <2>2, <2>8, <2>9 DEF BoutppInv
<1>6. CASE Boutpp!Validate
  <2>1. BoutppGiven /\ BoutppProbed /\ BoutppPlanned /\ BoutppRan /\ BoutppPostprocessed
        /\ report = Nothing /\ handed = Nothing
    BY <1>6 DEF Boutpp!Validate, BoutppInv, Idle
  <2>2. UNCHANGED <<task, env, plan, disk, run, handed, truth>> /\ stage' = "judge" /\ verdict' = Nothing
    BY <1>6 DEF Boutpp!Validate, Boutpp!Nothing, Nothing
  <2> DEFINE status == Boutpp!ValidationStatus(verdict)
  <2>3. report' = [passed |-> status = "executed", status |-> status,
                   blocks |-> status # "executed"]
    BY <1>6 DEF Boutpp!Validate
  <2>4. run.status \in {"completed", "failed", "timeout", "unavailable"}
    BY <2>1 DEF BoutppRan, Boutpp!BoutPPRunArtifact
  <2>5. status \in Boutpp!BoutPPValidationStatus
    BY <2>4 DEF Boutpp!ValidationStatus, Boutpp!BoutPPValidationStatus
  <2>6. status = "runtime_failed" <=> truth.exit \in {"1", "timeout", "os error"}
    <3>1. status = "runtime_failed" <=> run.status \in {"timeout", "failed"}
      BY <2>4 DEF Boutpp!ValidationStatus
    <3> QED BY <2>1, <2>4, <3>1 DEF BoutppRan
  <2>7. ASSUME status = "artifact_missing" PROVE task.required \ disk # {}
    <3>1. run.status = "completed" /\ run.missing_artifacts # {}
      BY <2>4, <2>7 DEF Boutpp!ValidationStatus
    <3> QED BY <2>1, <3>1 DEF BoutppRan
  <2>8. ASSUME status = "variable_missing"
        PROVE  "dumps" \notin disk \/ truth.content \in {"variable missing", "unreadable"}
    <3>1. run.status = "completed" /\ verdict.content \in {"none", "variable missing", "unreadable"}
      BY <2>4, <2>8 DEF Boutpp!ValidationStatus
    <3>2. run.files = disk /\ verdict.content = Boutpp!CollectNetcdfMetadata
      BY <2>1, <3>1 DEF BoutppRan, BoutppPostprocessed
    <3> QED BY <2>1, <3>1, <3>2 DEF Boutpp!CollectNetcdfMetadata, BoutppRan
  <2>9. ASSUME status = "executed" PROVE BoutppRunEarned
    <3>1. run.status = "completed" /\ run.missing_artifacts = {}
      BY <2>4, <2>9 DEF Boutpp!ValidationStatus
    <3>2. /\ truth.exit = "0" /\ task.required \subseteq disk
          /\ task.launcher_mode = "mpi" => "named launcher" \notin truth.lacks
      BY <2>1, <3>1 DEF BoutppRan
    <3>3. ASSUME task.asks = "variables" PROVE truth.content = "good"
      <4>1. verdict.content \notin {"none", "variable missing", "unreadable", "other size"}
        BY <2>9, <3>1, <3>3 DEF Boutpp!ValidationStatus
      <4>2. verdict.content = Boutpp!CollectNetcdfMetadata
        BY <2>1, <3>1 DEF BoutppPostprocessed
      <4>3. truth.content \in Boutpp!Contents
        BY <2>1 DEF BoutppGiven, BoutppTruth, Truths
      <4> QED BY <4>1, <4>2, <4>3 DEF Boutpp!CollectNetcdfMetadata, Boutpp!Contents
    <3> QED BY <3>2, <3>3 DEF BoutppRunEarned
  <2> HIDE DEF status
  <2>10. report' \in Boutpp!BoutPPValidationReport
    BY <2>3, <2>5 DEF Boutpp!BoutPPValidationReport
  <2>11. report'.passed = (status = "executed") /\ report'.status = status
    BY <2>3
  <2>12. Boutpp!CauseNamed'
    BY <2>2, <2>6, <2>7, <2>8, <2>11 DEF Boutpp!CauseNamed
  <2>13. BoutppReported'
    BY <2>2, <2>9, <2>10, <2>11, <2>12 DEF BoutppReported, BoutppRunEarned
  <2>14. BoutppGiven' /\ BoutppProbed'
    BY <2>1, <2>2 DEF BoutppGiven, BoutppProbed, BoutppTruth
  <2> QED BY <2>1, <2>2, <2>13, <2>14 DEF BoutppInv
<1>7. CASE Boutpp!Judge
  <2>1. BoutppGiven /\ BoutppProbed /\ BoutppReported /\ NotJudged
    BY <1>7 DEF Boutpp!Judge, BoutppInv, Idle
  <2>2. UNCHANGED <<task, env, plan, disk, run, report, handed, truth>> /\ stage' = "hand over"
    BY <1>7 DEF Boutpp!Judge
  <2> DEFINE gates == Boutpp!GatesAndReadiness
  <2>3. verdict' = [passed |-> Boutpp!Decision(gates) = "allow",
                    decision |-> Boutpp!Decision(gates)]
    BY <1>7 DEF Boutpp!Judge
  <2>4. Boutpp!Decision(gates) \in {"allow", "defer", "reject"}
    BY DEF Boutpp!Decision
  <2>5. ASSUME ~env.available PROVE Boutpp!Decision(gates) # "allow"
    <3> DEFINE g == Boutpp!Gate("boutpp_environment_readiness", "reject")
    <3>1. g \in gates
      BY <2>5 DEF Boutpp!GatesAndReadiness, Boutpp!Gates, Boutpp!GateIf
    <3>2. g.decision = "reject"
      BY DEF Boutpp!Gate
    <3> QED BY <3>1, <3>2 DEF Boutpp!Decision
  <2> HIDE DEF gates
  <2>6. verdict' \in Boutpp!BoutPPPolicyReport
    BY <2>3, <2>4 DEF Boutpp!BoutPPPolicyReport
  <2>7. verdict'.passed => env.available
    BY <2>3, <2>5
  <2>8. BoutppJudged'
    BY <2>1, <2>2, <2>6, <2>7 DEF BoutppJudged, BoutppProbed
  <2>9. BoutppReported'
    BY <2>1, <2>2 DEF BoutppReported, Boutpp!CauseNamed, BoutppRunEarned
  <2> QED BY <2>1, <2>2, <2>8, <2>9 DEF BoutppInv, BoutppGiven, BoutppTruth
<1>8. CASE Boutpp!HandOver
  <2>1. BoutppGiven /\ BoutppReported /\ BoutppJudged
    BY <1>8 DEF Boutpp!HandOver, BoutppInv, Idle
  <2>2. UNCHANGED <<task, env, plan, disk, run, report, verdict, truth>> /\ stage' = "done"
    BY <1>8 DEF Boutpp!HandOver
  <2>3. handed'.made = TRUE /\ handed'.promoted = Boutpp!CoreValid
    BY <1>8 DEF Boutpp!HandOver, Boutpp!Handed
  <2>4. BoutppReported' /\ BoutppJudged'
    BY <2>1, <2>2 DEF BoutppReported, BoutppJudged, Boutpp!CauseNamed, BoutppRunEarned
  <2>5. handed'.promoted => report'.passed /\ verdict'.passed
    BY <2>2, <2>3 DEF Boutpp!CoreValid
  <2> QED BY <2>1, <2>2, <2>3, <2>4, <2>5 DEF BoutppInv, BoutppGiven, BoutppTruth
<1> QED BY <1>1, <1>2, <1>3, <1>4, <1>5, <1>6, <1>7, <1>8 DEF Boutpp!Next

(* BoutppInv is enough for the three properties.                           *)
LEMMA BoutppHolds ==
  ASSUME BoutppInv
  PROVE  Boutpp!Typed /\ (Made(report) => Boutpp!CauseNamed) /\ (Accepted => Boutpp!Earned)
<1> USE DEF NotPlanned, NotRun, NotReported, NotJudged, Made, Nothing, Idle, NotHanded
<1>1. Boutpp!Typed
  BY DEF BoutppInv, BoutppGiven, BoutppReported, BoutppJudged, BoutppPostprocessed,
    Boutpp!Typed, Boutpp!Made, Boutpp!Nothing
<1>2. Made(report) => Boutpp!CauseNamed
  BY DEF BoutppInv, BoutppReported
<1>3. ASSUME Accepted PROVE Boutpp!Earned
  <2>1. BoutppReported /\ BoutppJudged /\ report.passed /\ verdict.passed
    BY <1>3 DEF Accepted, At, BoutppInv
  <2> QED BY <2>1 DEF BoutppReported, BoutppRunEarned, BoutppJudged, Boutpp!Earned
<1> QED BY <1>1, <1>2, <1>3

------------------------------------------------------------------------------
(* ABACUS.  AbacusInv says, for each stage of a run, what the components   *)
(* that have worked are known to have left, and how that stands to what    *)
(* really happened.                                                        *)
AbacusTruth ==
  truth \in Truths(SUBSET Abacus!Needs, {"not run", "0", "1", "timeout"},
                   SUBSET Abacus!Outputs, {"none"})
AbacusPlanned ==
  /\ plan \in Abacus!AbacusRunPlan
  /\ plan.family = task.family /\ plan.launched = task.launched
  /\ plan.expected_logs = {"running log"}
AbacusRan ==
  /\ run \in Abacus!AbacusRunArtifact
  /\ \/ /\ run.status = "unavailable" /\ run.code = "none" /\ truth.exit = "not run"
        /\ run.fallback_reason # "command_timeout"
        /\ {"binary", "launcher"} \cap truth.lacks # {}
     \/ /\ run.status = "failed" /\ run.fallback_reason = "command_timeout"
        /\ run.code = "none" /\ truth.exit = "timeout"
     \/ /\ run.status \in {"completed", "failed"} /\ run.fallback_reason = "none"
        /\ run.code \in {"0", "1"} /\ run.code = truth.exit
        /\ "binary" \notin truth.lacks
        /\ task.launched => "launcher" \notin truth.lacks
        /\ run.output_files \subseteq disk /\ run.diagnostic_files \subseteq disk
        /\ Abacus!Outputs \subseteq disk =>
             Abacus!Outputs \subseteq run.output_files /\ "running log" \in run.diagnostic_files
AbacusReported ==
  /\ report \in Abacus!AbacusValidationReport
  /\ Abacus!CauseNamed /\ (report.passed => Abacus!Earned)
AbacusGiven ==
  /\ task \in Abacus!AbacusExperimentSpec /\ AbacusTruth
  /\ disk \in SUBSET Abacus!Files
  /\ env = Nothing \/ env \in Abacus!AbacusEnvironmentReport
  /\ plan = Nothing \/ plan \in Abacus!AbacusRunPlan
  /\ run = Nothing \/ run \in Abacus!AbacusRunArtifact
AbacusInv ==
  /\ AbacusGiven
  /\ \/ stage \in {"issue", "probe"} /\ Idle
     \/ stage = "compile" /\ truth.exit = "not run" /\ NotPlanned
     \/ stage = "execute" /\ truth.exit = "not run" /\ AbacusPlanned /\ NotRun
     \/ stage = "validate" /\ AbacusPlanned /\ AbacusRan /\ NotReported
     \/ stage = "done" /\ AbacusReported /\ NotJudged

(* A run of ABACUS begins in AbacusInv, from a fresh start or when the     *)
(* task is run again, and stays there when nothing happens.                *)
LEMMA AbacusBegins ==
  ASSUME At("issue"), Idle, disk = {}, task \in Abacus!Tasks PROVE AbacusInv
BY DEF Idle, AbacusInv, AbacusGiven, Untouched, AbacusTruth, Truths, At, NotHanded,
   Abacus!Tasks

LEMMA AbacusRestarts == ASSUME AbacusInv, Restarts PROVE AbacusInv'
BY DEF Restarts, AbacusInv, AbacusGiven, Untouched, Idle, NotHanded, AbacusTruth, Truths

LEMMA AbacusStays == ASSUME AbacusInv, UNCHANGED vars PROVE AbacusInv'
BY DEF vars, AbacusTruth, AbacusPlanned, AbacusRan, AbacusReported, AbacusGiven,
    AbacusInv, Idle, NotHanded, NotPlanned, NotRun, NotReported, NotJudged,
    Abacus!CauseNamed, Abacus!Earned

(* Every step of ABACUS preserves AbacusInv, one component at a time.      *)
LEMMA AbacusStep == ASSUME AbacusInv, Abacus!Next PROVE AbacusInv'
<1> USE DEF Abacus!At, Abacus!Goto, Abacus!Raise, NotPlanned, NotRun, NotReported, NotJudged
<1>1. CASE Abacus!IssueTask
  BY <1>1 DEF Abacus!IssueTask, AbacusInv, AbacusGiven, AbacusTruth, Idle, NotHanded
<1>2. CASE Abacus!Probe
  <2>1. AbacusGiven /\ Idle
    BY <1>2 DEF Abacus!Probe, AbacusInv
  <2>2. PICK lacks \in SUBSET Abacus!Needs :
          /\ "binary" \in lacks => "deeppmd_support" \in lacks
          /\ env' = [abacus_available |-> "binary" \notin lacks,
                     launcher_available |-> ~(task.launched /\ "launcher" \in lacks),
                     required_paths_present |->
                       Abacus!RequiredPathGroups(task) \cap lacks = {},
                     missing_prerequisites |-> Abacus!EnvironmentPrerequisites(task) \cap lacks]
          /\ truth' = [truth EXCEPT !.lacks = lacks]
    BY <1>2 DEF Abacus!Probe
  <2>3. truth' = [lacks |-> lacks, exit |-> "not run", wrote |-> {}, content |-> "none"]
    BY <2>1, <2>2 DEF Idle, Untouched
  <2>4. AbacusTruth' /\ truth'.exit = "not run"
    BY <2>3 DEF AbacusTruth, Truths
  <2> DEFINE missing == Abacus!EnvironmentPrerequisites(task) \cap lacks
             present == Abacus!RequiredPathGroups(task) \cap lacks = {}
             launcher == ~(task.launched /\ "launcher" \in lacks)
             binary == "binary" \notin lacks
  <2>5. missing \in SUBSET {"deeppmd_support"}
    BY DEF Abacus!EnvironmentPrerequisites
  <2>6. present \in BOOLEAN /\ launcher \in BOOLEAN /\ binary \in BOOLEAN
    OBVIOUS
  <2>7. env' = [abacus_available |-> binary, launcher_available |-> launcher,
                required_paths_present |-> present, missing_prerequisites |-> missing]
    BY <2>2
  <2> HIDE DEF missing, present, launcher, binary
  <2>8. env' \in Abacus!AbacusEnvironmentReport
    BY <2>5, <2>6, <2>7 DEF Abacus!AbacusEnvironmentReport
  <2>9. stage' = "compile" /\ NotPlanned' /\ task' = task /\ disk' = disk
    BY <1>2, <2>1 DEF Abacus!Probe, Idle, NotHanded
  <2>10. AbacusGiven'
    BY <2>1, <2>4, <2>8, <2>9 DEF AbacusGiven
  <2> QED BY <2>4, <2>9, <2>10 DEF AbacusInv
<1>3. CASE Abacus!Compile
  <2>1. AbacusGiven /\ truth.exit = "not run" /\ NotPlanned
    BY <1>3 DEF Abacus!Compile, AbacusInv, Idle
  <2>2. UNCHANGED <<task, env, disk, run, report, verdict, handed, truth>> /\ stage' = "execute"
    BY <1>3 DEF Abacus!Compile
  <2>3. plan' = [family |-> task.family, launched |-> task.launched,
                 expected_logs |-> {"running log"}]
    BY <1>3 DEF Abacus!Compile
  <2>4. task.family \in Abacus!AbacusApplicationFamily /\ task.launched \in BOOLEAN
    BY <2>1 DEF AbacusGiven, Abacus!AbacusExperimentSpec
  <2>5. {"running log"} \in SUBSET Abacus!Files
    BY DEF Abacus!Files, Abacus!Outputs
  <2>6. plan' \in Abacus!AbacusRunPlan
    BY <2>3, <2>4, <2>5 DEF Abacus!AbacusRunPlan
  <2>7. AbacusPlanned'
    BY <2>2, <2>3, <2>6 DEF AbacusPlanned
  <2>8. AbacusGiven' /\ NotRun'
    BY <2>1, <2>2, <2>6 DEF AbacusGiven, AbacusTruth
  <2> QED BY <2>1, <2>2, <2>7, <2>8 DEF AbacusInv
<1>4. CASE Abacus!ExecutePlan
  <2>1. AbacusGiven /\ truth.exit = "not run" /\ AbacusPlanned /\ NotRun
    BY <1>4 DEF Abacus!ExecutePlan, AbacusInv, Idle
  <2>2. UNCHANGED <<task, env, plan, report, verdict, handed>> /\ stage' = "validate"
    BY <1>4 DEF Abacus!ExecutePlan
  <2>3. ASSUME AbacusTruth', disk' \in SUBSET Abacus!Files, AbacusRan' PROVE AbacusInv'
    BY <2>1, <2>2, <2>3 DEF AbacusInv, AbacusGiven, AbacusRan, AbacusPlanned
  <2>4. Abacus!WriteInputs \in SUBSET Abacus!Files
    BY <2>1 DEF AbacusGiven, Abacus!WriteInputs, Abacus!Files
  <2>5. CASE /\ Abacus!FallbackReason # "none"
             /\ run' = Abacus!NoEvidence("unavailable", Abacus!FallbackReason)
             /\ disk' = Abacus!WriteInputs
             /\ truth' = truth
    <3> DEFINE reason == Abacus!FallbackReason
    <3>1. /\ reason \in {"binary_not_found", "launcher_not_found"}
          /\ {"binary", "launcher"} \cap truth.lacks # {}
      BY <2>5 DEF Abacus!FallbackReason
    <3>2. run' = [status |-> "unavailable", code |-> "none", fallback_reason |-> reason,
                  output_files |-> {}, diagnostic_files |-> {}, structure_files |-> {}]
      BY <2>5 DEF Abacus!NoEvidence, Abacus!BuildArtifact
    <3> HIDE DEF reason
    <3>3. /\ run' \in Abacus!AbacusRunArtifact /\ run'.status = "unavailable"
          /\ run'.code = "none" /\ run'.fallback_reason = reason
      BY <3>1, <3>2 DEF Abacus!AbacusRunArtifact
    <3>4. AbacusRan'
      BY <2>1, <2>5, <3>1, <3>3 DEF AbacusRan
    <3> QED BY <2>1, <2>3, <2>4, <2>5, <3>4 DEF AbacusGiven, AbacusTruth
  <2>6. ASSUME Abacus!FallbackReason = "none",
               NEW exit \in {"0", "1", "timeout"}, NEW wrote \in SUBSET Abacus!Outputs,
               disk' = Abacus!WriteInputs \cup wrote,
               truth' = [truth EXCEPT !.exit = exit, !.wrote = wrote],
               run' = IF exit = "timeout" THEN Abacus!NoEvidence("failed", "command_timeout")
                      ELSE Abacus!BuildArtifact(IF exit = "0" THEN "completed" ELSE "failed",
                             exit, "none", Abacus!DiscoverOutputs(disk'),
                             Abacus!DiscoverDiagnostics(disk'),
                             Abacus!DiscoverStructureFiles(disk'))
        PROVE  AbacusInv'
    <3>1. AbacusTruth' /\ truth'.lacks = truth.lacks /\ truth'.exit = exit
      BY <2>1, <2>6 DEF AbacusGiven, AbacusTruth, Truths
    <3>2. disk' \in SUBSET Abacus!Files
      BY <2>4, <2>6 DEF Abacus!Files
    <3>3. CASE exit = "timeout"
      <4>1. run' = [status |-> "failed", code |-> "none", fallback_reason |-> "command_timeout",
                    output_files |-> {}, diagnostic_files |-> {}, structure_files |-> {}]
        BY <2>6, <3>3 DEF Abacus!NoEvidence, Abacus!BuildArtifact
      <4>2. run' \in Abacus!AbacusRunArtifact
        BY <4>1 DEF Abacus!AbacusRunArtifact
      <4>3. /\ run'.status = "failed" /\ run'.fallback_reason = "command_timeout"
            /\ run'.code = "none"
        BY <4>1
      <4>4. AbacusRan'
        BY <3>1, <3>3, <4>2, <4>3 DEF AbacusRan
      <4> QED BY <2>3, <3>1, <3>2, <4>4
    <3>4. CASE exit \in {"0", "1"}
      <4> DEFINE outputs == Abacus!DiscoverOutputs(disk')
                 logs == Abacus!DiscoverDiagnostics(disk')
                 structures == Abacus!DiscoverStructureFiles(disk')
                 status == IF exit = "0" THEN "completed" ELSE "failed"
      <4>1. run' = [status |-> status, code |-> exit, fallback_reason |-> "none",
                    output_files |-> outputs, diagnostic_files |-> logs,
                    structure_files |-> structures]
        BY <2>6, <3>4 DEF Abacus!BuildArtifact
      <4>2. /\ outputs \subseteq disk'
            /\ Abacus!Outputs \subseteq disk' => Abacus!Outputs \subseteq outputs
        BY DEF Abacus!DiscoverOutputs, Abacus!Outputs
      <4>3. /\ logs \subseteq disk'
            /\ Abacus!Outputs \subseteq disk' => "running log" \in logs
        BY <2>1 DEF Abacus!DiscoverDiagnostics, Abacus!Outputs, AbacusPlanned
      <4>4. structures \subseteq disk'
        BY DEF Abacus!DiscoverStructureFiles
      <4>5. status \in {"completed", "failed"}
        OBVIOUS
      <4> HIDE DEF outputs, logs, structures, status
      <4>6. run' \in Abacus!AbacusRunArtifact
        BY <3>2, <3>4, <4>1, <4>2, <4>3, <4>4, <4>5 DEF Abacus!AbacusRunArtifact
      <4>7. /\ run'.status = status /\ run'.fallback_reason = "none" /\ run'.code = exit
            /\ run'.output_files = outputs /\ run'.diagnostic_files = logs
        BY <4>1
      <4>8. "binary" \notin truth.lacks /\ (task.launched => "launcher" \notin truth.lacks)
        BY <2>1, <2>6 DEF Abacus!FallbackReason, AbacusPlanned
      <4>9. AbacusRan'
        BY <2>2, <3>1, <3>4, <4>2, <4>3, <4>5, <4>6, <4>7, <4>8 DEF AbacusRan
      <4> QED BY <2>3, <3>1, <3>2, <4>9
    <3> QED BY <3>3, <3>4
  <2>7. CASE Abacus!RunCommand
    <3>1. PICK exit \in {"0", "1", "timeout"}, wrote \in SUBSET Abacus!Outputs :
            /\ wrote # {} => "OUT" \in wrote
            /\ disk' = Abacus!WriteInputs \cup wrote
            /\ truth' = [truth EXCEPT !.exit = exit, !.wrote = wrote]
            /\ run' = IF exit = "timeout" THEN Abacus!NoEvidence("failed", "command_timeout")
                      ELSE Abacus!BuildArtifact(IF exit = "0" THEN "completed" ELSE "failed",
                             exit, "none", Abacus!DiscoverOutputs(disk'),
                             Abacus!DiscoverDiagnostics(disk'),
                             Abacus!DiscoverStructureFiles(disk'))
      BY <2>7, Zenon DEF Abacus!RunCommand
    <3>2. Abacus!FallbackReason = "none"
      BY <2>7 DEF Abacus!RunCommand
    <3> QED BY <2>6, <3>1, <3>2
  <2> QED BY <1>4, <2>5, <2>7 DEF Abacus!ExecutePlan
<1>5. CASE Abacus!ValidateRun
  <2>1. AbacusGiven /\ AbacusPlanned /\ AbacusRan /\ NotReported
    BY <1>5 DEF Abacus!ValidateRun, AbacusInv, Idle
  <2>2. UNCHANGED <<task, env, plan, disk, run, verdict, handed, truth>> /\ stage' = "done"
    BY <1>5 DEF Abacus!ValidateRun
  <2>3. report' = [passed |-> Abacus!StatusAndIssues[1] = "executed",
                   status |-> Abacus!StatusAndIssues[1], issues |-> Abacus!StatusAndIssues[2],
                   governance_state |-> IF Abacus!StatusAndIssues[1] = "executed"
                                        THEN "defer" ELSE "blocked"]
    BY <1>5 DEF Abacus!ValidateRun
  <2>4. ASSUME NEW status \in {"environment_invalid", "runtime_failed",
                               "validation_failed", "executed"},
               NEW issues \in SUBSET [code : {"abacus_binary_not_found",
                  "abacus_launcher_not_found", "abacus_command_timeout",
                  "abacus_runtime_failed", "abacus_missing_evidence"}, blocks : {TRUE}],
               Abacus!StatusAndIssues = <<status, issues>>,
               status = "environment_invalid" => {"binary", "launcher"} \cap truth.lacks # {},
               truth.exit \in {"1", "timeout"} <=> status = "runtime_failed",
               status = "validation_failed" => Abacus!Outputs \ disk # {},
               status = "executed" => Abacus!Earned
        PROVE  AbacusInv'
    <3> DEFINE passed == status = "executed"
               state == IF passed THEN "defer" ELSE "blocked"
    <3>1. passed \in BOOLEAN /\ state \in {"defer", "blocked"}
      OBVIOUS
    <3>2. report' = [passed |-> passed, status |-> status, issues |-> issues,
                     governance_state |-> state]
      BY <2>3, <2>4
    <3>3. passed <=> status = "executed"
      OBVIOUS
    <3> HIDE DEF passed, state
    <3>4. report' \in Abacus!AbacusValidationReport
      BY <3>1, <3>2 DEF Abacus!AbacusValidationReport
    <3>5. report'.passed = passed /\ report'.status = status
      BY <3>2
    <3>6. Abacus!CauseNamed'
      BY <2>2, <2>4, <3>5 DEF Abacus!CauseNamed
    <3>7. AbacusReported'
      BY <2>2, <2>4, <3>3, <3>4, <3>5, <3>6 DEF AbacusReported, Abacus!Earned
    <3> QED BY <2>1, <2>2, <3>7 DEF AbacusInv, AbacusGiven, AbacusTruth
  <2> DEFINE codes == [code : {"abacus_binary_not_found",
                  "abacus_launcher_not_found", "abacus_command_timeout",
                  "abacus_runtime_failed", "abacus_missing_evidence"}, blocks : {TRUE}]
  <2>5. ASSUME NEW c \in {"abacus_binary_not_found", "abacus_launcher_not_found",
                          "abacus_command_timeout", "abacus_runtime_failed",
                          "abacus_missing_evidence"}
        PROVE  {Abacus!Issue(c, TRUE)} \in SUBSET codes
    BY DEF Abacus!Issue
  <2> HIDE DEF codes
  <2>6. CASE run.status = "unavailable"
    <3>1. Abacus!StatusAndIssues =
            <<"environment_invalid", {Abacus!Issue(Abacus!UnavailableCode, TRUE)}>>
      BY <2>1, <2>6 DEF Abacus!StatusAndIssues, AbacusRan
    <3>2. {Abacus!Issue(Abacus!UnavailableCode, TRUE)} \in SUBSET codes
      BY <2>5 DEF Abacus!UnavailableCode
    <3>3. {"binary", "launcher"} \cap truth.lacks # {} /\ truth.exit \notin {"1", "timeout"}
      BY <2>1, <2>6 DEF AbacusRan
    <3> QED BY <2>4, <3>1, <3>2, <3>3 DEF codes
  <2>7. CASE run.fallback_reason = "command_timeout" /\ run.status # "unavailable"
    <3>1. Abacus!StatusAndIssues =
            <<"runtime_failed", {Abacus!Issue("abacus_command_timeout", TRUE)}>>
      BY <2>7, <2>1 DEF Abacus!StatusAndIssues, AbacusRan
    <3>2. {Abacus!Issue("abacus_command_timeout", TRUE)} \in SUBSET codes
      BY <2>5
    <3>3. truth.exit \in {"1", "timeout"}
      BY <2>1, <2>7 DEF AbacusRan
    <3> QED BY <2>4, <3>1, <3>2, <3>3 DEF codes
  <2>8. CASE run.code = "1" /\ run.status # "unavailable" /\ run.fallback_reason = "none"
    <3>1. Abacus!StatusAndIssues =
            <<"runtime_failed", {Abacus!Issue("abacus_runtime_failed", TRUE)}>>
      BY <2>8 DEF Abacus!StatusAndIssues
    <3>2. {Abacus!Issue("abacus_runtime_failed", TRUE)} \in SUBSET codes
      BY <2>5
    <3>3. truth.exit \in {"1", "timeout"}
      BY <2>1, <2>8 DEF AbacusRan
    <3> QED BY <2>4, <3>1, <3>2, <3>3 DEF codes
  <2>9. CASE run.code = "0" /\ run.status # "unavailable" /\ run.fallback_reason = "none"
    <3>1. /\ truth.exit = "0" /\ "binary" \notin truth.lacks
          /\ task.launched => "launcher" \notin truth.lacks
          /\ run.output_files \subseteq disk /\ run.diagnostic_files \subseteq disk
          /\ Abacus!Outputs \subseteq disk =>
               Abacus!Outputs \subseteq run.output_files /\ "running log" \in run.diagnostic_files
      BY <2>1, <2>9 DEF AbacusRan
    <3>2. Abacus!StatusAndIssues =
            IF Abacus!FamilyEvidence THEN <<"executed", {}>>
            ELSE <<"validation_failed", {Abacus!Issue("abacus_missing_evidence", TRUE)}>>
      BY <2>9 DEF Abacus!StatusAndIssues
    <3>3. CASE Abacus!FamilyEvidence
      <4>1. Abacus!Earned
        BY <2>1, <3>1, <3>3 DEF Abacus!Earned, Abacus!FamilyEvidence, AbacusPlanned
      <4>2. {} \in SUBSET codes
        OBVIOUS
      <4> QED BY <2>4, <3>1, <3>2, <3>3, <4>1, <4>2 DEF codes
    <3>4. CASE ~Abacus!FamilyEvidence
      <4>1. Abacus!Outputs \ disk # {}
        BY <3>1, <3>4 DEF Abacus!FamilyEvidence, Abacus!Outputs
      <4>2. {Abacus!Issue("abacus_missing_evidence", TRUE)} \in SUBSET codes
        BY <2>5
      <4> QED BY <2>4, <3>1, <3>2, <3>4, <4>1, <4>2 DEF codes
    <3> QED BY <3>3, <3>4
  <2> QED BY <2>1, <2>6, <2>7, <2>8, <2>9 DEF AbacusRan
<1> QED BY <1>1, <1>2, <1>3, <1>4, <1>5 DEF Abacus!Next

(* AbacusInv is enough for the three properties.                           *)
LEMMA AbacusHolds ==
  ASSUME AbacusInv
  PROVE  Abacus!Typed /\ (Made(report) => Abacus!CauseNamed) /\ (Accepted => Abacus!Earned)
<1> USE DEF NotPlanned, NotRun, NotReported, NotJudged, Made, Nothing, Idle, NotHanded
<1>1. Abacus!Typed
  BY DEF AbacusInv, AbacusGiven, AbacusReported, Abacus!Typed, Abacus!Made,
     Abacus!Nothing
<1>2. Made(report) => Abacus!CauseNamed
  BY DEF AbacusInv, AbacusReported
<1>3. ASSUME Accepted PROVE Abacus!Earned
  BY <1>3 DEF Accepted, At, AbacusInv, AbacusReported
<1> QED BY <1>1, <1>2, <1>3

------------------------------------------------------------------------------
(* Lean.  LeanInv says, for each stage of a run, what the components that  *)
(* have worked are known to have left, and how that stands to what really  *)
(* happened.                                                               *)
LeanTruth ==
  truth \in Truths(SUBSET Lean!Needs, {"not run", "0", "1", "timeout"},
                   SUBSET Lean!Diagnostics, {"none"})
LeanProbed ==
  /\ env \in Lean!LeanEnvironmentReport
  /\ env.blocks_promotion => truth.lacks # {}
  /\ task.mode = "real_lean" /\ ~env.blocks_promotion => truth.lacks = {}
LeanOrders == {<<1>>, <<1, 2>>, <<2, 1>>}
(* The report is that of the item before, which has been proven.           *)
LeanGoesOn ==
  /\ plan \in Lean!LeanRunPlan
  /\ \/ report = Nothing
     \/ report \in Lean!LeanValidationReport /\ report.status = "fully_proven"
  /\ NotJudged
LeanRan ==
  /\ run \in Lean!LeanRunArtifact
  /\ \/ /\ task.mode = "dry_run" \/ truth.lacks # {}
        /\ run.exit_code = "0" /\ run.diagnostics = {}
     \/ run.diagnostics = {"timeout"} /\ truth.exit = "timeout"
     \/ run.diagnostics = truth.wrote /\ run.exit_code = truth.exit
LeanReported ==
  /\ report \in Lean!LeanValidationReport
  /\ Lean!CauseNamed /\ (report.passed => Lean!Earned)
LeanGiven ==
  /\ task \in Lean!LeanTaskSpec /\ LeanTruth
  /\ env = Nothing \/ env \in Lean!LeanEnvironmentReport
  /\ plan = Nothing \/ plan \in Lean!LeanRunPlan
  /\ run = Nothing \/ run \in Lean!LeanRunArtifact
LeanInv ==
  /\ LeanGiven
  /\ \/ stage \in {"issue", "probe"} /\ Idle
     \/ stage = "compile" /\ LeanProbed /\ NotPlanned
     \/ stage = "execute" /\ LeanProbed /\ LeanGoesOn
     \/ stage = "validate" /\ LeanProbed /\ LeanGoesOn /\ LeanRan
     \/ stage = "done" /\ LeanReported /\ NotJudged
     \/ stage = "raised" /\ NotPlanned
     \/ stage = "raised" /\ LeanGoesOn

(* A run of Lean begins in LeanInv, from a fresh start or when the task is *)
(* run again, and stays there when nothing happens.                        *)
LEMMA LeanBegins ==
  ASSUME At("issue"), Idle, task \in Lean!Tasks PROVE LeanInv
BY DEF Idle, LeanInv, LeanGiven, Untouched, LeanTruth, Truths, At, NotHanded,
   Lean!Tasks, Lean!Diagnostics

LEMMA LeanRestarts == ASSUME LeanInv, Restarts PROVE LeanInv'
BY DEF Restarts, LeanInv, LeanGiven, Untouched, Idle, NotHanded, LeanTruth, Truths,
   Lean!Diagnostics

LEMMA LeanPlans ==
  ASSUME NEW items \in LeanOrders, NEW attempts \in 0..1, NEW budget \in 1..2,
         NEW target \in {"task's file", "workspace file"}
  PROVE  [items |-> items, attempts |-> attempts, budget |-> budget, target |-> target]
           \in Lean!LeanRunPlan
<1> DEFINE all == {<<>>, <<1>>, <<2>>, <<1, 2>>, <<2, 1>>}
<1>1. items \in all
  BY Zenon DEF LeanOrders
<1>2. Lean!LeanRunPlan = [items : all, attempts : 0..1, budget : 1..2,
                          target : {"task's file", "workspace file"}]
  BY Zenon DEF Lean!LeanRunPlan
<1> HIDE DEF all
<1> QED BY <1>1, <1>2

LEMMA LeanStays == ASSUME LeanInv, UNCHANGED vars PROVE LeanInv'
BY DEF vars, LeanTruth, LeanProbed, LeanOrders, LeanGoesOn, LeanRan, LeanReported,
    LeanGiven, LeanInv, Idle, NotHanded, NotPlanned, NotRun, NotReported, NotJudged,
    Lean!CauseNamed, Lean!Earned

(* Every step of Lean preserves LeanInv, one component at a time.          *)
LEMMA LeanStep == ASSUME LeanInv, Lean!Next PROVE LeanInv'
<1> USE DEF Lean!At, Lean!Goto, Lean!Raise, NotPlanned, NotRun, NotReported, NotJudged
<1>1. CASE Lean!IssueTask
  BY <1>1 DEF Lean!IssueTask, LeanInv, LeanGiven, LeanTruth, Idle, NotHanded
<1>2. CASE Lean!Probe
  <2>1. LeanGiven /\ Idle
    BY <1>2 DEF Lean!Probe, LeanInv
  <2>2. PICK lacks \in SUBSET Lean!Needs :
          /\ truth' = [truth EXCEPT !.lacks = lacks]
          /\ env' = IF task.mode = "dry_run" THEN Lean!DryRunReport
                    ELSE IF "MHE_RUN_REAL_LEAN" \in lacks THEN Lean!ClosedReport
                    ELSE Lean!RealReport(lacks)
    BY <1>2 DEF Lean!Probe
  <2>3. truth' = [lacks |-> lacks, exit |-> "not run", wrote |-> {}, content |-> "none"]
    BY <2>1, <2>2 DEF Idle, Untouched
  <2>4. LeanTruth' /\ truth'.lacks = lacks
    BY <2>3 DEF LeanTruth, Truths
  <2>5. stage' = "compile" /\ NotPlanned' /\ task' = task
    BY <1>2, <2>1 DEF Lean!Probe, Idle, NotHanded
  <2>6. env' \in Lean!LeanEnvironmentReport /\ LeanProbed'
    <3>1. CASE task.mode = "dry_run"
      <4>1. env' \in Lean!LeanEnvironmentReport /\ env'.blocks_promotion = FALSE
        BY <2>2, <3>1 DEF Lean!DryRunReport, Lean!LeanEnvironmentReport
      <4> QED BY <2>5, <3>1, <4>1 DEF LeanProbed
    <3>2. CASE task.mode # "dry_run" /\ "MHE_RUN_REAL_LEAN" \in lacks
      <4>1. env' \in Lean!LeanEnvironmentReport /\ env'.blocks_promotion = TRUE
        BY <2>2, <3>2 DEF Lean!ClosedReport, Lean!LeanEnvironmentReport
      <4> QED BY <2>4, <2>5, <3>2, <4>1 DEF LeanProbed
    <3>3. CASE task.mode # "dry_run" /\ "MHE_RUN_REAL_LEAN" \notin lacks
      <4>1. /\ env' \in Lean!LeanEnvironmentReport
            /\ env'.blocks_promotion = ({"lean", "lake", "project root"} \cap lacks # {})
        BY <2>2, <3>3 DEF Lean!RealReport, Lean!LeanEnvironmentReport
      <4>2. {"lean", "lake", "project root"} \cap lacks = {} => lacks = {}
        BY <3>3 DEF Lean!Needs
      <4> QED BY <2>4, <2>5, <4>1, <4>2 DEF LeanProbed
    <3> QED BY <3>1, <3>2, <3>3
  <2>7. LeanGiven'
    BY <2>1, <2>4, <2>5, <2>6 DEF LeanGiven
  <2> QED BY <2>5, <2>6, <2>7 DEF LeanInv
<1>3. CASE Lean!Compile
  <2>1. LeanGiven /\ LeanProbed /\ NotPlanned
    BY <1>3 DEF Lean!Compile, LeanInv
  <2>2. UNCHANGED <<task, env, disk, run, report, verdict, handed, truth>>
    BY <1>3 DEF Lean!Compile
  <2>3. CASE stage' = "raised" /\ UNCHANGED plan
    BY <2>1, <2>2, <2>3 DEF LeanInv, LeanGiven, LeanTruth
  <2>4. ASSUME stage' = "execute", plan' \in Lean!LeanRunPlan PROVE LeanInv'
    <3>1. LeanGiven'
      BY <2>1, <2>2, <2>4 DEF LeanGiven, LeanTruth
    <3>2. LeanProbed'
      BY <2>1, <2>2 DEF LeanProbed
    <3>3. LeanGoesOn'
      BY <2>1, <2>2, <2>4 DEF LeanGoesOn
    <3> QED BY <2>4, <3>1, <3>2, <3>3 DEF LeanInv
  <2>5. Lean!OrderBlueprintItems(task.blueprint) \in LeanOrders
    <3>1. task.blueprint.items \in {<<1>>, <<1, 2>>}
      BY <2>1 DEF LeanGiven, Lean!LeanTaskSpec, Lean!Blueprints
    <3> QED BY <3>1 DEF Lean!OrderBlueprintItems, LeanOrders
  <2>6. CASE /\ plan' = [items |-> Lean!OrderBlueprintItems(task.blueprint),
                         attempts |-> 0, budget |-> task.budget, target |-> "workspace file"]
             /\ stage' = "execute"
    <3>1. task.budget \in 1..2
      BY <2>1 DEF LeanGiven, Lean!LeanTaskSpec
    <3> DEFINE items == Lean!OrderBlueprintItems(task.blueprint)
    <3>2. /\ items \in LeanOrders
          /\ plan' = [items |-> items, attempts |-> 0, budget |-> task.budget,
                      target |-> "workspace file"]
      BY <2>5, <2>6, Zenon
    <3> HIDE DEF items
    <3>3. 0 \in 0..1
      OBVIOUS
    <3>4. plan' \in Lean!LeanRunPlan
      <4> DEFINE target == "workspace file"
      <4>1. target \in {"task's file", "workspace file"}
        OBVIOUS
      <4>2. plan' = [items |-> items, attempts |-> 0, budget |-> task.budget,
                     target |-> target]
        BY <3>2
      <4> HIDE DEF target
      <4>3. [items |-> items, attempts |-> 0, budget |-> task.budget, target |-> target]
              \in Lean!LeanRunPlan
        BY <3>1, <3>2, <3>3, <4>1, LeanPlans
      <4> QED BY <4>2, <4>3, Zenon
    <3> QED BY <2>4, <2>6, <3>4
  <2>7. CASE /\ plan' = [items |-> <<1>>, attempts |-> 1, budget |-> task.budget,
                         target |-> "task's file"]
             /\ stage' = "execute"
    <3> DEFINE one == <<1>>
    <3>1. one \in LeanOrders
      BY DEF LeanOrders
    <3>2. plan' = [items |-> one, attempts |-> 1, budget |-> task.budget, target |-> "task's file"]
      BY <2>7
    <3> HIDE DEF one
    <3>3. task.budget \in 1..2
      BY <2>1 DEF LeanGiven, Lean!LeanTaskSpec
    <3>4. 1 \in 0..1
      OBVIOUS
    <3>5. plan' \in Lean!LeanRunPlan
      <4> DEFINE target == "task's file"
      <4>1. target \in {"task's file", "workspace file"}
        OBVIOUS
      <4>2. plan' = [items |-> one, attempts |-> 1, budget |-> task.budget,
                     target |-> target]
        BY <3>2
      <4> HIDE DEF target
      <4>3. [items |-> one, attempts |-> 1, budget |-> task.budget, target |-> target]
              \in Lean!LeanRunPlan
        BY <3>1, <3>3, <3>4, <4>1, LeanPlans
      <4> QED BY <4>2, <4>3, Zenon
    <3> QED BY <2>4, <2>7, <3>5
  <2>8. \/ stage' = "raised" /\ UNCHANGED plan
        \/ /\ plan' = [items |-> Lean!OrderBlueprintItems(task.blueprint),
                       attempts |-> 0, budget |-> task.budget, target |-> "workspace file"]
           /\ stage' = "execute"
        \/ /\ plan' = [items |-> <<1>>, attempts |-> 1, budget |-> task.budget,
                       target |-> "task's file"]
           /\ stage' = "execute"
    BY <1>3, Zenon DEF Lean!Compile
  <2> QED BY <2>3, <2>6, <2>7, <2>8
<1>4. CASE Lean!ExecutePlan
  <2>1. LeanGiven /\ LeanProbed /\ LeanGoesOn
    BY <1>4 DEF Lean!ExecutePlan, LeanInv, Idle
  <2>2. UNCHANGED <<task, env, plan, disk, report, verdict, handed>>
    BY <1>4 DEF Lean!ExecutePlan
  <2>3. ASSUME LeanTruth', truth'.lacks = truth.lacks, stage' = "validate", LeanRan'
        PROVE  LeanInv'
    <3>1. LeanProbed' /\ LeanGoesOn'
      BY <2>1, <2>2, <2>3 DEF LeanProbed, LeanGoesOn
    <3> QED BY <2>1, <2>2, <2>3, <3>1 DEF LeanInv, LeanGiven, LeanRan, LeanGoesOn
  <2>4. ASSUME LeanTruth', stage' = "raised", UNCHANGED run PROVE LeanInv'
    BY <2>1, <2>2, <2>4 DEF LeanInv, LeanGiven, LeanGoesOn
  <2>5. CASE Lean!ExecuteMock
    <3>1. /\ run' \in Lean!LeanRunArtifact /\ run'.exit_code = "0" /\ run'.diagnostics = {}
          /\ stage' = "validate" /\ truth' = truth
      BY <2>5 DEF Lean!ExecuteMock, Lean!Artifact, Lean!LeanRunArtifact
    <3>2. task.mode = "dry_run" \/ truth.lacks # {}
      BY <2>5 DEF Lean!ExecuteMock, Lean!OptedIn
    <3>3. LeanRan'
      BY <2>2, <3>1, <3>2 DEF LeanRan
    <3> QED BY <2>1, <2>3, <3>1, <3>3 DEF LeanGiven, LeanTruth
  <2>6. ASSUME NEW exit \in {"0", "1"}, NEW wrote \in SUBSET Lean!Diagnostics,
               run' = Lean!Artifact(exit, wrote, "real_lean"),
               truth' = [truth EXCEPT !.exit = exit, !.wrote = wrote], stage' = "validate"
        PROVE  LeanInv'
    <3>1. /\ LeanTruth' /\ truth'.lacks = truth.lacks /\ truth'.exit = exit
          /\ truth'.wrote = wrote
      BY <2>1, <2>6 DEF LeanGiven, LeanTruth, Truths
    <3>2. run' \in Lean!LeanRunArtifact /\ run'.exit_code = exit /\ run'.diagnostics = wrote
      BY <2>6 DEF Lean!Artifact, Lean!LeanRunArtifact
    <3>3. LeanRan'
      BY <3>1, <3>2 DEF LeanRan
    <3> QED BY <2>3, <2>6, <3>1, <3>3
  <2>7. CASE Lean!BuildFails
    <3>1. CASE stage' = "raised" /\ truth' = [truth EXCEPT !.exit = "timeout"] /\ UNCHANGED run
      <4>1. LeanTruth'
        BY <2>1, <3>1 DEF LeanGiven, LeanTruth, Truths
      <4> QED BY <2>4, <3>1, <4>1
    <3> QED BY <2>6, <2>7, <3>1 DEF Lean!BuildFails
  <2>8. CASE Lean!RunLean /\ stage' = "validate"
    <3>1. CASE /\ run' = Lean!Artifact("124", {"timeout"}, "real_lean")
               /\ truth' = [truth EXCEPT !.exit = "timeout", !.wrote = {}]
      <4>1. LeanTruth' /\ truth'.lacks = truth.lacks /\ truth'.exit = "timeout"
        BY <2>1, <3>1 DEF LeanGiven, LeanTruth, Truths
      <4>2. run' \in Lean!LeanRunArtifact /\ run'.diagnostics = {"timeout"}
        BY <3>1 DEF Lean!Artifact, Lean!LeanRunArtifact
      <4>3. LeanRan'
        BY <4>1, <4>2 DEF LeanRan
      <4> QED BY <2>3, <2>8, <4>1, <4>3
    <3> QED BY <2>6, <2>8, <3>1 DEF Lean!RunLean
  <2>9. CASE stage' = "raised" /\ UNCHANGED <<run, truth>>
    BY <2>1, <2>4, <2>9 DEF LeanGiven, LeanTruth
  <2> QED BY <1>4, <2>5, <2>7, <2>8, <2>9 DEF Lean!ExecutePlan, Lean!ExecuteReal
<1>5. CASE Lean!ValidateRun
  <2>1. LeanGiven /\ LeanProbed /\ LeanGoesOn /\ LeanRan
    BY <1>5 DEF Lean!ValidateRun, LeanInv, Idle
  <2>2. UNCHANGED <<task, env, disk, run, verdict, handed, truth>>
    BY <1>5 DEF Lean!ValidateRun
  <2> DEFINE status == Lean!Status
             retriable == status \in {"timeout", "compilation_failed", "partially_proven"}
  <2>3. report' = [status |-> status, passed |-> status = "fully_proven", retriable |-> retriable]
    BY <1>5 DEF Lean!ValidateRun
  <2>4. env.blocks_promotion \in BOOLEAN
    BY <2>1 DEF LeanProbed, Lean!LeanEnvironmentReport
  <2>5. status \in Lean!LeanValidationStatus
    BY <2>4 DEF Lean!Status, Lean!LeanValidationStatus
  <2>6. "timeout" \notin truth.wrote
    BY <2>1 DEF LeanGiven, LeanTruth, Truths, Lean!Diagnostics
  <2>7. ASSUME status = "environment_failed" PROVE truth.lacks # {}
    <3>1. env.blocks_promotion
      BY <2>4, <2>7 DEF Lean!Status
    <3> QED BY <2>1, <3>1 DEF LeanProbed
  <2>8. ASSUME status = "timeout" PROVE truth.exit = "timeout"
    <3>1. "timeout" \in run.diagnostics
      BY <2>4, <2>8 DEF Lean!Status
    <3> QED BY <2>1, <2>6, <3>1 DEF LeanRan
  <2>9. ASSUME status \notin {"environment_failed", "timeout"}
        PROVE  /\ ~env.blocks_promotion /\ "timeout" \notin run.diagnostics
               /\ status = "compilation_failed" <=> run.exit_code # "0" \/ "error" \in run.diagnostics
               /\ status = "fully_proven" => "sorry" \notin run.diagnostics
               /\ status \in {"budget_exhausted", "partially_proven"} => "sorry" \in run.diagnostics
    BY <2>4, <2>9 DEF Lean!Status
  <2>10. ASSUME status = "compilation_failed" PROVE truth.exit = "1" \/ "error" \in truth.wrote
    <3>1. /\ "timeout" \notin run.diagnostics
          /\ run.exit_code # "0" \/ "error" \in run.diagnostics
      BY <2>9, <2>10
    <3>2. run.exit_code \in {"0", "1", "124"} /\ truth.exit \in {"not run", "0", "1", "timeout"}
      BY <2>1 DEF LeanRan, Lean!LeanRunArtifact, LeanGiven, LeanTruth, Truths
    <3> QED BY <2>1, <3>1, <3>2 DEF LeanRan
  <2>11. ASSUME status \in {"budget_exhausted", "partially_proven"}
         PROVE  truth.exit = "0" /\ "sorry" \in truth.wrote
    <3>1. "sorry" \in run.diagnostics /\ run.exit_code = "0"
      BY <2>9, <2>11
    <3> QED BY <2>1, <3>1 DEF LeanRan
  <2>12. ASSUME status = "fully_proven" PROVE Lean!Earned
    <3>1. /\ ~env.blocks_promotion /\ "timeout" \notin run.diagnostics /\ run.exit_code = "0"
          /\ "error" \notin run.diagnostics /\ "sorry" \notin run.diagnostics
      BY <2>9, <2>12
    <3>2. ASSUME task.mode = "real_lean"
          PROVE  truth.exit = "0" /\ truth.wrote \cap {"sorry", "error"} = {} /\ truth.lacks = {}
      <4>1. truth.lacks = {}
        BY <2>1, <3>1, <3>2 DEF LeanProbed
      <4>2. run.diagnostics = truth.wrote /\ run.exit_code = truth.exit
        BY <2>1, <3>1, <3>2, <4>1 DEF LeanRan
      <4> QED BY <3>1, <4>1, <4>2
    <3> QED BY <3>2 DEF Lean!Earned
  <2> HIDE DEF status
  <2>13. retriable \in BOOLEAN
    OBVIOUS
  <2> HIDE DEF retriable
  <2>14. report' \in Lean!LeanValidationReport
    BY <2>3, <2>5, <2>13 DEF Lean!LeanValidationReport
  <2>15. report'.passed = (status = "fully_proven") /\ report'.status = status
    BY <2>3
  <2>16. Lean!CauseNamed'
    BY <2>2, <2>7, <2>8, <2>10, <2>11, <2>15 DEF Lean!CauseNamed
  <2>17. LeanReported'
    BY <2>2, <2>12, <2>14, <2>15, <2>16 DEF LeanReported, Lean!Earned
  <2>18. CASE stage' = "done" /\ UNCHANGED plan
    BY <2>1, <2>2, <2>17, <2>18 DEF LeanInv, LeanGiven, LeanTruth, LeanGoesOn
  <2>19. CASE /\ status = "fully_proven" /\ Len(plan.items) > 1
              /\ stage' = "execute" /\ plan' = [plan EXCEPT !.items = Tail(@)]
    <3>1. Tail(plan.items) \in {<<1>>, <<2>>}
      <4>1. plan.items \in {<<>>, <<1>>, <<2>>, <<1, 2>>, <<2, 1>>}
        BY <2>1 DEF LeanGoesOn, Lean!LeanRunPlan
      <4> DEFINE s == plan.items
      <4>2. Len(s) > 1
        BY <2>19
      <4> HIDE DEF s
      <4>3. s # <<>>
        BY <4>2
      <4>4. s # <<1>> /\ s # <<2>>
        <5>1. ~(Len(<<1>>) > 1) /\ ~(Len(<<2>>) > 1)
          OBVIOUS
        <5> QED BY <4>2, <5>1, Zenon
      <4>5. CASE plan.items = <<1, 2>>
        BY <4>5
      <4>6. CASE plan.items = <<2, 1>>
        BY <4>6
      <4> QED BY <4>1, <4>3, <4>4, <4>5, <4>6 DEF s
    <3>4. plan' \in Lean!LeanRunPlan
      BY <2>1, <2>19, <3>1 DEF LeanGoesOn, Lean!LeanRunPlan
    <3>5. LeanGiven' /\ LeanProbed' /\ LeanGoesOn'
      BY <2>1, <2>2, <2>14, <2>15, <2>19, <3>4 DEF LeanGiven, LeanProbed, LeanGoesOn,
         LeanTruth
    <3> QED BY <2>19, <3>5 DEF LeanInv
  <2> QED BY <1>5, <2>18, <2>19 DEF Lean!ValidateRun, status
<1> QED BY <1>1, <1>2, <1>3, <1>4, <1>5 DEF Lean!Next

(* LeanInv is enough for the three properties.                             *)
LEMMA LeanHolds ==
  ASSUME LeanInv
  PROVE  Lean!Typed /\ (Made(report) => Lean!CauseNamed) /\ (Accepted => Lean!Earned)
<1> USE DEF NotPlanned, NotRun, NotReported, NotJudged, Made, Nothing, Idle, NotHanded
<1>1. Lean!Typed
  BY DEF LeanInv, LeanGiven, LeanReported, LeanGoesOn, Lean!Typed, Lean!Made,
     Lean!Nothing
<1>2. Made(report) => Lean!CauseNamed
  BY DEF LeanInv, LeanReported, LeanGoesOn, Lean!CauseNamed
<1>3. ASSUME Accepted PROVE Lean!Earned
  BY <1>3 DEF Accepted, At, LeanInv, LeanReported
<1> QED BY <1>1, <1>2, <1>3

------------------------------------------------------------------------------
(* PyCFD.  PycfdInv says, for each stage of a run, what the components     *)
(* that have worked are known to have left, and how that stands to what    *)
(* really happened.                                                        *)
PycfdTruth ==
  truth \in Truths(SUBSET Pycfd!Needs, {"not run", "0", "1", "timeout", "os error"},
                   {{}}, {"none", "above", "absent", "NaN", "within"})
PycfdProbed ==
  /\ env \in Pycfd!PyCFDEnvironmentReport
  /\ {"source", "Solvers.py", "numpy"} \cap truth.lacks # {} => "import" \in truth.lacks
PycfdPlanned == plan \in Pycfd!PyCFDRunPlan /\ plan.case_type = task.case_type
PycfdRan ==
  /\ run \in Pycfd!PyCFDRunArtifact
  /\ \/ /\ run.status \in {"failed", "timeout"}
        /\ truth.exit \in {"0", "1", "timeout", "os error"}
     \/ /\ truth.exit = "0"
        /\ {"source", "Solvers.py", "numpy", "import"} \cap truth.lacks = {}
        /\ task.case_type = "airfoil" => {"cases", "airfoil mesh"} \cap truth.lacks = {}
        /\ truth.content = Pycfd!Worse(run.residual_l1, run.residual_l2)
PycfdReported ==
  /\ report \in Pycfd!PyCFDValidationReport
  /\ Pycfd!CauseNamed /\ (report.passed => Pycfd!Earned)
PycfdGiven ==
  /\ task \in Pycfd!PyCFDProblemSpec /\ PycfdTruth
  /\ env = Nothing \/ env \in Pycfd!PyCFDEnvironmentReport
  /\ plan = Nothing \/ plan \in Pycfd!PyCFDRunPlan
  /\ run = Nothing \/ run \in Pycfd!PyCFDRunArtifact
PycfdInv ==
  /\ PycfdGiven
  /\ \/ stage \in {"issue", "probe", "raised"} /\ Idle
     \/ stage = "compile" /\ PycfdProbed /\ NotPlanned
     \/ stage = "execute" /\ PycfdProbed /\ PycfdPlanned /\ NotRun
     \/ stage = "validate" /\ PycfdRan /\ NotReported
     \/ stage = "judge" /\ PycfdReported /\ NotJudged
     \/ /\ stage = "hand over" /\ PycfdReported
        /\ verdict \in Pycfd!PyCFDPolicyReport /\ handed = Nothing
     \/ /\ stage = "done" /\ PycfdReported
        /\ verdict \in Pycfd!PyCFDPolicyReport
        /\ handed.made = TRUE /\ (handed.promoted => report.passed)

(* A run of PyCFD begins in PycfdInv, from a fresh start or when the task  *)
(* is run again, and stays there when nothing happens.                     *)
LEMMA PycfdBegins ==
  ASSUME At("issue"), Idle, task \in Pycfd!Tasks PROVE PycfdInv
BY DEF Idle, PycfdInv, PycfdGiven, Untouched, PycfdTruth, Truths, At, NotHanded,
   Pycfd!Tasks

LEMMA PycfdRestarts == ASSUME PycfdInv, Restarts PROVE PycfdInv'
BY DEF Restarts, PycfdInv, PycfdGiven, Untouched, Idle, NotHanded, PycfdTruth, Truths

LEMMA PycfdStays == ASSUME PycfdInv, UNCHANGED vars PROVE PycfdInv'
BY DEF vars, PycfdTruth, PycfdProbed, PycfdPlanned, PycfdRan, PycfdReported,
    PycfdGiven, PycfdInv, Idle, NotHanded, NotPlanned, NotRun, NotReported, NotJudged,
    Pycfd!CauseNamed, Pycfd!Earned

(* Every step of PyCFD preserves PycfdInv, one component at a time.        *)
LEMMA PycfdStep == ASSUME PycfdInv, Pycfd!Next PROVE PycfdInv'
<1> USE DEF Pycfd!At, Pycfd!Goto, Pycfd!Raise, NotPlanned, NotRun, NotReported, NotJudged
<1>1. CASE Pycfd!IssueTask
  BY <1>1 DEF Pycfd!IssueTask, PycfdInv, PycfdGiven, PycfdTruth, Idle, NotHanded
<1>2. CASE Pycfd!Probe
  <2>1. PycfdGiven /\ Idle
    BY <1>2 DEF Pycfd!Probe, PycfdInv
  <2>2. PICK lacks \in SUBSET Pycfd!Needs :
          /\ {"source", "Solvers.py", "numpy"} \cap lacks # {} => "import" \in lacks
          /\ env' = Pycfd!EnvironmentReport(lacks)
          /\ truth' = [truth EXCEPT !.lacks = lacks]
    BY <1>2 DEF Pycfd!Probe
  <2>3. truth' = [lacks |-> lacks, exit |-> "not run", wrote |-> {}, content |-> "none"]
    BY <2>1, <2>2 DEF Idle, Untouched
  <2>4. PycfdTruth' /\ truth'.lacks = lacks
    BY <2>3 DEF PycfdTruth, Truths
  <2>5. env' \in Pycfd!PyCFDEnvironmentReport
    <3> DEFINE early == {"source", "Solvers.py"} \cap lacks # {}
               late == {"numpy", "import"} \cap lacks # {}
               available == ~early /\ ~late
               blocks == early \/ late
               status == IF "source" \in lacks THEN "pycfd_source_not_found"
                         ELSE IF early THEN "solvers_py_not_found"
                         ELSE IF late THEN "partial" ELSE "ready"
               types == IF early THEN {} ELSE Pycfd!ProbeCaseTypes(lacks)
    <3>1. /\ available \in BOOLEAN /\ blocks \in BOOLEAN
          /\ status \in {"pycfd_source_not_found", "solvers_py_not_found", "partial", "ready"}
      OBVIOUS
    <3>2. types \in SUBSET Pycfd!PyCFDCaseType
      BY DEF Pycfd!ProbeCaseTypes, Pycfd!PyCFDCaseType, Pycfd!Generated
    <3>3. env' = [available |-> available, blocks_promotion |-> blocks, status |-> status,
                  available_case_types |-> types]
      BY <2>2, Zenon DEF Pycfd!EnvironmentReport
    <3> HIDE DEF available, blocks, status, types
    <3> QED BY <3>1, <3>2, <3>3 DEF Pycfd!PyCFDEnvironmentReport
  <2>6. PycfdProbed'
    BY <2>2, <2>4, <2>5 DEF PycfdProbed
  <2>7. stage' = "compile" /\ NotPlanned' /\ task' = task
    BY <1>2, <2>1 DEF Pycfd!Probe, Idle, NotHanded
  <2>8. PycfdGiven'
    BY <2>1, <2>4, <2>5, <2>7 DEF PycfdGiven
  <2> QED BY <2>6, <2>7, <2>8 DEF PycfdInv
<1>3. CASE Pycfd!Compile
  <2>1. PycfdGiven /\ PycfdProbed /\ NotPlanned
    BY <1>3 DEF Pycfd!Compile, PycfdInv, Idle
  <2>2. UNCHANGED <<task, env, disk, run, report, verdict, handed, truth>> /\ stage' = "execute"
    BY <1>3 DEF Pycfd!Compile
  <2>3. plan' = [case_type |-> task.case_type]
    BY <1>3 DEF Pycfd!Compile
  <2>4. plan' \in Pycfd!PyCFDRunPlan /\ plan'.case_type = task.case_type
    BY <2>1, <2>3 DEF PycfdGiven, Pycfd!PyCFDProblemSpec, Pycfd!PyCFDRunPlan
  <2>5. PycfdGiven' /\ PycfdProbed' /\ PycfdPlanned' /\ NotRun'
    BY <2>1, <2>2, <2>4 DEF PycfdGiven, PycfdProbed, PycfdPlanned, PycfdTruth
  <2> QED BY <2>2, <2>5 DEF PycfdInv
<1>4. CASE Pycfd!Execute
  <2>1. PycfdGiven /\ PycfdProbed /\ PycfdPlanned /\ NotRun
    BY <1>4 DEF Pycfd!Execute, PycfdInv, Idle
  <2>2. UNCHANGED <<task, env, plan, disk, report, verdict, handed>> /\ stage' = "validate"
    BY <1>4 DEF Pycfd!Execute
  <2>3. ASSUME PycfdTruth', PycfdRan' PROVE PycfdInv'
    BY <2>1, <2>2, <2>3 DEF PycfdInv, PycfdGiven, PycfdRan
  <2>4. ASSUME NEW exit \in {"timeout", "os error", "1"}, NEW status \in {"timeout", "failed"},
               NEW code \in {"1", "-1", "-2"}, run' = Pycfd!Unmeasured(status, code),
               truth' = [truth EXCEPT !.exit = exit]
        PROVE  PycfdInv'
    <3>1. PycfdTruth' /\ truth'.exit = exit
      BY <2>1, <2>4 DEF PycfdGiven, PycfdTruth, Truths
    <3>2. run' \in Pycfd!PyCFDRunArtifact /\ run'.status = status
      BY <2>4 DEF Pycfd!Unmeasured, Pycfd!Artifact, Pycfd!PyCFDRunArtifact, Pycfd!Norms
    <3>3. PycfdRan'
      BY <3>1, <3>2 DEF PycfdRan
    <3> QED BY <2>3, <3>1, <3>3
  <2>5. CASE Pycfd!Interrupted
    <3>1. PICK failure \in {<<"timeout", "timeout", "-1">>, <<"os error", "failed", "-2">>,
                            <<"1", "failed", "1">>} :
            /\ run' = Pycfd!Unmeasured(failure[2], failure[3])
            /\ truth' = [truth EXCEPT !.exit = failure[1]]
      BY <2>5, Zenon DEF Pycfd!Interrupted
    <3>2. /\ failure[1] \in {"timeout", "os error", "1"} /\ failure[2] \in {"timeout", "failed"}
          /\ failure[3] \in {"1", "-1", "-2"}
      <4>1. CASE failure = <<"timeout", "timeout", "-1">>
        BY <4>1
      <4>2. CASE failure = <<"os error", "failed", "-2">>
        BY <4>2
      <4>3. CASE failure = <<"1", "failed", "1">>
        BY <4>3
      <4> QED BY <3>1, <4>1, <4>2, <4>3, Zenon
    <3> QED BY <2>4, <3>1, <3>2
  <2>6. CASE Pycfd!Solvable /\ Pycfd!ReadMetrics
    <3>1. CASE run' = Pycfd!Unmeasured("failed", "0") /\ truth' = [truth EXCEPT !.exit = "0"]
      <4>1. PycfdTruth' /\ truth'.exit = "0"
        BY <2>1, <3>1 DEF PycfdGiven, PycfdTruth, Truths
      <4>2. run' \in Pycfd!PyCFDRunArtifact /\ run'.status = "failed"
        BY <3>1 DEF Pycfd!Unmeasured, Pycfd!Artifact, Pycfd!PyCFDRunArtifact, Pycfd!Norms
      <4> QED BY <2>3, <4>1, <4>2 DEF PycfdRan
    <3>2. ASSUME NEW status \in {"completed", "failed", "diverged", "unavailable"},
                 NEW l1 \in Pycfd!Norms, NEW l2 \in Pycfd!Norms,
                 run' = Pycfd!Artifact(status, "0", l1, l2),
                 truth' = [truth EXCEPT !.exit = "0", !.content = Pycfd!Worse(l1, l2)]
          PROVE  PycfdInv'
      <4>1. Pycfd!Worse(l1, l2) \in {"above", "absent", "NaN", "within"}
        BY <3>2 DEF Pycfd!Worse, Pycfd!Norms
      <4>2. /\ PycfdTruth' /\ truth'.exit = "0" /\ truth'.lacks = truth.lacks
            /\ truth'.content = Pycfd!Worse(l1, l2)
        BY <2>1, <3>2, <4>1 DEF PycfdGiven, PycfdTruth, Truths
      <4>3. /\ {"source", "Solvers.py", "numpy", "import"} \cap truth.lacks = {}
            /\ task.case_type = "airfoil" => {"cases", "airfoil mesh"} \cap truth.lacks = {}
        BY <2>1, <2>6 DEF PycfdProbed, PycfdPlanned, Pycfd!Solvable, Pycfd!MeshMissing
      <4>4. /\ run' \in Pycfd!PyCFDRunArtifact
            /\ run'.residual_l1 = l1 /\ run'.residual_l2 = l2
        BY <3>2 DEF Pycfd!Artifact, Pycfd!PyCFDRunArtifact
      <4>5. (Pycfd!Worse(run.residual_l1, run.residual_l2))' = Pycfd!Worse(l1, l2)
        BY <4>4 DEF Pycfd!Worse
      <4>6. PycfdRan'
        BY <2>2, <4>2, <4>3, <4>4, <4>5 DEF PycfdRan
      <4> QED BY <2>3, <4>2, <4>6
    <3> QED BY <2>6, <3>1, <3>2 DEF Pycfd!ReadMetrics
  <2> QED BY <1>4, <2>5, <2>6 DEF Pycfd!Execute
<1>5. CASE Pycfd!Validate
  <2>1. PycfdGiven /\ PycfdRan /\ NotReported
    BY <1>5 DEF Pycfd!Validate, PycfdInv, Idle
  <2>2. UNCHANGED <<task, env, plan, disk, run, verdict, handed, truth>> /\ stage' = "judge"
    BY <1>5 DEF Pycfd!Validate
  <2>3. report' = [passed |-> Pycfd!StatusAndIssues[1] = "executed",
                   status |-> Pycfd!StatusAndIssues[1], issues |-> Pycfd!StatusAndIssues[2]]
    BY <1>5 DEF Pycfd!Validate
  <2> DEFINE codes == [code : {"pycfd_environment_unavailable", "pycfd_timeout",
                               "pycfd_runtime_failure", "pycfd_residual_l1_exceeded",
                               "pycfd_residual_l2_exceeded"}, blocks : {TRUE}]
  <2>4. ASSUME NEW status \in {"environment_unavailable", "runtime_failed",
                               "residual_exceeded", "executed"},
               NEW issues \in SUBSET codes,
               Pycfd!StatusAndIssues = <<status, issues>>,
               truth.exit \in {"1", "timeout", "os error"} => status = "runtime_failed",
               status = "residual_exceeded" =>
                 \/ run.status = "diverged"
                 \/ truth.content \in {"absent", "above"},
               status = "executed" => Pycfd!Earned
        PROVE  PycfdInv'
    <3> DEFINE passed == status = "executed"
    <3>1. passed \in BOOLEAN /\ (passed <=> status = "executed")
      OBVIOUS
    <3>2. report' = [passed |-> passed, status |-> status, issues |-> issues]
      BY <2>3, <2>4
    <3> HIDE DEF passed
    <3>3. report' \in Pycfd!PyCFDValidationReport
      BY <3>1, <3>2 DEF Pycfd!PyCFDValidationReport
    <3>4. report'.passed = passed /\ report'.status = status
      BY <3>2
    <3>5. Pycfd!CauseNamed'
      BY <2>2, <2>4, <3>4 DEF Pycfd!CauseNamed
    <3>6. PycfdReported'
      BY <2>2, <2>4, <3>1, <3>3, <3>4, <3>5 DEF PycfdReported, Pycfd!Earned
    <3> QED BY <2>1, <2>2, <3>6 DEF PycfdInv, PycfdGiven, PycfdTruth
  <2>5. ASSUME NEW c \in {"pycfd_environment_unavailable", "pycfd_timeout",
                          "pycfd_runtime_failure", "pycfd_residual_l1_exceeded",
                          "pycfd_residual_l2_exceeded"}
        PROVE  {Pycfd!Issue(c, TRUE)} \in SUBSET codes
    BY DEF Pycfd!Issue
  <2> HIDE DEF codes
  <2>6. CASE run.status = "unavailable"
    <3>1. Pycfd!StatusAndIssues =
            <<"environment_unavailable", {Pycfd!Issue("pycfd_environment_unavailable", TRUE)}>>
      BY <2>6 DEF Pycfd!StatusAndIssues
    <3>2. truth.exit = "0"
      BY <2>1, <2>6 DEF PycfdRan
    <3>3. {Pycfd!Issue("pycfd_environment_unavailable", TRUE)} \in SUBSET codes
      BY <2>5
    <3> QED BY <2>4, <3>1, <3>2, <3>3
  <2>7. CASE run.status = "timeout"
    <3>1. Pycfd!StatusAndIssues = <<"runtime_failed", {Pycfd!Issue("pycfd_timeout", TRUE)}>>
      BY <2>7 DEF Pycfd!StatusAndIssues
    <3>2. {Pycfd!Issue("pycfd_timeout", TRUE)} \in SUBSET codes
      BY <2>5
    <3> QED BY <2>4, <3>1, <3>2
  <2>8. CASE run.status = "failed"
    <3>1. Pycfd!StatusAndIssues = <<"runtime_failed", {Pycfd!Issue("pycfd_runtime_failure", TRUE)}>>
      BY <2>8 DEF Pycfd!StatusAndIssues
    <3>2. {Pycfd!Issue("pycfd_runtime_failure", TRUE)} \in SUBSET codes
      BY <2>5
    <3> QED BY <2>4, <3>1, <3>2
  <2>9. CASE run.status \in {"completed", "diverged"}
    <3> DEFINE status == IF Pycfd!Passed THEN "executed" ELSE "residual_exceeded"
               l1 == Pycfd!IssueIf(Pycfd!Exceeds(run.residual_l1), "pycfd_residual_l1_exceeded", TRUE)
               l2 == Pycfd!IssueIf(Pycfd!Exceeds(run.residual_l2), "pycfd_residual_l2_exceeded", TRUE)
    <3>1. Pycfd!StatusAndIssues = <<status, l1 \cup l2>>
      BY <2>9 DEF Pycfd!StatusAndIssues
    <3>2. l1 \in SUBSET codes /\ l2 \in SUBSET codes
      BY <2>5 DEF Pycfd!IssueIf
    <3>3. /\ truth.exit = "0"
          /\ {"source", "Solvers.py", "numpy", "import"} \cap truth.lacks = {}
          /\ task.case_type = "airfoil" => {"cases", "airfoil mesh"} \cap truth.lacks = {}
          /\ truth.content = Pycfd!Worse(run.residual_l1, run.residual_l2)
      BY <2>1, <2>9 DEF PycfdRan
    <3>4. /\ run.residual_l1 \in {"absent", "within", "above", "NaN"}
          /\ run.residual_l2 \in {"absent", "within", "above", "NaN"}
      BY <2>1 DEF PycfdRan, Pycfd!PyCFDRunArtifact, Pycfd!Norms
    <3>5. ASSUME Pycfd!Passed PROVE Pycfd!Earned
      <4>1. {run.residual_l1, run.residual_l2} \subseteq {"within", "NaN"}
        BY <3>4, <3>5 DEF Pycfd!Passed, Pycfd!Accepts, Pycfd!Exceeds
      <4>2. truth.content \in {"within", "NaN"}
        BY <3>3, <3>4, <4>1 DEF Pycfd!Worse
      <4> QED BY <3>3, <4>2 DEF Pycfd!Earned
    <3>6. ASSUME ~Pycfd!Passed
          PROVE  \/ run.status = "diverged"
                 \/ truth.content \in {"absent", "above"}
      <4>1. ASSUME run.status # "diverged"
            PROVE  "above" \in {run.residual_l1, run.residual_l2}
                     \/ "absent" \in {run.residual_l1, run.residual_l2}
        BY <2>9, <3>6, <4>1 DEF Pycfd!Passed, Pycfd!Accepts, Pycfd!Exceeds
      <4> QED BY <3>3, <4>1 DEF Pycfd!Worse
    <3>7. l1 \cup l2 \in SUBSET codes /\ status \in {"executed", "residual_exceeded"}
      BY <3>2
    <3>8. /\ status = "executed" => Pycfd!Passed
          /\ status = "residual_exceeded" => ~Pycfd!Passed
      OBVIOUS
    <3> HIDE DEF status, l1, l2
    <3> QED BY <2>4, <3>1, <3>3, <3>5, <3>6, <3>7, <3>8
  <2> QED BY <2>1, <2>6, <2>7, <2>8, <2>9 DEF PycfdRan, Pycfd!PyCFDRunArtifact
<1>6. CASE Pycfd!Judge
  <2>1. PycfdGiven /\ PycfdReported /\ NotJudged
    BY <1>6 DEF Pycfd!Judge, PycfdInv, Idle
  <2>2. UNCHANGED <<task, env, plan, disk, run, report, handed, truth>> /\ stage' = "hand over"
    BY <1>6 DEF Pycfd!Judge
  <2> DEFINE decision == Pycfd!Decision(Pycfd!GatesAndReadiness)
  <2>3. verdict' = [passed |-> decision = "allow", decision |-> decision]
    BY <1>6 DEF Pycfd!Judge
  <2>4. decision \in {"allow", "defer", "reject"}
    BY DEF Pycfd!Decision
  <2> HIDE DEF decision
  <2>5. verdict' \in Pycfd!PyCFDPolicyReport
    BY <2>3, <2>4 DEF Pycfd!PyCFDPolicyReport
  <2>6. PycfdReported'
    BY <2>1, <2>2 DEF PycfdReported, Pycfd!CauseNamed, Pycfd!Earned
  <2> QED BY <2>1, <2>2, <2>5, <2>6 DEF PycfdInv, PycfdGiven, PycfdTruth
<1>7. CASE Pycfd!HandOver
  <2>1. PycfdGiven /\ PycfdReported /\ verdict \in Pycfd!PyCFDPolicyReport
    BY <1>7 DEF Pycfd!HandOver, PycfdInv, Idle
  <2>2. UNCHANGED <<task, env, plan, disk, run, report, verdict, truth>> /\ stage' = "done"
    BY <1>7 DEF Pycfd!HandOver
  <2>3. handed'.made = TRUE /\ handed'.promoted = Pycfd!CoreValid
    BY <1>7 DEF Pycfd!HandOver, Pycfd!Handed
  <2>4. PycfdReported'
    BY <2>1, <2>2 DEF PycfdReported, Pycfd!CauseNamed, Pycfd!Earned
  <2>5. handed'.promoted => report'.passed
    BY <2>2, <2>3 DEF Pycfd!CoreValid
  <2> QED BY <2>1, <2>2, <2>3, <2>4, <2>5 DEF PycfdInv, PycfdGiven, PycfdTruth
<1> QED BY <1>1, <1>2, <1>3, <1>4, <1>5, <1>6, <1>7 DEF Pycfd!Next

(* PycfdInv is enough for the three properties.                            *)
LEMMA PycfdHolds ==
  ASSUME PycfdInv
  PROVE  Pycfd!Typed /\ (Made(report) => Pycfd!CauseNamed) /\ (Accepted => Pycfd!Earned)
<1> USE DEF NotPlanned, NotRun, NotReported, NotJudged, Made, Nothing, Idle, NotHanded
<1>1. Pycfd!Typed
  BY DEF PycfdInv, PycfdGiven, PycfdReported, Pycfd!Typed, Pycfd!Made, Pycfd!Nothing
<1>2. Made(report) => Pycfd!CauseNamed
  BY DEF PycfdInv, PycfdReported
<1>3. ASSUME Accepted PROVE Pycfd!Earned
  BY <1>3 DEF Accepted, At, PycfdInv, PycfdReported
<1> QED BY <1>1, <1>2, <1>3

------------------------------------------------------------------------------
(* MOOSE.  MooseInv says, for each stage of a run, what the components     *)
(* that have worked are known to have left, and how that stands to what    *)
(* really happened.                                                        *)
MooseTruth ==
  truth \in Truths(SUBSET Moose!Needs, {"not run", "0", "1", "timeout"},
                   SUBSET Moose!Outputs, Moose!Talk \cup {"none"})
MoosePlanned ==
  /\ plan \in Moose!MooseRunPlan /\ plan.expected_outputs = task.expected_outputs
MooseRan ==
  /\ run \in Moose!MooseRunArtifact
  /\ \/ /\ run.status = "unavailable" /\ truth.exit = "not run"
        /\ {"binary", "executable bit"} \cap truth.lacks # {}
     \/ /\ {"binary", "executable bit"} \cap truth.lacks = {}
        /\ truth.content \in {"quiet", "error line"}
        /\ run.blocking_warning <=> truth.content = "error line"
        /\ run.output_files = plan.expected_outputs \cap disk
        /\ \/ run.status = "completed" /\ truth.exit = "0"
           \/ run.status = "failed" /\ truth.exit = "1"
           \/ run.status = "timeout" /\ truth.exit = "timeout"
MooseReported ==
  /\ report \in Moose!MooseValidationReport
  /\ Moose!CauseNamed /\ (report.passed => Moose!Earned)
MooseGiven ==
  /\ task \in Moose!MooseProblemSpec /\ MooseTruth
  /\ env = Nothing \/ env \in Moose!MooseEnvironmentReport
  /\ plan = Nothing \/ plan \in Moose!MooseRunPlan
  /\ run = Nothing \/ run \in Moose!MooseRunArtifact
MooseInv ==
  /\ MooseGiven
  /\ \/ stage \in {"issue", "probe"} /\ Idle
     \/ stage = "compile" /\ truth.exit = "not run" /\ NotPlanned
     \/ stage = "execute" /\ truth.exit = "not run" /\ MoosePlanned /\ NotRun
     \/ stage = "validate" /\ MoosePlanned /\ MooseRan /\ NotReported
     \/ stage = "judge" /\ MooseReported /\ NotJudged
     \/ /\ stage = "done" /\ MooseReported
        /\ verdict \in Moose!MoosePolicyReport /\ handed = Nothing
     \/ stage = "raised" /\ NotRun

(* A run of MOOSE begins in MooseInv, from a fresh start or when the task  *)
(* is run again, and stays there when nothing happens.                     *)
LEMMA MooseBegins ==
  ASSUME At("issue"), Idle, task \in Moose!Tasks PROVE MooseInv
BY DEF Idle, MooseInv, MooseGiven, Untouched, MooseTruth, Truths, At, NotHanded,
   Moose!Tasks

LEMMA MooseRestarts == ASSUME MooseInv, Restarts PROVE MooseInv'
BY DEF Restarts, MooseInv, MooseGiven, Untouched, Idle, NotHanded, MooseTruth, Truths

LEMMA MooseStays == ASSUME MooseInv, UNCHANGED vars PROVE MooseInv'
BY DEF vars, MooseTruth, MoosePlanned, MooseRan, MooseReported, MooseGiven, MooseInv,
    Idle, NotHanded, NotPlanned, NotRun, NotReported, NotJudged, Moose!CauseNamed,
    Moose!Earned

(* Every step of MOOSE preserves MooseInv, one component at a time.        *)
LEMMA MooseStep == ASSUME MooseInv, Moose!Next PROVE MooseInv'
<1> USE DEF Moose!At, Moose!Goto, Moose!Raise, NotPlanned, NotRun, NotReported, NotJudged
<1>1. CASE Moose!IssueTask
  BY <1>1 DEF Moose!IssueTask, MooseInv, MooseGiven, MooseTruth, Idle, NotHanded
<1>2. CASE Moose!Probe
  <2>1. MooseGiven /\ Idle
    BY <1>2 DEF Moose!Probe, MooseInv
  <2>2. PICK lacks \in SUBSET Moose!Needs :
          /\ env' = IF ~task.supervised THEN Moose!Nothing
                    ELSE [available |-> Moose!MissingPrerequisites(lacks) = {},
                          missing_prerequisites |-> Moose!MissingPrerequisites(lacks)]
          /\ truth' = [truth EXCEPT !.lacks = lacks]
    BY <1>2 DEF Moose!Probe
  <2>3. truth' = [lacks |-> lacks, exit |-> "not run", wrote |-> {}, content |-> "none"]
    BY <2>1, <2>2 DEF Idle, Untouched
  <2>4. MooseTruth' /\ truth'.exit = "not run"
    BY <2>3 DEF MooseTruth, Truths
  <2>5. env' = Nothing \/ env' \in Moose!MooseEnvironmentReport
    <3> DEFINE missing == Moose!MissingPrerequisites(lacks)
    <3>1. missing \in SUBSET {"binary", "workspace"}
      BY DEF Moose!MissingPrerequisites
    <3> DEFINE available == missing = {}
    <3>2. \/ env' = Moose!Nothing
          \/ env' = [available |-> available, missing_prerequisites |-> missing]
      BY <2>2
    <3>3. available \in BOOLEAN
      OBVIOUS
    <3> HIDE DEF missing, available
    <3>4. [available |-> available, missing_prerequisites |-> missing]
            \in Moose!MooseEnvironmentReport
      BY <3>1, <3>3 DEF Moose!MooseEnvironmentReport
    <3>5. Moose!Nothing = Nothing
      BY DEF Moose!Nothing, Nothing
    <3> QED BY <3>2, <3>4, <3>5
  <2>6. stage' = "compile" /\ NotPlanned' /\ task' = task
    BY <1>2, <2>1 DEF Moose!Probe, Idle, NotHanded
  <2>7. MooseGiven'
    BY <2>1, <2>4, <2>5, <2>6 DEF MooseGiven
  <2> QED BY <2>4, <2>6, <2>7 DEF MooseInv
<1>3. CASE Moose!Compile
  <2>1. MooseGiven /\ truth.exit = "not run" /\ NotPlanned
    BY <1>3 DEF Moose!Compile, MooseInv, Idle
  <2>2. UNCHANGED <<task, env, disk, run, report, verdict, handed, truth>>
    BY <1>3 DEF Moose!Compile
  <2>3. CASE stage' = "raised" /\ UNCHANGED plan
    BY <2>1, <2>2, <2>3 DEF MooseInv, MooseGiven, MooseTruth
  <2>4. CASE /\ plan' = [by_path |-> task.by_path, expected_outputs |-> task.expected_outputs]
             /\ stage' = "execute"
    <3>1. plan' \in Moose!MooseRunPlan /\ plan'.expected_outputs = task.expected_outputs
      BY <2>1, <2>4 DEF MooseGiven, Moose!MooseProblemSpec, Moose!MooseRunPlan
    <3>2. MooseGiven' /\ MoosePlanned' /\ NotRun'
      BY <2>1, <2>2, <3>1 DEF MooseGiven, MoosePlanned, MooseTruth
    <3> QED BY <2>1, <2>2, <2>4, <3>2 DEF MooseInv
  <2> QED BY <1>3, <2>3, <2>4 DEF Moose!Compile
<1>4. CASE Moose!ExecutePlan
  <2>1. MooseGiven /\ truth.exit = "not run" /\ MoosePlanned /\ NotRun
    BY <1>4 DEF Moose!ExecutePlan, MooseInv, Idle
  <2>2. UNCHANGED <<task, env, plan, report, verdict, handed>>
    BY <1>4 DEF Moose!ExecutePlan
  <2>3. ASSUME stage' = "validate", MooseTruth', MooseRan' PROVE MooseInv'
    BY <2>1, <2>2, <2>3 DEF MooseInv, MooseGiven, MooseRan, MoosePlanned
  <2>4. ASSUME stage' = "raised", MooseTruth', UNCHANGED run PROVE MooseInv'
    BY <2>1, <2>2, <2>4 DEF MooseInv, MooseGiven
  <2>5. CASE stage' = "raised" /\ UNCHANGED <<disk, run, truth>>
    BY <2>1, <2>4, <2>5 DEF MooseGiven, MooseTruth
  <2>6. CASE /\ ~Moose!Resolved /\ stage' = "validate" /\ UNCHANGED <<disk, truth>>
             /\ run' = Moose!Artifact("unavailable", "none", {}, TRUE)
    <3>1. run' \in Moose!MooseRunArtifact /\ run'.status = "unavailable"
      BY <2>6 DEF Moose!Artifact, Moose!MooseRunArtifact
    <3>2. {"binary", "executable bit"} \cap truth.lacks # {}
      BY <2>6 DEF Moose!Resolved
    <3>3. MooseRan'
      BY <2>1, <2>6, <3>1, <3>2 DEF MooseRan
    <3> QED BY <2>1, <2>3, <2>6, <3>3 DEF MooseGiven, MooseTruth
  <2>7. CASE Moose!Resolved /\ "executable bit" \notin truth.lacks /\ Moose!RunCommand
    <3>1. PICK exit \in {"0", "1", "timeout"}, wrote \in SUBSET Moose!Outputs, says \in Moose!Talk :
            /\ truth' = [truth EXCEPT !.exit = exit, !.wrote = wrote, !.content = says]
            /\ disk' = disk \cup wrote
            /\ IF says = "odd residual" THEN stage' = "raised" /\ UNCHANGED run
               ELSE /\ run' = CASE exit = "timeout" ->
                               Moose!Artifact("timeout", "none", Moose!DiscoverOutputs(disk'),
                                              says = "error line")
                          [] exit # "timeout" ->
                               Moose!Artifact(IF exit = "0" THEN "completed" ELSE "failed",
                                        exit, Moose!DiscoverOutputs(disk'), says = "error line")
                    /\ stage' = "validate"
      BY <2>7 DEF Moose!RunCommand
    <3>2. /\ MooseTruth' /\ truth'.lacks = truth.lacks /\ truth'.exit = exit
          /\ truth'.content = says
      BY <2>1, <3>1 DEF MooseGiven, MooseTruth, Truths
    <3>3. CASE says = "odd residual"
      BY <2>4, <3>1, <3>2, <3>3
    <3>4. CASE says # "odd residual"
      <4> DEFINE status == IF exit = "timeout" THEN "timeout"
                           ELSE IF exit = "0" THEN "completed" ELSE "failed"
                 code == IF exit = "timeout" THEN "none" ELSE exit
                 outputs == Moose!DiscoverOutputs(disk')
                 warned == says = "error line"
      <4>1. run' = Moose!Artifact(status, code, outputs, warned) /\ stage' = "validate"
        BY <3>1, <3>4
      <4>2. /\ status \in {"timeout", "completed", "failed"} /\ code \in {"none", "0", "1"}
            /\ \/ status = "completed" /\ exit = "0"
               \/ status = "failed" /\ exit = "1"
               \/ status = "timeout" /\ exit = "timeout"
        OBVIOUS
      <4>3. outputs \in SUBSET Moose!Outputs /\ outputs = plan.expected_outputs \cap disk'
        BY <2>1 DEF Moose!DiscoverOutputs, MoosePlanned, Moose!MooseRunPlan
      <4>4. warned \in BOOLEAN /\ (warned <=> says = "error line")
        OBVIOUS
      <4>5. says \in {"quiet", "error line"}
        BY <3>4 DEF Moose!Talk
      <4> HIDE DEF status, code, outputs, warned
      <4>6. run' = [status |-> status, return_code |-> code, output_files |-> outputs,
                    blocking_warning |-> warned]
        BY <4>1 DEF Moose!Artifact
      <4>7. run' \in Moose!MooseRunArtifact
        BY <4>2, <4>3, <4>4, <4>6 DEF Moose!MooseRunArtifact
      <4>8. /\ run'.status = status /\ run'.output_files = outputs
            /\ run'.blocking_warning = warned
        BY <4>6
      <4>9. {"binary", "executable bit"} \cap truth.lacks = {}
        BY <2>7 DEF Moose!Resolved
      <4>10. MooseRan'
        BY <2>2, <3>2, <4>2, <4>3, <4>4, <4>5, <4>7, <4>8, <4>9 DEF MooseRan
      <4> QED BY <2>3, <3>2, <4>1, <4>10
    <3> QED BY <3>3, <3>4
  <2> QED BY <1>4, <2>5, <2>6, <2>7 DEF Moose!ExecutePlan
<1>5. CASE Moose!ValidateRun
  <2>1. MooseGiven /\ MoosePlanned /\ MooseRan /\ NotReported
    BY <1>5 DEF Moose!ValidateRun, MooseInv, Idle
  <2>2. UNCHANGED <<task, env, plan, disk, run, verdict, handed, truth>> /\ stage' = "judge"
    BY <1>5 DEF Moose!ValidateRun
  <2>3. report' = [passed |-> Moose!StatusAndIssues[1] = "executed"
                                /\ ~Moose!Blocking(Moose!StatusAndIssues[2]),
                   status |-> Moose!StatusAndIssues[1], issues |-> Moose!StatusAndIssues[2]]
    BY <1>5 DEF Moose!ValidateRun
  <2> DEFINE codes == [code : {"moose_run_unavailable", "moose_timeout",
                             "moose_runtime_failed", "moose_blocking_warning",
                             "moose_output_missing"}, blocks : {TRUE}]
                      \cup {Moose!Issue("moose_output_missing", FALSE)}
  <2>4. ASSUME NEW status \in {"environment_invalid", "runtime_failed",
                               "output_missing", "executed"},
               NEW issues \in SUBSET codes,
               Moose!StatusAndIssues = <<status, issues>>,
               status = "environment_invalid" =>
                 {"binary", "executable bit"} \cap truth.lacks # {},
               truth.exit \in {"1", "timeout"} <=> status = "runtime_failed",
               status = "output_missing" =>
                 truth.content = "error line" \/ "required output" \notin disk,
               status = "executed" /\ ~Moose!Blocking(issues) => Moose!Earned
        PROVE  MooseInv'
    <3> DEFINE passed == status = "executed" /\ ~Moose!Blocking(issues)
    <3>1. passed \in BOOLEAN /\ (passed => Moose!Earned)
      BY <2>4
    <3>2. report' = [passed |-> passed, status |-> status, issues |-> issues]
      BY <2>3, <2>4
    <3> HIDE DEF passed
    <3>3. report' \in Moose!MooseValidationReport
      BY <3>1, <3>2 DEF Moose!MooseValidationReport
    <3>4. report'.passed = passed /\ report'.status = status
      BY <3>2
    <3>5. Moose!CauseNamed'
      BY <2>2, <2>4, <3>4 DEF Moose!CauseNamed
    <3>6. MooseReported'
      BY <2>2, <3>1, <3>3, <3>4, <3>5 DEF MooseReported, Moose!Earned
    <3> QED BY <2>1, <2>2, <3>6 DEF MooseInv, MooseGiven, MooseTruth
  <2>5. ASSUME NEW c \in {"moose_run_unavailable", "moose_timeout", "moose_runtime_failed",
                          "moose_blocking_warning", "moose_output_missing"}
        PROVE  Moose!Issue(c, TRUE) \in codes
    BY DEF Moose!Issue
  <2>6. Moose!Issue("moose_output_missing", FALSE) \in codes
    OBVIOUS
  <2> HIDE DEF codes
  <2>7. CASE run.status = "unavailable"
    <3>1. Moose!StatusAndIssues =
            <<"environment_invalid", {Moose!Issue("moose_run_unavailable", TRUE)}>>
      BY <2>7 DEF Moose!StatusAndIssues
    <3>2. {Moose!Issue("moose_run_unavailable", TRUE)} \in SUBSET codes
      BY <2>5
    <3>3. {"binary", "executable bit"} \cap truth.lacks # {} /\ truth.exit = "not run"
      BY <2>1, <2>7 DEF MooseRan
    <3> QED BY <2>4, <3>1, <3>2, <3>3
  <2>8. CASE run.status = "timeout"
    <3>1. Moose!StatusAndIssues = <<"runtime_failed", {Moose!Issue("moose_timeout", TRUE)}>>
      BY <2>8 DEF Moose!StatusAndIssues
    <3>2. {Moose!Issue("moose_timeout", TRUE)} \in SUBSET codes
      BY <2>5
    <3>3. truth.exit = "timeout"
      BY <2>1, <2>8 DEF MooseRan
    <3> QED BY <2>4, <3>1, <3>2, <3>3
  <2>9. CASE run.status = "failed"
    <3>1. Moose!StatusAndIssues =
            <<"runtime_failed", {Moose!Issue("moose_runtime_failed", TRUE)}>>
      BY <2>9 DEF Moose!StatusAndIssues
    <3>2. {Moose!Issue("moose_runtime_failed", TRUE)} \in SUBSET codes
      BY <2>5
    <3>3. truth.exit = "1"
      BY <2>1, <2>9 DEF MooseRan
    <3> QED BY <2>4, <3>1, <3>2, <3>3
  <2>10. CASE run.status = "completed"
    <3> DEFINE issues == Moose!EvidenceIssues
               status == IF plan.expected_outputs # {} /\ Moose!Blocking(issues)
                         THEN "output_missing" ELSE "executed"
    <3>1. Moose!StatusAndIssues = <<status, issues>>
      BY <2>10 DEF Moose!StatusAndIssues
    <3>2. /\ {"binary", "executable bit"} \cap truth.lacks = {} /\ truth.exit = "0"
          /\ truth.content \in {"quiet", "error line"}
          /\ run.blocking_warning <=> truth.content = "error line"
          /\ run.output_files = plan.expected_outputs \cap disk
      BY <2>1, <2>10 DEF MooseRan
    <3>3. issues \in SUBSET codes
      <4>1. ASSUME NEW o \in Moose!MissingOutputs
            PROVE  Moose!Issue("moose_output_missing", o = "required output") \in codes
        <5>1. CASE o = "required output"
          <6>1. (o = "required output") = TRUE
            BY <5>1
          <6> QED BY <2>5, <6>1
        <5>2. CASE o # "required output"
          <6>1. (o = "required output") = FALSE
            BY <5>2
          <6> QED BY <2>6, <6>1
        <5> QED BY <5>1, <5>2
      <4>2. Moose!IssueIf(run.blocking_warning, "moose_blocking_warning", TRUE) \in SUBSET codes
        BY <2>5 DEF Moose!IssueIf
      <4> QED BY <4>1, <4>2 DEF Moose!EvidenceIssues
    <3>4. ASSUME Moose!Blocking(issues)
          PROVE  truth.content = "error line" \/ "required output" \notin disk
      <4>1. PICK i \in issues : i.blocks
        BY <3>4 DEF Moose!Blocking
      <4>2. CASE i \in Moose!IssueIf(run.blocking_warning, "moose_blocking_warning", TRUE)
        BY <3>2, <4>2 DEF Moose!IssueIf
      <4>3. CASE \E o \in Moose!MissingOutputs :
                   i = Moose!Issue("moose_output_missing", o = "required output")
        <5>1. PICK o \in Moose!MissingOutputs :
                i = Moose!Issue("moose_output_missing", o = "required output")
          BY <4>3
        <5>2. i.blocks = (o = "required output")
          BY <5>1 DEF Moose!Issue
        <5>3. o = "required output"
          BY <4>1, <5>2
        <5> QED BY <3>2, <5>1, <5>3 DEF Moose!MissingOutputs
      <4> QED BY <4>1, <4>2, <4>3 DEF Moose!EvidenceIssues
    <3>5. ASSUME ~Moose!Blocking(issues) PROVE Moose!Earned
      <4>1. truth.content # "error line"
        <5>1. SUFFICES ASSUME truth.content = "error line" PROVE FALSE
          OBVIOUS
        <5> DEFINE i == Moose!Issue("moose_blocking_warning", TRUE)
        <5>2. i \in issues
          BY <3>2, <5>1 DEF Moose!EvidenceIssues, Moose!IssueIf
        <5>3. i.blocks
          BY DEF Moose!Issue
        <5> HIDE DEF i, issues
        <5> QED BY <3>5, <5>2, <5>3 DEF Moose!Blocking
      <4>2. ASSUME "required output" \in task.expected_outputs, "required output" \notin disk
            PROVE  FALSE
        <5> DEFINE i == Moose!Issue("moose_output_missing", TRUE)
        <5>1. "required output" \in Moose!MissingOutputs
          BY <2>1, <3>2, <4>2 DEF Moose!MissingOutputs, MoosePlanned
        <5>2. i \in issues
          <6>1. ("required output" = "required output") = TRUE
            OBVIOUS
          <6>2. i = Moose!Issue("moose_output_missing", "required output" = "required output")
            BY <6>1
          <6> HIDE DEF i
          <6> QED BY <5>1, <6>2 DEF Moose!EvidenceIssues
        <5>3. i.blocks
          BY DEF Moose!Issue
        <5> HIDE DEF i, issues
        <5> QED BY <3>5, <5>2, <5>3 DEF Moose!Blocking
      <4> QED BY <3>2, <4>1, <4>2 DEF Moose!Earned
    <3>6. /\ status \in {"output_missing", "executed"}
          /\ status = "output_missing" => Moose!Blocking(issues)
      OBVIOUS
    <3> HIDE DEF status, issues
    <3> QED BY <2>4, <3>1, <3>2, <3>3, <3>4, <3>5, <3>6
  <2> QED BY <2>1, <2>7, <2>8, <2>9, <2>10 DEF MooseRan, Moose!MooseRunArtifact
<1>6. CASE Moose!Judge
  <2>1. MooseGiven /\ MooseReported /\ NotJudged
    BY <1>6 DEF Moose!Judge, MooseInv, Idle
  <2>2. UNCHANGED <<task, env, plan, disk, run, report, handed, truth>> /\ stage' = "done"
    BY <1>6 DEF Moose!Judge
  <2> DEFINE allowed == ~Moose!Unavailable /\ report.passed /\ ~Moose!Blocking(report.issues)
  <2>3. verdict' = [passed |-> allowed, decision |-> IF allowed THEN "allow" ELSE "reject"]
    BY <1>6 DEF Moose!Judge
  <2>4. allowed \in BOOLEAN
    OBVIOUS
  <2> HIDE DEF allowed
  <2>5. verdict' \in Moose!MoosePolicyReport
    BY <2>3, <2>4 DEF Moose!MoosePolicyReport
  <2>6. MooseReported'
    BY <2>1, <2>2 DEF MooseReported, Moose!CauseNamed, Moose!Earned
  <2> QED BY <2>1, <2>2, <2>5, <2>6 DEF MooseInv, MooseGiven, MooseTruth
<1> QED BY <1>1, <1>2, <1>3, <1>4, <1>5, <1>6 DEF Moose!Next

(* MooseInv is enough for the three properties.                            *)
LEMMA MooseHolds ==
  ASSUME MooseInv
  PROVE  Moose!Typed /\ (Made(report) => Moose!CauseNamed) /\ (Accepted => Moose!Earned)
<1> USE DEF NotPlanned, NotRun, NotReported, NotJudged, Made, Nothing, Idle, NotHanded
<1>1. Moose!Typed
  BY DEF MooseInv, MooseGiven, MooseReported, Moose!Typed, Moose!Made, Moose!Nothing
<1>2. Made(report) => Moose!CauseNamed
  BY DEF MooseInv, MooseReported
<1>3. ASSUME Accepted PROVE Moose!Earned
  BY <1>3 DEF Accepted, At, MooseInv, MooseReported
<1> QED BY <1>1, <1>2, <1>3

------------------------------------------------------------------------------
(* AI4PDE.  Ai4pdeInv says, for each stage of a run, what the components   *)
(* that have worked are known to have left, and how that stands to what    *)
(* really happened.                                                        *)
Ai4pdeTruth ==
  truth \in Truths({{}}, {"not run", "0"}, SUBSET Ai4pde!Violations, {"none"})
Ai4pdeCommitted == env # Nothing /\ Ai4pde!CaseIssues(task.case) = {}
Ai4pdePlanned == plan \in Ai4pde!PDEPlan /\ plan.reference = task.reference
Ai4pdeRan ==
  /\ run \in Ai4pde!PDERunArtifact
  /\ truth.exit = "0" /\ run.exceeds = truth.wrote
  /\ "baseline_divergence_exceeded" \in run.exceeds =>
       task.reference = "own" \/ task.executor = "other"
Ai4pdeReported ==
  /\ report \in Ai4pde!ValidationBundle
  /\ truth.exit = "0" /\ Ai4pdeCommitted /\ Ai4pde!CauseNamed
Ai4pdeGiven ==
  /\ task \in Ai4pde!PDETaskRequest /\ Ai4pdeTruth
  /\ plan = Nothing \/ plan \in Ai4pde!PDEPlan
  /\ run = Nothing \/ run \in Ai4pde!PDERunArtifact
Ai4pdeInv ==
  /\ Ai4pdeGiven
  /\ \/ stage = "issue" /\ Idle
     \/ stage = "probe" /\ Idle /\ Ai4pde!CaseIssues(task.case) = {}
     \/ stage = "compile" /\ Ai4pdeCommitted /\ NotPlanned
     \/ stage = "execute" /\ Ai4pdeCommitted /\ Ai4pdePlanned /\ NotRun
     \/ stage = "validate" /\ Ai4pdeCommitted /\ Ai4pdeRan /\ NotReported
     \/ stage = "judge" /\ Ai4pdeReported /\ NotJudged
     \/ /\ stage = "hand over" /\ Ai4pdeReported
        /\ verdict \in Ai4pde!RiskDecision /\ handed = Nothing
     \/ /\ stage = "done" /\ Ai4pdeReported
        /\ verdict \in Ai4pde!RiskDecision
        /\ handed.made = TRUE /\ (handed.promoted => report.violations = {})
     \/ stage = "raised" /\ NotRun

(* A run of AI4PDE begins in Ai4pdeInv, from a fresh start or when the     *)
(* task is run again, and stays there when nothing happens.                *)
LEMMA Ai4pdeBegins ==
  ASSUME At("issue"), Idle, task \in Ai4pde!Tasks PROVE Ai4pdeInv
BY DEF Idle, Ai4pdeInv, Ai4pdeGiven, Untouched, Ai4pdeTruth, Truths, At, NotHanded,
   Ai4pde!Tasks

LEMMA Ai4pdeRestarts == ASSUME Ai4pdeInv, Restarts PROVE Ai4pdeInv'
BY DEF Restarts, Ai4pdeInv, Ai4pdeGiven, Untouched, Idle, NotHanded, Ai4pdeTruth, Truths

LEMMA Ai4pdeStays == ASSUME Ai4pdeInv, UNCHANGED vars PROVE Ai4pdeInv'
BY DEF vars, Ai4pdeTruth, Ai4pdeCommitted, Ai4pdePlanned, Ai4pdeRan, Ai4pdeReported,
    Ai4pdeGiven, Ai4pdeInv, Idle, NotHanded, NotPlanned, NotRun, NotReported, NotJudged,
    Ai4pde!CauseNamed, Ai4pde!Earned

(* Every step of AI4PDE preserves Ai4pdeInv, one component at a time.      *)
LEMMA Ai4pdeStep == ASSUME Ai4pdeInv, Ai4pde!Next PROVE Ai4pdeInv'
<1> USE DEF Ai4pde!At, Ai4pde!Goto, Ai4pde!Raise, NotPlanned, NotRun, NotReported, NotJudged
<1>1. CASE Ai4pde!IssueTaskFromCase
  <2>1. Ai4pdeGiven /\ Idle
    BY <1>1 DEF Ai4pde!IssueTaskFromCase, Ai4pdeInv
  <2>2. UNCHANGED <<task, env, plan, disk, run, report, verdict, handed, truth>>
    BY <1>1 DEF Ai4pde!IssueTaskFromCase
  <2>3. Ai4pdeGiven' /\ Idle' /\ NotRun'
    BY <2>1, <2>2 DEF Ai4pdeGiven, Ai4pdeTruth, Idle, NotHanded
  <2>4. \/ stage' = "probe" /\ Ai4pde!CaseIssues(task.case) = {}
        \/ stage' = "raised"
    BY <1>1 DEF Ai4pde!IssueTaskFromCase
  <2> QED BY <2>2, <2>3, <2>4 DEF Ai4pdeInv
<1>2. CASE Ai4pde!CommitGraph
  <2>1. Ai4pdeGiven /\ Idle /\ Ai4pde!CaseIssues(task.case) = {}
    BY <1>2 DEF Ai4pde!CommitGraph, Ai4pdeInv
  <2>2. UNCHANGED <<task, plan, disk, run, report, verdict, handed, truth>>
    BY <1>2 DEF Ai4pde!CommitGraph
  <2>3. Ai4pdeGiven' /\ NotPlanned' /\ NotRun'
    BY <2>1, <2>2 DEF Ai4pdeGiven, Ai4pdeTruth, Idle, NotHanded
  <2>4. \/ stage' = "compile" /\ env' = [made |-> TRUE, committed |-> TRUE]
        \/ stage' = "raised"
    BY <1>2 DEF Ai4pde!CommitGraph
  <2>5. [made |-> TRUE, committed |-> TRUE] # Nothing
    BY DEF Nothing
  <2>6. stage' = "compile" => Ai4pdeCommitted'
    BY <2>1, <2>2, <2>4, <2>5 DEF Ai4pdeCommitted
  <2> QED BY <2>3, <2>4, <2>6 DEF Ai4pdeInv
<1>3. CASE Ai4pde!BuildPlan
  <2>1. Ai4pdeGiven /\ Ai4pdeCommitted /\ NotPlanned
    BY <1>3 DEF Ai4pde!BuildPlan, Ai4pdeInv, Idle
  <2>2. UNCHANGED <<task, env, disk, run, report, verdict, handed, truth>> /\ stage' = "execute"
    BY <1>3 DEF Ai4pde!BuildPlan
  <2> DEFINE template == Ai4pde!Template(task.problem_type)
             method == IF task.family = "pinn_strong" THEN Ai4pde!TemplateMethod(template)
                       ELSE task.family
  <2>3. plan' = [selected_method |-> method, template_id |-> template,
                 reference |-> task.reference]
    BY <1>3 DEF Ai4pde!BuildPlan
  <2>4. /\ template \in {"none", "forward", "inverse"} /\ method \in Ai4pde!SolverFamily
        /\ task.reference \in {"none", "default", "own"}
    BY <2>1 DEF Ai4pdeGiven, Ai4pde!PDETaskRequest, Ai4pde!ProblemType,
       Ai4pde!SolverFamily,
      Ai4pde!Template, Ai4pde!TemplateMethod
  <2> HIDE DEF template, method
  <2>5. plan' \in Ai4pde!PDEPlan /\ plan'.reference = task.reference
    BY <2>3, <2>4 DEF Ai4pde!PDEPlan
  <2>6. Ai4pdeGiven' /\ Ai4pdeCommitted' /\ Ai4pdePlanned' /\ NotRun'
    BY <2>1, <2>2, <2>5 DEF Ai4pdeGiven, Ai4pdeCommitted, Ai4pdePlanned, Ai4pdeTruth
  <2> QED BY <2>2, <2>6 DEF Ai4pdeInv
<1>4. CASE Ai4pde!ExecutePlan
  <2>1. Ai4pdeGiven /\ Ai4pdeCommitted /\ Ai4pdePlanned /\ NotRun
    BY <1>4 DEF Ai4pde!ExecutePlan, Ai4pdeInv, Idle
  <2>2. UNCHANGED <<task, env, plan, disk, report, verdict, handed>>
    BY <1>4 DEF Ai4pde!ExecutePlan
  <2>3. ASSUME stage' = "validate", NEW misses \in SUBSET Ai4pde!Violations,
               "baseline_divergence_exceeded" \in misses =>
                 task.reference = "own" \/ task.executor = "other",
               run' = [solver_family |-> plan.selected_method, exceeds |-> misses],
               truth' = [truth EXCEPT !.exit = "0", !.wrote = misses]
        PROVE  Ai4pdeInv'
    <3>1. Ai4pdeTruth' /\ truth'.exit = "0" /\ truth'.wrote = misses
      BY <2>1, <2>3 DEF Ai4pdeGiven, Ai4pdeTruth, Truths
    <3>2. run' \in Ai4pde!PDERunArtifact /\ run'.exceeds = misses
      BY <2>1, <2>3 DEF Ai4pdePlanned, Ai4pde!PDEPlan, Ai4pde!PDERunArtifact
    <3>3. Ai4pdeRan' /\ Ai4pdeCommitted' /\ NotReported'
      BY <2>1, <2>2, <2>3, <3>1, <3>2 DEF Ai4pdeRan, Ai4pdeCommitted
    <3> QED BY <2>1, <2>2, <2>3, <3>1, <3>2, <3>3 DEF Ai4pdeInv, Ai4pdeGiven
  <2>4. CASE stage' = "raised" /\ UNCHANGED <<run, truth>>
    BY <2>1, <2>2, <2>4 DEF Ai4pdeInv, Ai4pdeGiven, Ai4pdeTruth
  <2>5. ASSUME NEW misses \in Ai4pde!BundledMisses
        PROVE  /\ misses \in SUBSET Ai4pde!Violations
               /\ "baseline_divergence_exceeded" \in misses => task.reference = "own"
    BY <2>1, <2>5 DEF Ai4pde!BundledMisses, Ai4pde!Violations, Ai4pdePlanned
  <2>6. CASE /\ task.executor = "bundled" /\ stage' = "validate"
             /\ \E misses \in Ai4pde!BundledMisses :
                  /\ run' = [solver_family |-> plan.selected_method, exceeds |-> misses]
                  /\ truth' = [truth EXCEPT !.exit = "0", !.wrote = misses]
    <3>1. PICK misses \in Ai4pde!BundledMisses :
            /\ run' = [solver_family |-> plan.selected_method, exceeds |-> misses]
            /\ truth' = [truth EXCEPT !.exit = "0", !.wrote = misses]
      BY <2>6
    <3> QED BY <2>3, <2>5, <2>6, <3>1
  <2>7. CASE /\ task.executor = "other" /\ stage' = "validate"
             /\ \E misses \in Ai4pde!OtherMisses :
                  /\ run' = [solver_family |-> plan.selected_method, exceeds |-> misses]
                  /\ truth' = [truth EXCEPT !.exit = "0", !.wrote = misses]
    <3>1. PICK misses \in SUBSET Ai4pde!Violations :
            /\ run' = [solver_family |-> plan.selected_method, exceeds |-> misses]
            /\ truth' = [truth EXCEPT !.exit = "0", !.wrote = misses]
      BY <2>7 DEF Ai4pde!OtherMisses
    <3> QED BY <2>3, <2>7, <3>1
  <2> QED BY <1>4, <2>4, <2>6, <2>7 DEF Ai4pde!ExecutePlan
<1>5. CASE Ai4pde!ValidateRun
  <2>1. Ai4pdeGiven /\ Ai4pdeCommitted /\ Ai4pdeRan /\ NotReported
    BY <1>5 DEF Ai4pde!ValidateRun, Ai4pdeInv, Idle
  <2>2. UNCHANGED <<task, env, plan, disk, run, verdict, handed, truth>> /\ stage' = "judge"
    BY <1>5 DEF Ai4pde!ValidateRun
  <2> DEFINE accepted == run.exceeds = {}
             action == IF accepted THEN "accept" ELSE "retry"
             rollback == "baseline_divergence_exceeded" \in run.exceeds
  <2>3. report' = [passed |-> accepted, violations |-> run.exceeds,
                   next_action |-> action, rollback_recommended |-> rollback]
    BY <1>5 DEF Ai4pde!ValidateRun
  <2>4. /\ accepted \in BOOLEAN /\ action \in {"accept", "retry"} /\ rollback \in BOOLEAN
        /\ rollback <=> "baseline_divergence_exceeded" \in run.exceeds
    OBVIOUS
  <2>5. run.exceeds \in SUBSET Ai4pde!Violations
    BY <2>1 DEF Ai4pdeRan, Ai4pde!PDERunArtifact
  <2> HIDE DEF accepted, action, rollback
  <2>6. report' \in Ai4pde!ValidationBundle
    BY <2>3, <2>4, <2>5 DEF Ai4pde!ValidationBundle
  <2>7. report'.violations = run.exceeds /\ report'.rollback_recommended = rollback
    BY <2>3
  <2>8. Ai4pde!CauseNamed'
    BY <2>1, <2>2, <2>4, <2>7 DEF Ai4pde!CauseNamed, Ai4pdeRan
  <2>9. Ai4pdeReported'
    BY <2>1, <2>2, <2>6, <2>8 DEF Ai4pdeReported, Ai4pdeRan, Ai4pdeCommitted
  <2> QED BY <2>1, <2>2, <2>9 DEF Ai4pdeInv, Ai4pdeGiven, Ai4pdeTruth
<1>6. CASE Ai4pde!Classify
  <2>1. Ai4pdeGiven /\ Ai4pdeReported /\ NotJudged
    BY <1>6 DEF Ai4pde!Classify, Ai4pdeInv, Idle
  <2>2. UNCHANGED <<task, env, plan, disk, run, report, handed, truth>> /\ stage' = "hand over"
    BY <1>6 DEF Ai4pde!Classify
  <2> DEFINE risk == Ai4pde!ClassifyRisk
             signals == Ai4pde!EvaluateTriggers
  <2>3. verdict' = [risk_level |-> risk, budget_level |-> task.budget, signals |-> signals]
    BY <1>6 DEF Ai4pde!Classify
  <2>4. risk \in Ai4pde!Level /\ task.budget \in Ai4pde!Level
    BY <2>1 DEF Ai4pdeGiven, Ai4pde!PDETaskRequest, Ai4pde!ClassifyRisk, Ai4pde!Level
  <2>5. signals \in SUBSET Ai4pde!MutationSignal
    BY DEF Ai4pde!EvaluateTriggers
  <2> HIDE DEF risk, signals
  <2>6. verdict' \in Ai4pde!RiskDecision
    BY <2>3, <2>4, <2>5 DEF Ai4pde!RiskDecision
  <2>7. Ai4pdeReported'
    BY <2>1, <2>2 DEF Ai4pdeReported, Ai4pdeCommitted, Ai4pde!CauseNamed
  <2> QED BY <2>1, <2>2, <2>6, <2>7 DEF Ai4pdeInv, Ai4pdeGiven, Ai4pdeTruth
<1>7. CASE Ai4pde!HandOver
  <2>1. Ai4pdeGiven /\ Ai4pdeReported /\ verdict \in Ai4pde!RiskDecision
    BY <1>7 DEF Ai4pde!HandOver, Ai4pdeInv, Idle
  <2>2. UNCHANGED <<task, env, plan, disk, run, report, verdict, truth>> /\ stage' = "done"
    BY <1>7 DEF Ai4pde!HandOver
  <2>3. handed'.made = TRUE /\ handed'.promoted = Ai4pde!CoreValid
    BY <1>7 DEF Ai4pde!HandOver, Ai4pde!Handed
  <2>4. Ai4pdeReported'
    BY <2>1, <2>2 DEF Ai4pdeReported, Ai4pdeCommitted, Ai4pde!CauseNamed
  <2>5. handed'.promoted => report'.violations = {}
    BY <2>2, <2>3 DEF Ai4pde!CoreValid
  <2> QED BY <2>1, <2>2, <2>3, <2>4, <2>5 DEF Ai4pdeInv, Ai4pdeGiven, Ai4pdeTruth
<1> QED BY <1>1, <1>2, <1>3, <1>4, <1>5, <1>6, <1>7 DEF Ai4pde!Next

(* Ai4pdeInv is enough for the three properties.                           *)
LEMMA Ai4pdeHolds ==
  ASSUME Ai4pdeInv
  PROVE  Ai4pde!Typed /\ (Made(report) => Ai4pde!CauseNamed) /\ (Accepted => Ai4pde!Earned)
<1> USE DEF NotPlanned, NotRun, NotReported, NotJudged, Made, Nothing, Idle, NotHanded
<1>1. Ai4pde!Typed
  BY DEF Ai4pdeInv, Ai4pdeGiven, Ai4pdeReported, Ai4pde!Typed, Ai4pde!Made,
     Ai4pde!Nothing
<1>2. Made(report) => Ai4pde!CauseNamed
  BY DEF Ai4pdeInv, Ai4pdeReported
<1>3. ASSUME Accepted PROVE Ai4pde!Earned
  <2>1. Ai4pdeReported /\ report.violations = {}
    BY <1>3 DEF Accepted, At, Ai4pdeInv
  <2> QED BY <2>1 DEF Ai4pdeReported, Ai4pdeCommitted, Ai4pde!CauseNamed, Ai4pde!Earned,
        Ai4pde!Made, Ai4pde!Nothing
<1> QED BY <1>1, <1>2, <1>3

------------------------------------------------------------------------------
(* Whose the files are.  An extension that never clears the run directory  *)
(* finds it empty in a first run, until its executor is done with it.      *)
Before == {"issue", "probe", "compile", "execute"}
Own ==
  /\ disk \subseteq truth.wrote \cup {"STRU", "vtu"}
  /\ stage \in Before => disk = {}

LEMMA OwnBegins == ASSUME disk = {} PROVE Own
BY DEF Own

LEMMA OwnStays == ASSUME Own, UNCHANGED vars PROVE Own'
BY DEF Own, vars

(* A component that touches no file, and comes back to none of those that  *)
(* work before the solver.                                                 *)
LEMMA OwnKept ==
  ASSUME Own, disk' = disk, truth'.wrote = truth.wrote,
         stage \in Before \/ stage' \notin Before
  PROVE  Own'
BY DEF Own

(* The executor, which finds nothing: what lies there then the solver has  *)
(* written, or the executor itself, or nobody.                             *)
LEMMA OwnRun ==
  ASSUME Own, At("execute"), stage' \notin Before, NEW wrote, truth'.wrote = wrote,
         disk' \subseteq disk \cup wrote \cup {"STRU"}
  PROVE  Own'
BY DEF Own, Before, At

LEMMA OctaveOwn == ASSUME OctaveInv, Own, Octave!Next PROVE Own'
<1> USE DEF Octave!At, Octave!Goto, Octave!Raise, Before, At
<1> OctaveTruth
  BY DEF OctaveInv, OctaveGiven
<1>1. CASE Octave!Issue_task
  BY <1>1, OwnKept DEF Octave!Issue_task, OctaveTruth, Truths
<1>2. CASE Octave!Probe
  BY <1>2, OwnKept DEF Octave!Probe, OctaveTruth, Truths
<1>3. CASE Octave!Compile
  BY <1>3, OwnKept DEF Octave!Compile, OctaveTruth, Truths
<1>4. CASE Octave!ParseOutputs
  BY <1>4, OwnKept DEF Octave!ParseOutputs, OctaveTruth, Truths
<1>5. CASE Octave!Validate
  BY <1>5, OwnKept DEF Octave!Validate, OctaveTruth, Truths
<1>6. CASE Octave!PostValidate
  BY <1>6, OwnKept DEF Octave!PostValidate, OctaveTruth, Truths
<1>7. CASE Octave!Judge
  BY <1>7, OwnKept DEF Octave!Judge, OctaveTruth, Truths
<1>8. CASE Octave!HandOver
  BY <1>8, OwnKept DEF Octave!HandOver, OctaveTruth, Truths
<1>9. CASE Octave!Execute
  <2>1. CASE disk' = disk /\ truth'.wrote = truth.wrote
    BY <1>9, <2>1, OwnKept DEF Octave!Execute
  <2>2. ASSUME NEW exit, NEW wrote, truth' = [truth EXCEPT !.exit = exit, !.wrote = wrote],
               disk' = disk \cup wrote
        PROVE  Own'
    <3>1. truth'.wrote = wrote
      BY <2>2 DEF OctaveTruth, Truths
    <3> QED BY <1>9, <2>2, <3>1, OwnRun DEF Octave!Execute
  <2> QED BY <1>9, <2>1, <2>2 DEF Octave!Execute, OctaveTruth, Truths
<1>10. CASE Octave!ExecuteInKubernetes
  <2>1. PICK exit \in {"0", "1", "cancelled", "unfinished"}, logs \in BOOLEAN :
          \E wrote \in Octave!WrapperWrites(exit) :
            /\ truth' = [truth EXCEPT !.exit = exit, !.wrote = wrote]
            /\ disk' \in {{}, disk \cup wrote}
    BY <1>10 DEF Octave!ExecuteInKubernetes
  <2>2. PICK wrote \in Octave!WrapperWrites(exit) :
            /\ truth' = [truth EXCEPT !.exit = exit, !.wrote = wrote]
            /\ disk' \in {{}, disk \cup wrote}
    BY <2>1
  <2>3. truth'.wrote = wrote
    BY <2>2 DEF OctaveTruth, Truths
  <2> QED BY <1>10, <2>2, <2>3, OwnRun DEF Octave!ExecuteInKubernetes
<1> QED BY <1>1, <1>2, <1>3, <1>4, <1>5, <1>6, <1>7, <1>8, <1>9, <1>10 DEF Octave!Next

LEMMA JediOwn == ASSUME JediInv, Own, Jedi!Next PROVE Own'
<1> USE DEF Jedi!At, Jedi!Goto, Jedi!Raise, Before, At
<1> JediTruth
  BY DEF JediInv, JediGiven
<1>1. CASE Jedi!IssueTask
  BY <1>1, OwnKept DEF Jedi!IssueTask, JediTruth, Truths
<1>2. CASE Jedi!Probe
  BY <1>2, OwnKept DEF Jedi!Probe, JediTruth, Truths
<1>3. CASE Jedi!ValidateRun
  BY <1>3, OwnKept DEF Jedi!ValidateRun, JediTruth, Truths
<1>4. CASE Jedi!Judge
  BY <1>4, OwnKept DEF Jedi!Judge, JediTruth, Truths
<1>5. CASE Jedi!HandOver
  BY <1>5, OwnKept DEF Jedi!HandOver, JediTruth, Truths
<1>6. CASE Jedi!BuildPlan
  <2>1. disk = {}
    BY <1>6 DEF Jedi!BuildPlan, Own
  <2> QED BY <1>6, <2>1, OwnKept DEF Jedi!BuildPlan
<1>7. CASE Jedi!Execute
  <2>1. CASE disk' = disk /\ truth'.wrote = truth.wrote
    BY <1>7, <2>1, OwnKept DEF Jedi!Execute
  <2>2. ASSUME NEW exit, NEW wrote, truth' = [truth EXCEPT !.exit = exit, !.wrote = wrote],
               disk' = Jedi!Written(wrote)
        PROVE  Own'
    <3>1. truth'.wrote = wrote
      BY <2>2 DEF JediTruth, Truths
    <3>2. disk' \subseteq disk \cup wrote
      BY <2>2 DEF Jedi!Written
    <3> QED BY <1>7, <3>1, <3>2, OwnRun DEF Jedi!Execute
  <2> QED BY <1>7, <2>1, <2>2 DEF Jedi!Execute
<1> QED BY <1>1, <1>2, <1>3, <1>4, <1>5, <1>6, <1>7 DEF Jedi!Next

(* FieldConvert adds its vtu file once the solver is done.                 *)
LEMMA NektarOwn == ASSUME NektarInv, Own, Nektar!Next PROVE Own'
<1> USE DEF Nektar!At, Nektar!Goto, Nektar!Raise, Before, At
<1> NektarTruth
  BY DEF NektarInv, NektarGiven
<1>1. CASE Nektar!IssueTask
  BY <1>1, OwnKept DEF Nektar!IssueTask, NektarTruth, Truths
<1>2. CASE Nektar!BuildPlan
  BY <1>2, OwnKept DEF Nektar!BuildPlan, NektarTruth, Truths
<1>3. CASE Nektar!ValidateRun
  BY <1>3, OwnKept DEF Nektar!ValidateRun, NektarTruth, Truths
<1>4. CASE Nektar!ExecutePlan
  <2>1. CASE disk' = disk /\ truth'.wrote = truth.wrote
    BY <1>4, <2>1, OwnKept DEF Nektar!ExecutePlan
  <2>2. ASSUME NEW exit, NEW wrote, NEW printed, disk' = disk \cup wrote,
               truth' = [truth EXCEPT !.exit = exit, !.wrote = wrote, !.content = printed]
        PROVE  Own'
    <3>1. truth'.wrote = wrote
      BY <2>2 DEF NektarTruth, Truths
    <3> QED BY <1>4, <2>2, <3>1, OwnRun DEF Nektar!ExecutePlan
  <2> QED BY <1>4, <2>1, <2>2 DEF Nektar!ExecutePlan, Nektar!Unavailable, Nektar!RunSolver
<1>5. CASE Nektar!RunPostprocess
  <2>1. CASE UNCHANGED <<disk, truth>>
    BY <1>5, <2>1, OwnKept DEF Nektar!RunPostprocess
  <2>2. CASE Nektar!RunFieldConvert
    <3>1. disk' \subseteq disk \cup {"vtu"} /\ truth'.wrote = truth.wrote
      BY <2>2 DEF Nektar!RunFieldConvert, NektarTruth, Truths
    <3> QED BY <1>5, <3>1 DEF Nektar!RunPostprocess, Own
  <2> QED BY <1>5, <2>1, <2>2 DEF Nektar!RunPostprocess
<1> QED BY <1>1, <1>2, <1>3, <1>4, <1>5 DEF Nektar!Next

(* The structure ABACUS starts from is written by the executor, whether it *)
(* can run the command or not.                                             *)
LEMMA AbacusOwn == ASSUME AbacusInv, Own, Abacus!Next PROVE Own'
<1> USE DEF Abacus!At, Abacus!Goto, Abacus!Raise, Before, At
<1> AbacusTruth
  BY DEF AbacusInv, AbacusGiven
<1>1. CASE Abacus!IssueTask
  BY <1>1, OwnKept DEF Abacus!IssueTask, AbacusTruth, Truths
<1>2. CASE Abacus!Probe
  BY <1>2, OwnKept DEF Abacus!Probe, AbacusTruth, Truths
<1>3. CASE Abacus!Compile
  BY <1>3, OwnKept DEF Abacus!Compile, AbacusTruth, Truths
<1>4. CASE Abacus!ValidateRun
  BY <1>4, OwnKept DEF Abacus!ValidateRun, AbacusTruth, Truths
<1>5. CASE Abacus!ExecutePlan
  <2>1. CASE disk' = Abacus!WriteInputs /\ UNCHANGED truth
    BY <1>5, <2>1, OwnRun DEF Abacus!ExecutePlan, Abacus!WriteInputs
  <2>2. ASSUME NEW exit, NEW wrote, disk' = Abacus!WriteInputs \cup wrote,
               truth' = [truth EXCEPT !.exit = exit, !.wrote = wrote]
        PROVE  Own'
    <3>1. truth'.wrote = wrote
      BY <2>2 DEF AbacusTruth, Truths
    <3> QED BY <1>5, <2>2, <3>1, OwnRun DEF Abacus!ExecutePlan, Abacus!WriteInputs
  <2> QED BY <1>5, <2>1, <2>2 DEF Abacus!ExecutePlan, Abacus!RunCommand
<1> QED BY <1>1, <1>2, <1>3, <1>4, <1>5 DEF Abacus!Next

LEMMA MooseOwn == ASSUME MooseInv, Own, Moose!Next PROVE Own'
<1> USE DEF Moose!At, Moose!Goto, Moose!Raise, Before, At
<1> MooseTruth
  BY DEF MooseInv, MooseGiven
<1>1. CASE Moose!IssueTask
  BY <1>1, OwnKept DEF Moose!IssueTask, MooseTruth, Truths
<1>2. CASE Moose!Probe
  BY <1>2, OwnKept DEF Moose!Probe, MooseTruth, Truths
<1>3. CASE Moose!Compile
  BY <1>3, OwnKept DEF Moose!Compile, MooseTruth, Truths
<1>4. CASE Moose!ValidateRun
  BY <1>4, OwnKept DEF Moose!ValidateRun, MooseTruth, Truths
<1>5. CASE Moose!Judge
  BY <1>5, OwnKept DEF Moose!Judge, MooseTruth, Truths
<1>6. CASE Moose!ExecutePlan
  <2>1. CASE UNCHANGED <<disk, truth>>
    BY <1>6, <2>1, OwnKept DEF Moose!ExecutePlan
  <2>2. ASSUME NEW exit, NEW wrote, NEW says, disk' = disk \cup wrote, stage' \notin Before,
               truth' = [truth EXCEPT !.exit = exit, !.wrote = wrote, !.content = says]
        PROVE  Own'
    <3>1. truth'.wrote = wrote
      BY <2>2 DEF MooseTruth, Truths
    <3> QED BY <1>6, <2>2, <3>1, OwnRun DEF Moose!ExecutePlan
  <2>3. ASSUME Moose!RunCommand PROVE Own'
    <3>1. PICK exit \in {"0", "1", "timeout"}, wrote \in SUBSET Moose!Outputs,
               says \in Moose!Talk :
            /\ truth' = [truth EXCEPT !.exit = exit, !.wrote = wrote, !.content = says]
            /\ disk' = disk \cup wrote
      BY <2>3 DEF Moose!RunCommand
    <3>2. stage' \notin Before
      BY <2>3 DEF Moose!RunCommand
    <3> QED BY <2>2, <3>1, <3>2
  <2> QED BY <1>6, <2>1, <2>3 DEF Moose!ExecutePlan
<1> QED BY <1>1, <1>2, <1>3, <1>4, <1>5, <1>6 DEF Moose!Next

------------------------------------------------------------------------------
(* The extension at work, whichever it is.                                 *)
ExtensionsInv ==
  /\ ext \in Exts /\ round \in 1..Rounds
  /\ ext \in Keeping /\ round = 1 => Own
  /\ ext = "octave" => OctaveInv
  /\ ext = "fealpy" => FealpyInv
  /\ ext = "jedi" => JediInv
  /\ ext = "qcompute" => QcomputeInv
  /\ ext = "deepmd" => DeepmdInv
  /\ ext = "nektar" => NektarInv
  /\ ext = "boutpp" => BoutppInv
  /\ ext = "abacus" => AbacusInv
  /\ ext = "lean" => LeanInv
  /\ ext = "pycfd" => PycfdInv
  /\ ext = "moose" => MooseInv
  /\ ext = "ai4pde" => Ai4pdeInv

(* A task that has just been issued, in a fresh run directory.             *)
LEMMA ExtensionsBegin == ASSUME Init PROVE ExtensionsInv
<1>1. ext \in Exts /\ round \in 1..Rounds
  BY ExtensionsAssumption DEF Init
<1>2. ASSUME ext = "octave" PROVE OctaveInv
  <2>1. TasksOf("octave") = Octave!Tasks
    BY DEF TasksOf
  <2>2. task \in Octave!Tasks /\ At("issue") /\ Idle /\ disk = {}
    BY <1>2, <2>1 DEF Init, At
  <2> QED BY <2>2, OctaveBegins
<1>3. ASSUME ext = "fealpy" PROVE FealpyInv
  <2>1. TasksOf("fealpy") = Fealpy!Tasks
    BY DEF TasksOf
  <2>2. task \in Fealpy!Tasks /\ At("issue") /\ Idle /\ disk = {}
    BY <1>3, <2>1 DEF Init, At
  <2> QED BY <2>2, FealpyBegins
<1>4. ASSUME ext = "jedi" PROVE JediInv
  <2>1. TasksOf("jedi") = Jedi!Tasks
    BY DEF TasksOf
  <2>2. task \in Jedi!Tasks /\ At("issue") /\ Idle /\ disk = {}
    BY <1>4, <2>1 DEF Init, At
  <2> QED BY <2>2, JediBegins
<1>5. ASSUME ext = "qcompute" PROVE QcomputeInv
  <2>1. TasksOf("qcompute") = Qcompute!Tasks
    BY DEF TasksOf
  <2>2. task \in Qcompute!Tasks /\ At("issue") /\ Idle /\ disk = {}
    BY <1>5, <2>1 DEF Init, At
  <2> QED BY <2>2, QcomputeBegins
<1>6. ASSUME ext = "deepmd" PROVE DeepmdInv
  <2>1. TasksOf("deepmd") = Deepmd!Tasks
    BY DEF TasksOf
  <2>2. task \in Deepmd!Tasks /\ At("issue") /\ Idle /\ disk = {}
    BY <1>6, <2>1 DEF Init, At
  <2> QED BY <2>2, DeepmdBegins
<1>7. ASSUME ext = "nektar" PROVE NektarInv
  <2>1. TasksOf("nektar") = Nektar!Tasks
    BY DEF TasksOf
  <2>2. task \in Nektar!Tasks /\ At("issue") /\ Idle /\ disk = {}
    BY <1>7, <2>1 DEF Init, At
  <2> QED BY <2>2, NektarBegins
<1>8. ASSUME ext = "boutpp" PROVE BoutppInv
  <2>1. TasksOf("boutpp") = Boutpp!Tasks
    BY DEF TasksOf
  <2>2. task \in Boutpp!Tasks /\ At("issue") /\ Idle /\ disk = {}
    BY <1>8, <2>1 DEF Init, At
  <2> QED BY <2>2, BoutppBegins
<1>9. ASSUME ext = "abacus" PROVE AbacusInv
  <2>1. TasksOf("abacus") = Abacus!Tasks
    BY DEF TasksOf
  <2>2. task \in Abacus!Tasks /\ At("issue") /\ Idle /\ disk = {}
    BY <1>9, <2>1 DEF Init, At
  <2> QED BY <2>2, AbacusBegins
<1>10. ASSUME ext = "lean" PROVE LeanInv
  <2>1. TasksOf("lean") = Lean!Tasks
    BY DEF TasksOf
  <2>2. task \in Lean!Tasks /\ At("issue") /\ Idle /\ disk = {}
    BY <1>10, <2>1 DEF Init, At
  <2> QED BY <2>2, LeanBegins
<1>11. ASSUME ext = "pycfd" PROVE PycfdInv
  <2>1. TasksOf("pycfd") = Pycfd!Tasks
    BY DEF TasksOf
  <2>2. task \in Pycfd!Tasks /\ At("issue") /\ Idle /\ disk = {}
    BY <1>11, <2>1 DEF Init, At
  <2> QED BY <2>2, PycfdBegins
<1>12. ASSUME ext = "moose" PROVE MooseInv
  <2>1. TasksOf("moose") = Moose!Tasks
    BY DEF TasksOf
  <2>2. task \in Moose!Tasks /\ At("issue") /\ Idle /\ disk = {}
    BY <1>12, <2>1 DEF Init, At
  <2> QED BY <2>2, MooseBegins
<1>13. ASSUME ext = "ai4pde" PROVE Ai4pdeInv
  <2>1. TasksOf("ai4pde") = Ai4pde!Tasks
    BY DEF TasksOf
  <2>2. task \in Ai4pde!Tasks /\ At("issue") /\ Idle /\ disk = {}
    BY <1>13, <2>1 DEF Init, At
  <2> QED BY <2>2, Ai4pdeBegins
<1>14. Own
  BY OwnBegins DEF Init
<1> QED BY <1>14, <1>1, <1>2, <1>3, <1>4, <1>5, <1>6, <1>7, <1>8, <1>9, <1>10, <1>11, <1>12,
    <1>13 DEF ExtensionsInv

(* A step of the extension at work is one of its own, and leaves the       *)
(* others out.                                                             *)
LEMMA ExtensionsWork == ASSUME ExtensionsInv, Step, UNCHANGED <<ext, round>> PROVE ExtensionsInv'
<1>1. ext' \in Exts /\ round' \in 1..Rounds
  BY DEF ExtensionsInv
<1>2. ASSUME ext = "octave" PROVE OctaveInv'
  <2>1. OctaveInv /\ Octave!Next
    BY <1>2 DEF ExtensionsInv, Step
  <2> QED BY <2>1, OctaveStep
<1>3. ASSUME ext = "fealpy" PROVE FealpyInv'
  <2>1. FealpyInv /\ Fealpy!Next
    BY <1>3 DEF ExtensionsInv, Step
  <2> QED BY <2>1, FealpyStep
<1>4. ASSUME ext = "jedi" PROVE JediInv'
  <2>1. JediInv /\ Jedi!Next
    BY <1>4 DEF ExtensionsInv, Step
  <2> QED BY <2>1, JediStep
<1>5. ASSUME ext = "qcompute" PROVE QcomputeInv'
  <2>1. QcomputeInv /\ Qcompute!Next
    BY <1>5 DEF ExtensionsInv, Step
  <2> QED BY <2>1, QcomputeStep
<1>6. ASSUME ext = "deepmd" PROVE DeepmdInv'
  <2>1. DeepmdInv /\ Deepmd!Next
    BY <1>6 DEF ExtensionsInv, Step
  <2> QED BY <2>1, DeepmdStep
<1>7. ASSUME ext = "nektar" PROVE NektarInv'
  <2>1. NektarInv /\ Nektar!Next
    BY <1>7 DEF ExtensionsInv, Step
  <2> QED BY <2>1, NektarStep
<1>8. ASSUME ext = "boutpp" PROVE BoutppInv'
  <2>1. BoutppInv /\ Boutpp!Next
    BY <1>8 DEF ExtensionsInv, Step
  <2> QED BY <2>1, BoutppStep
<1>9. ASSUME ext = "abacus" PROVE AbacusInv'
  <2>1. AbacusInv /\ Abacus!Next
    BY <1>9 DEF ExtensionsInv, Step
  <2> QED BY <2>1, AbacusStep
<1>10. ASSUME ext = "lean" PROVE LeanInv'
  <2>1. LeanInv /\ Lean!Next
    BY <1>10 DEF ExtensionsInv, Step
  <2> QED BY <2>1, LeanStep
<1>11. ASSUME ext = "pycfd" PROVE PycfdInv'
  <2>1. PycfdInv /\ Pycfd!Next
    BY <1>11 DEF ExtensionsInv, Step
  <2> QED BY <2>1, PycfdStep
<1>12. ASSUME ext = "moose" PROVE MooseInv'
  <2>1. MooseInv /\ Moose!Next
    BY <1>12 DEF ExtensionsInv, Step
  <2> QED BY <2>1, MooseStep
<1>13. ASSUME ext = "ai4pde" PROVE Ai4pdeInv'
  <2>1. Ai4pdeInv /\ Ai4pde!Next
    BY <1>13 DEF ExtensionsInv, Step
  <2> QED BY <2>1, Ai4pdeStep
<1>14. ASSUME ext \in Keeping, round = 1 PROVE Own'
  <2>1. Own
    BY <1>14 DEF ExtensionsInv
  <2>2. CASE ext = "octave"
    BY <2>1, <2>2, OctaveOwn DEF ExtensionsInv, Step
  <2>3. CASE ext = "jedi"
    BY <2>1, <2>3, JediOwn DEF ExtensionsInv, Step
  <2>4. CASE ext = "nektar"
    BY <2>1, <2>4, NektarOwn DEF ExtensionsInv, Step
  <2>5. CASE ext = "abacus"
    BY <2>1, <2>5, AbacusOwn DEF ExtensionsInv, Step
  <2>6. CASE ext = "moose"
    BY <2>1, <2>6, MooseOwn DEF ExtensionsInv, Step
  <2> QED BY <1>14, <2>2, <2>3, <2>4, <2>5, <2>6 DEF Keeping
<1> QED BY <1>14, <1>1, <1>2, <1>3, <1>4, <1>5, <1>6, <1>7, <1>8, <1>9, <1>10, <1>11, <1>12,
    <1>13 DEF ExtensionsInv

(* So is the task that is run again, within the bound on the rounds.       *)
LEMMA ExtensionsRunAgain == ASSUME ExtensionsInv, Again PROVE ExtensionsInv'
<1>1. ext' \in Exts /\ round' \in 1..Rounds
  BY ExtensionsAssumption DEF ExtensionsInv, Again
<1>2. Restarts /\ ext' = ext
  BY DEF Again, Restarts
<1>3. ASSUME ext = "octave" PROVE OctaveInv'
  BY <1>2, <1>3, OctaveRestarts DEF ExtensionsInv
<1>4. ASSUME ext = "fealpy" PROVE FealpyInv'
  BY <1>2, <1>4, FealpyRestarts DEF ExtensionsInv
<1>5. ASSUME ext = "jedi" PROVE JediInv'
  BY <1>2, <1>5, JediRestarts DEF ExtensionsInv
<1>6. ASSUME ext = "qcompute" PROVE QcomputeInv'
  BY <1>2, <1>6, QcomputeRestarts DEF ExtensionsInv
<1>7. ASSUME ext = "deepmd" PROVE DeepmdInv'
  BY <1>2, <1>7, DeepmdRestarts DEF ExtensionsInv
<1>8. ASSUME ext = "nektar" PROVE NektarInv'
  BY <1>2, <1>8, NektarRestarts DEF ExtensionsInv
<1>9. ASSUME ext = "boutpp" PROVE BoutppInv'
  BY <1>2, <1>9, BoutppRestarts DEF ExtensionsInv
<1>10. ASSUME ext = "abacus" PROVE AbacusInv'
  BY <1>2, <1>10, AbacusRestarts DEF ExtensionsInv
<1>11. ASSUME ext = "lean" PROVE LeanInv'
  BY <1>2, <1>11, LeanRestarts DEF ExtensionsInv
<1>12. ASSUME ext = "pycfd" PROVE PycfdInv'
  BY <1>2, <1>12, PycfdRestarts DEF ExtensionsInv
<1>13. ASSUME ext = "moose" PROVE MooseInv'
  BY <1>2, <1>13, MooseRestarts DEF ExtensionsInv
<1>14. ASSUME ext = "ai4pde" PROVE Ai4pdeInv'
  BY <1>2, <1>14, Ai4pdeRestarts DEF ExtensionsInv
<1>15. round' # 1
  BY ExtensionsAssumption DEF ExtensionsInv, Again, ExtensionsAssumption
<1> QED BY <1>15, <1>1, <1>2, <1>3, <1>4, <1>5, <1>6, <1>7, <1>8, <1>9, <1>10, <1>11, <1>12,
    <1>13, <1>14 DEF ExtensionsInv

LEMMA ExtensionsStay == ASSUME ExtensionsInv, UNCHANGED allVars PROVE ExtensionsInv'
<1>1. ext' = ext /\ round' = round /\ UNCHANGED vars
  BY DEF allVars
<1>2. ASSUME ext = "octave" PROVE OctaveInv'
  BY <1>1, <1>2, OctaveStays DEF ExtensionsInv
<1>3. ASSUME ext = "fealpy" PROVE FealpyInv'
  BY <1>1, <1>3, FealpyStays DEF ExtensionsInv
<1>4. ASSUME ext = "jedi" PROVE JediInv'
  BY <1>1, <1>4, JediStays DEF ExtensionsInv
<1>5. ASSUME ext = "qcompute" PROVE QcomputeInv'
  BY <1>1, <1>5, QcomputeStays DEF ExtensionsInv
<1>6. ASSUME ext = "deepmd" PROVE DeepmdInv'
  BY <1>1, <1>6, DeepmdStays DEF ExtensionsInv
<1>7. ASSUME ext = "nektar" PROVE NektarInv'
  BY <1>1, <1>7, NektarStays DEF ExtensionsInv
<1>8. ASSUME ext = "boutpp" PROVE BoutppInv'
  BY <1>1, <1>8, BoutppStays DEF ExtensionsInv
<1>9. ASSUME ext = "abacus" PROVE AbacusInv'
  BY <1>1, <1>9, AbacusStays DEF ExtensionsInv
<1>10. ASSUME ext = "lean" PROVE LeanInv'
  BY <1>1, <1>10, LeanStays DEF ExtensionsInv
<1>11. ASSUME ext = "pycfd" PROVE PycfdInv'
  BY <1>1, <1>11, PycfdStays DEF ExtensionsInv
<1>12. ASSUME ext = "moose" PROVE MooseInv'
  BY <1>1, <1>12, MooseStays DEF ExtensionsInv
<1>13. ASSUME ext = "ai4pde" PROVE Ai4pdeInv'
  BY <1>1, <1>13, Ai4pdeStays DEF ExtensionsInv
<1>14. ASSUME ext \in Keeping, round = 1 PROVE Own'
  BY <1>1, <1>14, OwnStays DEF ExtensionsInv
<1> QED BY <1>14, <1>1, <1>2, <1>3, <1>4, <1>5, <1>6, <1>7, <1>8, <1>9, <1>10, <1>11, <1>12,
    <1>13 DEF ExtensionsInv

(* At every moment of any number of runs, in whatever run directory the    *)
(* last one has left, the extension at work has produced what its stage    *)
(* calls for.                                                              *)
THEOREM ExtensionsSafe == Spec => []ExtensionsInv
<1>1. Init => ExtensionsInv
  BY ExtensionsBegin
<1>2. ASSUME ExtensionsInv, [Next]_allVars PROVE ExtensionsInv'
  BY <1>2, ExtensionsWork, ExtensionsRunAgain, ExtensionsStay DEF Next, Finished
<1> QED BY <1>1, <1>2, PTL DEF Spec

(* Whatever the extension, and however often its task is run, each report, *)
(* plan and artifact is one that its contracts allow.                      *)
THEOREM ExtensionsTypes == Spec => []TypeOK
<1>1. ASSUME ExtensionsInv PROVE TypeOK
  <2>1. ext \in Exts /\ round \in 1..Rounds
    BY <1>1 DEF ExtensionsInv
  <2>2. ASSUME ext = "octave" PROVE Octave!Typed
    BY <1>1, <2>2, OctaveHolds DEF ExtensionsInv
  <2>3. ASSUME ext = "fealpy" PROVE Fealpy!Typed
    BY <1>1, <2>3, FealpyHolds DEF ExtensionsInv
  <2>4. ASSUME ext = "jedi" PROVE Jedi!Typed
    BY <1>1, <2>4, JediHolds DEF ExtensionsInv
  <2>5. ASSUME ext = "qcompute" PROVE Qcompute!Typed
    BY <1>1, <2>5, QcomputeHolds DEF ExtensionsInv
  <2>6. ASSUME ext = "deepmd" PROVE Deepmd!Typed
    BY <1>1, <2>6, DeepmdHolds DEF ExtensionsInv
  <2>7. ASSUME ext = "nektar" PROVE Nektar!Typed
    BY <1>1, <2>7, NektarHolds DEF ExtensionsInv
  <2>8. ASSUME ext = "boutpp" PROVE Boutpp!Typed
    BY <1>1, <2>8, BoutppHolds DEF ExtensionsInv
  <2>9. ASSUME ext = "abacus" PROVE Abacus!Typed
    BY <1>1, <2>9, AbacusHolds DEF ExtensionsInv
  <2>10. ASSUME ext = "lean" PROVE Lean!Typed
    BY <1>1, <2>10, LeanHolds DEF ExtensionsInv
  <2>11. ASSUME ext = "pycfd" PROVE Pycfd!Typed
    BY <1>1, <2>11, PycfdHolds DEF ExtensionsInv
  <2>12. ASSUME ext = "moose" PROVE Moose!Typed
    BY <1>1, <2>12, MooseHolds DEF ExtensionsInv
  <2>13. ASSUME ext = "ai4pde" PROVE Ai4pde!Typed
    BY <1>1, <2>13, Ai4pdeHolds DEF ExtensionsInv
  <2> QED BY <2>1, <2>2, <2>3, <2>4, <2>5, <2>6, <2>7, <2>8, <2>9, <2>10, <2>11, <2>12,
      <2>13 DEF TypeOK
<1> QED BY <1>1, ExtensionsSafe, PTL

(* A candidate is promoted only if its own run ended well in an            *)
(* environment that had what it needed, with values its domain accepts     *)
(* (Earned), whatever was missing, failed or could not be read.  In a      *)
(* first run all its outputs are its own too; in a later one those of the  *)
(* extensions that never clear their directory may be a former run's.      *)
THEOREM PromotionsAreEarned == Spec => []PromotionIsEarned
<1>1. ASSUME ExtensionsInv PROVE PromotionIsEarned
  <2> SUFFICES ASSUME Accepted PROVE Earned /\ FirstRunIsOwn
    BY DEF PromotionIsEarned
  <2>1. ASSUME ext = "octave" PROVE Octave!Earned
    BY <1>1, <2>1, OctaveHolds DEF ExtensionsInv
  <2>2. ASSUME ext = "fealpy" PROVE Fealpy!Earned
    BY <1>1, <2>2, FealpyHolds DEF ExtensionsInv
  <2>3. ASSUME ext = "jedi" PROVE Jedi!Earned
    BY <1>1, <2>3, JediHolds DEF ExtensionsInv
  <2>4. ASSUME ext = "qcompute" PROVE Qcompute!Earned
    BY <1>1, <2>4, QcomputeHolds DEF ExtensionsInv
  <2>5. ASSUME ext = "deepmd" PROVE Deepmd!Earned
    BY <1>1, <2>5, DeepmdHolds DEF ExtensionsInv
  <2>6. ASSUME ext = "nektar" PROVE Nektar!Earned
    BY <1>1, <2>6, NektarHolds DEF ExtensionsInv
  <2>7. ASSUME ext = "boutpp" PROVE Boutpp!Earned
    BY <1>1, <2>7, BoutppHolds DEF ExtensionsInv
  <2>8. ASSUME ext = "abacus" PROVE Abacus!Earned
    BY <1>1, <2>8, AbacusHolds DEF ExtensionsInv
  <2>9. ASSUME ext = "lean" PROVE Lean!Earned
    BY <1>1, <2>9, LeanHolds DEF ExtensionsInv
  <2>10. ASSUME ext = "pycfd" PROVE Pycfd!Earned
    BY <1>1, <2>10, PycfdHolds DEF ExtensionsInv
  <2>11. ASSUME ext = "moose" PROVE Moose!Earned
    BY <1>1, <2>11, MooseHolds DEF ExtensionsInv
  <2>12. ASSUME ext = "ai4pde" PROVE Ai4pde!Earned
    BY <1>1, <2>12, Ai4pdeHolds DEF ExtensionsInv
  <2>13. FirstRunIsOwn
    BY <1>1 DEF ExtensionsInv, FirstRunIsOwn, Own
  <2> QED BY <2>13, <2>1, <2>2, <2>3, <2>4, <2>5, <2>6, <2>7, <2>8, <2>9, <2>10, <2>11, <2>12
      DEF Earned
<1> QED BY <1>1, ExtensionsSafe, PTL

(* The status of a validation report blames the environment, the run or    *)
(* the outputs only for what was really missing or wrong with them, in     *)
(* every extension and every run; the exceptions, among them a job without *)
(* a result and Octave's unreadable package list, are named in each        *)
(* extension's CauseNamed.                                                 *)
THEOREM CausesAreNamed == Spec => []CauseNamed
<1>1. ASSUME ExtensionsInv PROVE CauseNamed
  <2> SUFFICES ASSUME Made(report) PROVE CauseNamed
    BY DEF CauseNamed
  <2>1. ASSUME ext = "octave" PROVE Octave!CauseNamed
    BY <1>1, <2>1, OctaveHolds DEF ExtensionsInv
  <2>2. ASSUME ext = "fealpy" PROVE Fealpy!CauseNamed
    BY <1>1, <2>2, FealpyHolds DEF ExtensionsInv
  <2>3. ASSUME ext = "jedi" PROVE Jedi!CauseNamed
    BY <1>1, <2>3, JediHolds DEF ExtensionsInv
  <2>4. ASSUME ext = "qcompute" PROVE Qcompute!CauseNamed
    BY <1>1, <2>4, QcomputeHolds DEF ExtensionsInv
  <2>5. ASSUME ext = "deepmd" PROVE Deepmd!CauseNamed
    BY <1>1, <2>5, DeepmdHolds DEF ExtensionsInv
  <2>6. ASSUME ext = "nektar" PROVE Nektar!CauseNamed
    BY <1>1, <2>6, NektarHolds DEF ExtensionsInv
  <2>7. ASSUME ext = "boutpp" PROVE Boutpp!CauseNamed
    BY <1>1, <2>7, BoutppHolds DEF ExtensionsInv
  <2>8. ASSUME ext = "abacus" PROVE Abacus!CauseNamed
    BY <1>1, <2>8, AbacusHolds DEF ExtensionsInv
  <2>9. ASSUME ext = "lean" PROVE Lean!CauseNamed
    BY <1>1, <2>9, LeanHolds DEF ExtensionsInv
  <2>10. ASSUME ext = "pycfd" PROVE Pycfd!CauseNamed
    BY <1>1, <2>10, PycfdHolds DEF ExtensionsInv
  <2>11. ASSUME ext = "moose" PROVE Moose!CauseNamed
    BY <1>1, <2>11, MooseHolds DEF ExtensionsInv
  <2>12. ASSUME ext = "ai4pde" PROVE Ai4pde!CauseNamed
    BY <1>1, <2>12, Ai4pdeHolds DEF ExtensionsInv
  <2> QED BY <2>1, <2>2, <2>3, <2>4, <2>5, <2>6, <2>7, <2>8, <2>9, <2>10, <2>11, <2>12
      DEF CauseNamed
<1> QED BY <1>1, ExtensionsSafe, PTL
==============================================================================
