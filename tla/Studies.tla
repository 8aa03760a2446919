------------------------------- MODULE Studies -------------------------------
(***************************************************************************)
(* The parameter studies of the extensions: a study generates the          *)
(* snapshots of its axes, runs one trial of the extension's pipeline for   *)
(* each (compile, execute, validate, judge), and recommends one of them.   *)
(* They differ in what ends a study early, in what an exception of a trial *)
(* does to the others, and in what counts as a trial that passed.          *)
(*                                                                         *)
(* A trial's pipeline is one of the modules of the extensions; here it has *)
(* an outcome.  Only QCompute runs trials at the same time.                *)
(***************************************************************************)
EXTENDS StudyGrids

CONSTANTS Kinds,      \* the extensions whose studies are checked
          Tolerance,  \* Nektar's target_tolerance
          Drop, Flat, \* 1 / relative_drop_ratio and 1 / plateau_tolerance
          MaxProposals \* what the optimizer may propose at a time

Extensions == {"octave", "fealpy", "jedi", "deepmd", "boutpp", "pycfd", "moose", "nektar",
               "qcompute"}

ASSUME StudiesAssumption ==
  /\ Kinds \subseteq Extensions /\ Tolerance \in Nat
  /\ Drop \in Nat \ {0} /\ Flat \in Nat \ {0}
  /\ MaxProposals \in Int

VARIABLES study,     \* the specification
          stage,     \* generate, trials, report, handoff, done, raised, endless
          queue,     \* the snapshots to try
          trials,    \* the trials begun, in the order of the queue
          best,      \* the recommended trial, 0 for none
          converged, \* Nektar: the rule says so
          front,     \* QCompute: the Pareto front
          reason,    \* JEDI: why the recommended trial was recommended
          handed,    \* DeePMD: the trials whose candidate the core has
          proposals  \* Octave, FEALPy: what the optimizer proposed next

vars == <<study, stage, queue, trials, best, converged, front, reason, handed, proposals>>

Goto(s) == stage' = s
Trials == 1..Len(trials)
Running == {i \in Trials : trials[i].status = "running"}
CutTo(limit, grid) ==
  IF limit = None \/ Only(limit) >= Len(grid) THEN grid ELSE SubSeq(grid, 1, Only(limit))

------------------------------------------------------------------------------
(* The specifications: what a contract lets a study ask for, over axes of  *)
(* a few values.  Fields a kind does not have keep their default.          *)
Blank == [kind |-> "", axes |-> <<>>, limit |-> None, goal |-> "minimize",
          strategy |-> "grid", workers |-> 1, template |-> "simulator", platform |-> 0,
          rule |-> "none", early |-> FALSE, minPoints |-> 0, tolerance |-> None,
          handoff |-> "none", runtime |-> FALSE]
StudyOf(kind, axes, limit, goal) ==
  [Blank EXCEPT !.kind = kind, !.axes = axes, !.limit = limit, !.goal = goal]

Goals == {"minimize", "maximize"}
Listed == Axis(Some(<<1, 0>>), None, None)
Three == Axis(Some(<<0, 2, 1>>), None, None)
Single == Axis(Some(<<1>>), None, None)
Stepped == Axis(None, Some(<<0, 2 * One>>), Some(2 * One))
Drifting == [Axis(None, Some(<<1, 3>>), Some(2)) EXCEPT !.drift = {2}]
Whole == Axis(None, Some(<<0, One>>), None)
Stuck == Axis(None, Some(<<0, 2 * One>>), Some(0))
Backwards == Axis(None, Some(<<0, 2 * One>>), Some(-1))
Vacant == Axis(None, None, None)
Free == {<<>>, <<Listed>>, <<Listed, Single>>, <<Stepped>>, <<Whole>>, <<Stuck>>,
         <<Backwards>>, <<Vacant>>, <<Listed, Vacant>>}

(* Octave's contract: values or a range, and a positive step.              *)
OctaveStudySpec ==
  {StudyOf("octave", axes, limit, goal) :
     axes \in {<<Three>>, <<Listed, Single>>, <<Axis(Some(<<>>), Some(<<0, 1>>), Some(1))>>},
     limit \in {None, Some(1)}, goal \in Goals}
FealpyStudySpec ==
  {StudyOf("fealpy", axes, limit, "minimize") :
     axes \in Free \cup {<<Three>>, <<Drifting>>}, limit \in {None, Some(1)}}
BoutppStudySpec ==
  {StudyOf("boutpp", axes, limit, "minimize") :
     axes \in Free, limit \in {None, Some(0), Some(1)}}
PycfdStudySpec ==
  {StudyOf("pycfd", axes, limit, "minimize") :
     axes \in Free, limit \in {None, Some(0), Some(1)}}
MooseStudySpec ==
  {StudyOf("moose", axes, limit, "maximize") :
     axes \in Free, limit \in {None, Some(0), Some(1)}}
JediStudySpec ==
  {StudyOf("jedi", <<axis>>, None, goal) : axis \in {Three, Listed}, goal \in Goals}
DeepMDStudySpec ==
  {[StudyOf("deepmd", <<Three>>, None, goal) EXCEPT !.handoff = handoff, !.runtime = runtime] :
     goal \in Goals, handoff \in {"none", "all", "recommended"}, runtime \in BOOLEAN}
ConvergenceStudySpec ==
  {[StudyOf("nektar", <<axis>>, None, "minimize") EXCEPT
      !.rule = rule, !.early = early, !.tolerance = tolerance, !.minPoints = 2] :
     axis \in {Three, Single}, rule \in {"absolute", "relative_drop", "plateau"},
     early \in BOOLEAN, tolerance \in {None, Some(Tolerance)}}
(* A value of the axis of the platform is 0 for a simulator.               *)
QComputeStudySpec ==
  {[StudyOf("qcompute", <<Listed>>, Some(2), goal) EXCEPT
      !.strategy = strategy, !.workers = workers, !.template = template, !.platform = platform] :
     goal \in Goals, strategy \in {"grid", "random", "bayesian"}, workers \in 1..2,
     template \in {"simulator", "hardware"}, platform \in 0..1} \cup
  {[StudyOf("qcompute", <<Three>>, Some(limit), "maximize") EXCEPT
      !.strategy = strategy, !.workers = 2, !.platform = 1] :
     limit \in 2..3, strategy \in {"grid", "bayesian"}} \cup
  {[StudyOf("qcompute", <<Single>>, Some(4), "maximize") EXCEPT !.strategy = "agentic"]} \cup
  {StudyOf("qcompute", axes, Some(2), "maximize") : axes \in {<<>>, <<Backwards>>, <<Whole>>}}

StudiesOf(kind) ==
  CASE kind = "octave" -> OctaveStudySpec
    [] kind = "fealpy" -> FealpyStudySpec
    [] kind = "jedi" -> JediStudySpec
    [] kind = "deepmd" -> DeepMDStudySpec
    [] kind = "boutpp" -> BoutppStudySpec
    [] kind = "pycfd" -> PycfdStudySpec
    [] kind = "moose" -> MooseStudySpec
    [] kind = "nektar" -> ConvergenceStudySpec
    [] kind = "qcompute" -> QComputeStudySpec

Init ==
  /\ \E kind \in Kinds : study \in StudiesOf(kind)
  /\ stage = "generate"
  /\ queue = <<>> /\ trials = <<>> /\ best = 0 /\ converged = FALSE
  /\ front = {} /\ reason = "none" /\ handed = {} /\ proposals = <<>>

------------------------------------------------------------------------------
(* Generating the snapshots.                                               *)
Begin(grid, cut) ==
  /\ stage = "generate"
  /\ CASE grid.end = "grid" -> Goto("trials") /\ queue' = cut
       [] grid.end = "raises" -> Goto("raised") /\ UNCHANGED queue
       [] grid.end = "never" -> Goto("endless") /\ UNCHANGED queue
  /\ UNCHANGED <<study, trials, best, converged, front, reason, handed, proposals>>

OctaveSnapshots ==
  /\ study.kind = "octave"
  /\ LET grid == OctaveGrid(study.axes)
     IN Begin(grid, CutTo(study.limit, grid.snapshots))
FealpySnapshots ==
  /\ study.kind = "fealpy"
  /\ LET grid == FealpyGrid(study.axes)
     IN Begin(grid, CutTo(study.limit, grid.snapshots))
(* These three count their trials instead of cutting the grid.             *)
BoutppSnapshots ==
  study.kind = "boutpp" /\ LET grid == BoutppGrid(study.axes) IN Begin(grid, grid.snapshots)
PycfdSnapshots ==
  study.kind = "pycfd" /\ LET grid == PycfdGrid(study.axes) IN Begin(grid, grid.snapshots)
MooseSnapshots ==
  study.kind = "moose" /\ LET grid == MooseGrid(study.axes) IN Begin(grid, grid.snapshots)

Values == [i \in 1..Len(Only(study.axes[1].values)) |-> <<Only(study.axes[1].values)[i]>>]
JediValues == study.kind = "jedi" /\ Begin(Grid(Values), Values)
DeepMDValues == study.kind = "deepmd" /\ Begin(Grid(Values), Values)
(* Nektar refuses a study that has too few points for its rule, or no      *)
(* tolerance for the absolute one, before the first trial.                 *)
NektarValues ==
  /\ study.kind = "nektar"
  /\ IF Len(Values) < study.minPoints \/ (study.rule = "absolute" /\ study.tolerance = None)
     THEN Begin(GridRaises, <<>>)
     ELSE Begin(Grid(Values), Values)

OnHardware(snapshot) ==
  IF study.platform = 0 THEN study.template = "hardware" ELSE snapshot[study.platform] # 0

(* A wrong form of ScheduleTrials: the grid stays as it is.                *)
ScheduleTrials_AsGiven(grid) == grid

(* Simulators first, and each group in its own order.                      *)
ScheduleTrials(grid) ==
  IF study.template = "simulator" /\ study.platform = 0 THEN grid
  ELSE LET hardware == {s \in ToSet(grid) : OnHardware(s)}
       IN Within(grid, ToSet(grid) \ hardware) \o Within(grid, hardware)

GenerateGrid ==
  LET n == Only(study.limit)
      cartesian == QcomputeGrid(study.axes)
  IN CASE study.strategy = "grid" -> {cartesian}
       [] study.strategy = "random" -> {Grid(g) : g \in RandomGrids(study.axes, n)}
       [] study.strategy = "bayesian" ->
            {IF cartesian.end = "grid"
             THEN Grid(BayesianSelection(cartesian.snapshots, n)) ELSE cartesian}
       [] study.strategy = "agentic" -> {Grid(g) : g \in AgenticGrids(study.axes, n)}
QcomputeSnapshots ==
  /\ study.kind = "qcompute"
  /\ \E grid \in GenerateGrid :
       Begin(grid, CutTo(study.limit, ScheduleTrials(grid.snapshots)))

------------------------------------------------------------------------------
(* Trials.  An outcome is what the extension's pipeline makes of a         *)
(* snapshot; a pipeline may also raise.                                    *)
Metrics == {None} \cup {Some(m) : m \in 0..2}
Verdicts == {<<TRUE, "allow">>, <<TRUE, "defer">>, <<TRUE, "reject">>, <<FALSE, "reject">>}
Plain == {<<TRUE, "allow">>, <<FALSE, "reject">>}
Outcomes(verdicts, statuses) ==
  {[valid |-> v[1], decision |-> v[2], metric |-> m, depth |-> None, status |-> s] :
     v \in verdicts, m \in Metrics, s \in statuses}
QcomputeOutcomes ==
  {[valid |-> TRUE, decision |-> "allow", metric |-> Some(m), depth |-> Some(d),
    status |-> "completed"] : m, d \in 1..2} \cup
  {[valid |-> valid, decision |-> "allow", metric |-> None, depth |-> None,
    status |-> "completed"] : valid \in BOOLEAN}
(* A Nektar run that failed, or was stopped in time, does not pass, but    *)
(* the norms its log came to are read.                                     *)
NektarOutcomes ==
  {o \in Outcomes(Plain, {"completed", "failed"}) : o.status = "failed" => ~o.valid}

Ran(snapshot, o) == Trial(snapshot, o.status, o.valid, o.decision, o.metric, o.depth)
Broken(snapshot) == Trial(snapshot, "failed", FALSE, "reject", None, None)
RestOfStudy == UNCHANGED <<study, queue, best, converged, front, reason, handed, proposals>>

MoreToTry == stage = "trials" /\ Len(trials) < Len(queue)
Upcoming == queue[Len(trials) + 1]

(* A loop that lets an exception of a trial go to the study's caller: the  *)
(* trials that were run are lost with it.                                  *)
Uncaught(outcomes) ==
  /\ MoreToTry
  /\ \/ \E o \in outcomes : trials' = Append(trials, Ran(Upcoming, o)) /\ UNCHANGED stage
     \/ Goto("raised") /\ UNCHANGED trials
  /\ RestOfStudy

(* A wrong form of Caught: the exception leaves the loop.                  *)
Caught_Raises(outcomes) == Uncaught(outcomes)

(* A loop that makes a failed trial of it and goes on.                     *)
Caught(outcomes) ==
  /\ MoreToTry
  /\ trials' \in {Append(trials, Ran(Upcoming, o)) : o \in outcomes} \cup
                 {Append(trials, Broken(Upcoming))}
  /\ UNCHANGED stage
  /\ RestOfStudy

OctaveTrial == study.kind = "octave" /\ Uncaught(Outcomes(Verdicts, {"completed"}))
FealpyTrial == study.kind = "fealpy" /\ Uncaught(Outcomes(Verdicts, {"completed"}))
DeepMDTrial == study.kind = "deepmd" /\ Uncaught(Outcomes(Plain, {"completed"}))
JediTrial == study.kind = "jedi" /\ Caught(Outcomes(Verdicts, {"completed"}))

(* max_trials: a limit of 0 is no limit.                                   *)
Enough == study.limit \notin {None, Some(0)} /\ Len(trials) >= Only(study.limit)
BoutppTrial == study.kind = "boutpp" /\ ~Enough /\ Caught(Outcomes(Plain, {"completed"}))
PycfdTrial == study.kind = "pycfd" /\ ~Enough /\ Caught(Outcomes(Plain, {"completed"}))
MooseTrial == study.kind = "moose" /\ ~Enough /\ Caught(Outcomes(Plain, {"completed"}))

Evaluate(done) ==
  CASE study.rule = "absolute" -> AbsoluteRule(done, Only(study.tolerance))
    [] study.rule = "relative_drop" -> RelativeDropRule(done, Drop)
    [] study.rule = "plateau" -> PlateauRule(done, Flat)
(* A wrong form of ShouldStop: the last trial passed, whatever the rule.   *)
ShouldStop_OnPass == study.early /\ trials # <<>> /\ trials[Len(trials)].valid

ShouldStop == study.early /\ trials # <<>> /\ Evaluate(trials).converged
NektarTrial == study.kind = "nektar" /\ ~ShouldStop /\ Caught(NektarOutcomes)

(* QCompute's pool: a free worker takes the next snapshot.  The study      *)
(* takes the results in the order of the grid; when it comes to one that   *)
(* raised it cancels the snapshots that still wait, and leaving the with   *)
(* block waits for the workers.  A single worker is no pool: the exception *)
(* is the study's.                                                         *)
Workers == IF study.workers < Len(queue) THEN study.workers ELSE Len(queue)
RaisedAt ==
  {i \in Trials : /\ trials[i].status = "raised"
                  /\ \A j \in 1..i - 1 : trials[j].status = "completed"}

StartTrial ==
  /\ study.kind = "qcompute" /\ MoreToTry
  /\ Cardinality(Running) < Workers
  /\ Workers = 1 => RaisedAt = {}
  /\ trials' = Append(trials, Trial(Upcoming, "running", FALSE, "none", None, None))
  /\ UNCHANGED stage /\ RestOfStudy

FinishTrial(i) ==
  /\ study.kind = "qcompute" /\ i \in Running
  /\ \/ \E o \in QcomputeOutcomes : trials' = [trials EXCEPT ![i] = Ran(@.snapshot, o)]
     \/ trials' = [trials EXCEPT ![i].status = "raised"]
  /\ UNCHANGED stage /\ RestOfStudy

CancelWaiting ==
  /\ study.kind = "qcompute" /\ stage = "trials" /\ RaisedAt # {}
  /\ Goto("leaving")
  /\ UNCHANGED trials /\ RestOfStudy

(* A wrong form of RaiseStudy: nobody waits for the workers.               *)
RaiseStudy_AtOnce ==
  /\ stage = "leaving"
  /\ Goto("raised")
  /\ UNCHANGED trials /\ RestOfStudy

RaiseStudy ==
  /\ stage = "leaving" /\ Running = {}
  /\ Goto("raised")
  /\ UNCHANGED trials /\ RestOfStudy

------------------------------------------------------------------------------
(* What counts as a trial that passed: the extensions do not agree on the  *)
(* part of the policy.                                                     *)
OctavePassed(t) == t.valid /\ t.decision = "allow"
FealpyPassed(t) == t.valid /\ t.decision # "reject"
JediPassed(t) == t.valid /\ t.decision = "allow"
(* A wrong form of PassedTrial: whatever has a metric passed.              *)
PassedTrial_Any(t) == TRUE

PassedTrial(t) ==
  CASE study.kind = "octave" -> OctavePassed(t)
    [] study.kind = "fealpy" -> FealpyPassed(t)
    [] study.kind = "jedi" -> JediPassed(t)
    [] OTHER -> t.valid

AllTried(kind) ==
  study.kind = kind /\ stage = "trials" /\ Len(trials) = Len(queue) /\ Running = {}

Recommended == BestOf(trials, study.goal, {i \in Trials : PassedTrial(trials[i])})
Report(after) ==
  /\ best' = Recommended
  /\ Goto(after)
  /\ UNCHANGED <<study, queue, trials, converged, handed, proposals>>

OctaveReport == AllTried("octave") /\ Report("done") /\ UNCHANGED <<front, reason>>

(* FEALPy divides each score by the one before: a score of 0 that is not   *)
(* the last one costs the whole study its report.                          *)
Scores == Within(trials, {t \in ToSet(trials) : PassedTrial(t) /\ Given(t.metric)})
FealpyReport ==
  /\ AllTried("fealpy")
  /\ IF \E i \in 1..Len(Scores) - 1 : Scores[i].metric = Some(0)
     THEN Goto("raised") /\ UNCHANGED best
     ELSE best' = Recommended /\ Goto("done")
  /\ UNCHANGED <<study, queue, trials, converged, front, reason, handed, proposals>>

BoutppReport ==
  /\ study.kind = "boutpp" /\ stage = "trials" /\ (Enough \/ Len(trials) = Len(queue))
  /\ Report("done") /\ UNCHANGED <<front, reason>>
PycfdReport ==
  /\ study.kind = "pycfd" /\ stage = "trials" /\ (Enough \/ Len(trials) = Len(queue))
  /\ Report("done") /\ UNCHANGED <<front, reason>>
MooseReport ==
  /\ study.kind = "moose" /\ stage = "trials" /\ (Enough \/ Len(trials) = Len(queue))
  /\ Report("done") /\ UNCHANGED <<front, reason>>

(* JEDI says why: whether the policy kept a better trial from being it.    *)
JediReason ==
  LET scored == {i \in Trials : Given(trials[i].metric)}
      policyBlocked == {i \in scored : trials[i].valid /\ trials[i].decision # "allow"}
      notPassed == {i \in scored : ~PassedTrial(trials[i])}
  IN IF Recommended = 0
     THEN IF scored # {} /\ policyBlocked = scored THEN "all were blocked" ELSE "none passed"
     ELSE IF \E i \in notPassed : Better(Only(trials[i].metric),
                                         Only(trials[Recommended].metric), study.goal)
     THEN "a better one was blocked" ELSE "it is the best"
JediReport ==
  AllTried("jedi") /\ Report("done") /\ reason' = JediReason /\ UNCHANGED front

QcomputeReport ==
  /\ AllTried("qcompute") /\ \A i \in Trials : trials[i].status = "completed"
  /\ Report("done") /\ front' = ParetoFront(trials) /\ UNCHANGED reason

NektarReport ==
  /\ study.kind = "nektar" /\ stage = "trials"
  /\ Len(trials) = Len(queue) \/ ShouldStop
  /\ best' = Evaluate(trials).best /\ converged' = Evaluate(trials).converged
  /\ Goto("done")
  /\ UNCHANGED <<study, queue, trials, front, reason, handed, proposals>>

DeepMDReport == AllTried("deepmd") /\ Report("handoff") /\ UNCHANGED <<front, reason>>

(* A wrong form of Due: the recommended candidates are all the valid ones. *)
Due_ValidOnes ==
  IF ~study.runtime \/ study.handoff = "none" THEN {}
  ELSE {i \in Trials : study.handoff = "all" \/ trials[i].valid}

(* After the recommendation, DeePMD hands the candidates the policy asks   *)
(* for to the runtime, one after the other; an ingestion may raise.        *)
Due ==
  IF ~study.runtime THEN {}
  ELSE CASE study.handoff = "none" -> {}
         [] study.handoff = "all" -> Trials
         [] study.handoff = "recommended" -> {best} \ {0}
HandOffTrial ==
  /\ study.kind = "deepmd" /\ stage = "handoff"
  /\ IF Due = handed THEN Goto("done") /\ UNCHANGED handed
     ELSE \/ handed' = handed \cup {Min(Due \ handed)} /\ UNCHANGED stage
          \/ Goto("raised") /\ UNCHANGED handed
  /\ UNCHANGED <<study, queue, trials, best, converged, front, reason, proposals>>

------------------------------------------------------------------------------
(* The optimizer of Octave and FEALPy reads a study's trials and proposes  *)
(* what to try next, out of the candidates of the axes, which it does not  *)
(* round.  A bayesian or an LLM-guided one also listens to a function from *)
(* outside, which may suggest anything.                                    *)
OptimizerAxisValues(axis) ==
  IF axis.values \notin {None, {<<>>}} THEN Only(axis.values)
  ELSE IF axis.range = None THEN <<>>
  ELSE LET r == Only(axis.range)
       IN IF axis.step = None THEN <<(r[1] + r[2]) \div 2>> ELSE Sums(axis, Only(axis.step))
OptimizerNeverEnds ==
  \E i \in 1..Len(study.axes) :
    LET a == study.axes[i]
    IN /\ a.values \in {None, {<<>>}} /\ Given(a.range) /\ Given(a.step)
       /\ EndlessWalk(Only(a.range), Only(a.step))
CandidateSnapshots ==
  Product([i \in 1..Len(study.axes) |-> OptimizerAxisValues(study.axes[i])])

Tried == {trials[i].snapshot : i \in Trials}
Untried(candidates) == Within(candidates, ToSet(candidates) \ (Tried \cup {<<>>}))
Stranger == [i \in 1..Len(study.axes) |-> Unset]

(* Bayesian without a function goes by the candidates, like deterministic; *)
(* LLM-guided without one proposes nothing.                                *)
OrderedCandidates(untried) ==
  LET known == ToSet(untried) \cup Tried \cup {Stranger}
  IN {untried, <<>>} \cup {<<a, b>> \o untried : a, b \in known}

(* A wrong form of SanitizeSnapshot: what was just proposed may come again. *)
SanitizeSnapshot_Again(snapshot, candidates, made) == snapshot \in candidates

(* A snapshot that is no candidate, or was tried or proposed, is skipped.  *)
(* The count is looked at after each proposal and only then, so that even  *)
(* a MaxProposals of 0 lets one be made.                                   *)
SanitizeSnapshot(snapshot, candidates, made) ==
  snapshot \in candidates /\ snapshot \notin made
EnoughProposed(made) == made # <<>> /\ Len(made) >= MaxProposals
Proposals(ordered, candidates) ==
  LET after[k \in 0..Len(ordered)] ==
        IF k = 0 THEN <<>>
        ELSE LET made == after[k - 1]
             IN IF ~EnoughProposed(made)
                   /\ SanitizeSnapshot(ordered[k], candidates, ToSet(made))
                THEN Append(made, ordered[k]) ELSE made
  IN after[Len(ordered)]

Propose ==
  /\ stage = "done" /\ study.kind \in {"octave", "fealpy"}
  /\ IF OptimizerNeverEnds THEN Goto("endless") /\ UNCHANGED proposals
     ELSE LET untried == Untried(CandidateSnapshots)
          IN /\ \E ordered \in OrderedCandidates(untried) :
                  proposals' = Proposals(ordered, ToSet(untried))
             /\ Goto("proposed")
  /\ UNCHANGED <<study, queue, trials, best, converged, front, reason, handed>>

------------------------------------------------------------------------------
Over == stage \in {"done", "proposed", "raised", "endless"}

Generate ==
  \/ OctaveSnapshots \/ FealpySnapshots \/ BoutppSnapshots \/ PycfdSnapshots
  \/ MooseSnapshots \/ JediValues \/ DeepMDValues \/ NektarValues \/ QcomputeSnapshots
RunTrial ==
  \/ OctaveTrial \/ FealpyTrial \/ DeepMDTrial \/ JediTrial
  \/ BoutppTrial \/ PycfdTrial \/ MooseTrial \/ NektarTrial
  \/ StartTrial \/ (\E i \in Trials : FinishTrial(i)) \/ CancelWaiting \/ RaiseStudy
Conclude ==
  \/ OctaveReport \/ FealpyReport \/ BoutppReport \/ PycfdReport \/ MooseReport
  \/ JediReport \/ QcomputeReport \/ NektarReport \/ DeepMDReport \/ HandOffTrial
Finished == Over /\ UNCHANGED vars

Next == Generate \/ RunTrial \/ Conclude \/ Propose \/ Finished

Spec == Init /\ [][Next]_vars

------------------------------------------------------------------------------
Reported == stage \in {"handoff", "done", "proposed"}

(* Of the studies that recommend the best trial: what they recommend has   *)
(* run to its end and was valid, and no trial that passed, by the          *)
(* extension's own reading of the policy, is better.                       *)
RecommendationStands ==
  Reported /\ study.kind # "nektar" =>
    /\ best # 0 => trials[best].status = "completed" /\ trials[best].valid
    /\ \A i \in Trials :
         PassedTrial(trials[i]) /\ Given(trials[i].metric) =>
           best # 0 /\ ~Better(Only(trials[i].metric), Only(trials[best].metric), study.goal)

(* Of the convergence study, whatever norms failed runs have left: what it *)
(* calls converged ran to its end, passed, and has a norm that its rule    *)
(* accepts - within the tolerance, and the first such trial; a drop from   *)
(* an earlier run that completed; the end of a sequence that never rises.  *)
(* Where nothing converged, no run that completed has a smaller norm than  *)
(* the fallback, which need not have passed (a norm of 0 is not looked at). *)
ConvergenceStands ==
  LET Seen == {i \in Trials : Measured(trials[i])}
      Norm(i) == Only(trials[i].metric)
      Meets(i) == trials[i].valid /\ Norm(i) <= Only(study.tolerance)
  IN Reported /\ study.kind = "nektar" =>
       /\ converged =>
            /\ best \in Seen /\ trials[best].valid
            /\ study.rule = "absolute" =>
                 Meets(best) /\ \A i \in Seen : Meets(i) => best <= i
            /\ study.rule = "relative_drop" =>
                 \E i \in Seen : i < best /\ Norm(best) * Drop <= Norm(i)
            /\ study.rule = "plateau" =>
                 \A i, j \in Seen : i < j => Norm(j) <= Norm(i)
       /\ ~converged =>
            /\ study.rule = "absolute" => \A i \in Seen : ~Meets(i)
            /\ \A i \in Seen : best \in Seen /\ Norm(best) <= Norm(i)

(* A convergence study that stops before its last point stops exactly at   *)
(* the trial it recommends: no rule finds its answer behind an earlier     *)
(* trial once the trials go on.                                            *)
EarlyStopIsTheAnswer ==
  study.kind = "nektar" /\ stage = "done" /\ Len(trials) < Len(queue) =>
    converged /\ best = Len(trials)

(* In the studies that catch a trial's exception it costs that trial only: *)
(* every snapshot up to the limit has its trial, in order, and the study   *)
(* reports.                                                                *)
FailureStaysInTrial ==
  study.kind \in {"jedi", "boutpp", "pycfd", "moose"} =>
    /\ stage = "raised" => queue = <<>>
    /\ Reported =>
         /\ Len(trials) = Len(queue) \/ Enough
         /\ \A i \in Trials : trials[i].snapshot = queue[i]

(* The study has its results or its exception only when no worker is at    *)
(* work any more.                                                          *)
NothingLeftRunning == Over => Running = {}

(* No trial on hardware begins while a simulator's snapshot waits, and a   *)
(* limit cuts hardware trials first.                                       *)
SimulatorsFirst ==
  study.kind = "qcompute" =>
    \A i, j \in 1..Len(queue) :
      i <= Len(trials) /\ OnHardware(queue[i]) /\ ~OnHardware(queue[j]) => j <= Len(trials)

(* The Pareto front: no member is dominated, and whatever was left out is. *)
FrontIsPareto ==
  study.kind = "qcompute" /\ Reported =>
    LET Entry(i) == trials[i].valid /\ Given(trials[i].metric) /\ Given(trials[i].depth)
        NotWorse(j, i) == /\ Only(trials[j].metric) >= Only(trials[i].metric)
                          /\ Only(trials[j].depth) <= Only(trials[i].depth)
    IN /\ \A i \in front : Entry(i)
       /\ \A i \in {k \in Trials : Entry(k)} :
            \E j \in front : NotWorse(j, i)
       /\ \A i, j \in front : NotWorse(j, i) => NotWorse(i, j)

(* What a study reports follows from its trials, failed ones included: the *)
(* recommendation, a convergence, the early stop, the order in which the   *)
(* trials were taken and the Pareto front.                                 *)
ReportStands ==
  /\ RecommendationStands /\ ConvergenceStands /\ EarlyStopIsTheAnswer
  /\ SimulatorsFirst /\ FrontIsPareto

(* The core is handed what the policy of the study asks for, never before  *)
(* the last trial has ended and the recommendation stands.                 *)
HandedAsAsked ==
  /\ handed # {} => study.runtime /\ study.handoff # "none" /\ Len(trials) = Len(queue)
  /\ study.handoff = "recommended" => handed \subseteq {best}
  /\ study.kind = "deepmd" /\ stage = "done" /\ study.runtime =>
       /\ study.handoff = "all" => handed = Trials
       /\ study.handoff = "recommended" => handed = {best} \ {0}

(* Whatever is suggested to it, the optimizer proposes snapshots of the    *)
(* axes, none twice and none that a trial was keyed with, and no more than *)
(* it may, or one where it may make none.  Keys are the text of the        *)
(* floats, so that a number off by its last digits is another number.      *)
ProposalsAreFresh ==
  /\ Len(proposals) <= Max({1, MaxProposals})
  /\ \A i \in 1..Len(proposals) :
       /\ proposals[i] \in ToSet(CandidateSnapshots) \ Tried
       /\ \A j \in 1..i - 1 : proposals[j] # proposals[i]

(* What a proposal says of itself: an "untried fealpy study parameter      *)
(* candidate", read of the numbers and not of their last digits.  The code *)
(* does not keep it and no run checks it (section 5 of the README).        *)
ProposesTheUntried ==
  \A i \in 1..Len(proposals) :
    [k \in 1..Len(proposals[i]) |-> Rounded(proposals[i][k])] \notin Tried
==============================================================================
