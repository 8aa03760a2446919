---------------------------- MODULE StudiesProofs ----------------------------
(***************************************************************************)
(* Theorems about the parameter studies of Studies, for every choice of    *)
(* the extensions and of the thresholds.                                   *)
(***************************************************************************)
EXTENDS Studies, Recursion, FiniteSetTheorems

------------------------------------------------------------------------------
(* One more element at the end, and a set that says the same of the others. *)
LEMMA WithinAppend ==
  ASSUME NEW T, NEW s \in Seq(T), NEW t \in Seq(T), NEW S, NEW U,
         Len(t) = Len(s) + 1,
         \A i \in 1..Len(s) : t[i] = s[i] /\ (s[i] \in S <=> t[i] \in U)
  PROVE  Within(t, U) = IF t[Len(t)] \in U THEN Append(Within(s, S), t[Len(t)]) ELSE Within(s, S)
<1>1. PICK f : /\ Within(s, S) = f[Len(s)] /\ f[0] = <<>>
               /\ \A k \in 1..Len(s) :
                    f[k] = IF s[k] \in S THEN Append(f[k - 1], s[k]) ELSE f[k - 1]
  BY WithinRuns
<1>2. PICK g : /\ Within(t, U) = g[Len(t)] /\ g[0] = <<>>
               /\ \A k \in 1..Len(t) :
                    g[k] = IF t[k] \in U THEN Append(g[k - 1], t[k]) ELSE g[k - 1]
  BY WithinRuns
<1>3. \A k \in 1..Len(s) : f[k - 1] = g[k - 1] => f[k] = g[k]
  BY <1>1, <1>2
<1>4. f[Len(s)] = g[Len(s)]
  <2>1. Len(s) \in Nat /\ StepAlike(f, g, Len(s))
    BY <1>1, <1>2, <1>3 DEF StepAlike
  <2>. QED BY <2>1, RecursionUnique
<1>. QED BY <1>1, <1>2, <1>4

------------------------------------------------------------------------------
(* What the trials of a study are made of.                                 *)
Depths == {None} \cup {Some(d) : d \in 1..2}
TrialRecords(snapshots) ==
  [snapshot : snapshots, status : {"running", "raised", "completed", "failed"},
   valid : BOOLEAN, decision : {"none", "allow", "defer", "reject"},
   metric : Metrics, depth : Depths]

(* The trials are a sequence of trial records, whatever their snapshots.   *)
TrialsTyped == \E S : trials \in Seq(TrialRecords(S))

(* What every study of a contract has, as far as the proofs look at it.    *)
StudyKnown ==
  /\ study.kind \in Extensions
  /\ study.goal \in Goals
  /\ study.kind = "qcompute" =>
       study.strategy \in {"grid", "random", "bayesian", "agentic"}
  /\ study.kind = "nektar" => study.rule \in {"absolute", "relative_drop", "plateau"}
  /\ study.handoff \in {"none", "all", "recommended"}

(* The fields of a study that was built from the defaults.                 *)
LEMMA PlainStudy ==
  ASSUME NEW kind, NEW axes, NEW limit, NEW goal
  PROVE  /\ {"kind", "goal", "handoff", "strategy", "rule"} \subseteq
              DOMAIN StudyOf(kind, axes, limit, goal)
         /\ StudyOf(kind, axes, limit, goal).kind = kind
         /\ StudyOf(kind, axes, limit, goal).goal = goal
         /\ StudyOf(kind, axes, limit, goal).handoff = "none"
         /\ StudyOf(kind, axes, limit, goal).strategy = "grid"
BY DEF StudyOf, Blank

LEMMA PlainStudyKnown ==
  ASSUME NEW kind \in Extensions \ {"qcompute", "nektar"}, NEW axes, NEW limit,
         NEW goal \in Goals, study = StudyOf(kind, axes, limit, goal)
  PROVE  StudyKnown
BY PlainStudy DEF StudyKnown

(* Every study that a contract admits is a known one.                      *)
LEMMA ContractsKnown == Init => StudyKnown
<1>. SUFFICES ASSUME NEW kind \in Kinds, study \in StudiesOf(kind) PROVE StudyKnown
  BY DEF Init
<1>0. kind \in Extensions
  BY StudiesAssumption
<1>a. "minimize" \in Goals /\ "maximize" \in Goals
  BY DEF Goals
<1>1. CASE kind = "octave"
  <2>1. study \in OctaveStudySpec  BY <1>1 DEF StudiesOf
  <2>2. \E axes, limit : \E goal \in Goals : study = StudyOf("octave", axes, limit, goal)
    BY <2>1 DEF OctaveStudySpec
  <2>. QED BY <2>2, PlainStudyKnown DEF Extensions
<1>2. CASE kind = "fealpy"
  <2>1. study \in FealpyStudySpec  BY <1>2 DEF StudiesOf
  <2>2. \E axes, limit : study = StudyOf("fealpy", axes, limit, "minimize")
    BY <2>1 DEF FealpyStudySpec
  <2>. QED BY <2>2, <1>a, PlainStudyKnown DEF Extensions
<1>3. CASE kind = "jedi"
  <2>1. study \in JediStudySpec  BY <1>3 DEF StudiesOf
  <2>2. \E axes : \E goal \in Goals : study = StudyOf("jedi", axes, None, goal)
    BY <2>1 DEF JediStudySpec
  <2>. QED BY <2>2, PlainStudyKnown DEF Extensions
<1>4. CASE kind = "deepmd"
  <2>1. study \in DeepMDStudySpec  BY <1>4 DEF StudiesOf
  <2>. DEFINE S(goal, handoff, runtime) ==
         [StudyOf("deepmd", <<Three>>, None, goal) EXCEPT !.handoff = handoff,
                                                          !.runtime = runtime]
  <2>2. DeepMDStudySpec =
          {S(goal, handoff, runtime) :
             goal \in Goals, handoff \in {"none", "all", "recommended"}, runtime \in BOOLEAN}
    BY SMT DEF DeepMDStudySpec
  <2>3. ASSUME NEW goal, NEW handoff, NEW runtime
        PROVE  /\ S(goal, handoff, runtime).kind = "deepmd"
               /\ S(goal, handoff, runtime).goal = goal
               /\ S(goal, handoff, runtime).handoff = handoff
    BY PlainStudy
  <2>. HIDE DEF S
  <2>4. \E goal \in Goals, handoff \in {"none", "all", "recommended"}, runtime \in BOOLEAN :
          study = S(goal, handoff, runtime)
    BY <2>1, <2>2
  <2>. QED BY <2>3, <2>4 DEF StudyKnown, Extensions
<1>5. CASE kind = "boutpp"
  <2>1. study \in BoutppStudySpec  BY <1>5 DEF StudiesOf
  <2>2. \E axes, limit : study = StudyOf("boutpp", axes, limit, "minimize")
    BY <2>1 DEF BoutppStudySpec
  <2>. QED BY <2>2, <1>a, PlainStudyKnown DEF Extensions
<1>6. CASE kind = "pycfd"
  <2>1. study \in PycfdStudySpec  BY <1>6 DEF StudiesOf
  <2>2. \E axes, limit : study = StudyOf("pycfd", axes, limit, "minimize")
    BY <2>1 DEF PycfdStudySpec
  <2>. QED BY <2>2, <1>a, PlainStudyKnown DEF Extensions
<1>7. CASE kind = "moose"
  <2>1. study \in MooseStudySpec  BY <1>7 DEF StudiesOf
  <2>2. \E axes, limit : study = StudyOf("moose", axes, limit, "maximize")
    BY <2>1 DEF MooseStudySpec
  <2>. QED BY <2>2, <1>a, PlainStudyKnown DEF Extensions
<1>8. CASE kind = "nektar"
  <2>1. study \in ConvergenceStudySpec  BY <1>8 DEF StudiesOf
  <2>. DEFINE S(axis, rule, early, tolerance) ==
         [StudyOf("nektar", <<axis>>, None, "minimize") EXCEPT
            !.rule = rule, !.early = early, !.tolerance = tolerance, !.minPoints = 2]
  <2>2. ConvergenceStudySpec =
          {S(axis, rule, early, tolerance) :
             axis \in {Three, Single}, rule \in {"absolute", "relative_drop", "plateau"},
             early \in BOOLEAN, tolerance \in {None, Some(Tolerance)}}
    BY SMT DEF ConvergenceStudySpec
  <2>3. ASSUME NEW axis, NEW rule, NEW early, NEW tolerance
        PROVE  /\ S(axis, rule, early, tolerance).kind = "nektar"
               /\ S(axis, rule, early, tolerance).goal = "minimize"
               /\ S(axis, rule, early, tolerance).rule = rule
               /\ S(axis, rule, early, tolerance).handoff = "none"
    BY PlainStudy
  <2>. HIDE DEF S
  <2>4. \E axis \in {Three, Single}, rule \in {"absolute", "relative_drop", "plateau"},
           early \in BOOLEAN, tolerance \in {None, Some(Tolerance)} :
          study = S(axis, rule, early, tolerance)
    BY <2>1, <2>2
  <2>. QED BY <2>3, <2>4, <1>a DEF StudyKnown, Extensions
<1>9. CASE kind = "qcompute"
  <2>1. study \in QComputeStudySpec  BY <1>9 DEF StudiesOf
  <2>. DEFINE S(goal, strategy, workers, template, platform) ==
         [StudyOf("qcompute", <<Listed>>, Some(2), goal) EXCEPT
            !.strategy = strategy, !.workers = workers, !.template = template,
            !.platform = platform]
       Many(limit, strategy) ==
         [StudyOf("qcompute", <<Three>>, Some(limit), "maximize") EXCEPT
            !.strategy = strategy, !.workers = 2, !.platform = 1]
       Agentic == [StudyOf("qcompute", <<Single>>, Some(4), "maximize") EXCEPT
                 !.strategy = "agentic"]
  <2>2. QComputeStudySpec =
          {S(goal, strategy, workers, template, platform) :
             goal \in Goals, strategy \in {"grid", "random", "bayesian"}, workers \in 1..2,
             template \in {"simulator", "hardware"}, platform \in 0..1} \cup
          {Many(limit, strategy) : limit \in 2..3, strategy \in {"grid", "bayesian"}} \cup
          {Agentic} \cup
          {StudyOf("qcompute", axes, Some(2), "maximize") :
             axes \in {<<>>, <<Backwards>>, <<Whole>>}}
    BY SMT DEF QComputeStudySpec
  <2>3. ASSUME NEW goal, NEW strategy, NEW workers, NEW template, NEW platform
        PROVE  /\ S(goal, strategy, workers, template, platform).kind = "qcompute"
               /\ S(goal, strategy, workers, template, platform).goal = goal
               /\ S(goal, strategy, workers, template, platform).strategy = strategy
               /\ S(goal, strategy, workers, template, platform).handoff = "none"
    BY PlainStudy
  <2>4. ASSUME NEW limit, NEW strategy
        PROVE  /\ Many(limit, strategy).kind = "qcompute"
               /\ Many(limit, strategy).goal = "maximize"
               /\ Many(limit, strategy).strategy = strategy
               /\ Many(limit, strategy).handoff = "none"
    BY PlainStudy
  <2>5. /\ Agentic.kind = "qcompute" /\ Agentic.goal = "maximize" /\ Agentic.strategy = "agentic"
        /\ Agentic.handoff = "none"
    BY PlainStudy
  <2>. HIDE DEF S, Many, Agentic
  <2>6. /\ study.kind = "qcompute" /\ study.goal \in Goals /\ study.handoff = "none"
        /\ study.strategy \in {"grid", "random", "bayesian", "agentic"}
    BY <2>1, <2>2, <2>3, <2>4, <2>5, <1>a, PlainStudy
  <2>. QED BY <2>6 DEF StudyKnown, Extensions
<1>. QED BY <1>0, <1>1, <1>2, <1>3, <1>4, <1>5, <1>6, <1>7, <1>8, <1>9 DEF Extensions

------------------------------------------------------------------------------
(* The steps of a study, by what they do to its stage, queue and trials.   *)
Ends == {"grid", "raises", "never"}

LEMMA OctaveEnds == \A axes : OctaveGrid(axes).end \in Ends
BY DEF OctaveGrid, Grid, Ends
LEMMA FealpyEnds == \A axes : FealpyGrid(axes).end \in Ends
BY DEF FealpyGrid, GridOf, Grid, GridRaises, GridNeverEnds, Ends
LEMMA BoutppEnds == \A axes : BoutppGrid(axes).end \in Ends
BY DEF BoutppGrid, GridOf, Grid, GridNeverEnds, Ends
LEMMA PycfdEnds == \A axes : PycfdGrid(axes).end \in Ends
BY DEF PycfdGrid, GridOf, Grid, GridNeverEnds, Ends
LEMMA MooseEnds == \A axes : MooseGrid(axes).end \in Ends
BY DEF MooseGrid, GridOf, Grid, GridNeverEnds, Ends
LEMMA QcomputeEnds == \A axes : QcomputeGrid(axes).end \in Ends
BY DEF QcomputeGrid, GridOf, Grid, GridNeverEnds, Ends

LEMMA GenerateGridEnds ==
  ASSUME StudyKnown, study.kind = "qcompute", NEW grid \in GenerateGrid
  PROVE  grid.end \in Ends
<1>1. CASE study.strategy = "grid"
  BY <1>1, QcomputeEnds DEF GenerateGrid
<1>2. CASE study.strategy = "random"
  BY <1>2 DEF GenerateGrid, Grid, Ends
<1>3. CASE study.strategy = "bayesian"
  BY <1>3, QcomputeEnds DEF GenerateGrid, Grid, Ends
<1>4. CASE study.strategy = "agentic"
  BY <1>4 DEF GenerateGrid, Grid, Ends
<1>. QED BY <1>1, <1>2, <1>3, <1>4 DEF StudyKnown

(* Every generation begins with a grid, raises or never ends.              *)
LEMMA GenerateBegins ==
  ASSUME StudyKnown, Generate
  PROVE  \E grid, cut : grid.end \in Ends /\ Begin(grid, cut)
<1>1. CASE OctaveSnapshots
  BY <1>1, OctaveEnds DEF OctaveSnapshots
<1>2. CASE FealpySnapshots
  BY <1>2, FealpyEnds DEF FealpySnapshots
<1>3. CASE BoutppSnapshots
  BY <1>3, BoutppEnds DEF BoutppSnapshots
<1>4. CASE PycfdSnapshots
  BY <1>4, PycfdEnds DEF PycfdSnapshots
<1>5. CASE MooseSnapshots
  BY <1>5, MooseEnds DEF MooseSnapshots
<1>6. CASE JediValues
  <2>1. Grid(Values).end \in Ends  BY DEF Grid, Ends
  <2>. QED BY <1>6, <2>1 DEF JediValues
<1>7. CASE DeepMDValues
  <2>1. Grid(Values).end \in Ends  BY DEF Grid, Ends
  <2>. QED BY <1>7, <2>1 DEF DeepMDValues
<1>8. CASE NektarValues
  <2>1. Grid(Values).end \in Ends /\ GridRaises.end \in Ends  BY DEF Grid, GridRaises, Ends
  <2>. QED BY <1>8, <2>1 DEF NektarValues
<1>9. CASE QcomputeSnapshots
  BY <1>9, GenerateGridEnds DEF QcomputeSnapshots
<1>. QED BY <1>1, <1>2, <1>3, <1>4, <1>5, <1>6, <1>7, <1>8, <1>9 DEF Generate

Tries(e) == MoreToTry /\ trials' = Append(trials, e) /\ UNCHANGED stage /\ RestOfStudy
GivesUp == MoreToTry /\ Goto("raised") /\ UNCHANGED trials /\ RestOfStudy
Caughts == {"jedi", "boutpp", "pycfd", "moose"}
(* Only a trial that ran to its end is valid.                              *)
Sound(t) == t.valid => t.status = "completed"

LEMMA OutcomesTyped ==
  ASSUME NEW verdicts, verdicts \in {Verdicts, Plain}, NEW statuses,
         statuses \in {{"completed"}, {"completed", "failed"}},
         NEW o \in Outcomes(verdicts, statuses), NEW snapshot
  PROVE  /\ Ran(snapshot, o) \in TrialRecords({snapshot})
         /\ Ran(snapshot, o).status \in statuses
         /\ Ran(snapshot, o).depth = None
<1>1. PICK v \in verdicts, m \in Metrics, s \in statuses :
        o = [valid |-> v[1], decision |-> v[2], metric |-> m, depth |-> None, status |-> s]
  BY DEF Outcomes
<1>2. v[1] \in BOOLEAN /\ v[2] \in {"allow", "defer", "reject"}
  <2>1. \/ v = <<TRUE, "allow">> \/ v = <<TRUE, "defer">>
        \/ v = <<TRUE, "reject">> \/ v = <<FALSE, "reject">>
    BY Zenon DEF Verdicts, Plain
  <2>2. ASSUME NEW a, NEW b, v = <<a, b>> PROVE v[1] = a /\ v[2] = b
    BY <2>2
  <2>3. v[2] = "allow" \/ v[2] = "defer" \/ v[2] = "reject"
    BY <2>1, <2>2, Zenon
  <2>4. v[1] \in BOOLEAN
    BY <2>1, <2>2, Zenon
  <2>. QED BY <2>3, <2>4
<1>3. Ran(snapshot, o) = [snapshot |-> snapshot, status |-> s, valid |-> v[1],
                          decision |-> v[2], metric |-> m, depth |-> None]
  BY <1>1 DEF Ran, Trial
<1>. QED BY <1>1, <1>2, <1>3 DEF TrialRecords, Depths

LEMMA BrokenTyped ==
  ASSUME NEW snapshot
  PROVE  /\ Broken(snapshot) \in TrialRecords({snapshot})
         /\ Broken(snapshot).status = "failed" /\ ~Broken(snapshot).valid
BY DEF Broken, Trial, TrialRecords, Metrics, Depths

(* A step of a loop over trials adds the trial of the next snapshot, or,   *)
(* where nothing catches an exception, ends the study.                     *)
LEMMA UncaughtTries ==
  ASSUME NEW verdicts \in {Verdicts, Plain}, Uncaught(Outcomes(verdicts, {"completed"}))
  PROVE  \/ \E e \in TrialRecords({Upcoming}) : e.status = "completed" /\ Tries(e)
         \/ GivesUp
<1>1. CASE Goto("raised") /\ UNCHANGED trials
  BY <1>1 DEF Uncaught, GivesUp
<1>2. CASE \E o \in Outcomes(verdicts, {"completed"}) :
             trials' = Append(trials, Ran(Upcoming, o)) /\ UNCHANGED stage
  <2>1. PICK o \in Outcomes(verdicts, {"completed"}) :
          trials' = Append(trials, Ran(Upcoming, o)) /\ UNCHANGED stage
    BY <1>2
  <2>2. Ran(Upcoming, o) \in TrialRecords({Upcoming}) /\ Ran(Upcoming, o).status = "completed"
    BY OutcomesTyped
  <2>3. Tries(Ran(Upcoming, o))
    BY <2>1 DEF Uncaught, Tries
  <2>. QED BY <2>2, <2>3
<1>. QED BY <1>1, <1>2 DEF Uncaught

LEMMA CaughtTries ==
  ASSUME NEW verdicts \in {Verdicts, Plain}, Caught(Outcomes(verdicts, {"completed"}))
  PROVE  \E e \in TrialRecords({Upcoming}) :
           e.status \in {"completed", "failed"} /\ Sound(e) /\ Tries(e)
<1>1. CASE trials' = Append(trials, Broken(Upcoming))
  <2>1. Tries(Broken(Upcoming))
    BY <1>1 DEF Caught, Tries
  <2>. QED BY <2>1, BrokenTyped DEF Sound
<1>2. CASE \E o \in Outcomes(verdicts, {"completed"}) : trials' = Append(trials, Ran(Upcoming, o))
  <2>1. PICK o \in Outcomes(verdicts, {"completed"}) : trials' = Append(trials, Ran(Upcoming, o))
    BY <1>2
  <2>2. Ran(Upcoming, o) \in TrialRecords({Upcoming}) /\ Ran(Upcoming, o).status = "completed"
    BY OutcomesTyped
  <2>3. Tries(Ran(Upcoming, o))
    BY <2>1 DEF Caught, Tries
  <2>. QED BY <2>2, <2>3 DEF Sound
<1>. QED BY <1>1, <1>2 DEF Caught

LEMMA NektarTries ==
  ASSUME NektarTrial
  PROVE  \E e \in TrialRecords({Upcoming}) :
           e.status \in {"completed", "failed"} /\ Sound(e) /\ Tries(e)
<1>0. Caught(NektarOutcomes)
  BY DEF NektarTrial
<1>1. CASE trials' = Append(trials, Broken(Upcoming))
  <2>1. Tries(Broken(Upcoming))
    BY <1>0, <1>1 DEF Caught, Tries
  <2>. QED BY <2>1, BrokenTyped DEF Sound
<1>2. CASE \E o \in NektarOutcomes : trials' = Append(trials, Ran(Upcoming, o))
  <2>1. PICK o \in NektarOutcomes : trials' = Append(trials, Ran(Upcoming, o))
    BY <1>2
  <2>2. o \in Outcomes(Plain, {"completed", "failed"}) /\ (o.status = "failed" => ~o.valid)
    BY DEF NektarOutcomes
  <2>3. /\ Ran(Upcoming, o) \in TrialRecords({Upcoming})
        /\ Ran(Upcoming, o).status \in {"completed", "failed"}
    BY <2>2, OutcomesTyped
  <2>4. Ran(Upcoming, o).status = o.status /\ Ran(Upcoming, o).valid = o.valid
    BY DEF Ran, Trial
  <2>5. Tries(Ran(Upcoming, o))
    BY <1>0, <2>1 DEF Caught, Tries
  <2>. QED BY <2>2, <2>3, <2>4, <2>5 DEF Sound
<1>. QED BY <1>0, <1>1, <1>2 DEF Caught

(* What the trials of the extensions without a pool come to.               *)
Loops == {"octave", "fealpy", "deepmd", "nektar"} \cup Caughts
LoopTrial ==
  \/ OctaveTrial \/ FealpyTrial \/ DeepMDTrial \/ JediTrial
  \/ BoutppTrial \/ PycfdTrial \/ MooseTrial \/ NektarTrial
LEMMA LoopTries ==
  ASSUME LoopTrial
  PROVE  /\ study.kind \in Loops
         /\ \/ \E e \in TrialRecords({Upcoming}) :
                 e.status \in {"completed", "failed"} /\ Sound(e) /\ Tries(e)
            \/ study.kind \notin Caughts /\ GivesUp
<1>1. CASE OctaveTrial
  BY <1>1, UncaughtTries DEF OctaveTrial, Loops, Caughts, Sound
<1>2. CASE FealpyTrial
  BY <1>2, UncaughtTries DEF FealpyTrial, Loops, Caughts, Sound
<1>3. CASE DeepMDTrial
  BY <1>3, UncaughtTries DEF DeepMDTrial, Loops, Caughts, Sound
<1>4. CASE JediTrial
  BY <1>4, CaughtTries DEF JediTrial, Loops, Caughts
<1>5. CASE BoutppTrial
  BY <1>5, CaughtTries DEF BoutppTrial, Loops, Caughts
<1>6. CASE PycfdTrial
  BY <1>6, CaughtTries DEF PycfdTrial, Loops, Caughts
<1>7. CASE MooseTrial
  BY <1>7, CaughtTries DEF MooseTrial, Loops, Caughts
<1>8. CASE NektarTrial
  BY <1>8, NektarTries DEF NektarTrial, Loops, Caughts
<1>. QED BY <1>1, <1>2, <1>3, <1>4, <1>5, <1>6, <1>7, <1>8 DEF LoopTrial

------------------------------------------------------------------------------
(* The inductive invariant of the course of a study: its trials follow the *)
(* queue, only the pool of QCompute has trials at work, and nothing is     *)
(* recommended or handed over before the report.                           *)
Early == {"generate", "trials", "leaving"}
InOrder == \A i \in Trials : trials[i].snapshot = queue[i]
LoopsEnded == study.kind # "qcompute" => \A i \in Trials : trials[i].status \in {"completed", "failed"}
Staged ==
  /\ stage = "generate" => queue = <<>> /\ trials = <<>>
  /\ stage = "leaving" => study.kind = "qcompute"
  /\ stage = "handoff" => study.kind = "deepmd"
ValidCompleted == \A i \in Trials : Sound(trials[i])
Course ==
  /\ StudyKnown /\ TrialsTyped /\ InOrder /\ LoopsEnded /\ ValidCompleted /\ Staged
  /\ NothingLeftRunning /\ FailureStaysInTrial

LEMMA RecordsMono ==
  ASSUME NEW S, NEW T, S \subseteq T
  PROVE  TrialRecords(S) \subseteq TrialRecords(T)
BY DEF TrialRecords

LEMMA SeqMono ==
  ASSUME NEW A, NEW B, A \subseteq B, NEW s \in Seq(A)
  PROVE  s \in Seq(B)
OBVIOUS

(* One more trial at the end of the sequence.                              *)
LEMMA OneMoreTrial ==
  ASSUME TrialsTyped, NEW snapshot, NEW e \in TrialRecords({snapshot}),
         trials' = Append(trials, e)
  PROVE  /\ TrialsTyped' /\ Len(trials) \in Nat /\ Len(trials)' = Len(trials) + 1
         /\ Trials' = Trials \cup {Len(trials) + 1}
         /\ \A i \in Trials : trials'[i] = trials[i]
         /\ trials'[Len(trials) + 1] = e
<1>1. PICK S : trials \in Seq(TrialRecords(S))
  BY DEF TrialsTyped
<1>. DEFINE R == TrialRecords(S \cup {snapshot})
<1>2. trials \in Seq(R) /\ e \in R
  <2>1. TrialRecords(S) \subseteq R /\ TrialRecords({snapshot}) \subseteq R
    BY RecordsMono
  <2>. HIDE DEF R
  <2>2. trials \in Seq(R)
    BY <1>1, <2>1, SeqMono
  <2>3. e \in R
    BY <2>1
  <2>. QED BY <2>2, <2>3
<1>3. trials' \in Seq(R)
  <2>. HIDE DEF R
  <2>. QED BY <1>2
<1>4. TrialsTyped'
  BY <1>3 DEF TrialsTyped
<1>. HIDE DEF R
<1>. QED BY <1>2, <1>4 DEF Trials

LEMMA TrialTyped ==
  ASSUME TrialsTyped, NEW i \in Trials
  PROVE  /\ trials[i].metric \in Metrics /\ trials[i].depth \in Depths
         /\ trials[i].valid \in BOOLEAN
         /\ trials[i].status \in {"running", "raised", "completed", "failed"}
<1>1. PICK S : trials \in Seq(TrialRecords(S))
  BY DEF TrialsTyped
<1>2. trials[i] \in TrialRecords(S)
  BY <1>1 DEF Trials
<1>. QED BY <1>2 DEF TrialRecords

LEMMA SameTrials ==
  ASSUME UNCHANGED trials
  PROVE  Trials' = Trials /\ Running' = Running /\ (TrialsTyped => TrialsTyped')
BY DEF Trials, Running, TrialsTyped

LEMMA InitCourse == Init => Course
<1>. SUFFICES ASSUME Init PROVE Course
  OBVIOUS
<1>1. StudyKnown
  BY ContractsKnown
<1>2. TrialsTyped
  BY DEF Init, TrialsTyped
<1>3. Trials = {}
  BY DEF Init, Trials
<1>. QED BY <1>1, <1>2, <1>3 DEF Init, Course, InOrder, LoopsEnded, ValidCompleted, Staged, NothingLeftRunning,
            FailureStaysInTrial, Running, Over, Reported

LEMMA BeginCourse ==
  ASSUME Course, NEW grid, NEW cut, grid.end \in Ends, Begin(grid, cut)
  PROVE  Course'
<1>1. stage = "generate" /\ queue = <<>> /\ trials = <<>> /\ Trials = {}
  BY DEF Begin, Course, Staged, Trials
<1>2. /\ stage' \in {"trials", "raised", "endless"} /\ UNCHANGED <<study, trials>>
      /\ stage' = "raised" => queue' = queue
  BY DEF Begin, Ends, Goto
<1>3. StudyKnown' /\ TrialsTyped' /\ Trials' = {}
  BY <1>1, <1>2, SameTrials DEF Course, StudyKnown
<1>4. InOrder' /\ LoopsEnded' /\ ValidCompleted' /\ NothingLeftRunning'
  BY <1>3 DEF InOrder, LoopsEnded, ValidCompleted, NothingLeftRunning, Running
<1>5. Staged' /\ FailureStaysInTrial'
  BY <1>1, <1>2 DEF Staged, FailureStaysInTrial, Reported
<1>. QED BY <1>3, <1>4, <1>5 DEF Course

LEMMA TriesCourse ==
  ASSUME Course, NEW e \in TrialRecords({Upcoming}), Tries(e),
         e.status \in {"completed", "failed"} \/ study.kind = "qcompute", Sound(e)
  PROVE  Course'
<1>1. /\ stage = "trials" /\ stage' = "trials" /\ UNCHANGED <<study, queue>>
      /\ trials' = Append(trials, e)
  BY DEF Tries, MoreToTry, RestOfStudy
<1>2. /\ TrialsTyped' /\ Trials' = Trials \cup {Len(trials) + 1}
      /\ \A i \in Trials : trials'[i] = trials[i]
      /\ trials'[Len(trials) + 1] = e
  BY <1>1, OneMoreTrial DEF Course
<1>3. e.snapshot = queue[Len(trials) + 1]
  BY DEF TrialRecords, Upcoming
<1>4. StudyKnown' /\ Staged' /\ NothingLeftRunning' /\ FailureStaysInTrial'
  BY <1>1 DEF Course, StudyKnown, Staged, NothingLeftRunning, FailureStaysInTrial, Over, Reported
<1>5. InOrder'
  BY <1>1, <1>2, <1>3 DEF Course, InOrder
<1>6. LoopsEnded' /\ ValidCompleted'
  BY <1>1, <1>2 DEF Course, LoopsEnded, ValidCompleted, Sound
<1>. QED BY <1>2, <1>4, <1>5, <1>6 DEF Course

(* The last trial a caller sees, when a trial's exception is the study's.  *)
LEMMA GivesUpCourse ==
  ASSUME Course, GivesUp, study.kind \in Loops \ Caughts
  PROVE  Course'
<1>1. stage' = "raised" /\ UNCHANGED <<study, queue, trials>>
  BY DEF GivesUp, Goto, RestOfStudy
<1>2. Running = {}
  BY DEF Course, LoopsEnded, Running, Loops, Caughts
<1>3. TrialsTyped' /\ Trials' = Trials /\ Running' = {}
  BY <1>1, <1>2, SameTrials DEF Course
<1>4. StudyKnown' /\ Staged' /\ NothingLeftRunning' /\ FailureStaysInTrial'
  BY <1>1, <1>3 DEF Course, StudyKnown, Staged, NothingLeftRunning, FailureStaysInTrial,
     Reported, Loops, Caughts
<1>5. InOrder' /\ LoopsEnded' /\ ValidCompleted'
  BY <1>1, <1>3 DEF Course, InOrder, LoopsEnded, ValidCompleted, Sound
<1>. QED BY <1>3, <1>4, <1>5 DEF Course

LEMMA StartsTries ==
  ASSUME StartTrial
  PROVE  \E e \in TrialRecords({Upcoming}) : e.status = "running" /\ Sound(e) /\ Tries(e)
<1>. DEFINE e == Trial(Upcoming, "running", FALSE, "none", None, None)
<1>1. e \in TrialRecords({Upcoming}) /\ e.status = "running" /\ Sound(e)
  BY DEF Trial, TrialRecords, Metrics, Depths, Sound
<1>2. Tries(e)
  BY DEF StartTrial, Tries
<1>. HIDE DEF e
<1>. QED BY <1>1, <1>2

(* A worker comes back: its trial has the pipeline's outcome, or raised.   *)
LEMMA QcomputeOutcomeTyped ==
  ASSUME NEW o \in QcomputeOutcomes, NEW snapshot
  PROVE  /\ Ran(snapshot, o) \in TrialRecords({snapshot})
         /\ Ran(snapshot, o).status = "completed" /\ Ran(snapshot, o).snapshot = snapshot
<1>1. \/ \E m, d \in 1..2 :
           o = [valid |-> TRUE, decision |-> "allow", metric |-> Some(m), depth |-> Some(d),
                status |-> "completed"]
      \/ \E valid \in BOOLEAN :
           o = [valid |-> valid, decision |-> "allow", metric |-> None, depth |-> None,
                status |-> "completed"]
  BY DEF QcomputeOutcomes
<1>2. o.status = "completed" /\ o.decision = "allow"
  BY <1>1
<1>4. o.valid \in BOOLEAN
  <2>1. CASE \E m, d \in 1..2 :
               o = [valid |-> TRUE, decision |-> "allow", metric |-> Some(m), depth |-> Some(d),
                    status |-> "completed"]
    <3>1. o.valid = TRUE  BY <2>1
    <3>. QED BY <3>1, Zenon
  <2>2. CASE \E valid \in BOOLEAN :
               o = [valid |-> valid, decision |-> "allow", metric |-> None, depth |-> None,
                    status |-> "completed"]
    BY <2>2
  <2>. QED BY <1>1, <2>1, <2>2
<1>3. o.metric \in Metrics /\ o.depth \in Depths
  BY <1>1 DEF Metrics, Depths
<1>. QED BY <1>2, <1>3, <1>4 DEF Ran, Trial, TrialRecords

LEMMA FinishKeeps ==
  ASSUME TrialsTyped, NEW i \in Trials, FinishTrial(i), Sound(trials[i])
  PROVE  /\ TrialsTyped' /\ Trials' = Trials
         /\ trials'[i].status \in {"completed", "raised"}
         /\ trials'[i].snapshot = trials[i].snapshot /\ Sound(trials'[i])
         /\ \A j \in Trials \ {i} : trials'[j] = trials[j]
<1>1. PICK S : trials \in Seq(TrialRecords(S))
  BY DEF TrialsTyped
<1>2. trials[i] \in TrialRecords(S)
  BY <1>1 DEF Trials
<1>3. PICK e \in TrialRecords(S) :
        /\ trials' = [trials EXCEPT ![i] = e]
        /\ e.status \in {"completed", "raised"} /\ e.snapshot = trials[i].snapshot /\ Sound(e)
  <2>1. CASE \E o \in QcomputeOutcomes : trials' = [trials EXCEPT ![i] = Ran(@.snapshot, o)]
    <3>1. PICK o \in QcomputeOutcomes :
            trials' = [trials EXCEPT ![i] = Ran(trials[i].snapshot, o)]
      BY <2>1
    <3>2. trials[i].snapshot \in S
      BY <1>2 DEF TrialRecords
    <3>. DEFINE e == Ran(trials[i].snapshot, o)
    <3>3. /\ e \in TrialRecords({trials[i].snapshot}) /\ e.status = "completed"
          /\ e.snapshot = trials[i].snapshot
      BY QcomputeOutcomeTyped
    <3>4. e \in TrialRecords(S)
      BY <3>2, <3>3 DEF TrialRecords
    <3>5. Sound(e)
      BY <3>3 DEF Sound
    <3>. HIDE DEF e
    <3>. QED BY <3>1, <3>3, <3>4, <3>5 DEF e
  <2>2. CASE trials' = [trials EXCEPT ![i].status = "raised"]
    <3>. DEFINE e == [trials[i] EXCEPT !.status = "raised"]
    <3>1. /\ e \in TrialRecords(S) /\ e.status = "raised" /\ e.snapshot = trials[i].snapshot
          /\ ~e.valid
      <4>1. ~trials[i].valid
        BY DEF FinishTrial, Running, Sound
      <4>. QED BY <1>2, <4>1 DEF TrialRecords
    <3>2. trials' = [trials EXCEPT ![i] = e]
      BY <2>2
    <3>3. Sound(e)
      BY <3>1 DEF Sound
    <3>. HIDE DEF e
    <3>. QED BY <3>1, <3>2, <3>3
  <2>. QED BY <2>1, <2>2 DEF FinishTrial
<1>. DEFINE R == TrialRecords(S)
<1>4. trials \in Seq(R) /\ e \in R
  BY <1>1, <1>3
<1>. HIDE DEF R
<1>5. trials' \in Seq(R) /\ Trials' = Trials
  BY <1>3, <1>4 DEF Trials
<1>6. TrialsTyped'
  BY <1>5 DEF TrialsTyped, R
<1>7. trials'[i] = e /\ \A j \in Trials \ {i} : trials'[j] = trials[j]
  BY <1>3, <1>4 DEF Trials
<1>. QED BY <1>3, <1>5, <1>6, <1>7

LEMMA FinishCourse ==
  ASSUME Course, NEW i \in Trials, FinishTrial(i)
  PROVE  Course'
<1>1. /\ study.kind = "qcompute" /\ i \in Running /\ UNCHANGED <<study, queue, stage>>
  BY DEF FinishTrial, RestOfStudy
<1>2. /\ TrialsTyped' /\ Trials' = Trials
      /\ trials'[i].snapshot = trials[i].snapshot
      /\ \A j \in Trials \ {i} : trials'[j] = trials[j]
      /\ ValidCompleted'
  BY FinishKeeps DEF Course, ValidCompleted
<1>3. ~Over
  BY <1>1 DEF Course, NothingLeftRunning
<1>4. StudyKnown' /\ Staged' /\ NothingLeftRunning' /\ FailureStaysInTrial' /\ LoopsEnded'
  <2>1. stage # "generate"
    BY DEF Course, Staged, Trials
  <2>. QED BY <1>1, <1>3, <2>1
       DEF Course, StudyKnown, Staged, NothingLeftRunning, FailureStaysInTrial, LoopsEnded, Over
<1>5. InOrder'
  BY <1>1, <1>2 DEF Course, InOrder
<1>. QED BY <1>2, <1>4, <1>5 DEF Course

(* A step that ends the trials, or comes after them, leaves them alone.    *)
LEMMA AfterCourse ==
  ASSUME Course, UNCHANGED <<study, queue, trials>>,
         stage' \in {"leaving", "raised", "handoff", "done", "proposed", "endless"},
         stage' = "leaving" => study.kind = "qcompute",
         stage' # "leaving" => Running = {},
         stage' = "handoff" => study.kind = "deepmd",
         study.kind \in Caughts =>
           stage' = "done" /\ (Len(trials) = Len(queue) \/ Enough)
  PROVE  Course'
<1>1. TrialsTyped' /\ Trials' = Trials /\ Running' = Running
  BY SameTrials DEF Course
<1>2. StudyKnown' /\ Staged' /\ InOrder' /\ LoopsEnded' /\ ValidCompleted'
  BY <1>1 DEF Course, StudyKnown, Staged, InOrder, LoopsEnded, ValidCompleted, Sound
<1>3. NothingLeftRunning'
  BY <1>1 DEF NothingLeftRunning, Over
<1>4. FailureStaysInTrial'
  BY <1>1 DEF FailureStaysInTrial, Course, InOrder, Enough, Caughts
<1>. QED BY <1>1, <1>2, <1>3, <1>4 DEF Course

LEMMA NothingRunsInLoops ==
  ASSUME Course, study.kind # "qcompute"
  PROVE  Running = {}
BY DEF Course, LoopsEnded, Running

LEMMA ConcludeCourse ==
  ASSUME Course, Conclude
  PROVE  Course'
<1>. USE DEF Report, Goto, AllTried, Caughts
<1>1. CASE OctaveReport
  BY <1>1, AfterCourse DEF OctaveReport
<1>2. CASE FealpyReport
  BY <1>2, AfterCourse DEF FealpyReport
<1>3. CASE BoutppReport
  BY <1>3, AfterCourse, NothingRunsInLoops DEF BoutppReport
<1>4. CASE PycfdReport
  BY <1>4, AfterCourse, NothingRunsInLoops DEF PycfdReport
<1>5. CASE MooseReport
  BY <1>5, AfterCourse, NothingRunsInLoops DEF MooseReport
<1>6. CASE JediReport
  BY <1>6, AfterCourse DEF JediReport
<1>7. CASE QcomputeReport
  BY <1>7, AfterCourse DEF QcomputeReport
<1>8. CASE NektarReport
  BY <1>8, AfterCourse, NothingRunsInLoops DEF NektarReport
<1>9. CASE DeepMDReport
  BY <1>9, AfterCourse DEF DeepMDReport
<1>10. CASE HandOffTrial
  BY <1>10, AfterCourse, NothingRunsInLoops DEF HandOffTrial
<1>. QED BY <1>1, <1>2, <1>3, <1>4, <1>5, <1>6, <1>7, <1>8, <1>9, <1>10 DEF Conclude

LEMMA NextCourse == Course /\ [Next]_vars => Course'
<1>. SUFFICES ASSUME Course, [Next]_vars PROVE Course'
  OBVIOUS
<1>1. CASE Generate
  <2>1. PICK grid, cut : grid.end \in Ends /\ Begin(grid, cut)
    BY <1>1, GenerateBegins DEF Course
  <2>. QED BY <2>1, BeginCourse
<1>2. CASE LoopTrial
  BY <1>2, LoopTries, TriesCourse, GivesUpCourse
<1>3. CASE StartTrial
  <2>1. study.kind = "qcompute"
    BY <1>3 DEF StartTrial
  <2>. QED BY <1>3, <2>1, StartsTries, TriesCourse
<1>4. CASE \E i \in Trials : FinishTrial(i)
  BY <1>4, FinishCourse
<1>5. CASE CancelWaiting
  BY <1>5, AfterCourse DEF CancelWaiting, Goto, RestOfStudy, Caughts
<1>6. CASE RaiseStudy
  <2>1. study.kind = "qcompute"
    BY <1>6 DEF RaiseStudy, Course, Staged
  <2>. QED BY <1>6, <2>1, AfterCourse DEF RaiseStudy, Goto, RestOfStudy, Caughts
<1>7. CASE Conclude
  BY <1>7, ConcludeCourse
<1>8. CASE Propose
  BY <1>8, AfterCourse DEF Propose, Goto, Caughts, Course, NothingLeftRunning, Over
<1>9. CASE UNCHANGED vars
  <2>1. /\ UNCHANGED <<study, stage, queue, trials>> /\ Trials' = Trials /\ Running' = Running
        /\ TrialsTyped'
    BY <1>9, SameTrials DEF vars, Course
  <2>. QED BY <2>1 DEF Course, StudyKnown, InOrder, LoopsEnded, ValidCompleted, Sound, Staged,
              NothingLeftRunning, FailureStaysInTrial, Over, Reported, Enough
<1>. QED BY <1>1, <1>2, <1>3, <1>4, <1>5, <1>6, <1>7, <1>8, <1>9
     DEF Next, RunTrial, LoopTrial, Finished

LEMMA SpecCourse == Spec => []Course
<1>. QED BY InitCourse, NextCourse, PTL DEF Spec

(* NothingLeftRunning.  A study never hands its results or its exception   *)
(* to its caller while a worker of its pool is still at a trial, however   *)
(* many trials raise and in whatever order the workers come back.          *)
THEOREM NoWorkerOutlivesStudy == Spec => []NothingLeftRunning
<1>1. Course => NothingLeftRunning
  BY DEF Course
<1>. QED BY <1>1, SpecCourse, PTL

(* FailureStaysInTrial.  In the extensions that catch it, an exception     *)
(* costs one trial: the study reports, with the trials of the queue in     *)
(* their order and none missing up to the limit.                           *)
THEOREM FailureCostsOneTrial == Spec => []FailureStaysInTrial
<1>1. Course => FailureStaysInTrial
  BY DEF Course
<1>. QED BY <1>1, SpecCourse, PTL

------------------------------------------------------------------------------
(* A recommendation exists: among trials with a metric one is best, and of *)
(* equal ones the first.                                                   *)
LEMMA BestExists ==
  ASSUME NEW C, C \subseteq Nat, C # {}, NEW m \in [C -> 0..3], NEW goal
  PROVE  \E i \in C : \A j \in C : Better(m[i], m[j], goal) \/ (m[i] = m[j] /\ i <= j)
<1>. DEFINE Rank(i) == IF goal = "maximize" THEN 3 - m[i] ELSE m[i]
           Ranks == {Rank(i) : i \in C}
<1>1. Ranks \subseteq Nat /\ Ranks # {}
  <2>1. \A i \in C : m[i] \in 0..3
    OBVIOUS
  <2>2. \A i \in C : Rank(i) \in Nat
    BY <2>1
  <2>. QED BY <2>2
<1>2. PICK r \in Ranks : \A q \in Ranks : r <= q
  <2>. HIDE DEF Ranks
  <2>. QED BY <1>1, LeastOfNaturals
<1>. DEFINE Firsts == {i \in C : Rank(i) = r}
<1>3. Firsts \subseteq Nat /\ Firsts # {}
  BY <1>2
<1>4. PICK i \in Firsts : \A j \in Firsts : i <= j
  <2>. HIDE DEF Firsts
  <2>. QED BY <1>3, LeastOfNaturals
<1>5. ASSUME NEW j \in C
      PROVE  Better(m[i], m[j], goal) \/ (m[i] = m[j] /\ i <= j)
  <2>1. Rank(i) <= Rank(j) /\ m[i] \in 0..3 /\ m[j] \in 0..3
    BY <1>2, <1>4
  <2>2. CASE Rank(i) = Rank(j)
    <3>1. m[i] = m[j]  BY <2>1, <2>2
    <3>2. j \in Firsts  BY <1>4, <2>2
    <3>. QED BY <1>4, <3>1, <3>2
  <2>3. CASE Rank(i) # Rank(j)
    BY <2>1, <2>3 DEF Better
  <2>. QED BY <2>2, <2>3
<1>. QED BY <1>4, <1>5

LEMMA OnlySome == \A x : Only(Some(x)) = x /\ Some(x) # None
BY DEF Only, Some, None

LEMMA MetricValue ==
  ASSUME NEW metric \in Metrics, Given(metric)
  PROVE  Only(metric) \in 0..2
BY OnlySome DEF Metrics, Given, None, Some

(* What Recommended recommends.                                            *)
LEMMA RecommendedIsBest ==
  ASSUME TrialsTyped
  PROVE  /\ Recommended \in Trials \cup {0}
         /\ Recommended # 0 => PassedTrial(trials[Recommended])
         /\ \A i \in Trials :
              PassedTrial(trials[i]) /\ Given(trials[i].metric) =>
                /\ Recommended # 0
                /\ ~Better(Only(trials[i].metric), Only(trials[Recommended].metric), study.goal)
<1>. DEFINE C == {i \in {k \in Trials : PassedTrial(trials[k])} : Given(trials[i].metric)}
           m == [i \in C |-> Only(trials[i].metric)]
           IsBest(i) == \A j \in C :
                          \/ Better(Only(trials[i].metric), Only(trials[j].metric), study.goal)
                          \/ Only(trials[i].metric) = Only(trials[j].metric) /\ i <= j
<1>1. C \subseteq Trials /\ Trials \subseteq Nat \ {0}
  <2>1. Len(trials) \in Nat  BY DEF TrialsTyped
  <2>. QED BY <2>1 DEF Trials
<1>2. m \in [C -> 0..2]
  <2>1. \A i \in Trials : trials[i].metric \in Metrics
    BY TrialTyped
  <2>. QED BY <2>1, MetricValue
<1>3. Recommended = IF C = {} THEN 0 ELSE CHOOSE i \in C : IsBest(i)
  BY DEF Recommended, BestOf
<1>4. CASE C = {}
  BY <1>3, <1>4
<1>5. CASE C # {}
  <2>1. \E i \in C : IsBest(i)
    <3>1. \E i \in C : \A j \in C : Better(m[i], m[j], study.goal) \/ (m[i] = m[j] /\ i <= j)
      <4>1. C \subseteq Nat
        BY <1>1
      <4>2. m \in [C -> 0..3]
        <5>1. \A i \in C : Only(trials[i].metric) \in 0..3
          <6>1. \A i \in C : Only(trials[i].metric) \in 0..2
            <7>1. \A i \in C : trials[i].metric \in Metrics
              BY TrialTyped
            <7>. QED BY <7>1, MetricValue
          <6>. QED BY <6>1
        <5>. HIDE DEF C
        <5>. QED BY <5>1
      <4>. HIDE DEF C, m
      <4>. QED BY <1>5, <4>1, <4>2, BestExists
    <3>2. \A i \in C : m[i] = Only(trials[i].metric)
      OBVIOUS
    <3>. HIDE DEF C, m
    <3>. QED BY <3>1, <3>2
  <2>2. Recommended \in C /\ IsBest(Recommended)
    BY <1>3, <1>5, <2>1
  <2>3. ASSUME NEW i \in C
        PROVE  ~Better(Only(trials[i].metric), Only(trials[Recommended].metric), study.goal)
    <3>1. Only(trials[i].metric) \in 0..2 /\ Only(trials[Recommended].metric) \in 0..2
      BY <1>2, <2>2
    <3>. QED BY <2>2, <3>1 DEF Better
  <2>. QED BY <1>1, <2>2, <2>3
<1>. QED BY <1>4, <1>5

------------------------------------------------------------------------------
(* The inductive invariant of the handover: until the report nothing is    *)
(* recommended or handed over, and then only what the policy asks for, all *)
(* of it when a DeePMD study is done.                                      *)
Handover ==
  /\ stage \in Early => best = 0 /\ handed = {} /\ front = {} /\ proposals = <<>>
  /\ study.kind # "deepmd" => handed = {}
  /\ study.kind = "deepmd" => best \in Trials \cup {0}
  /\ study.kind = "deepmd" /\ stage \in {"handoff", "done"} => Len(trials) = Len(queue)
  /\ handed # {} => Len(trials) = Len(queue)
  /\ handed \subseteq Due
  /\ study.kind = "deepmd" /\ stage = "done" => handed = Due

LEMMA HandoverIsAsAsked == StudyKnown /\ Handover => HandedAsAsked
<1>. SUFFICES ASSUME StudyKnown, Handover PROVE HandedAsAsked
  OBVIOUS
<1>1. study.handoff = "none" => handed = {}
  BY DEF Handover, Due
<1>2. ~study.runtime => handed = {}
  BY DEF Handover, Due
<1>3. study.handoff = "recommended" => Due \subseteq {best}
  BY DEF Due
<1>4. study.kind = "deepmd" /\ stage = "done" /\ study.runtime =>
        /\ study.handoff = "all" => handed = Trials
        /\ study.handoff = "recommended" => handed = {best} \ {0}
  BY DEF Handover, Due
<1>. QED BY <1>1, <1>2, <1>3, <1>4 DEF HandedAsAsked, Handover

LEMMA InitHandover == Init => Handover
BY DEF Init, Handover, Due, Trials, Early

(* A step before the report that reports nothing.                          *)
LEMMA EarlyHandover ==
  ASSUME Handover, stage \in Early, stage' \notin {"handoff", "done", "proposed"},
         UNCHANGED <<study, best, front, handed, proposals>>
  PROVE  Handover'
BY DEF Handover, Due

(* A report of an extension that has no handover, and what comes after it. *)
LEMMA OthersHandover ==
  ASSUME Handover, study.kind # "deepmd", stage' \notin Early, UNCHANGED <<study, handed>>
  PROVE  Handover'
BY DEF Handover, Due

LEMMA DeepMDReportHandover ==
  ASSUME Course, Handover, DeepMDReport
  PROVE  Handover'
<1>1. /\ study.kind = "deepmd" /\ stage = "trials" /\ Len(trials) = Len(queue)
      /\ best' = Recommended /\ stage' = "handoff"
      /\ UNCHANGED <<study, queue, trials, handed>>
  BY DEF DeepMDReport, Report, AllTried, Goto
<1>2. handed = {}
  BY <1>1 DEF Handover, Early
<1>3. Recommended \in Trials \cup {0} /\ Trials' = Trials
  BY <1>1, RecommendedIsBest, SameTrials DEF Course
<1>. QED BY <1>1, <1>2, <1>3 DEF Handover, Early

LEMMA HandOffHandover ==
  ASSUME Course, Handover, HandOffTrial
  PROVE  Handover'
<1>1. /\ study.kind = "deepmd" /\ stage = "handoff" /\ Len(trials) = Len(queue)
      /\ UNCHANGED <<study, queue, trials, best>> /\ Trials' = Trials
      /\ best \in Trials \cup {0}
  BY SameTrials DEF HandOffTrial, Handover
<1>2. Due' = Due
  BY <1>1 DEF Due
<1>3. CASE Due = handed
  BY <1>1, <1>2, <1>3 DEF HandOffTrial, Handover, Early, Goto
<1>4. CASE Due # handed /\ stage' = "raised" /\ UNCHANGED handed
  BY <1>1, <1>2, <1>4 DEF Handover, Early
<1>5. CASE Due # handed /\ handed' = handed \cup {Min(Due \ handed)} /\ stage' = "handoff"
  <2>1. Due \ handed \subseteq Nat /\ Due \ handed # {}
    <3>1. Trials \subseteq Nat
      BY DEF Trials
    <3>2. Due \subseteq Nat
      BY <1>1, <3>1 DEF Due, Course, StudyKnown
    <3>. QED BY <3>2, <1>5 DEF Handover
  <2>2. Min(Due \ handed) \in Due \ handed
    <3>. DEFINE D == Due \ handed
    <3>1. \E n \in D : \A k \in D : n <= k
      <4>. HIDE DEF D
      <4>. QED BY <2>1, LeastOfNaturals DEF D
    <3>. QED BY <3>1 DEF Min
  <2>. QED BY <1>1, <1>2, <1>5, <2>2 DEF Handover, Early
<1>. QED BY <1>1, <1>3, <1>4, <1>5 DEF HandOffTrial, Goto

LEMMA NextHandover == Course /\ Handover /\ [Next]_vars => Handover'
<1>. SUFFICES ASSUME Course, Handover, [Next]_vars PROVE Handover'
  OBVIOUS
<1>1. CASE Generate
  <2>1. PICK grid, cut : grid.end \in Ends /\ Begin(grid, cut)
    BY <1>1, GenerateBegins DEF Course
  <2>. QED BY <2>1, EarlyHandover DEF Begin, Ends, Goto, Early
<1>2. CASE LoopTrial
  <2>1. /\ stage = "trials" /\ stage' \in {"trials", "raised"}
        /\ UNCHANGED <<study, best, front, handed, proposals>>
    BY <1>2, LoopTries DEF Tries, GivesUp, MoreToTry, RestOfStudy, Goto
  <2>. QED BY <2>1, EarlyHandover DEF Early
<1>3. CASE StartTrial
  BY <1>3, EarlyHandover DEF StartTrial, MoreToTry, RestOfStudy, Early
<1>4. CASE \E i \in Trials : FinishTrial(i)
  <2>1. /\ study.kind = "qcompute" /\ Running # {} /\ UNCHANGED stage
        /\ UNCHANGED <<study, best, front, handed, proposals>>
    BY <1>4 DEF FinishTrial, RestOfStudy
  <2>. QED BY <2>1 DEF Handover, Due
<1>5. CASE CancelWaiting
  BY <1>5, EarlyHandover DEF CancelWaiting, RestOfStudy, Goto, Early
<1>6. CASE RaiseStudy
  BY <1>6, EarlyHandover DEF RaiseStudy, RestOfStudy, Goto, Early
<1>7. CASE Conclude /\ ~DeepMDReport /\ ~HandOffTrial
  <2>1. study.kind # "deepmd" /\ stage' \in {"done", "raised"} /\ UNCHANGED <<study, handed>>
    BY <1>7 DEF Conclude, OctaveReport, FealpyReport, BoutppReport, PycfdReport, MooseReport,
       JediReport, QcomputeReport, NektarReport, Report, AllTried, Goto
  <2>. QED BY <2>1, OthersHandover DEF Early
<1>8. CASE DeepMDReport
  BY <1>8, DeepMDReportHandover
<1>9. CASE HandOffTrial
  BY <1>9, HandOffHandover
<1>10. CASE Propose
  BY <1>10, OthersHandover DEF Propose, Goto, Early
<1>11. CASE UNCHANGED vars
  BY <1>11, SameTrials DEF vars, Handover, Due
<1>. QED BY <1>1, <1>2, <1>3, <1>4, <1>5, <1>6, <1>7, <1>8, <1>9, <1>10, <1>11
     DEF Next, RunTrial, LoopTrial, Finished

(* HandedAsAsked.  A DeePMD study hands the runtime the candidates its     *)
(* policy asks for and no others, and only after its last trial.           *)
THEOREM HandedAsPolicyAsks == Spec => []HandedAsAsked
<1>1. Course /\ Handover => HandedAsAsked
  BY HandoverIsAsAsked DEF Course
<1>. QED BY <1>1, InitHandover, NextHandover, SpecCourse, PTL DEF Spec

------------------------------------------------------------------------------
(* The convergence rules: what they find is a completed, valid trial, and  *)
(* the first trial that makes a rule converge is the one it recommends.    *)
LEMMA MinOfNaturals ==
  ASSUME NEW S, S \subseteq Nat, S # {}
  PROVE  Min(S) \in S /\ \A m \in S : Min(S) <= m
<1>1. \E n \in S : \A m \in S : n <= m
  BY LeastOfNaturals
<1>. QED BY <1>1 DEF Min

LEMMA SeriesTyped ==
  ASSUME NEW R, NEW ts \in Seq(R)
  PROVE  /\ MetricSeries(ts) \in Seq(1..Len(ts))
         /\ \A k \in 1..Len(MetricSeries(ts)) : Measured(ts[MetricSeries(ts)[k]])
<1>. DEFINE n == Len(ts)
            places == [i \in 1..n |-> i]
            S == {i \in 1..n : Measured(ts[i])}
<1>1. MetricSeries(ts) = Within(places, S)
  BY DEF MetricSeries, Measured
<1>2. n \in Nat /\ places \in Seq(1..n)
  OBVIOUS
<1>3. /\ Within(places, S) \in Seq(1..n)
      /\ \A k \in 1..Len(Within(places, S)) : Within(places, S)[k] \in S
  <2>. HIDE DEF places, S, n
  <2>. QED BY <1>2, WithinTyped
<1>. QED BY <1>1, <1>3

LEMMA SeriesGrows ==
  ASSUME NEW R, NEW ts \in Seq(R), NEW e \in R
  PROVE  MetricSeries(Append(ts, e)) =
           IF Measured(e) THEN Append(MetricSeries(ts), Len(ts) + 1) ELSE MetricSeries(ts)
<1>. DEFINE n == Len(ts)
            more == Append(ts, e)
            P == [i \in 1..n |-> i]
            Q == [i \in 1..n + 1 |-> i]
            S == {i \in 1..n : Measured(ts[i])}
            U == {i \in 1..n + 1 : Measured(more[i])}
<1>1. n \in Nat /\ Len(more) = n + 1 /\ more[n + 1] = e /\ \A i \in 1..n : more[i] = ts[i]
  OBVIOUS
<1>2. MetricSeries(ts) = Within(P, S)
  BY DEF MetricSeries, Measured
<1>3. MetricSeries(more) = Within(Q, U)
  <2>. HIDE DEF more, n
  <2>1. MetricSeries(more) = Within([i \in 1..Len(more) |-> i], {i \in 1..Len(more) : Measured(more[i])})
    BY DEF MetricSeries, Measured
  <2>. QED BY <1>1, <2>1
<1>. HIDE DEF more, n
<1>4. P \in Seq(Nat) /\ Q \in Seq(Nat) /\ Len(P) = n /\ Len(Q) = n + 1 /\ Q[n + 1] = n + 1
  BY <1>1
<1>5. \A i \in 1..n : Q[i] = P[i] /\ (P[i] \in S <=> Q[i] \in U)
  BY <1>1
<1>6. Q[n + 1] \in U <=> Measured(e)
  BY <1>1, <1>4
<1>. HIDE DEF P, Q, S, U
<1>7. Within(Q, U) = IF Q[Len(Q)] \in U THEN Append(Within(P, S), Q[Len(Q)]) ELSE Within(P, S)
  BY <1>4, <1>5, WithinAppend
<1>. QED BY <1>2, <1>3, <1>4, <1>6, <1>7 DEF more, n

LEMMA AnswerLaws ==
  ASSUME NEW ts, NEW found, NEW index, found \subseteq Nat
  PROVE  /\ Answer(ts, found, index).converged <=> found # {}
         /\ found # {} => /\ Answer(ts, found, index).best = index[Min(found)]
                          /\ Min(found) \in found
                          /\ \A k \in found : Min(found) <= k
         /\ found = {} => Answer(ts, found, index).best = Fallback(ts)
BY MinOfNaturals DEF Answer

(* The metrics a rule has seen stay where they are when a trial is added.  *)
GoesOn(ts, more) ==
  /\ \A k \in 1..Len(MetricSeries(ts)) :
       /\ MetricSeries(more)[k] = MetricSeries(ts)[k]
       /\ more[MetricSeries(ts)[k]] = ts[MetricSeries(ts)[k]]
  /\ Len(MetricSeries(ts)) \in Nat /\ Len(MetricSeries(more)) \in Nat
  /\ Len(more) = Len(ts) + 1
  /\ \A k \in 1..Len(MetricSeries(more)) :
       k \notin 1..Len(MetricSeries(ts)) => MetricSeries(more)[k] = Len(more)

LEMMA SeriesKeeps ==
  ASSUME NEW R, NEW ts \in Seq(R), NEW e \in R
  PROVE  GoesOn(ts, Append(ts, e))
<1>. DEFINE more == Append(ts, e)
<1>. DEFINE old == MetricSeries(ts)  new == MetricSeries(more)  n == Len(ts)
<1>1. old \in Seq(1..n) /\ n \in Nat
  BY SeriesTyped
<1>2. new = IF Measured(e) THEN Append(old, n + 1) ELSE old
  BY SeriesGrows
<1>3. Len(more) = n + 1 /\ \A i \in 1..n : more[i] = ts[i]
  OBVIOUS
<1>. HIDE DEF old, new, n, more
<1>4. Len(old) \in Nat /\ \A k \in 1..Len(old) : old[k] \in 1..n
  BY <1>1
<1>5. /\ \A k \in 1..Len(old) : new[k] = old[k]
      /\ \A k \in 1..Len(new) : k \notin 1..Len(old) => new[k] = n + 1
      /\ Len(new) \in Nat
  BY <1>1, <1>2
<1>6. \A k \in 1..Len(old) : more[old[k]] = ts[old[k]]
  BY <1>3, <1>4
<1>7. GoesOn(ts, more)
  BY <1>1, <1>3, <1>4, <1>5, <1>6 DEF old, new, n, GoesOn
<1>. QED BY <1>7 DEF more

(* A rule that finds something finds a completed trial of its series.      *)
LEMMA FoundStands ==
  ASSUME NEW R, NEW ts \in Seq(R), NEW found,
         found \subseteq {k \in 1..Len(MetricSeries(ts)) : ts[MetricSeries(ts)[k]].valid},
         Answer(ts, found, MetricSeries(ts)).converged
  PROVE  LET place == Answer(ts, found, MetricSeries(ts)).best
         IN place \in 1..Len(ts) /\ ts[place].status = "completed" /\ ts[place].valid
<1>. DEFINE series == MetricSeries(ts)
<1>1. series \in Seq(1..Len(ts)) /\ \A k \in 1..Len(series) : Measured(ts[series[k]])
  BY SeriesTyped
<1>. HIDE DEF series
<1>2. found \subseteq 1..Len(series) /\ \A k \in found : ts[series[k]].valid
  BY DEF series
<1>3. found \subseteq Nat
  BY <1>1, <1>2
<1>4. PICK k \in found : Answer(ts, found, series).best = series[k]
  BY <1>3, AnswerLaws DEF series
<1>5. series[k] \in 1..Len(ts) /\ Measured(ts[series[k]]) /\ ts[series[k]].valid
  BY <1>1, <1>2, <1>4
<1>. QED BY <1>4, <1>5 DEF Measured, series

(* A rule that finds nothing among the metrics seen so far finds the new   *)
(* trial, or nothing.                                                      *)
LEMMA FoundLast ==
  ASSUME NEW R, NEW ts \in Seq(R), NEW e \in R, NEW found,
         found \subseteq 1..Len(MetricSeries(Append(ts, e))),
         found \cap 1..Len(MetricSeries(ts)) = {},
         Answer(Append(ts, e), found, MetricSeries(Append(ts, e))).converged
  PROVE  Answer(Append(ts, e), found, MetricSeries(Append(ts, e))).best = Len(Append(ts, e))
<1>. DEFINE more == Append(ts, e)  new == MetricSeries(more)
<1>1. GoesOn(ts, more)
  BY SeriesKeeps
<1>. HIDE DEF more
<1>2. /\ Len(new) \in Nat
      /\ \A k \in 1..Len(new) : k \notin 1..Len(MetricSeries(ts)) => new[k] = Len(more)
  BY <1>1 DEF GoesOn
<1>. HIDE DEF new
<1>3. Len(new) \in Nat
  BY <1>2
<1>4. found \subseteq 1..Len(new)
  BY DEF more, new
<1>5. found \subseteq Nat
  BY <1>3, <1>4
<1>6. PICK k \in found : Answer(more, found, new).best = new[k]
  BY <1>5, AnswerLaws DEF more, new
<1>7. k \in 1..Len(new) /\ k \notin 1..Len(MetricSeries(ts))
  BY <1>4, <1>6
<1>. QED BY <1>2, <1>6, <1>7 DEF more, new

(* What a rule promises of its answer over the trials of a study.          *)
Stands(ts, answer) ==
  answer.converged => /\ answer.best \in 1..Len(ts)
                      /\ ts[answer.best].status = "completed" /\ ts[answer.best].valid
Stops(ts, before, after) ==
  ~before.converged /\ after.converged => after.best = Len(ts)

LEMMA AbsoluteLaws ==
  ASSUME NEW R, NEW ts \in Seq(R), NEW e \in R, NEW tolerance
  PROVE  /\ Stands(ts, AbsoluteRule(ts, tolerance))
         /\ Stops(Append(ts, e), AbsoluteRule(ts, tolerance), AbsoluteRule(Append(ts, e), tolerance))
<1>. DEFINE more == Append(ts, e)
            Found(t) == {k \in 1..Len(MetricSeries(t)) :
                           /\ t[MetricSeries(t)[k]].valid
                           /\ Only(t[MetricSeries(t)[k]].metric) <= tolerance}
<1>1. ASSUME NEW t PROVE AbsoluteRule(t, tolerance) = Answer(t, Found(t), MetricSeries(t))
  BY DEF AbsoluteRule
<1>2. Stands(ts, AbsoluteRule(ts, tolerance))
  <2>1. Found(ts) \subseteq {k \in 1..Len(MetricSeries(ts)) : ts[MetricSeries(ts)[k]].valid}
    OBVIOUS
  <2>. HIDE DEF Found
  <2>. QED BY <1>1, <2>1, FoundStands DEF Stands
<1>3. Stops(more, AbsoluteRule(ts, tolerance), AbsoluteRule(more, tolerance))
  <2>. SUFFICES ASSUME ~AbsoluteRule(ts, tolerance).converged,
                       AbsoluteRule(more, tolerance).converged
                PROVE  AbsoluteRule(more, tolerance).best = Len(more)
    BY DEF Stops
  <2>1. Found(ts) = {}
    <3>1. Found(ts) \subseteq Nat
      OBVIOUS
    <3>. HIDE DEF Found
    <3>. QED BY <1>1, <3>1, AnswerLaws
  <2>2. Found(more) \cap 1..Len(MetricSeries(ts)) = {}
    <3>1. \A k \in 1..Len(MetricSeries(ts)) :
            /\ MetricSeries(more)[k] = MetricSeries(ts)[k]
            /\ more[MetricSeries(ts)[k]] = ts[MetricSeries(ts)[k]]
      <4>1. GoesOn(ts, more)
        BY SeriesKeeps
      <4>. HIDE DEF more
      <4>. QED BY <4>1 DEF GoesOn
    <3>. HIDE DEF more
    <3>. QED BY <2>1, <3>1
  <2>3. Found(more) \subseteq 1..Len(MetricSeries(more))
    OBVIOUS
  <2>. HIDE DEF Found
  <2>. QED BY <1>1, <2>2, <2>3, FoundLast
<1>. QED BY <1>2, <1>3

LEMMA RelativeDropLaws ==
  ASSUME NEW R, NEW ts \in Seq(R), NEW e \in R, NEW drop
  PROVE  /\ Stands(ts, RelativeDropRule(ts, drop))
         /\ Stops(Append(ts, e), RelativeDropRule(ts, drop), RelativeDropRule(Append(ts, e), drop))
<1>. DEFINE more == Append(ts, e)
            M(t, k) == Only(t[MetricSeries(t)[k]].metric)
            Found(t) == {k \in 2..Len(MetricSeries(t)) :
                           M(t, k) * drop <= M(t, k - 1) /\ t[MetricSeries(t)[k]].valid}
<1>1. ASSUME NEW t PROVE RelativeDropRule(t, drop) = Answer(t, Found(t), MetricSeries(t))
  BY DEF RelativeDropRule
<1>2. Stands(ts, RelativeDropRule(ts, drop))
  <2>1. Found(ts) \subseteq {k \in 1..Len(MetricSeries(ts)) : ts[MetricSeries(ts)[k]].valid}
    <3>1. 2..Len(MetricSeries(ts)) \subseteq 1..Len(MetricSeries(ts))
      BY SeriesKeeps DEF GoesOn
    <3>. QED BY <3>1
  <2>. HIDE DEF Found
  <2>. QED BY <1>1, <2>1, FoundStands DEF Stands
<1>3. Stops(more, RelativeDropRule(ts, drop), RelativeDropRule(more, drop))
  <2>. SUFFICES ASSUME ~RelativeDropRule(ts, drop).converged,
                       RelativeDropRule(more, drop).converged
                PROVE  RelativeDropRule(more, drop).best = Len(more)
    BY DEF Stops
  <2>1. Found(ts) = {}
    <3>1. Found(ts) \subseteq Nat
      <4>1. 2..Len(MetricSeries(ts)) \subseteq Nat
        BY SeriesKeeps DEF GoesOn
      <4>. QED BY <4>1
    <3>. HIDE DEF Found
    <3>. QED BY <1>1, <3>1, AnswerLaws
  <2>2. Found(more) \cap 1..Len(MetricSeries(ts)) = {}
    <3>1. \A k \in 1..Len(MetricSeries(ts)) : /\ M(more, k) = M(ts, k)
            /\ more[MetricSeries(more)[k]] = ts[MetricSeries(ts)[k]]
      <4>1. GoesOn(ts, more)
        BY SeriesKeeps
      <4>. HIDE DEF more
      <4>. QED BY <4>1 DEF GoesOn
    <3>2. Len(MetricSeries(ts)) \in Nat
      BY SeriesKeeps DEF GoesOn
    <3>. DEFINE m == Len(MetricSeries(ts))
    <3>3. ASSUME NEW k \in Found(more), k \in 1..m PROVE FALSE
      <4>. HIDE DEF more, M
      <4>1. k \in 2..m /\ k - 1 \in 1..m /\ M(more, k) * drop <= M(more, k - 1)
            /\ more[MetricSeries(more)[k]].valid
        BY <3>2, <3>3
      <4>2. k \in Found(ts)
        BY <3>1, <4>1
      <4>. QED BY <2>1, <4>2
    <3>. QED BY <3>3
  <2>3. Found(more) \subseteq 1..Len(MetricSeries(more))
    <3>1. GoesOn(ts, more)
      BY SeriesKeeps
    <3>2. Len(MetricSeries(more)) \in Nat
      <4>. HIDE DEF more
      <4>. QED BY <3>1 DEF GoesOn
    <3>. HIDE DEF more, M
    <3>. QED BY <3>2
  <2>. HIDE DEF Found
  <2>. QED BY <1>1, <2>2, <2>3, FoundLast
<1>. QED BY <1>2, <1>3

LEMMA MonotoneBefore ==
  ASSUME NEW ts, NEW more, GoesOn(ts, more), Monotone(more, MetricSeries(more)),
         Len(MetricSeries(ts)) <= Len(MetricSeries(more))
  PROVE  Monotone(ts, MetricSeries(ts))
<1>. SUFFICES ASSUME NEW k \in 2..Len(MetricSeries(ts))
              PROVE  Only(ts[MetricSeries(ts)[k]].metric) <= Only(ts[MetricSeries(ts)[k - 1]].metric)
  BY DEF Monotone
<1>1. /\ k \in 1..Len(MetricSeries(ts)) /\ k - 1 \in 1..Len(MetricSeries(ts))
      /\ k \in 2..Len(MetricSeries(more))
  BY DEF GoesOn
<1>2. Only(more[MetricSeries(more)[k]].metric) <= Only(more[MetricSeries(more)[k - 1]].metric)
  BY <1>1 DEF Monotone
<1>. QED BY <1>1, <1>2 DEF GoesOn

LEMMA SeriesLonger ==
  ASSUME NEW R, NEW ts \in Seq(R), NEW e \in R
  PROVE  Len(MetricSeries(ts)) <= Len(MetricSeries(Append(ts, e)))
<1>. DEFINE old == MetricSeries(ts)  n == Len(ts)
<1>1. MetricSeries(Append(ts, e)) = IF Measured(e) THEN Append(old, n + 1) ELSE old
  BY SeriesGrows
<1>2. old \in Seq(1..n) /\ n \in Nat
  BY SeriesTyped
<1>. HIDE DEF old, n
<1>3. Append(old, n + 1) \in Seq(Nat) /\ Len(Append(old, n + 1)) = Len(old) + 1 /\ Len(old) \in Nat
  BY <1>2
<1>. QED BY <1>1, <1>3 DEF old

LEMMA PlateauLaws ==
  ASSUME NEW R, NEW ts \in Seq(R), NEW e \in R, NEW flat
  PROVE  /\ Stands(ts, PlateauRule(ts, flat))
         /\ Stops(Append(ts, e), PlateauRule(ts, flat), PlateauRule(Append(ts, e), flat))
<1>. DEFINE more == Append(ts, e)
            M(t, k) == Only(t[MetricSeries(t)[k]].metric)
            Delta(t, k) == Abs(M(t, k) * M(t, k - 2) - M(t, k - 1) * M(t, k - 1))
            Near(t, k) == /\ Delta(t, k) * flat < M(t, k - 1) * M(t, k - 2)
                          /\ t[MetricSeries(t)[k]].valid
            Found(t) == IF ~Monotone(t, MetricSeries(t)) THEN {}
                        ELSE {k \in 3..Len(MetricSeries(t)) : Near(t, k)}
<1>1. ASSUME NEW t PROVE PlateauRule(t, flat) = Answer(t, Found(t), MetricSeries(t))
  BY DEF PlateauRule
<1>0. GoesOn(ts, more) /\ Len(MetricSeries(ts)) <= Len(MetricSeries(more))
  BY SeriesKeeps, SeriesLonger
<1>2. Stands(ts, PlateauRule(ts, flat))
  <2>1. Found(ts) \subseteq {k \in 1..Len(MetricSeries(ts)) : ts[MetricSeries(ts)[k]].valid}
    <3>1. 3..Len(MetricSeries(ts)) \subseteq 1..Len(MetricSeries(ts))
      BY SeriesKeeps DEF GoesOn
    <3>2. \A k : Near(ts, k) => ts[MetricSeries(ts)[k]].valid
      OBVIOUS
    <3>. HIDE DEF Near
    <3>. QED BY <3>1, <3>2
  <2>. HIDE DEF Found
  <2>. QED BY <1>1, <2>1, FoundStands DEF Stands
<1>3. Stops(more, PlateauRule(ts, flat), PlateauRule(more, flat))
  <2>. SUFFICES ASSUME ~PlateauRule(ts, flat).converged,
                       PlateauRule(more, flat).converged
                PROVE  PlateauRule(more, flat).best = Len(more)
    BY DEF Stops
  <2>0. 3..Len(MetricSeries(ts)) \subseteq Nat /\ 3..Len(MetricSeries(more)) \subseteq Nat
    <3>. HIDE DEF more
    <3>. QED BY <1>0 DEF GoesOn
  <2>1. Found(ts) = {}
    <3>1. Found(ts) \subseteq Nat
      <4>. HIDE DEF Near
      <4>. QED BY <2>0
    <3>. HIDE DEF Found
    <3>. QED BY <1>1, <3>1, AnswerLaws
  <2>2. Found(more) \cap 1..Len(MetricSeries(ts)) = {}
    <3>. SUFFICES ASSUME NEW k \in Found(more), k \in 1..Len(MetricSeries(ts)) PROVE FALSE
      <4>. HIDE DEF Found
      <4>. QED OBVIOUS
    <3>. HIDE DEF more
    <3>1. Monotone(more, MetricSeries(more)) /\ k \in 3..Len(MetricSeries(more)) /\ Near(more, k)
      <4>. HIDE DEF Near
      <4>. QED OBVIOUS
    <3>2. Monotone(ts, MetricSeries(ts))
      BY <1>0, <3>1, MonotoneBefore
    <3>. DEFINE m == Len(MetricSeries(ts))
    <3>3. m \in Nat /\ k \in 3..m /\ k - 1 \in 1..m /\ k - 2 \in 1..m
      BY <1>0, <3>1 DEF GoesOn
    <3>4. /\ M(more, k) = M(ts, k) /\ M(more, k - 1) = M(ts, k - 1)
          /\ M(more, k - 2) = M(ts, k - 2)
          /\ more[MetricSeries(more)[k]] = ts[MetricSeries(ts)[k]]
      BY <1>0, <3>3 DEF GoesOn
    <3>5. Near(ts, k)
      <4>. HIDE DEF M
      <4>. QED BY <3>1, <3>4
    <3>6. k \in Found(ts)
      <4>. HIDE DEF Near
      <4>. QED BY <3>2, <3>3, <3>5
    <3>. QED BY <2>1, <3>6
  <2>3. Found(more) \subseteq 1..Len(MetricSeries(more))
    <3>. HIDE DEF more, Near
    <3>1. 3..Len(MetricSeries(more)) \subseteq 1..Len(MetricSeries(more))
      BY <1>0 DEF GoesOn
    <3>. QED BY <3>1
  <2>. HIDE DEF Found
  <2>. QED BY <1>1, <2>2, <2>3, FoundLast
<1>. QED BY <1>2, <1>3

------------------------------------------------------------------------------
(* What the rules say of the trials themselves.  The series takes the      *)
(* measured trials in their order, and misses none; one that is monotone   *)
(* from each to the next is so from each to any later one.                 *)
SeenIn(ts) == {i \in 1..Len(ts) : Measured(ts[i])}
NormOf(ts, i) == Only(ts[i].metric)
Ordered(ts) ==
  /\ \A k, l \in 1..Len(MetricSeries(ts)) : k < l => MetricSeries(ts)[k] < MetricSeries(ts)[l]
  /\ \A i \in SeenIn(ts) : \E k \in 1..Len(MetricSeries(ts)) : MetricSeries(ts)[k] = i
  /\ Monotone(ts, MetricSeries(ts)) =>
       \A k, l \in 1..Len(MetricSeries(ts)) :
         k < l => NormOf(ts, MetricSeries(ts)[l]) <= NormOf(ts, MetricSeries(ts)[k])

LEMMA OrderedAtFirst == Ordered(<<>>)
<1>1. <<>> \in Seq({}) /\ Len(<<>>) = 0
  OBVIOUS
<1>2. MetricSeries(<<>>) \in Seq(1..0)
  BY <1>1, SeriesTyped
<1>3. 1..Len(MetricSeries(<<>>)) = {}
  <2>. DEFINE s == MetricSeries(<<>>)
  <2>1. s \in Seq({})
    BY <1>2
  <2>. HIDE DEF s
  <2>2. \A k \in 1..Len(s) : FALSE
    BY <2>1
  <2>. QED BY <2>2 DEF s
<1>4. SeenIn(<<>>) = {}
  BY <1>1 DEF SeenIn
<1>. QED BY <1>3, <1>4 DEF Ordered

LEMMA OrderedGrows ==
  ASSUME NEW R, NEW ts \in Seq(R), NEW e \in R, \A x \in R : x.metric \in Metrics, Ordered(ts)
  PROVE  Ordered(Append(ts, e))
<1>. DEFINE n == Len(ts)
            more == Append(ts, e)
            old == MetricSeries(ts)
            new == MetricSeries(more)
            m == Len(old)
<1>1. /\ n \in Nat /\ old \in Seq(1..n) /\ m \in Nat /\ \A k \in 1..m : old[k] \in 1..n
      /\ \A k \in 1..m : Measured(ts[old[k]])
  BY SeriesTyped
<1>2. new = IF Measured(e) THEN Append(old, n + 1) ELSE old
  BY SeriesGrows
<1>3. Len(more) = n + 1 /\ more[n + 1] = e /\ \A i \in 1..n : more[i] = ts[i]
  OBVIOUS
<1>4. GoesOn(ts, more) /\ Len(old) <= Len(new)
  BY SeriesKeeps, SeriesLonger
<1>5. \A i \in 1..n : NormOf(ts, i) = NormOf(more, i)
  BY <1>3 DEF NormOf
<1>6. ASSUME NEW i \in 1..n, Measured(ts[i]) PROVE NormOf(ts, i) \in Int
  <2>1. ts[i].metric \in Metrics /\ Given(ts[i].metric)
    BY <1>6 DEF Measured
  <2>. QED BY <2>1, MetricValue DEF NormOf
<1>7. Monotone(more, new) => Monotone(ts, old)
  BY <1>4, MonotoneBefore
<1>8. SeenIn(more) = SeenIn(ts) \cup (IF Measured(e) THEN {n + 1} ELSE {})
  <2>. HIDE DEF more, n
  <2>1. 1..n + 1 = 1..n \cup {n + 1}
    BY <1>1
  <2>. QED BY <1>1, <1>3, <2>1 DEF SeenIn, n
<1>9. /\ \A k, l \in 1..m : k < l => old[k] < old[l]
      /\ \A i \in SeenIn(ts) : \E k \in 1..m : old[k] = i
      /\ Monotone(ts, old) =>
           \A k, l \in 1..m : k < l => NormOf(ts, old[l]) <= NormOf(ts, old[k])
  BY DEF Ordered
<1>. HIDE DEF more, old, new, n, m
<1>10. CASE ~Measured(e)
  <2>1. new = old /\ SeenIn(more) = SeenIn(ts)
    BY <1>2, <1>8, <1>10
  <2>2. \A k \in 1..m : NormOf(more, new[k]) = NormOf(ts, old[k])
    BY <1>1, <1>5, <2>1
  <2>3. Ordered(more)
    BY <1>7, <1>9, <2>1, <2>2 DEF Ordered, new, m
  <2>. QED BY <2>3 DEF more
<1>11. CASE Measured(e)
  <2>1. /\ Len(new) = m + 1 /\ new[m + 1] = n + 1 /\ \A k \in 1..m : new[k] = old[k]
        /\ SeenIn(more) = SeenIn(ts) \cup {n + 1}
    BY <1>1, <1>2, <1>8, <1>11 DEF m
  <2>2. \A k \in 1..m + 1 : k \in 1..m \/ k = m + 1
    BY <1>1
  <2>3. ASSUME NEW k \in 1..m + 1, NEW l \in 1..m + 1, k < l PROVE new[k] < new[l]
    <3>1. k \in 1..m
      BY <1>1, <2>3
    <3>2. CASE l \in 1..m
      BY <1>9, <2>1, <2>3, <3>1, <3>2
    <3>3. CASE l = m + 1
      BY <1>1, <2>1, <3>1, <3>3
    <3>. QED BY <2>2, <3>2, <3>3
  <2>4. ASSUME NEW i \in SeenIn(more) PROVE \E k \in 1..m + 1 : new[k] = i
    <3>1. CASE i = n + 1
      BY <1>1, <2>1, <3>1
    <3>2. CASE i \in SeenIn(ts)
      <4>1. PICK k \in 1..m : old[k] = i
        BY <1>9, <3>2
      <4>2. k \in 1..m + 1 /\ new[k] = i
        BY <1>1, <2>1, <4>1
      <4>. QED BY <4>2
    <3>. QED BY <2>1, <3>1, <3>2
  <2>5. ASSUME Monotone(more, new), NEW k \in 1..m + 1, NEW l \in 1..m + 1, k < l
        PROVE  NormOf(more, new[l]) <= NormOf(more, new[k])
    <3>1. k \in 1..m /\ new[k] = old[k] /\ NormOf(more, new[k]) = NormOf(ts, old[k])
      BY <1>1, <1>5, <2>1, <2>5
    <3>2. \A i, j \in 1..m : i < j => NormOf(ts, old[j]) <= NormOf(ts, old[i])
      BY <1>7, <1>9, <2>5
    <3>3. CASE l \in 1..m
      BY <1>1, <1>5, <2>1, <2>5, <3>1, <3>2, <3>3
    <3>4. CASE l = m + 1
      <4>1. m \in 1..m /\ new[m] = old[m] /\ NormOf(more, new[m]) = NormOf(ts, old[m])
        BY <1>1, <1>5, <2>1, <3>1
      <4>2. NormOf(more, new[l]) <= NormOf(more, new[m])
        <5>1. l \in 2..Len(new) /\ l - 1 = m
          BY <1>1, <2>1, <3>1, <3>4
        <5>. QED BY <2>5, <5>1 DEF Monotone, NormOf
      <4>3. NormOf(ts, old[m]) <= NormOf(ts, old[k])
        <5>1. CASE k = m
          BY <1>1, <1>6, <4>1, <5>1
        <5>2. CASE k < m
          BY <3>1, <3>2, <4>1, <5>2
        <5>. QED BY <1>1, <3>1, <5>1, <5>2
      <4>4. NormOf(ts, old[m]) \in Int /\ NormOf(ts, old[k]) \in Int
        BY <1>1, <1>6, <3>1, <4>1
      <4>5. NormOf(more, new[l]) \in Int
        <5>1. NormOf(more, new[l]) = Only(e.metric) /\ e.metric \in Metrics /\ Given(e.metric)
          BY <1>3, <1>11, <2>1, <3>4 DEF NormOf, Measured
        <5>. QED BY <5>1, MetricValue
      <4>. QED BY <3>1, <4>1, <4>2, <4>3, <4>4, <4>5
    <3>. QED BY <2>2, <3>3, <3>4
  <2>6. Ordered(more)
    BY <2>1, <2>3, <2>4, <2>5 DEF Ordered, new
  <2>. QED BY <2>6 DEF more
<1>. QED BY <1>10, <1>11

(* The first place of the series that a rule finds.                        *)
LEMMA FoundIs ==
  ASSUME NEW R, NEW ts \in Seq(R), NEW found, found \subseteq 1..Len(MetricSeries(ts)),
         Answer(ts, found, MetricSeries(ts)).converged
  PROVE  \E k \in found :
           /\ Answer(ts, found, MetricSeries(ts)).best = MetricSeries(ts)[k]
           /\ MetricSeries(ts)[k] \in SeenIn(ts)
           /\ \A l \in found : k <= l
<1>. DEFINE series == MetricSeries(ts)
<1>1. series \in Seq(1..Len(ts)) /\ \A k \in 1..Len(series) : Measured(ts[series[k]])
  BY SeriesTyped
<1>. HIDE DEF series
<1>2. found \subseteq 1..Len(series) /\ found \subseteq Nat
  BY <1>1 DEF series
<1>3. PICK k \in found : Answer(ts, found, series).best = series[k] /\ \A l \in found : k <= l
  BY <1>2, AnswerLaws DEF series
<1>4. series[k] \in SeenIn(ts)
  BY <1>1, <1>2 DEF SeenIn
<1>. QED BY <1>3, <1>4 DEF series

(* What is recommended when nothing is found: among the runs that          *)
(* completed with a metric, none has a smaller positive one.               *)
LEMMA FallbackLaws ==
  ASSUME NEW R, NEW ts \in Seq(R), \A x \in R : x.metric \in Metrics, NEW i \in SeenIn(ts)
  PROVE  Fallback(ts) \in SeenIn(ts) /\ NormOf(ts, Fallback(ts)) <= NormOf(ts, i)
<1>. DEFINE C == {j \in 1..Len(ts) : ts[j].status = "completed" /\ Given(ts[j].metric)}
            Key(j) == Only(ts[j].metric)
            m == [j \in C |-> IF Key(j) = 0 THEN 3 ELSE Key(j)]
            Less(a, b) == Key(a) # 0 /\ (Key(b) = 0 \/ Key(a) < Key(b))
            Ahead(a) == \A j \in C : Less(a, j) \/ (~Less(j, a) /\ a <= j)
<1>1. C \subseteq Nat /\ C # {} /\ i \in C
  BY DEF SeenIn, Measured
<1>2. \A j \in C : Key(j) \in 0..2
  <2>1. \A j \in C : ts[j].metric \in Metrics /\ Given(ts[j].metric)
    OBVIOUS
  <2>. QED BY <2>1, MetricValue
<1>3. Fallback(ts) = CHOOSE a \in C : Ahead(a)
  BY <1>1 DEF Fallback
<1>4. \E a \in C : Ahead(a)
  <2>1. m \in [C -> 0..3] /\ \A j \in C : m[j] = IF Key(j) = 0 THEN 3 ELSE Key(j)
    BY <1>2
  <2>2. PICK a \in C : \A j \in C : Better(m[a], m[j], "minimize") \/ (m[a] = m[j] /\ a <= j)
    <3>. HIDE DEF C, m
    <3>. QED BY <1>1, <2>1, BestExists
  <2>. HIDE DEF C, m, Key
  <2>3. ASSUME NEW j \in C PROVE Less(a, j) \/ (~Less(j, a) /\ a <= j)
    <3>1. Key(a) \in 0..2 /\ Key(j) \in 0..2
      BY <1>2, <2>2
    <3>2. m[a] < m[j] \/ (m[a] = m[j] /\ a <= j)
      BY <2>2 DEF Better
    <3>. QED BY <2>1, <3>1, <3>2
  <2>. QED BY <2>2, <2>3
<1>. DEFINE b == Fallback(ts)
<1>5. b \in C /\ Ahead(b)
  BY <1>3, <1>4
<1>. HIDE DEF b
<1>6. Key(i) > 0 /\ Key(i) \in 0..2 /\ Key(b) \in 0..2
  BY <1>1, <1>2, <1>5 DEF SeenIn, Measured
<1>7. Key(b) > 0 /\ Key(b) <= Key(i)
  BY <1>1, <1>5, <1>6
<1>8. b \in SeenIn(ts)
  BY <1>5, <1>7 DEF SeenIn, Measured
<1>. QED BY <1>7, <1>8 DEF b, NormOf

(* What is converged under each rule.                                      *)
Accepts(ts, tolerance, i) == ts[i].valid /\ NormOf(ts, i) <= tolerance

LEMMA AbsoluteConverges ==
  ASSUME NEW R, NEW ts \in Seq(R), Ordered(ts), NEW tolerance, NEW a,
         a = AbsoluteRule(ts, tolerance)
  PROVE  /\ a.converged => /\ a.best \in SeenIn(ts) /\ Accepts(ts, tolerance, a.best)
                           /\ \A i \in SeenIn(ts) : Accepts(ts, tolerance, i) => a.best <= i
         /\ ~a.converged => /\ a.best = Fallback(ts)
                            /\ \A i \in SeenIn(ts) : ~Accepts(ts, tolerance, i)
<1>. DEFINE series == MetricSeries(ts)
            Found == {k \in 1..Len(series) : Accepts(ts, tolerance, series[k])}
<1>1. a = Answer(ts, Found, series)
  BY DEF AbsoluteRule, Accepts, NormOf
<1>2. series \in Seq(1..Len(ts)) /\ Len(ts) \in Nat
  BY SeriesTyped
<1>3. /\ \A k, l \in 1..Len(series) : k < l => series[k] < series[l]
      /\ \A i \in SeenIn(ts) : \E k \in 1..Len(series) : series[k] = i
  BY DEF Ordered
<1>4. Found \subseteq 1..Len(series) /\ Found \subseteq Nat
  BY <1>2
<1>5. \A i \in SeenIn(ts) :
        Accepts(ts, tolerance, i) => \E k \in Found : series[k] = i
  <2>. HIDE DEF series
  <2>. QED BY <1>3
<1>6. CASE a.converged
  <2>1. PICK k \in Found : /\ a.best = series[k] /\ series[k] \in SeenIn(ts)
                           /\ \A l \in Found : k <= l
    <3>. HIDE DEF Found
    <3>. QED BY <1>1, <1>4, <1>6, FoundIs
  <2>2. ASSUME NEW i \in SeenIn(ts), Accepts(ts, tolerance, i) PROVE a.best <= i
    <3>1. PICK l \in Found : series[l] = i
      BY <1>5, <2>2
    <3>2. k <= l /\ k \in 1..Len(series) /\ l \in 1..Len(series)
      BY <1>4, <2>1
    <3>3. series[k] \in Nat /\ series[l] \in Nat
      <4>. HIDE DEF series
      <4>. QED BY <1>2, <3>2
    <3>. HIDE DEF series, Found
    <3>4. k \in Nat /\ l \in Nat
      BY <1>4
    <3>. QED BY <1>3, <2>1, <3>1, <3>2, <3>3, <3>4
  <2>. QED BY <1>6, <2>1, <2>2
<1>7. CASE ~a.converged
  <2>1. Found = {}
    <3>. HIDE DEF Found
    <3>. QED BY <1>1, <1>4, <1>7, AnswerLaws
  <2>2. a.best = Fallback(ts)
    <3>. HIDE DEF Found
    <3>. QED BY <1>1, <1>4, <2>1, AnswerLaws
  <2>. QED BY <1>5, <1>7, <2>1, <2>2
<1>. QED BY <1>6, <1>7

LEMMA DropConverges ==
  ASSUME NEW R, NEW ts \in Seq(R), Ordered(ts), NEW drop, NEW a, a = RelativeDropRule(ts, drop)
  PROVE  /\ a.converged => /\ a.best \in SeenIn(ts) /\ ts[a.best].valid
                           /\ \E i \in SeenIn(ts) :
                                i < a.best /\ NormOf(ts, a.best) * drop <= NormOf(ts, i)
         /\ ~a.converged => a.best = Fallback(ts)
<1>. DEFINE series == MetricSeries(ts)
            M(k) == NormOf(ts, series[k])
            Found == {k \in 2..Len(series) : M(k) * drop <= M(k - 1) /\ ts[series[k]].valid}
<1>1. a = Answer(ts, Found, series)
  BY DEF RelativeDropRule, NormOf
<1>2. /\ series \in Seq(1..Len(ts)) /\ Len(series) \in Nat
      /\ \A k \in 1..Len(series) : series[k] \in SeenIn(ts)
  <2>1. series \in Seq(1..Len(ts)) /\ \A k \in 1..Len(series) : Measured(ts[series[k]])
    BY SeriesTyped
  <2>. HIDE DEF series
  <2>. QED BY <2>1 DEF SeenIn
<1>3. \A k, l \in 1..Len(series) : k < l => series[k] < series[l]
  BY DEF Ordered
<1>. HIDE DEF series, M
<1>4. Found \subseteq 1..Len(series) /\ Found \subseteq Nat
  BY <1>2
<1>5. CASE a.converged
  <2>1. PICK k \in Found : a.best = series[k] /\ series[k] \in SeenIn(ts)
    <3>. HIDE DEF Found
    <3>. QED BY <1>1, <1>4, <1>5, FoundIs DEF series
  <2>2. k - 1 \in 1..Len(series) /\ k \in 1..Len(series) /\ k - 1 < k
    BY <1>2, <2>1
  <2>3. series[k - 1] \in SeenIn(ts) /\ series[k - 1] < a.best
    BY <1>2, <1>3, <2>1, <2>2
  <2>4. NormOf(ts, a.best) * drop <= NormOf(ts, series[k - 1]) /\ ts[a.best].valid
    <3>1. M(k) * drop <= M(k - 1) /\ ts[series[k]].valid
      BY <2>1
    <3>. QED BY <2>1, <3>1 DEF M
  <2>. QED BY <1>5, <2>1, <2>3, <2>4
<1>6. CASE ~a.converged
  <2>. HIDE DEF Found
  <2>1. Found = {}
    BY <1>1, <1>4, <1>6, AnswerLaws
  <2>2. a.best = Fallback(ts)
    BY <1>1, <2>1, AnswerLaws
  <2>. QED BY <1>6, <2>2
<1>. QED BY <1>5, <1>6

LEMMA PlateauConverges ==
  ASSUME NEW R, NEW ts \in Seq(R), Ordered(ts), NEW flat, NEW a, a = PlateauRule(ts, flat)
  PROVE  /\ a.converged => /\ a.best \in SeenIn(ts) /\ ts[a.best].valid
                           /\ \A i, j \in SeenIn(ts) : i < j => NormOf(ts, j) <= NormOf(ts, i)
         /\ ~a.converged => a.best = Fallback(ts)
<1>. DEFINE series == MetricSeries(ts)
            M(k) == NormOf(ts, series[k])
            Delta(k) == Abs(M(k) * M(k - 2) - M(k - 1) * M(k - 1))
            Near(k) == Delta(k) * flat < M(k - 1) * M(k - 2) /\ ts[series[k]].valid
            Found == IF ~Monotone(ts, series) THEN {} ELSE {k \in 3..Len(series) : Near(k)}
<1>1. a = Answer(ts, Found, series)
  BY DEF PlateauRule, NormOf
<1>2. Len(series) \in Nat /\ \A k \in 1..Len(series) : series[k] \in Nat
  <2>1. series \in Seq(1..Len(ts))
    BY SeriesTyped
  <2>. HIDE DEF series
  <2>. QED BY <2>1
<1>3. /\ \A k, l \in 1..Len(series) : k < l => series[k] < series[l]
      /\ \A i \in SeenIn(ts) : \E k \in 1..Len(series) : series[k] = i
      /\ Monotone(ts, series) => \A k, l \in 1..Len(series) : k < l => M(l) <= M(k)
  BY DEF Ordered
<1>4. \A k \in Found : ts[series[k]].valid /\ Monotone(ts, series)
  OBVIOUS
<1>. HIDE DEF series, M, Near
<1>5. Found \subseteq 1..Len(series) /\ Found \subseteq Nat
  BY <1>2
<1>. HIDE DEF Found
<1>6. CASE a.converged
  <2>1. PICK k \in Found : a.best = series[k] /\ series[k] \in SeenIn(ts)
    BY <1>1, <1>5, <1>6, FoundIs DEF series
  <2>2. ASSUME NEW i \in SeenIn(ts), NEW j \in SeenIn(ts), i < j
        PROVE  NormOf(ts, j) <= NormOf(ts, i)
    <3>1. PICK p \in 1..Len(series) : series[p] = i
      BY <1>3
    <3>2. PICK q \in 1..Len(series) : series[q] = j
      BY <1>3
    <3>3. p < q
      <4>1. p # q /\ ~(q < p)
        BY <1>2, <1>3, <2>2, <3>1, <3>2
      <4>. QED BY <1>2, <4>1
    <3>4. M(q) <= M(p)
      BY <1>3, <1>4, <2>1, <3>3
    <3>. QED BY <3>1, <3>2, <3>4 DEF M
  <2>. QED BY <1>4, <1>6, <2>1, <2>2
<1>7. CASE ~a.converged
  <2>1. Found = {}
    BY <1>1, <1>5, <1>7, AnswerLaws
  <2>2. a.best = Fallback(ts)
    BY <1>1, <2>1, AnswerLaws
  <2>. QED BY <1>7, <2>2
<1>. QED BY <1>6, <1>7

------------------------------------------------------------------------------
(* The Pareto front: F grows with the fidelity and D with the depth of a   *)
(* trial.                                                                  *)
Entries(ts) ==
  {i \in 1..Len(ts) : ts[i].valid /\ Given(ts[i].metric) /\ Given(ts[i].depth)}
Fidelity(ts, i) == Only(ts[i].metric)
Depth(ts, i) == Only(ts[i].depth)
Covers(ts, j, i) == Fidelity(ts, j) >= Fidelity(ts, i) /\ Depth(ts, j) <= Depth(ts, i)

LEMMA EntryValues ==
  ASSUME TrialsTyped, NEW i \in Entries(trials)
  PROVE  Fidelity(trials, i) \in 0..2 /\ Depth(trials, i) \in 1..2
<1>1. i \in Trials /\ Given(trials[i].metric) /\ Given(trials[i].depth)
  BY DEF Entries, Trials
<1>2. trials[i].metric \in Metrics /\ trials[i].depth \in Depths
  BY <1>1, TrialTyped
<1>3. Depth(trials, i) \in 1..2
  BY <1>1, <1>2, OnlySome DEF Depth, Depths, Given, None, Some
<1>. QED BY <1>1, <1>2, <1>3, MetricValue DEF Fidelity

(* Of the entries that cover one, a least one by fidelity and depth is     *)
(* covered by none that it does not cover.                                 *)
LEMMA UndominatedExists ==
  ASSUME TrialsTyped, NEW i \in Entries(trials)
  PROVE  \E j \in Entries(trials) :
           /\ Covers(trials, j, i)
           /\ \A k \in Entries(trials) : Covers(trials, k, j) => Covers(trials, j, k)
<1>. DEFINE C == {j \in Entries(trials) : Covers(trials, j, i)}
            Rank(j) == 3 * (2 - Fidelity(trials, j)) + Depth(trials, j)
            Ranks == {Rank(j) : j \in C}
<1>1. \A j \in C : Rank(j) \in Nat
  BY EntryValues
<1>2. i \in C
  BY EntryValues DEF Covers
<1>3. Ranks \subseteq Nat /\ Ranks # {}
  <2>. HIDE DEF C, Rank
  <2>. QED BY <1>1, <1>2
<1>4. PICK r \in Ranks : \A q \in Ranks : r <= q
  <2>. HIDE DEF Ranks
  <2>. QED BY <1>3, LeastOfNaturals
<1>5. PICK j \in C : r = Rank(j)
  <2>. HIDE DEF C, Rank
  <2>. QED BY <1>4
<1>6. ASSUME NEW k \in Entries(trials), Covers(trials, k, j)
      PROVE  Covers(trials, j, k)
  <2>1. /\ Fidelity(trials, i) \in 0..2 /\ Depth(trials, i) \in 1..2
        /\ Fidelity(trials, j) \in 0..2 /\ Depth(trials, j) \in 1..2
        /\ Fidelity(trials, k) \in 0..2 /\ Depth(trials, k) \in 1..2
        /\ Covers(trials, j, i)
    BY <1>5, EntryValues
  <2>2. k \in C
    BY <1>6, <2>1 DEF Covers
  <2>3. Rank(j) <= Rank(k)
    <3>. HIDE DEF C, Rank
    <3>. QED BY <1>4, <1>5, <2>2
  <2>. QED BY <1>6, <2>1, <2>3 DEF Covers
<1>. QED BY <1>5, <1>6

LEMMA ParetoLaws ==
  ASSUME TrialsTyped
  PROVE  /\ ParetoFront(trials) \subseteq Entries(trials)
         /\ \A i \in Entries(trials) : \E j \in ParetoFront(trials) : Covers(trials, j, i)
         /\ \A i, j \in ParetoFront(trials) : Covers(trials, j, i) => Covers(trials, i, j)
<1>. DEFINE E == Entries(trials)
            Dominates(j, i) == Covers(trials, j, i) /\
                               \/ Fidelity(trials, j) > Fidelity(trials, i)
                               \/ Depth(trials, j) < Depth(trials, i)
<1>1. ParetoFront(trials) =
        IF Cardinality(E) < 2 THEN E ELSE {i \in E : ~\E j \in E : i # j /\ Dominates(j, i)}
  BY DEF ParetoFront, Entries, Covers, Fidelity, Depth
<1>2. \A i \in E : Fidelity(trials, i) \in 0..2 /\ Depth(trials, i) \in 1..2
  BY EntryValues
<1>3. CASE Cardinality(E) < 2
  <2>1. IsFiniteSet(E)
    <3>1. Len(trials) \in Nat
      BY DEF TrialsTyped
    <3>2. IsFiniteSet(1..Len(trials))
      BY <3>1, FS_Interval
    <3>. QED BY <3>2, FS_Subset DEF Entries
  <2>2. ASSUME NEW i \in E, NEW j \in E PROVE i = j
    <3>. SUFFICES ASSUME i # j PROVE FALSE
      OBVIOUS
    <3>1. {i, j} \subseteq E /\ IsFiniteSet({i, j}) /\ Cardinality({i, j}) = 2
      <4>1. Cardinality({i}) = 1 /\ IsFiniteSet({i})
        BY FS_Singleton
      <4>2. IsFiniteSet({i} \cup {j}) /\ Cardinality({i} \cup {j}) = 2
        BY <4>1, FS_AddElement
      <4>3. {i, j} = {i} \cup {j}
        OBVIOUS
      <4>. QED BY <4>2, <4>3
    <3>2. Cardinality({i, j}) <= Cardinality(E) /\ Cardinality(E) \in Nat
      <4>. HIDE DEF E
      <4>. QED BY <2>1, <3>1, FS_Subset, FS_CardinalityType
    <3>. QED BY <1>3, <3>1, <3>2
  <2>3. \A i \in E : Covers(trials, i, i)
    BY <1>2 DEF Covers
  <2>. HIDE DEF E
  <2>. QED BY <1>1, <1>3, <2>2, <2>3 DEF E
<1>4. CASE ~(Cardinality(E) < 2)
  <2>1. ParetoFront(trials) = {i \in E : ~\E j \in E : i # j /\ Dominates(j, i)}
    BY <1>1, <1>4
  <2>2. ASSUME NEW i \in E PROVE \E j \in ParetoFront(trials) : Covers(trials, j, i)
    <3>1. PICK j \in E : /\ Covers(trials, j, i)
                         /\ \A k \in E : Covers(trials, k, j) => Covers(trials, j, k)
      BY UndominatedExists
    <3>2. ASSUME NEW k \in E, Dominates(k, j) PROVE FALSE
      <4>1. Covers(trials, k, j) /\ Covers(trials, j, k)
        BY <3>1, <3>2
      <4>. QED BY <1>2, <3>2, <4>1 DEF Covers
    <3>. HIDE DEF Dominates, E
    <3>. QED BY <2>1, <3>1, <3>2
  <2>3. ASSUME NEW i \in ParetoFront(trials), NEW j \in ParetoFront(trials), Covers(trials, j, i)
        PROVE  Covers(trials, i, j)
    <3>1. i \in E /\ j \in E /\ (i # j => ~Dominates(j, i))
      <4>. HIDE DEF Dominates, E
      <4>. QED BY <2>1
    <3>. QED BY <1>2, <2>3, <3>1 DEF Covers
  <2>. QED BY <2>1, <2>2, <2>3
<1>. QED BY <1>3, <1>4

(* The specification of a study is read and never written.                 *)
LEMMA StudyFixed == StudyKnown /\ [Next]_vars => UNCHANGED study
<1>. SUFFICES ASSUME StudyKnown, [Next]_vars PROVE UNCHANGED study
  OBVIOUS
<1>1. CASE Generate
  <2>1. PICK grid, cut : Begin(grid, cut)
    BY <1>1, GenerateBegins
  <2>. QED BY <2>1 DEF Begin
<1>2. CASE LoopTrial
  BY <1>2, LoopTries DEF Tries, GivesUp, RestOfStudy
<1>3. CASE StartTrial \/ CancelWaiting \/ RaiseStudy \/ \E i \in Trials : FinishTrial(i)
  BY <1>3 DEF StartTrial, CancelWaiting, RaiseStudy, FinishTrial, RestOfStudy
<1>4. CASE Conclude
  BY <1>4 DEF Conclude, OctaveReport, FealpyReport, BoutppReport, PycfdReport, MooseReport,
     JediReport, QcomputeReport, NektarReport, DeepMDReport, HandOffTrial, Report
<1>5. CASE Propose
  BY <1>5 DEF Propose
<1>6. CASE UNCHANGED vars
  BY <1>6 DEF vars
<1>. QED BY <1>1, <1>2, <1>3, <1>4, <1>5, <1>6 DEF Next, RunTrial, LoopTrial, Finished


------------------------------------------------------------------------------
(* The series of a convergence study is in order however many trials it    *)
(* has.                                                                    *)
SeriesInOrder == study.kind = "nektar" => Ordered(trials)

LEMMA InitSeries == Init => SeriesInOrder
BY OrderedAtFirst DEF Init, SeriesInOrder

LEMMA SeriesStays ==
  ASSUME SeriesInOrder, UNCHANGED study, study.kind # "nektar" \/ UNCHANGED trials
  PROVE  SeriesInOrder'
<1>1. CASE study.kind # "nektar"
  BY <1>1 DEF SeriesInOrder
<1>2. CASE study.kind = "nektar"
  <2>1. Ordered(trials)' = Ordered(trials')
    OBVIOUS
  <2>. QED BY <1>2, <2>1 DEF SeriesInOrder
<1>. QED BY <1>1, <1>2

LEMMA NextSeries == Course /\ SeriesInOrder /\ [Next]_vars => SeriesInOrder'
<1>. SUFFICES ASSUME Course, SeriesInOrder, [Next]_vars PROVE SeriesInOrder'
  OBVIOUS
<1>0. UNCHANGED study
  BY StudyFixed DEF Course
<1>1. CASE Generate
  <2>1. PICK grid, cut : Begin(grid, cut)
    BY <1>1, GenerateBegins DEF Course
  <2>. QED BY <1>0, <2>1, SeriesStays DEF Begin
<1>2. CASE NektarTrial
  <2>1. PICK e \in TrialRecords({Upcoming}) : Tries(e)
    BY <1>2, NektarTries
  <2>2. study.kind = "nektar" /\ trials' = Append(trials, e)
    BY <1>2, <2>1 DEF Tries, NektarTrial
  <2>3. PICK S : trials \in Seq(TrialRecords(S))
    BY DEF Course, TrialsTyped
  <2>. DEFINE R == TrialRecords(S \cup {Upcoming})
  <2>4. trials \in Seq(R) /\ e \in R
    <3>1. TrialRecords(S) \subseteq R /\ TrialRecords({Upcoming}) \subseteq R
      BY RecordsMono
    <3>. HIDE DEF R
    <3>2. trials \in Seq(R)
      BY <2>3, <3>1, SeqMono
    <3>. QED BY <2>1, <3>1, <3>2
  <2>5. \A x \in R : x.metric \in Metrics
    BY DEF TrialRecords
  <2>. HIDE DEF R
  <2>6. Ordered(Append(trials, e))
    BY <2>2, <2>4, <2>5, OrderedGrows DEF SeriesInOrder
  <2>7. Ordered(trials)' = Ordered(trials')
    OBVIOUS
  <2>. QED BY <2>2, <2>6, <2>7 DEF SeriesInOrder
<1>3. CASE RunTrial /\ ~NektarTrial
  <2>1. study.kind # "nektar" \/ UNCHANGED trials
    BY <1>3 DEF RunTrial, OctaveTrial, FealpyTrial, DeepMDTrial, JediTrial, BoutppTrial,
       PycfdTrial, MooseTrial, StartTrial, FinishTrial, CancelWaiting, RaiseStudy
  <2>. QED BY <1>0, <2>1, SeriesStays
<1>4. CASE Conclude
  <2>1. UNCHANGED trials
    BY <1>4 DEF Conclude, OctaveReport, FealpyReport, BoutppReport, PycfdReport, MooseReport,
       JediReport, QcomputeReport, NektarReport, DeepMDReport, HandOffTrial, Report
  <2>. QED BY <1>0, <2>1, SeriesStays
<1>5. CASE Propose
  BY <1>0, <1>5, SeriesStays DEF Propose
<1>6. CASE UNCHANGED vars
  BY <1>0, <1>6, SeriesStays DEF vars
<1>. QED BY <1>1, <1>2, <1>3, <1>4, <1>5, <1>6 DEF Next, Finished

LEMMA SpecSeries == Spec => []SeriesInOrder
<1>. QED BY InitSeries, NextSeries, SpecCourse, PTL DEF Spec

------------------------------------------------------------------------------
(* The inductive invariant of the reports: the loop of a convergence study *)
(* goes on only while its rule has no answer but the last trial, and what  *)
(* was reported stands.                                                    *)
RuleWaits ==
  study.kind = "nektar" /\ stage = "trials" /\ study.early /\ Evaluate(trials).converged =>
    Evaluate(trials).best = Len(trials)
Reports ==
  /\ RuleWaits
  /\ RecommendationStands /\ ConvergenceStands /\ EarlyStopIsTheAnswer /\ FrontIsPareto

LEMMA EvaluateLaws ==
  ASSUME StudyKnown, study.kind = "nektar", NEW R, NEW ts \in Seq(R), NEW e \in R
  PROVE  Stands(ts, Evaluate(ts)) /\ Stops(Append(ts, e), Evaluate(ts), Evaluate(Append(ts, e)))
<1>1. CASE study.rule = "absolute"
  <2>1. \A t : Evaluate(t) = AbsoluteRule(t, Only(study.tolerance))
    BY <1>1 DEF Evaluate
  <2>. QED BY <2>1, AbsoluteLaws
<1>2. CASE study.rule = "relative_drop"
  <2>1. \A t : Evaluate(t) = RelativeDropRule(t, Drop)
    BY <1>2 DEF Evaluate
  <2>. QED BY <2>1, RelativeDropLaws
<1>3. CASE study.rule = "plateau"
  <2>1. \A t : Evaluate(t) = PlateauRule(t, Flat)
    BY <1>3 DEF Evaluate
  <2>. QED BY <2>1, PlateauLaws
<1>. QED BY <1>1, <1>2, <1>3 DEF StudyKnown

LEMMA EvaluateStands ==
  ASSUME StudyKnown, study.kind = "nektar", TrialsTyped
  PROVE  Stands(trials, Evaluate(trials))
<1>1. PICK S : trials \in Seq(TrialRecords(S))
  BY DEF TrialsTyped
<1>. DEFINE e == Broken(0)
<1>2. e \in TrialRecords(S \cup {0}) /\ trials \in Seq(TrialRecords(S \cup {0}))
  <2>1. TrialRecords(S) \subseteq TrialRecords(S \cup {0})
    BY RecordsMono
  <2>2. TrialRecords({0}) \subseteq TrialRecords(S \cup {0})
    BY RecordsMono
  <2>3. trials \in Seq(TrialRecords(S \cup {0}))
    BY <1>1, <2>1, SeqMono
  <2>. QED BY <2>2, <2>3, BrokenTyped
<1>. HIDE DEF e
<1>. QED BY <1>2, EvaluateLaws

LEMMA InitReports == Init => Reports
<1>. SUFFICES ASSUME Init PROVE Reports
  OBVIOUS
<1>. QED BY DEF Init, Reports, RuleWaits, RecommendationStands, ConvergenceStands,
            EarlyStopIsTheAnswer, FrontIsPareto, Reported

(* A step to a stage without a report.                                     *)
LEMMA NoReportYet ==
  ASSUME stage' \notin {"handoff", "done", "proposed"}, UNCHANGED study,
         study.kind # "nektar" \/ stage' # "trials" \/ RuleWaits'
  PROVE  Reports'
BY DEF Reports, RuleWaits, RecommendationStands, ConvergenceStands, EarlyStopIsTheAnswer,
   FrontIsPareto, Reported

(* A step after the report changes nothing of it.                          *)
LEMMA ReportStays ==
  ASSUME Reports, Reported, stage' # "trials", stage' = "done" => stage = "done" \/ study.kind # "nektar",
         UNCHANGED <<study, queue, trials, best, converged, front>>
  PROVE  Reports'
<1>1. Trials' = Trials
  BY SameTrials
<1>2. RuleWaits' /\ EarlyStopIsTheAnswer'
  BY DEF Reports, RuleWaits, EarlyStopIsTheAnswer
<1>3. RecommendationStands' /\ FrontIsPareto'
  BY <1>1 DEF Reports, RecommendationStands, FrontIsPareto, PassedTrial
<1>4. ConvergenceStands'
  BY <1>1 DEF Reports, ConvergenceStands
<1>. QED BY <1>2, <1>3, <1>4 DEF Reports

(* The report of an extension that recommends the best trial that passed.  *)
LEMMA BestReport ==
  ASSUME Course, study.kind # "nektar", stage' \in {"handoff", "done"}, best' = Recommended,
         UNCHANGED <<study, trials>>,
         study.kind = "qcompute" => front' = ParetoFront(trials)
  PROVE  Reports'
<1>1. Trials' = Trials /\ TrialsTyped /\ ValidCompleted
  BY SameTrials DEF Course
<1>2. \A t : PassedTrial(t) => t.valid
  BY DEF PassedTrial, OctavePassed, FealpyPassed, JediPassed
<1>3. Recommended # 0 => trials[Recommended].status = "completed" /\ trials[Recommended].valid
  BY <1>1, <1>2, RecommendedIsBest DEF ValidCompleted, Sound
<1>4. \A i \in Trials :
        PassedTrial(trials[i]) /\ Given(trials[i].metric) =>
          /\ Recommended # 0
          /\ ~Better(Only(trials[i].metric), Only(trials[Recommended].metric), study.goal)
  BY <1>1, RecommendedIsBest
<1>5. RecommendationStands'
  BY <1>1, <1>3, <1>4 DEF RecommendationStands, PassedTrial
<1>6. FrontIsPareto'
  <2>. SUFFICES ASSUME study.kind = "qcompute" PROVE FrontIsPareto'
    BY DEF FrontIsPareto
  <2>1. /\ ParetoFront(trials) \subseteq Entries(trials)
        /\ \A i \in Entries(trials) : \E j \in ParetoFront(trials) : Covers(trials, j, i)
        /\ \A i, j \in ParetoFront(trials) : Covers(trials, j, i) => Covers(trials, i, j)
    BY <1>1, ParetoLaws
  <2>. QED BY <1>1, <2>1 DEF FrontIsPareto, Entries, Covers, Fidelity, Depth, Trials
<1>7. RuleWaits' /\ EarlyStopIsTheAnswer' /\ ConvergenceStands'
  BY DEF RuleWaits, EarlyStopIsTheAnswer, ConvergenceStands
<1>. QED BY <1>5, <1>6, <1>7 DEF Reports

(* What the rule of a study answers over its trials.                       *)
LEMMA EvaluateConverges ==
  ASSUME StudyKnown, TrialsTyped, SeriesInOrder, study.kind = "nektar",
         NEW a, a = Evaluate(trials)
  PROVE  /\ a.converged =>
              /\ a.best \in SeenIn(trials) /\ trials[a.best].valid
              /\ study.rule = "absolute" =>
                   /\ Accepts(trials, Only(study.tolerance), a.best)
                   /\ \A i \in SeenIn(trials) :
                        Accepts(trials, Only(study.tolerance), i) => a.best <= i
              /\ study.rule = "relative_drop" =>
                   \E i \in SeenIn(trials) :
                     i < a.best /\ NormOf(trials, a.best) * Drop <= NormOf(trials, i)
              /\ study.rule = "plateau" =>
                   \A i, j \in SeenIn(trials) : i < j => NormOf(trials, j) <= NormOf(trials, i)
         /\ ~a.converged =>
              /\ study.rule = "absolute" =>
                   \A i \in SeenIn(trials) : ~Accepts(trials, Only(study.tolerance), i)
              /\ \A i \in SeenIn(trials) :
                   a.best \in SeenIn(trials) /\ NormOf(trials, a.best) <= NormOf(trials, i)
<1>1. PICK S : trials \in Seq(TrialRecords(S))
  BY DEF TrialsTyped
<1>. DEFINE R == TrialRecords(S)
<1>2. trials \in Seq(R) /\ \A x \in R : x.metric \in Metrics
  BY <1>1 DEF TrialRecords
<1>3. Ordered(trials)
  BY DEF SeriesInOrder
<1>. HIDE DEF R
<1>4. a.best = Fallback(trials) =>
        \A i \in SeenIn(trials) :
          a.best \in SeenIn(trials) /\ NormOf(trials, a.best) <= NormOf(trials, i)
  BY <1>2, FallbackLaws
<1>5. CASE study.rule = "absolute"
  <2>1. a = AbsoluteRule(trials, Only(study.tolerance))
    BY <1>5 DEF Evaluate
  <2>2. /\ a.converged =>
             /\ a.best \in SeenIn(trials) /\ Accepts(trials, Only(study.tolerance), a.best)
             /\ \A i \in SeenIn(trials) :
                  Accepts(trials, Only(study.tolerance), i) => a.best <= i
        /\ ~a.converged =>
             /\ a.best = Fallback(trials)
             /\ \A i \in SeenIn(trials) : ~Accepts(trials, Only(study.tolerance), i)
    BY <1>2, <1>3, <2>1, AbsoluteConverges
  <2>3. a.converged => trials[a.best].valid
    BY <2>2 DEF Accepts
  <2>. QED BY <1>4, <1>5, <2>2, <2>3
<1>6. CASE study.rule = "relative_drop"
  <2>1. a = RelativeDropRule(trials, Drop)
    BY <1>6 DEF Evaluate
  <2>. QED BY <1>2, <1>3, <1>4, <1>6, <2>1, DropConverges
<1>7. CASE study.rule = "plateau"
  <2>1. a = PlateauRule(trials, Flat)
    BY <1>7 DEF Evaluate
  <2>. QED BY <1>2, <1>3, <1>4, <1>7, <2>1, PlateauConverges
<1>. QED BY <1>5, <1>6, <1>7 DEF StudyKnown

LEMMA NektarReportStands ==
  ASSUME Course, SeriesInOrder, Reports, NektarReport
  PROVE  Reports'
<1>1. /\ study.kind = "nektar" /\ stage = "trials" /\ stage' = "done"
      /\ Len(trials) = Len(queue) \/ ShouldStop
      /\ best' = Evaluate(trials).best /\ converged' = Evaluate(trials).converged
      /\ UNCHANGED <<study, queue, trials>>
  BY DEF NektarReport, Goto
<1>2. ConvergenceStands'
  <2>1. PICK a : a = Evaluate(trials) /\ best' = a.best /\ converged' = a.converged
    BY <1>1
  <2>2. SeenIn(trials) = {i \in Trials : Measured(trials[i])}
    BY DEF SeenIn, Trials
  <2>3. /\ a.converged =>
             /\ a.best \in SeenIn(trials) /\ trials[a.best].valid
             /\ study.rule = "absolute" =>
                  /\ Accepts(trials, Only(study.tolerance), a.best)
                  /\ \A i \in SeenIn(trials) :
                       Accepts(trials, Only(study.tolerance), i) => a.best <= i
             /\ study.rule = "relative_drop" =>
                  \E i \in SeenIn(trials) :
                    i < a.best /\ NormOf(trials, a.best) * Drop <= NormOf(trials, i)
             /\ study.rule = "plateau" =>
                  \A i, j \in SeenIn(trials) : i < j => NormOf(trials, j) <= NormOf(trials, i)
        /\ ~a.converged =>
             /\ study.rule = "absolute" =>
                  \A i \in SeenIn(trials) : ~Accepts(trials, Only(study.tolerance), i)
             /\ \A i \in SeenIn(trials) :
                  a.best \in SeenIn(trials) /\ NormOf(trials, a.best) <= NormOf(trials, i)
    BY <1>1, <2>1, EvaluateConverges DEF Course
  <2>4. Trials' = Trials
    BY <1>1, SameTrials
  <2>. QED BY <1>1, <2>1, <2>2, <2>3, <2>4 DEF ConvergenceStands, NormOf, Accepts
<1>3. RecommendationStands'
  BY <1>1 DEF RecommendationStands
<1>4. EarlyStopIsTheAnswer'
  <2>1. Len(trials) < Len(queue) => ShouldStop
    <3>1. Len(trials) \in Nat
      BY DEF Course, TrialsTyped
    <3>. QED BY <1>1, <3>1
  <2>2. ShouldStop => converged' /\ best' = Len(trials)
    BY <1>1 DEF ShouldStop, Reports, RuleWaits
  <2>. QED BY <1>1, <2>1, <2>2 DEF EarlyStopIsTheAnswer
<1>5. RuleWaits' /\ FrontIsPareto'
  BY <1>1 DEF RuleWaits, FrontIsPareto
<1>. QED BY <1>2, <1>3, <1>4, <1>5 DEF Reports

LEMMA NektarTrialWaits ==
  ASSUME Course, Reports, NektarTrial
  PROVE  Reports'
<1>1. PICK e \in TrialRecords({Upcoming}) : Tries(e)
  BY NektarTries
<1>2. /\ study.kind = "nektar" /\ stage = "trials" /\ stage' = "trials"
      /\ trials' = Append(trials, e) /\ ~ShouldStop /\ UNCHANGED study
  BY <1>1 DEF Tries, MoreToTry, RestOfStudy, NektarTrial
<1>3. PICK S : trials \in Seq(TrialRecords(S))
  BY DEF Course, TrialsTyped
<1>. DEFINE R == TrialRecords(S \cup {Upcoming})
<1>4. trials \in Seq(R) /\ e \in R
  <2>1. TrialRecords(S) \subseteq R /\ TrialRecords({Upcoming}) \subseteq R
    BY RecordsMono
  <2>. HIDE DEF R
  <2>2. trials \in Seq(R)
    BY <1>3, <2>1, SeqMono
  <2>. QED BY <1>1, <2>1, <2>2
<1>. HIDE DEF R
<1>5. Stops(trials', Evaluate(trials), Evaluate(trials'))
  BY <1>2, <1>4, EvaluateLaws DEF Course
<1>6. study.early => ~Evaluate(trials).converged
  <2>1. CASE trials = <<>>
    <3>1. Stands(trials, Evaluate(trials)) /\ Len(trials) = 0
      BY <1>2, <2>1, EvaluateStands DEF Course
    <3>. QED BY <3>1 DEF Stands
  <2>2. CASE trials # <<>>
    BY <1>2, <2>2 DEF ShouldStop
  <2>. QED BY <2>1, <2>2
<1>7. Evaluate(trials)' = Evaluate(trials')
  BY <1>2 DEF Evaluate
<1>8. RuleWaits'
  BY <1>2, <1>5, <1>6, <1>7 DEF RuleWaits, Stops
<1>. QED BY <1>2, <1>8, NoReportYet

LEMMA NextReports == Course /\ SeriesInOrder /\ Reports /\ [Next]_vars => Reports'
<1>. SUFFICES ASSUME Course, SeriesInOrder, Reports, [Next]_vars PROVE Reports'
  OBVIOUS
<1>1. CASE Generate
  <2>1. PICK grid, cut : grid.end \in Ends /\ Begin(grid, cut)
    BY <1>1, GenerateBegins DEF Course
  <2>2. /\ stage = "generate" /\ stage' \in {"trials", "raised", "endless"}
        /\ UNCHANGED <<study, trials>>
    BY <2>1 DEF Begin, Ends, Goto
  <2>3. CASE study.kind = "nektar" /\ stage' = "trials"
    <3>1. trials = <<>>
      BY <2>2 DEF Course, Staged
    <3>2. Stands(trials, Evaluate(trials)) /\ Len(trials) = 0
      BY <2>3, <3>1, EvaluateStands DEF Course
    <3>3. ~Evaluate(trials).converged
      BY <3>2 DEF Stands
    <3>4. Evaluate(trials)' = Evaluate(trials)
      BY <2>2 DEF Evaluate
    <3>5. RuleWaits'
      BY <3>3, <3>4 DEF RuleWaits
    <3>. QED BY <2>2, <2>3, <3>5, NoReportYet
  <2>. QED BY <2>2, <2>3, NoReportYet
<1>2. CASE LoopTrial /\ study.kind # "nektar"
  <2>1. stage' \in {"trials", "raised"} /\ UNCHANGED study
    BY <1>2, LoopTries DEF Tries, GivesUp, MoreToTry, RestOfStudy, Goto
  <2>. QED BY <1>2, <2>1, NoReportYet
<1>3. CASE NektarTrial
  BY <1>3, NektarTrialWaits
<1>4. CASE LoopTrial /\ study.kind = "nektar" /\ ~NektarTrial
  BY <1>4 DEF LoopTrial, OctaveTrial, FealpyTrial, DeepMDTrial, JediTrial, BoutppTrial,
     PycfdTrial, MooseTrial
<1>5. CASE StartTrial
  <2>1. study.kind = "qcompute" /\ stage' = "trials" /\ UNCHANGED study
    BY <1>5 DEF StartTrial, MoreToTry, RestOfStudy
  <2>. QED BY <2>1, NoReportYet
<1>6. CASE \E i \in Trials : FinishTrial(i)
  <2>1. study.kind = "qcompute" /\ Running # {} /\ UNCHANGED <<study, stage>>
    BY <1>6 DEF FinishTrial, RestOfStudy
  <2>2. stage \notin {"handoff", "done", "proposed"}
    BY <2>1 DEF Course, Staged, NothingLeftRunning, Over
  <2>. QED BY <2>1, <2>2, NoReportYet
<1>7. CASE CancelWaiting
  BY <1>7, NoReportYet DEF CancelWaiting, Goto, RestOfStudy
<1>8. CASE RaiseStudy
  BY <1>8, NoReportYet DEF RaiseStudy, Goto, RestOfStudy
<1>9. CASE Conclude
  <2>. USE DEF Report, AllTried, Goto
  <2>1. CASE OctaveReport
    BY <2>1, BestReport DEF OctaveReport
  <2>2. CASE FealpyReport
    <3>1. CASE stage' = "raised"
      BY <2>2, <3>1, NoReportYet DEF FealpyReport
    <3>2. CASE stage' # "raised"
      BY <2>2, <3>2, BestReport DEF FealpyReport
    <3>. QED BY <3>1, <3>2
  <2>3. CASE BoutppReport
    BY <2>3, BestReport DEF BoutppReport
  <2>4. CASE PycfdReport
    BY <2>4, BestReport DEF PycfdReport
  <2>5. CASE MooseReport
    BY <2>5, BestReport DEF MooseReport
  <2>6. CASE JediReport
    BY <2>6, BestReport DEF JediReport
  <2>7. CASE QcomputeReport
    BY <2>7, BestReport DEF QcomputeReport
  <2>8. CASE NektarReport
    BY <2>8, NektarReportStands
  <2>9. CASE DeepMDReport
    BY <2>9, BestReport DEF DeepMDReport
  <2>10. CASE HandOffTrial
    <3>1. CASE stage' = "raised"
      BY <2>10, <3>1, NoReportYet DEF HandOffTrial
    <3>2. CASE stage' # "raised"
      BY <2>10, <3>2, ReportStays DEF HandOffTrial, Reported
    <3>. QED BY <3>1, <3>2
  <2>. QED BY <1>9, <2>1, <2>2, <2>3, <2>4, <2>5, <2>6, <2>7, <2>8, <2>9, <2>10 DEF Conclude
<1>10. CASE Propose
  <2>1. CASE stage' = "endless"
    BY <1>10, <2>1, NoReportYet DEF Propose
  <2>2. CASE stage' # "endless"
    BY <1>10, <2>2, ReportStays DEF Propose, Reported, Goto
  <2>. QED BY <2>1, <2>2
<1>11. CASE UNCHANGED vars
  <2>1. Trials' = Trials /\ UNCHANGED <<study, stage, queue, trials, best, converged, front>>
    BY <1>11, SameTrials DEF vars
  <2>2. RuleWaits' /\ EarlyStopIsTheAnswer'
    BY <2>1 DEF Reports, RuleWaits, Evaluate, EarlyStopIsTheAnswer
  <2>3. RecommendationStands'
    BY <2>1 DEF Reports, RecommendationStands, Reported, PassedTrial
  <2>4. FrontIsPareto'
    BY <2>1 DEF Reports, FrontIsPareto, Reported
  <2>5. ConvergenceStands'
    BY <2>1 DEF Reports, ConvergenceStands, Reported
  <2>. QED BY <2>2, <2>3, <2>4, <2>5 DEF Reports
<1>. QED BY <1>1, <1>2, <1>3, <1>4, <1>5, <1>6, <1>7, <1>8, <1>9, <1>10, <1>11
     DEF Next, RunTrial, LoopTrial, Finished

LEMMA SpecReports == Spec => []Reports
<1>. QED BY InitReports, NextReports, SpecCourse, SpecSeries, PTL DEF Spec

------------------------------------------------------------------------------
(* The snapshots of axes: every combination is a sequence of values, one   *)
(* for each axis.                                                          *)
LEMMA DivisionBounds ==
  ASSUME NEW m \in Nat, NEW n \in Nat \ {0}, NEW a \in Nat, a < m * n
  PROVE  a \div n \in 0..m - 1 /\ a % n \in 0..n - 1
OBVIOUS

(* One axis more: every snapshot so far with every value of the axis.      *)
Cross(before, values) ==
  [i \in 1..Len(before) * Len(values) |->
     Append(before[(i - 1) \div Len(values) + 1], values[((i - 1) % Len(values)) + 1])]
OfLength(snapshots, L) == \A i \in 1..Len(snapshots) : Len(snapshots[i]) = L

LEMMA CrossTyped ==
  ASSUME NEW W, NEW before \in Seq(Seq(W)), NEW values \in Seq(W)
  PROVE  /\ Cross(before, values) \in Seq(Seq(W))
         /\ \A L : OfLength(before, L) => OfLength(Cross(before, values), L + 1)
<1>. DEFINE n == Len(values)
            m == Len(before)
            Item(i) == Append(before[(i - 1) \div n + 1], values[((i - 1) % n) + 1])
            cross == [i \in 1..m * n |-> Item(i)]
<1>1. n \in Nat /\ m \in Nat
  OBVIOUS
<1>2. m * n \in Nat
  <2>. HIDE DEF m, n
  <2>. QED BY <1>1
<1>3. ASSUME NEW i \in 1..m * n
      PROVE  (i - 1) \div n + 1 \in 1..m /\ ((i - 1) % n) + 1 \in 1..n
  <2>. HIDE DEF m, n
  <2>1. n # 0 /\ i - 1 \in Nat /\ i - 1 < m * n
    BY <1>1, <1>2, <1>3
  <2>2. (i - 1) \div n \in 0..m - 1 /\ (i - 1) % n \in 0..n - 1
    BY <1>1, <2>1, DivisionBounds
  <2>. QED BY <1>1, <2>2
<1>4. ASSUME NEW i \in 1..m * n
      PROVE  /\ Item(i) \in Seq(W)
             /\ \E k \in 1..m : Len(Item(i)) = Len(before[k]) + 1
  <2>. DEFINE k == (i - 1) \div n + 1  l == ((i - 1) % n) + 1
  <2>1. k \in 1..m /\ l \in 1..n
    BY <1>3
  <2>. HIDE DEF k, l
  <2>2. before[k] \in Seq(W) /\ values[l] \in W
    BY <2>1
  <2>3. Append(before[k], values[l]) \in Seq(W) /\ Len(Append(before[k], values[l])) = Len(before[k]) + 1
    BY <2>2
  <2>. QED BY <2>1, <2>3 DEF k, l
<1>. HIDE DEF Item
<1>5. cross \in Seq(Seq(W)) /\ Len(cross) = m * n /\ \A i \in 1..m * n : cross[i] = Item(i)
  <2>. DEFINE p == m * n  S == Seq(W)
  <2>1. p \in Nat /\ \A i \in 1..p : Item(i) \in S
    BY <1>2, <1>4
  <2>. HIDE DEF p, S, m, n
  <2>2. [i \in 1..p |-> Item(i)] \in Seq(S) /\ Len([i \in 1..p |-> Item(i)]) = p
    BY <2>1
  <2>. QED BY <2>2 DEF p, S
<1>6. ASSUME NEW L, \A i \in 1..m : Len(before[i]) = L
      PROVE  \A i \in 1..Len(cross) : Len(cross[i]) = L + 1
  <2>. HIDE DEF m, n, cross
  <2>. QED BY <1>4, <1>5, <1>6
<1>7. Cross(before, values) = cross
  BY DEF Cross, Item
<1>. HIDE DEF cross, m, n
<1>. QED BY <1>5, <1>6, <1>7 DEF OfLength, m
(* Every combination of the values of the axes, one value for each axis.   *)
LEMMA ProductTyped ==
  ASSUME NEW W, NEW axes \in Seq(Seq(W))
  PROVE  /\ Product(axes) \in Seq(Seq(W))
         /\ OfLength(Product(axes), Len(axes))
<1>0. Len(axes) \in Nat /\ \A k \in 1..Len(axes) : axes[k] \in Seq(W)
  OBVIOUS
<1>. DEFINE V == Seq(Seq(W))
            step == [k \in 1..Len(axes) |-> [v \in V |-> Cross(v, axes[k])]]
            Body(g, k) == IF k = 0 THEN <<<<>>>> ELSE Cross(g[k - 1], axes[k])
            Eq(g) == g = [k \in 0..Len(axes) |-> Body(g, k)]
            F == CHOOSE g : Eq(g)
<1>1. Product(axes) = F[Len(axes)]
  BY DEF Product, Cross
<1>2. ASSUME NEW before \in V, NEW values \in Seq(W)
      PROVE  /\ Cross(before, values) \in V
             /\ \A L : OfLength(before, L) => OfLength(Cross(before, values), L + 1)
  BY CrossTyped
<1>3. <<<<>>>> \in V
  OBVIOUS
<1>. HIDE DEF V
<1>4. \A k \in 1..Len(axes) : \A v \in V : step[k][v] = Cross(v, axes[k]) /\ step[k][v] \in V
  BY <1>0, <1>2
<1>. HIDE DEF step
<1>5. PICK f : Iterates(f, Len(axes), V, <<<<>>>>, step)
  BY <1>0, <1>3, <1>4, RecursionExists
<1>6. ASSUME NEW k \in 0..Len(axes) PROVE f[k] = Body(f, k)
  <2>1. CASE k = 0
    BY <1>5, <2>1 DEF Iterates
  <2>2. CASE k # 0
    <3>1. k \in 1..Len(axes) /\ k - 1 \in 0..Len(axes)
      BY <1>0, <2>2
    <3>2. f[k] = step[k][f[k - 1]] /\ f[k - 1] \in V
      BY <1>5, <3>1 DEF Iterates
    <3>. QED BY <1>4, <2>2, <3>1, <3>2
  <2>. QED BY <2>1, <2>2
<1>7. f = [k \in 0..Len(axes) |-> f[k]]
  BY <1>5 DEF Iterates
<1>. HIDE DEF Body
<1>8. Eq(f)
  BY <1>6, <1>7
<1>9. Eq(F)
  <2>. HIDE DEF Eq
  <2>. QED BY <1>8
<1>. HIDE DEF F
<1>10. \A k \in 0..Len(axes) : F[k] = Body(F, k)
  BY <1>9
<1>11. F[0] = <<<<>>>> /\ \A k \in 1..Len(axes) : F[k] = Cross(F[k - 1], axes[k])
  BY <1>0, <1>10 DEF Body
<1>. DEFINE Good(k) == F[k] \in V /\ OfLength(F[k], k)
            N == {k \in Nat : k <= Len(axes) => Good(k)}
<1>12. 0 \in N
  <2>1. Good(0)
    <3>1. OfLength(<<<<>>>>, 0)
      BY DEF OfLength
    <3>. QED BY <1>3, <1>11, <3>1
  <2>. HIDE DEF Good
  <2>. QED BY <2>1
<1>13. ASSUME NEW k \in Nat, k \in N PROVE k + 1 \in N
  <2>. SUFFICES ASSUME k + 1 <= Len(axes) PROVE Good(k + 1)
    <3>. HIDE DEF Good
    <3>. QED OBVIOUS
  <2>1. k + 1 \in 1..Len(axes) /\ (k + 1) - 1 = k /\ Good(k)
    <3>. HIDE DEF Good
    <3>. QED BY <1>0, <1>13
  <2>2. F[k + 1] = Cross(F[k], axes[k + 1]) /\ F[k] \in V /\ axes[k + 1] \in Seq(W)
    BY <1>0, <1>11, <2>1
  <2>3. OfLength(Cross(F[k], axes[k + 1]), k + 1)
    BY <1>2, <2>1, <2>2
  <2>. QED BY <1>2, <2>2, <2>3
<1>14. Nat \subseteq N
  <2>. HIDE DEF N
  <2>. QED BY <1>12, <1>13, NaturalsByInduction
<1>15. Good(Len(axes))
  <2>. HIDE DEF Good
  <2>. QED BY <1>0, <1>14
<1>. QED BY <1>1, <1>15 DEF V
(* What the axes of a contract have: values, a range or neither, of        *)
(* integers.  Those of QCompute have one of them, and its studies a limit. *)
AxisKnown(axis) ==
  /\ axis.values = None \/ \E s \in Seq(Int) : axis.values = Some(s)
  /\ axis.range = None \/ \E lo, hi \in Int : axis.range = Some(<<lo, hi>>)
  /\ axis.step = None \/ \E n \in Int : axis.step = Some(n)
AllKnown(axes) == axes \in Seq({axes[i] : i \in 1..Len(axes)}) /\ \A i \in 1..Len(axes) : AxisKnown(axes[i])
AxesKnown ==
  /\ study.kind \in {"octave", "fealpy", "qcompute"} => AllKnown(study.axes)
  /\ study.kind = "octave" =>
       \A i \in 1..Len(study.axes) : study.axes[i].values # None
  /\ study.kind = "qcompute" =>
       /\ \A i \in 1..Len(study.axes) : Given(study.axes[i].values) \/ Given(study.axes[i].range)
       /\ \E n \in Nat : study.limit = Some(n)

LEMMA NamedAxes ==
  /\ AxisKnown(Listed) /\ AxisKnown(Three) /\ AxisKnown(Single) /\ AxisKnown(Stepped)
  /\ AxisKnown(Whole) /\ AxisKnown(Stuck) /\ AxisKnown(Backwards) /\ AxisKnown(Vacant)
  /\ AxisKnown(Drifting) /\ AxisKnown(Axis(Some(<<>>), Some(<<0, 1>>), Some(1)))
<1>0. One \in Int /\ 2 * One \in Int
  BY DEF One
<1>1. <<1, 0>> \in Seq(Int) /\ <<0, 2, 1>> \in Seq(Int) /\ <<1>> \in Seq(Int) /\ <<>> \in Seq(Int)
  OBVIOUS
<1>2. ASSUME NEW s \in Seq(Int) PROVE AxisKnown(Axis(Some(s), None, None))
  BY DEF AxisKnown, Axis, Some, None
<1>3. ASSUME NEW lo \in Int, NEW hi \in Int, NEW n \in Int
      PROVE  /\ AxisKnown(Axis(None, Some(<<lo, hi>>), Some(n)))
             /\ AxisKnown(Axis(None, Some(<<lo, hi>>), None))
             /\ AxisKnown(Axis(Some(<<>>), Some(<<lo, hi>>), Some(n)))
  BY <1>1 DEF AxisKnown, Axis
<1>4. AxisKnown(Vacant)
  BY DEF AxisKnown, Axis, Vacant
<1>5. AxisKnown(Listed) /\ AxisKnown(Three) /\ AxisKnown(Single)
  BY <1>1, <1>2 DEF Listed, Three, Single
<1>6. AxisKnown(Stepped) /\ AxisKnown(Stuck)
  BY <1>0, <1>3 DEF Stepped, Stuck
<1>7. AxisKnown(Backwards)
  BY <1>0, <1>3, -1 \in Int DEF Backwards
<1>8. AxisKnown(Whole)
  BY <1>0, <1>3 DEF Whole
<1>9. AxisKnown(Axis(Some(<<>>), Some(<<0, 1>>), Some(1)))
  BY <1>3
<1>10. AxisKnown(Drifting)
  <2>1. /\ Drifting.values = None /\ Drifting.range = Some(<<1, 3>>)
        /\ Drifting.step = Some(2)
    BY DEF Drifting, Axis
  <2>. QED BY <2>1 DEF AxisKnown
<1>. QED BY <1>4, <1>5, <1>6, <1>7, <1>8, <1>9, <1>10

LEMMA OneAxis ==
  ASSUME NEW a, AxisKnown(a) PROVE AllKnown(<<a>>)
BY DEF AllKnown
LEMMA TwoAxes ==
  ASSUME NEW a, NEW b, AxisKnown(a), AxisKnown(b) PROVE AllKnown(<<a, b>>)
BY DEF AllKnown
LEMMA NoAxis == AllKnown(<<>>)
BY DEF AllKnown
LEMMA FreeKnown == \A axes \in Free \cup {<<Three>>, <<Drifting>>} : AllKnown(axes)
BY NamedAxes, OneAxis, TwoAxes, NoAxis DEF Free
LEMMA PlainAxes ==
  ASSUME NEW kind, NEW axes, NEW limit, NEW goal
  PROVE  /\ {"axes", "limit"} \subseteq DOMAIN StudyOf(kind, axes, limit, goal)
         /\ StudyOf(kind, axes, limit, goal).axes = axes
         /\ StudyOf(kind, axes, limit, goal).limit = limit
BY DEF StudyOf, Blank

LEMMA InitAxes == Init => AxesKnown
<1>. SUFFICES ASSUME NEW kind \in Kinds, study \in StudiesOf(kind) PROVE AxesKnown
  BY DEF Init
<1>0. kind \in Extensions
  BY StudiesAssumption
<1>1. CASE kind = "octave"
  <2>. DEFINE E == Axis(Some(<<>>), Some(<<0, 1>>), Some(1))
  <2>1. study \in OctaveStudySpec  BY <1>1 DEF StudiesOf
  <2>2. \E axes \in {<<Three>>, <<Listed, Single>>, <<E>>} : \E limit, goal :
          study = StudyOf("octave", axes, limit, goal)
    BY <2>1 DEF OctaveStudySpec
  <2>3. study.axes \in {<<Three>>, <<Listed, Single>>, <<E>>} /\ study.kind = "octave"
    BY <2>2, PlainStudy, PlainAxes
  <2>4. AllKnown(study.axes)
    <3>. HIDE DEF E
    <3>1. AxisKnown(E)
      BY NamedAxes DEF E
    <3>. QED BY <2>3, <3>1, NamedAxes, OneAxis, TwoAxes
  <2>5. Three.values # None /\ Listed.values # None /\ Single.values # None /\ E.values # None
    BY DEF Three, Listed, Single, Axis, Some, None
  <2>6. \A i \in 1..Len(study.axes) : study.axes[i].values # None
    <3>. HIDE DEF E
    <3>. QED BY <2>3, <2>5
  <2>. QED BY <2>3, <2>4, <2>6 DEF AxesKnown
<1>2. CASE kind = "fealpy"
  <2>1. study \in FealpyStudySpec  BY <1>2 DEF StudiesOf
  <2>2. \E axes \in Free \cup {<<Three>>, <<Drifting>>} : \E limit :
          study = StudyOf("fealpy", axes, limit, "minimize")
    BY <2>1 DEF FealpyStudySpec
  <2>3. study.axes \in Free \cup {<<Three>>, <<Drifting>>} /\ study.kind = "fealpy"
    BY <2>2, PlainStudy, PlainAxes
  <2>. QED BY <2>3, FreeKnown DEF AxesKnown
<1>3. CASE kind = "jedi"
  <2>1. study \in JediStudySpec  BY <1>3 DEF StudiesOf
  <2>2. \E axes : \E goal \in Goals : study = StudyOf("jedi", axes, None, goal)
    BY <2>1 DEF JediStudySpec
  <2>. QED BY <2>2, PlainStudy DEF AxesKnown
<1>4. CASE kind = "deepmd"
  <2>1. study \in DeepMDStudySpec  BY <1>4 DEF StudiesOf
  <2>. DEFINE S(goal, handoff, runtime) ==
         [StudyOf("deepmd", <<Three>>, None, goal) EXCEPT !.handoff = handoff,
                                                          !.runtime = runtime]
  <2>2. DeepMDStudySpec =
          {S(goal, handoff, runtime) :
             goal \in Goals, handoff \in {"none", "all", "recommended"}, runtime \in BOOLEAN}
    BY SMT DEF DeepMDStudySpec
  <2>3. ASSUME NEW goal, NEW handoff, NEW runtime
        PROVE  S(goal, handoff, runtime).kind = "deepmd"
    BY PlainStudy
  <2>. HIDE DEF S
  <2>4. study.kind = "deepmd"
    BY <2>1, <2>2, <2>3
  <2>. QED BY <2>4 DEF AxesKnown
<1>5. CASE kind = "boutpp"
  <2>1. study \in BoutppStudySpec  BY <1>5 DEF StudiesOf
  <2>2. \E axes, limit : study = StudyOf("boutpp", axes, limit, "minimize")
    BY <2>1 DEF BoutppStudySpec
  <2>. QED BY <2>2, PlainStudy DEF AxesKnown
<1>6. CASE kind = "pycfd"
  <2>1. study \in PycfdStudySpec  BY <1>6 DEF StudiesOf
  <2>2. \E axes, limit : study = StudyOf("pycfd", axes, limit, "minimize")
    BY <2>1 DEF PycfdStudySpec
  <2>. QED BY <2>2, PlainStudy DEF AxesKnown
<1>7. CASE kind = "moose"
  <2>1. study \in MooseStudySpec  BY <1>7 DEF StudiesOf
  <2>2. \E axes, limit : study = StudyOf("moose", axes, limit, "maximize")
    BY <2>1 DEF MooseStudySpec
  <2>. QED BY <2>2, PlainStudy DEF AxesKnown
<1>8. CASE kind = "nektar"
  <2>1. study \in ConvergenceStudySpec  BY <1>8 DEF StudiesOf
  <2>. DEFINE S(axis, rule, early, tolerance) ==
         [StudyOf("nektar", <<axis>>, None, "minimize") EXCEPT
            !.rule = rule, !.early = early, !.tolerance = tolerance, !.minPoints = 2]
  <2>2. ConvergenceStudySpec =
          {S(axis, rule, early, tolerance) :
             axis \in {Three, Single}, rule \in {"absolute", "relative_drop", "plateau"},
             early \in BOOLEAN, tolerance \in {None, Some(Tolerance)}}
    BY SMT DEF ConvergenceStudySpec
  <2>3. ASSUME NEW axis, NEW rule, NEW early, NEW tolerance
        PROVE  S(axis, rule, early, tolerance).kind = "nektar"
    BY PlainStudy
  <2>. HIDE DEF S
  <2>4. study.kind = "nektar"
    BY <2>1, <2>2, <2>3
  <2>. QED BY <2>4 DEF AxesKnown
<1>9. CASE kind = "qcompute"
  <2>1. study \in QComputeStudySpec  BY <1>9 DEF StudiesOf
  <2>. DEFINE S(goal, strategy, workers, template, platform) ==
         [StudyOf("qcompute", <<Listed>>, Some(2), goal) EXCEPT
            !.strategy = strategy, !.workers = workers, !.template = template,
            !.platform = platform]
       Many(limit, strategy) ==
         [StudyOf("qcompute", <<Three>>, Some(limit), "maximize") EXCEPT
            !.strategy = strategy, !.workers = 2, !.platform = 1]
       Agentic == [StudyOf("qcompute", <<Single>>, Some(4), "maximize") EXCEPT
                 !.strategy = "agentic"]
  <2>2. QComputeStudySpec =
          {S(goal, strategy, workers, template, platform) :
             goal \in Goals, strategy \in {"grid", "random", "bayesian"}, workers \in 1..2,
             template \in {"simulator", "hardware"}, platform \in 0..1} \cup
          {Many(limit, strategy) : limit \in 2..3, strategy \in {"grid", "bayesian"}} \cup
          {Agentic} \cup
          {StudyOf("qcompute", axes, Some(2), "maximize") :
             axes \in {<<>>, <<Backwards>>, <<Whole>>}}
    BY SMT DEF QComputeStudySpec
  <2>. DEFINE A == {<<Listed>>, <<Three>>, <<Single>>, <<>>, <<Backwards>>, <<Whole>>}
              Fits(x) == x.kind = "qcompute" /\ x.axes \in A /\ \E n \in Nat : x.limit = Some(n)
  <2>3. ASSUME NEW goal, NEW strategy, NEW workers, NEW template, NEW platform
        PROVE  Fits(S(goal, strategy, workers, template, platform))
    <3>1. /\ S(goal, strategy, workers, template, platform).kind = "qcompute"
          /\ S(goal, strategy, workers, template, platform).axes = <<Listed>>
          /\ S(goal, strategy, workers, template, platform).limit = Some(2)
      BY PlainStudy, PlainAxes
    <3>. HIDE DEF S
    <3>. QED BY <3>1
  <2>4. ASSUME NEW limit \in 2..3, NEW strategy PROVE Fits(Many(limit, strategy))
    <3>1. /\ Many(limit, strategy).kind = "qcompute" /\ Many(limit, strategy).axes = <<Three>>
          /\ Many(limit, strategy).limit = Some(limit)
      BY PlainStudy, PlainAxes
    <3>. HIDE DEF Many
    <3>. QED BY <3>1
  <2>5. Fits(Agentic)
    <3>1. Agentic.kind = "qcompute" /\ Agentic.axes = <<Single>> /\ Agentic.limit = Some(4)
      BY PlainStudy, PlainAxes
    <3>. HIDE DEF Agentic
    <3>. QED BY <3>1
  <2>6. ASSUME NEW axes \in {<<>>, <<Backwards>>, <<Whole>>}
        PROVE  Fits(StudyOf("qcompute", axes, Some(2), "maximize"))
    BY PlainStudy, PlainAxes
  <2>. HIDE DEF S, Many, Agentic, Fits
  <2>7. Fits(study)
    BY <2>1, <2>2, <2>3, <2>4, <2>5, <2>6
  <2>8. AllKnown(study.axes)
    BY <2>7, NamedAxes, OneAxis, NoAxis DEF Fits
  <2>9. /\ Given(Listed.values) /\ Given(Three.values) /\ Given(Single.values)
        /\ Given(Backwards.range) /\ Given(Whole.range)
    BY DEF Given, Listed, Three, Single, Backwards, Whole, Axis, Some
  <2>10. \A i \in 1..Len(study.axes) : Given(study.axes[i].values) \/ Given(study.axes[i].range)
    BY <2>7, <2>9 DEF Fits
  <2>11. study.kind = "qcompute" /\ \E n \in Nat : study.limit = Some(n)
    BY <2>7 DEF Fits
  <2>. QED BY <2>8, <2>10, <2>11 DEF AxesKnown
<1>. QED BY <1>0, <1>1, <1>2, <1>3, <1>4, <1>5, <1>6, <1>7, <1>8, <1>9 DEF Extensions
LEMMA SpecAxes == Spec => []AxesKnown
<1>1. Course /\ AxesKnown /\ [Next]_vars => AxesKnown'
  BY StudyFixed DEF Course, AxesKnown
<1>. QED BY <1>1, InitAxes, SpecCourse, PTL DEF Spec

------------------------------------------------------------------------------
(* The grids of the axes of a contract are sequences.                      *)
LEMMA WalkTyped ==
  ASSUME NEW lo \in Int, NEW hi \in Int, NEW n \in Int, ~EndlessWalk(<<lo, hi>>, n)
  PROVE  Walk(<<lo, hi>>, n) \in Seq(Int)
<1>1. CASE lo > hi
  BY <1>1 DEF Walk
<1>2. CASE lo <= hi
  <2>1. n > 0
    BY <1>2 DEF EndlessWalk
  <2>. DEFINE last == (hi - lo) \div n
  <2>2. last \in Nat
    BY <1>2, <2>1
  <2>3. Walk(<<lo, hi>>, n) = [i \in 1..last + 1 |-> lo + (i - 1) * n]
    BY <1>2 DEF Walk
  <2>. HIDE DEF last
  <2>4. last + 1 \in Nat /\ \A i \in 1..last + 1 : lo + (i - 1) * n \in Int
    BY <2>2
  <2>5. [i \in 1..last + 1 |-> lo + (i - 1) * n] \in Seq(Int)
    BY <2>4
  <2>. QED BY <2>3, <2>5
<1>. QED BY <1>1, <1>2

(* What the loop appends is the walk, but for the last digits.             *)
LEMMA SumsTyped ==
  ASSUME NEW axis, NEW n, Walk(Only(axis.range), n) \in Seq(Int)
  PROVE  Sums(axis, n) \in Seq(Int)
<1>. DEFINE exact == Walk(Only(axis.range), n)
<1>1. exact \in Seq(Int)
  OBVIOUS
<1>2. Sums(axis, n) = [i \in 1..Len(exact) |-> IF i \in axis.drift THEN exact[i] + Off ELSE exact[i]]
  BY DEF Sums
<1>. HIDE DEF exact
<1>3. Len(exact) \in Nat /\ \A i \in 1..Len(exact) : exact[i] \in Int /\ exact[i] + Off \in Int
  BY <1>1 DEF Off
<1>. QED BY <1>2, <1>3

LEMMA KnownStep ==
  ASSUME NEW axis, AxisKnown(axis)
  PROVE  StepOrOne(axis) \in Int
<1>1. CASE axis.step \in {None, {0}}
  BY <1>1 DEF StepOrOne, One
<1>2. CASE axis.step \notin {None, {0}}
  <2>1. PICK n \in Int : axis.step = Some(n)
    BY <1>2 DEF AxisKnown
  <2>. QED BY <1>2, <2>1, OnlySome DEF StepOrOne
<1>. QED BY <1>1, <1>2

(* The snapshots of a number of axes.                                      *)
Points(n) == {s \in Seq(Int) : Len(s) = n}

LEMMA PointsOfLength ==
  ASSUME NEW n, NEW s \in Seq(Seq(Int)), OfLength(s, n)
  PROVE  s \in Seq(Points(n))
<1>1. \A i \in 1..Len(s) : s[i] \in Points(n)
  BY DEF OfLength, Points
<1>. DEFINE m == Len(s)  f == [i \in 1..m |-> s[i]]
<1>2. s = f /\ m \in Nat
  OBVIOUS
<1>3. f \in Seq(Points(n))
  <2>. HIDE DEF m
  <2>. QED BY <1>1, <1>2 DEF m
<1>. QED BY <1>2, <1>3

(* QCompute's cartesian grid.                                              *)
LEMMA QcomputePoints ==
  ASSUME AxesKnown, study.kind = "qcompute", QcomputeGrid(study.axes).end = "grid"
  PROVE  \E L \in Nat : QcomputeGrid(study.axes).snapshots \in Seq(Points(L))
<1>. DEFINE axes == study.axes
            Values_(a) == IF Given(a.values) THEN Only(a.values)
                          ELSE Walk(Only(a.range), StepOrOne(a))
            Endless(a) == ~Given(a.values) /\ EndlessWalk(Only(a.range), StepOrOne(a))
            all == [i \in 1..Len(axes) |-> Values_(axes[i])]
<1>1. CASE axes = <<>>
  <2>1. QcomputeGrid(axes).snapshots = <<>> /\ <<>> \in Seq(Points(0))
    BY <1>1 DEF QcomputeGrid, Grid
  <2>. QED BY <2>1
<1>2. CASE axes # <<>>
  <2>1. ~\E i \in 1..Len(axes) : Endless(axes[i])
    BY <1>2 DEF QcomputeGrid, GridOf, GridNeverEnds
  <2>2. QcomputeGrid(axes).snapshots = Product(all)
    BY <1>2, <2>1 DEF QcomputeGrid, GridOf, Grid
  <2>3. Len(axes) \in Nat
    BY DEF AxesKnown, AllKnown
  <2>4. ASSUME NEW i \in 1..Len(axes) PROVE Values_(axes[i]) \in Seq(Int)
    <3>. DEFINE a == axes[i]
    <3>1. AxisKnown(a) /\ (Given(a.values) \/ Given(a.range)) /\ ~Endless(a)
      BY <2>1 DEF AxesKnown, AllKnown
    <3>. HIDE DEF a
    <3>2. CASE Given(a.values)
      <4>1. PICK s \in Seq(Int) : a.values = Some(s)
        BY <3>1, <3>2 DEF AxisKnown, Given, None
      <4>. QED BY <3>2, <4>1, OnlySome DEF a
    <3>3. CASE ~Given(a.values)
      <4>1. PICK lo \in Int, hi \in Int : a.range = Some(<<lo, hi>>)
        BY <3>1, <3>3 DEF AxisKnown, Given, None
      <4>2. Only(a.range) = <<lo, hi>>
        BY <4>1, OnlySome
      <4>3. Walk(<<lo, hi>>, StepOrOne(a)) \in Seq(Int)
        BY <3>1, <3>3, <4>2, KnownStep, WalkTyped
      <4>. QED BY <3>3, <4>2, <4>3 DEF a
    <3>. QED BY <3>2, <3>3
  <2>5. all \in Seq(Seq(Int))
    <3>. DEFINE S == Seq(Int)
    <3>. HIDE DEF Values_, S
    <3>1. \A i \in 1..Len(axes) : Values_(axes[i]) \in S
      BY <2>4 DEF S
    <3>2. all \in Seq(S)
      BY <2>3, <3>1
    <3>. QED BY <3>2 DEF S
  <2>6. Len(all) = Len(axes)
    BY <2>3
  <2>. HIDE DEF all
  <2>7. Product(all) \in Seq(Seq(Int)) /\ OfLength(Product(all), Len(axes))
    BY <2>5, <2>6, ProductTyped
  <2>8. Product(all) \in Seq(Points(Len(axes)))
    BY <2>7, PointsOfLength
  <2>. QED BY <2>2, <2>3, <2>8
<1>. QED BY <1>1, <1>2
(* A random choice for each axis, and one for each snapshot.               *)
LEMMA RandomTyped ==
  ASSUME NEW n \in Nat, NEW axes, NEW g \in RandomGrids(axes, n)
  PROVE  \E T : g \in Seq(T)
<1>1. PICK T : g \in [1..n -> T]
  BY DEF RandomGrids
<1>2. g \in Seq(T)
  BY <1>1
<1>. QED BY <1>2

LEMMA AgenticTyped ==
  ASSUME NEW n \in Nat, NEW axes, NEW g \in AgenticGrids(axes, n)
  PROVE  \E T : g \in Seq(T)
<1>. DEFINE first == IF n < Batch THEN n ELSE Batch
            later == IF n - first < Batch THEN n - first ELSE Batch
<1>1. first \in Nat /\ later \in Nat
  BY DEF Batch
<1>. HIDE DEF first, later
<1>2. PICK start \in RandomGrids(axes, first) :
        \E more \in [1..later -> Perturbed(start[1])] : g = start \o more
  BY DEF AgenticGrids, first, later
<1>6. PICK more \in [1..later -> Perturbed(start[1])] : g = start \o more
  BY <1>2
<1>3. PICK T : start \in Seq(T)
  BY <1>1, RandomTyped
<1>. DEFINE U == T \cup Perturbed(start[1])
<1>4. start \in Seq(U) /\ more \in Seq(U)
  <2>1. T \subseteq U /\ Perturbed(start[1]) \subseteq U
    OBVIOUS
  <2>2. more \in Seq(Perturbed(start[1]))
    BY <1>1
  <2>. HIDE DEF U
  <2>. QED BY <1>3, <2>1, <2>2, SeqMono
<1>5. start \o more \in Seq(U)
  <2>. HIDE DEF U
  <2>. QED BY <1>4
<1>. QED BY <1>5, <1>6

(* The distance of two snapshots, and the gap of a candidate.              *)
LEMMA SquareTyped ==
  ASSUME NEW n \in Int PROVE Square(n) \in Nat
BY DEF Square

LEMMA DistanceTyped ==
  ASSUME NEW n \in Nat, NEW left \in Seq(Int), NEW right \in Seq(Int),
         Len(left) = n, Len(right) = n
  PROVE  Distance(left, right) \in Nat
<1>. DEFINE step == [k \in 1..n |-> [v \in Nat |-> v + Square(left[k] - right[k])]]
            Body(g, k) == IF k = 0 THEN 0 ELSE g[k - 1] + Square(left[k] - right[k])
            Eq(g) == g = [k \in 0..n |-> Body(g, k)]
            F == CHOOSE g : Eq(g)
<1>1. Distance(left, right) = F[n]
  BY DEF Distance
<1>2. ASSUME NEW k \in 1..n PROVE Square(left[k] - right[k]) \in Nat
  <2>1. left[k] \in Int /\ right[k] \in Int
    OBVIOUS
  <2>2. left[k] - right[k] \in Int
    BY <2>1
  <2>. QED BY <2>2, SquareTyped
<1>3. \A k \in 1..n : \A v \in Nat :
        step[k][v] = v + Square(left[k] - right[k]) /\ step[k][v] \in Nat
  BY <1>2
<1>. HIDE DEF step
<1>4. PICK f : Iterates(f, n, Nat, 0, step)
  BY <1>3, RecursionExists
<1>5. ASSUME NEW k \in 0..n PROVE f[k] = Body(f, k)
  <2>1. CASE k = 0
    BY <1>4, <2>1 DEF Iterates
  <2>2. CASE k # 0
    <3>1. k \in 1..n /\ k - 1 \in 0..n
      BY <2>2
    <3>2. f[k] = step[k][f[k - 1]] /\ f[k - 1] \in Nat
      BY <1>4, <3>1 DEF Iterates
    <3>. QED BY <1>3, <2>2, <3>1, <3>2
  <2>. QED BY <2>1, <2>2
<1>6. f = [k \in 0..n |-> f[k]]
  BY <1>4 DEF Iterates
<1>. HIDE DEF Body
<1>7. Eq(f)
  BY <1>5, <1>6
<1>8. Eq(F)
  <2>. HIDE DEF Eq
  <2>. QED BY <1>7
<1>. HIDE DEF F
<1>9. \A k \in 0..n : F[k] = Body(F, k)
  BY <1>8
<1>10. F[0] = 0 /\ \A k \in 1..n : F[k] = F[k - 1] + Square(left[k] - right[k])
  BY <1>9 DEF Body
<1>. DEFINE N == {k \in Nat : k <= n => F[k] \in Nat}
<1>11. 0 \in N
  BY <1>10
<1>12. ASSUME NEW k \in Nat, k \in N PROVE k + 1 \in N
  <2>. SUFFICES ASSUME k + 1 <= n PROVE F[k + 1] \in Nat
    OBVIOUS
  <2>1. k + 1 \in 1..n /\ (k + 1) - 1 = k /\ F[k] \in Nat
    BY <1>12
  <2>2. F[k + 1] = F[k] + Square(left[k + 1] - right[k + 1])
    BY <1>10, <2>1
  <2>3. Square(left[k + 1] - right[k + 1]) \in Nat
    BY <1>2, <2>1
  <2>. QED BY <2>1, <2>2, <2>3
<1>13. Nat \subseteq N
  <2>. HIDE DEF N
  <2>. QED BY <1>11, <1>12, NaturalsByInduction
<1>. QED BY <1>1, <1>13
(* Among candidates with a gap one is farthest, and of equal ones the first. *)
LEMMA GapsBounded ==
  ASSUME NEW n \in Nat, NEW left, left \subseteq 1..n, NEW gap \in [left -> Nat]
  PROVE  \E b \in Nat : \A i \in left : gap[i] <= b
<1>. DEFINE Bound(k, b) == \A i \in left : i <= k => gap[i] <= b
            N == {k \in Nat : \E b \in Nat : Bound(k, b)}
<1>1. 0 \in N
  <2>1. Bound(0, 0)
    OBVIOUS
  <2>. HIDE DEF Bound
  <2>. QED BY <2>1
<1>2. ASSUME NEW k \in Nat, k \in N PROVE k + 1 \in N
  <2>1. PICK b \in Nat : Bound(k, b)
    <3>. HIDE DEF Bound
    <3>. QED BY <1>2
  <2>2. CASE k + 1 \notin left
    <3>1. Bound(k + 1, b)
      BY <2>1, <2>2
    <3>. HIDE DEF Bound
    <3>. QED BY <3>1
  <2>3. CASE k + 1 \in left
    <3>. DEFINE c == IF gap[k + 1] <= b THEN b ELSE gap[k + 1]
    <3>1. gap[k + 1] \in Nat
      BY <2>3
    <3>2. c \in Nat /\ b <= c /\ gap[k + 1] <= c
      BY <3>1
    <3>. HIDE DEF c
    <3>3. ASSUME NEW i \in left, i <= k + 1 PROVE gap[i] <= c
      <4>1. gap[i] \in Nat
        BY <3>3
      <4>2. CASE i <= k
        <5>1. gap[i] <= b
          BY <2>1, <4>2
        <5>. QED BY <3>2, <4>1, <5>1
      <4>3. CASE i = k + 1
        BY <3>2, <4>3
      <4>. QED BY <3>3, <4>2, <4>3
    <3>4. Bound(k + 1, c)
      BY <3>3
    <3>. HIDE DEF Bound
    <3>. QED BY <3>2, <3>4
  <2>. QED BY <2>2, <2>3
<1>3. Nat \subseteq N
  <2>. HIDE DEF N
  <2>. QED BY <1>1, <1>2, NaturalsByInduction
<1>4. PICK b \in Nat : Bound(n, b)
  <2>. HIDE DEF Bound
  <2>. QED BY <1>3
<1>5. \A i \in left : gap[i] <= b
  BY <1>4
<1>. QED BY <1>5

LEMMA FarthestExists ==
  ASSUME NEW n \in Nat, NEW left, left \subseteq 1..n, left # {}, NEW gap \in [left -> Nat]
  PROVE  \E i \in left : \A j \in left : gap[i] > gap[j] \/ (gap[i] = gap[j] /\ i <= j)
<1>1. PICK b \in Nat : \A i \in left : gap[i] <= b
  BY GapsBounded
<1>. DEFINE Rank(i) == b - gap[i]
            Ranks == {Rank(i) : i \in left}
<1>2. Ranks \subseteq Nat /\ Ranks # {}
  <2>1. \A i \in left : Rank(i) \in Nat
    BY <1>1
  <2>. QED BY <2>1
<1>3. PICK r \in Ranks : \A q \in Ranks : r <= q
  <2>. HIDE DEF Ranks
  <2>. QED BY <1>2, LeastOfNaturals
<1>. DEFINE Firsts == {i \in left : Rank(i) = r}
<1>4. Firsts \subseteq Nat /\ Firsts # {}
  <2>1. left \subseteq Nat
    OBVIOUS
  <2>2. PICK i \in left : Rank(i) = r
    BY <1>3
  <2>. HIDE DEF Rank
  <2>. QED BY <2>1, <2>2
<1>5. PICK i \in Firsts : \A j \in Firsts : i <= j
  <2>. HIDE DEF Firsts
  <2>. QED BY <1>4, LeastOfNaturals
<1>6. ASSUME NEW j \in left
      PROVE  gap[i] > gap[j] \/ (gap[i] = gap[j] /\ i <= j)
  <2>1. Rank(i) <= Rank(j) /\ gap[i] \in Nat /\ gap[j] \in Nat
    BY <1>3, <1>5
  <2>2. CASE Rank(i) = Rank(j)
    <3>1. gap[i] = gap[j]  BY <2>1, <2>2
    <3>2. j \in Firsts  BY <1>5, <2>2
    <3>. QED BY <1>5, <3>1, <3>2
  <2>3. CASE Rank(i) # Rank(j)
    BY <2>1, <2>3
  <2>. QED BY <2>2, <2>3
<1>. QED BY <1>5, <1>6

(* The next candidate is one of the candidates.                            *)
LEMMA CandidateIndexTyped ==
  ASSUME NEW n \in Nat, NEW candidates \in Seq(Points(n)), candidates # <<>>,
         NEW selected \in Seq(Points(n))
  PROVE  CandidateIndex(candidates, selected) \in 1..Len(candidates)
<1>. DEFINE left == {i \in 1..Len(candidates) :
                       \A k \in 1..Len(selected) :
                         ParamsKey(selected[k]) # ParamsKey(candidates[i])}
            Gap(i) == Min({Distance(candidates[i], selected[k]) : k \in 1..Len(selected)})
            Farthest(i) == \A j \in left : Gap(i) > Gap(j) \/ (Gap(i) = Gap(j) /\ i <= j)
<1>0. Len(candidates) \in Nat \ {0} /\ Len(selected) \in Nat
  OBVIOUS
<1>1. CASE selected = <<>>
  <2>1. CandidateIndex(candidates, selected) = Len(candidates) \div 2 + 1
    BY <1>1 DEF CandidateIndex
  <2>. QED BY <1>0, <2>1
<1>2. CASE selected # <<>> /\ left = {}
  <2>1. CandidateIndex(candidates, selected) = 1
    BY <1>2 DEF CandidateIndex
  <2>. QED BY <1>0, <2>1
<1>3. CASE selected # <<>> /\ left # {}
  <2>1. CandidateIndex(candidates, selected) = CHOOSE i \in left : Farthest(i)
    BY <1>3 DEF CandidateIndex
  <2>2. ASSUME NEW i \in left PROVE Gap(i) \in Nat
    <3>. DEFINE S == {Distance(candidates[i], selected[k]) : k \in 1..Len(selected)}
    <3>1. ASSUME NEW k \in 1..Len(selected) PROVE Distance(candidates[i], selected[k]) \in Nat
      <4>1. candidates[i] \in Points(n) /\ selected[k] \in Points(n)
        OBVIOUS
      <4>. QED BY <4>1, DistanceTyped DEF Points
    <3>2. S \subseteq Nat /\ S # {}
      <4>1. 1 \in 1..Len(selected)
        BY <1>0, <1>3
      <4>. QED BY <3>1, <4>1
    <3>3. Min(S) \in Nat
      <4>. HIDE DEF S
      <4>. QED BY <3>2, MinOfNaturals
    <3>. QED BY <3>3
  <2>. DEFINE gap == [i \in left |-> Gap(i)]
  <2>3. gap \in [left -> Nat] /\ left \subseteq 1..Len(candidates)
    BY <2>2
  <2>4. \E i \in left : \A j \in left : gap[i] > gap[j] \/ (gap[i] = gap[j] /\ i <= j)
    <3>. HIDE DEF gap, left
    <3>. QED BY <1>0, <1>3, <2>3, FarthestExists
  <2>5. \A i \in left : gap[i] = Gap(i)
    OBVIOUS
  <2>6. \E i \in left : Farthest(i)
    <3>. HIDE DEF gap, left, Gap
    <3>. QED BY <2>4, <2>5
  <2>7. (CHOOSE i \in left : Farthest(i)) \in left
    <3>. HIDE DEF left, Farthest
    <3>. QED BY <2>6
  <2>. QED BY <2>1, <2>7
<1>. QED BY <1>1, <1>2, <1>3
(* A bayesian selection is a sequence of candidates.                       *)
LEMMA SelectionTyped ==
  ASSUME NEW L \in Nat, NEW candidates \in Seq(Points(L)), NEW n \in Nat
  PROVE  BayesianSelection(candidates, n) \in Seq(Points(L))
<1>. DEFINE count == Cardinality(ToSet(candidates))
            taken == Min({n, count})
            Pick_(v) == candidates[CandidateIndex(candidates, v)]
            V == Seq(Points(L))
            step == [k \in 1..taken |-> [v \in V |-> Append(v, Pick_(v))]]
            Body(g, k) == IF k = 0 THEN <<>> ELSE Append(g[k - 1], Pick_(g[k - 1]))
            Eq(g) == g = [k \in 0..taken |-> Body(g, k)]
            F == CHOOSE g : Eq(g)
<1>1. BayesianSelection(candidates, n) = F[taken]
  BY DEF BayesianSelection
<1>2. count \in Nat /\ (candidates = <<>> => count = 0)
  <2>. DEFINE T == ToSet(candidates)
  <2>1. T = {candidates[i] : i \in 1..Len(candidates)} /\ Len(candidates) \in Nat
    BY DEF ToSet
  <2>2. candidates \in Surjection(1..Len(candidates), T)
    <3>1. candidates \in [1..Len(candidates) -> T]
      <4>1. candidates = [i \in 1..Len(candidates) |-> candidates[i]]
        OBVIOUS
      <4>2. \A i \in 1..Len(candidates) : candidates[i] \in T
        BY <2>1
      <4>. HIDE DEF T
      <4>. QED BY <4>1, <4>2
    <3>2. \A t \in T : \E i \in 1..Len(candidates) : candidates[i] = t
      BY <2>1
    <3>. HIDE DEF T
    <3>. QED BY <3>1, <3>2 DEF Surjection
  <2>3. IsFiniteSet(T)
    <3>1. IsFiniteSet(1..Len(candidates))
      BY <2>1, FS_Interval
    <3>. HIDE DEF T
    <3>. QED BY <2>2, <3>1, FS_Surjection
  <2>4. candidates = <<>> => T = {}
    BY <2>1
  <2>. HIDE DEF T
  <2>5. Cardinality(T) \in Nat /\ (candidates = <<>> => Cardinality(T) = 0)
    BY <2>3, <2>4, FS_CardinalityType, FS_EmptySet
  <2>. QED BY <2>5 DEF T
<1>3. taken \in Nat /\ taken <= count
  <2>. HIDE DEF count
  <2>1. \E x \in {n, count} : \A y \in {n, count} : x <= y
    BY <1>2
  <2>2. taken \in {n, count} /\ \A y \in {n, count} : taken <= y
    BY <2>1 DEF Min
  <2>. QED BY <1>2, <2>2
<1>. HIDE DEF count, taken, Pick_
<1>4. ASSUME NEW k \in 1..taken, NEW v \in V PROVE Pick_(v) \in Points(L)
  <2>1. candidates # <<>>
    BY <1>2, <1>3
  <2>2. CandidateIndex(candidates, v) \in 1..Len(candidates)
    BY <2>1, CandidateIndexTyped
  <2>. QED BY <2>2 DEF Pick_
<1>5. \A k \in 1..taken : \A v \in V :
        step[k][v] = Append(v, Pick_(v)) /\ step[k][v] \in V
  <2>1. \A k \in 1..taken : \A v \in V : Append(v, Pick_(v)) \in V
    BY <1>4
  <2>. HIDE DEF V
  <2>. QED BY <2>1
<1>6. <<>> \in V
  OBVIOUS
<1>. HIDE DEF step, V
<1>7. PICK f : Iterates(f, taken, V, <<>>, step)
  BY <1>3, <1>5, <1>6, RecursionExists
<1>8. ASSUME NEW k \in 0..taken PROVE f[k] = Body(f, k)
  <2>1. CASE k = 0
    BY <1>7, <2>1 DEF Iterates
  <2>2. CASE k # 0
    <3>1. k \in 1..taken /\ k - 1 \in 0..taken
      BY <1>3, <2>2
    <3>2. f[k] = step[k][f[k - 1]] /\ f[k - 1] \in V
      BY <1>7, <3>1 DEF Iterates
    <3>. QED BY <1>5, <2>2, <3>1, <3>2
  <2>. QED BY <2>1, <2>2
<1>9. f = [k \in 0..taken |-> f[k]]
  BY <1>7 DEF Iterates
<1>. HIDE DEF Body
<1>10. Eq(f)
  BY <1>8, <1>9
<1>11. Eq(F)
  <2>. HIDE DEF Eq
  <2>. QED BY <1>10
<1>. HIDE DEF F
<1>12. \A k \in 0..taken : F[k] = Body(F, k)
  BY <1>11
<1>13. F[0] = <<>> /\ \A k \in 1..taken : F[k] = Append(F[k - 1], Pick_(F[k - 1]))
  <2>1. F[0] = <<>>
    <3>1. Body(F, 0) = <<>>
      BY DEF Body
    <3>. QED BY <1>3, <1>12, <3>1
  <2>2. ASSUME NEW k \in 1..taken PROVE F[k] = Append(F[k - 1], Pick_(F[k - 1]))
    <3>1. k \in 0..taken /\ k # 0
      BY <1>3
    <3>2. F[k] = Body(F, k)
      BY <1>12, <3>1
    <3>3. Body(F, k) = Append(F[k - 1], Pick_(F[k - 1]))
      BY <3>1 DEF Body
    <3>. QED BY <3>2, <3>3
  <2>. QED BY <2>1, <2>2
<1>. DEFINE N == {k \in Nat : k <= taken => F[k] \in V}
<1>14. 0 \in N
  BY <1>6, <1>13
<1>15. ASSUME NEW k \in Nat, k \in N PROVE k + 1 \in N
  <2>. SUFFICES ASSUME k + 1 <= taken PROVE F[k + 1] \in V
    OBVIOUS
  <2>1. k + 1 \in 1..taken /\ (k + 1) - 1 = k /\ F[k] \in V
    BY <1>3, <1>15
  <2>2. F[k + 1] = Append(F[k], Pick_(F[k]))
    BY <1>13, <2>1
  <2>. QED BY <1>5, <2>1, <2>2
<1>16. Nat \subseteq N
  <2>. HIDE DEF N
  <2>. QED BY <1>14, <1>15, NaturalsByInduction
<1>. QED BY <1>1, <1>3, <1>16 DEF V
------------------------------------------------------------------------------
(* The queue of QCompute: the snapshots of simulators come first.          *)
Sorted(s) ==
  /\ \E T : s \in Seq(T)
  /\ \A i, j \in 1..Len(s) : OnHardware(s[i]) /\ ~OnHardware(s[j]) => j < i

LEMMA ScheduleSorted ==
  ASSUME NEW T, NEW grid \in Seq(T)
  PROVE  Sorted(ScheduleTrials(grid))
<1>1. CASE study.template = "simulator" /\ study.platform = 0
  <2>1. ScheduleTrials(grid) = grid
    BY <1>1 DEF ScheduleTrials
  <2>2. \A s : ~OnHardware(s)
    BY <1>1 DEF OnHardware
  <2>. QED BY <2>1, <2>2 DEF Sorted
<1>2. CASE ~(study.template = "simulator" /\ study.platform = 0)
  <2>. DEFINE H == {s \in ToSet(grid) : OnHardware(s)}
              R == ToSet(grid) \ H
              a == Within(grid, R)
              b == Within(grid, H)
  <2>1. ScheduleTrials(grid) = a \o b
    BY <1>2 DEF ScheduleTrials
  <2>2. /\ a \in Seq(T) /\ \A i \in 1..Len(a) : a[i] \in R
        /\ b \in Seq(T) /\ \A i \in 1..Len(b) : b[i] \in H
    <3>. HIDE DEF R, H
    <3>. QED BY WithinTyped
  <2>3. /\ \A i \in 1..Len(a) : ~OnHardware(a[i])
        /\ \A i \in 1..Len(b) : OnHardware(b[i])
    BY <2>2
  <2>. HIDE DEF a, b
  <2>4. /\ a \o b \in Seq(T) /\ Len(a \o b) = Len(a) + Len(b)
        /\ Len(a) \in Nat /\ Len(b) \in Nat
        /\ \A i \in 1..Len(a) : (a \o b)[i] = a[i]
        /\ \A i \in 1..Len(a) + Len(b) : i > Len(a) => (a \o b)[i] = b[i - Len(a)]
    BY <2>2
  <2>5. ASSUME NEW i \in 1..Len(a) + Len(b), NEW j \in 1..Len(a) + Len(b),
               OnHardware((a \o b)[i]), ~OnHardware((a \o b)[j])
        PROVE  j < i
    <3>1. i > Len(a)
      BY <2>3, <2>4, <2>5
    <3>2. j <= Len(a)
      <4>1. ASSUME j > Len(a) PROVE FALSE
        <5>1. j - Len(a) \in 1..Len(b) /\ (a \o b)[j] = b[j - Len(a)]
          BY <2>4, <4>1
        <5>. QED BY <2>3, <2>5, <5>1
      <4>. QED BY <2>4, <4>1
    <3>. QED BY <2>4, <3>1, <3>2
  <2>. QED BY <2>1, <2>4, <2>5 DEF Sorted
<1>. QED BY <1>1, <1>2

LEMMA CutSorted ==
  ASSUME NEW s, Sorted(s), NEW n \in Nat
  PROVE  Sorted(CutTo(Some(n), s))
<1>1. PICK T : s \in Seq(T)
  BY DEF Sorted
<1>2. Len(s) \in Nat /\ Only(Some(n)) = n
  BY <1>1, OnlySome
<1>3. CASE n >= Len(s)
  BY <1>2, <1>3 DEF CutTo
<1>4. CASE n < Len(s)
  <2>1. CutTo(Some(n), s) = SubSeq(s, 1, n)
    BY <1>2, <1>4, OnlySome DEF CutTo
  <2>. DEFINE c == SubSeq(s, 1, n)
  <2>2. c \in Seq(T) /\ Len(c) = n /\ \A i \in 1..n : c[i] = s[i]
    BY <1>1, <1>2, <1>4
  <2>. HIDE DEF c
  <2>3. \A i \in 1..n : i \in 1..Len(s)
    BY <1>2, <1>4
  <2>4. Sorted(c)
    BY <2>2, <2>3 DEF Sorted
  <2>. QED BY <2>1, <2>4 DEF c
<1>. QED BY <1>2, <1>3, <1>4

LEMMA GeneratedTyped ==
  ASSUME StudyKnown, AxesKnown, study.kind = "qcompute", NEW grid \in GenerateGrid,
         grid.end = "grid"
  PROVE  \E T : grid.snapshots \in Seq(T)
<1>. DEFINE cartesian == QcomputeGrid(study.axes)
<1>1. PICK n \in Nat : study.limit = Some(n)
  BY DEF AxesKnown
<1>2. Only(study.limit) = n
  BY <1>1, OnlySome
<1>3. \A s : Grid(s).snapshots = s
  BY DEF Grid
<1>4. CASE study.strategy = "grid"
  <2>1. grid = cartesian
    BY <1>4 DEF GenerateGrid
  <2>. QED BY <2>1, QcomputePoints
<1>5. CASE study.strategy = "random"
  <2>1. PICK g \in RandomGrids(study.axes, n) : grid = Grid(g)
    BY <1>2, <1>5 DEF GenerateGrid
  <2>. QED BY <1>3, <2>1, RandomTyped
<1>6. CASE study.strategy = "agentic"
  <2>1. PICK g \in AgenticGrids(study.axes, n) : grid = Grid(g)
    BY <1>2, <1>6 DEF GenerateGrid
  <2>. QED BY <1>3, <2>1, AgenticTyped
<1>7. CASE study.strategy = "bayesian"
  <2>1. grid = IF cartesian.end = "grid" THEN Grid(BayesianSelection(cartesian.snapshots, n))
               ELSE cartesian
    BY <1>2, <1>7 DEF GenerateGrid
  <2>2. CASE cartesian.end # "grid"
    BY <2>1, <2>2
  <2>3. CASE cartesian.end = "grid"
    <3>1. PICK L \in Nat : cartesian.snapshots \in Seq(Points(L))
      BY <2>3, QcomputePoints
    <3>2. BayesianSelection(cartesian.snapshots, n) \in Seq(Points(L))
      <4>. HIDE DEF cartesian
      <4>. QED BY <3>1, SelectionTyped
    <3>. QED BY <1>3, <2>1, <2>3, <3>2
  <2>. QED BY <2>2, <2>3
<1>. QED BY <1>4, <1>5, <1>6, <1>7 DEF StudyKnown
QueueSorted == study.kind = "qcompute" => Sorted(queue)

LEMMA InitQueue == Init => QueueSorted
<1>1. Sorted(<<>>)
  <2>1. <<>> \in Seq({})
    OBVIOUS
  <2>. QED BY <2>1 DEF Sorted
<1>. QED BY <1>1 DEF Init, QueueSorted

LEMMA QueueStays ==
  ASSUME QueueSorted, UNCHANGED <<study, queue>>
  PROVE  QueueSorted'
<1>1. Sorted(queue) => Sorted(queue)'
  BY DEF Sorted, OnHardware
<1>. QED BY <1>1 DEF QueueSorted

LEMMA NextQueue == Course /\ AxesKnown /\ QueueSorted /\ [Next]_vars => QueueSorted'
<1>. SUFFICES ASSUME Course, AxesKnown, QueueSorted, [Next]_vars PROVE QueueSorted'
  OBVIOUS
<1>0. UNCHANGED study
  BY StudyFixed DEF Course
<1>1. CASE Generate /\ ~QcomputeSnapshots
  <2>1. study.kind # "qcompute"
    BY <1>1 DEF Generate, OctaveSnapshots, FealpySnapshots, BoutppSnapshots, PycfdSnapshots,
       MooseSnapshots, JediValues, DeepMDValues, NektarValues
  <2>. QED BY <1>0, <2>1 DEF QueueSorted
<1>2. CASE QcomputeSnapshots
  <2>1. PICK grid \in GenerateGrid :
          Begin(grid, CutTo(study.limit, ScheduleTrials(grid.snapshots)))
    BY <1>2 DEF QcomputeSnapshots
  <2>2. study.kind = "qcompute" /\ StudyKnown
    BY <1>2 DEF QcomputeSnapshots, Course
  <2>3. CASE grid.end # "grid"
    <3>1. grid.end \in Ends
      BY <2>2, GenerateGridEnds
    <3>2. UNCHANGED queue
      BY <2>1, <2>3, <3>1 DEF Begin, Ends
    <3>. QED BY <1>0, <3>2, QueueStays
  <2>4. CASE grid.end = "grid"
    <3>. DEFINE cut == CutTo(study.limit, ScheduleTrials(grid.snapshots))
    <3>1. queue' = cut
      BY <2>1, <2>4 DEF Begin
    <3>2. PICK T : grid.snapshots \in Seq(T)
      BY <2>2, <2>4, GeneratedTyped
    <3>3. PICK n \in Nat : study.limit = Some(n)
      BY <2>2 DEF AxesKnown
    <3>4. Sorted(cut)
      BY <3>2, <3>3, ScheduleSorted, CutSorted
    <3>. HIDE DEF cut
    <3>5. Sorted(queue')
      BY <3>1, <3>4
    <3>6. Sorted(queue)'
      BY <1>0, <3>5 DEF Sorted, OnHardware
    <3>. QED BY <3>6 DEF QueueSorted
  <2>. QED BY <2>3, <2>4
<1>3. CASE LoopTrial
  BY <1>0, <1>3, LoopTries, QueueStays DEF Tries, GivesUp, RestOfStudy
<1>4. CASE StartTrial \/ CancelWaiting \/ RaiseStudy \/ \E i \in Trials : FinishTrial(i)
  BY <1>0, <1>4, QueueStays DEF StartTrial, CancelWaiting, RaiseStudy, FinishTrial, RestOfStudy
<1>5. CASE Conclude
  <2>1. UNCHANGED queue
    BY <1>5 DEF Conclude, OctaveReport, FealpyReport, BoutppReport, PycfdReport, MooseReport,
       JediReport, QcomputeReport, NektarReport, DeepMDReport, HandOffTrial, Report
  <2>. QED BY <1>0, <2>1, QueueStays
<1>6. CASE Propose
  BY <1>6, QueueStays DEF Propose
<1>7. CASE UNCHANGED vars
  BY <1>7, QueueStays DEF vars
<1>. QED BY <1>1, <1>2, <1>3, <1>4, <1>5, <1>6, <1>7 DEF Next, RunTrial, LoopTrial, Generate, Finished

LEMMA SortedIsSimulatorsFirst == Course /\ QueueSorted => SimulatorsFirst
<1>. SUFFICES ASSUME Course, study.kind = "qcompute", Sorted(queue),
                     NEW i \in 1..Len(queue), NEW j \in 1..Len(queue), i <= Len(trials),
                     OnHardware(queue[i]), ~OnHardware(queue[j])
              PROVE  j <= Len(trials)
  BY DEF QueueSorted, SimulatorsFirst
<1>1. Len(trials) \in Nat
  BY DEF Course, TrialsTyped
<1>2. j < i
  BY DEF Sorted
<1>. QED BY <1>1, <1>2

(* For any extensions and thresholds, trials that pass, fail, raise or     *)
(* fail with norms: what a study reports follows from its trials.  A study *)
(* that recommends the best trial recommends one that ran to its end and   *)
(* was valid, and no trial that passed is better.  What a convergence      *)
(* study calls converged completed, passed, and meets its rule against     *)
(* completed trials only; its fallback, which need not have passed, has    *)
(* the least positive norm of those that completed; an early stop stops at *)
(* the trial it recommends.  Simulators come before hardware; nothing on   *)
(* the Pareto front is dominated and nothing that was left out is missed.  *)
THEOREM ReportsAlwaysStand == Spec => []ReportStands
<1>1. Spec => []QueueSorted
  BY InitQueue, NextQueue, SpecCourse, SpecAxes, PTL DEF Spec
<1>2. Course /\ QueueSorted /\ Reports => ReportStands
  BY SortedIsSimulatorsFirst DEF Reports, ReportStands
<1>. QED BY <1>1, <1>2, SpecCourse, SpecReports, PTL
------------------------------------------------------------------------------
(* The optimizer's proposals: at most so many candidates, none twice.      *)
Most == IF MaxProposals < 1 THEN 1 ELSE MaxProposals

LEMMA MostIsMax == Max({1, MaxProposals}) = Most /\ Most \in Nat \ {0}
<1>1. MaxProposals \in Int
  BY StudiesAssumption
<1>2. /\ Most \in {1, MaxProposals} /\ \A y \in {1, MaxProposals} : Most >= y
      /\ \A x \in {1, MaxProposals} :
           (\A y \in {1, MaxProposals} : x >= y) => x = Most
  BY <1>1 DEF Most
<1>3. Max({1, MaxProposals}) = Most
  <2>. HIDE DEF Most
  <2>. QED BY <1>2 DEF Max
<1>. QED BY <1>1, <1>3 DEF Most

FreshIn(C, U) ==
  {v \in Seq(U) : /\ Len(v) <= Most
                  /\ \A i \in 1..Len(v) : v[i] \in C
                  /\ \A i, j \in 1..Len(v) : j < i => v[j] # v[i]}

LEMMA OneMoreProposal ==
  ASSUME NEW C, NEW U, NEW v \in FreshIn(C, U), NEW x \in U, ~EnoughProposed(v),
         SanitizeSnapshot(x, C, ToSet(v))
  PROVE  Append(v, x) \in FreshIn(C, U)
<1>1. v \in Seq(U) /\ Len(v) \in Nat /\ Len(v) < Most
  <2>1. v \in Seq(U) /\ Len(v) \in Nat /\ MaxProposals \in Int
    BY StudiesAssumption DEF FreshIn
  <2>2. CASE v = <<>>
    BY <2>1, <2>2, MostIsMax
  <2>3. CASE v # <<>>
    BY <2>1, <2>3 DEF EnoughProposed, Most
  <2>. QED BY <2>1, <2>2, <2>3
<1>0. Most \in Nat
  BY MostIsMax
<1>2. x \in C /\ \A i \in 1..Len(v) : v[i] # x
  BY DEF SanitizeSnapshot, ToSet
<1>. DEFINE w == Append(v, x)
<1>3. /\ w \in Seq(U) /\ Len(w) = Len(v) + 1 /\ w[Len(v) + 1] = x
      /\ \A i \in 1..Len(v) : w[i] = v[i]
  BY <1>1
<1>. HIDE DEF w
<1>4. \A i \in 1..Len(w) : i \in 1..Len(v) \/ i = Len(v) + 1
  BY <1>1, <1>3
<1>5. Len(w) <= Most
  BY <1>0, <1>1, <1>3
<1>6. \A i \in 1..Len(w) : w[i] \in C
  BY <1>2, <1>3, <1>4 DEF FreshIn
<1>7. ASSUME NEW i \in 1..Len(w), NEW j \in 1..Len(w), j < i PROVE w[j] # w[i]
  <2>1. j \in 1..Len(v)
    BY <1>1, <1>3, <1>7
  <2>2. CASE i \in 1..Len(v)
    BY <1>3, <1>7, <2>1, <2>2 DEF FreshIn
  <2>3. CASE i = Len(v) + 1
    BY <1>2, <1>3, <2>1, <2>3
  <2>. QED BY <1>4, <2>2, <2>3
<1>8. w \in FreshIn(C, U)
  BY <1>3, <1>5, <1>6, <1>7 DEF FreshIn
<1>. QED BY <1>8 DEF w

LEMMA ProposalsFresh ==
  ASSUME NEW C, NEW U, NEW ordered \in Seq(U)
  PROVE  Proposals(ordered, C) \in FreshIn(C, U)
<1>0. Len(ordered) \in Nat /\ \A k \in 1..Len(ordered) : ordered[k] \in U
  OBVIOUS
<1>. DEFINE V == FreshIn(C, U)
            Take(made, k) == IF /\ ~EnoughProposed(made)
                                /\ SanitizeSnapshot(ordered[k], C, ToSet(made))
                             THEN Append(made, ordered[k]) ELSE made
            step == [k \in 1..Len(ordered) |-> [v \in V |-> Take(v, k)]]
            Body(g, k) == IF k = 0 THEN <<>> ELSE Take(g[k - 1], k)
            Eq(g) == g = [k \in 0..Len(ordered) |-> Body(g, k)]
            F == CHOOSE g : Eq(g)
<1>1. Proposals(ordered, C) = F[Len(ordered)]
  BY DEF Proposals
<1>2. ASSUME NEW k \in 1..Len(ordered), NEW v \in V PROVE Take(v, k) \in V
  BY <1>0, OneMoreProposal
<1>3. <<>> \in V
  <2>1. <<>> \in Seq(U) /\ Len(<<>>) = 0
    OBVIOUS
  <2>. QED BY <2>1, MostIsMax DEF FreshIn
<1>. HIDE DEF V, Take
<1>4. \A k \in 1..Len(ordered) : \A v \in V : step[k][v] = Take(v, k) /\ step[k][v] \in V
  BY <1>2
<1>. HIDE DEF step
<1>5. PICK f : Iterates(f, Len(ordered), V, <<>>, step)
  BY <1>0, <1>3, <1>4, RecursionExists
<1>6. ASSUME NEW k \in 0..Len(ordered) PROVE f[k] = Body(f, k)
  <2>1. CASE k = 0
    BY <1>5, <2>1 DEF Iterates
  <2>2. CASE k # 0
    <3>1. k \in 1..Len(ordered) /\ k - 1 \in 0..Len(ordered)
      BY <1>0, <2>2
    <3>2. f[k] = step[k][f[k - 1]] /\ f[k - 1] \in V
      BY <1>5, <3>1 DEF Iterates
    <3>. QED BY <1>4, <2>2, <3>1, <3>2
  <2>. QED BY <2>1, <2>2
<1>7. f = [k \in 0..Len(ordered) |-> f[k]]
  BY <1>5 DEF Iterates
<1>8. Eq(f)
  <2>. HIDE DEF Body
  <2>. QED BY <1>6, <1>7
<1>9. Eq(F)
  <2>. HIDE DEF Eq
  <2>. QED BY <1>8
<1>. HIDE DEF F
<1>10. \A k \in 0..Len(ordered) : F[k] = Body(F, k)
  <2>. HIDE DEF Body
  <2>. QED BY <1>9
<1>11. StepAlike(F, f, Len(ordered))
  <2>1. F[0] = f[0]
    BY <1>0, <1>6, <1>10
  <2>2. ASSUME NEW k \in 1..Len(ordered), F[k - 1] = f[k - 1] PROVE F[k] = f[k]
    <3>1. k \in 0..Len(ordered) /\ k # 0
      BY <1>0
    <3>2. F[k] = Body(F, k) /\ f[k] = Body(f, k)
      <4>. HIDE DEF Body
      <4>. QED BY <1>6, <1>10, <3>1
    <3>. QED BY <2>2, <3>1, <3>2
  <2>. QED BY <2>1, <2>2 DEF StepAlike
<1>12. F[Len(ordered)] = f[Len(ordered)] /\ f[Len(ordered)] \in V
  BY <1>0, <1>5, <1>11, RecursionUnique DEF Iterates
<1>. QED BY <1>1, <1>12 DEF V
(* The optimizer's candidates are a sequence of snapshots.                 *)
LEMMA OptimizerAxisTyped ==
  ASSUME NEW a, AxisKnown(a),
         ~(/\ a.values \in {None, {<<>>}} /\ Given(a.range) /\ Given(a.step)
           /\ EndlessWalk(Only(a.range), Only(a.step)))
  PROVE  OptimizerAxisValues(a) \in Seq(Int)
<1>1. CASE a.values \notin {None, {<<>>}}
  <2>1. PICK s \in Seq(Int) : a.values = Some(s)
    BY <1>1 DEF AxisKnown
  <2>. QED BY <1>1, <2>1, OnlySome DEF OptimizerAxisValues
<1>2. CASE a.values \in {None, {<<>>}} /\ a.range = None
  BY <1>2 DEF OptimizerAxisValues
<1>3. CASE a.values \in {None, {<<>>}} /\ a.range # None
  <2>1. PICK lo \in Int, hi \in Int : a.range = Some(<<lo, hi>>)
    BY <1>3 DEF AxisKnown
  <2>2. Only(a.range) = <<lo, hi>>
    BY <2>1, OnlySome
  <2>3. CASE a.step = None
    <3>1. OptimizerAxisValues(a) = <<(lo + hi) \div 2>>
      BY <1>3, <2>2, <2>3 DEF OptimizerAxisValues
    <3>2. (lo + hi) \div 2 \in Int
      OBVIOUS
    <3>. QED BY <3>1, <3>2
  <2>4. CASE a.step # None
    <3>1. PICK n \in Int : a.step = Some(n)
      BY <2>4 DEF AxisKnown
    <3>2. Only(a.step) = n
      BY <3>1, OnlySome
    <3>3. OptimizerAxisValues(a) = Sums(a, n)
      BY <1>3, <2>2, <2>4, <3>2 DEF OptimizerAxisValues
    <3>4. ~EndlessWalk(<<lo, hi>>, n)
      BY <1>3, <2>2, <2>4, <3>2 DEF Given, None
    <3>5. Walk(Only(a.range), n) \in Seq(Int)
      BY <2>2, <3>4, WalkTyped
    <3>. QED BY <3>3, <3>5, SumsTyped
  <2>. QED BY <2>3, <2>4
<1>. QED BY <1>1, <1>2, <1>3

LEMMA CandidatesTyped ==
  ASSUME AxesKnown, study.kind \in {"octave", "fealpy"}, ~OptimizerNeverEnds
  PROVE  CandidateSnapshots \in Seq(Seq(Int))
<1>. DEFINE n == Len(study.axes)
            S == Seq(Int)
            all == [i \in 1..n |-> OptimizerAxisValues(study.axes[i])]
<1>1. n \in Nat
  BY DEF AxesKnown, AllKnown
<1>2. ASSUME NEW i \in 1..n PROVE OptimizerAxisValues(study.axes[i]) \in Seq(Int)
  <2>1. AxisKnown(study.axes[i])
    BY DEF AxesKnown, AllKnown
  <2>. QED BY <2>1, OptimizerAxisTyped DEF OptimizerNeverEnds
<1>3. all \in Seq(S)
  <2>. HIDE DEF n, S
  <2>. QED BY <1>1, <1>2 DEF S
<1>4. Product(all) \in Seq(Seq(Int))
  <2>. HIDE DEF all
  <2>. QED BY <1>3, ProductTyped
<1>. QED BY <1>4 DEF CandidateSnapshots

(* What is still untried is a candidate, and was not tried.                *)
LEMMA UntriedTyped ==
  ASSUME NEW T, NEW candidates \in Seq(T)
  PROVE  /\ Untried(candidates) \in Seq(T)
         /\ ToSet(Untried(candidates)) \subseteq ToSet(candidates) \ Tried
<1>. DEFINE S == ToSet(candidates) \ (Tried \cup {<<>>})
            k == Within(candidates, S)
<1>1. k \in Seq(T) /\ \A i \in 1..Len(k) : k[i] \in S
  <2>. HIDE DEF S
  <2>. QED BY WithinTyped
<1>2. Untried(candidates) = k
  BY DEF Untried
<1>3. \A i \in 1..Len(k) : k[i] \in ToSet(candidates) \ Tried
  BY <1>1
<1>. HIDE DEF k
<1>. QED BY <1>1, <1>2, <1>3 DEF ToSet

LEMMA OrderedTyped ==
  ASSUME NEW T, NEW untried \in Seq(T), NEW ordered \in OrderedCandidates(untried)
  PROVE  \E U : ordered \in Seq(U)
<1>. DEFINE known == ToSet(untried) \cup Tried \cup {Stranger}
            U == T \cup known
<1>1. untried \in Seq(U)
  BY SeqMono
<1>2. CASE ordered = untried
  BY <1>1, <1>2
<1>3. CASE ordered = <<>>
  <2>1. ordered \in Seq(U)
    BY <1>3
  <2>. QED BY <2>1
<1>4. CASE \E a, b \in known : ordered = <<a, b>> \o untried
  <2>1. PICK a \in known, b \in known : ordered = <<a, b>> \o untried
    BY <1>4
  <2>2. a \in U /\ b \in U
    OBVIOUS
  <2>3. <<a, b>> \o untried \in Seq(U)
    <3>. HIDE DEF U
    <3>. QED BY <1>1, <2>2
  <2>. QED BY <2>1, <2>3
<1>5. \/ ordered = untried \/ ordered = <<>>
      \/ \E a, b \in known : ordered = <<a, b>> \o untried
  <2>. DEFINE two(a, b) == <<a, b>> \o untried
              pairs == {two(a, b) : a, b \in known}
  <2>1. OrderedCandidates(untried) = {untried, <<>>} \cup pairs
    BY SMT DEF OrderedCandidates
  <2>2. ASSUME ordered \in pairs PROVE \E a, b \in known : ordered = two(a, b)
    <3>. HIDE DEF two, known
    <3>. QED BY <2>2, SMT
  <2>. HIDE DEF pairs
  <2>3. ordered = untried \/ ordered = <<>> \/ ordered \in pairs
    BY <2>1
  <2>. QED BY <2>2, <2>3
<1>. HIDE DEF U, known
<1>. QED BY <1>2, <1>3, <1>4, <1>5

Fresh == ProposalsAreFresh /\ (stage # "proposed" => proposals = <<>>)

LEMMA NothingProposed ==
  ASSUME proposals = <<>> PROVE ProposalsAreFresh
BY MostIsMax DEF ProposalsAreFresh

LEMMA InitFresh == Init => Fresh
BY NothingProposed DEF Init, Fresh

LEMMA ProposeFresh ==
  ASSUME Course, AxesKnown, Fresh, Propose
  PROVE  Fresh'
<1>0. /\ stage = "done" /\ proposals = <<>> /\ study.kind \in {"octave", "fealpy"}
      /\ UNCHANGED <<study, trials>>
  BY DEF Propose, Fresh
<1>1. CASE OptimizerNeverEnds
  <2>1. proposals' = <<>> /\ stage' = "endless"
    BY <1>0, <1>1 DEF Propose, Goto
  <2>2. ProposalsAreFresh'
    BY <2>1, MostIsMax DEF ProposalsAreFresh
  <2>. QED BY <2>1, <2>2 DEF Fresh
<1>2. CASE ~OptimizerNeverEnds
  <2>. DEFINE all == CandidateSnapshots
              untried == Untried(all)
              C == ToSet(untried)
  <2>1. all \in Seq(Seq(Int))
    BY <1>0, <1>2, CandidatesTyped
  <2>2. untried \in Seq(Seq(Int)) /\ C \subseteq ToSet(all) \ Tried
    <3>. HIDE DEF all
    <3>. QED BY <2>1, UntriedTyped
  <2>3. PICK ordered \in OrderedCandidates(untried) : proposals' = Proposals(ordered, C)
    BY <1>2 DEF Propose
  <2>4. stage' = "proposed"
    BY <1>2 DEF Propose, Goto
  <2>5. PICK U : ordered \in Seq(U)
    <3>. HIDE DEF untried
    <3>. QED BY <2>2, OrderedTyped
  <2>6. proposals' \in FreshIn(C, U)
    <3>. HIDE DEF C
    <3>. QED BY <2>3, <2>5, ProposalsFresh
  <2>7. /\ Len(proposals') <= Max({1, MaxProposals})
        /\ \A i \in 1..Len(proposals') :
             /\ proposals'[i] \in ToSet(all) \ Tried
             /\ \A j \in 1..i - 1 : proposals'[j] # proposals'[i]
    <3>. HIDE DEF C, all
    <3>1. proposals' \in Seq(U) /\ Len(proposals') \in Nat
      BY <2>6 DEF FreshIn
    <3>2. ASSUME NEW i \in 1..Len(proposals'), NEW j \in 1..i - 1
          PROVE  proposals'[j] # proposals'[i]
      <4>1. j \in 1..Len(proposals') /\ j < i
        BY <3>1
      <4>. QED BY <2>6, <4>1 DEF FreshIn
    <3>. QED BY <2>2, <2>6, <3>2, MostIsMax DEF FreshIn
  <2>8. CandidateSnapshots' = all /\ Tried' = Tried
    BY <1>0 DEF CandidateSnapshots, Tried, Trials
  <2>9. ProposalsAreFresh'
    <3>. HIDE DEF all
    <3>. QED BY <2>7, <2>8 DEF ProposalsAreFresh
  <2>. QED BY <2>4, <2>9 DEF Fresh
<1>. QED BY <1>1, <1>2

LEMMA FreshStays ==
  ASSUME Fresh, UNCHANGED proposals, stage # "proposed"
  PROVE  Fresh'
<1>1. proposals' = <<>>
  BY DEF Fresh
<1>2. ProposalsAreFresh'
  BY <1>1, MostIsMax DEF ProposalsAreFresh
<1>. QED BY <1>1, <1>2 DEF Fresh

LEMMA NextFresh == Course /\ AxesKnown /\ Fresh /\ [Next]_vars => Fresh'
<1>. SUFFICES ASSUME Course, AxesKnown, Fresh, [Next]_vars PROVE Fresh'
  OBVIOUS
<1>1. CASE Generate
  <2>1. PICK grid, cut : Begin(grid, cut)
    BY <1>1, GenerateBegins DEF Course
  <2>. QED BY <2>1, FreshStays DEF Begin
<1>2. CASE LoopTrial
  BY <1>2, LoopTries, FreshStays DEF Tries, GivesUp, RestOfStudy, MoreToTry
<1>3. CASE StartTrial \/ CancelWaiting \/ RaiseStudy
  BY <1>3, FreshStays DEF StartTrial, CancelWaiting, RaiseStudy, RestOfStudy, MoreToTry
<1>4. CASE \E i \in Trials : FinishTrial(i)
  <2>1. Running # {} /\ UNCHANGED proposals
    BY <1>4 DEF FinishTrial, RestOfStudy
  <2>2. stage # "proposed"
    BY <2>1 DEF Course, NothingLeftRunning, Over
  <2>. QED BY <2>1, <2>2, FreshStays
<1>5. CASE Conclude
  <2>1. UNCHANGED proposals /\ stage # "proposed"
    BY <1>5 DEF Conclude, OctaveReport, FealpyReport, BoutppReport, PycfdReport, MooseReport,
       JediReport, QcomputeReport, NektarReport, DeepMDReport, HandOffTrial, Report, AllTried
  <2>. QED BY <2>1, FreshStays
<1>6. CASE Propose
  BY <1>6, ProposeFresh
<1>7. CASE UNCHANGED vars
  <2>1. CandidateSnapshots' = CandidateSnapshots /\ Tried' = Tried
    BY <1>7 DEF vars, CandidateSnapshots, Tried, Trials
  <2>2. ProposalsAreFresh' /\ UNCHANGED <<stage, proposals>>
    BY <1>7, <2>1 DEF vars, Fresh, ProposalsAreFresh
  <2>. QED BY <2>2 DEF Fresh
<1>. QED BY <1>1, <1>2, <1>3, <1>4, <1>5, <1>6, <1>7 DEF Next, RunTrial, LoopTrial, Finished

(* For any number of proposals, none included, and whatever a function     *)
(* from outside suggests: the optimizer proposes nothing that a trial was  *)
(* keyed with, nothing twice, nothing that is not on the axes, and never   *)
(* more than it may, or one.  The keys are those of the floats: a number   *)
(* that was tried rounded is another key (ProposesTheUntried).             *)
THEOREM ProposalsAlwaysFresh == Spec => []ProposalsAreFresh
<1>1. Spec => []Fresh
  BY InitFresh, NextFresh, SpecCourse, SpecAxes, PTL DEF Spec
<1>2. Fresh => ProposalsAreFresh
  BY DEF Fresh
<1>. QED BY <1>1, <1>2, PTL
==============================================================================
