------------------------------ MODULE StudyGrids -----------------------------
(***************************************************************************)
(* The pure part of the extensions' parameter studies: the snapshots that  *)
(* the axes of a study stand for, the trial that a study recommends, and   *)
(* the verdict of a convergence rule.                                      *)
(*                                                                         *)
(* An option (a field that may be None) is a set of at most one element.   *)
(* A snapshot is the sequence of its values, one for each axis, and        *)
(* metrics are integers: what the studies ask of them is their order and   *)
(* their ratios.                                                           *)
(***************************************************************************)
EXTENDS Selections, Integers, Sequences, FiniteSets, SequencesExt

None == {}
Some(x) == {x}
Only(option) == CHOOSE x \in option : TRUE
Given(option) == option # {}

(* The value None, which some axes set their parameter to.                 *)
Unset == -99

(* Numbers count tenths.  A sum of floats may miss the number it is meant  *)
(* to be by its last digits (0.1 + 0.2 is 0.30000000000000004): such a     *)
(* float is Off above the number that round(x, 10) makes of it.  An axis   *)
(* has drift: the places of its walk where the sum misses.                 *)
One == 10
Off == 1000
Rounded(x) == IF x >= Off - Off \div 2 THEN x - Off ELSE x

Axis(values, range, step) ==
  [values |-> values, range |-> range, step |-> step, drift |-> {}]

------------------------------------------------------------------------------
(* while current <= end: append; current += step.  A step that does not    *)
(* move the current value forward never leaves the loop.                   *)
Walk(range, step) ==
  IF range[1] > range[2] THEN <<>>
  ELSE [i \in 1..((range[2] - range[1]) \div step + 1) |-> range[1] + (i - 1) * step]
EndlessWalk(range, step) == range[1] <= range[2] /\ step <= 0

(* The floats that the loop appends.                                       *)
Sums(axis, step) ==
  LET exact == Walk(Only(axis.range), step)
  IN [i \in 1..Len(exact) |-> IF i \in axis.drift THEN exact[i] + Off ELSE exact[i]]

(* axis.step or 1.0                                                        *)
StepOrOne(axis) == IF axis.step \in {None, {0}} THEN One ELSE Only(axis.step)

(* Every combination of a value of each axis, the last axis fastest.       *)
Product(valuesPerAxis) ==
  LET upTo[k \in 0..Len(valuesPerAxis)] ==
        IF k = 0 THEN <<<<>>>>
        ELSE LET before == upTo[k - 1]
                 values == valuesPerAxis[k]
                 n == Len(values)
             IN [i \in 1..Len(before) * n |->
                   Append(before[(i - 1) \div n + 1], values[((i - 1) % n) + 1])]
  IN upTo[Len(valuesPerAxis)]

(* What the generation of a study's snapshots comes to: a grid, a call     *)
(* that raises, or a loop that never ends.                                 *)
Grid(snapshots) == [end |-> "grid", snapshots |-> snapshots]
GridRaises == [end |-> "raises", snapshots |-> <<>>]
GridNeverEnds == [end |-> "never", snapshots |-> <<>>]

GridOf(axes, Values(_), Endless(_)) ==
  IF \E i \in 1..Len(axes) : Endless(axes[i]) THEN GridNeverEnds
  ELSE Grid(Product([i \in 1..Len(axes) |-> Values(axes[i])]))
------------------------------------------------------------------------------
(* Octave's axes have a list of values, empty by default and never None:   *)
(* the branch that would walk the range is not reached.                    *)
OctaveGrid(axes) ==
  LET values == [i \in 1..Len(axes) |-> Only(axes[i].values)]
  IN IF axes = <<>> \/ (\E i \in 1..Len(axes) : values[i] = <<>>)
     THEN Grid(<<>>) ELSE Grid(Product(values))

(* FEALPy rounds the values of a range.  Its axes may have neither values  *)
(* nor a range; such an axis has no list of values, and the strict zip of  *)
(* axes and values then raises.                                            *)
FealpyGrid(axes) ==
  LET HasValues(a) == Given(a.values) \/ Given(a.range)
      RoundedSums(a) ==
        LET sums == Sums(a, StepOrOne(a)) IN [i \in 1..Len(sums) |-> Rounded(sums[i])]
      Values(a) == IF Given(a.values) THEN Only(a.values) ELSE RoundedSums(a)
      Endless(a) ==
        ~Given(a.values) /\ Given(a.range) /\ EndlessWalk(Only(a.range), StepOrOne(a))
      kept == Within(axes, {a \in ToSet(axes) : HasValues(a)})
  IN IF \E i \in 1..Len(kept) : Endless(kept[i]) THEN GridNeverEnds
     ELSE IF kept = <<>> \/ (\E i \in 1..Len(kept) : Values(kept[i]) = <<>>)
     THEN Grid(<<>>)
     ELSE IF kept # axes THEN GridRaises
     ELSE GridOf(axes, Values, Endless)

(* BOUT++ walks a range that has a step, and sets the parameter to None    *)
(* when it has neither; a step of 0 is a step.                             *)
BoutppGrid(axes) ==
  LET Values(a) ==
        IF Given(a.values) THEN Only(a.values)
        ELSE IF Given(a.range) /\ Given(a.step) THEN Walk(Only(a.range), Only(a.step))
        ELSE <<Unset>>
      Endless(a) ==
        /\ ~Given(a.values) /\ Given(a.range) /\ Given(a.step)
        /\ EndlessWalk(Only(a.range), Only(a.step))
  IN GridOf(axes, Values, Endless)

(* PyCFD and MOOSE ask whether the field is true: no values, an empty list *)
(* of them and a step of 0 all count as absent.                            *)
TruthfulValues(a) ==
  IF a.values \notin {None, {<<>>}} THEN Only(a.values)
  ELSE IF Given(a.range) /\ a.step \notin {None, {0}}
  THEN Walk(Only(a.range), Only(a.step))
  ELSE <<Unset>>
TruthfulEndless(a) ==
  /\ a.values \in {None, {<<>>}} /\ Given(a.range) /\ a.step \notin {None, {0}}
  /\ EndlessWalk(Only(a.range), Only(a.step))
PycfdGrid(axes) == GridOf(axes, TruthfulValues, TruthfulEndless)
MooseGrid(axes) == GridOf(axes, TruthfulValues, TruthfulEndless)

(* QCompute's cartesian grid, of which a study with no value of some axis  *)
(* has nothing.                                                            *)
QcomputeGrid(axes) ==
  LET Values(a) ==
        IF Given(a.values) THEN Only(a.values)
        ELSE Walk(Only(a.range), StepOrOne(a))
      Endless(a) == ~Given(a.values) /\ EndlessWalk(Only(a.range), StepOrOne(a))
  IN IF axes = <<>> THEN Grid(<<>>) ELSE GridOf(axes, Values, Endless)

(* What a random choice may give an axis: one of its values, or anything   *)
(* in its range.                                                           *)
DrawnFrom(axis) ==
  IF Given(axis.values) THEN ToSet(Only(axis.values))
  ELSE LET r == Only(axis.range) IN r[1]..r[2]

RandomGrids(axes, n) ==
  LET Drawn == {s \in [1..Len(axes) -> UNION {DrawnFrom(axes[i]) : i \in 1..Len(axes)}] :
                  \A i \in 1..Len(axes) : s[i] \in DrawnFrom(axes[i])}
  IN [1..n -> Drawn]

(* The key of a snapshot tells values apart as repr does.                  *)
ParamsKey(snapshot) == snapshot

Square(n) == n * n
Abs(n) == IF n < 0 THEN -n ELSE n
Distance(left, right) ==
  LET upTo[k \in 0..Len(left)] ==
        IF k = 0 THEN 0 ELSE upTo[k - 1] + Square(left[k] - right[k])
  IN upTo[Len(left)]

(* The candidate after those selected: the middle one first, then the      *)
(* first of those that lie farthest from everything selected; the first of *)
(* all when every one of them is selected.                                 *)
CandidateIndex(candidates, selected) ==
  LET left == {i \in 1..Len(candidates) :
                 \A k \in 1..Len(selected) :
                   ParamsKey(selected[k]) # ParamsKey(candidates[i])}
      Gap(i) == Min({Distance(candidates[i], selected[k]) : k \in 1..Len(selected)})
  IN IF selected = <<>> THEN Len(candidates) \div 2 + 1
     ELSE IF left = {} THEN 1
     ELSE CHOOSE i \in left :
            \A j \in left : Gap(i) > Gap(j) \/ (Gap(i) = Gap(j) /\ i <= j)

(* The candidates are taken one after the other until n are selected or    *)
(* none is left that differs from them all.                                *)
BayesianSelection(candidates, n) ==
  LET taken == Min({n, Cardinality(ToSet(candidates))})
      upTo[k \in 0..taken] ==
        IF k = 0 THEN <<>>
        ELSE Append(upTo[k - 1], candidates[CandidateIndex(candidates, upTo[k - 1])])
  IN upTo[taken]

(* The agentic exploration: up to Batch random snapshots, then batches     *)
(* that perturb the first snapshot of the batch before, whichever way.     *)
Batch == 3
Perturbed(snapshot) ==
  {s \in [1..Len(snapshot) -> UNION {(snapshot[i] - 1)..(snapshot[i] + 1) : i \in 1..Len(snapshot)}] :
     \A i \in 1..Len(snapshot) : s[i] \in (snapshot[i] - 1)..(snapshot[i] + 1)}
AgenticGrids(axes, n) ==
  LET first == IF n < Batch THEN n ELSE Batch
      later == IF n - first < Batch THEN n - first ELSE Batch
  IN UNION {{start \o more : more \in [1..later -> Perturbed(start[1])]} :
              start \in RandomGrids(axes, first)}

------------------------------------------------------------------------------
(* A trial of a study, as far as a recommendation looks at it.             *)
Trial(snapshot, status, valid, decision, metric, depth) ==
  [snapshot |-> snapshot, status |-> status, valid |-> valid,
   decision |-> decision, metric |-> metric, depth |-> depth]

Better(a, b, goal) == IF goal = "maximize" THEN a > b ELSE a < b

(* The place of the first best metric among the trials at these places     *)
(* (the sorts are stable), 0 when there is none.                           *)
BestOf(trials, goal, places) ==
  LET candidates == {i \in places : Given(trials[i].metric)}
      Metric(i) == Only(trials[i].metric)
  IN IF candidates = {} THEN 0
     ELSE CHOOSE i \in candidates :
            \A j \in candidates :
              \/ Better(Metric(i), Metric(j), goal)
              \/ Metric(i) = Metric(j) /\ i <= j

(* A wrong form of ParetoFront: an equal trial dominates.                  *)
ParetoFront_NoTies(trials) ==
  LET entries == {i \in 1..Len(trials) :
                    trials[i].valid /\ Given(trials[i].metric) /\ Given(trials[i].depth)}
  IN {i \in entries :
        ~\E j \in entries : i # j /\ Only(trials[j].metric) >= Only(trials[i].metric)
                              /\ Only(trials[j].depth) <= Only(trials[i].depth)}

(* The trials no other trial dominates in fidelity and depth.              *)
ParetoFront(trials) ==
  LET entries == {i \in 1..Len(trials) :
                    trials[i].valid /\ Given(trials[i].metric) /\ Given(trials[i].depth)}
      F(i) == Only(trials[i].metric)
      D(i) == Only(trials[i].depth)
      Dominates(j, i) ==
        F(j) >= F(i) /\ D(j) <= D(i) /\ (F(j) > F(i) \/ D(j) < D(i))
  IN IF Cardinality(entries) < 2 THEN entries
     ELSE {i \in entries : ~\E j \in entries : i # j /\ Dominates(j, i)}

------------------------------------------------------------------------------
(* Nektar's convergence rules, over the trials that completed with a       *)
(* positive metric: a run that failed or was stopped in time leaves norms  *)
(* too.  Answer: the recommended trial and whether converged.              *)
Measured(t) == t.status = "completed" /\ Given(t.metric) /\ Only(t.metric) > 0

(* A wrong form of MetricSeries: the norms of a failed run count.          *)
MetricSeries_AnyStatus(trials) ==
  Within([i \in 1..Len(trials) |-> i],
       {i \in 1..Len(trials) : Given(trials[i].metric) /\ Only(trials[i].metric) > 0})

MetricSeries(trials) ==
  Within([i \in 1..Len(trials) |-> i],
         {i \in 1..Len(trials) : Measured(trials[i])})

(* A metric of 0.0 counts as infinite here; without any, the last trial.   *)
Fallback(trials) ==
  LET completed == {i \in 1..Len(trials) :
                      trials[i].status = "completed" /\ Given(trials[i].metric)}
      Key(i) == Only(trials[i].metric)
      Less(i, j) == Key(i) # 0 /\ (Key(j) = 0 \/ Key(i) < Key(j))
  IN IF completed = {} THEN Len(trials)
     ELSE CHOOSE i \in completed :
            \A j \in completed : Less(i, j) \/ (~Less(j, i) /\ i <= j)

Answer(trials, found, index) ==
  IF found = {} THEN [best |-> Fallback(trials), converged |-> FALSE]
  ELSE [best |-> index[Min(found)], converged |-> TRUE]

AbsoluteRule(trials, tolerance) ==
  LET series == MetricSeries(trials)
  IN Answer(trials,
            {k \in 1..Len(series) :
               trials[series[k]].valid /\ Only(trials[series[k]].metric) <= tolerance},
            series)

(* The ratio to the metric before is at most 1/Drop.                       *)
RelativeDropRule(trials, drop) ==
  LET series == MetricSeries(trials)
      M(k) == Only(trials[series[k]].metric)
  IN Answer(trials,
            {k \in 2..Len(series) : M(k) * drop <= M(k - 1) /\ trials[series[k]].valid},
            series)

Monotone(trials, series) ==
  \A k \in 2..Len(series) :
    Only(trials[series[k]].metric) <= Only(trials[series[k - 1]].metric)

(* Two ratios in a row differ by less than 1/Flat.                         *)
PlateauRule(trials, flat) ==
  LET series == MetricSeries(trials)
      M(k) == Only(trials[series[k]].metric)
      Delta(k) == Abs(M(k) * M(k - 2) - M(k - 1) * M(k - 1))
  IN IF ~Monotone(trials, series) THEN Answer(trials, {}, series)
     ELSE Answer(trials,
                 {k \in 3..Len(series) :
                    /\ Delta(k) * flat < M(k - 1) * M(k - 2)
                    /\ trials[series[k]].valid},
                 series)
==============================================================================
