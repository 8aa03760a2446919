------------------------------ MODULE Extensions -----------------------------
(***************************************************************************)
(* The domain extensions, one of which is at work: each takes its tasks    *)
(* through its own components (see the module of each), and hands its      *)
(* candidate to the same core.  A task may be run again, and then finds    *)
(* the run directory as the last run left it.                              *)
(***************************************************************************)
EXTENDS ExtensionRun

CONSTANTS Exts,    \* the extensions that are checked
          DofLimit, \* of FEALPy's quota provider
          Rounds   \* bound: how often a task is run

ASSUME ExtensionsAssumption == Rounds \in Nat \ {0} /\ DofLimit \in Nat

VARIABLES ext,     \* the extension at work
          round    \* the number of the run

Octave == INSTANCE OctaveExtension
Fealpy == INSTANCE FealpyExtension
Jedi == INSTANCE JediExtension
Qcompute == INSTANCE QcomputeExtension
Deepmd == INSTANCE DeepmdExtension
Nektar == INSTANCE NektarExtension
Boutpp == INSTANCE BoutppExtension
Abacus == INSTANCE AbacusExtension
Lean == INSTANCE LeanExtension
Pycfd == INSTANCE PycfdExtension
Moose == INSTANCE MooseExtension
Ai4pde == INSTANCE Ai4pdeExtension

allVars == <<vars, ext, round>>

TasksOf(x) ==
  CASE x = "octave" -> Octave!Tasks
    [] x = "fealpy" -> Fealpy!Tasks
    [] x = "jedi" -> Jedi!Tasks
    [] x = "qcompute" -> Qcompute!Tasks
    [] x = "deepmd" -> Deepmd!Tasks
    [] x = "nektar" -> Nektar!Tasks
    [] x = "boutpp" -> Boutpp!Tasks
    [] x = "abacus" -> Abacus!Tasks
    [] x = "lean" -> Lean!Tasks
    [] x = "pycfd" -> Pycfd!Tasks
    [] x = "moose" -> Moose!Tasks
    [] x = "ai4pde" -> Ai4pde!Tasks

Init ==
  /\ ext \in Exts
  /\ task \in TasksOf(ext)
  /\ stage = "issue"
  /\ disk = {}
  /\ round = 1
  /\ Idle

Step ==
  \/ ext = "octave" /\ Octave!Next
  \/ ext = "fealpy" /\ Fealpy!Next
  \/ ext = "jedi" /\ Jedi!Next
  \/ ext = "qcompute" /\ Qcompute!Next
  \/ ext = "deepmd" /\ Deepmd!Next
  \/ ext = "nektar" /\ Nektar!Next
  \/ ext = "boutpp" /\ Boutpp!Next
  \/ ext = "abacus" /\ Abacus!Next
  \/ ext = "lean" /\ Lean!Next
  \/ ext = "pycfd" /\ Pycfd!Next
  \/ ext = "moose" /\ Moose!Next
  \/ ext = "ai4pde" /\ Ai4pde!Next

(* The same task again, in the same run directory.                         *)
Again ==
  /\ At("done")
  /\ round < Rounds
  /\ round' = round + 1
  /\ stage' = "issue"
  /\ env' = Nothing /\ plan' = Nothing /\ run' = Nothing
  /\ report' = Nothing /\ verdict' = Nothing /\ handed' = NotHanded
  /\ truth' = Untouched
  /\ UNCHANGED <<task, disk, ext>>

Finished == Over /\ UNCHANGED allVars

Next ==
  \/ Step /\ UNCHANGED <<ext, round>>
  \/ Again
  \/ Finished

Spec == Init /\ [][Next]_allVars

------------------------------------------------------------------------------
(* The state of an extension is what its contracts allow: every plan,      *)
(* artifact and report is one that its data classes can hold.              *)
TypeOK ==
  /\ ext \in Exts /\ round \in 1..Rounds
  /\ ext = "octave" => Octave!Typed
  /\ ext = "fealpy" => Fealpy!Typed
  /\ ext = "jedi" => Jedi!Typed
  /\ ext = "qcompute" => Qcompute!Typed
  /\ ext = "deepmd" => Deepmd!Typed
  /\ ext = "nektar" => Nektar!Typed
  /\ ext = "boutpp" => Boutpp!Typed
  /\ ext = "abacus" => Abacus!Typed
  /\ ext = "lean" => Lean!Typed
  /\ ext = "pycfd" => Pycfd!Typed
  /\ ext = "moose" => Moose!Typed
  /\ ext = "ai4pde" => Ai4pde!Typed

(* What a promotion has to be earned by, in each domain.                   *)
Earned ==
  /\ ext = "octave" => Octave!Earned
  /\ ext = "fealpy" => Fealpy!Earned
  /\ ext = "jedi" => Jedi!Earned
  /\ ext = "qcompute" => Qcompute!Earned
  /\ ext = "deepmd" => Deepmd!Earned
  /\ ext = "nektar" => Nektar!Earned
  /\ ext = "boutpp" => Boutpp!Earned
  /\ ext = "abacus" => Abacus!Earned
  /\ ext = "lean" => Lean!Earned
  /\ ext = "pycfd" => Pycfd!Earned
  /\ ext = "moose" => Moose!Earned
  /\ ext = "ai4pde" => Ai4pde!Earned
(* An extension without a governance adapter has its validation report.    *)
Accepted == At("done") /\ IF Made(handed) THEN handed.promoted ELSE report.passed

(* In the first run of a task whose directory its extension never clears,  *)
(* what lies there was written by that run, but for ABACUS's structure,    *)
(* which the executor writes itself, and what FieldConvert adds.           *)
Keeping == {"octave", "jedi", "nektar", "abacus", "moose"}
FirstRunIsOwn ==
  ext \in Keeping /\ round = 1 => disk \subseteq truth.wrote \cup {"STRU", "vtu"}

(* A candidate is promoted only if its own run ended well, in an           *)
(* environment that had all it needed, and printed what its domain accepts *)
(* (NaN is accepted where Earned says so), and if the outputs it needs lie *)
(* in the run directory.  They are its own in a first run; in a later one  *)
(* they may be what a former run has left.                                 *)
PromotionIsEarned == Accepted => Earned /\ FirstRunIsOwn

(* The next four are what the documentation says and the code does not     *)
(* keep; no run checks them (section 5 of the README).                     *)

(* A promoted Octave artifact is the product of one execution: what it     *)
(* lists, that execution has written.                                      *)
OutputsAreItsOwn == ext = "octave" /\ Accepted => Octave!ListsItsOwn

(* A relaxation by ABACUS passes only with a final structure.              *)
RelaxedIsThere == ext = "abacus" /\ Accepted => Abacus!RelaxedIsThere

(* A PyCFD candidate passes only if both its norms are within tolerance.   *)
NormsWithin == ext = "pycfd" /\ Accepted => Pycfd!NormsWithin

(* Octave's validator judges the artifact of a Kubernetes job as it does a *)
(* local one: a job that was completed has not failed.                     *)
BackendsAgree ==
  ext = "octave" /\ Made(report) =>
    (run.remote /\ run.status = "completed" => report.status # "runtime_failed")

(* A report's status names what really happened: it blames the environment *)
(* for what was missing, the run for how it ended, and the outputs for     *)
(* what they lack, with the exceptions that each extension names.          *)
CauseNamed ==
  Made(report) =>
    /\ ext = "octave" => Octave!CauseNamed
    /\ ext = "fealpy" => Fealpy!CauseNamed
    /\ ext = "jedi" => Jedi!CauseNamed
    /\ ext = "qcompute" => Qcompute!CauseNamed
    /\ ext = "deepmd" => Deepmd!CauseNamed
    /\ ext = "nektar" => Nektar!CauseNamed
    /\ ext = "boutpp" => Boutpp!CauseNamed
    /\ ext = "abacus" => Abacus!CauseNamed
    /\ ext = "lean" => Lean!CauseNamed
    /\ ext = "pycfd" => Pycfd!CauseNamed
    /\ ext = "moose" => Moose!CauseNamed
    /\ ext = "ai4pde" => Ai4pde!CauseNamed
==============================================================================
