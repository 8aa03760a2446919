---------------------------- MODULE ExtensionRun -----------------------------
(***************************************************************************)
(* What the domain extensions (metaharness_ext) have in common.  Each one  *)
(* takes a task through the same components: a gateway issues it, a probe  *)
(* looks at the environment, a compiler makes a plan, an executor runs the *)
(* solver, a validator judges the artifact, a policy judges the evidence,  *)
(* and a governance adapter hands the candidate over to the core.  One     *)
(* module per extension gives those steps as its code has them; the state  *)
(* they work on is declared here.                                          *)
(*                                                                         *)
(* Two variables are not the program's: truth is what really happened      *)
(* outside it, which it learns of only through what it probes and reads,   *)
(* and disk is the run directory, which outlives the run.                  *)
(***************************************************************************)
EXTENDS Integers, Sequences, FiniteSets

VARIABLES stage,    \* the component that works next
          task,     \* the specification of the task
          env,      \* the environment report
          plan,     \* the compiled plan
          disk,     \* the files of the run directory
          run,      \* the run artifact
          report,   \* the validation report
          verdict,  \* the policy report
          handed,   \* what the governance adapter gave the core
          truth     \* history: what really happened

vars == <<stage, task, env, plan, disk, run, report, verdict, handed, truth>>

Nothing == [made |-> FALSE]
Made(x) == x # Nothing

At(s) == stage = s
Over == stage \in {"done", "raised"}

(* The rest of a step that only goes on to stage s; a call that raises     *)
(* ends the run, since no component of a pipeline catches it.              *)
Goto(s) == stage' = s
Raise == Goto("raised")

(* A validation issue, and whether one of a set of them blocks promotion.  *)
Issue(code, blocks) == [code |-> code, blocks |-> blocks]
IssueIf(condition, code, blocks) ==
  IF condition THEN {Issue(code, blocks)} ELSE {}
Blocking(issues) == \E i \in issues : i.blocks

(* A policy's gates: the gate that rejects weighs more than one that       *)
(* defers, and no gate at all is an allowance.                             *)
Gate(name, decision) == [name |-> name, decision |-> decision]
GateIf(condition, name, decision) ==
  IF condition THEN {Gate(name, decision)} ELSE {}
Decision(gates) ==
  IF \E g \in gates : g.decision = "reject" THEN "reject"
  ELSE IF \E g \in gates : g.decision = "defer" THEN "defer"
  ELSE "allow"

(* What a governance adapter hands over: the core's validation report, the *)
(* candidate record's promoted flag and the session events.                *)
Handed(valid, promoted, events) ==
  [made |-> TRUE, valid |-> valid, promoted |-> promoted, events |-> events]
NotHanded == Nothing

(* The session events of an evaluated candidate.                           *)
CandidateEvents(passed, decision) ==
  <<[type |-> "candidate_validated", valid |-> passed],
    [type |-> "safety_gate_evaluated", valid |-> decision = "allow"]>>
    \o IF decision = "reject"
       THEN <<[type |-> "candidate_rejected", valid |-> FALSE]>> ELSE <<>>

(* A fresh run directory and a history in which nothing has happened.      *)
Untouched == [lacks |-> {}, exit |-> "not run", wrote |-> {}, content |-> "none"]

Idle ==
  /\ env = Nothing /\ plan = Nothing /\ run = Nothing
  /\ report = Nothing /\ verdict = Nothing /\ handed = NotHanded
  /\ truth = Untouched
==============================================================================
