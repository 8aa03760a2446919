------------------------------- MODULE HotSwap -------------------------------
(***************************************************************************)
(* HotSwapOrchestrator.swap (hotreload/swap.py): one instance of a         *)
(* component is replaced by another that takes over its state, in a        *)
(* SagaRollback of five steps (hotreload/saga.py), the first of which      *)
(* takes a checkpoint (hotreload/checkpoint.py).                           *)
(*                                                                         *)
(* Every call on an instance is awaited, and messages reach an instance    *)
(* through the threads that emit them: between any two calls an instance   *)
(* that runs may change its state.  A call that raises may have had its    *)
(* effect before it did.  The state of an instance is the set of the       *)
(* updates it holds; a migration adds the delta of the swap.  An instance  *)
(* that is suspended or stopped takes nothing in: this is assumed of the   *)
(* component, as the docstring of suspend asks for it; the default of      *)
(* sdk/base.py does nothing, and a component that keeps it is left out.    *)
(* Swaps are made one after the other by a caller who keeps the incoming   *)
(* instance when swap returns success, and the outgoing one in every other *)
(* case.                                                                   *)
(***************************************************************************)
EXTENDS Integers, Sequences, FiniteSets

CONSTANTS Instances,   \* instances of the component
          First,       \* the one that runs when the model starts
          Updates,     \* what a message may add to an instance's state
          Deltas,      \* the migration deltas a caller may ask for
          Retention,   \* CheckpointManager.retention, at least 1
          MaxSwaps,    \* bound: number of swaps
          SwapFaults,  \* the calls that may raise, a subset of Calls
          Retries      \* a swap that failed in a drain epoch, and so resumed
                       \* the component in it, may be followed by another one

Calls == {"suspend", "export", "store", "deactivate", "migrate", "resume",
          "observe", "compensate", "cancel"}
States == SUBSET (Updates \cup UNION Deltas)

ASSUME HotSwapAssumption ==
         /\ First \in Instances
         /\ Retention \in Nat \ {0}
         /\ MaxSwaps \in Nat
         /\ SwapFaults \subseteq Calls
         /\ Retries \in BOOLEAN

VARIABLES mode,       \* what each instance does
          data,       \* the updates each instance holds
          current,    \* the instance its caller takes to be in service
          drained,    \* a drain epoch is open that suspended the component
          swap,       \* the swap under way, or the last one
          bucket,     \* the checkpoints kept of the component, oldest first
          swaps,      \* number of swaps made (bound)
          marred      \* history: a raise in a call that took effect, in a
                      \* compensation, or in the store after the saga, or a
                      \* cancellation

swapVars == <<mode, data, current, drained, swap, bucket, swaps, marred>>

At(place) == swap.pc = place
SwapTo(place) == swap' = [swap EXCEPT !.pc = place]
Running == {i \in Instances : mode[i] = "running"}

SwapInit ==
    /\ mode = [i \in Instances |-> IF i = First THEN "running" ELSE "fresh"]
    /\ data = [i \in Instances |-> {}]
    /\ current = First
    /\ drained = FALSE
    /\ swap = [pc |-> "idle", out |-> First, in |-> First, delta |-> {},
               observed |-> FALSE, held |-> FALSE, done |-> 0, failed |-> 0,
               migrated |-> {}, event |-> "none"]
    /\ bucket = <<>>
    /\ swaps = 0
    /\ marred = FALSE

------------------------------------------------------------------------------
(* Around a swap                                                           *)

(* A message reaches an instance that runs.                                *)
Work(i, u) ==
    /\ mode[i] = "running"
    /\ data' = [data EXCEPT ![i] = @ \cup {u}]
    /\ UNCHANGED <<mode, current, drained, swap, bucket, swaps, marred>>

(* A promotion of CutoverDrain suspends the component, and resumes it.     *)
DrainBegins ==
    /\ At("idle") /\ ~drained /\ mode[current] = "running"
    /\ drained' = TRUE
    /\ mode' = [mode EXCEPT ![current] = "suspended"]
    /\ UNCHANGED <<data, current, swap, bucket, swaps, marred>>

DrainEnds ==
    /\ At("idle") /\ drained
    /\ drained' = FALSE
    /\ mode' = [mode EXCEPT ![current] = "running"]
    /\ UNCHANGED <<data, current, swap, bucket, swaps, marred>>

(* swap is called.  held says that the drain epoch it is given has already *)
(* suspended the component.                                                *)
Call(in, delta, observed) ==
    /\ At("idle") /\ swaps < MaxSwaps
    /\ in # current /\ mode[in] \in {"fresh", "stopped"}
    /\ drained /\ ~Retries => mode[current] = "suspended"
    /\ swaps' = swaps + 1
    /\ swap' = [pc |-> "suspend", out |-> current, in |-> in, delta |-> delta,
                observed |-> observed, held |-> drained, done |-> 0, failed |-> 0,
                migrated |-> {}, event |-> "initiated"]
    /\ UNCHANGED <<mode, data, current, drained, bucket, marred>>

(* A protected component without approval, and a store that raises before  *)
(* the saga starts, leave everything as it is.                             *)
Refuse(in) ==
    /\ At("idle") /\ swaps < MaxSwaps /\ in # current
    /\ swaps' = swaps + 1
    /\ swap' = [swap EXCEPT !.out = current, !.in = in, !.done = 0,
                            !.failed = 0, !.event = "rolled_back"]
    /\ UNCHANGED <<mode, data, current, drained, bucket, marred>>

------------------------------------------------------------------------------
(* The forward steps.  done counts the steps that completed and are not    *)
(* compensated yet; a raise starts the compensation of those.              *)

Raise(call) == /\ call \in SwapFaults
               /\ swap' = [swap EXCEPT !.pc = "undo", !.failed = swap.done]
Completes(n, place) == swap' = [swap EXCEPT !.done = n, !.pc = place]

(* A wrong form of SuspendOutgoing: the epoch given is not looked at.      *)
SuspendOutgoing_Never ==
    /\ At("suspend")
    /\ SwapTo("export")
    /\ UNCHANGED <<mode, data, current, drained, bucket, swaps, marred>>

(* 1. capture: suspend the outgoing instance, unless the drain has.        *)
SuspendOutgoing ==
    /\ At("suspend")
    /\ mode' = IF swap.held \/ mode[swap.out] # "running" THEN mode
               ELSE [mode EXCEPT ![swap.out] = "suspended"]
    /\ SwapTo("export")
    /\ UNCHANGED <<data, current, drained, bucket, swaps, marred>>

SuspendOutgoingRaises ==
    /\ At("suspend") /\ ~swap.held /\ Raise("suspend")
    /\ \/ UNCHANGED <<mode, marred>>
       \/ /\ mode[swap.out] = "running"
          /\ mode' = [mode EXCEPT ![swap.out] = "suspended"]
          /\ marred' = TRUE
    /\ UNCHANGED <<data, current, drained, bucket, swaps>>

(* CheckpointManager.capture: export the state, keep the checkpoint, drop  *)
(* the oldest ones, then record the evidence of it.                        *)
Latest == bucket[Len(bucket)]

(* Wrong forms of Kept: nothing is ever dropped; a full bucket keeps its   *)
(* oldest checkpoints.                                                     *)
Kept_All(s) == Append(bucket, s)
Kept_Oldest(s) == IF Len(bucket) < Retention THEN Append(bucket, s) ELSE bucket

Kept(s) == IF Len(bucket) < Retention THEN Append(bucket, s)
           ELSE Append(Tail(bucket), s)

Export ==
    /\ At("export")
    /\ bucket' = Kept(data[swap.out])
    /\ Completes(1, "deactivate")
    /\ UNCHANGED <<mode, data, current, drained, swaps, marred>>

ExportRaises ==
    /\ At("export")
    /\ \/ Raise("export") /\ UNCHANGED bucket
       \/ Raise("store") /\ bucket' = Kept(data[swap.out])
    /\ UNCHANGED <<mode, data, current, drained, swaps, marred>>

(* 2. deactivate_outgoing                                                  *)
Deactivate ==
    /\ At("deactivate")
    /\ mode' = [mode EXCEPT ![swap.out] = "stopped"]
    /\ Completes(2, "migrate")
    /\ UNCHANGED <<data, current, drained, bucket, swaps, marred>>

DeactivateRaises ==
    /\ At("deactivate") /\ Raise("deactivate")
    /\ \/ UNCHANGED <<mode, marred>>
       \/ mode' = [mode EXCEPT ![swap.out] = "stopped"] /\ marred' = TRUE
    /\ UNCHANGED <<data, current, drained, bucket, swaps>>

(* 3. migrate_state: an adapter, or the incoming instance's                *)
(* transform_state, maps the checkpoint's state and the delta.             *)
Migrate ==
    /\ At("migrate")
    /\ swap' = [swap EXCEPT !.done = 3, !.pc = "resume",
                            !.migrated = Latest \cup swap.delta]
    /\ UNCHANGED <<mode, data, current, drained, bucket, swaps, marred>>

MigrateRaises ==
    /\ At("migrate") /\ Raise("migrate")
    /\ UNCHANGED <<mode, data, current, drained, bucket, swaps, marred>>

(* 4. resume_incoming                                                      *)
Resumed(i, s) == /\ mode' = [mode EXCEPT ![i] = "running"]
                 /\ data' = [data EXCEPT ![i] = s]

ResumeIncoming ==
    /\ At("resume")
    /\ Resumed(swap.in, swap.migrated)
    /\ Completes(4, IF swap.observed THEN "observe" ELSE "report")
    /\ UNCHANGED <<current, drained, bucket, swaps, marred>>

ResumeIncomingRaises ==
    /\ At("resume") /\ Raise("resume")
    /\ \/ UNCHANGED <<mode, data, marred>>
       \/ Resumed(swap.in, swap.migrated) /\ marred' = TRUE
    /\ UNCHANGED <<current, drained, bucket, swaps>>

(* 5. observe_window, when the orchestrator has an evaluator               *)
Observe ==
    /\ At("observe")
    /\ Completes(5, "report")
    /\ UNCHANGED <<mode, data, current, drained, bucket, swaps, marred>>

ObserveRejects ==
    /\ At("observe") /\ Raise("observe")
    /\ UNCHANGED <<mode, data, current, drained, bucket, swaps, marred>>

------------------------------------------------------------------------------
(* SagaRollback._compensate: the completed steps, last one first.          *)

(* A wrong form of Compensation: the capture has none.                     *)
Compensation_NotOfCapture(n) ==
    CASE n = 2 -> mode' = [mode EXCEPT ![swap.out] = "running"] /\ UNCHANGED data
      [] n = 4 -> mode' = [mode EXCEPT ![swap.in] = "stopped"] /\ UNCHANGED data
      [] OTHER -> UNCHANGED <<mode, data>>

(* What the compensation of step n does when it does not raise.            *)
Compensation(n) ==
    CASE n = 1 -> Resumed(swap.out, Latest)
      [] n = 2 -> mode' = [mode EXCEPT ![swap.out] = "running"] /\ UNCHANGED data
      [] n = 4 -> mode' = [mode EXCEPT ![swap.in] = "stopped"] /\ UNCHANGED data
      [] OTHER -> UNCHANGED <<mode, data>>

(* A wrong form of Compensate: the steps are compensated first one first.  *)
Compensate_FirstToLast ==
    /\ At("undo") /\ swap.done > 0
    /\ Compensation(swap.failed + 1 - swap.done)
    /\ swap' = [swap EXCEPT !.done = @ - 1]
    /\ UNCHANGED <<current, drained, bucket, swaps, marred>>

Compensate ==
    /\ At("undo") /\ swap.done > 0
    /\ Compensation(swap.done)
    /\ swap' = [swap EXCEPT !.done = @ - 1]
    /\ UNCHANGED <<current, drained, bucket, swaps, marred>>

(* Its raise is swallowed, and the next one runs.                          *)
CompensateRaises ==
    /\ At("undo") /\ swap.done > 0 /\ "compensate" \in SwapFaults
    /\ \/ UNCHANGED <<mode, data>>
       \/ Compensation(swap.done)
    /\ swap' = [swap EXCEPT !.done = @ - 1]
    /\ marred' = TRUE
    /\ UNCHANGED <<current, drained, bucket, swaps>>

------------------------------------------------------------------------------
(* swap appends its last event and returns its report.                     *)

Return ==
    /\ \/ At("report") /\ current' = swap.in
                       /\ swap' = [swap EXCEPT !.pc = "idle", !.event = "completed"]
       \/ At("undo") /\ swap.done = 0 /\ UNCHANGED current
                     /\ swap' = [swap EXCEPT !.pc = "idle", !.event = "rolled_back"]
    /\ UNCHANGED <<mode, data, drained, bucket, swaps, marred>>

(* The store raises: the caller gets an exception in place of the report,  *)
(* whatever the saga did.                                                  *)
ReturnRaises ==
    /\ At("report") \/ (At("undo") /\ swap.done = 0)
    /\ "store" \in SwapFaults
    /\ SwapTo("idle")
    /\ marred' = TRUE
    /\ UNCHANGED <<mode, data, current, drained, bucket, swaps>>

(* The task that runs swap is cancelled: CancelledError is no Exception,   *)
(* so nothing is compensated and no event is appended.                     *)
Cancelled ==
    /\ ~At("idle") /\ "cancel" \in SwapFaults
    /\ SwapTo("idle")
    /\ marred' = TRUE
    /\ UNCHANGED <<mode, data, current, drained, bucket, swaps>>

Forward == \/ SuspendOutgoing \/ Export \/ Deactivate \/ Migrate
           \/ ResumeIncoming \/ Observe
Raises == \/ SuspendOutgoingRaises \/ ExportRaises \/ DeactivateRaises
          \/ MigrateRaises \/ ResumeIncomingRaises \/ ObserveRejects

SwapNext ==
    \/ \E i \in Instances, u \in Updates : Work(i, u)
    \/ DrainBegins \/ DrainEnds
    \/ \E in \in Instances, delta \in Deltas, observed \in BOOLEAN :
          Call(in, delta, observed)
    \/ \E in \in Instances : Refuse(in)
    \/ Forward \/ Raises
    \/ Compensate \/ CompensateRaises
    \/ Return \/ ReturnRaises \/ Cancelled

SwapSpec == SwapInit /\ [][SwapNext]_swapVars

------------------------------------------------------------------------------
(* Properties                                                              *)

SwapPlaces == {"idle", "suspend", "export", "deactivate", "migrate", "resume",
           "observe", "undo", "report"}
Swaps == [pc : SwapPlaces, out : Instances, in : Instances,
          delta : Deltas \cup {{}}, observed : BOOLEAN, held : BOOLEAN,
          done : 0 .. 5, failed : 0 .. 5, migrated : States,
          event : {"none", "initiated", "completed", "rolled_back"}]

(* Every variable has its type; the checkpoints of the component are at    *)
(* most Retention.                                                         *)
TypeOK ==
    /\ mode \in [Instances -> {"fresh", "running", "suspended", "stopped"}]
    /\ data \in [Instances -> States]
    /\ current \in Instances
    /\ drained \in BOOLEAN /\ marred \in BOOLEAN
    /\ swap \in Swaps
    /\ bucket \in Seq(States) /\ Len(bucket) <= Retention
    /\ swaps \in 0 .. MaxSwaps

(* Whatever call of a swap fails, and wherever its compensation is, two    *)
(* instances of the component never run at the same time; unless a call    *)
(* raised after it had taken effect, a compensation raised, the caller was *)
(* never told of the outcome, or the swap was cancelled.                   *)
OneServes == marred \/ Cardinality(Running) <= 1

(* From the capture to the end of the forward steps the checkpoint is the  *)
(* outgoing instance's state: it accepts nothing that the incoming one     *)
(* would not get.                                                          *)
CheckpointExact ==
    swap.done > 0 /\ ~At("undo") /\ ~At("idle") => Latest = data[swap.out]

(* A swap that succeeds hands over everything: the incoming instance holds *)
(* what the outgoing one held when it stopped, and the delta.              *)
HandedOver ==
    \/ At("observe") \/ At("report")
    \/ At("idle") /\ swap.event = "completed"
    => data[swap.out] \cup swap.delta \subseteq data[swap.in]

(* A swap that fails after the capture gives the component back: the       *)
(* outgoing instance runs again, from its checkpoint, and the incoming one *)
(* does not.                                                               *)
Restores ==
    [][At("undo") /\ swap'.pc = "idle" /\ swap.failed > 0 /\ ~marred'
       => /\ mode[swap.out] = "running" /\ mode[swap.in] # "running"
          /\ Latest \subseteq data[swap.out]
          /\ current' = swap.out]_swapVars
==============================================================================
