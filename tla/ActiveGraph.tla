----------------------------- MODULE ActiveGraph -----------------------------
(***************************************************************************)
(* What the graph version store promises its callers, with the versions,   *)
(* the retention window and the candidate list left out: there is one      *)
(* running graph, and at most one graph to go back to.                     *)
(*                                                                         *)
(* GraphVersions.tla shows that the store keeps this promise as long as    *)
(* nothing is promoted from a stale staging (SerialSpec).                  *)
(***************************************************************************)
CONSTANTS Graphs,    \* the graphs a caller may propose
          NoGraph    \* no graph: nothing committed, nothing to go back to

VARIABLES running,   \* the graph that is running
          previous   \* the graph a rollback would restore

vars == <<running, previous>>

Init == running = NoGraph /\ previous = NoGraph

(* Promote g: the graph that was running becomes the one to go back to.    *)
Promote(g) == /\ running' = g
              /\ previous' = running

(* Go back, once: the slot is empty until the next promotion.              *)
Restore == /\ previous # NoGraph
           /\ running' = previous
           /\ previous' = NoGraph

Next == \/ \E g \in Graphs : Promote(g)
        \/ Restore

Spec == Init /\ [][Next]_vars
==============================================================================
