----------------------------- MODULE SafetyGates -----------------------------
(***************************************************************************)
(* The safety pipeline of a runtime (safety/pipeline.py, with the gates    *)
(* core/boot.py puts into it): the policy component's review, the sandbox  *)
(* validator, the shadow test and the assembly-health gate, with the       *)
(* counts core/assembly.py keeps for the latter.                           *)
(*                                                                         *)
(* What a shadow trial's handlers answer, and a policy component other     *)
(* than the standard one, are outside: their decision is an argument.      *)
(***************************************************************************)
EXTENDS GraphValidation

CONSTANT HighIndex  \* AssemblyHealthPolicy.high_assembly_index

ASSUME SafetyGatesAssumption == HighIndex \in Nat

Modes == {"warn_only", "defer_high_risk", "reject_critical"}

------------------------------------------------------------------------------
(* The assembly's dependency graph                                         *)

(* The endpoint's component as boot.py cuts it: the first two parts of a   *)
(* dotted name, which is a component only if its identifier has two parts. *)
EndpointRef(c, registry) ==
  IF c \in DOMAIN registry /\ registry[c].parts = 2 THEN c ELSE "other"
DependencyEdges(g, registry) ==
  {<<EndpointRef(e.source, registry), EndpointRef(e.target, registry)>> : e \in g.edges}
Critical(g, registry) ==
  UNION {{d[1], d[2]} : d \in {b \in DependencyEdges(g, registry) : b[1] # b[2]}}

(* The longest path, a node on the way back counting one.                  *)
LongestPath(g, registry) ==
  LET nodes == Nodes(g)
      next == [c \in nodes |-> {d \in nodes : <<c, d>> \in DependencyEdges(g, registry) /\ c # d}]
      depth[c \in nodes, visiting \in SUBSET nodes] ==
        IF c \in visiting \/ next[c] = {} THEN 1
        ELSE LET below == {depth[d, visiting \cup {c}] : d \in next[c]}
             IN 1 + (CHOOSE n \in below : \A m \in below : m <= n)
      depths == {depth[c, {}] : c \in nodes}
  IN IF nodes = {} THEN 0 ELSE CHOOSE n \in depths : \A m \in depths : m <= n

(* A wrong form of Cold: a component that was ever proposed is not cold.   *)
Cold_Registered(g, reused, registry) ==
  {c \in Critical(g, registry) \cap Nodes(g) : c \notin DOMAIN registry}
Cold(g, reused, registry) == {c \in Critical(g, registry) \cap Nodes(g) : c \notin reused}

(* record_dependency_graph: what the assembly ledger keeps of a candidate, *)
(* given the components that some committed graph had.                     *)
Dependencies(g, reused, registry) ==
  [graph |-> g,
   cold |-> Cold(g, reused, registry),
   index |-> LongestPath(g, registry),
   folded |-> 2 * Cardinality(Nodes(g) \cap reused) >= Cardinality(Nodes(g)),
   complete |-> Nodes(g) \subseteq DOMAIN registry]
NoDependencies == [graph |-> NoGraph, cold |-> {}, index |-> 0, folded |-> FALSE, complete |-> TRUE]

------------------------------------------------------------------------------
(* The gates                                                               *)

Policy(installed, blocking) == IF installed /\ blocking # {} THEN "reject" ELSE "allow"

(* issues is what the validator says now, lifted the subjects whose        *)
(* protection an approval takes away.                                      *)
Sandbox(issues, lifted) ==
  IF \A i \in issues : i.code \in ProtectedCodes /\ i.subject \in lifted THEN "allow" ELSE "reject"

HighRisk(deps) == deps.cold # {} \/ ~ deps.complete \/ (deps.index >= HighIndex /\ ~ deps.folded)
AssemblyHealth(mode, deps) == IF mode # "warn_only" /\ HighRisk(deps) THEN "defer" ELSE "allow"

(* evaluate_graph_promotion: the first gate that does not allow decides.   *)
Evaluate(decisions) ==
  IF \A i \in DOMAIN decisions : decisions[i] = "allow" THEN "allow"
  ELSE decisions[CHOOSE i \in DOMAIN decisions :
                   /\ decisions[i] # "allow"
                   /\ \A j \in 1..(i - 1) : decisions[j] = "allow"]
==============================================================================
