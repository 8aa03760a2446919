--------------------------- MODULE GraphValidation ---------------------------
(***************************************************************************)
(* What core/validators.py says of a candidate graph, and what             *)
(* core/contract_pruner.py lets an optimizer propose.  Everything here is  *)
(* an operator of the graph, the registry and the active graph.            *)
(*                                                                         *)
(* A graph maps its components to their protected flags, and has edges.    *)
(* The registry maps the registered components to their declarations.      *)
(* Names of ports and of components are values; an endpoint of an edge,    *)
(* in the code a string cut at its last dot, is a component and a port.    *)
(* The subject of an issue is the component, the edge or the slot it is    *)
(* about.                                                                  *)
(***************************************************************************)
EXTENDS Integers, Sequences, FiniteSets

Edge(name, source, out, target, in, payload, mode) ==
  [name |-> name, source |-> source, out |-> out, target |-> target, in |-> in,
   payload |-> payload, mode |-> mode]
Graph(flags, edges) == [flags |-> flags, edges |-> edges]
Nodes(g) == DOMAIN g.flags

Input(name, type, required) == [name |-> name, type |-> type, required |-> required]
Output(name, type) == [name |-> name, type |-> type]
Named(ports) == {p.name : p \in ports}

Issue(code, subject) == [code |-> code, subject |-> subject]
ProtectedCodes == {"protected_component_removed", "protected_boundary_violation",
                   "protected_slot_override", "protected_authorization_required"}
ReadinessCodes == {"missing_route_handler", "component_not_ready"}
BlockingCodes == ProtectedCodes \cup ReadinessCodes
                   \cup {"cycle_detected", "orphan_component"}
Blocking(issues) == {i \in issues : i.code \in BlockingCodes}
Protected(issues) == {i \in issues : i.code \in ProtectedCodes}

------------------------------------------------------------------------------
(* Edges against nodes and declarations                                    *)

DuplicateConnections(g) ==
  {Issue("duplicate_connection", e.name) :
     e \in {d \in g.edges : \E other \in g.edges \ {d} : other.name = d.name}}

UnknownComponents(g, registry) ==
  {Issue("unknown_component", c) : c \in Nodes(g) \ DOMAIN registry}

UnknownEnds(g) ==
  {Issue("unknown_source_component", e.name) : e \in {d \in g.edges : d.source \notin Nodes(g)}}
    \cup {Issue("unknown_target_component", e.name) :
            e \in {d \in g.edges : d.target \notin Nodes(g)}}

UnknownOutputs(g, registry) ==
  {Issue("unknown_output_port", e.name) :
     e \in {d \in g.edges : /\ d.source \in DOMAIN registry
                            /\ d.out \notin Named(registry[d.source].outputs)}}

UnknownInputs(g, registry) ==
  {Issue("unknown_input_port", e.name) :
     e \in {d \in g.edges : /\ d.target \in DOMAIN registry
                            /\ d.in \notin Named(registry[d.target].inputs)}}

(* Only the target's type is compared; a declared output's never is.       *)
Mismatched(e, registry) ==
  /\ e.target \in DOMAIN registry
  /\ \E p \in registry[e.target].inputs : p.name = e.in /\ p.type # e.payload
PayloadMismatches(g, registry) ==
  {Issue("payload_mismatch", e.name) : e \in {d \in g.edges : Mismatched(d, registry)}}

Inner(g) == {e \in g.edges : e.source \in Nodes(g) /\ e.target \in Nodes(g)}
Bound(g, c) == {e.in : e \in {d \in Inner(g) : d.target = c}}
Required(d) == {p.name : p \in {q \in d.inputs : q.required}}

(* A wrong form of MissingInputs: that an edge arrives is enough.          *)
MissingInputs_AnyEdge(g, registry) ==
  {Issue("missing_required_input", c) :
     c \in {d \in Nodes(g) \cap DOMAIN registry :
              Required(registry[d]) # {} /\ Bound(g, d) = {}}}

MissingInputs(g, registry) ==
  {Issue("missing_required_input", c) :
     c \in {d \in Nodes(g) \cap DOMAIN registry :
              ~ (Required(registry[d]) \subseteq Bound(g, d))}}

------------------------------------------------------------------------------
(* Protected components                                                    *)

(* The components bound to a slot: what _insert appended to slot_bindings. *)
Bindings(slot, registry) == {c \in DOMAIN registry : slot \in registry[c].slots}

SlotOverrides(g, registry) ==
  UNION {{Issue("protected_slot_override", s) :
            s \in {t \in registry[c].slots : Cardinality(Bindings(t, registry)) > 1}} :
         c \in {d \in Nodes(g) \cap DOMAIN registry : registry[d].protected \/ g.flags[d]}}

IsProtected(c, g, registry) ==
  \/ c \in Nodes(g) /\ g.flags[c]
  \/ c \in DOMAIN registry /\ registry[c].protected

Incident(g, c) == {e \in g.edges : e.source = c \/ e.target = c}

(* A wrong form of BoundaryIssues: the candidate says what is protected,    *)
(* and a component that is gone is not looked at.                          *)
BoundaryIssues_CandidateOnly(g, active, registry) ==
  {Issue("protected_boundary_violation", c) :
     c \in {d \in Nodes(g) : IsProtected(d, g, registry) /\ Incident(active, d) # Incident(g, d)}}

BoundaryIssues(g, active, registry) ==
  LET protected == {c \in Nodes(active) \cup Nodes(g) :
                      IsProtected(c, active, registry) \/ IsProtected(c, g, registry)}
      removed == protected \cap (Nodes(active) \ Nodes(g))
      rewired == {c \in protected \ removed : Incident(active, c) # Incident(g, c)}
  IN {Issue("protected_component_removed", c) : c \in removed}
       \cup {Issue("protected_boundary_violation", c) : c \in rewired}

------------------------------------------------------------------------------
(* Cycles and orphans                                                      *)

Adjacency(g) == [c \in Nodes(g) |-> {e.target : e \in {d \in Inner(g) : d.source = c}}]

(* A wrong form of HasCycle: only cycles of one or two components.        *)
HasCycle_ParentOnly(adjacency) ==
  \E a \in DOMAIN adjacency : \E b \in adjacency[a] : a = b \/ a \in adjacency[b]

(* The search of has_cycle: path holds the nodes being visited, visited    *)
(* the ones it has left.  The neighbours of a node come in the order of    *)
(* the edges, which is any order here.  It ends at a neighbour that is     *)
(* being visited, or when every node has been entered and left.            *)
Fresh(adjacency, s) == IF s.path = <<>> THEN {} ELSE adjacency[s.path[Len(s.path)]] \ s.visited
Closes(adjacency, s) == \E i \in DOMAIN s.path : s.path[i] \in Fresh(adjacency, s)

SearchOn(adjacency, s) ==
  LET fresh == Fresh(adjacency, s)
      rest == DOMAIN adjacency \ s.visited
      into(nodes) == [s EXCEPT !.path = Append(@, CHOOSE c \in nodes : TRUE)]
  IN IF Closes(adjacency, s) THEN s
     ELSE IF s.path = <<>> THEN IF rest = {} THEN s ELSE into(rest)
     ELSE IF fresh # {} THEN into(fresh)
     ELSE [path |-> SubSeq(s.path, 1, Len(s.path) - 1),
           visited |-> s.visited \cup {s.path[Len(s.path)]}]

Search(adjacency) ==
  LET search[n \in 0..2 * Cardinality(DOMAIN adjacency)] ==
        IF n = 0 THEN [path |-> <<>>, visited |-> {}] ELSE SearchOn(adjacency, search[n - 1])
  IN search
HasCycle(adjacency) ==
  Closes(adjacency, Search(adjacency)[2 * Cardinality(DOMAIN adjacency)])

Cycles(g) == IF HasCycle(Adjacency(g)) THEN {Issue("cycle_detected", "graph")} ELSE {}

Referenced(g) == {e.source : e \in g.edges} \cup {e.target : e \in g.edges}
HasNoInputs(c, registry) == c \in DOMAIN registry /\ registry[c].inputs = {}

(* detect_orphans, which the validator repeats.                            *)
DetectOrphans(g, registry) ==
  IF Cardinality(Nodes(g)) <= 1 THEN {}
  ELSE {c \in Nodes(g) \ Referenced(g) : ~ HasNoInputs(c, registry)}
Orphans(g, registry) == {Issue("orphan_component", c) : c \in DetectOrphans(g, registry)}

------------------------------------------------------------------------------
(* validate_graph                                                          *)

NoGraph == [flags |-> <<>>, edges |-> {}, none |-> TRUE]

ValidateGraph(g, active, registry) ==
  DuplicateConnections(g) \cup UnknownComponents(g, registry) \cup UnknownEnds(g)
    \cup UnknownOutputs(g, registry) \cup UnknownInputs(g, registry)
    \cup PayloadMismatches(g, registry) \cup MissingInputs(g, registry)
    \cup SlotOverrides(g, registry)
    \cup (IF active = NoGraph THEN {} ELSE BoundaryIssues(g, active, registry))
    \cup Cycles(g) \cup Orphans(g, registry)

(* What a graph must be to be run, said without the validator: components  *)
(* and ports that exist, types that fit, required inputs fed; and then no  *)
(* component that feeds itself through others, and none cut off.           *)
Fits(g, registry) ==
  /\ Nodes(g) \subseteq DOMAIN registry
  /\ \A e \in g.edges :
       /\ {e.source, e.target} \subseteq Nodes(g)
       /\ \E p \in registry[e.source].outputs : p.name = e.out
       /\ \E p \in registry[e.target].inputs : p.name = e.in /\ p.type = e.payload
       /\ \A other \in g.edges : other.name = e.name => other = e
  /\ \A c \in Nodes(g) : \A p \in registry[c].inputs :
       p.required => \E e \in g.edges : e.target = c /\ e.in = p.name

(* What follows a node: its neighbours, and theirs in turn.                *)
Reach(next) ==
  LET reach[n \in 0..Cardinality(DOMAIN next)] ==
        IF n = 0 THEN next
        ELSE [c \in DOMAIN next |-> reach[n - 1][c] \cup UNION {next[d] : d \in reach[n - 1][c]}]
  IN reach
Following(next) == Reach(next)[Cardinality(DOMAIN next)]
Reaches(g) == Following(Adjacency(g))

Sound(g, registry) ==
  /\ Fits(g, registry)
  /\ \A c \in Nodes(g) : c \notin Reaches(g)[c]
  /\ \A c \in Nodes(g) : \/ Nodes(g) = {c}
                         \/ registry[c].inputs = {}
                         \/ \E e \in g.edges : c \in {e.source, e.target}

------------------------------------------------------------------------------
(* The contract pruner, over the port index of the registry                *)

Ref(c, port, type) == [component |-> c, port |-> port, type |-> type]
AllOutputs(registry) ==
  UNION {{Ref(c, p.name, p.type) : p \in registry[c].outputs} : c \in DOMAIN registry}
AllInputs(registry) ==
  UNION {{Ref(c, p.name, p.type) : p \in registry[c].inputs} : c \in DOMAIN registry}

ViolatesProtection(target, registry) == registry[target.component].protected

(* A wrong form of LegalTargets: the types are not compared.               *)
LegalTargets_AnyType(source, registry) ==
  {t \in AllInputs(registry) : /\ t.component # source.component
                               /\ ~ ViolatesProtection(t, registry)}

LegalTargets(source, registry) ==
  {t \in AllInputs(registry) : /\ t.component # source.component
                               /\ source.type = t.type
                               /\ ~ ViolatesProtection(t, registry)}

LegalPairs(registry) ==
  {p \in AllOutputs(registry) \X AllInputs(registry) : p[2] \in LegalTargets(p[1], registry)}
==============================================================================
