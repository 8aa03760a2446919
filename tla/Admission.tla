------------------------------ MODULE Admission ------------------------------
(***************************************************************************)
(* Which graphs get into service: the registry a boot left (Boot), the     *)
(* validator (GraphValidation), the safety pipeline (SafetyGates), and the *)
(* calls of core/boot.py that take a graph through them: commit_graph,     *)
(* review_deferred_candidate, defer_candidate, ingest_candidate_record,    *)
(* authorize_protected_promotion, and MutationSubmitter.submit             *)
(* (core/mutation.py).                                                     *)
(*                                                                         *)
(* Versions, retention, drain and phases are in GraphVersions, CutoverDrain*)
(* and Promotion; here a graph is its contents.  A subscriber of           *)
(* BEFORE_COMMIT_GRAPH may call commit_graph again, so the submissions     *)
(* that passed the gates and wait for their cutover form a stack.          *)
(***************************************************************************)
EXTENDS Boot

CONSTANTS CandidateIds,   \* candidate identifiers
          Actors,         \* who may ask for or grant an approval
          Approvals,      \* approval identifiers
          Tier,           \* the sandbox tier the runtime supports
          MaxDepth,       \* bound: submissions under way at a time
          MaxSick         \* bound: components unhealthy at a time

ASSUME AdmissionAssumption ==
  /\ {Tier, MaxDepth, MaxSick} \subseteq Nat
  /\ \A s \in Setups : s.external \subseteq s.graphs /\ s.calls \in Nat

VARIABLES active,     \* the active graph, NoGraph if there is none
          target,     \* the graph a rollback restores
          records,    \* the candidate records
          approvals,  \* approval |-> actor
          reused,     \* the components with a graph_reuse_count
          deps,       \* candidate identifier |-> its dependency graph
          stack,      \* the submissions that wait for their cutover
          calls,      \* number of calls made (setup.calls bounds it)
          by          \* history: the step that made the active graph active

graphVars == <<active, target, reused, by>>
promotionVars == <<active, target, records, approvals, reused, deps, stack, calls, by>>
vars == <<bootVars, promotionVars>>

Nobody == "nobody"
NoRequest == [actor |-> Nobody, approval |-> Nobody]

(* How a graph became active: the step, the graph it was judged against    *)
(* (and whether that one is still the active one), the request, and        *)
(* whether the dependencies the gate saw were those of this graph.         *)
By(step, stale, request, own) ==
  [step |-> step, stale |-> stale, request |-> request, own |-> own]

Init ==
  /\ BootInit
  /\ active = NoGraph /\ target = NoGraph
  /\ records = <<>>
  /\ approvals = [a \in Approvals |-> Nobody]
  /\ reused = {}
  /\ deps = [id \in CandidateIds |-> NoDependencies]
  /\ stack = <<>>
  /\ calls = 0
  /\ by = By("none", FALSE, NoRequest, TRUE)

(* An actor who names an approval nobody has granted, or none, is the same *)
(* as one who asks for nothing.                                            *)
Requests == {NoRequest}
              \cup [actor : Actors, approval : {a \in Approvals : approvals[a] # Nobody}]
Matches == IF setup.shadow THEN BOOLEAN ELSE {TRUE}

Runs(c) == \E i \in DOMAIN running : running[i] = c
MayCall == Returned /\ calls < setup.calls /\ calls' = calls + 1

------------------------------------------------------------------------------
(* What the calls have in common                                           *)

(* _enforce_promotion_policies raises: an identity is demanded of a        *)
(* component that is not protected, or a tier the runtime has not got.     *)
BreaksPolicy(g) ==
  \E c \in Nodes(g) \cap DOMAIN registry :
    \/ registry[c].subject /\ ~ registry[c].protected
    \/ registry[c].tier > Tier /\ running # <<>>

MissingHandlers(g) ==
  {e \in g.edges : /\ e.mode # "shadow"
                   /\ ~ (/\ Runs(e.target) /\ e.in \in registry[e.target].handlers)}
Readiness(g, sick) ==
  (IF setup.handlers THEN {Issue("missing_route_handler", e.target) : e \in MissingHandlers(g)} ELSE {})
    \cup {Issue("component_not_ready", c) : c \in {d \in sick : Runs(d)}}

(* A wrong form of Authorized: any approval on file will do.               *)
Authorized_AnyActor(r) == r.approval # Nobody /\ approvals[r.approval] # Nobody

Authorized(r) == r.approval # Nobody /\ r.actor # Nobody /\ approvals[r.approval] = r.actor

(* The gates of the runtime, in their order.  A shadow trial compares the  *)
(* answers of handlers, which are outside.                                 *)
ShadowTest(match) == IF match THEN "allow" ELSE "reject"
Gates(issues, blocking, lifted, dependencies, match) ==
  Evaluate(<<Policy(Runs("policy"), blocking), Sandbox(issues, lifted),
             ShadowTest(match), AssemblyHealth(setup.mode, dependencies)>>)

(* Of a record that does not wait for a review only the identifier counts. *)
Record(id, g, blocking, deferred) ==
  IF deferred THEN [id |-> id, graph |-> g, blocking |-> blocking, deferred |-> TRUE]
              ELSE [id |-> id, graph |-> NoGraph, blocking |-> FALSE, deferred |-> FALSE]
Save(r) == records' = Append(records, r)

(* Replaces the first record with the identifier.                          *)
Update(r) ==
  LET same == {i \in DOMAIN records : records[i].id = r.id}
      first == CHOOSE i \in same : \A j \in same : i <= j
  IN records' = [records EXCEPT ![first] = r]

Install(g, how) ==
  /\ active' = g
  /\ target' = active
  /\ by' = how

(* The submissions under way were judged against a graph that is gone.     *)
Outdated(s) == [i \in DOMAIN s |-> [s[i] EXCEPT !.stale = TRUE]]

(* _record_candidate_assembly and _record_committed_assembly.  A policy    *)
(* that only warns reads none of it, so nothing is kept then.              *)
Counts == setup.mode # "warn_only"
Depend(id, g, used) ==
  deps' = IF Counts THEN [deps EXCEPT ![id] = Dependencies(g, used, registry)] ELSE deps
RecordCandidate(id, g) == Depend(id, g, reused)

CountUse(g) == reused' = IF Counts THEN reused \cup Nodes(g) ELSE reused
RecordCommitted(id, g) == CountUse(g) /\ Depend(id, g, reused \cup Nodes(g))

------------------------------------------------------------------------------
(* commit_graph                                                            *)

Affected(issues) == {i.subject : i \in Protected(issues)}

(* What is lifted, and the issues that block, of a report of the validator *)
(* and of the readiness check: an approval takes the protected issues out. *)
LiftedBy(r, issues) == IF Authorized(r) THEN Affected(issues) ELSE {}
BlockingFor(r, issues) == Blocking(IF Authorized(r) THEN issues \ Protected(issues) ELSE issues)

(* sick: the components whose health_check fails at that moment.           *)
SickAmong(g) == {s \in SUBSET Nodes(g) : Cardinality(s) <= MaxSick}

CommitGraph(id, g, r, sick, match) ==
  /\ MayCall /\ Len(stack) < MaxDepth
  /\ ~ BreaksPolicy(g)
  /\ RecordCandidate(id, g)
  /\ LET issues == ValidateGraph(g, active, registry)
         blocking == BlockingFor(r, issues \cup Readiness(g, sick))
         decision == Gates(issues, blocking, LiftedBy(r, issues), deps'[id], match)
     IN IF blocking # {} \/ decision # "allow"
        THEN /\ Save(Record(id, g, blocking # {}, blocking = {} /\ decision = "defer"))
             /\ UNCHANGED stack
        ELSE /\ stack' = Append(stack, [id |-> id, graph |-> g,
                                        request |-> IF Authorized(r) THEN r ELSE NoRequest,
                                        first |-> active = NoGraph, stale |-> FALSE])
             /\ UNCHANGED records
  /\ UNCHANGED <<bootVars, graphVars, approvals>>

Top == stack[Len(stack)]
Others == SubSeq(stack, 1, Len(stack) - 1)
Exchanged == Install(Top.graph, By("commit", Top.stale, Top.request, TRUE))

(* BEFORE_COMMIT_GRAPH has been published; whatever a subscriber did, the  *)
(* graph is exchanged.  If the rollback target is no longer the one of the *)
(* submission, the call raises after the exchange.                         *)
Cutover ==
  /\ stack # <<>>
  /\ Exchanged
  /\ Save(Record(Top.id, Top.graph, FALSE, FALSE))
  /\ IF Top.stale /\ ~ Top.first THEN UNCHANGED <<reused, deps>>
                                 ELSE RecordCommitted(Top.id, Top.graph)
  /\ stack' = Outdated(Others)
  /\ UNCHANGED <<bootVars, approvals, calls>>

(* A probe fails after the exchange: the rollback restores the graph that  *)
(* ran and leaves no target.  A first graph has nothing to go back to.     *)
Undone == target' = NoGraph /\ UNCHANGED <<active, by>>

CutoverUnhealthy ==
  /\ stack # <<>> /\ (Top.stale => Top.first)
  /\ IF active = NoGraph THEN Exchanged /\ stack' = Outdated(Others)
                         ELSE Undone /\ stack' = Others
  /\ Save(Record(Top.id, Top.graph, FALSE, FALSE))
  /\ UNCHANGED <<bootVars, reused, deps, approvals, calls>>

------------------------------------------------------------------------------
(* Deferred candidates                                                     *)

(* defer_candidate: a record from outside, with the report it came with.   *)
DeferCandidate(id, g, blocking) ==
  /\ MayCall
  /\ Save(Record(id, g, blocking, TRUE))
  /\ UNCHANGED <<bootVars, graphVars, approvals, deps, stack>>

(* ingest_candidate_record: it is recorded, and its assembly with it.      *)
IngestCandidate(id, g, blocking, deferred) ==
  /\ MayCall
  /\ RecordCandidate(id, g)
  /\ Save(Record(id, g, blocking, deferred))
  /\ UNCHANGED <<bootVars, graphVars, approvals, stack>>

(* What a review lifts: it knows neither actor nor approval.               *)
Lifted_AnyApproval(g) ==
  IF \E a \in Approvals : approvals[a] # Nobody
  THEN Affected(ValidateGraph(g, active, registry)) ELSE {}
Lifted(g) == {}

(* review_deferred_candidate: the sandbox judges it anew, its report and   *)
(* its dependency graph are those that were stored.  If a probe fails      *)
(* after the exchange the record goes on waiting.                          *)
Review(id, match, healthy) ==
  /\ MayCall /\ stack = <<>>
  /\ LET waiting == {i \in DOMAIN records : records[i].id = id /\ records[i].deferred}
         r == records[CHOOSE i \in waiting : \A j \in waiting : j <= i]
         blocking == IF r.blocking THEN {Issue("orphan_component", id)} ELSE {}
         decision == Gates(ValidateGraph(r.graph, active, registry), blocking, Lifted(r.graph),
                           deps[id], match)
         how == By("review", FALSE, NoRequest, deps[id].graph = r.graph)
     IN /\ waiting # {}
        /\ CASE r.blocking \/ decision # "allow" ->
                  /\ Update(Record(id, r.graph, r.blocking, ~ r.blocking /\ decision = "defer"))
                  /\ UNCHANGED <<graphVars, deps>>
             [] ~ r.blocking /\ decision = "allow" /\ healthy ->
                  /\ Install(r.graph, how)
                  /\ RecordCommitted(id, r.graph)
                  /\ Update(Record(id, r.graph, FALSE, FALSE))
             [] ~ r.blocking /\ decision = "allow" /\ ~ healthy ->
                  /\ IF active = NoGraph THEN Install(r.graph, how) ELSE Undone
                  /\ UNCHANGED <<records, reused, deps>>
  /\ UNCHANGED <<bootVars, approvals, stack>>

------------------------------------------------------------------------------
(* The other calls                                                         *)

(* MutationSubmitter.submit with its default reviewer: no gate, no policy. *)
Mutate(id, g) ==
  /\ MayCall
  /\ LET issues == ValidateGraph(g, active, registry)
     IN /\ Save(Record(id, g, Blocking(issues) # {}, FALSE))
        /\ IF issues = {}
           THEN /\ Install(g, By("mutation", FALSE, NoRequest, TRUE))
                /\ stack' = Outdated(stack)
           ELSE UNCHANGED <<active, target, by, stack>>
  /\ UNCHANGED <<bootVars, reused, approvals, deps>>

(* An observation window that fails.                                       *)
RollBack ==
  /\ stack = <<>> /\ target # NoGraph
  /\ active' = target /\ target' = NoGraph
  /\ by' = By("rollback", FALSE, NoRequest, TRUE)
  /\ UNCHANGED <<bootVars, records, reused, approvals, deps, stack, calls>>

Authorize(a, actor) ==
  /\ Returned /\ stack = <<>> /\ approvals[a] # actor
  /\ approvals' = [approvals EXCEPT ![a] = actor]
  /\ UNCHANGED <<bootVars, graphVars, records, deps, stack, calls>>

Next ==
  \/ BootNext /\ UNCHANGED promotionVars
  \/ \E id \in CandidateIds, g \in setup.graphs, r \in Requests, match \in Matches :
       \E sick \in SickAmong(g) : CommitGraph(id, g, r, sick, match)
  \/ Cutover \/ CutoverUnhealthy
  \/ \E id \in CandidateIds, g \in setup.external, b \in BOOLEAN : DeferCandidate(id, g, b)
  \/ \E id \in CandidateIds, g \in setup.external, b, d \in BOOLEAN :
       (b => d) /\ IngestCandidate(id, g, b, d)
  \/ \E id \in CandidateIds, match \in Matches, healthy \in BOOLEAN : Review(id, match, healthy)
  \/ \E id \in CandidateIds, g \in setup.graphs : Mutate(id, g)
  \/ RollBack
  \/ \E a \in Approvals, actor \in Actors : Authorize(a, actor)

Spec == Init /\ [][Next]_vars

------------------------------------------------------------------------------
(* Whatever way a graph got into service, through the gates, a review, a   *)
(* nested promotion, a mutation or a rollback, it can be run: it is        *)
(* acyclic, and its components, ports, types and required inputs fit what  *)
(* the registry holds.                                                     *)
AdmittedIsSound == active = NoGraph \/ Sound(active, registry)

(* After a boot that did not raise, a graph in service has no component    *)
(* that was never activated.  (After one that raised it may: the validator *)
(* asks the registry, and the readiness check skips what is not running.)  *)
AdmittedIsActivated ==
  boot = "booted" /\ active # NoGraph => \A c \in Nodes(active) : Runs(c)

(* The depth-first search reports a cycle exactly when some component      *)
(* reaches itself, on every directed graph of three components; that       *)
(* depends on no state, and is looked at before a boot only.               *)
SearchFindsCycles ==
  LET ids == {"x", "y", "z"}
      edges(adjacency) == {Edge("e", p[1], "out", p[2], "in", "t", "sync") :
                             p \in {q \in ids \X ids : q[2] \in adjacency[q[1]]}}
  IN boot = "discover" => \A adjacency \in [ids -> SUBSET ids] :
       LET g == Graph([c \in ids |-> FALSE], edges(adjacency))
       IN HasCycle(adjacency) <=> \E c \in ids : c \in Reaches(g)[c]

(* Whatever is in service can be run, was activated, and no cycle gets     *)
(* past the search that looks for it.                                      *)
AdmittedIsFit == AdmittedIsSound /\ AdmittedIsActivated /\ SearchFindsCycles

(* A step that puts a graph in the place of the one it was judged against  *)
(* keeps each protected component of that one, with exactly its edges,     *)
(* unless the caller named an approval that was granted to that very       *)
(* actor; reviews and mutations name none.                                 *)
Keeps(g, h, c) == c \in Nodes(h) /\ Incident(h, c) = Incident(g, c)
Granted(request) == request.approval # Nobody /\ approvals[request.approval] = request.actor
ProtectedNeedsApproval ==
  [][(active # NoGraph /\ by'.step # "rollback" /\ ~ by'.stale) =>
       \/ Granted(by'.request)
       \/ \A c \in Nodes(active) : IsProtected(c, active, registry) => Keeps(active, active', c)]_active

(* Where the health policy is not to warn only, a graph that connects      *)
(* components none of which was in a committed graph before does not get   *)
(* into service, neither at once nor after any number of reviews, as long  *)
(* as the gate looks at the graph's own dependencies and can tell the      *)
(* components of the edges.                                                *)
FirstUseWaits ==
  [][(setup.mode # "warn_only" /\ by'.step \in {"commit", "review"} /\ by'.own) =>
       \A e \in active'.edges :
         (registry[e.source].parts = 2 /\ registry[e.target].parts = 2) =>
            {e.source, e.target} \subseteq reused]_<<active, by>>

(* A connection the pruner offers between two unprotected components of    *)
(* the active graph can be added to it under a name of its own: the        *)
(* validator's only objection can be that it closes a cycle.  (Of two      *)
(* inputs of one name, which nothing keeps a component from declaring, the *)
(* pruner offers both and the validator knows one.)                        *)
NamedOnce(ports) == \A p, q \in ports : p.name = q.name => p = q
With(g, pair) ==
  Graph(g.flags, g.edges \cup {Edge("new", pair[1].component, pair[1].port,
                                    pair[2].component, pair[2].port, pair[1].type, "sync")})
OfferedIsLegal ==
  active # NoGraph =>
    \A pair \in LegalPairs(registry) :
      LET ends == {pair[1].component, pair[2].component}
      IN (/\ ends \subseteq Nodes(active) /\ \A c \in ends : ~ IsProtected(c, active, registry)
          /\ NamedOnce(registry[pair[2].component].inputs)
          /\ \A e \in active.edges : e.name # "new") =>
            ValidateGraph(With(active, pair), active, registry) \subseteq
              ValidateGraph(active, active, registry) \cup {Issue("cycle_detected", "graph")}
==============================================================================
