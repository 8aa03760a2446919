-------------------------------- MODULE Boot ---------------------------------
(***************************************************************************)
(* HarnessRuntime.boot (core/boot.py): the manifests that are found on     *)
(* disk (sdk/discovery.py) are narrowed down to one per component, ordered *)
(* by their dependencies (sdk/dependency.py), and then declared, put into  *)
(* the registry (sdk/registry.py) and activated one by one.  An exception  *)
(* leaves boot where it is: what has been registered stays.                *)
(*                                                                         *)
(* A setup is what is on disk, the sequence of manifests in the order      *)
(* scan_all finds them, how the runtime is configured, and what is tried   *)
(* later: how many calls, with which graphs, of which external are those   *)
(* that candidate records from elsewhere hold.  A manifest: its identity;  *)
(* its instance, which _instance_id makes of the identity; the rank of its *)
(* source; enabled, which is also false when the configuration disables    *)
(* it; static, whether validate_manifest_static has nothing against it;    *)
(* what it depends on and provides; the call that raises, if any; and what *)
(* it declares.                                                            *)
(***************************************************************************)
EXTENDS SafetyGates, Selections

CONSTANTS Setups,      \* what may be on disk, and the configuration
          Identities   \* the components' identities, in alphabetical order

Manifests(k) == {k[i] : i \in DOMAIN k}

ASSUME BootAssumption ==
  /\ Identities \in Seq({Identities[i] : i \in DOMAIN Identities})
  /\ \A i, j \in DOMAIN Identities : Identities[i] = Identities[j] => i = j
  /\ \A s \in Setups :
       /\ s.mode \in Modes /\ {s.handlers, s.shadow} \subseteq BOOLEAN
       /\ s.disk \in Seq(Manifests(s.disk))
       /\ \A m \in Manifests(s.disk) :
            m.source \in Nat /\ \E n \in DOMAIN Identities : Identities[n] = m.id

VARIABLES setup,      \* what is on disk, and the configuration
          boot,       \* "discover", "start", "booted", "raised"
          order,      \* the manifests still to be started, in order
          registry,   \* what is registered: instance |-> declaration
          running     \* the instances whose activation returned, in order

bootVars == <<setup, boot, order, registry, running>>

------------------------------------------------------------------------------
(* ComponentDiscovery.resolve: a later manifest of the same identity wins  *)
(* only with a higher source.                                              *)
Winner(k, id) ==
  LET of == {i \in DOMAIN k : k[i].id = id}
  IN k[CHOOSE i \in of : \A j \in of : k[j].source <= k[i].source /\ (k[j].source = k[i].source => i <= j)]

Winners(k) == {Winner(k, m.id) : m \in Manifests(k)}

FilterEnabled(manifests) == {m \in manifests : m.enabled}

(* A wrong form of Candidates: the disabled ones are left out before the   *)
(* sources compete.                                                        *)
Candidates_EnabledFirst(k) ==
  LET enabled == SelectSeq(k, LAMBDA m : m.enabled)
  IN {m \in Winners(enabled) : m.static}

Candidates(k) == {m \in FilterEnabled(Winners(k)) : m.static}

------------------------------------------------------------------------------
(* resolve_boot_order                                                      *)

Ids(manifests) == {m.id : m \in manifests}
Providers(manifests, capability) == {m.id : m \in {n \in manifests : capability \in n.provides}}

(* needs are the deps of a manifest, wants the capabilities its contract   *)
(* requires, which nobody has to provide.                                  *)
Missing(manifests) ==
  \E m \in manifests : \/ ~ (m.deps \subseteq Ids(manifests))
                       \/ \E c \in m.needs : Providers(manifests, c) = {}

Predecessors(m, manifests) ==
  m.deps \cup UNION {Providers(manifests, c) \ {m.id} : c \in m.needs \cup m.wants}

Of(manifests, id) == CHOOSE m \in manifests : m.id = id
Before(manifests) == [id \in Ids(manifests) |-> Predecessors(Of(manifests, id), manifests)]

Sorted(ids) == Within(Identities, ids)

(* A wrong form of Ready: one predecessor is enough.                       *)
Ready_Once(before, done) == {id \in DOMAIN before : before[id] = {} \/ before[id] \cap done # {}}

Ready(before, done) == {id \in DOMAIN before : before[id] \subseteq done}

(* Kahn's algorithm over the identities; what a cycle holds never gets in. *)
Dequeue(before, s) ==
  IF s.queue = <<>> THEN s
  ELSE LET id == Head(s.queue)
           earlier == {s.done[i] : i \in DOMAIN s.done}
           freed == Ready(before, earlier \cup {id}) \ Ready(before, earlier)
       IN [queue |-> Tail(s.queue) \o Sorted(freed), done |-> Append(s.done, id)]

Turns(before) ==
  LET run[n \in 0..Cardinality(DOMAIN before)] ==
        IF n = 0 THEN [queue |-> Sorted(Ready(before, {})), done |-> <<>>]
        ELSE Dequeue(before, run[n - 1])
  IN run

Kahn(manifests) ==
  LET before == Before(manifests)
      ids == Turns(before)[Cardinality(DOMAIN before)].done
  IN [i \in DOMAIN ids |-> Of(manifests, ids[i])]

(* The dependencies of a manifest and theirs in turn, said without Kahn.   *)
Ancestors(manifests) == Following(Before(manifests))

------------------------------------------------------------------------------
BootInit ==
  /\ setup \in Setups
  /\ boot = "discover"
  /\ order = <<>>
  /\ registry = <<>>
  /\ running = <<>>

(* From the scan to the order.  Nothing has been started when it raises.   *)
Discover ==
  /\ boot = "discover"
  /\ LET manifests == Candidates(setup.disk)
     IN IF Missing(manifests) \/ Len(Kahn(manifests)) # Cardinality(manifests)
        THEN boot' = "raised" /\ order' = <<>>
        ELSE boot' = "start" /\ order' = Kahn(manifests)
  /\ UNCHANGED <<setup, registry, running>>

Register(m) == registry' = [c \in DOMAIN registry \cup {m.instance} |->
                              IF c = m.instance THEN m.decl ELSE registry[c]]

(* A wrong form of Activates: a failed activation is passed over.          *)
Activates_Regardless(m) == TRUE

(* activate is called after the registration, and may raise.               *)
Activates(m) == m.raises # "activate"
Registrable(m) == m.raises # "declare" /\ m.instance \notin DOMAIN registry

Start ==
  /\ boot = "start" /\ order # <<>>
  /\ LET m == Head(order)
     IN /\ Registrable(m)
        /\ Register(m)
        /\ IF Activates(m)
           THEN /\ running' = IF m.raises = "activate" THEN running ELSE Append(running, m.instance)
                /\ order' = Tail(order)
                /\ UNCHANGED boot
           ELSE /\ boot' = "raised"
                /\ UNCHANGED <<order, running>>
  /\ UNCHANGED setup

(* The component's module or its declarations raise, or its instance is    *)
(* registered already.                                                     *)
StartRaises ==
  /\ boot = "start" /\ order # <<>>
  /\ ~ Registrable(Head(order))
  /\ boot' = "raised"
  /\ UNCHANGED <<setup, order, registry, running>>

Booted ==
  /\ boot = "start" /\ order = <<>>
  /\ boot' = "booted"
  /\ UNCHANGED <<setup, order, registry, running>>

BootNext == Discover \/ Start \/ StartRaises \/ Booted
Returned == boot \in {"booted", "raised"}

------------------------------------------------------------------------------
(* A component runs only after everything it depends on, directly or       *)
(* through others; a boot that never had a dependency missing or a cycle   *)
(* gets past the ordering, and one that had starts nothing.                *)
DependenciesFirst ==
  LET manifests == Candidates(setup.disk)
      cyclic == \E id \in Ids(manifests) : id \in Ancestors(manifests)[id]
      began(i, id) == \E m \in manifests : m.instance = running[i] /\ m.id = id
  IN /\ Missing(manifests) => running = <<>>
     /\ boot \in {"start", "booted"} => ~ Missing(manifests) /\ ~ cyclic
     /\ (boot = "raised" /\ registry = <<>> /\ order = <<>>) => Missing(manifests) \/ cyclic
     /\ \A i \in DOMAIN running : \E m \in manifests :
          /\ m.instance = running[i]
          /\ \A d \in Ancestors(manifests)[m.id] : \E j \in 1..(i - 1) : began(j, d)

(* Of the manifests of one identity only that of the highest source is     *)
(* ever registered, and one that is disabled hides the others.             *)
HighestSourceOnly ==
  \A c \in DOMAIN registry : \E m \in Manifests(setup.disk) :
    /\ m.instance = c /\ m.decl = registry[c] /\ m.enabled
    /\ \A n \in Manifests(setup.disk) : n.id = m.id => n.source <= m.source

(* A boot starts what the highest source says and what is enabled, each    *)
(* component after all that it depends on.                                 *)
BootedInOrder == DependenciesFirst /\ HighestSourceOnly
==============================================================================
