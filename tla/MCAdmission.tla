----------------------------- MODULE MCAdmission -----------------------------
(* The instance of Admission that TLC checks.                              *)
EXTENDS Admission, TLC

Symmetry == Permutations(CandidateIds) \cup Permutations(Actors)

Plain == [inputs |-> {}, outputs |-> {}, slots |-> {}, handlers |-> {}, protected |-> FALSE,
          subject |-> FALSE, tier |-> 0, parts |-> 2]
Source == [Plain EXCEPT !.outputs = {Output("out", "t")}, !.inputs = {Input("back", "u", FALSE)}]
Sink == [Plain EXCEPT !.inputs = {Input("in", "t", TRUE), Input("extra", "u", FALSE)}, !.outputs = {Output("done", "u")},
                      !.handlers = {"in"}]
Drain == [Sink EXCEPT !.inputs = {Input("in", "t", FALSE)}]
Guard == [Plain EXCEPT !.inputs = {Input("tap", "t", FALSE)}, !.protected = TRUE, !.handlers = {"tap"}]
Judge1 == [Plain EXCEPT !.protected = TRUE, !.slots = {"policy"}]

M(id, decl) == [id |-> id, instance |-> id, source |-> 1, enabled |-> TRUE, static |-> TRUE,
                deps |-> {}, needs |-> {}, wants |-> {}, provides |-> {}, raises |-> "no",
                decl |-> decl]
After(m, ids) == [m EXCEPT !.deps = ids]
Raising(m, call) == [m EXCEPT !.raises = call]

Feed == Edge("feed", "src", "out", "sink", "in", "t", "sync")
Watch == Edge("watch", "src", "out", "guard", "tap", "t", "sync")
Back == Edge("back", "sink", "done", "src", "back", "u", "sync")
G(ids, edges) == Graph([c \in ids |-> FALSE], edges)
Proposals ==
  {G({"src"}, {}), G({"guard"}, {}), G({"sink"}, {}), G({"src", "policy"}, {}),
   G({"src", "sink"}, {Feed}), G({"src", "guard"}, {Watch}),
   G({"src", "sink", "guard"}, {Feed, Watch}),
   Graph([c \in {"src", "sink"} |-> c = "sink"], {Feed}),
   G({"src", "sink"}, {Feed, Back}),
   G({"src", "sink"}, {}),
   G({"src", "sink"}, {[Feed EXCEPT !.payload = "u"]}),
   G({"src", "sink"}, {[Feed EXCEPT !.in = "tap"]}),
   G({"src", "sink"}, {[Feed EXCEPT !.in = "extra", !.payload = "u"]}),
   G({"src", "sink", "guard"}, {Feed, [Watch EXCEPT !.name = "feed"]}),
   G({"src", "guard"}, {Watch, [Feed EXCEPT !.mode = "shadow"]}),
   G({"src", "sink"}, {Feed, [Back EXCEPT !.mode = "shadow", !.out = "none"]})}
External == {G({"guard"}, {}), G({"src", "sink"}, {Feed}), G({"src", "sink"}, {})}
Few == {G({"src"}, {}), G({"guard"}, {}), G({"src", "sink"}, {Feed}),
        G({"src", "guard"}, {Watch}), G({"src", "sink", "guard"}, {Feed, Watch})}

Standard == <<M("guard", Guard), M("src", Source), After(M("sink", Sink), {"src"})>>
Loose == <<M("guard", Guard), M("src", Source), M("sink", Drain)>>
Default(disk) ==
  [disk |-> disk, mode |-> "warn_only", handlers |-> FALSE, shadow |-> FALSE,
   calls |-> 1, graphs |-> Proposals, external |-> External]
Twice(disk) == [Default(disk) EXCEPT !.calls = 2]
Thrice(disk) == [Default(disk) EXCEPT !.calls = 3, !.graphs = Few, !.external = External \cap Few]

MCSetups ==
  {[Twice(Standard) EXCEPT !.handlers = TRUE, !.shadow = TRUE],
   [Twice(Loose) EXCEPT !.mode = "defer_high_risk"],
   Thrice(Standard),
   [Thrice(Loose) EXCEPT !.mode = "defer_high_risk", !.graphs = {G({"src"}, {}), G({"sink"}, {}),
      G({"src", "sink"}, {Feed})}, !.external = {G({"src", "sink"}, {Feed})}],
   Twice(<<M("policy", Judge1), M("src", Source), M("sink", Sink)>>),
   \* another component claims the policy's slot
   Twice(<<M("policy", Judge1), [M("src", Source) EXCEPT !.decl.slots = {"policy"}]>>),
   \* an identity is demanded without protection, and a tier nobody has
   Default(<<[M("src", Source) EXCEPT !.decl.subject = TRUE],
             [M("guard", Guard) EXCEPT !.decl.tier = 2]>>),
   \* a cycle of three, of which one edge is a capability nobody must provide
   Default(<<After(M("guard", Guard), {"sink"}), After(M("sink", Sink), {"src"}),
             [M("src", Source) EXCEPT !.wants = {"cap"}], [M("aux", Plain) EXCEPT !.provides = {"cap"}]>>),
   Default(<<[M("guard", Guard) EXCEPT !.provides = {"cap"}, !.deps = {"sink"}],
             After(M("sink", Sink), {"src"}), [M("src", Source) EXCEPT !.wants = {"cap"}]>>),
   \* what is depended on is missing, disabled, or unfit
   Default(<<After(M("sink", Sink), {"aux"}), M("src", Source)>>),
   Default(<<After(M("sink", Sink), {"src"}), [M("src", Source) EXCEPT !.static = FALSE]>>),
   Default(<<M("src", Source), After(M("sink", Sink), {"src"}),
             [M("src", Source) EXCEPT !.source = 4, !.enabled = FALSE]>>),
   Default(<<M("sink", Sink), M("src", Source),
             [M("src", Source) EXCEPT !.source = 4, !.enabled = FALSE]>>),
   \* two sources, and an override whose identifier has another form
   Default(<<M("src", Source), M("sink", Drain),
             [M("src", [Source EXCEPT !.parts = 3]) EXCEPT !.source = 4]>>),
   \* two providers, against the alphabet
   Default(<<[M("aux", Plain) EXCEPT !.needs = {"cap"}], [M("src", Source) EXCEPT !.provides = {"cap"}],
             [M("sink", Sink) EXCEPT !.provides = {"cap"}, !.deps = {"src"}]>>),
   \* a boot that raises half way
   Default(<<M("src", Source), After(Raising(M("sink", Sink), "activate"), {"src"})>>),
   Default(<<M("src", Source), After(Raising(M("sink", Sink), "declare"), {"src"})>>),
   Default(<<M("sink", Sink), [M("src", Source) EXCEPT !.instance = "sink"]>>)}

MCIdentities == <<"aux", "guard", "policy", "sink", "src">>
==============================================================================
