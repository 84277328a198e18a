----------------------------- MODULE MCProfile -----------------------------
(***************************************************************************)
(* An instance of ProfileAdmission: two partitions of one unit each, in    *)
(* the manner of profiles/xsai.yaml, and for every field the values that   *)
(* its validator distinguishes; recipes of one uop and of two, in slots of *)
(* their own or in one.                                                    *)
(***************************************************************************)
EXTENDS ProfileAdmission

NoDemands == [d \in {} |-> 0]
Whole(n) == <<n, 1>>
Entry(resources, latency, domains, demands, terminal) ==
    [resources |-> resources, latency |-> latency, domains |-> domains,
     demands |-> demands, terminal |-> terminal, data |-> FALSE]
Port(id, ports, capacity, units) ==
    [id |-> id, ports |-> ports, capacity |-> capacity, units |-> units]
Partition(id, units) == [id |-> id, vector |-> TRUE, entries |-> 2, units |-> units]
Unit(partition, resources, read, write) ==
    [partition |-> partition, resources |-> resources, read |-> read, write |-> write]

BaseUnits == [u1 |-> Unit("p1", {"fma"}, "r1", "w1"), u2 |-> Unit("p2", {"alu"}, "r2", "w1")]
BaseRecipe ==
    [uops |-> <<Entry({"fma"}, <<1, 2>>, {"i1"}, [i1 |-> 2], TRUE)>>,
     domains |-> <<"d1">>, demands |-> [d1 |-> 1], rename |-> [vec |-> 1],
     slots |-> "part", decoded |-> 1, writesVector |-> TRUE, readsVector |-> TRUE]
\* Two uops, of one slot or of two: the slot has the resources of the second, or
\* of the first if that one moves data.
Address(resources) == Entry(resources, Whole(1), {"i2"}, NoDemands, FALSE)
Moves(resources) == [Entry(resources, Whole(2), {"i1"}, NoDemands, TRUE) EXCEPT !.data = TRUE]
TwoUops(slots, first, second) == [BaseRecipe EXCEPT !.uops = <<first, second>>, !.slots = slots]
TwoUopRecipes ==
    {TwoUops(slots, Address({"alu"}), Moves({"fma"})) : slots \in {"each", "part", "whole"}}
    \cup {TwoUops("part", Address({"fma"}), Moves({"fma", "alu"})),
          TwoUops("part", Moves({"fma"}), Address({"fma", "alu"})),
          TwoUops("whole", Moves({"fma"}), Address({"fma"}))}
BaseRename ==
    [enabled |-> TRUE, lists |-> [vec |-> 2], policy |-> "all_files_must_be_ready",
     allocation |-> 1, release |-> 1, releaseDelay |-> Whole(1),
     availabilityDelay |-> Whole(1), guard |-> 1]
BaseMemory ==
    [order |-> "any", capacity |-> ProfileAbsent, completion |-> Whole(0), service |-> Whole(ProfileAbsent),
     boundary |-> ProfileAbsent, flowCycles |-> Whole(ProfileAbsent)]
BaseDependency ==
    [present |-> TRUE, evidence |-> <<"s1">>, state |-> TRUE, old |-> TRUE,
     registers |-> <<"vconfig">>, stateKinds |-> <<"vector_fp">>, mode |-> "semantic",
     oldKinds |-> <<"vector_fp">>, implicitKinds |-> <<>>]

MCBase ==
    [isa |-> [length |-> 128, maximum |-> 128], model |-> "xsai-rvv",
     partitions |-> <<Partition("p1", <<"u1">>), Partition("p2", <<"u2">>)>>,
     units |-> BaseUnits,
     resources |-> [fma |-> [capacity |-> 1, bytes |-> ProfileAbsent],
                    alu |-> [capacity |-> 1, bytes |-> 24]],
     reads |-> <<Port("r1", 2, 1, {"u1"}), Port("r2", 2, 1, {"u2"})>>,
     writes |-> <<Port("w1", 1, 1, {"u1", "u2"})>>,
     schedulerEntries |-> 4, robEntries |-> 1, widthBits |-> 128,
     basis |-> [dispatch |-> "execution_uops", rob |-> "architectural_instructions"],
     vectorMemory |-> BaseMemory,
     epochs |-> [present |-> TRUE, cycles |-> {Whole(3), Whole(5)}, capacity |-> 2],
     dispatchDomains |-> [d1 |-> 1, d2 |-> 1], rename |-> BaseRename,
     dependency |-> BaseDependency,
     sources |-> <<"s1", "s2">>, referenced |-> {"s1"},
     overlapKinds |-> {"vector_load"}, semanticKinds |-> {"vector_load", "vector_fp_add"},
     issueDomains |-> [i1 |-> 2, i2 |-> 1], recipe |-> BaseRecipe, prep |-> <<>>]

MCAlternatives ==
    [isa |-> {[length |-> 256, maximum |-> 128], [length |-> ProfileAbsent, maximum |-> 128]},
     model |-> {"zen4", "generic-token", "other"},
     partitions |-> {<<Partition("p1", <<"u1">>), Partition("p1", <<"u2">>)>>,
                     <<Partition("p1", <<"u1", "u2">>), Partition("p2", <<>>)>>,
                     <<Partition("p1", <<"u1">>)>>},
     units |-> {[BaseUnits EXCEPT !.u1.partition = "p2"],
                [BaseUnits EXCEPT !.u2.partition = "p1", !.u2.resources = {"fma", "alu"}],
                [BaseUnits EXCEPT !.u2.resources = {"gone"}],
                [BaseUnits EXCEPT !.u1.write = ProfileNone], [BaseUnits EXCEPT !.u1.write = "gone"],
                [BaseUnits EXCEPT !.u1.read = "gone"]},
     resources |-> {[MCBase.resources EXCEPT !.fma.capacity = Measure],
                    [MCBase.resources EXCEPT !.alu.capacity = Measure],
                    [MCBase.resources EXCEPT !.fma.bytes = 48, !.alu.bytes = 40]},
     reads |-> {<<Port("r1", 1, 2, {"u1"}), Port("r2", 1, 1, {"u2"})>>,
                <<Port("r1", 2, 1, {"u1"}), Port("r1", 2, 1, {"u2"}), Port("r2", 1, 1, {"u2"})>>,
                <<Port("r1", 2, 1, {"u1"}), Port("r2", 2, Measure, {"u2"})>>,
                <<Port("r2", 2, 1, {"u1", "u2"})>>},
     writes |-> {<<Port("w1", 1, Measure, {"u1", "u2"})>>, <<Port("w1", 1, 1, {"u3"})>>},
     schedulerEntries |-> {3, Measure}, robEntries |-> {2}, widthBits |-> {127, Measure},
     basis |-> {[dispatch |-> "uops", rob |-> "decoded_macro_ops"],
                [dispatch |-> "decoded_macro_ops", rob |-> "max_decoded_or_execution_uops"],
                [dispatch |-> "decoded_macro_ops", rob |-> "execution_uops"]},
     vectorMemory |-> {[BaseMemory EXCEPT !.order = "youngest"],
                       [BaseMemory EXCEPT !.boundary = 64],
                       [BaseMemory EXCEPT !.boundary = 64, !.flowCycles = <<1, 5>>],
                       [BaseMemory EXCEPT !.capacity = 0],
                       [BaseMemory EXCEPT !.capacity = Measure],
                       [BaseMemory EXCEPT !.service = Whole(Measure)],
                       [BaseMemory EXCEPT !.completion = Whole(Invalid)]},
     epochs |-> {[present |-> FALSE, cycles |-> {}, capacity |-> ProfileAbsent],
                 [present |-> TRUE, cycles |-> {Whole(Measure)}, capacity |-> 1],
                 [present |-> TRUE, cycles |-> {Whole(3)}, capacity |-> Measure]},
     dispatchDomains |-> {[d1 |-> 0, d2 |-> 1], [d1 |-> 2, d2 |-> Measure], [d2 |-> 1],
                          [d1 |-> Measure, d2 |-> 1]},
     rename |-> {[BaseRename EXCEPT !.enabled = FALSE], [BaseRename EXCEPT !.guard = 2],
                 [BaseRename EXCEPT !.lists = [vec |-> Measure]],
                 [BaseRename EXCEPT !.lists = [state |-> 2]],
                 [BaseRename EXCEPT !.policy = "first"], [BaseRename EXCEPT !.allocation = 0],
                 [BaseRename EXCEPT !.releaseDelay = <<1, 4>>]},
     dependency |-> {[BaseDependency EXCEPT !.evidence = <<>>],
                     [BaseDependency EXCEPT !.implicitKinds = <<"shuffle">>],
                     [BaseDependency EXCEPT !.state = FALSE, !.old = FALSE],
                     [BaseDependency EXCEPT !.present = FALSE]},
     sources |-> {<<"s2", "s2">>, <<"s2">>}, referenced |-> {{"s3"}},
     overlapKinds |-> {{"vector_magic"}},
     issueDomains |-> {[i1 |-> 1, i2 |-> 1], [i1 |-> 2, i2 |-> Measure], [i2 |-> 1]},
     recipe |-> {[BaseRecipe EXCEPT !.uops[1].domains = {"i3"}],
                 [BaseRecipe EXCEPT !.uops[1].demands = NoDemands],
                 [BaseRecipe EXCEPT !.uops[1].latency = Whole(Measure)],
                 [BaseRecipe EXCEPT !.uops[1].resources = {"fma", "alu"}],
                 [BaseRecipe EXCEPT !.uops[1].resources = {"gone"}],
                 [BaseRecipe EXCEPT !.demands = [d1 |-> 2]],
                 [BaseRecipe EXCEPT !.domains = <<"d1", "d1">>],
                 [BaseRecipe EXCEPT !.rename = [vec |-> 2]],
                 [BaseRecipe EXCEPT !.decoded = 2], [BaseRecipe EXCEPT !.decoded = Measure]}
               \cup TwoUopRecipes,
     prep |-> {<<Entry({"alu"}, Whole(1), {"i2"}, NoDemands, FALSE)>>,
               <<Entry({"alu"}, Whole(1), {"i2"}, [i2 |-> 2], FALSE)>>,
               <<Entry({"alu"}, Whole(1), {"i4"}, NoDemands, FALSE)>>}]

=============================================================================
