---------------------------- MODULE MCXsaiIssue -----------------------------
\* Instances of XsaiIssue: small traces of vector code on a two-unit back end.
EXTENDS XsaiIssue, TLC

MCLanes == (1 :> 2) @@ (2 :> 1)
MCServes == (1 :> {1}) @@ (2 :> {1}) @@ (3 :> {2})
MCReadDomain == (1 :> 1) @@ (2 :> 1) @@ (3 :> 0)
MCWriteDomain == (1 :> 1) @@ (2 :> 2) @@ (3 :> 1)
MCOne == 1 :> 1
MCWriteCapacity == (1 :> 1) @@ (2 :> 1)
MCTwo == 1 :> 2
\* The memory takes the next access at once, or refuses it beyond the next boundary
\* and into the middle of a cycle.
Holds(l, s) == ("load" :> l) @@ ("store" :> s)
MCMemoryHold == {Holds(0, 0), Holds(5, 3)}
MCNoHold == {Holds(0, 0)}

\* All policies on; service timers and capacity for both kinds of access.
MCPolicy ==
    [order |-> "oldest_same_kind",
     service |-> [load |-> 3, store |-> 1], capacity |-> [load |-> 1, store |-> 1],
     split |-> [ticks |-> 2, boundary |-> 16, maxFlows |-> 2,
                lanes |-> [load |-> 1, store |-> 1]],
     storeCompletion |-> 2,
     epochs |-> TRUE, loadVisibility |-> 1, multiLoadDrain |-> 2, chainedDrain |-> 1,
     reductionOverlap |-> 1, mixedCapacity |-> 1, maxPendingGroups |-> 1,
     inOrder |-> FALSE]
\* In order, without vector memory timers, splitting, epochs or overlap limit.
LegacyPolicy ==
    [MCPolicy EXCEPT !.order = "oldest", !.service = [load |-> Never, store |-> 0],
        !.capacity = [load |-> 1, store |-> Never], !.split.ticks = Never,
        !.epochs = FALSE, !.maxPendingGroups = Never, !.inOrder = TRUE]
MCPolicies == {MCPolicy, LegacyPolicy}

-----------------------------------------------------------------------------
\* Uops; deps are given relative to the uop by the traces below.
Plain(m, deps) ==
    [macro |-> m, kind |-> "scalar", vmem |-> FALSE, config |-> FALSE,
     reduce |-> FALSE, compute |-> FALSE, deps |-> deps, state |-> {}, latency |-> 2,
     access |-> {0}, occupancy |-> 1, interval |-> 0, class |-> "scalar",
     resources |-> {2}, units |-> {}, reads |-> FALSE, completes |-> FALSE,
     after |-> NoUop, gap |-> 0, address |-> 0, bytes |-> 0, demand |-> 1 :> 0]
Config(m) == [Plain(m, {}) EXCEPT !.config = TRUE, !.latency = 1, !.class = "config"]
Vector(m, c, deps) ==
    [Plain(m, {c} \cup deps) EXCEPT !.kind = "vector", !.state = {c}, !.latency = 4,
        !.occupancy = 2, !.interval = 1, !.class = "vector", !.resources = {1}, !.units = {1, 2},
        !.reads = TRUE, !.completes = TRUE]
Reduce(m, c, deps) == [Vector(m, c, deps) EXCEPT !.reduce = TRUE, !.units = {1}]
Prep(m) == [Plain(m, {}) EXCEPT !.kind = "vector", !.latency = 1]
Load(m, c, deps) ==
    [Plain(m, {c} \cup deps) EXCEPT !.kind = "load", !.vmem = TRUE, !.state = {c},
        !.access = {1, 4}, !.class = "load", !.units = {3}, !.completes = TRUE,
        !.bytes = 16, !.demand = 1 :> 1]
Store(m, c, deps) ==
    [Load(m, c, deps) EXCEPT !.kind = "store", !.access = {1}, !.class = "store",
        !.completes = FALSE, !.interval = 3]

\* Two loads that split and contend, computed on twice, stored; then an epoch of
\* loads only and one that reduces twice.
StoreEpochs ==
    <<Config(1), Load(2, 1, {}), [Load(3, 1, {}) EXCEPT !.address = 8],
      Vector(4, 1, {2, 3}), Store(5, 1, {4}),
      Config(6), Load(7, 6, {}), Config(8), Reduce(9, 8, {7}), Reduce(10, 8, {7}),
      Config(11)>>
\* One load feeds a chain of two computations in two parts, then the store.
ChainEpoch ==
    <<Config(1), Load(2, 1, {}), Vector(3, 1, {2}),
      [Vector(3, 1, {2}) EXCEPT !.after = 3, !.gap = 3], Vector(4, 1, {3, 4}),
      Store(5, 1, {5}), Config(6), Load(7, 7, {})>>
\* Two epochs that store and reduce: one at a time.
MixedEpochs ==
    <<Config(1), Load(2, 1, {}), Vector(3, 1, {2}), Store(4, 1, {3}), Reduce(5, 1, {3}),
      Config(6), Vector(7, 6, {}), Store(8, 6, {7}), Reduce(9, 6, {7})>>
\* Three computations and a load race for two read and one writeback port.
PortRace ==
    <<Config(1), Load(2, 1, {}), Vector(3, 1, {}), Vector(4, 1, {}),
      [Vector(5, 1, {}) EXCEPT !.demand = 1 :> 2], Plain(6, {}),
      [Plain(7, {2}) EXCEPT !.latency = 0]>>
\* Two macro-ops that load and compute on what they loaded, and a late store.
Groups ==
    <<Config(1), Load(2, 1, {}), [Vector(2, 1, {2}) EXCEPT !.compute = TRUE],
      Load(3, 1, {}), [Vector(3, 1, {4}) EXCEPT !.compute = TRUE],
      Store(4, 1, {5}), Store(5, 1, {1}), Load(6, 1, {})>>
\* The last uop finds the writeback port of unit 1 taken; unit 2, which has a port
\* of its own, becomes free in the middle of the cycle.
WakeTrace ==
    <<Config(1), [Vector(2, 1, {}) EXCEPT !.units = {2}], [Plain(2, {1}) EXCEPT !.latency = 1],
      [Plain(3, {3}) EXCEPT !.latency = 4, !.units = {3}, !.completes = TRUE], Vector(3, 1, {3})>>
\* Scalar accesses, which nothing but the memory and their lane keeps back.
ScalarLoad(m, deps) == [Load(m, 1, deps) EXCEPT !.vmem = FALSE, !.demand = 1 :> 0]
ScalarStore(m, deps) == [Store(m, 1, deps) EXCEPT !.vmem = FALSE, !.demand = 1 :> 0]
ScalarAccesses ==
    <<Config(1), ScalarLoad(2, {}), ScalarLoad(3, {}), ScalarStore(4, {}), ScalarLoad(4, {2}),
      Load(5, 1, {})>>
\* The load of the younger group takes the one place; its sum continues that of the
\* older group, whose load comes late.
AccumulateTrace ==
    <<Config(1), [Plain(2, {}) EXCEPT !.latency = 6],
      Load(3, 1, {2}), [Vector(3, 1, {3}) EXCEPT !.compute = TRUE],
      Load(4, 1, {}), [Vector(4, 1, {4, 5}) EXCEPT !.compute = TRUE]>>

\* A reduction epoch holds the configuration of a mixed epoch back, and the two
\* mixed epochs after it, whose sums continue its own, take both places.
MixedEpoch(m, c, sum) ==
    <<Config(m), Vector(m + 1, c, {}), Store(m + 2, c, {c + 1}), Reduce(m + 3, c, {c + 1} \cup sum)>>
OrderTrace ==
    <<Config(1), [Reduce(2, 1, {}) EXCEPT !.latency = 12]>>
        \o MixedEpoch(3, 3, {2}) \o MixedEpoch(7, 7, {6}) \o MixedEpoch(11, 11, {10})
OrderTraces == {OrderTrace}
OrderPolicies == {[MCPolicy EXCEPT !.mixedCapacity = 2]}
LeakPolicies == {MCPolicy}
\* The last vector uop of the first mixed epoch is the preparation of a store's
\* address, which waits for nothing.
LeakTrace ==
    <<Config(1), Reduce(2, 1, {}),
      Config(3), Vector(4, 3, {}), Reduce(5, 3, {4}), Prep(6), Store(6, 3, {4, 6}),
      Config(7), Vector(8, 7, {}), Store(9, 7, {9}), Reduce(10, 7, {9})>>
LeakTraces == {LeakTrace, WakeTrace}

\* The last three have places that do not return.
MCTraces ==
    {StoreEpochs, ChainEpoch, MixedEpochs, PortRace, Groups, WakeTrace, ScalarAccesses,
     OrderTrace, LeakTrace, AccumulateTrace}
=============================================================================
