------------------------------- MODULE MCZen4 -------------------------------
(***************************************************************************)
(* Instances of Zen4Engine: three macro-ops of five uops, every trace of a *)
(* few families, every answer of the memory.                               *)
(***************************************************************************)
EXTENDS Zen4Engine

\* Resource 1 moves data, 2 and 3 compute.  Domain 1 is a weighted domain that
\* holds one vector uop (demand 2), or two scalar uops.
MCResource == 1..3
MCLaneCount == <<1, 1, 1>>
MCDomain == {1}
MCDomainCapacity == <<2>>
MCClass == Kind \cup {"part"}
MCLoadLatency == {1, 5}
MCMemoryHold == {1, 3}

ResourcesOf(k) ==
    CASE k \in MemoryKind -> {1}
      [] k = "vector" -> {2, 3}
      [] k = "scalar" -> {3}

\* In order, out of order, and out of order with the overlap limit.
Policies == {"in order", "free", "limited"}

\* A trace from the parents, kinds, dependencies and predecessors of its uops.
TraceOf(parent, kind, dependencies, after, compute, ops, vectorDemand, policy) ==
    [parent |-> parent, kind |-> kind, dependencies |-> dependencies,
     latency |-> [u \in 1..5 |-> CASE kind[u] = "vector" -> 3
                                   [] kind[u] = "store_data" -> 1
                                   [] kind[u] = "load_data" -> 4
                                   [] kind[u] = "scalar" -> 0],
     occupancy |-> [u \in 1..5 |-> IF kind[u] = "vector" THEN 2 ELSE 1],
     interval |-> [u \in 1..5 |-> IF kind[u] \in MemoryKind THEN 1 ELSE 3],
     class |-> [u \in 1..5 |-> IF kind[u] = "vector" /\ u % 2 = 1
                               THEN "part" ELSE kind[u]],
     resources |-> [u \in 1..5 |-> ResourcesOf(kind[u])],
     demand |-> [u \in 1..5 |-> <<CASE kind[u] = "vector" -> vectorDemand
                                    [] kind[u] = "scalar" -> 1
                                    [] OTHER -> 0>>],
     after |-> after,
     gap |-> <<1, 1, 1, 1, 1>>,
     compute |-> compute,
     ops |-> [m \in 0..3 |-> ops[m + 1]],
     retireOps |-> [m \in 1..3 |-> ops[m + 1] - ops[m]],
     outOfOrder |-> policy # "in order", overlapLimit |-> policy # "free"]

NoPredecessor == <<0, 0, 0, 0, 0>>

\* Two memory-source FMAs, the second of which counts for two macro-ops, and a
\* last uop of any kind.
FmaTraces ==
    {TraceOf(<<1, 1, 2, 2, 3>>,
             <<"load_data", "vector", "load_data", "vector", last>>,
             <<{}, {1}, address, {3} \cup accumulator, input>>,
             NoPredecessor, {2, 4}, <<0, 1, 3, 4>>, demand, policy) :
        last \in {"vector", "store_data", "scalar"},
        address \in {{}, {1}, {2}},
        accumulator \in {{}, {2}},
        input \in {{}, {2}, {4}},
        demand \in 1..2, policy \in Policies}

\* A vector operation of two parts, a scalar operation and a load that feeds a
\* vector uop or a store.
PartTraces ==
    {TraceOf(<<1, 1, 2, 3, 3>>,
             <<"vector", "vector", "scalar", "load_data", last>>,
             <<{}, {}, source, address, {4} \cup input>>,
             <<0, 1, 0, 0, 0>>, {}, <<0, 1, 2, 3>>, demand, policy) :
        last \in {"vector", "store_data"},
        source \in {{}, {1}},
        address \in {{}, {3}, {2}},
        input \in {{}, {2}},
        demand \in 1..2, policy \in Policies}

AllTraces == FmaTraces \cup PartTraces

\* A slow scalar uop, then three memory-source FMAs in an accumulation chain;
\* the first of them waits for its address.  The second and the third depend
\* on it through the accumulator.
ChainTraces ==
    {[parent |-> <<1, 2, 2, 3, 3, 4, 4>>,
      kind |-> <<"scalar", "load_data", "vector", "load_data", "vector",
                 "load_data", "vector">>,
      dependencies |-> <<{}, address, {2}, {}, {3, 4}, {}, {5, 6}>>,
      latency |-> <<4, 1, 2, 1, 2, 1, 2>>,
      occupancy |-> [u \in 1..7 |-> 1],
      interval |-> [u \in 1..7 |-> 1],
      class |-> <<"scalar", "load_data", "vector", "load_data", "vector",
                  "load_data", "vector">>,
      resources |-> <<{3}, {1}, {2}, {1}, {2}, {1}, {2}>>,
      demand |-> [u \in 1..7 |-> <<0>>],
      after |-> [u \in 1..7 |-> 0],
      gap |-> [u \in 1..7 |-> 0],
      compute |-> {3, 5, 7},
      ops |-> [m \in 0..4 |-> m],
      retireOps |-> <<1, 1, 1, 1>>,
      outOfOrder |-> TRUE, overlapLimit |-> TRUE] : address \in {{}, {1}}}

=============================================================================
