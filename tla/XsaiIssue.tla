----------------------------- MODULE XsaiIssue ------------------------------
(***************************************************************************)
(* The event loop and the issue side of backend/xsai.py (XsaiRvvEngine):   *)
(* completion, the release of vector memory flows, the issue fixed point   *)
(* with all its blockers, in-order retirement and the jump to the next     *)
(* event.  Vector epochs (the stretch from one vsetvli to the next) are    *)
(* classified once, from the trace.                                        *)
(*                                                                         *)
(* Uops are numbered in program order.  How macro-ops are admitted is left *)
(* to XsaiFrontEnd: here any number of them in Widths enters at a cycle    *)
(* boundary.  What a memory access costs is left to MemoryHierarchy: here  *)
(* it answers with any latency of the uop's access set, and an access may  *)
(* be refused until a tick the memory names.  A refusal lasts until then,  *)
(* as the hierarchy files arrived lines only when it is asked again.       *)
(***************************************************************************)
EXTENDS Integers, Sequences, FiniteSets, FiniteSetsExt

CONSTANTS
    Traces,         \* expanded traces: sequences of uops
    TicksPerCycle,  \* trace.ticks_per_cycle
    Lanes,          \* capacity of each resource
    Serves,         \* functional_units of each execution unit
    ReadDomain,     \* vector_read_domain of each unit, or NoDomain
    WriteDomain,    \* vector_writeback_domain of each unit, or NoDomain
    ReadCapacity,   \* arbitration_capacity of each read domain
    WriteCapacity,  \* arbitration_capacity of each writeback domain
    Tokens,         \* capacity of each issue domain
    Policies,       \* profiles: vector_memory_policy, xsai_vector_epoch_policy,
                    \* the memory/compute overlap limit and the execution model
    Widths,         \* how many macro-ops may enter at a cycle boundary
    RetireWidth,    \* pipeline.retire_macro_ops_per_cycle
    MemoryHold,     \* for how long an access makes the memory refuse each kind
    Horizon         \* the last tick followed; run() bounds its iterations

Never == -1         \* Python's None for a tick, and math.inf
NoUop == 0
NoUnit == 0
NoDomain == 0

Resource == DOMAIN Lanes
Unit == DOMAIN Serves
AccessKind == {"load", "store"}

\* A uop of a trace: vmem marks vector loads and stores, config a vsetvli,
\* reduce a vector reduction, compute a semantic kind the overlap limit counts;
\* state are its vector_state_dependencies, access the latencies the memory may
\* answer with, units the units of its scheduler partition.
ValidUop(t, u) ==
    /\ t[u].macro \in Nat \ {0} /\ t[u].kind \in AccessKind \cup {"vector", "scalar"}
    /\ t[u].deps \subseteq 1..(u - 1) /\ t[u].state \subseteq t[u].deps
    /\ t[u].after \in 0..(u - 1)
    /\ {t[u].latency, t[u].occupancy, t[u].interval, t[u].gap, t[u].bytes, t[u].address} \subseteq Nat
    /\ t[u].access \subseteq Nat
    /\ t[u].resources \in (SUBSET Resource) \ {{}}
    /\ t[u].units \subseteq Unit
    /\ \A x \in t[u].units : Serves[x] \cap t[u].resources # {}
    /\ \A d \in DOMAIN Tokens : t[u].demand[d] \in 0..Tokens[d]
    /\ t[u].vmem => t[u].kind \in AccessKind
ASSUME TraceAssumption ==
    \A t \in Traces : \A u \in DOMAIN t :
        ValidUop(t, u) /\ (u > 1 => t[u].macro - t[u-1].macro \in 0..1)
ASSUME TopologyAssumption ==
    /\ Resource \subseteq Nat /\ Unit \subseteq Nat \ {0}
    /\ \A r \in Resource : Lanes[r] \in Nat \ {0}
    /\ IsFiniteSet(DOMAIN Tokens) /\ \A d \in DOMAIN Tokens : Tokens[d] \in Nat
    /\ \A x \in Unit : /\ ReadDomain[x] \in DOMAIN ReadCapacity \cup {NoDomain}
                       /\ WriteDomain[x] \in DOMAIN WriteCapacity \cup {NoDomain}
    /\ \A d \in DOMAIN ReadCapacity : ReadCapacity[d] \in Nat \ {0}
    /\ \A d \in DOMAIN WriteCapacity : WriteCapacity[d] \in Nat \ {0}
ASSUME PolicyAssumption == \A p \in Policies :
    /\ {p.loadVisibility, p.multiLoadDrain, p.chainedDrain, p.reductionOverlap,
        p.storeCompletion, p.mixedCapacity, p.split.maxFlows} \subseteq Nat
    /\ \A k \in AccessKind : /\ {p.service[k], p.capacity[k], p.split.ticks} \subseteq Nat \cup {Never}
                             /\ {p.split.boundary, p.split.lanes[k]} \subseteq Nat \ {0}
ASSUME WidthAssumption ==
    /\ Widths \subseteq Nat \ {0} /\ RetireWidth \in Nat \ {0}
    /\ TicksPerCycle \in Nat \ {0} /\ Horizon \in Nat
ASSUME MemoryAssumption == MemoryHold \subseteq [AccessKind -> Nat]

VARIABLES
    pc,             \* where run() is in its loop body
    trace,          \* self.trace, never changed
    policy,         \* self.profile, as far as it varies, never changed
    epochs,         \* vector_epoch_close, ..._load_visibility, mixed_..._by_config
    now,            \* the local now of run()
    sent,           \* macro-ops dispatched (next_dispatch)
    left,           \* macro-ops retired; the ROB is what lies between
    width,          \* macro-ops dispatched or retired in this cycle
    at,             \* the last candidate _issue_once issued
    progressed,     \* changed or issued in this round of the fixed point
    issueTick,      \* uop.issue_tick
    doneTick,       \* uop.complete_tick
    latency,        \* uop.latency_ticks
    placed,         \* <<resource, lane, unit>> of an issued uop
    laneFree,       \* resource_free
    unitFree,       \* execution_unit_free
    tokenFree,      \* issue_domain_free
    lastIssue,      \* last_class_issue
    memoryFree,     \* until when the memory refuses loads and stores
    splitFree,      \* vector_memory_split_issue_free
    inflight,       \* vector_memory_inflight, loads and stores
    serving,        \* the uops in vector_memory_service_heap
    active,         \* mixed_epoch_active
    pendingGroups,  \* pending_memory_compute_groups
    reads, writes   \* vector_read_ and completion_domain_reservations

setup == <<trace, policy, epochs>>
place == <<issueTick, latency, placed, laneFree, unitFree, tokenFree, lastIssue, memoryFree>>
memory == <<splitFree, serving>>
ports == <<reads, writes>>
vars == <<pc, setup, now, sent, left, width, at, progressed, doneTick, place,
          memory, inflight, active, pendingGroups, ports>>

-----------------------------------------------------------------------------
\* The trace.

Soonest(ticks) == IF ticks = {} THEN Never ELSE Min(ticks)
Uop == DOMAIN trace
NumMacros == trace[Len(trace)].macro
UopsOf(m) == {u \in Uop : trace[u].macro = m}

Issued(u) == issueTick[u] # Never
Completed(u) == doneTick[u] # Never
Finish(u) == issueTick[u] + latency[u]
Waiting == {u \in Uop : trace[u].macro <= sent /\ ~Issued(u)}
MacroDone(m) == \A u \in UopsOf(m) : Completed(u)

OnBoundary == now % TicksPerCycle = 0
Cycle(tick) == tick \div TicksPerCycle
NextBoundary(tick) == (Cycle(tick) + 1) * TicksPerCycle

-----------------------------------------------------------------------------
(***************************************************************************)
(* Vector epochs, from the trace alone: _build_vector_epoch_constraints.   *)
(***************************************************************************)
IsCompute(t, u) == t[u].kind = "vector"
IsVectorLoad(t, u) == t[u].vmem /\ t[u].kind = "load"

\* The first uop of each vector configuration.
Configs(t) ==
    {u \in DOMAIN t : /\ t[u].config
                      /\ \A v \in 1..(u - 1) : ~(t[v].config /\ t[v].macro = t[u].macro)}
\* The uops from a configuration to the next one.
Body(t, c) == {u \in DOMAIN t : u > c /\ \A d \in Configs(t) : d > c => u < d}

IsComputedStore(t, u) ==
    /\ t[u].vmem /\ t[u].kind = "store"
    /\ \E v \in t[u].deps : t[v].macro # t[u].macro /\ IsCompute(t, v)

ReductionTerminal(t, body, reductions) ==
    LET trailing == {u \in body : u >= Max(reductions) /\ IsCompute(t, u)}
    IN  IF trailing = {} THEN Max(reductions) ELSE Max(trailing)

\* What a store depends on inside its epoch, directly or not.
Ancestors(t, body, store) ==
    LET up[u \in DOMAIN t] == UNION {{v} \cup up[v] : v \in t[u].deps \cap body}
    IN  up[store]
LoadAncestors(t, body, store) ==
    LET parents == {t[u].macro : u \in {v \in body : IsVectorLoad(t, v)}}
    IN  {t[u].macro : u \in Ancestors(t, body, store)} \cap parents
ComputeAncestors(t, body, store) ==
    LET parents == {t[u].macro : u \in {v \in DOMAIN t : t[v].vmem}}
    IN  {t[u].macro : u \in {v \in Ancestors(t, body, store) : IsCompute(t, v)}} \ parents

\* How the epoch of configuration c ends: the uop the next configuration waits
\* for and the ticks added to its completion, or for a mixed epoch its terminal.
Ending(t, c) ==
    LET body == Body(t, c)
        loads == {u \in body : IsVectorLoad(t, u)}
        stores == {u \in body : IsComputedStore(t, u)}
        reductions == {u \in body : t[u].reduce}
        close(u, o) == [kind |-> "close", uop |-> u, offset |-> o]
    IN  IF stores # {} /\ reductions # {}
        THEN [kind |-> "mixed", uop |-> ReductionTerminal(t, body, reductions), offset |-> 0]
        ELSE IF stores # {}
        THEN close(Max(stores),
                   IF Cardinality(LoadAncestors(t, body, Max(stores))) >= 2
                   THEN policy.multiLoadDrain
                   ELSE IF Cardinality(ComputeAncestors(t, body, Max(stores))) >= 2
                   THEN policy.chainedDrain ELSE 0)
        ELSE IF reductions # {}
        THEN close(ReductionTerminal(t, body, reductions),
                   IF Cardinality({t[u].macro : u \in reductions}) >= 2
                   THEN -policy.reductionOverlap ELSE 0)
        ELSE IF loads # {} THEN [close(Max(loads), 0) EXCEPT !.kind = "loads"]
        ELSE [kind |-> "none", uop |-> NoUop, offset |-> 0]

Previous(t, c) == Max({d \in Configs(t) : d < c})
Epochs(t) ==
    LET configs == IF policy.epochs THEN Configs(t) ELSE {}
        ends(c) == Ending(t, c).kind
        closed == {c \in configs : /\ \E d \in configs : d < c
                                   /\ ends(Previous(t, c)) \in {"close", "loads"}}
    IN  [close  |-> [c \in closed |-> Ending(t, Previous(t, c))],
         loads  |-> UNION {{u \in Body(t, c) : IsVectorLoad(t, u)} :
                              c \in {d \in configs : ends(d) = "loads"}},
         mixed  |-> [c \in {d \in configs : ends(d) = "mixed"} |-> Ending(t, c).uop]]

\* _discover_memory_compute_groups: the compute uops of a macro-op that depend
\* on its own loads.
Group(m) ==
    LET loads == {u \in UopsOf(m) : trace[u].kind = "load"}
    IN  {u \in UopsOf(m) :
            /\ trace[u].compute
            /\ Ancestors(trace, UopsOf(m), u) \cap loads # {}}

-----------------------------------------------------------------------------
(***************************************************************************)
(* What keeps a uop from issuing at tick t, and the earliest tick at which *)
(* that reason may be gone: _issue_blocker.                                *)
(***************************************************************************)
Blocked(why, tick) == [why |-> why, at |-> tick]
Clear == Blocked("none", Never)
FinishKnown(uops) == {Finish(u) : u \in {v \in uops : Issued(v)}}
Incomplete(u) == {v \in trace[u].deps : ~Completed(v)}

StateSeen(u) == Max({doneTick[v] : v \in trace[u].state}) + policy.loadVisibility
CloseTick(c) ==
    LET end == epochs.close[c]
    IN  IF Issued(end.uop) THEN Finish(end.uop) + end.offset ELSE Never
EpochBlocker(u, t) ==
    IF u \in epochs.loads /\ trace[u].state # {} /\ StateSeen(u) > t
    THEN Blocked("load_visibility", StateSeen(u))
    ELSE IF u \in DOMAIN epochs.close /\ (CloseTick(u) = Never \/ CloseTick(u) > t)
    THEN Blocked("epoch_completion", CloseTick(u))
    ELSE IF u \in DOMAIN epochs.mixed /\ Cardinality(active) >= policy.mixedCapacity
    THEN Blocked("mixed_epoch_capacity", Soonest(FinishKnown(active)))
    ELSE Clear

OverlapBlocked(u) ==
    /\ policy.maxPendingGroups # Never
    /\ trace[u].kind = "load"
    /\ Group(trace[u].macro) # {}
    /\ trace[u].macro \notin pendingGroups
    /\ Cardinality(pendingGroups) >= policy.maxPendingGroups

OfKind(uops, kind) == {u \in uops : trace[u].kind = kind}
\* When the flow token of an issued vector access comes back: by its own timer,
\* or, in profiles without service_cycles, when the access completes.
ReleaseTick(u) ==
    IF policy.service[trace[u].kind] = Never THEN Finish(u)
    ELSE issueTick[u] + policy.service[trace[u].kind]
SplitTick(kind) == Min({splitFree[kind][l] : l \in DOMAIN splitFree[kind]})
OlderReady(u) ==
    {v \in Waiting : /\ v < u /\ trace[v].vmem
                     /\ (policy.order = "oldest" \/ trace[v].kind = trace[u].kind)
                     /\ Incomplete(v) = {}}
VectorMemoryBlocker(u, t) ==
    LET kind == trace[u].kind
        held == OfKind(inflight, kind)
        release == Min({ReleaseTick(v) : v \in held})
    IN  IF policy.split.ticks # Never /\ SplitTick(kind) > t
        THEN Blocked("split_issue_busy", SplitTick(kind))
        ELSE IF policy.capacity[kind] # Never /\ Cardinality(held) >= policy.capacity[kind]
        THEN Blocked("service_busy", IF release <= t THEN NextBoundary(t) ELSE release)
        ELSE IF policy.order # "any" /\ OlderReady(u) # {}
        THEN Blocked("order", Never)
        ELSE Clear

\* The demand-th token of domain d to be free.
TokenTick(u, d) ==
    LET ticks == {tokenFree[d][i] : i \in 1..Tokens[d]}
        free(tick) == Cardinality({i \in 1..Tokens[d] : tokenFree[d][i] <= tick})
    IN  Min({tick \in ticks : free(tick) >= trace[u].demand[d]})
DomainsOf(u) == {d \in DOMAIN Tokens : trace[u].demand[d] > 0}

LaneTick(r) == Min({laneFree[r][l] : l \in 1..Lanes[r]})
UnitChoices(u) == IF trace[u].units = {} THEN {NoUnit} ELSE trace[u].units
\* _execution_candidates: <<free tick, resource, lane, unit>>.
FreePaths(u, t) ==
    {c \in UNION {{<<laneFree[r][l], r, l, x>> : l \in 1..Lanes[r], x \in UnitChoices(u)} :
                     r \in trace[u].resources} :
        /\ c[1] <= t
        /\ c[4] # NoUnit => c[2] \in Serves[c[4]] /\ unitFree[c[4]] <= t}
ReadOf(u, x) == IF trace[u].reads /\ x # NoUnit THEN ReadDomain[x] ELSE NoDomain
WriteOf(u, x) == IF trace[u].completes /\ x # NoUnit THEN WriteDomain[x] ELSE NoDomain
\* A domain's Counter of the slots reserved per cycle, 0 where none was.
Slot(d, tick) == <<d, Cycle(tick)>>
Reserved(slots, s) == IF s \in DOMAIN slots THEN slots[s] ELSE 0
ReadFree(d, tick) == Reserved(reads, Slot(d, tick)) < ReadCapacity[d]
WriteFree(d, tick) == Reserved(writes, Slot(d, tick)) < WriteCapacity[d]
Readable(u, t) ==
    {c \in FreePaths(u, t) :
        ReadOf(u, c[4]) # NoDomain => ReadFree(ReadOf(u, c[4]), t)}
Paths(u, t) ==
    {c \in Readable(u, t) :
        WriteOf(u, c[4]) # NoDomain => WriteFree(WriteOf(u, c[4]), t + latency[u])}

\* _next_execution_ready_tick
UnitReadyTick(u, t) ==
    LET pair(r, x) ==
            IF x = NoUnit THEN LaneTick(r) ELSE Max({LaneTick(r), unitFree[x]})
        later == {k \in UNION {{pair(r, x) : x \in {y \in UnitChoices(u) :
                                   y # NoUnit => r \in Serves[y]}} :
                                   r \in trace[u].resources} : k > t}
    IN  IF later = {} THEN t + 1 ELSE Min(later)

PortBlocker(u, t) ==
    IF FreePaths(u, t) = {} THEN Blocked("execution_unit_busy", UnitReadyTick(u, t))
    ELSE IF Readable(u, t) = {} THEN Blocked("read_domain_busy", NextBoundary(t))
    ELSE IF Paths(u, t) = {} THEN Blocked("completion_domain_busy", NextBoundary(t))
    ELSE Clear

\* The reasons in the order in which _issue_blocker tests them.  A dependency
\* that has completed has done so by now, so there is no later ready tick.
SpacedTick(u) == lastIssue[trace[u].class] + trace[u].interval
ResourceTick(u) == Min({LaneTick(r) : r \in trace[u].resources})
UnitTick(u) == Min({unitFree[x] : x \in trace[u].units})
MemoryRefuses(u, t) == trace[u].kind \in AccessKind /\ memoryFree[trace[u].kind] > t
DomainTick(u) == Max({TokenTick(u, d) : d \in DomainsOf(u)})
Blocker(u, t) ==
    LET uop == trace[u]
        epoch == EpochBlocker(u, t)
        vector == VectorMemoryBlocker(u, t)
    IN  IF Incomplete(u) # {}
        THEN Blocked("dependency", Soonest(FinishKnown(Incomplete(u))))
        ELSE IF epoch # Clear THEN epoch
        ELSE IF uop.after # NoUop /\ ~Issued(uop.after)
        THEN Blocked("part_order", Never)
        ELSE IF uop.after # NoUop /\ issueTick[uop.after] + uop.gap > t
        THEN Blocked("part_gap", issueTick[uop.after] + uop.gap)
        ELSE IF OverlapBlocked(u) THEN Blocked("overlap_limit", Never)
        ELSE IF lastIssue[uop.class] # Never /\ SpacedTick(u) > t
        THEN Blocked("issue_interval", SpacedTick(u))
        ELSE IF ResourceTick(u) > t THEN Blocked("resource_busy", ResourceTick(u))
        ELSE IF uop.units # {} /\ UnitTick(u) > t
        THEN Blocked("execution_unit_busy", UnitTick(u))
        ELSE IF uop.vmem /\ vector # Clear THEN vector
        ELSE IF MemoryRefuses(u, t) THEN Blocked("memory", memoryFree[uop.kind])
        ELSE IF DomainsOf(u) # {} /\ DomainTick(u) > t
        THEN Blocked("issue_domain_busy", DomainTick(u))
        ELSE PortBlocker(u, t)
Issuable(u, t) == Blocker(u, t).why = "none"

\* _issue_candidates; in order, the oldest uop without an issue tick, if it has
\* been dispatched.
Candidates ==
    IF ~policy.inOrder THEN Waiting
    ELSE {u \in Waiting : \A v \in 1..(u - 1) : Issued(v)}
\* What is left of the list _issue_once goes through; in order it has one entry.
Listed == IF policy.inOrder /\ at # NoUop THEN {} ELSE {u \in Candidates : u > at}

-----------------------------------------------------------------------------
(***************************************************************************)
(* The effects of an issue.                                                *)
(***************************************************************************)
\* _select_execution: the least candidate.
Precedes(a, b) == \E i \in 1..4 : a[i] < b[i] /\ \A j \in 1..(i - 1) : a[j] = b[j]
Choice(u) ==
    CHOOSE c \in Paths(u, now) : \A d \in Paths(u, now) : d = c \/ Precedes(c, d)

\* _vector_memory_flow_count
FlowCount(u) ==
    IF trace[u].bytes = 0 THEN 1
    ELSE LET covered == (trace[u].address % policy.split.boundary) + trace[u].bytes
         IN  Min({(covered + policy.split.boundary - 1) \div policy.split.boundary,
                  policy.split.maxFlows})

Answers(u) == IF trace[u].kind \in AccessKind THEN trace[u].access ELSE {0}
\* Its bandwidth and its misses keep others out, and a line it fetches lets in those
\* that wait for it: after an access either kind may be refused, or no longer.
MemoryAfter(u) ==
    IF trace[u].kind \in AccessKind
    THEN {[k \in AccessKind |-> now + hold[k]] : hold \in MemoryHold}
    ELSE {memoryFree}
AccessLatency(u, answer) ==
    Max({latency[u], answer,
         IF trace[u].vmem /\ trace[u].kind = "store" THEN policy.storeCompletion ELSE 0})

\* _reserve_completion_domain: a result that finds its cycle full is visible at
\* the start of the first later cycle that has room.
MutantReserve(d, tick) == tick
Reserve(d, tick) ==
    IF d = NoDomain \/ WriteFree(d, tick) THEN tick
    ELSE LET later == {k \in 1..(Len(trace) + 1) :
                          WriteFree(d, (Cycle(tick) + k) * TicksPerCycle)}
         IN  (Cycle(tick) + Min(later)) * TicksPerCycle
Take(slots, d, tick) ==
    IF d = NoDomain THEN slots
    ELSE [s \in DOMAIN slots \cup {Slot(d, tick)} |->
            IF s = Slot(d, tick) THEN Reserved(slots, s) + 1 ELSE slots[s]]

OpenEpoch(u) ==
    active' = active \cup (IF u \in DOMAIN epochs.mixed THEN {epochs.mixed[u]} ELSE {})

Occupy(u, c) ==
    /\ laneFree' = [laneFree EXCEPT ![c[2]][c[3]] = now + trace[u].occupancy]
    /\ unitFree' = IF c[4] = NoUnit THEN unitFree
                   ELSE [unitFree EXCEPT ![c[4]] = now + trace[u].occupancy]

\* _reserve_issue_domains: the demanded number of tokens, the first to be free.
ReserveIssueDomains(u) ==
    LET earlier(d, i, j) == \/ tokenFree[d][i] < tokenFree[d][j]
                            \/ tokenFree[d][i] = tokenFree[d][j] /\ i < j
        rank(d, j) == Cardinality({i \in 1..Tokens[d] : earlier(d, i, j)})
    IN  tokenFree' = [d \in DOMAIN Tokens |-> [j \in 1..Tokens[d] |->
            IF rank(d, j) < trace[u].demand[d] THEN now + trace[u].occupancy
            ELSE tokenFree[d][j]]]

EnterVectorMemory(u) ==
    LET kind == trace[u].kind
        lane == CHOOSE l \in DOMAIN splitFree[kind] :
                    /\ splitFree[kind][l] = SplitTick(kind)
                    /\ \A k \in 1..(l - 1) : splitFree[kind][k] > SplitTick(kind)
    IN  IF ~trace[u].vmem THEN UNCHANGED <<inflight, serving, splitFree>>
        ELSE /\ inflight' = inflight \cup (IF policy.service[kind] = 0 THEN {} ELSE {u})
             /\ serving' = serving \cup (IF policy.service[kind] > 0 THEN {u} ELSE {})
             /\ splitFree' = IF policy.split.ticks = Never THEN splitFree
                             ELSE [splitFree EXCEPT ![kind][lane] =
                                      now + FlowCount(u) * policy.split.ticks]

\* _update_memory_compute_groups_after_issue
UpdateGroups(u) ==
    LET m == trace[u].macro
        added == IF trace[u].kind = "load" THEN {m} ELSE {}
        removed == IF u \in Group(m) /\ \A v \in Group(m) \ {u} : Issued(v)
                   THEN {m} ELSE {}
    IN  pendingGroups' = IF policy.maxPendingGroups = Never \/ Group(m) = {}
                         THEN pendingGroups ELSE (pendingGroups \cup added) \ removed

-----------------------------------------------------------------------------
\* The steps of run().

Init ==
    /\ trace \in Traces /\ policy \in Policies
    /\ epochs = Epochs(trace)
    /\ pc = "begin" /\ now = 0 /\ sent = 0 /\ left = 0 /\ width = 0
    /\ at = NoUop /\ progressed = FALSE
    /\ issueTick = [u \in Uop |-> Never]
    /\ doneTick = [u \in Uop |-> Never]
    /\ latency = [u \in Uop |-> trace[u].latency]
    /\ placed = [u \in Uop |-> <<>>]
    /\ laneFree = [r \in Resource |-> [l \in 1..Lanes[r] |-> 0]]
    /\ unitFree = [x \in Unit |-> 0]
    /\ tokenFree = [d \in DOMAIN Tokens |-> [i \in 1..Tokens[d] |-> 0]]
    /\ lastIssue = [c \in {trace[u].class : u \in Uop} |-> Never]
    /\ memoryFree = [k \in AccessKind |-> 0]
    /\ splitFree = [k \in AccessKind |-> [l \in 1..policy.split.lanes[k] |-> 0]]
    /\ inflight = {} /\ serving = {} /\ active = {} /\ pendingGroups = {}
    /\ reads = <<>> /\ writes = <<>>

Due == {u \in Uop : Issued(u) /\ ~Completed(u) /\ Finish(u) <= now}

\* One entry of the completion heap, in heap order (_complete).
MutantKeepsEpoch(u) ==
    /\ pc \in {"begin", "settle"} /\ u \in Due
    /\ \A v \in Due : Finish(u) < Finish(v) \/ (Finish(u) = Finish(v) /\ u <= v)
    /\ doneTick' = [doneTick EXCEPT ![u] = Finish(u)]
    /\ inflight' = IF trace[u].vmem /\ policy.service[trace[u].kind] = Never
                   THEN inflight \ {u} ELSE inflight
    /\ progressed' = (pc = "settle" \/ progressed)
    /\ UNCHANGED <<pc, setup, now, sent, left, width, at, place, memory,
                   active, pendingGroups, ports>>
Complete(u) ==
    /\ pc \in {"begin", "settle"} /\ u \in Due
    /\ \A v \in Due : Finish(u) < Finish(v) \/ (Finish(u) = Finish(v) /\ u <= v)
    /\ doneTick' = [doneTick EXCEPT ![u] = Finish(u)]
    /\ active' = active \ {u}
    /\ inflight' = IF trace[u].vmem /\ policy.service[trace[u].kind] = Never
                   THEN inflight \ {u} ELSE inflight
    /\ progressed' = (pc = "settle" \/ progressed)
    /\ UNCHANGED <<pc, setup, now, sent, left, width, at, place, memory,
                   pendingGroups, ports>>

\* _release_vector_memory_flows
MutantReleaseFlows ==
    /\ pc = "begin" /\ Due = {}
    /\ serving' = {u \in serving : ReleaseTick(u) > now} /\ inflight' = inflight
    /\ pc' = IF OnBoundary THEN "dispatch" ELSE "settle"
    /\ UNCHANGED <<setup, now, sent, left, width, at, progressed, doneTick, place,
                   splitFree, active, pendingGroups, ports>>
ReleaseFlows ==
    /\ pc = "begin" /\ Due = {}
    /\ LET expired == {u \in serving : ReleaseTick(u) <= now}
       IN  serving' = serving \ expired /\ inflight' = inflight \ expired
    /\ pc' = IF OnBoundary THEN "dispatch" ELSE "settle"
    /\ UNCHANGED <<setup, now, sent, left, width, at, progressed, doneTick, place,
                   splitFree, active, pendingGroups, ports>>

\* The next macro-op enters with all its uops; XsaiFrontEnd says when it may.
Dispatch ==
    /\ pc = "dispatch" /\ sent < NumMacros /\ width < Max(Widths)
    /\ sent' = sent + 1 /\ width' = width + 1
    /\ UNCHANGED <<pc, setup, now, left, at, progressed, doneTick, place, memory,
                   inflight, active, pendingGroups, ports>>
DispatchEnds ==
    /\ pc = "dispatch" /\ (width \in Widths \/ sent = NumMacros)
    /\ pc' = "settle" /\ width' = 0
    /\ UNCHANGED <<setup, now, sent, left, at, progressed, doneTick, place, memory,
                   inflight, active, pendingGroups, ports>>

\* _issue_once takes its list of candidates.
List ==
    /\ pc = "settle" /\ Due = {}
    /\ pc' = "scan" /\ at' = NoUop
    /\ UNCHANGED <<setup, now, sent, left, width, progressed, doneTick, place, memory,
                   inflight, active, pendingGroups, ports>>

Issue(u) ==
    /\ pc = "scan" /\ u \in Listed /\ Issuable(u, now)
    /\ \A v \in Listed : v < u => ~Issuable(v, now)
    /\ \E answer \in Answers(u) :
          LET c == Choice(u)
              due == now + AccessLatency(u, answer)
              finish == Reserve(WriteOf(u, c[4]), due)
          IN  /\ issueTick' = [issueTick EXCEPT ![u] = now]
              /\ latency' = [latency EXCEPT ![u] = finish - now]
              /\ placed' = [placed EXCEPT ![u] = <<c[2], c[3], c[4]>>]
              /\ Occupy(u, c)
              /\ reads' = Take(reads, ReadOf(u, c[4]), now)
              /\ writes' = Take(writes, WriteOf(u, c[4]), finish)
    /\ lastIssue' = [lastIssue EXCEPT ![trace[u].class] = now]
    /\ memoryFree' \in MemoryAfter(u)
    /\ ReserveIssueDomains(u)
    /\ OpenEpoch(u)
    /\ EnterVectorMemory(u)
    /\ UpdateGroups(u)
    /\ at' = u /\ progressed' = TRUE
    /\ UNCHANGED <<pc, setup, now, sent, left, width, doneTick>>

\* The round ends; _issue_fixed_point makes another one if anything changed.
\* Nothing is due then, so run()'s last _complete does nothing.
Round ==
    /\ pc = "scan" /\ \A u \in Listed : ~Issuable(u, now)
    /\ pc' = IF progressed THEN "settle" ELSE IF OnBoundary THEN "retire" ELSE "advance"
    /\ progressed' = FALSE /\ at' = NoUop
    /\ UNCHANGED <<setup, now, sent, left, width, doneTick, place, memory,
                   inflight, active, pendingGroups, ports>>

MutantRetiresUnfinished == left < sent /\ width < RetireWidth
CanRetire == left < sent /\ width < RetireWidth /\ MacroDone(left + 1)
Retire ==
    /\ pc = "retire" /\ CanRetire
    /\ left' = left + 1 /\ width' = width + 1
    /\ UNCHANGED <<pc, setup, now, sent, at, progressed, doneTick, place, memory,
                   inflight, active, pendingGroups, ports>>
RetireEnds ==
    /\ pc = "retire" /\ ~CanRetire
    /\ pc' = IF left = NumMacros THEN "done" ELSE "advance"
    /\ width' = 0
    /\ UNCHANGED <<setup, now, sent, left, at, progressed, doneTick, place, memory,
                   inflight, active, pendingGroups, ports>>

\* _next_event_tick
MutantWakeUps(u) ==
    {LaneTick(r) : r \in trace[u].resources} \cup {TokenTick(u, d) : d \in DomainsOf(u)}
        \cup (IF lastIssue[trace[u].class] = Never THEN {} ELSE {SpacedTick(u)})
WakeUps(u) ==
    {Blocker(u, now).at} \cup {LaneTick(r) : r \in trace[u].resources}
        \cup {TokenTick(u, d) : d \in DomainsOf(u)}
        \cup (IF lastIssue[trace[u].class] = Never THEN {} ELSE {SpacedTick(u)})
EventTicks ==
    {tick \in {Finish(u) : u \in {v \in Uop : Issued(v) /\ ~Completed(v)}}
                 \cup {ReleaseTick(u) : u \in serving}
                 \cup {NextBoundary(now)}
                 \cup UNION {WakeUps(u) : u \in Candidates} : tick > now}
\* run() raises unless time moves forward, or after its bound of iterations.
Advance ==
    /\ pc = "advance"
    /\ \E tick \in EventTicks :
          /\ \A event \in EventTicks : tick <= event
          /\ IF tick \in (now + 1)..Horizon THEN now' = tick /\ pc' = "begin"
             ELSE now' = now /\ pc' = "diverged"
    /\ UNCHANGED <<setup, sent, left, width, at, progressed, doneTick, place, memory,
                   inflight, active, pendingGroups, ports>>

Stopped == pc \in {"done", "diverged"} /\ UNCHANGED vars

Next ==
    \/ \E u \in Uop : Complete(u) \/ Issue(u)
    \/ Dispatch \/ DispatchEnds \/ ReleaseFlows \/ List \/ Round \/ Retire \/ RetireEnds \/ Advance
    \/ Stopped

Spec == Init /\ [][Next]_vars
\* run() is a sequential loop: it takes its next step as long as it has one.
FairSpec == Spec /\ WF_vars(Next)

-----------------------------------------------------------------------------
(***************************************************************************)
(* Properties.                                                             *)
(***************************************************************************)
IssuedUops == {u \in Uop : Issued(u)}

\* The loop's place, its counters and its heaps are what run() can hold: no
\* macro-op retires before it entered, a uop completes only after it issued, and
\* tokens are held by issued vector accesses and terminals only.
TypeOK ==
    /\ pc \in {"begin", "dispatch", "settle", "scan", "retire", "advance", "done", "diverged"}
    /\ trace \in Traces /\ now \in 0..Horizon
    /\ sent \in 0..NumMacros /\ left \in 0..sent /\ width \in Nat
    /\ at \in Uop \cup {NoUop} /\ progressed \in BOOLEAN
    /\ \A u \in Uop : /\ issueTick[u] \in Never..now /\ doneTick[u] \in Never..now
                      /\ Completed(u) => Issued(u) /\ doneTick[u] = Finish(u)
                      /\ Issued(u) => trace[u].macro <= sent
    /\ serving \subseteq inflight /\ inflight \subseteq IssuedUops
    /\ reads \in [DOMAIN reads -> Nat \ {0}] /\ writes \in [DOMAIN writes -> Nat \ {0}]

\* Vector register read ports are arbitrated per cycle: however issue is spread
\* over the ticks of a cycle and over units of one domain, no more uops read
\* through a domain in a cycle than it has ports.
ReadPortsBounded ==
    \A v \in IssuedUops :
        LET d == ReadOf(v, placed[v][3])
        IN  d # NoDomain =>
                Cardinality({u \in IssuedUops : /\ ReadOf(u, placed[u][3]) = d
                                                /\ Cycle(issueTick[u]) = Cycle(issueTick[v])})
                    <= ReadCapacity[d]

\* Writeback slots are reserved at issue for a tick in the future, and memory
\* latencies are only known after the check: still no more results reach a
\* writeback domain in one cycle than it takes.
WritebackBounded ==
    \A v \in IssuedUops :
        LET d == WriteOf(v, placed[v][3])
        IN  d # NoDomain =>
                Cardinality({u \in IssuedUops : /\ WriteOf(u, placed[u][3]) = d
                                                /\ Cycle(Finish(u)) = Cycle(Finish(v))})
                    <= WriteCapacity[d]

\* A lane and an execution unit serve one uop at a time, also a unit that several
\* resources reach.
Exclusive ==
    \A u, v \in IssuedUops :
        (/\ u # v /\ trace[u].occupancy > 0 /\ trace[v].occupancy > 0
         /\ issueTick[v] \in issueTick[u]..(issueTick[u] + trace[u].occupancy - 1))
            => /\ placed[u][1] # placed[v][1] \/ placed[u][2] # placed[v][2]
               /\ placed[u][3] = NoUnit \/ placed[u][3] # placed[v][3]

\* The flow tokens of vector loads and stores are held exactly from issue to the
\* end of their service, which is neither their occupancy nor their completion,
\* and never more of them than the service capacity.
FlowsExact ==
    /\ pc # "begin" =>
          inflight = {u \in IssuedUops :
              /\ trace[u].vmem
              /\ IF policy.service[trace[u].kind] = Never THEN ~Completed(u)
                 ELSE ReleaseTick(u) > now}
    /\ \A k \in AccessKind :
          policy.capacity[k] # Never => Cardinality(OfKind(inflight, k)) <= policy.capacity[k]

\* A vector epoch is closed for the next one: what reads the vector state of a
\* configuration issues only after the uop that ends the epoch before has issued,
\* and not before that uop's completion shifted by the drain or overlap ticks.
EpochOrder ==
    \A c \in DOMAIN epochs.close : \A u \in IssuedUops :
        c \in trace[u].state \cup {u} =>
            LET end == epochs.close[c]
            IN  Issued(end.uop) /\ issueTick[u] >= Finish(end.uop) + end.offset

\* An epoch that both stores and reduces counts as active from the issue of its
\* configuration to the completion of its terminal, and no more of them are
\* active than the capacity.
MixedExact ==
    /\ active = {epochs.mixed[c] : c \in
                    {d \in DOMAIN epochs.mixed : Issued(d) /\ ~Completed(epochs.mixed[d])}}
    /\ Cardinality(active) <= policy.mixedCapacity

\* Under issue_order "oldest" ("oldest_same_kind") a vector access overtakes an
\* older one (of its kind) only if that one still lacked an operand.
OldestFirst ==
    policy.order # "any" =>
        \A v \in IssuedUops : \A u \in 1..(v - 1) :
            (/\ trace[u].vmem /\ trace[v].vmem
             /\ policy.order = "oldest" \/ trace[u].kind = trace[v].kind
             /\ ~Issued(u) \/ issueTick[u] > issueTick[v])
                => \E w \in trace[u].deps : ~Completed(w) \/ doneTick[w] >= issueTick[v]

\* Ports, lanes, units, epochs and age order are respected by every issue,
\* whatever was reserved ahead of it.
IssueRespectful ==
    TypeOK /\ ReadPortsBounded /\ WritebackBounded /\ Exclusive /\ EpochOrder /\ OldestFirst

\* The uop that ends a mixed epoch depends on the configuration of the epoch, as
\* a reduction does; _reduction_terminal may also choose one that does not.
TerminalsFollow == \A c \in DOMAIN epochs.mixed : c \in trace[epochs.mixed[c]].deps

\* What vector accesses and epochs hold is given back exactly when it is due, for
\* epochs only if none can end before its configuration issues.
HoldingsExact == FlowsExact /\ (TerminalsFollow => MixedExact)

\* The loop is never left with nothing in flight and no uop that time alone could
\* release, that is, in a state in which run() only counts iterations.
NeverSpins ==
    ~(/\ pc = "advance" /\ sent = NumMacros /\ ~MacroDone(left + 1)
      /\ \A u \in IssuedUops : Completed(u)
      /\ serving = {}
      /\ \A u \in Candidates : Blocker(u, now).at = Never)

\* What u waits for, apart from free places: producers, the part before it, the end
\* of the epoch before, and what the accesses that it may not overtake wait for.
Awaited(u) ==
    LET ahead == IF trace[u].vmem /\ policy.order # "any"
                 THEN {v \in 1..(u - 1) : trace[v].vmem} ELSE {}
    IN  trace[u].deps
            \cup ({trace[v].after : v \in ahead \cup {u}} \ {NoUop})
            \cup {epochs.close[c].uop : c \in DOMAIN epochs.close \cap {u}}
Behind(u) ==
    LET behind[v \in Uop] == UNION {{w} \cup behind[w] : w \in Awaited(v)}
    IN  behind[u]

\* The two kinds of places that a younger uop may take before an older one come
\* back without the older one: those of mixed epochs, because no epoch waits for
\* an earlier one or there is room for all, and those of pending groups, because
\* a group waits for nothing but what its one load has waited for.
PlacesReturn ==
    /\ TerminalsFollow
    /\ \/ Cardinality(DOMAIN epochs.mixed) <= policy.mixedCapacity
       \/ \A c, d \in DOMAIN epochs.mixed : c < d => c \notin Behind(epochs.mixed[d])
    /\ policy.maxPendingGroups # Never =>
          \A m \in 1..NumMacros : \A u \in Group(m) : \E l \in UopsOf(m) :
              /\ OfKind(UopsOf(m), "load") = {l}
              /\ Behind(u) \subseteq Group(m) \cup {l} \cup Behind(l)

\* A trace whose places return runs to its end: run() does not report that it does
\* not converge, and every uop has issued, which the tests expect of any program.
Terminates == PlacesReturn => <>(pc = "done")

\* Time never jumps over a tick at which a waiting uop could have issued: whatever
\* kept it back has given a tick to wake up at.  Only a uop that finds its ports
\* taken is looked at in the next cycle and no sooner, and no cycle is jumped over.
PortReasons == {"read_domain_busy", "completion_domain_busy"}
NoMissedWakeUp ==
    [][\A t \in (now + 1)..(now' - 1) :
          /\ Cycle(t) = Cycle(now)
          /\ \A u \in Candidates : Issuable(u, t) => Blocker(u, now).why \in PortReasons]_now

\* The loop goes on at the next release of any resource.
WakesInTime ==
    [][\A t \in (now + 1)..(now' - 1) : \A u \in Candidates : ~Issuable(u, t)]_now

\* The engine implements Dataflow: it is a machine on which results appear in
\* dependency order and macro-ops enter and leave in program order, whatever the
\* ports, epochs and flows do to the timing.
LongestTrace == Max({Len(t) : t \in Traces})
MostMacros == Max({t[Len(t)].macro : t \in Traces})
\* An instance has a longest trace and one of most macro-ops.
ASSUME LengthAssumption ==
    /\ LongestTrace \in Nat /\ MostMacros \in Nat
    /\ \A t \in Traces : /\ DOMAIN t = 1..Len(t) /\ Len(t) \in 1..LongestTrace
                         /\ t[Len(t)].macro <= MostMacros
Seen(t) ==
    [parent       |-> [u \in 1..LongestTrace |-> IF u <= Len(t) THEN t[u].macro ELSE 0],
     dependencies |-> [u \in 1..LongestTrace |-> IF u <= Len(t) THEN t[u].deps ELSE {}]]
Abstract == INSTANCE Dataflow WITH
    NumUops <- LongestTrace,
    NumMacros <- MostMacros,
    Traces <- {Seen(t) : t \in Traces},
    trace <- Seen(trace), entered <- sent, left <- left,
    done <- {u \in Uop : Completed(u)}
Implements == Abstract!Spec

=============================================================================
