----------------------------- MODULE Zen4Engine -----------------------------
(***************************************************************************)
(* The event loop of backend/zen4.py (class Engine): a bound trace of      *)
(* macro-ops and execution uops is dispatched into a reorder buffer,       *)
(* issued to execution lanes in or out of order, completed from an event   *)
(* heap and retired in program order, while simulated time jumps from one  *)
(* event to the next.                                                      *)
(*                                                                         *)
(* pc is the place of Engine.run in its loop body; every step of a handler *)
(* loop (one completion, one dispatched macro-op, one examined candidate,  *)
(* one retired macro-op) is an action.  Uops and macro-ops are numbered by *)
(* their sequence, so "oldest" is "smallest".  The bound trace is state    *)
(* that no step changes.  The memory hierarchy appears by its interface:   *)
(* an access is refused until a finite tick and, once accepted, answers    *)
(* with a latency; MemoryHierarchy.tla models what lies behind it.         *)
(***************************************************************************)
EXTENDS Integers, Sequences, FiniteSets

CONSTANTS
    NumUops,            \* len(trace.uops)
    NumMacros,          \* len(trace.macros)
    Traces,             \* the bound traces the engine may be given
    TicksPerCycle,      \* trace.ticks_per_cycle
    DispatchWidth,      \* pipeline.dispatch_macro_ops_per_cycle
    RetireWidth,        \* pipeline.retire_macro_ops_per_cycle
    RobEntries,         \* pipeline.rob_entries
    VectorEntries,      \* pipeline.vector_scheduler_entries
    LoadEntries,        \* pipeline.load_queue_entries
    StoreEntries,       \* pipeline.store_queue_entries
    Resource,           \* resource ids; their order breaks ties
    LaneCount,          \* capacity of each resource
    Class,              \* scheduling classes
    Domain,             \* issue domains
    DomainCapacity,     \* capacity of each issue domain
    MaxPendingGroups,   \* memory_compute_overlap_limit.max_pending_groups
    LoadLatency,        \* latencies a load access may answer with
    MemoryHold,         \* for how long an access may refuse the next one
    MaxIterations       \* run()'s bound on loop iterations

Uop == 1..NumUops
Macro == 1..NumMacros
MemoryKind == {"load_data", "store_data"}
Kind == MemoryKind \cup {"vector", "scalar"}

\* Python's None, for a tick that is not set and for an absent predecessor.
NotYet == -1
NoUop == 0

\* An execution lane is a resource and a lane index, a token an issue domain
\* and an index.
Lane == UNION {{r} \X (1..LaneCount[r]) : r \in Resource}
NoLane == <<>>
Token == UNION {{d} \X (1..DomainCapacity[d]) : d \in Domain}

(***************************************************************************)
(* What validate_bound_trace and Profile.bind guarantee of a bound trace,  *)
(* which carries here the issue policy of the profile it is run under.     *)
(* ops[m] counts the decoded macro-ops of the macros up to m, so that      *)
(* macro m decodes to ops[m] - ops[m-1] of them.                           *)
(***************************************************************************)
ValidTrace(t) ==
    /\ t.parent \in [Uop -> Macro]
    /\ \A m \in Macro : \E u \in Uop : t.parent[u] = m
    /\ t.kind \in [Uop -> Kind]
    /\ t.dependencies \in [Uop -> SUBSET Uop]
    /\ t.latency \in [Uop -> Nat]
    /\ t.occupancy \in [Uop -> Nat]
    /\ t.interval \in [Uop -> Nat]
    /\ t.class \in [Uop -> Class]
    /\ t.resources \in [Uop -> (SUBSET Resource) \ {{}}]
    /\ t.demand \in [Uop -> [Domain -> Nat]]
    /\ \A u \in Uop, d \in Domain : t.demand[u][d] <= DomainCapacity[d]
    /\ t.after \in [Uop -> Uop \cup {NoUop}]
    /\ t.gap \in [Uop -> Nat]
    /\ t.compute \in SUBSET Uop
    /\ t.ops \in [0..NumMacros -> Nat]
    /\ t.ops[0] = 0
    /\ \A m, n \in 0..NumMacros : m < n => t.ops[m] < t.ops[n]
    /\ t.retireOps \in [Macro -> Nat \ {0}]
    /\ t.outOfOrder \in BOOLEAN
    /\ t.overlapLimit \in BOOLEAN

\* _depends_transitively_on_any: u reaches a load of its macro-op through
\* dependencies that stay inside the macro-op.
DependsOnLoad(t, u) ==
    LET inside == {v \in Uop : t.parent[v] = t.parent[u]}
        reaches[v \in Uop] ==
            \E d \in t.dependencies[v] \cap inside :
                t.kind[d] = "load_data" \/ reaches[d]
    IN  reaches[u]

\* memory_compute_groups[m]; the macro-op forms a group if it is not empty.
ComputeIn(t, m) ==
    {u \in Uop : t.parent[u] = m /\ u \in t.compute /\ DependsOnLoad(t, u)}

ASSUME CountAssumption == NumUops \in Nat \ {0} /\ NumMacros \in Nat \ {0}
ASSUME TraceAssumption == \A t \in Traces : ValidTrace(t)
\* In every recipe of profiles/amd_zen4.yaml that loads, the one load feeds each
\* compute uop directly: a group's loads are all producers of the group.
ASSUME GroupAssumption ==
    \A t \in Traces : \A u \in Uop :
        t.kind[u] = "load_data" /\ ComputeIn(t, t.parent[u]) # {} =>
            \E v \in ComputeIn(t, t.parent[u]) : u \in t.dependencies[v]
ASSUME PipelineAssumption ==
    /\ TicksPerCycle \in Nat \ {0}
    /\ DispatchWidth \in Nat \ {0}
    /\ RetireWidth \in Nat \ {0}
    /\ RobEntries \in Nat \ {0}
    /\ VectorEntries \in Nat \ {0}
    /\ LoadEntries \in Nat \ {0}
    /\ StoreEntries \in Nat \ {0}
    /\ MaxPendingGroups \in Nat \ {0}
    /\ MaxIterations \in Nat \ {0}
ASSUME ResourceAssumption ==
    /\ Resource \subseteq Nat
    /\ LaneCount \in [Resource -> Nat \ {0}]
    /\ DomainCapacity \in [Domain -> Nat \ {0}]
ASSUME MemoryAssumption == LoadLatency \subseteq Nat /\ MemoryHold \subseteq Nat

VARIABLES
    pc,             \* where run() is in its loop body
    trace,          \* self.trace, never changed
    now,            \* the local now of run()
    iterations,     \* iteration_guard
    nextDispatch,   \* macros dispatched so far (self.next_dispatch)
    width,          \* macro-ops dispatched or retired by the handler so far
    rob,            \* the ROB deque
    dispatchTick,   \* macro.dispatch_tick
    retireTick,     \* macro.retire_tick
    issueTick,      \* uop.issue_tick
    doneAt,         \* the tick at which the uop's heap entry is due
    completeTick,   \* uop.complete_tick
    laneOf,         \* uop.resource and uop.resource_lane
    issueIndex,     \* uops issued in order so far (in_order_issue_index)
    candidates,     \* what is left of _issue_once's snapshot
    progress,       \* changed or issued in this round of the fixed point
    robOcc, vecOcc, lqOcc, sqOcc,   \* the four occupancy counters
    resourceFree,   \* resource_free, per lane
    domainFree,     \* issue_domain_free, per token
    lastIssue,      \* last_class_issue
    pendingGroups,  \* pending_memory_compute_groups
    memoryFree      \* until when the memory refuses loads and stores

control == <<pc, now, iterations, width>>
front == <<nextDispatch, rob, dispatchTick, retireTick>>
occupancy == <<robOcc, vecOcc, lqOcc, sqOcc>>
scan == <<candidates, progress>>
issue == <<issueTick, doneAt, laneOf, issueIndex, resourceFree, domainFree,
           lastIssue, pendingGroups, memoryFree>>
vars == <<trace, control, front, occupancy, scan, issue, completeTick>>

Phase == {"head", "complete", "dispatch", "wake", "scan", "settle", "retire",
          "advance", "done", "not_converged", "no_progress"}

-----------------------------------------------------------------------------
\* The bound trace.

UopsOf(m) == {u \in Uop : trace.parent[u] = m}
Decoded(m) == trace.ops[m] - trace.ops[m - 1]
IsVector(u) == trace.kind[u] = "vector"
IsMemory(u) == trace.kind[u] \in MemoryKind

OutOfOrder == trace.outOfOrder          \* execution_model = "out_of_order"
OverlapLimit == trace.overlapLimit      \* memory_compute_overlap_limit is enabled

\* macro.uses_vector_scheduler, uses_load_queue and uses_store_queue as bind
\* computes them from the kinds of the uops.
UsesKind(m, k) == \E u \in UopsOf(m) : trace.kind[u] = k
UsesVector(m) == UsesKind(m, "vector")
UsesLoad(m) == UsesKind(m, "load_data")
UsesStore(m) == UsesKind(m, "store_data")
One(condition) == IF condition THEN 1 ELSE 0

\* memory_compute_groups[m] of this trace.
ComputeOf(m) == ComputeIn(trace, m)

-----------------------------------------------------------------------------
\* Issue conditions.  Each is a function of the tick it is asked for.

Issued(u) == issueTick[u] # NotYet
Completed(u) == completeTick[u] # NotYet
InFlight == {u \in Uop : Issued(u) /\ ~Completed(u)}
Due == {u \in InFlight : doneAt[u] <= now}
Unissued == {u \in Uop : dispatchTick[trace.parent[u]] # NotYet /\ ~Issued(u)}

\* _issue_candidates
MutantBypassesOlder == Unissued
IssueCandidates ==
    IF OutOfOrder THEN Unissued ELSE {issueIndex + 1} \cap Unissued

MutantWaitsForIssueOnly(u) == \E d \in trace.dependencies[u] : ~Issued(d)
DependencyBlocked(u) == \E d \in trace.dependencies[u] : ~Completed(d)
PartOrderBlocked(u) == trace.after[u] # NoUop /\ ~Issued(trace.after[u])
PartReady(u) == issueTick[trace.after[u]] + trace.gap[u]
PartGapBlocked(u, t) ==
    trace.after[u] # NoUop /\ Issued(trace.after[u]) /\ PartReady(u) > t
OverlapBlocked(u) ==
    LET m == trace.parent[u] IN
    /\ OverlapLimit
    /\ trace.kind[u] = "load_data"
    /\ ComputeOf(m) # {}
    /\ m \notin pendingGroups
    /\ Cardinality(pendingGroups) >= MaxPendingGroups
IntervalReady(u) == lastIssue[trace.class[u]] + trace.interval[u]
IntervalBlocked(u, t) ==
    lastIssue[trace.class[u]] # NotYet /\ IntervalReady(u) > t

LanesOf(u) == {l \in Lane : l[1] \in trace.resources[u]}
ResourceBlocked(u, t) == \A l \in LanesOf(u) : resourceFree[l] > t
MemoryBlocked(u, t) == IsMemory(u) /\ memoryFree[trace.kind[u]] > t

\* The n tokens of domain d that are free first (_reserve_issue_domains sorts
\* by free tick, then by lane), and the tick at which all of them are.
Cheapest(d, n) ==
    LET tokens == {t \in Token : t[1] = d}
        Before(s, t) == \/ domainFree[s] < domainFree[t]
                        \/ domainFree[s] = domainFree[t] /\ s[2] < t[2]
    IN  {t \in tokens : Cardinality({s \in tokens : Before(s, t)}) < n}
MutantIgnoresDemand(u) == UNION {Cheapest(d, 1) : d \in Domain}
Granted(u) == UNION {Cheapest(d, trace.demand[u][d]) : d \in Domain}
DomainBlocked(u, t) == \E token \in Granted(u) : domainFree[token] > t

\* The conditions _issue_blocker tests before the memory is asked ...
PortBlocked(u, t) ==
    \/ DependencyBlocked(u)
    \/ PartOrderBlocked(u)
    \/ PartGapBlocked(u, t)
    \/ OverlapBlocked(u)
    \/ IntervalBlocked(u, t)
    \/ ResourceBlocked(u, t)
\* ... and all of them.
Blocked(u, t) == PortBlocked(u, t) \/ MemoryBlocked(u, t) \/ DomainBlocked(u, t)

-----------------------------------------------------------------------------
Init ==
    /\ trace \in Traces
    /\ pc = "head"
    /\ now = 0
    /\ iterations = 0
    /\ nextDispatch = 0
    /\ width = 0
    /\ rob = <<>>
    /\ dispatchTick = [m \in Macro |-> NotYet]
    /\ retireTick = [m \in Macro |-> NotYet]
    /\ issueTick = [u \in Uop |-> NotYet]
    /\ doneAt = [u \in Uop |-> NotYet]
    /\ completeTick = [u \in Uop |-> NotYet]
    /\ laneOf = [u \in Uop |-> NoLane]
    /\ issueIndex = 0
    /\ candidates = {}
    /\ progress = FALSE
    /\ robOcc = 0 /\ vecOcc = 0 /\ lqOcc = 0 /\ sqOcc = 0
    /\ resourceFree = [l \in Lane |-> 0]
    /\ domainFree = [t \in Token |-> 0]
    /\ lastIssue = [c \in Class |-> NotYet]
    /\ pendingGroups = {}
    /\ memoryFree = [k \in MemoryKind |-> 0]

Finished == nextDispatch = NumMacros /\ rob = <<>>
OnBoundary == now % TicksPerCycle = 0

\* The top of the loop: run() gives up after MaxIterations iterations.
Iterate ==
    /\ pc = "head"
    /\ iterations' = iterations + 1
    /\ pc' = IF iterations' > MaxIterations THEN "not_converged" ELSE "complete"
    /\ UNCHANGED <<trace, now, width, front, occupancy, scan, issue, completeTick>>

\* One pop of _complete's heap; pc tells which of its three calls it is.
Complete(u) ==
    /\ pc \in {"complete", "wake", "settle"}
    /\ u \in Due
    /\ \A v \in Due : \/ doneAt[u] < doneAt[v]
                      \/ doneAt[u] = doneAt[v] /\ u <= v
    /\ completeTick' = [completeTick EXCEPT ![u] = doneAt[u]]
    /\ progress' = (pc = "wake" \/ progress)
    /\ UNCHANGED <<trace, control, front, occupancy, candidates, issue>>

\* The heap holds nothing more that is due: _complete returns.
CompleteReturns ==
    /\ Due = {}
    /\ \/ pc = "complete" /\ pc' = IF OnBoundary THEN "dispatch" ELSE "wake"
       \/ pc = "wake" /\ pc' = "scan"
       \/ pc = "settle" /\ pc' = IF OnBoundary THEN "retire" ELSE "advance"
    /\ candidates' = IF pc = "wake" THEN IssueCandidates ELSE {}
    /\ progress' = (pc = "wake" /\ progress)
    /\ width' = 0
    /\ UNCHANGED <<trace, now, iterations, front, occupancy, issue, completeTick>>

\* _dispatch_blocker and the width test of _dispatch, for macro m.
Dispatchable(m) ==
    /\ width + Decoded(m) <= DispatchWidth
    /\ robOcc + Decoded(m) <= RobEntries
    /\ vecOcc + One(UsesVector(m)) <= VectorEntries
    /\ UsesLoad(m) => lqOcc < LoadEntries
    /\ UsesStore(m) => sqOcc < StoreEntries

Enqueued(m) == Append(rob, m)

\* _dispatch admits the next macro-op in program order.
Dispatch(m) ==
    /\ pc = "dispatch"
    /\ m = nextDispatch + 1
    /\ Dispatchable(m)
    /\ dispatchTick' = [dispatchTick EXCEPT ![m] = now]
    /\ rob' = Enqueued(m)
    /\ robOcc' = robOcc + Decoded(m)
    /\ vecOcc' = vecOcc + One(UsesVector(m))
    /\ lqOcc' = lqOcc + One(UsesLoad(m))
    /\ sqOcc' = sqOcc + One(UsesStore(m))
    /\ nextDispatch' = m
    /\ width' = width + Decoded(m)
    /\ UNCHANGED <<trace, pc, now, iterations, retireTick, scan, issue, completeTick>>

DispatchReturns ==
    /\ pc = "dispatch"
    /\ nextDispatch < NumMacros => ~Dispatchable(nextDispatch + 1)
    /\ pc' = "wake"
    /\ width' = 0
    /\ UNCHANGED <<trace, now, iterations, front, occupancy, scan, issue, completeTick>>

\* _select_resource: the lane that was free first, then the smallest.
MutantFirstLaneById(u, l) ==
    l \in LanesOf(u) /\ \A k \in LanesOf(u) :
        l[1] < k[1] \/ (l[1] = k[1] /\ l[2] <= k[2])
ChosenLane(u, l) ==
    /\ l \in LanesOf(u)
    /\ \A k \in LanesOf(u) :
          \/ resourceFree[l] < resourceFree[k]
          \/ /\ resourceFree[l] = resourceFree[k]
             /\ l[1] < k[1] \/ (l[1] = k[1] /\ l[2] <= k[2])

\* _update_memory_compute_groups_after_issue
MutantNeverDrains(u) ==
    LET m == trace.parent[u]
    IN  IF OverlapLimit /\ ComputeOf(m) # {} /\ trace.kind[u] = "load_data"
        THEN pendingGroups \cup {m} ELSE pendingGroups
GroupsAfter(u) ==
    LET m == trace.parent[u]
        loaded == IF trace.kind[u] = "load_data" THEN {m} ELSE {}
        drained == IF /\ u \in ComputeOf(m)
                      /\ \A v \in ComputeOf(m) \ {u} : Issued(v)
                   THEN {m} ELSE {}
    IN  IF OverlapLimit /\ ComputeOf(m) # {}
        THEN (pendingGroups \cup loaded) \ drained
        ELSE pendingGroups

\* The first vector uop of its macro-op leaves the vector waiting window.
MutantFreesOnLastPart(u) ==
    IsVector(u) /\ \A v \in UopsOf(trace.parent[u]) : IsVector(v) /\ v # u => Issued(v)
FreesVectorEntry(u) ==
    /\ IsVector(u)
    /\ \A v \in UopsOf(trace.parent[u]) \ {u} : IsVector(v) => ~Issued(v)

\* What memory.access may answer: a load takes the latency of the access, a
\* store keeps that of its recipe.
Latencies(u) ==
    IF trace.kind[u] = "load_data" THEN LoadLatency ELSE {trace.latency[u]}
MemoryAfter(u) ==
    IF IsMemory(u)
    THEN {[memoryFree EXCEPT ![trace.kind[u]] = now + hold] : hold \in MemoryHold}
    ELSE {memoryFree}

Oldest(u) == u \in candidates /\ \A v \in candidates : u <= v

\* _issue_once issues candidate u to lane l.
Issue(u, l) ==
    /\ pc = "scan"
    /\ Oldest(u)
    /\ ~Blocked(u, now)
    /\ ChosenLane(u, l)
    /\ issueTick' = [issueTick EXCEPT ![u] = now]
    /\ laneOf' = [laneOf EXCEPT ![u] = l]
    /\ \E latency \in Latencies(u) :
          doneAt' = [doneAt EXCEPT ![u] = now + latency]
    /\ memoryFree' \in MemoryAfter(u)
    /\ resourceFree' = [resourceFree EXCEPT ![l] = now + trace.occupancy[u]]
    /\ lastIssue' = [lastIssue EXCEPT ![trace.class[u]] = now]
    /\ domainFree' = [t \in Token |-> IF t \in Granted(u)
                                      THEN now + trace.occupancy[u]
                                      ELSE domainFree[t]]
    /\ pendingGroups' = GroupsAfter(u)
    /\ vecOcc' = vecOcc - One(FreesVectorEntry(u))
    /\ issueIndex' = IF OutOfOrder THEN issueIndex ELSE issueIndex + 1
    /\ candidates' = candidates \ {u}
    /\ progress' = TRUE
    /\ UNCHANGED <<trace, control, front, robOcc, lqOcc, sqOcc, completeTick>>

\* _issue_once passes over candidate u; in order, u is the only candidate and
\* the scan ends with it.
Skip(u) ==
    /\ pc = "scan"
    /\ Oldest(u)
    /\ Blocked(u, now)
    /\ candidates' = candidates \ {u}
    /\ UNCHANGED <<trace, control, front, occupancy, progress, issue, completeTick>>

AfterScan == IF progress THEN "wake" ELSE "settle"

\* _issue_fixed_point goes round again unless nothing completed or issued.
ScanReturns ==
    /\ pc = "scan"
    /\ candidates = {}
    /\ pc' = AfterScan
    /\ progress' = FALSE
    /\ UNCHANGED <<trace, now, iterations, width, front, occupancy, candidates,
                   issue, completeTick>>

\* The macro-op is complete by now (macro.complete_tick is the latest of its
\* uops' complete ticks).
MutantAnyUopComplete(m) ==
    /\ \E u \in UopsOf(m) : Completed(u) /\ completeTick[u] <= now
    /\ width + trace.retireOps[m] <= RetireWidth
Retirable(m) ==
    /\ \A u \in UopsOf(m) : Completed(u) /\ completeTick[u] <= now
    /\ width + trace.retireOps[m] <= RetireWidth

\* _retire takes the head of the ROB.
Retire(m) ==
    /\ pc = "retire"
    /\ rob # <<>> /\ m = Head(rob)
    /\ Retirable(m)
    /\ rob' = Tail(rob)
    /\ retireTick' = [retireTick EXCEPT ![m] = now]
    /\ robOcc' = robOcc - Decoded(m)
    /\ lqOcc' = lqOcc - One(UsesLoad(m))
    /\ sqOcc' = sqOcc - One(UsesStore(m))
    /\ width' = width + trace.retireOps[m]
    /\ UNCHANGED <<trace, pc, now, iterations, nextDispatch, dispatchTick, vecOcc,
                   scan, issue, completeTick>>

RetireReturns ==
    /\ pc = "retire"
    /\ rob # <<>> => ~Retirable(Head(rob))
    /\ pc' = "advance"
    /\ width' = 0
    /\ UNCHANGED <<trace, now, iterations, front, occupancy, scan, issue, completeTick>>

Finish ==
    /\ pc = "advance"
    /\ Finished
    /\ pc' = "done"
    /\ UNCHANGED <<trace, now, iterations, width, front, occupancy, scan, issue,
                   completeTick>>

\* The ticks a candidate adds to _next_event_tick: those of its resources, of
\* its class and of its domains, and the one its first blocker reports.
DomainReady(u, d) ==
    {domainFree[t] : t \in {x \in Cheapest(d, trace.demand[u][d]) :
        \A y \in Cheapest(d, trace.demand[u][d]) : domainFree[y] <= domainFree[x]}}
FirstFree(r) ==
    {resourceFree[l] : l \in {x \in Lane : x[1] = r /\
        \A y \in Lane : y[1] = r => resourceFree[x] <= resourceFree[y]}}
MutantForgetsInterval(u) ==
    (UNION {FirstFree(r) : r \in trace.resources[u]})
    \cup (UNION {DomainReady(u, d) : d \in Domain})
WakeUps(u) ==
    (UNION {FirstFree(r) : r \in trace.resources[u]})
    \cup (UNION {DomainReady(u, d) : d \in Domain})
    \cup (IF lastIssue[trace.class[u]] # NotYet THEN {IntervalReady(u)} ELSE {})
    \cup (IF ~DependencyBlocked(u) /\ PartGapBlocked(u, now)
          THEN {PartReady(u)} ELSE {})
    \cup (IF ~PortBlocked(u, now) /\ IsMemory(u)
          THEN {memoryFree[trace.kind[u]]} ELSE {})

\* The first boundary after now: run() always looks at it while work is left.
NextCycle == ((now \div TicksPerCycle) + 1) * TicksPerCycle
EventTicks ==
    {NextCycle}
    \cup {doneAt[u] : u \in InFlight}
    \cup {t \in UNION {WakeUps(u) : u \in IssueCandidates} : t > now}

\* Time jumps to the earliest event.
Advance(tick) ==
    /\ pc = "advance"
    /\ ~Finished
    /\ tick \in EventTicks
    /\ \A t \in EventTicks : tick <= t
    /\ IF tick <= now
       THEN pc' = "no_progress" /\ now' = now
       ELSE pc' = "head" /\ now' = tick
    /\ UNCHANGED <<trace, iterations, width, front, occupancy, scan, issue, completeTick>>

\* _dependency_critical_path_cycles, in ticks: the longest chain of latencies,
\* where the latency of an issued uop is the one it was issued with.
LatencyOf(u) == doneAt[u] - issueTick[u]
CriticalPath ==
    LET Longest(S) == CHOOSE n \in S : \A k \in S : k <= n
        finish[u \in Uop] ==
            LatencyOf(u) + Longest({0} \cup {finish[d] : d \in trace.dependencies[u]})
    IN  Longest({finish[u] : u \in Uop})

\* run() has returned or raised; nothing happens any more.
Stopped == pc \in {"done", "not_converged", "no_progress"} /\ UNCHANGED vars

Next ==
    \/ Iterate
    \/ \E u \in Uop : Complete(u)
    \/ CompleteReturns
    \/ \E m \in Macro : Dispatch(m)
    \/ DispatchReturns
    \/ \E u \in Uop, l \in Lane : Issue(u, l)
    \/ \E u \in Uop : Skip(u)
    \/ ScanReturns
    \/ \E m \in Macro : Retire(m)
    \/ RetireReturns
    \/ Finish
    \/ \E tick \in EventTicks : Advance(tick)
    \/ Stopped

Spec == Init /\ [][Next]_vars

\* run() is one thread of control that nothing suspends: it takes its next step.
FairSpec == Spec /\ WF_vars(Next)

-----------------------------------------------------------------------------
(***************************************************************************)
(* Properties.                                                             *)
(***************************************************************************)
Dispatched(m) == m <= nextDispatch
RetiredCount == nextDispatch - Len(rob)
InRob == (RetiredCount + 1)..nextDispatch

\* Type correctness of the engine's state.
TypeOK ==
    /\ trace \in Traces
    /\ pc \in Phase
    /\ now \in Nat
    /\ iterations \in Nat
    /\ nextDispatch \in 0..NumMacros
    /\ width \in Nat
    /\ rob \in Seq(Macro)
    /\ dispatchTick \in [Macro -> Nat \cup {NotYet}]
    /\ retireTick \in [Macro -> Nat \cup {NotYet}]
    /\ issueTick \in [Uop -> Nat \cup {NotYet}]
    /\ doneAt \in [Uop -> Nat \cup {NotYet}]
    /\ completeTick \in [Uop -> Nat \cup {NotYet}]
    /\ laneOf \in [Uop -> Lane \cup {NoLane}]
    /\ issueIndex \in Nat
    /\ candidates \in SUBSET Uop
    /\ progress \in BOOLEAN
    /\ robOcc \in Nat /\ vecOcc \in Nat /\ lqOcc \in Nat /\ sqOcc \in Nat
    /\ resourceFree \in [Lane -> Nat]
    /\ domainFree \in [Token -> Nat]
    /\ lastIssue \in [Class -> Nat \cup {NotYet}]
    /\ pendingGroups \in SUBSET Macro
    /\ memoryFree \in [MemoryKind -> Nat]

\* The ROB holds the dispatched, unretired macro-ops in program order, so that
\* whatever the order of completion, retirement is in program order.
RobInOrder ==
    /\ \A i \in 1..Len(rob) : rob[i] = RetiredCount + i
    /\ \A m \in Macro : /\ dispatchTick[m] # NotYet <=> Dispatched(m)
                        /\ retireTick[m] # NotYet <=> m <= RetiredCount

\* No uop is issued before all its producers have completed, nor earlier than
\* its part gap after the part it follows, nor before its macro-op was
\* dispatched; and no macro-op retires before its uops have completed.
DataflowOrder ==
    /\ \A u \in Uop : Issued(u) =>
          /\ dispatchTick[trace.parent[u]] # NotYet
          /\ dispatchTick[trace.parent[u]] <= issueTick[u]
          /\ \A d \in trace.dependencies[u] :
                Completed(d) /\ completeTick[d] <= issueTick[u]
          /\ trace.after[u] # NoUop =>
                /\ Issued(trace.after[u])
                /\ PartReady(u) <= issueTick[u]
    /\ \A u \in Uop : retireTick[trace.parent[u]] # NotYet =>
          Completed(u) /\ completeTick[u] <= retireTick[trace.parent[u]]

\* The order of the trace is kept through dispatch, issue and retirement.
OrderKept == RobInOrder /\ DataflowOrder

\* Each occupancy counter equals what it counts: no dispatch, first vector
\* issue or retirement is counted twice or forgotten.
OccupancyExact ==
    /\ robOcc = trace.ops[nextDispatch] - trace.ops[RetiredCount]
    /\ lqOcc = Cardinality({m \in InRob : UsesLoad(m)})
    /\ sqOcc = Cardinality({m \in InRob : UsesStore(m)})
    /\ vecOcc = Cardinality({m \in 1..nextDispatch :
                    /\ UsesVector(m)
                    /\ \A u \in UopsOf(m) : IsVector(u) => ~Issued(u)})

\* The reorder buffer and the three queues never exceed their entries.
QueuesBounded ==
    /\ robOcc <= RobEntries
    /\ vecOcc <= VectorEntries
    /\ lqOcc <= LoadEntries
    /\ sqOcc <= StoreEntries

\* Two uops on one lane never overlap: the later one is issued after the
\* earlier one's occupancy has passed.
LaneExclusive ==
    \A u, v \in Uop : u # v /\ Issued(u) /\ Issued(v) /\ laneOf[u] = laneOf[v] =>
        \/ issueTick[u] + trace.occupancy[u] <= issueTick[v]
        \/ issueTick[v] + trace.occupancy[v] <= issueTick[u]

\* Two uops of one scheduling class are issued at least the later one's issue
\* interval apart.
ClassSpacing ==
    \A u, v \in Uop :
        u # v /\ Issued(u) /\ Issued(v) /\ trace.class[u] = trace.class[v] =>
            \/ issueTick[u] + trace.interval[v] <= issueTick[v]
            \/ issueTick[v] + trace.interval[u] <= issueTick[u]

\* No two uops share an execution lane, or a scheduling class, at a time.
ResourceExclusive == LaneExclusive /\ ClassSpacing

\* The overlap limit counts exactly the groups with a load issued and a
\* dependent compute uop still waiting, and never more than its maximum.
PendingGroupsExact ==
    OverlapLimit =>
        /\ pendingGroups = {m \in Macro :
              /\ \E u \in UopsOf(m) : trace.kind[u] = "load_data" /\ Issued(u)
              /\ \E u \in ComputeOf(m) : ~Issued(u)}
        /\ Cardinality(pendingGroups) <= MaxPendingGroups

\* Whatever was dispatched, issued, retired or held back, each counter of the
\* engine equals what it counts and stays within its limit.
AccountsExact == TypeOK /\ OccupancyExact /\ QueuesBounded /\ PendingGroupsExact

\* run()'s "no forward progress" error cannot happen.
TimeMovesForward == pc # "no_progress"

\* In order, no uop is issued before an older one.
ProgramOrderIssue ==
    ~OutOfOrder =>
        \A u, v \in Uop : u < v /\ Issued(v) =>
            Issued(u) /\ issueTick[u] <= issueTick[v]

\* amount[x] units of each x of S, one by one: their number is a sum over S.
UnitsOf(amount, S) == UNION {{x} \X (1..amount[x]) : x \in S}

\* At every tick the uops that hold tokens of an issue domain hold no more than
\* it has: the weighted reservation never oversubscribes the domain.
Demands(d) == [u \in Uop |-> trace.demand[u][d]]
HoldersAt(t) ==
    {u \in Uop : Issued(u) /\ issueTick[u] <= t /\ t < issueTick[u] + trace.occupancy[u]}
TokensBounded ==
    \A d \in Domain, v \in Uop : Issued(v) =>
        Cardinality(UnitsOf(Demands(d), HoldersAt(issueTick[v]))) <= DomainCapacity[d]

\* Macro-ops are dispatched and retired at cycle boundaries only, and in one
\* cycle no more of them than the widths allow.
DispatchUnits(t) ==
    UnitsOf([m \in Macro |-> Decoded(m)], {m \in Macro : dispatchTick[m] = t})
RetireUnits(t) == UnitsOf(trace.retireOps, {m \in Macro : retireTick[m] = t})
WidthPerCycle ==
    \A m \in Macro :
        /\ dispatchTick[m] # NotYet =>
              /\ dispatchTick[m] % TicksPerCycle = 0
              /\ Cardinality(DispatchUnits(dispatchTick[m])) <= DispatchWidth
        /\ retireTick[m] # NotYet =>
              /\ retireTick[m] % TicksPerCycle = 0
              /\ Cardinality(RetireUnits(retireTick[m])) <= RetireWidth

\* The reported dependency critical path is a lower bound of the simulated time.
CriticalPathIsLowerBound == pc = "done" => CriticalPath <= now

\* The recorded ticks are ones such a pipeline can produce: tokens and widths
\* suffice at every tick, and the dependencies have had their time.
TicksPlausible == TokensBounded /\ WidthPerCycle /\ CriticalPathIsLowerBound

\* When time advances the fixed point of this tick is reached, and no tick at
\* which something could have happened is jumped over: neither now nor at a
\* tick in between is a completion due or would a waiting uop find nothing in
\* its way, and in between there is no cycle boundary.
NothingSkipped ==
    \A t \in now..(now' - 1) :
        /\ t > now => t % TicksPerCycle # 0
        /\ \A u \in InFlight : doneAt[u] > t
        /\ \A u \in IssueCandidates : Blocked(u, t)
NoMissedWakeUp == [][NothingSkipped]_vars

\* Every simulation ends with all macro-ops retired.
Converges == <>(pc = "done")

\* It does so in order, and out of order without the overlap limit.
ConvergesWithoutLimit == (OutOfOrder => ~OverlapLimit) => Converges

-----------------------------------------------------------------------------
Machine == INSTANCE Dataflow WITH
    entered <- nextDispatch,
    done <- {u \in Uop : Completed(u)},
    left <- RetiredCount

\* The engine, seen without time, executes the trace as a dataflow machine:
\* every step of run() is a step of Dataflow, or none.
ExecutesDataflow == Machine!Spec

=============================================================================
