----------------------------- MODULE Zen4Proofs -----------------------------
(***************************************************************************)
(* Theorems about Zen4Engine, for every bound trace, profile and memory.   *)
(***************************************************************************)
EXTENDS Zen4Engine, FiniteSetTheorems, TLAPS

\* TypeOK without the occupancy counters, which are natural numbers because of
\* what they count.
Types ==
    /\ trace \in Traces
    /\ pc \in Phase
    /\ now \in Nat
    /\ iterations \in Nat
    /\ nextDispatch \in 0..NumMacros
    /\ width \in Nat
    /\ rob \in Seq(Macro)
    /\ dispatchTick \in [Macro -> Nat \cup {NotYet}]
    /\ retireTick \in [Macro -> Nat \cup {NotYet}]
    /\ issueTick \in [Uop -> Nat \cup {NotYet}]
    /\ doneAt \in [Uop -> Nat \cup {NotYet}]
    /\ completeTick \in [Uop -> Nat \cup {NotYet}]
    /\ laneOf \in [Uop -> Lane \cup {NoLane}]
    /\ issueIndex \in Nat
    /\ candidates \in SUBSET Uop
    /\ progress \in BOOLEAN
    /\ resourceFree \in [Lane -> Nat]
    /\ domainFree \in [Token -> Nat]
    /\ lastIssue \in [Class -> Nat \cup {NotYet}]
    /\ pendingGroups \in SUBSET Macro
    /\ memoryFree \in [MemoryKind -> Nat]

\* The trace of a run is one that bind and validate_bound_trace accept.
LEMMA TraceIsValid == Types => ValidTrace(trace)
BY TraceAssumption DEF Types

LEMMA DecodedNat ==
    ASSUME ValidTrace(trace), NEW m \in Macro
    PROVE  Decoded(m) \in Nat \ {0}
<1>1. m \in 0..NumMacros /\ m - 1 \in 0..NumMacros /\ m - 1 < m
  BY CountAssumption DEF Macro
<1>2. trace.ops[m] \in Nat /\ trace.ops[m - 1] \in Nat /\ trace.ops[m - 1] < trace.ops[m]
  BY <1>1 DEF ValidTrace
<1> QED
  BY <1>2 DEF Decoded

LEMMA InitTypes == Init => Types
<1> SUFFICES ASSUME Init PROVE Types
  OBVIOUS
<1>1. /\ trace \in Traces /\ pc \in Phase /\ now \in Nat /\ iterations \in Nat
      /\ nextDispatch \in 0..NumMacros /\ width \in Nat /\ rob \in Seq(Macro)
  BY CountAssumption DEF Init, Phase
<1>2. /\ dispatchTick \in [Macro -> Nat \cup {NotYet}]
      /\ retireTick \in [Macro -> Nat \cup {NotYet}]
      /\ issueTick \in [Uop -> Nat \cup {NotYet}]
      /\ doneAt \in [Uop -> Nat \cup {NotYet}]
      /\ completeTick \in [Uop -> Nat \cup {NotYet}]
      /\ laneOf \in [Uop -> Lane \cup {NoLane}]
      /\ lastIssue \in [Class -> Nat \cup {NotYet}]
  BY DEF Init
<1>3. /\ issueIndex \in Nat /\ candidates \in SUBSET Uop /\ progress \in BOOLEAN
      /\ resourceFree \in [Lane -> Nat] /\ domainFree \in [Token -> Nat]
      /\ pendingGroups \in SUBSET Macro /\ memoryFree \in [MemoryKind -> Nat]
  BY DEF Init
<1> QED
  BY <1>1, <1>2, <1>3 DEF Types

LEMMA IssueTypes ==
    ASSUME Types, NEW u \in Uop, NEW l \in Lane, Issue(u, l)
    PROVE  Types'
<1>1. ValidTrace(trace)
  BY TraceIsValid
<1>2. trace.parent[u] \in Macro /\ trace.class[u] \in Class
      /\ trace.occupancy[u] \in Nat /\ trace.latency[u] \in Nat
  BY <1>1 DEF ValidTrace
<1>3. Latencies(u) \subseteq Nat
  BY <1>2, MemoryAssumption DEF Latencies
<1>4. doneAt' \in [Uop -> Nat \cup {NotYet}]
  BY <1>3 DEF Issue, Types
<1>5. memoryFree' \in [MemoryKind -> Nat]
  <2>1. memoryFree' \in MemoryAfter(u)
    BY DEF Issue
  <2>2. CASE IsMemory(u)
    <3>1. PICK hold \in MemoryHold :
             memoryFree' = [memoryFree EXCEPT ![trace.kind[u]] = now + hold]
      BY <2>1, <2>2 DEF MemoryAfter
    <3>2. now + hold \in Nat
      BY MemoryAssumption DEF Types
    <3> QED
      BY <3>1, <3>2 DEF Types
  <2>3. CASE ~IsMemory(u)
    BY <2>1, <2>3 DEF MemoryAfter, Types
  <2> QED
    BY <2>2, <2>3
<1>6. pendingGroups' \in SUBSET Macro
  BY <1>2 DEF Issue, GroupsAfter, Types
<1>7. domainFree' \in [Token -> Nat]
  BY <1>2 DEF Issue, Types
<1>8. /\ resourceFree' \in [Lane -> Nat]
      /\ lastIssue' \in [Class -> Nat \cup {NotYet}]
  BY <1>2 DEF Issue, Types
<1>9. /\ issueTick' \in [Uop -> Nat \cup {NotYet}]
      /\ laneOf' \in [Uop -> Lane \cup {NoLane}]
      /\ issueIndex' \in Nat
      /\ candidates' \in SUBSET Uop
      /\ progress' \in BOOLEAN
  BY DEF Issue, Types
<1> QED
  BY <1>4, <1>5, <1>6, <1>7, <1>8, <1>9 DEF Issue, Types, control, front

LEMMA EventTicksInt ==
    ASSUME Types
    PROVE  EventTicks \subseteq Int
<1>1. NextCycle \in Int
  BY PipelineAssumption DEF NextCycle, Types
<1>2. \A u \in InFlight : doneAt[u] \in Int
  BY DEF InFlight, Types, NotYet
<1>3. ASSUME NEW u \in IssueCandidates PROVE WakeUps(u) \subseteq Int
  <2>1. u \in Uop /\ ValidTrace(trace)
    BY <1>3, TraceIsValid DEF IssueCandidates, Unissued
  <2>2. \A r : FirstFree(r) \subseteq Int
    BY DEF FirstFree, Types
  <2>3. \A d : DomainReady(u, d) \subseteq Int
    <3>1. \A t \in Token : domainFree[t] \in Int
      BY DEF Types
    <3>2. \A d, n : Cheapest(d, n) \subseteq Token
      BY DEF Cheapest
    <3> QED
      BY <3>1, <3>2 DEF DomainReady
  <2>4. IntervalReady(u) \in Int
    <3>1. trace.class[u] \in Class /\ trace.interval[u] \in Nat
      BY <2>1 DEF ValidTrace
    <3>2. lastIssue[trace.class[u]] \in Int
      BY <3>1 DEF Types, NotYet
    <3> QED
      BY <3>1, <3>2 DEF IntervalReady
  <2>5. PartGapBlocked(u, now) => PartReady(u) \in Int
    <3>1. trace.after[u] \in Uop \cup {NoUop} /\ trace.gap[u] \in Nat
      BY <2>1 DEF ValidTrace
    <3>2. \A v \in Uop : issueTick[v] \in Int
      BY DEF Types, NotYet
    <3> QED
      BY <3>1, <3>2 DEF PartGapBlocked, PartReady
  <2>6. IsMemory(u) => memoryFree[trace.kind[u]] \in Int
    BY DEF IsMemory, Types
  <2> QED
    <3> DEFINE interval == IF lastIssue[trace.class[u]] # NotYet
                           THEN {IntervalReady(u)} ELSE {}
               part == IF ~DependencyBlocked(u) /\ PartGapBlocked(u, now)
                       THEN {PartReady(u)} ELSE {}
               memory == IF ~PortBlocked(u, now) /\ IsMemory(u)
                         THEN {memoryFree[trace.kind[u]]} ELSE {}
               lanes == UNION {FirstFree(r) : r \in trace.resources[u]}
               tokens == UNION {DomainReady(u, d) : d \in Domain}
    <3>1. WakeUps(u) = lanes \cup tokens \cup interval \cup part \cup memory
      BY DEF WakeUps
    <3>2. interval \subseteq Int /\ part \subseteq Int /\ memory \subseteq Int
      BY <2>4, <2>5, <2>6
    <3>3. lanes \subseteq Int /\ tokens \subseteq Int
      BY <2>2, <2>3
    <3> HIDE DEF interval, part, memory, lanes, tokens
    <3> QED
      BY <3>1, <3>2, <3>3
<1> QED
  BY <1>1, <1>2, <1>3 DEF EventTicks

LEMMA StepTypes == Types /\ [Next]_vars => Types'
<1> SUFFICES ASSUME Types, [Next]_vars PROVE Types'
  OBVIOUS
<1>0. ValidTrace(trace)
  BY TraceIsValid
<1>1. CASE Iterate
  BY <1>1 DEF Iterate, Types, Phase, front, scan, issue
<1>2. ASSUME NEW u \in Uop, Complete(u) PROVE Types'
  BY <1>2 DEF Complete, Types, control, front, issue
<1>3. CASE CompleteReturns
  <2>1. IssueCandidates \subseteq Uop
    BY DEF IssueCandidates, Unissued
  <2> QED
    BY <1>3, <2>1 DEF CompleteReturns, Types, Phase, front, issue
<1>4. ASSUME NEW m \in Macro, Dispatch(m) PROVE Types'
  <2>1. Decoded(m) \in Nat
    BY <1>0, DecodedNat
  <2>2. rob' \in Seq(Macro)
    BY <1>4 DEF Dispatch, Enqueued, Types
  <2>3. nextDispatch' \in 0..NumMacros /\ width' \in Nat
    BY <1>4, <2>1, CountAssumption DEF Dispatch, Types, Macro
  <2>4. dispatchTick' \in [Macro -> Nat \cup {NotYet}]
    BY <1>4 DEF Dispatch, Types
  <2>5. UNCHANGED <<trace, pc, now, iterations, retireTick, scan, issue, completeTick>>
    BY <1>4 DEF Dispatch
  <2> QED
    BY <2>2, <2>3, <2>4, <2>5 DEF Types, scan, issue
<1>5. CASE DispatchReturns
  BY <1>5 DEF DispatchReturns, Types, Phase, front, scan, issue
<1>6. ASSUME NEW u \in Uop, NEW l \in Lane, Issue(u, l) PROVE Types'
  BY <1>6, IssueTypes
<1>7. ASSUME NEW u \in Uop, Skip(u) PROVE Types'
  BY <1>7 DEF Skip, Types, control, front, issue
<1>8. CASE ScanReturns
  BY <1>8 DEF ScanReturns, AfterScan, Types, Phase, front, issue
<1>9. ASSUME NEW m \in Macro, Retire(m) PROVE Types'
  <2>1. trace.retireOps[m] \in Nat
    BY <1>0 DEF ValidTrace
  <2>2. rob' \in Seq(Macro)
    BY <1>9 DEF Retire, Types
  <2>3. retireTick' \in [Macro -> Nat \cup {NotYet}] /\ width' \in Nat
    BY <1>9, <2>1 DEF Retire, Types
  <2>4. UNCHANGED <<trace, pc, now, iterations, nextDispatch, dispatchTick,
                    scan, issue, completeTick>>
    BY <1>9 DEF Retire
  <2> QED
    BY <2>2, <2>3, <2>4 DEF Types, scan, issue
<1>10. CASE RetireReturns
  BY <1>10 DEF RetireReturns, Types, Phase, front, scan, issue
<1>11. CASE Finish
  BY <1>11 DEF Finish, Types, Phase, front, scan, issue
<1>12. ASSUME NEW tick \in EventTicks, Advance(tick) PROVE Types'
  <2>1. tick \in Int
    BY EventTicksInt
  <2>2. now' \in Nat /\ pc' \in Phase
    BY <1>12, <2>1 DEF Advance, Types, Phase
  <2> QED
    BY <1>12, <2>2 DEF Advance, Types, front, scan, issue
<1>13. CASE Stopped
  BY <1>13 DEF Stopped, vars, Types, control, front, scan, issue
<1>14. CASE UNCHANGED vars
  BY <1>14 DEF vars, Types, control, front, scan, issue
<1> QED
  BY <1>1, <1>2, <1>3, <1>4, <1>5, <1>6, <1>7, <1>8, <1>9, <1>10, <1>11,
     <1>12, <1>13, <1>14 DEF Next

-----------------------------------------------------------------------------
(***************************************************************************)
(* Program order and dataflow order.  The clock facts make them inductive: *)
(* what has happened happened no later than now, a completed uop was       *)
(* issued, and the candidates of a scan are dispatched and not yet issued. *)
(***************************************************************************)
Clock ==
    /\ \A m \in Macro : dispatchTick[m] <= now
    /\ \A u \in Uop : Issued(u) => issueTick[u] <= now /\ issueTick[u] <= doneAt[u]
    /\ \A u \in Uop : Completed(u) =>
          Issued(u) /\ completeTick[u] = doneAt[u] /\ completeTick[u] <= now
    /\ candidates \subseteq Unissued

Order == Len(rob) <= nextDispatch /\ RobInOrder /\ Clock /\ DataflowOrder

LEMMA InitOrder == Init => Order
<1> SUFFICES ASSUME Init PROVE Order
  OBVIOUS
<1>1. Len(rob) = 0 /\ nextDispatch = 0 /\ RetiredCount = 0
  <2>1. Len(<<>>) = 0
    OBVIOUS
  <2>2. nextDispatch = 0
    BY DEF Init
  <2>3. Len(rob) = 0
    BY <2>1 DEF Init
  <2> QED
    BY <2>2, <2>3 DEF RetiredCount
<1>2. RobInOrder
  BY <1>1, CountAssumption DEF Init, RobInOrder, Dispatched, Macro
<1>3. Clock /\ DataflowOrder
  <2>1. \A u \in Uop : ~Issued(u) /\ ~Completed(u)
    BY DEF Init, Issued, Completed
  <2>2. \A m \in Macro : dispatchTick[m] <= now /\ retireTick[m] = NotYet
    BY DEF Init, NotYet
  <2>3. \A u \in Uop : trace.parent[u] \in Macro
    BY TraceAssumption DEF Init, ValidTrace
  <2> QED
    BY <2>1, <2>2, <2>3 DEF Init, Clock, DataflowOrder
<1> QED
  BY <1>1, <1>2, <1>3 DEF Order

\* A step that dispatches, issues, completes and retires nothing, lets time
\* only grow and takes its candidates from the unissued uops.
LEMMA FrameOrder ==
    ASSUME Types, Order, now' \in Nat, now <= now',
           UNCHANGED <<trace, front, issueTick, doneAt, completeTick>>,
           candidates' \subseteq Unissued
    PROVE  Order'
<1>1. Len(rob)' <= nextDispatch' /\ RobInOrder'
  BY DEF Order, RobInOrder, RetiredCount, Dispatched, front
<1>2. Clock'
  <2>1. \A m \in Macro : dispatchTick[m] \in Int
    BY DEF Types, NotYet
  <2>2. \A u \in Uop : issueTick[u] \in Int /\ completeTick[u] \in Int
    BY DEF Types, NotYet
  <2>3. now \in Nat
    BY DEF Types
  <2> QED
    BY <2>1, <2>2, <2>3 DEF Order, Clock, Issued, Completed, Unissued, front
<1>3. DataflowOrder'
  BY DEF Order, DataflowOrder, Issued, Completed, PartReady, front
<1> QED
  BY <1>1, <1>2, <1>3 DEF Order

LEMMA CompleteOrder ==
    ASSUME Types, Order, NEW u \in Uop, Complete(u)
    PROVE  Order'
<1>1. /\ Issued(u) /\ ~Completed(u) /\ doneAt[u] <= now
      /\ completeTick' = [completeTick EXCEPT ![u] = doneAt[u]]
      /\ UNCHANGED <<trace, control, front, candidates, issue>>
  BY DEF Complete, Due, InFlight
<1>2. doneAt[u] \in Nat
  BY <1>1 DEF Order, Clock, Types, Issued, NotYet
<1>3. Len(rob)' <= nextDispatch' /\ RobInOrder'
  BY <1>1 DEF Order, RobInOrder, RetiredCount, Dispatched, front
<1>4. Clock'
  BY <1>1 DEF Order, Clock, Types, Issued, Completed, Unissued, front, control, issue
<1>5. DataflowOrder'
  <2>1. \A v \in Uop : Completed(v) => v # u /\ Completed(v)' /\ completeTick'[v] = completeTick[v]
    BY <1>1 DEF Completed, Types
  <2> QED
    BY <1>1, <2>1, TraceIsValid
    DEF Order, DataflowOrder, ValidTrace, Issued, PartReady, front, issue
<1> QED
  BY <1>3, <1>4, <1>5 DEF Order

LEMMA DispatchOrder ==
    ASSUME Types, Order, NEW m \in Macro, Dispatch(m)
    PROVE  Order'
<1>1. /\ m = nextDispatch + 1
      /\ dispatchTick' = [dispatchTick EXCEPT ![m] = now]
      /\ rob' = Append(rob, m)
      /\ nextDispatch' = m
      /\ UNCHANGED <<trace, now, retireTick, scan, issue, completeTick>>
  BY DEF Dispatch, Enqueued
<1>2. /\ nextDispatch \in Nat /\ Len(rob) \in Nat /\ Len(rob') = Len(rob) + 1
      /\ RetiredCount' = RetiredCount
      /\ \A i \in 1..Len(rob) : rob'[i] = rob[i]
      /\ rob'[Len(rob) + 1] = m
  BY <1>1 DEF Types, RetiredCount
<1>3. Len(rob)' <= nextDispatch' /\ RobInOrder'
  <2>1. Len(rob)' <= nextDispatch'
    BY <1>1, <1>2 DEF Order
  <2>2. \A i \in 1..Len(rob)' : rob'[i] = RetiredCount' + i
    <3>1. \A i \in 1..Len(rob) : rob'[i] = RetiredCount' + i
      BY <1>2 DEF Order, RobInOrder
    <3>2. rob'[Len(rob) + 1] = RetiredCount' + (Len(rob) + 1)
      BY <1>1, <1>2 DEF RetiredCount
    <3>3. \A i \in 1..Len(rob)' : i \in 1..Len(rob) \/ i = Len(rob) + 1
      BY <1>2
    <3> QED
      BY <3>1, <3>2, <3>3
  <2>3. \A n \in Macro : dispatchTick'[n] # NotYet <=> n <= nextDispatch'
    BY <1>1, <1>2 DEF Order, RobInOrder, Dispatched, Types, Macro, NotYet
  <2>4. \A n \in Macro : retireTick'[n] # NotYet <=> n <= RetiredCount'
    BY <1>1, <1>2 DEF Order, RobInOrder
  <2> QED
    BY <2>1, <2>2, <2>3, <2>4 DEF RobInOrder, Dispatched
<1>4. dispatchTick[m] = NotYet
  BY <1>1, <1>2 DEF Order, RobInOrder, Dispatched
<1>5. Clock'
  <2>1. Unissued \subseteq Unissued'
    BY <1>1 DEF Unissued, Issued, Types, NotYet, issue
  <2> QED
    BY <1>1, <2>1 DEF Order, Clock, Types, Issued, Completed, scan, issue
<1>6. DataflowOrder'
  <2>1. \A u \in Uop : trace.parent[u] \in Macro
    BY TraceIsValid DEF ValidTrace
  <2>2. \A u \in Uop : Issued(u) => dispatchTick'[trace.parent[u]] = dispatchTick[trace.parent[u]]
    BY <1>1, <1>4, <2>1 DEF Order, DataflowOrder, Types
  <2> QED
    BY <1>1, <2>2 DEF Order, DataflowOrder, Issued, Completed, PartReady, issue
<1> QED
  BY <1>3, <1>5, <1>6 DEF Order

LEMMA IssueOrder ==
    ASSUME Types, Order, NEW u \in Uop, NEW l \in Lane, Issue(u, l)
    PROVE  Order'
<1>1. /\ ~Blocked(u, now)
      /\ u \in candidates
      /\ issueTick' = [issueTick EXCEPT ![u] = now]
      /\ candidates' = candidates \ {u}
      /\ UNCHANGED <<trace, control, front, completeTick>>
  BY DEF Issue, Oldest
<1>2. PICK latency \in Latencies(u) : doneAt' = [doneAt EXCEPT ![u] = now + latency]
  BY DEF Issue
<1>3. latency \in Nat
  BY TraceIsValid, MemoryAssumption DEF Latencies, ValidTrace
<1>4. u \in Unissued /\ ~Issued(u) /\ ~Completed(u) /\ dispatchTick[trace.parent[u]] # NotYet
  BY <1>1 DEF Order, Clock, Unissued
<1>5. Len(rob)' <= nextDispatch' /\ RobInOrder'
  BY <1>1 DEF Order, RobInOrder, RetiredCount, Dispatched, front
<1>6. trace.parent[u] \in Macro
  BY TraceIsValid DEF ValidTrace
<1>7. \A v \in Uop \ {u} : /\ Issued(v)' <=> Issued(v)
                           /\ issueTick'[v] = issueTick[v]
                           /\ doneAt'[v] = doneAt[v]
  BY <1>1, <1>2 DEF Issued, Types
<1>8. issueTick'[u] = now /\ doneAt'[u] = now + latency /\ Issued(u)'
  BY <1>1, <1>2 DEF Issued, Types, NotYet
<1>9. Clock'
  <2>1. candidates' \subseteq Unissued'
    BY <1>1, <1>7 DEF Order, Clock, Unissued, front
  <2>2. \A v \in Uop : Issued(v)' => issueTick'[v] <= now' /\ issueTick'[v] <= doneAt'[v]
    BY <1>1, <1>3, <1>7, <1>8 DEF Order, Clock, control, Types
  <2>3. \A v \in Uop : Completed(v)' =>
           Issued(v)' /\ completeTick'[v] = doneAt'[v] /\ completeTick'[v] <= now'
    BY <1>1, <1>4, <1>7 DEF Order, Clock, Completed, control
  <2>4. \A m \in Macro : dispatchTick'[m] <= now'
    BY <1>1 DEF Order, Clock, front, control
  <2> QED
    BY <2>1, <2>2, <2>3, <2>4 DEF Clock
<1>10. DataflowOrder'
  <2>1. /\ dispatchTick[trace.parent[u]] <= now
        /\ \A d \in trace.dependencies[u] : Completed(d) /\ completeTick[d] <= now
    <3>1. \A d \in trace.dependencies[u] : d \in Uop
      BY TraceIsValid DEF ValidTrace
    <3>2. \A d \in trace.dependencies[u] : Completed(d)
      BY <1>1 DEF Blocked, PortBlocked, DependencyBlocked
    <3> QED
      BY <1>6, <3>1, <3>2 DEF Order, Clock
  <2>2. trace.after[u] # NoUop =>
           /\ trace.after[u] \in Uop \ {u}
           /\ Issued(trace.after[u]) /\ PartReady(u) <= now
    <3>1. trace.after[u] \in Uop \cup {NoUop} /\ trace.gap[u] \in Nat
      BY TraceIsValid DEF ValidTrace
    <3>2. ~PartOrderBlocked(u) /\ ~PartGapBlocked(u, now)
      BY <1>1 DEF Blocked, PortBlocked
    <3>3. trace.after[u] # NoUop => issueTick[trace.after[u]] \in Int /\ Issued(trace.after[u])
      BY <3>1, <3>2 DEF Types, NotYet, PartOrderBlocked
    <3> QED
      BY <1>4, <3>1, <3>2, <3>3 DEF PartGapBlocked, PartReady, Types
  <2>3. ASSUME NEW v \in Uop, Issued(v)'
        PROVE  /\ dispatchTick'[trace'.parent[v]] # NotYet
               /\ dispatchTick'[trace'.parent[v]] <= issueTick'[v]
               /\ \A d \in trace'.dependencies[v] :
                     Completed(d)' /\ completeTick'[d] <= issueTick'[v]
               /\ trace'.after[v] # NoUop =>
                     Issued(trace.after[v])' /\ PartReady(v)' <= issueTick'[v]
    <3>1. CASE v = u
      BY <1>1, <1>4, <1>7, <1>8, <2>1, <2>2, <3>1 DEF Completed, PartReady, front
    <3>2. CASE v # u
      <4>1. trace.after[v] \in Uop \cup {NoUop}
        BY TraceIsValid DEF ValidTrace
      <4> QED
        BY <1>1, <1>4, <1>7, <2>3, <3>2, <4>1
        DEF Order, DataflowOrder, Completed, PartReady, front
    <3> QED
      BY <3>1, <3>2
  <2>4. \A v \in Uop : retireTick'[trace'.parent[v]] # NotYet =>
           Completed(v)' /\ completeTick'[v] <= retireTick'[trace'.parent[v]]
    BY <1>1 DEF Order, DataflowOrder, Completed, front
  <2> QED
    BY <1>1, <2>3, <2>4 DEF DataflowOrder
<1> QED
  BY <1>5, <1>9, <1>10 DEF Order

LEMMA RetireOrder ==
    ASSUME Types, Order, NEW m \in Macro, Retire(m)
    PROVE  Order'
<1>1. /\ rob # <<>> /\ m = Head(rob) /\ Retirable(m)
      /\ rob' = Tail(rob)
      /\ retireTick' = [retireTick EXCEPT ![m] = now]
      /\ UNCHANGED <<trace, now, nextDispatch, dispatchTick, scan, issue, completeTick>>
  BY DEF Retire
<1>2. /\ Len(rob) \in Nat \ {0} /\ Len(rob') = Len(rob) - 1 /\ m = rob[1]
      /\ \A i \in 1..Len(rob') : rob'[i] = rob[i + 1]
  BY <1>1 DEF Types
<1>3. m = RetiredCount + 1 /\ RetiredCount' = RetiredCount + 1 /\ RetiredCount \in Int
  BY <1>1, <1>2 DEF Order, RobInOrder, RetiredCount, Types
<1>4. Len(rob)' <= nextDispatch' /\ RobInOrder'
  <2>1. Len(rob)' <= nextDispatch'
    BY <1>1, <1>2 DEF Order, Types
  <2>2. \A i \in 1..Len(rob)' : rob'[i] = RetiredCount' + i
    BY <1>1, <1>2, <1>3 DEF Order, RobInOrder
  <2>3. \A n \in Macro : retireTick'[n] # NotYet <=> n <= RetiredCount'
    BY <1>1, <1>3 DEF Order, RobInOrder, Types, Macro, NotYet
  <2>4. \A n \in Macro : dispatchTick'[n] # NotYet <=> n <= nextDispatch'
    BY <1>1 DEF Order, RobInOrder, Dispatched
  <2> QED
    BY <2>1, <2>2, <2>3, <2>4 DEF RobInOrder, Dispatched
<1>5. Clock'
  BY <1>1 DEF Order, Clock, Issued, Completed, Unissued, scan, issue
<1>6. DataflowOrder'
  <2>1. \A u \in Uop : trace.parent[u] = m => Completed(u) /\ completeTick[u] <= now
    BY <1>1 DEF Retirable, UopsOf
  <2>2. \A u \in Uop : retireTick'[trace.parent[u]] # NotYet =>
           Completed(u) /\ completeTick[u] <= retireTick'[trace.parent[u]]
    BY <1>1, <2>1 DEF Order, DataflowOrder, Types
  <2> QED
    BY <1>1, <2>2 DEF Order, DataflowOrder, Issued, Completed, PartReady, issue
<1> QED
  BY <1>4, <1>5, <1>6 DEF Order

LEMMA StepOrder == Types /\ Order /\ [Next]_vars => Order'
<1> SUFFICES ASSUME Types, Order, [Next]_vars PROVE Order'
  OBVIOUS
<1>0. now <= now /\ candidates \subseteq Unissued /\ IssueCandidates \subseteq Unissued
  BY DEF Types, Order, Clock, IssueCandidates
<1>1. ASSUME NEW u \in Uop, Complete(u) PROVE Order'
  BY <1>1, CompleteOrder
<1>2. ASSUME NEW m \in Macro, Dispatch(m) PROVE Order'
  BY <1>2, DispatchOrder
<1>3. ASSUME NEW u \in Uop, NEW l \in Lane, Issue(u, l) PROVE Order'
  BY <1>3, IssueOrder
<1>4. ASSUME NEW m \in Macro, Retire(m) PROVE Order'
  BY <1>4, RetireOrder
<1>5. CASE Iterate
  BY <1>0, <1>5, FrameOrder DEF Iterate, scan, issue, Types
<1>6. CASE CompleteReturns
  BY <1>0, <1>6, FrameOrder DEF CompleteReturns, issue, Types
<1>7. CASE DispatchReturns
  BY <1>0, <1>7, FrameOrder DEF DispatchReturns, scan, issue, Types
<1>8. ASSUME NEW u \in Uop, Skip(u) PROVE Order'
  BY <1>0, <1>8, FrameOrder DEF Skip, control, issue, Types
<1>9. CASE ScanReturns
  BY <1>0, <1>9, FrameOrder DEF ScanReturns, issue, Types
<1>10. CASE RetireReturns
  BY <1>0, <1>10, FrameOrder DEF RetireReturns, scan, issue, Types
<1>11. CASE Finish
  BY <1>0, <1>11, FrameOrder DEF Finish, scan, issue, Types
<1>12. ASSUME NEW tick \in EventTicks, Advance(tick) PROVE Order'
  <2>1. tick \in Int
    BY EventTicksInt
  <2>2. now' \in Nat /\ now <= now'
    BY <1>12, <2>1 DEF Advance, Types
  <2> QED
    BY <1>0, <1>12, <2>2, FrameOrder DEF Advance, scan, issue
<1>13. CASE Stopped
  BY <1>0, <1>13, FrameOrder DEF Stopped, vars, control, scan, issue, Types
<1>14. CASE UNCHANGED vars
  BY <1>0, <1>14, FrameOrder DEF vars, control, scan, issue, Types
<1> QED
  BY <1>1, <1>2, <1>3, <1>4, <1>5, <1>6, <1>7, <1>8, <1>9, <1>10, <1>11,
     <1>12, <1>13, <1>14 DEF Next

THEOREM TypesAndOrder == Spec => [](Types /\ Order)
<1>1. Init => Types /\ Order
  BY InitTypes, InitOrder
<1>2. Types /\ Order /\ [Next]_vars => (Types /\ Order)'
  BY StepTypes, StepOrder
<1> QED
  BY <1>1, <1>2, PTL DEF Spec

\* Whatever the trace, the profile and the memory, no uop is issued before its
\* producers have completed or before its part gap, no macro-op retires before
\* its uops, and the ROB holds the dispatched, unretired macro-ops in program
\* order: _issue_blocker's dependency test and _retire's completion test of the
\* head alone are enough.
THEOREM OrderKeptHolds == Spec => []OrderKept
<1>1. Types /\ Order => OrderKept
  BY DEF Order, OrderKept
<1> QED
  BY <1>1, TypesAndOrder, PTL

-----------------------------------------------------------------------------
(***************************************************************************)
(* Lanes and classes.  A lane is free no earlier than the uops issued to   *)
(* it have passed, a class was last issued no earlier than its uops.       *)
(***************************************************************************)
Reserved ==
    \A u \in Uop : Issued(u) =>
        /\ laneOf[u] \in Lane
        /\ issueTick[u] + trace.occupancy[u] <= resourceFree[laneOf[u]]
        /\ lastIssue[trace.class[u]] # NotYet
        /\ issueTick[u] <= lastIssue[trace.class[u]]

Lanes == Reserved /\ LaneExclusive /\ ClassSpacing

LEMMA InitLanes == Init => Lanes
<1> SUFFICES ASSUME Init PROVE Lanes
  OBVIOUS
<1>1. \A u \in Uop : ~Issued(u)
  BY DEF Init, Issued
<1> QED
  BY <1>1 DEF Lanes, Reserved, LaneExclusive, ClassSpacing

LEMMA IssueLanes ==
    ASSUME Types, Order, Lanes, NEW u \in Uop, NEW l \in Lane, Issue(u, l)
    PROVE  Lanes'
<1> DEFINE c == trace.class[u]
<1>1. /\ ~Blocked(u, now) /\ ChosenLane(u, l) /\ u \in candidates
      /\ issueTick' = [issueTick EXCEPT ![u] = now]
      /\ laneOf' = [laneOf EXCEPT ![u] = l]
      /\ resourceFree' = [resourceFree EXCEPT ![l] = now + trace.occupancy[u]]
      /\ lastIssue' = [lastIssue EXCEPT ![c] = now]
      /\ trace' = trace
  BY DEF Issue, Oldest
<1>2. \A v \in Uop : /\ trace.class[v] \in Class
                     /\ trace.occupancy[v] \in Nat
                     /\ trace.interval[v] \in Nat
  BY TraceIsValid DEF ValidTrace
<1>3. ~Issued(u)
  BY <1>1 DEF Order, Clock, Unissued
<1>4. \A v \in Uop \ {u} : /\ Issued(v)' <=> Issued(v)
                           /\ issueTick'[v] = issueTick[v]
                           /\ laneOf'[v] = laneOf[v]
  BY <1>1 DEF Issued, Types
<1>5. Issued(u)' /\ issueTick'[u] = now /\ laneOf'[u] = l
  BY <1>1 DEF Issued, Types, NotYet
<1>6. \A k \in Lane : resourceFree[k] \in Nat
  BY DEF Types
<1>7. resourceFree[l] <= now
  <2>1. PICK k \in LanesOf(u) : ~(resourceFree[k] > now)
    BY <1>1 DEF Blocked, PortBlocked, ResourceBlocked
  <2>2. k \in Lane
    BY <2>1 DEF LanesOf
  <2>3. resourceFree[l] < resourceFree[k] \/ resourceFree[l] = resourceFree[k]
    BY <1>1, <2>1 DEF ChosenLane
  <2> QED
    BY <1>6, <2>1, <2>2, <2>3 DEF Types
<1>8. lastIssue[c] # NotYet => lastIssue[c] + trace.interval[u] <= now
  <2>1. ~IntervalBlocked(u, now)
    BY <1>1 DEF Blocked, PortBlocked
  <2>2. lastIssue[c] \in Int
    BY <1>2 DEF Types, NotYet
  <2> QED
    BY <1>2, <2>1, <2>2 DEF IntervalBlocked, IntervalReady, Types
<1>9. \A v \in Uop : Issued(v) => issueTick[v] \in Nat /\ issueTick[v] <= now
  BY DEF Order, Clock, Types, Issued
<1>10. ASSUME NEW v \in Uop \ {u}, Issued(v)
       PROVE  /\ laneOf[v] = l => issueTick[v] + trace.occupancy[v] <= now
              /\ trace.class[v] = c => issueTick[v] + trace.interval[u] <= now
  <2>1. laneOf[v] = l => issueTick[v] + trace.occupancy[v] <= now
    BY <1>2, <1>6, <1>7, <1>9, <1>10 DEF Lanes, Reserved, Types
  <2>2. ASSUME trace.class[v] = c PROVE issueTick[v] + trace.interval[u] <= now
    <3>1. lastIssue[c] \in Nat /\ issueTick[v] <= lastIssue[c]
      BY <1>2, <1>10, <2>2 DEF Lanes, Reserved, Types
    <3> QED
      BY <1>2, <1>8, <1>9, <1>10, <3>1 DEF Types, NotYet
  <2> QED
    BY <2>1, <2>2
<1>11. Reserved'
  <2>1. ASSUME NEW v \in Uop, Issued(v)'
        PROVE  /\ laneOf'[v] \in Lane
               /\ issueTick'[v] + trace.occupancy[v] <= resourceFree'[laneOf'[v]]
    <3>1. CASE v = u
      BY <1>1, <1>2, <1>5, <3>1 DEF Types
    <3>2. CASE v # u /\ laneOf[v] = l
      BY <1>1, <1>2, <1>4, <1>9, <1>10, <2>1, <3>2 DEF Types
    <3>3. CASE v # u /\ laneOf[v] # l
      BY <1>1, <1>4, <2>1, <3>3 DEF Lanes, Reserved, Types
    <3> QED
      BY <3>1, <3>2, <3>3
  <2>2. ASSUME NEW v \in Uop, Issued(v)'
        PROVE  /\ lastIssue'[trace.class[v]] # NotYet
               /\ issueTick'[v] <= lastIssue'[trace.class[v]]
    <3>1. CASE trace.class[v] = c
      BY <1>1, <1>2, <1>4, <1>5, <1>9, <2>2, <3>1 DEF Types, NotYet
    <3>2. CASE trace.class[v] # c
      BY <1>1, <1>2, <1>4, <2>2, <3>2 DEF Lanes, Reserved, Types
    <3> QED
      BY <3>1, <3>2
  <2> QED
    BY <1>1, <2>1, <2>2 DEF Reserved
<1>12. LaneExclusive'
  <2> SUFFICES ASSUME NEW v \in Uop, NEW w \in Uop, v # w, Issued(v)', Issued(w)',
                      laneOf'[v] = laneOf'[w]
               PROVE  \/ issueTick'[v] + trace.occupancy[v] <= issueTick'[w]
                      \/ issueTick'[w] + trace.occupancy[w] <= issueTick'[v]
    BY <1>1 DEF LaneExclusive
  <2>1. CASE v = u
    BY <1>4, <1>5, <1>10, <2>1
  <2>2. CASE w = u
    BY <1>4, <1>5, <1>10, <2>2
  <2>3. CASE v # u /\ w # u
    BY <1>4, <2>3 DEF Lanes, LaneExclusive
  <2> QED
    BY <2>1, <2>2, <2>3
<1>13. ClassSpacing'
  <2> SUFFICES ASSUME NEW v \in Uop, NEW w \in Uop, v # w, Issued(v)', Issued(w)',
                      trace.class[v] = trace.class[w]
               PROVE  \/ issueTick'[v] + trace.interval[w] <= issueTick'[w]
                      \/ issueTick'[w] + trace.interval[v] <= issueTick'[v]
    BY <1>1 DEF ClassSpacing
  <2>1. CASE v = u
    BY <1>4, <1>5, <1>10, <2>1
  <2>2. CASE w = u
    BY <1>4, <1>5, <1>10, <2>2
  <2>3. CASE v # u /\ w # u
    BY <1>4, <2>3 DEF Lanes, ClassSpacing
  <2> QED
    BY <2>1, <2>2, <2>3
<1> QED
  BY <1>11, <1>12, <1>13 DEF Lanes

LEMMA StepLanes == Types /\ Order /\ Lanes /\ [Next]_vars => Lanes'
<1> SUFFICES ASSUME Types, Order, Lanes, [Next]_vars PROVE Lanes'
  OBVIOUS
<1>1. ASSUME NEW u \in Uop, NEW l \in Lane, Issue(u, l) PROVE Lanes'
  BY <1>1, IssueLanes
<1>2. CASE UNCHANGED <<trace, issue>>
  BY <1>2 DEF issue, Lanes, Reserved, LaneExclusive, ClassSpacing, Issued
<1>3. UNCHANGED <<trace, issue>> \/ \E u \in Uop, l \in Lane : Issue(u, l)
  BY DEF Next, vars, Iterate, Complete, CompleteReturns, Dispatch, DispatchReturns,
         Skip, ScanReturns, Retire, RetireReturns, Finish, Advance, Stopped
<1> QED
  BY <1>1, <1>2, <1>3

\* Two uops never overlap on one lane, and uops of one scheduling class keep
\* their issue interval: choosing the earliest free lane and remembering the
\* last issue of a class never books either twice.
THEOREM ResourceExclusiveHolds == Spec => []ResourceExclusive
<1>1. Init => Types /\ Order /\ Lanes
  BY InitTypes, InitOrder, InitLanes
<1>2. Types /\ Order /\ Lanes /\ [Next]_vars => (Types /\ Order /\ Lanes)'
  BY StepTypes, StepOrder, StepLanes
<1>3. Types /\ Order /\ Lanes => ResourceExclusive
  BY DEF Lanes, ResourceExclusive
<1> QED
  BY <1>1, <1>2, <1>3, PTL DEF Spec

-----------------------------------------------------------------------------
(***************************************************************************)
(* In-order issue.  The index separates the issued uops from the others,   *)
(* and the only candidate of a scan is the next one.                       *)
(***************************************************************************)
Index ==
    /\ \A u \in Uop : Issued(u) <=> u <= issueIndex
    /\ candidates \subseteq {issueIndex + 1}
    /\ \A u, v \in Uop : u < v /\ Issued(v) => issueTick[u] <= issueTick[v]
InOrder == ~OutOfOrder => Index

LEMMA InitInOrder == Init => InOrder
<1> SUFFICES ASSUME Init PROVE Index
  BY DEF InOrder
<1>1. \A u \in Uop : ~Issued(u)
  BY DEF Init, Issued
<1>2. issueIndex = 0 /\ candidates = {}
  BY DEF Init
<1> QED
  BY <1>1, <1>2, CountAssumption DEF Index, Uop

LEMMA IssueInOrder ==
    ASSUME Types, Order, InOrder, NEW u \in Uop, NEW l \in Lane, Issue(u, l)
    PROVE  InOrder'
<1> SUFFICES ASSUME ~OutOfOrder PROVE Index'
  BY DEF InOrder, OutOfOrder, Issue
<1>1. /\ u \in candidates /\ candidates' = candidates \ {u}
      /\ issueTick' = [issueTick EXCEPT ![u] = now]
      /\ issueIndex' = issueIndex + 1
  BY DEF Issue, Oldest
<1>2. u = issueIndex + 1 /\ issueIndex \in Nat /\ now \in Nat
  BY <1>1 DEF InOrder, Index, Types
<1>3. \A v \in Uop : Issued(v)' <=> Issued(v) \/ v = u
  BY <1>1, <1>2 DEF Issued, Types, NotYet
<1>4. \A v \in Uop : Issued(v)' <=> v <= issueIndex'
  BY <1>1, <1>2, <1>3 DEF InOrder, Index, Uop
<1>5. \A v, w \in Uop : v < w /\ Issued(w)' => issueTick'[v] <= issueTick'[w]
  <2> SUFFICES ASSUME NEW v \in Uop, NEW w \in Uop, v < w, Issued(w)'
               PROVE  issueTick'[v] <= issueTick'[w]
    OBVIOUS
  <2>1. v # u /\ issueTick'[v] = issueTick[v] /\ Issued(v)
    BY <1>1, <1>2, <1>4 DEF InOrder, Index, Types, Uop
  <2>2. CASE w = u
    BY <1>1, <2>1, <2>2 DEF Order, Clock, Types
  <2>3. CASE w # u
    BY <1>1, <1>3, <2>1, <2>3 DEF InOrder, Index, Types
  <2> QED
    BY <2>2, <2>3
<1>6. candidates' \subseteq {issueIndex' + 1}
  BY <1>1, <1>2 DEF InOrder, Index
<1> QED
  BY <1>4, <1>5, <1>6 DEF Index

\* A step that issues nothing and takes its candidates from _issue_candidates.
LEMMA FrameInOrder ==
    ASSUME InOrder, UNCHANGED <<trace, issue>>,
           candidates' \subseteq candidates \cup IssueCandidates
    PROVE  InOrder'
BY DEF InOrder, Index, Issued, IssueCandidates, OutOfOrder, issue

LEMMA StepInOrder == Types /\ Order /\ InOrder /\ [Next]_vars => InOrder'
<1> SUFFICES ASSUME Types, Order, InOrder, [Next]_vars PROVE InOrder'
  OBVIOUS
<1>1. ASSUME NEW u \in Uop, NEW l \in Lane, Issue(u, l) PROVE InOrder'
  BY <1>1, IssueInOrder
<1>2. ASSUME NEW u \in Uop, Complete(u) PROVE InOrder'
  BY <1>2, FrameInOrder DEF Complete
<1>3. ASSUME NEW m \in Macro, Dispatch(m) PROVE InOrder'
  BY <1>3, FrameInOrder DEF Dispatch, scan
<1>4. ASSUME NEW m \in Macro, Retire(m) PROVE InOrder'
  BY <1>4, FrameInOrder DEF Retire, scan
<1>5. ASSUME NEW u \in Uop, Skip(u) PROVE InOrder'
  BY <1>5, FrameInOrder DEF Skip
<1>6. ASSUME NEW tick \in EventTicks, Advance(tick) PROVE InOrder'
  BY <1>6, FrameInOrder DEF Advance, scan
<1>7. CASE CompleteReturns
  BY <1>7, FrameInOrder DEF CompleteReturns
<1>8. CASE Iterate \/ DispatchReturns \/ RetireReturns \/ Finish
  BY <1>8, FrameInOrder DEF Iterate, DispatchReturns, RetireReturns, Finish, scan
<1>9. CASE ScanReturns
  BY <1>9, FrameInOrder DEF ScanReturns
<1>10. CASE Stopped \/ UNCHANGED vars
  BY <1>10, FrameInOrder DEF Stopped, vars, scan
<1> QED
  BY <1>1, <1>2, <1>3, <1>4, <1>5, <1>6, <1>7, <1>8, <1>9, <1>10 DEF Next

\* With in-order issue no uop is issued before an older one, whatever stands in
\* the way of the older one: in_order_issue_index moves on only when it issues.
THEOREM ProgramOrderIssueHolds == Spec => []ProgramOrderIssue
<1>1. Init => InOrder
  BY InitInOrder
<1>2. Types /\ Order /\ InOrder /\ [Next]_vars => InOrder'
  BY StepInOrder
<1>3. Types /\ InOrder => ProgramOrderIssue
  <2> SUFFICES ASSUME Types, InOrder, ~OutOfOrder, NEW u \in Uop, NEW v \in Uop,
                      u < v, Issued(v)
               PROVE  Issued(u) /\ issueTick[u] <= issueTick[v]
    BY DEF ProgramOrderIssue
  <2> QED
    BY DEF InOrder, Index, Types, Uop
<1> QED
  BY <1>1, <1>2, <1>3, TypesAndOrder, PTL DEF Spec

-----------------------------------------------------------------------------
(***************************************************************************)
(* The accounts of the engine.  Each occupancy counter is the cardinality  *)
(* of a set of macro-ops: those in the reorder buffer that use a queue,    *)
(* those dispatched that still wait with all their vector uops.            *)
(***************************************************************************)
Loading == {m \in InRob : UsesLoad(m)}
Storing == {m \in InRob : UsesStore(m)}
VectorWaits(m) == UsesVector(m) /\ \A u \in UopsOf(m) : IsVector(u) => ~Issued(u)
Waiting == {m \in 1..nextDispatch : VectorWaits(m)}

\* The groups of which a load was issued and a compute uop was not.
OpenGroup(m) ==
    /\ \E u \in UopsOf(m) : trace.kind[u] = "load_data" /\ Issued(u)
    /\ \E u \in ComputeOf(m) : ~Issued(u)

Counted ==
    /\ robOcc = trace.ops[nextDispatch] - trace.ops[RetiredCount]
    /\ lqOcc = Cardinality(Loading)
    /\ sqOcc = Cardinality(Storing)
    /\ vecOcc = Cardinality(Waiting)

Grouped ==
    OverlapLimit => /\ pendingGroups = {m \in Macro : OpenGroup(m)}
                    /\ Cardinality(pendingGroups) <= MaxPendingGroups

Accounts == Counted /\ QueuesBounded /\ Grouped

\* The macro-ops from one number to another are finitely many.
LEMMA WindowFinite ==
    ASSUME NEW i \in Int, NEW j \in Int, NEW S \in SUBSET (i..j)
    PROVE  IsFiniteSet(S) /\ Cardinality(S) \in Nat
<1>1. IsFiniteSet(i..j)
  BY FS_Interval
<1>2. IsFiniteSet(S)
  BY <1>1, FS_Subset
<1> QED
  BY <1>2, FS_CardinalityType

\* Where the counted sets lie, and that they are finite.
LEMMA CountsFinite ==
    ASSUME Types, Order
    PROVE  /\ RetiredCount \in Nat /\ RetiredCount <= nextDispatch
           /\ Loading \subseteq InRob /\ Storing \subseteq InRob
           /\ Waiting \subseteq 1..nextDispatch
           /\ IsFiniteSet(Loading) /\ Cardinality(Loading) \in Nat
           /\ IsFiniteSet(Storing) /\ Cardinality(Storing) \in Nat
           /\ IsFiniteSet(Waiting) /\ Cardinality(Waiting) \in Nat
           /\ IsFiniteSet(pendingGroups) /\ Cardinality(pendingGroups) \in Nat
<1>1. RetiredCount \in Nat /\ RetiredCount <= nextDispatch
  <2>1. nextDispatch \in Nat /\ Len(rob) \in Nat /\ Len(rob) <= nextDispatch
    BY CountAssumption DEF Types, Order
  <2> QED
    BY <2>1 DEF RetiredCount
<1>2. Loading \subseteq InRob /\ Storing \subseteq InRob /\ Waiting \subseteq 1..nextDispatch
  BY DEF Loading, Storing, Waiting
<1>3. nextDispatch \in Int /\ RetiredCount + 1 \in Int /\ 1 \in Int /\ NumMacros \in Int
  BY <1>1, CountAssumption DEF Types
<1>4. IsFiniteSet(Loading) /\ Cardinality(Loading) \in Nat
  BY <1>2, <1>3, WindowFinite DEF InRob
<1>5. IsFiniteSet(Storing) /\ Cardinality(Storing) \in Nat
  BY <1>2, <1>3, WindowFinite DEF InRob
<1>6. IsFiniteSet(Waiting) /\ Cardinality(Waiting) \in Nat
  BY <1>2, <1>3, WindowFinite
<1>7. pendingGroups \in SUBSET (1..NumMacros)
  BY DEF Types, Macro
<1>8. IsFiniteSet(pendingGroups) /\ Cardinality(pendingGroups) \in Nat
  BY <1>3, <1>7, WindowFinite
<1> QED
  BY <1>1, <1>2, <1>4, <1>5, <1>6, <1>8

LEMMA InitAccounts == Init => Accounts
<1> SUFFICES ASSUME Init PROVE Accounts
  OBVIOUS
<1>1. nextDispatch = 0 /\ RetiredCount = 0 /\ trace \in Traces
  <2>1. nextDispatch = 0 /\ trace \in Traces
    BY DEF Init
  <2>2. Len(rob) = 0
    BY DEF Init
  <2> QED
    BY <2>1, <2>2 DEF RetiredCount
<1>2. trace.ops[0] = 0
  BY <1>1, TraceAssumption DEF ValidTrace
<1>3. Loading = {} /\ Storing = {} /\ Waiting = {}
  BY <1>1 DEF Loading, Storing, Waiting, InRob
<1>4. Cardinality({}) = 0
  BY FS_EmptySet
<1>5. Counted
  BY <1>1, <1>2, <1>3, <1>4 DEF Counted, Init
<1>6. QueuesBounded
  BY PipelineAssumption DEF QueuesBounded, Init
<1>7. {m \in Macro : OpenGroup(m)} = {}
  <2>1. \A u \in Uop : ~Issued(u)
    BY DEF Issued, Init
  <2>2. \A m \in Macro : ~OpenGroup(m)
    BY <2>1 DEF OpenGroup, UopsOf
  <2> QED
    BY <2>2
<1>8. Grouped
  BY <1>4, <1>7, PipelineAssumption DEF Grouped, Init
<1> QED
  BY <1>5, <1>6, <1>8 DEF Accounts

\* A step that dispatches, issues and retires nothing.
LEMMA FrameAccounts ==
    ASSUME Accounts, UNCHANGED <<trace, nextDispatch, rob, occupancy, issueTick, pendingGroups>>
    PROVE  Accounts'
<1>1. RetiredCount' = RetiredCount /\ InRob' = InRob
  BY DEF RetiredCount, InRob
<1>2. /\ Loading' = Loading /\ Storing' = Storing
  BY <1>1 DEF Loading, Storing, UsesLoad, UsesStore, UsesKind, UopsOf
<1>3. Waiting' = Waiting
  BY DEF Waiting, VectorWaits, UsesVector, UsesKind, UopsOf, IsVector, Issued
<1>4. {m \in Macro : OpenGroup(m)}' = {m \in Macro : OpenGroup(m)}
  BY DEF OpenGroup, UopsOf, ComputeOf, Issued
<1> QED
  BY <1>1, <1>2, <1>3, <1>4
  DEF Accounts, Counted, QueuesBounded, Grouped, OverlapLimit, occupancy

\* The window of the reorder buffer after a dispatch and after a retirement.
LEMMA DispatchWindow ==
    ASSUME Types, Order, NEW m \in Macro, Dispatch(m)
    PROVE  /\ m = nextDispatch + 1 /\ nextDispatch' = m
           /\ RetiredCount' = RetiredCount
           /\ InRob' = InRob \cup {m} /\ m \notin InRob
           /\ 1..nextDispatch' = (1..nextDispatch) \cup {m}
           /\ m \notin 1..nextDispatch
<1>1. m = nextDispatch + 1 /\ nextDispatch' = m /\ rob' = Append(rob, m)
  BY DEF Dispatch, Enqueued
<1>2. nextDispatch \in Nat /\ Len(rob) \in Nat /\ Len(rob') = Len(rob) + 1
  BY <1>1 DEF Types
<1>3. RetiredCount' = RetiredCount
  BY <1>1, <1>2 DEF RetiredCount
<1>4. RetiredCount \in Nat /\ RetiredCount <= nextDispatch
  BY CountsFinite
<1>5. InRob' = InRob \cup {m} /\ m \notin InRob
  BY <1>1, <1>2, <1>3, <1>4 DEF InRob
<1>6. 1..nextDispatch' = (1..nextDispatch) \cup {m} /\ m \notin 1..nextDispatch
  BY <1>1, <1>2
<1> QED
  BY <1>1, <1>3, <1>5, <1>6

LEMMA DispatchAccounts ==
    ASSUME Types, Order, Accounts, NEW m \in Macro, Dispatch(m)
    PROVE  Accounts'
<1>1. /\ m = nextDispatch + 1 /\ nextDispatch' = m
      /\ RetiredCount' = RetiredCount
      /\ InRob' = InRob \cup {m} /\ m \notin InRob
      /\ 1..nextDispatch' = (1..nextDispatch) \cup {m}
      /\ m \notin 1..nextDispatch
  BY DispatchWindow
<1>2. /\ Dispatchable(m)
      /\ robOcc' = robOcc + Decoded(m)
      /\ vecOcc' = vecOcc + One(UsesVector(m))
      /\ lqOcc' = lqOcc + One(UsesLoad(m))
      /\ sqOcc' = sqOcc + One(UsesStore(m))
      /\ UNCHANGED <<trace, issueTick, pendingGroups>>
  BY DEF Dispatch, issue
<1>3. /\ RetiredCount \in Nat /\ RetiredCount <= nextDispatch
      /\ IsFiniteSet(Loading) /\ Cardinality(Loading) \in Nat
      /\ IsFiniteSet(Storing) /\ Cardinality(Storing) \in Nat
      /\ IsFiniteSet(Waiting) /\ Cardinality(Waiting) \in Nat
      /\ Loading \subseteq InRob /\ Storing \subseteq InRob
      /\ Waiting \subseteq 1..nextDispatch
  BY CountsFinite
<1>4. ValidTrace(trace)
  BY TraceIsValid
<1>5. /\ \A n \in Macro : UsesLoad(n)' <=> UsesLoad(n)
      /\ \A n \in Macro : UsesStore(n)' <=> UsesStore(n)
      /\ \A n \in Macro : VectorWaits(n)' <=> VectorWaits(n)
  BY <1>2 DEF UsesLoad, UsesStore, UsesVector, UsesKind, UopsOf, VectorWaits, IsVector, Issued
<1>6. InRob \subseteq Macro /\ 1..nextDispatch \subseteq Macro
  BY <1>3, CountAssumption DEF InRob, Macro, Types
<1>7. robOcc' = trace'.ops[nextDispatch'] - trace'.ops[RetiredCount'] /\ robOcc' <= RobEntries
  <2>1. /\ nextDispatch \in 0..NumMacros /\ RetiredCount \in 0..NumMacros
        /\ m \in 0..NumMacros /\ m - 1 = nextDispatch
    BY <1>1, <1>3, CountAssumption DEF Types, Macro
  <2>2. trace.ops[nextDispatch] \in Nat /\ trace.ops[RetiredCount] \in Nat /\ trace.ops[m] \in Nat
    BY <1>4, <2>1 DEF ValidTrace
  <2>3. Decoded(m) = trace.ops[m] - trace.ops[nextDispatch]
    BY <2>1 DEF Decoded
  <2>4. robOcc' = trace.ops[m] - trace.ops[RetiredCount]
    BY <1>2, <2>2, <2>3 DEF Accounts, Counted
  <2>5. robOcc' <= RobEntries
    BY <1>2 DEF Dispatchable
  <2> QED
    BY <1>1, <1>2, <2>4, <2>5
<1>8. lqOcc' = Cardinality(Loading') /\ lqOcc' <= LoadEntries
  <2>1. CASE UsesLoad(m)
    <3>1. Loading' = Loading \cup {m} /\ m \notin Loading
      BY <1>1, <1>3, <1>5, <1>6, <2>1 DEF Loading
    <3>2. Cardinality(Loading') = Cardinality(Loading) + 1
      BY <1>3, <3>1, FS_AddElement
    <3>3. lqOcc' = lqOcc + 1 /\ lqOcc < LoadEntries /\ lqOcc = Cardinality(Loading)
      BY <1>2, <2>1 DEF One, Dispatchable, Accounts, Counted
    <3> QED
      BY <1>3, <3>2, <3>3, PipelineAssumption
  <2>2. CASE ~UsesLoad(m)
    <3>1. Loading' = Loading
      BY <1>1, <1>5, <1>6, <2>2 DEF Loading
    <3>2. lqOcc = Cardinality(Loading) /\ lqOcc <= LoadEntries
      BY DEF Accounts, Counted, QueuesBounded
    <3>3. lqOcc' = lqOcc + 0
      BY <1>2, <2>2 DEF One
    <3> QED
      BY <1>3, <3>1, <3>2, <3>3
  <2> QED
    BY <2>1, <2>2
<1>9. sqOcc' = Cardinality(Storing') /\ sqOcc' <= StoreEntries
  <2>1. CASE UsesStore(m)
    <3>1. Storing' = Storing \cup {m} /\ m \notin Storing
      BY <1>1, <1>3, <1>5, <1>6, <2>1 DEF Storing
    <3>2. Cardinality(Storing') = Cardinality(Storing) + 1
      BY <1>3, <3>1, FS_AddElement
    <3>3. sqOcc' = sqOcc + 1 /\ sqOcc < StoreEntries /\ sqOcc = Cardinality(Storing)
      BY <1>2, <2>1 DEF One, Dispatchable, Accounts, Counted
    <3> QED
      BY <1>3, <3>2, <3>3, PipelineAssumption
  <2>2. CASE ~UsesStore(m)
    <3>1. Storing' = Storing
      BY <1>1, <1>5, <1>6, <2>2 DEF Storing
    <3>2. sqOcc = Cardinality(Storing) /\ sqOcc <= StoreEntries
      BY DEF Accounts, Counted, QueuesBounded
    <3>3. sqOcc' = sqOcc + 0
      BY <1>2, <2>2 DEF One
    <3> QED
      BY <1>3, <3>1, <3>2, <3>3
  <2> QED
    BY <2>1, <2>2
\* None of the macro-op's uops can have been issued before its dispatch.
<1>10. VectorWaits(m) <=> UsesVector(m)
  <2>1. \A u \in UopsOf(m) : ~Issued(u)
    <3> SUFFICES ASSUME NEW u \in UopsOf(m), Issued(u) PROVE FALSE
      OBVIOUS
    <3>1. u \in Uop /\ trace.parent[u] = m
      BY DEF UopsOf
    <3>2. dispatchTick[m] # NotYet
      BY <3>1 DEF Order, DataflowOrder
    <3>3. m <= nextDispatch
      BY <3>2 DEF Order, RobInOrder, Dispatched
    <3> QED
      BY <1>1, <3>3 DEF Types
  <2> QED
    BY <2>1 DEF VectorWaits
<1>11. vecOcc' = Cardinality(Waiting') /\ vecOcc' <= VectorEntries
  <2>1. vecOcc = Cardinality(Waiting)
    BY DEF Accounts, Counted
  <2>2. vecOcc' <= VectorEntries
    BY <1>2 DEF Dispatchable
  <2>3. CASE UsesVector(m)
    <3>1. Waiting' = Waiting \cup {m} /\ m \notin Waiting
      BY <1>1, <1>3, <1>5, <1>6, <1>10, <2>3 DEF Waiting
    <3>2. Cardinality(Waiting') = Cardinality(Waiting) + 1
      BY <1>3, <3>1, FS_AddElement
    <3>3. vecOcc' = vecOcc + 1
      BY <1>2, <2>3 DEF One
    <3> QED
      BY <2>1, <2>2, <3>2, <3>3
  <2>4. CASE ~UsesVector(m)
    <3>1. Waiting' = Waiting
      BY <1>1, <1>5, <1>6, <1>10, <2>4 DEF Waiting
    <3>2. vecOcc' = vecOcc + 0
      BY <1>2, <2>4 DEF One
    <3> QED
      BY <1>3, <2>1, <2>2, <3>1, <3>2
  <2> QED
    BY <2>3, <2>4
<1>12. Grouped'
  <2>1. {n \in Macro : OpenGroup(n)}' = {n \in Macro : OpenGroup(n)}
    BY <1>2 DEF OpenGroup, UopsOf, ComputeOf, Issued
  <2> QED
    BY <1>2, <2>1 DEF Accounts, Grouped, OverlapLimit
<1> QED
  BY <1>7, <1>8, <1>9, <1>11, <1>12 DEF Accounts, Counted, QueuesBounded

LEMMA RetireWindow ==
    ASSUME Types, Order, NEW m \in Macro, Retire(m)
    PROVE  /\ m = RetiredCount + 1 /\ RetiredCount' = m
           /\ nextDispatch' = nextDispatch /\ m <= nextDispatch
           /\ InRob' = InRob \ {m} /\ m \in InRob
<1>1. rob # <<>> /\ m = Head(rob) /\ rob' = Tail(rob) /\ nextDispatch' = nextDispatch
  BY DEF Retire
<1>2. /\ nextDispatch \in Nat /\ Len(rob) \in Nat /\ Len(rob) >= 1
      /\ Len(rob') = Len(rob) - 1 /\ m = rob[1]
  BY <1>1 DEF Types
<1>3. m = RetiredCount + 1
  BY <1>2 DEF Order, RobInOrder
<1>4. RetiredCount \in Nat /\ RetiredCount <= nextDispatch
  BY CountsFinite
<1>5. RetiredCount' = m /\ m <= nextDispatch
  BY <1>1, <1>2, <1>3 DEF RetiredCount
<1>6. InRob' = InRob \ {m} /\ m \in InRob
  BY <1>1, <1>2, <1>3, <1>4, <1>5 DEF InRob
<1> QED
  BY <1>1, <1>3, <1>5, <1>6

LEMMA RetireAccounts ==
    ASSUME Types, Order, Accounts, NEW m \in Macro, Retire(m)
    PROVE  Accounts'
<1>1. /\ m = RetiredCount + 1 /\ RetiredCount' = m
      /\ nextDispatch' = nextDispatch /\ m <= nextDispatch
      /\ InRob' = InRob \ {m} /\ m \in InRob
  BY RetireWindow
<1>2. /\ robOcc' = robOcc - Decoded(m)
      /\ lqOcc' = lqOcc - One(UsesLoad(m))
      /\ sqOcc' = sqOcc - One(UsesStore(m))
      /\ vecOcc' = vecOcc
      /\ UNCHANGED <<trace, issueTick, pendingGroups>>
  BY DEF Retire, issue
<1>3. /\ RetiredCount \in Nat /\ RetiredCount <= nextDispatch
      /\ IsFiniteSet(Loading) /\ Cardinality(Loading) \in Nat
      /\ IsFiniteSet(Storing) /\ Cardinality(Storing) \in Nat
  BY CountsFinite
<1>4. ValidTrace(trace)
  BY TraceIsValid
<1>5. /\ \A n \in Macro : UsesLoad(n)' <=> UsesLoad(n)
      /\ \A n \in Macro : UsesStore(n)' <=> UsesStore(n)
  BY <1>2 DEF UsesLoad, UsesStore, UsesKind, UopsOf
<1>6. InRob \subseteq Macro
  BY <1>3, CountAssumption DEF InRob, Macro, Types
<1>7. /\ robOcc' = trace'.ops[nextDispatch'] - trace'.ops[RetiredCount']
      /\ robOcc' <= RobEntries
  <2>1. /\ nextDispatch \in 0..NumMacros /\ RetiredCount \in 0..NumMacros
        /\ m \in 0..NumMacros /\ m - 1 = RetiredCount
    BY <1>1, <1>3, CountAssumption DEF Types, Macro
  <2>2. /\ trace.ops[nextDispatch] \in Nat /\ trace.ops[RetiredCount] \in Nat
        /\ trace.ops[m] \in Nat
    BY <1>4, <2>1 DEF ValidTrace
  <2>3. Decoded(m) = trace.ops[m] - trace.ops[RetiredCount] /\ Decoded(m) \in Nat
    BY <1>4, <2>1, DecodedNat DEF Decoded
  <2>4. robOcc = trace.ops[nextDispatch] - trace.ops[RetiredCount] /\ robOcc <= RobEntries
    BY DEF Accounts, Counted, QueuesBounded
  <2>5. robOcc' = trace.ops[nextDispatch] - trace.ops[m]
    BY <1>2, <2>2, <2>3, <2>4
  <2>6. robOcc' <= RobEntries
    BY <1>2, <2>2, <2>3, <2>4, PipelineAssumption
  <2> QED
    BY <1>1, <1>2, <2>5, <2>6
<1>8. lqOcc' = Cardinality(Loading') /\ lqOcc' <= LoadEntries
  <2>1. lqOcc = Cardinality(Loading) /\ lqOcc <= LoadEntries
    BY DEF Accounts, Counted, QueuesBounded
  <2>2. CASE UsesLoad(m)
    <3>1. Loading' = Loading \ {m} /\ m \in Loading
      BY <1>1, <1>5, <1>6, <2>2 DEF Loading
    <3>2. Cardinality(Loading') = Cardinality(Loading) - 1
      BY <1>3, <3>1, FS_RemoveElement
    <3>3. lqOcc' = lqOcc - 1
      BY <1>2, <2>2 DEF One
    <3> QED
      BY <1>3, <2>1, <3>2, <3>3, PipelineAssumption
  <2>3. CASE ~UsesLoad(m)
    <3>1. Loading' = Loading
      BY <1>1, <1>5, <1>6, <2>3 DEF Loading
    <3>2. lqOcc' = lqOcc - 0
      BY <1>2, <2>3 DEF One
    <3> QED
      BY <1>3, <2>1, <3>1, <3>2
  <2> QED
    BY <2>2, <2>3
<1>9. sqOcc' = Cardinality(Storing') /\ sqOcc' <= StoreEntries
  <2>1. sqOcc = Cardinality(Storing) /\ sqOcc <= StoreEntries
    BY DEF Accounts, Counted, QueuesBounded
  <2>2. CASE UsesStore(m)
    <3>1. Storing' = Storing \ {m} /\ m \in Storing
      BY <1>1, <1>5, <1>6, <2>2 DEF Storing
    <3>2. Cardinality(Storing') = Cardinality(Storing) - 1
      BY <1>3, <3>1, FS_RemoveElement
    <3>3. sqOcc' = sqOcc - 1
      BY <1>2, <2>2 DEF One
    <3> QED
      BY <1>3, <2>1, <3>2, <3>3, PipelineAssumption
  <2>3. CASE ~UsesStore(m)
    <3>1. Storing' = Storing
      BY <1>1, <1>5, <1>6, <2>3 DEF Storing
    <3>2. sqOcc' = sqOcc - 0
      BY <1>2, <2>3 DEF One
    <3> QED
      BY <1>3, <2>1, <3>1, <3>2
  <2> QED
    BY <2>2, <2>3
<1>10. vecOcc' = Cardinality(Waiting') /\ vecOcc' <= VectorEntries
  <2>1. Waiting' = Waiting
    BY <1>1, <1>2
    DEF Waiting, VectorWaits, UsesVector, UsesKind, UopsOf, IsVector, Issued
  <2> QED
    BY <1>2, <2>1 DEF Accounts, Counted, QueuesBounded
<1>11. Grouped'
  <2>1. {n \in Macro : OpenGroup(n)}' = {n \in Macro : OpenGroup(n)}
    BY <1>2 DEF OpenGroup, UopsOf, ComputeOf, Issued
  <2> QED
    BY <1>2, <2>1 DEF Accounts, Grouped, OverlapLimit
<1> QED
  BY <1>7, <1>8, <1>9, <1>10, <1>11 DEF Accounts, Counted, QueuesBounded

\* What issuing u does to the issued uops: u was dispatched and not issued.
LEMMA IssueMarks ==
    ASSUME Types, Order, NEW u \in Uop, NEW l \in Lane, Issue(u, l)
    PROVE  /\ ~Issued(u) /\ trace.parent[u] \in 1..nextDispatch
           /\ \A v \in Uop : Issued(v)' <=> (Issued(v) \/ v = u)
           /\ UNCHANGED <<trace, nextDispatch, rob>>
<1>1. u \in candidates /\ issueTick' = [issueTick EXCEPT ![u] = now]
      /\ UNCHANGED <<trace, nextDispatch, rob>>
  BY DEF Issue, Oldest, front
<1>2. ~Issued(u) /\ dispatchTick[trace.parent[u]] # NotYet
  BY <1>1 DEF Order, Clock, Unissued
<1>3. trace.parent[u] \in Macro
  BY TraceIsValid DEF ValidTrace
<1>4. trace.parent[u] \in 1..nextDispatch
  BY <1>2, <1>3, CountAssumption DEF Order, RobInOrder, Dispatched, Macro, Types
<1>5. \A v \in Uop : Issued(v)' <=> (Issued(v) \/ v = u)
  <2>1. now # NotYet
    BY DEF Types, NotYet
  <2> QED
    BY <1>1, <2>1 DEF Issued, Types
<1> QED
  BY <1>1, <1>2, <1>4, <1>5

\* The vector waiting window loses the macro-op of u exactly if u is its first
\* vector uop to be issued.
LEMMA IssueWaiting ==
    ASSUME Types, Order, Accounts, NEW u \in Uop, NEW l \in Lane, Issue(u, l)
    PROVE  vecOcc' = Cardinality(Waiting') /\ vecOcc' <= VectorEntries
<1>0. PICK m : m = trace.parent[u]
  OBVIOUS
<1>1. /\ ~Issued(u) /\ m \in 1..nextDispatch
      /\ \A v \in Uop : Issued(v)' <=> (Issued(v) \/ v = u)
      /\ UNCHANGED <<trace, nextDispatch, rob>>
  BY <1>0, IssueMarks
<1>2. vecOcc' = vecOcc - One(FreesVectorEntry(u))
  BY DEF Issue
<1>3. vecOcc = Cardinality(Waiting) /\ vecOcc <= VectorEntries
  BY DEF Accounts, Counted, QueuesBounded
<1>4. IsFiniteSet(Waiting) /\ Cardinality(Waiting) \in Nat
  BY CountsFinite
<1>5. \A n : (UopsOf(n)' = UopsOf(n) /\ UopsOf(n) \subseteq Uop)
  BY <1>1 DEF UopsOf
<1>6. \A v : IsVector(v)' <=> IsVector(v)
  BY <1>1 DEF IsVector
<1>7. \A n : UsesVector(n)' <=> UsesVector(n)
  BY <1>1 DEF UsesVector, UsesKind, UopsOf
<1>8. u \in UopsOf(m) /\ \A n : u \in UopsOf(n) => n = m
  BY <1>0 DEF UopsOf
<1>9. \A n : n # m => (VectorWaits(n)' <=> VectorWaits(n))
  <2> SUFFICES ASSUME NEW n, n # m PROVE VectorWaits(n)' <=> VectorWaits(n)
    OBVIOUS
  <2>1. u \notin UopsOf(n)
    BY <1>8
  <2>2. \A v \in UopsOf(n) : Issued(v)' <=> Issued(v)
    BY <1>1, <1>5, <2>1
  <2> QED
    BY <1>5, <1>6, <1>7, <2>2 DEF VectorWaits
<1>10. CASE FreesVectorEntry(u)
  <2>1. IsVector(u) /\ \A v \in UopsOf(m) \ {u} : IsVector(v) => ~Issued(v)
    BY <1>0, <1>10 DEF FreesVectorEntry
  <2>2. VectorWaits(m)
    BY <1>1, <1>8, <2>1 DEF VectorWaits, UsesVector, UsesKind, IsVector
  <2>3. ~VectorWaits(m)'
    BY <1>1, <1>5, <1>6, <1>8, <2>1 DEF VectorWaits
  <2>4. Waiting' = Waiting \ {m} /\ m \in Waiting
    BY <1>1, <1>9, <2>2, <2>3 DEF Waiting
  <2>5. Cardinality(Waiting') = Cardinality(Waiting) - 1
    BY <1>4, <2>4, FS_RemoveElement
  <2>6. vecOcc' = vecOcc - 1
    BY <1>2, <1>10 DEF One
  <2> QED
    BY <1>3, <1>4, <2>5, <2>6, PipelineAssumption
<1>11. CASE ~FreesVectorEntry(u)
  <2>1. VectorWaits(m)' <=> VectorWaits(m)
    <3>1. CASE IsVector(u)
      <4>1. PICK v \in UopsOf(m) \ {u} : IsVector(v) /\ Issued(v)
        BY <1>0, <1>11, <3>1 DEF FreesVectorEntry
      <4>2. ~VectorWaits(m)
        BY <4>1 DEF VectorWaits
      <4>3. Issued(v)'
        BY <1>1, <1>5, <4>1
      <4>4. ~VectorWaits(m)'
        BY <1>5, <1>6, <4>1, <4>3 DEF VectorWaits
      <4> QED
        BY <4>2, <4>4
    <3>2. CASE ~IsVector(u)
      <4>1. \A v \in UopsOf(m) : IsVector(v) => (Issued(v)' <=> Issued(v))
        BY <1>1, <1>5, <3>2
      <4> QED
        BY <1>5, <1>6, <1>7, <4>1 DEF VectorWaits
    <3> QED
      BY <3>1, <3>2
  <2>2. Waiting' = Waiting
    BY <1>1, <1>9, <2>1 DEF Waiting
  <2>3. vecOcc' = vecOcc - 0
    BY <1>2, <1>11 DEF One
  <2> QED
    BY <1>3, <1>4, <2>2, <2>3
<1> QED
  BY <1>10, <1>11

\* _update_memory_compute_groups_after_issue keeps the set of open groups.  A
\* load of m cannot be issued when the group's compute uops all were: one of
\* them depends on it.
LEMMA IssueGroups ==
    ASSUME Types, Order, Accounts, NEW u \in Uop, NEW l \in Lane, Issue(u, l)
    PROVE  Grouped'
<1> SUFFICES ASSUME OverlapLimit
             PROVE  /\ pendingGroups' = {n \in Macro : OpenGroup(n)}'
                    /\ Cardinality(pendingGroups') <= MaxPendingGroups
  <2>1. OverlapLimit' <=> OverlapLimit
    BY IssueMarks DEF OverlapLimit
  <2> QED
    BY <2>1 DEF Grouped
<1>0. PICK m : m = trace.parent[u]
  OBVIOUS
<1>1. /\ ~Issued(u)
      /\ \A v \in Uop : Issued(v)' <=> (Issued(v) \/ v = u)
      /\ trace' = trace
  BY IssueMarks
<1>2. ValidTrace(trace) /\ trace \in Traces
  BY TraceIsValid DEF Types
<1>3. m \in Macro
  BY <1>0, <1>2 DEF ValidTrace
<1>4. /\ pendingGroups = {n \in Macro : OpenGroup(n)}
      /\ Cardinality(pendingGroups) <= MaxPendingGroups
  BY DEF Accounts, Grouped
<1>5. pendingGroups' = GroupsAfter(u) /\ ~OverlapBlocked(u) /\ ~DependencyBlocked(u)
  BY DEF Issue, Blocked, PortBlocked
<1>6. IsFiniteSet(pendingGroups) /\ Cardinality(pendingGroups) \in Nat
  BY CountsFinite
<1>7. \A n : /\ UopsOf(n)' = UopsOf(n) /\ UopsOf(n) \subseteq Uop
            /\ ComputeOf(n)' = ComputeOf(n) /\ ComputeOf(n) \subseteq UopsOf(n)
  BY <1>1 DEF UopsOf, ComputeOf, ComputeIn
<1>8. u \in UopsOf(m) /\ \A n : u \in UopsOf(n) => n = m
  BY <1>0 DEF UopsOf
<1>9. \A n : n # m => (OpenGroup(n)' <=> OpenGroup(n))
  <2> SUFFICES ASSUME NEW n, n # m PROVE OpenGroup(n)' <=> OpenGroup(n)
    OBVIOUS
  <2>1. u \notin UopsOf(n)
    BY <1>8
  <2>2. \A v \in UopsOf(n) : Issued(v)' <=> Issued(v)
    BY <1>1, <1>7, <2>1
  <2> QED
    BY <1>1, <1>7, <2>2 DEF OpenGroup
<1>10. CASE ComputeOf(m) = {}
  <2>1. pendingGroups' = pendingGroups
    BY <1>0, <1>5, <1>10 DEF GroupsAfter
  <2>2. ~OpenGroup(m) /\ ~OpenGroup(m)'
    BY <1>7, <1>10 DEF OpenGroup
  <2>3. {n \in Macro : OpenGroup(n)}' = {n \in Macro : OpenGroup(n)}
    BY <1>9, <2>2
  <2> QED
    BY <1>4, <2>1, <2>3
<1>11. CASE ComputeOf(m) # {}
  <2> DEFINE drains == /\ u \in ComputeOf(m)
                       /\ \A v \in ComputeOf(m) \ {u} : Issued(v)
  <2>1. pendingGroups' = IF drains THEN pendingGroups \ {m}
                         ELSE IF trace.kind[u] = "load_data" THEN pendingGroups \cup {m}
                         ELSE pendingGroups
    BY <1>0, <1>5, <1>11 DEF GroupsAfter
  <2>2. OpenGroup(m)' <=>
           /\ \/ trace.kind[u] = "load_data"
              \/ \E v \in UopsOf(m) : trace.kind[v] = "load_data" /\ Issued(v)
           /\ \E v \in ComputeOf(m) : ~Issued(v) /\ v # u
    <3>1. (\E v \in UopsOf(m) : trace.kind[v] = "load_data" /\ Issued(v))' <=>
             \/ trace.kind[u] = "load_data"
             \/ \E v \in UopsOf(m) : trace.kind[v] = "load_data" /\ Issued(v)
      BY <1>1, <1>7, <1>8
    <3>2. (\E v \in ComputeOf(m) : ~Issued(v))' <=>
             \E v \in ComputeOf(m) : ~Issued(v) /\ v # u
      BY <1>1, <1>7
    <3> QED
      BY <3>1, <3>2 DEF OpenGroup
  <2>3. m \in pendingGroups <=> OpenGroup(m)
    BY <1>3, <1>4
  <2>4. m \in pendingGroups' <=> OpenGroup(m)'
    <3>1. CASE drains
      <4>1. ~OpenGroup(m)'
        BY <2>2, <3>1
      <4> QED
        BY <2>1, <3>1, <4>1
    <3>2. CASE ~drains /\ trace.kind[u] = "load_data"
      <4>1. \E v \in ComputeOf(m) : ~Issued(v) /\ v # u
        <5>1. CASE u \in ComputeOf(m)
          BY <3>2, <5>1
        <5>2. CASE u \notin ComputeOf(m)
          <6>1. PICK v \in ComputeOf(m) : u \in trace.dependencies[v]
            BY <1>0, <1>2, <1>11, <3>2, GroupAssumption DEF ComputeOf
          <6>2. v \in Uop /\ v # u
            BY <1>7, <5>2, <6>1
          <6>3. Issued(v) => Issued(u)
            BY <6>1, <6>2 DEF Order, DataflowOrder, Clock
          <6> QED
            BY <1>1, <6>1, <6>2, <6>3
        <5> QED
          BY <5>1, <5>2
      <4>2. OpenGroup(m)'
        BY <2>2, <3>2, <4>1
      <4> QED
        BY <2>1, <3>2, <4>2
    <3>3. CASE ~drains /\ trace.kind[u] # "load_data"
      <4>1. pendingGroups' = pendingGroups
        BY <2>1, <3>3
      <4>2. (\E v \in ComputeOf(m) : ~Issued(v)) <=>
               \E v \in ComputeOf(m) : ~Issued(v) /\ v # u
        BY <1>1, <3>3
      <4> QED
        BY <2>2, <2>3, <3>3, <4>1, <4>2 DEF OpenGroup
    <3> QED
      BY <3>1, <3>2, <3>3
  <2>5. pendingGroups' = {n \in Macro : OpenGroup(n)}'
    <3>1. \A n : n # m => (n \in pendingGroups' <=> n \in pendingGroups)
      BY <2>1
    <3> QED
      BY <1>3, <1>4, <1>9, <2>4, <3>1
  <2>6. Cardinality(pendingGroups') <= MaxPendingGroups
    <3>1. CASE m \notin pendingGroups /\ pendingGroups' = pendingGroups \cup {m}
      <4>1. trace.kind[u] = "load_data"
        BY <2>1, <3>1
      <4>2. ~(Cardinality(pendingGroups) >= MaxPendingGroups)
        BY <1>0, <1>5, <1>11, <3>1, <4>1 DEF OverlapBlocked
      <4>3. Cardinality(pendingGroups') = Cardinality(pendingGroups) + 1
        BY <1>6, <3>1, FS_AddElement
      <4> QED
        BY <1>6, <4>2, <4>3, PipelineAssumption
    <3>2. CASE pendingGroups' \subseteq pendingGroups
      <4>1. Cardinality(pendingGroups') <= Cardinality(pendingGroups)
            /\ Cardinality(pendingGroups') \in Nat
        BY <1>6, <3>2, FS_Subset, FS_CardinalityType
      <4> QED
        BY <1>4, <1>6, <4>1, PipelineAssumption
    <3> QED
      BY <2>1, <3>1, <3>2
  <2> QED
    BY <2>5, <2>6
<1> QED
  BY <1>10, <1>11

LEMMA IssueAccounts ==
    ASSUME Types, Order, Accounts, NEW u \in Uop, NEW l \in Lane, Issue(u, l)
    PROVE  Accounts'
<1>1. UNCHANGED <<trace, nextDispatch, rob>>
  BY IssueMarks
<1>2. UNCHANGED <<robOcc, lqOcc, sqOcc>>
  BY DEF Issue
<1>3. RetiredCount' = RetiredCount /\ Loading' = Loading /\ Storing' = Storing
  BY <1>1 DEF RetiredCount, InRob, Loading, Storing, UsesLoad, UsesStore, UsesKind, UopsOf
<1>4. vecOcc' = Cardinality(Waiting') /\ vecOcc' <= VectorEntries
  BY IssueWaiting
<1>5. Grouped'
  BY IssueGroups
<1> QED
  BY <1>1, <1>2, <1>3, <1>4, <1>5 DEF Accounts, Counted, QueuesBounded

LEMMA StepAccounts == Types /\ Order /\ Accounts /\ [Next]_vars => Accounts'
<1> SUFFICES ASSUME Types, Order, Accounts, [Next]_vars PROVE Accounts'
  OBVIOUS
<1>1. ASSUME NEW m \in Macro, Dispatch(m) PROVE Accounts'
  BY <1>1, DispatchAccounts
<1>2. ASSUME NEW u \in Uop, NEW l \in Lane, Issue(u, l) PROVE Accounts'
  BY <1>2, IssueAccounts
<1>3. ASSUME NEW m \in Macro, Retire(m) PROVE Accounts'
  BY <1>3, RetireAccounts
<1>4. ASSUME NEW u \in Uop, Complete(u) PROVE Accounts'
  BY <1>4, FrameAccounts DEF Complete, front, issue
<1>5. ASSUME NEW u \in Uop, Skip(u) PROVE Accounts'
  BY <1>5, FrameAccounts DEF Skip, front, issue
<1>6. ASSUME NEW tick \in EventTicks, Advance(tick) PROVE Accounts'
  BY <1>6, FrameAccounts DEF Advance, front, issue
<1>7. CASE Iterate
  BY <1>7, FrameAccounts DEF Iterate, front, issue
<1>8. CASE CompleteReturns
  BY <1>8, FrameAccounts DEF CompleteReturns, front, issue
<1>9. CASE DispatchReturns
  BY <1>9, FrameAccounts DEF DispatchReturns, front, issue
<1>10. CASE ScanReturns
  BY <1>10, FrameAccounts DEF ScanReturns, front, issue
<1>11. CASE RetireReturns
  BY <1>11, FrameAccounts DEF RetireReturns, front, issue
<1>12. CASE Finish
  BY <1>12, FrameAccounts DEF Finish, front, issue
<1>13. CASE Stopped
  BY <1>13, FrameAccounts DEF Stopped, vars, front, issue
<1>14. CASE UNCHANGED vars
  BY <1>14, FrameAccounts DEF vars, front, issue
<1> QED
  BY <1>1, <1>2, <1>3, <1>4, <1>5, <1>6, <1>7, <1>8, <1>9, <1>10, <1>11,
     <1>12, <1>13, <1>14 DEF Next

\* Whatever the trace, the profile and the memory, each occupancy counter that
\* _dispatch, _issue_once and _retire keep equals what it counts and stays
\* within its queue, and the overlap limit counts exactly the open groups.
THEOREM AccountsExactHolds == Spec => []AccountsExact
<1>1. Init => Accounts
  BY InitAccounts
<1>2. Types /\ Order /\ Accounts /\ [Next]_vars => Accounts'
  BY StepAccounts
<1>3. Types /\ Order /\ Accounts => AccountsExact
  <2> SUFFICES ASSUME Types, Order, Accounts PROVE AccountsExact
    OBVIOUS
  <2>1. OccupancyExact
    BY DEF Accounts, Counted, OccupancyExact, Loading, Storing, Waiting, VectorWaits
  <2>2. lqOcc \in Nat /\ sqOcc \in Nat /\ vecOcc \in Nat
    BY CountsFinite DEF Accounts, Counted
  <2>3. robOcc \in Nat
    <3>1. nextDispatch \in 0..NumMacros /\ RetiredCount \in 0..NumMacros
          /\ RetiredCount <= nextDispatch
      BY CountsFinite, CountAssumption DEF Types
    <3>2. /\ trace.ops[nextDispatch] \in Nat /\ trace.ops[RetiredCount] \in Nat
          /\ RetiredCount < nextDispatch =>
                trace.ops[RetiredCount] < trace.ops[nextDispatch]
      BY <3>1, TraceIsValid DEF ValidTrace
    <3>3. trace.ops[RetiredCount] <= trace.ops[nextDispatch]
      BY <3>1, <3>2, CountAssumption
    <3> QED
      BY <3>2, <3>3 DEF Accounts, Counted
  <2>4. TypeOK
    BY <2>2, <2>3 DEF Types, TypeOK
  <2>5. PendingGroupsExact
    BY DEF Accounts, Grouped, OpenGroup, PendingGroupsExact
  <2> QED
    BY <2>1, <2>4, <2>5 DEF Accounts, AccountsExact
<1> QED
  BY <1>1, <1>2, <1>3, TypesAndOrder, PTL DEF Spec

-----------------------------------------------------------------------------
(***************************************************************************)
(* Zen4Engine implements Dataflow.                                         *)
(***************************************************************************)
\* What Dataflow sees of a state does not change.
Unseen == UNCHANGED <<trace, front, completeTick>>

LEMMA UnseenStutters ==
    ASSUME Unseen
    PROVE  UNCHANGED Machine!vars
<1>1. RetiredCount' = RetiredCount /\ nextDispatch' = nextDispatch
  BY DEF Unseen, front, RetiredCount
<1>2. {u \in Uop : Completed(u)}' = {u \in Uop : Completed(u)}
  BY DEF Unseen, Completed
<1> QED
  BY <1>1, <1>2 DEF Unseen, Machine!vars

LEMMA CompleteProduces ==
    ASSUME Types, Order, NEW u \in Uop, Complete(u)
    PROVE  Machine!Produce(u)
<1>1. /\ Issued(u) /\ ~Completed(u) /\ doneAt[u] # NotYet
      /\ completeTick' = [completeTick EXCEPT ![u] = doneAt[u]]
      /\ UNCHANGED <<trace, front>>
  <2>1. Issued(u) /\ ~Completed(u)
    BY DEF Complete, Due, InFlight
  <2>2. doneAt[u] # NotYet
    BY <2>1 DEF Order, Clock, Types, Issued, NotYet
  <2> QED
    BY <2>1, <2>2 DEF Complete
<1>2. trace.parent[u] <= nextDispatch
  <2>1. trace.parent[u] \in Macro
    BY TraceIsValid DEF ValidTrace
  <2>2. dispatchTick[trace.parent[u]] # NotYet
    BY <1>1 DEF Order, DataflowOrder
  <2> QED
    BY <2>1, <2>2 DEF Order, RobInOrder, Dispatched
<1>3. trace.dependencies[u] \subseteq {v \in Uop : Completed(v)}
  BY <1>1, TraceIsValid DEF Order, DataflowOrder, ValidTrace
<1>4. {v \in Uop : Completed(v)}' = {v \in Uop : Completed(v)} \cup {u}
  BY <1>1 DEF Completed, Types
<1>5. UNCHANGED <<trace, nextDispatch, RetiredCount>>
  BY <1>1 DEF front, RetiredCount
<1> QED
  BY <1>1, <1>2, <1>3, <1>4, <1>5 DEF Machine!Produce

LEMMA DispatchEnters ==
    ASSUME Types, NEW m \in Macro, Dispatch(m)
    PROVE  Machine!Enter
<1>1. m = nextDispatch + 1 /\ nextDispatch' = nextDispatch + 1
      /\ rob' = Append(rob, m) /\ UNCHANGED <<trace, completeTick>>
  BY DEF Dispatch, Enqueued
<1>2. nextDispatch < NumMacros
  BY <1>1, CountAssumption DEF Macro, Types
<1>3. RetiredCount' = RetiredCount
  BY <1>1 DEF RetiredCount, Types
<1> QED
  BY <1>1, <1>2, <1>3 DEF Machine!Enter, Completed

LEMMA RetireLeaves ==
    ASSUME Types, Order, NEW m \in Macro, Retire(m)
    PROVE  Machine!Leave
<1>1. /\ rob # <<>> /\ m = Head(rob) /\ Retirable(m)
      /\ rob' = Tail(rob)
      /\ UNCHANGED <<trace, nextDispatch, completeTick>>
  BY DEF Retire
<1>2. /\ Len(rob) \in Nat \ {0} /\ Len(rob') = Len(rob) - 1 /\ m = rob[1]
      /\ nextDispatch \in Nat
  BY <1>1 DEF Types
<1>3. m = RetiredCount + 1 /\ RetiredCount' = RetiredCount + 1
      /\ RetiredCount < nextDispatch
  BY <1>1, <1>2 DEF Order, RobInOrder, RetiredCount
<1>4. \A u \in 1..NumUops : trace.parent[u] = RetiredCount + 1 =>
         u \in {v \in Uop : Completed(v)}
  BY <1>1, <1>3 DEF Retirable, UopsOf, Uop
<1> QED
  BY <1>1, <1>3, <1>4 DEF Machine!Leave, Completed

LEMMA StepRefines ==
    ASSUME Types, Order, [Next]_vars
    PROVE  [Machine!Next]_(Machine!vars)
<1>1. ASSUME NEW u \in Uop, Complete(u) PROVE Machine!Next
  BY <1>1, CompleteProduces DEF Machine!Next, Uop
<1>2. ASSUME NEW m \in Macro, Dispatch(m) PROVE Machine!Next
  BY <1>2, DispatchEnters DEF Machine!Next
<1>3. ASSUME NEW m \in Macro, Retire(m) PROVE Machine!Next
  BY <1>3, RetireLeaves DEF Machine!Next
<1>4. ASSUME NEW u \in Uop, NEW l \in Lane, Issue(u, l) PROVE Unseen
  BY <1>4 DEF Issue, Unseen
<1>5. CASE Iterate
  BY <1>5, UnseenStutters DEF Iterate, Unseen
<1>6. CASE CompleteReturns
  BY <1>6, UnseenStutters DEF CompleteReturns, Unseen
<1>7. CASE DispatchReturns
  BY <1>7, UnseenStutters DEF DispatchReturns, Unseen
<1>8. ASSUME NEW u \in Uop, Skip(u) PROVE Unseen
  BY <1>8 DEF Skip, Unseen
<1>9. CASE ScanReturns
  BY <1>9, UnseenStutters DEF ScanReturns, Unseen
<1>10. CASE RetireReturns
  BY <1>10, UnseenStutters DEF RetireReturns, Unseen
<1>11. CASE Finish
  BY <1>11, UnseenStutters DEF Finish, Unseen
<1>12. ASSUME NEW tick \in EventTicks, Advance(tick) PROVE Unseen
  BY <1>12 DEF Advance, Unseen
<1>13. CASE Stopped
  BY <1>13, UnseenStutters DEF Stopped, vars, Unseen
<1>14. CASE UNCHANGED vars
  BY <1>14, UnseenStutters DEF vars, Unseen
<1> QED
  BY <1>1, <1>2, <1>3, <1>4, <1>5, <1>6, <1>7, <1>8, <1>9, <1>10, <1>11,
     <1>12, <1>13, <1>14, UnseenStutters DEF Next

LEMMA InitRefines == Init => Machine!Init
<1> SUFFICES ASSUME Init PROVE Machine!Init
  OBVIOUS
<1>1. trace \in Traces /\ nextDispatch = 0 /\ rob = <<>>
  BY DEF Init
<1>2. {u \in Uop : Completed(u)} = {}
  BY DEF Init, Completed
<1>3. RetiredCount = 0
  <2>1. Len(<<>>) = 0
    OBVIOUS
  <2>2. Len(rob) = 0
    BY <1>1, <2>1
  <2>3. nextDispatch = 0
    BY <1>1
  <2> QED
    BY <2>2, <2>3 DEF RetiredCount
<1> QED
  BY <1>1, <1>2, <1>3 DEF Machine!Init

\* run() implements the dataflow machine: dispatch and retirement in program
\* order, and a result only once all producers have theirs.
THEOREM RefinesDataflow == Spec => ExecutesDataflow
<1>1. Init => Machine!Init
  BY InitRefines
<1>2. Types /\ Order /\ [Next]_vars => [Machine!Next]_(Machine!vars)
  BY StepRefines
<1> QED
  BY <1>1, <1>2, TypesAndOrder, PTL DEF Spec, ExecutesDataflow, Machine!Spec

-----------------------------------------------------------------------------
(***************************************************************************)
(* Time.  When run() comes to its last steps the heap has been emptied up  *)
(* to now, so that every event lies in the future.                         *)
(***************************************************************************)
Settled == pc # "no_progress" /\ (pc \in {"retire", "advance"} => Due = {})

LEMMA FutureEvents ==
    ASSUME Types, Order, Settled, pc = "advance", NEW tick \in EventTicks
    PROVE  tick > now
<1>1. CASE tick = NextCycle
  BY <1>1, PipelineAssumption DEF NextCycle, Types
<1>2. ASSUME NEW u \in InFlight, tick = doneAt[u] PROVE tick > now
  <2>1. doneAt[u] \in Int /\ now \in Int /\ ~(doneAt[u] <= now)
    BY <1>2 DEF Settled, Due, InFlight, Types, NotYet
  <2> QED
    BY <1>2, <2>1
<1>3. CASE tick > now
  BY <1>3
<1> QED
  BY <1>1, <1>2, <1>3 DEF EventTicks

LEMMA StepSettled == Types /\ Order /\ Settled /\ [Next]_vars => Settled'
<1> SUFFICES ASSUME Types, Order, Settled, [Next]_vars PROVE Settled'
  OBVIOUS
<1>1. ASSUME UNCHANGED <<now, issueTick, doneAt, completeTick>> PROVE Due' = Due
  BY <1>1 DEF Due, InFlight, Issued, Completed
<1>2. CASE Iterate
  BY <1>2 DEF Iterate, Settled
<1>3. ASSUME NEW u \in Uop, Complete(u) PROVE Settled'
  BY <1>3 DEF Complete, Settled, control
<1>4. CASE CompleteReturns
  BY <1>1, <1>4 DEF CompleteReturns, Settled, issue
<1>5. ASSUME NEW m \in Macro, Dispatch(m) PROVE Settled'
  BY <1>5 DEF Dispatch, Settled
<1>6. CASE DispatchReturns
  BY <1>6 DEF DispatchReturns, Settled
<1>7. ASSUME NEW u \in Uop, NEW l \in Lane, Issue(u, l) PROVE Settled'
  BY <1>7 DEF Issue, Settled, control
<1>8. ASSUME NEW u \in Uop, Skip(u) PROVE Settled'
  BY <1>8 DEF Skip, Settled, control
<1>9. CASE ScanReturns
  BY <1>9 DEF ScanReturns, AfterScan, Settled
<1>10. ASSUME NEW m \in Macro, Retire(m) PROVE Settled'
  BY <1>1, <1>10 DEF Retire, Settled, issue
<1>11. CASE RetireReturns
  BY <1>1, <1>11 DEF RetireReturns, Settled, issue
<1>12. CASE Finish
  BY <1>12 DEF Finish, Settled
<1>13. ASSUME NEW tick \in EventTicks, Advance(tick) PROVE Settled'
  <2>1. pc = "advance" /\ tick \in Int
    BY <1>13, EventTicksInt DEF Advance
  <2>2. tick > now /\ now \in Int
    BY <2>1, FutureEvents DEF Types
  <2> QED
    BY <1>13, <2>1, <2>2 DEF Advance, Settled
<1>14. CASE Stopped
  BY <1>1, <1>14 DEF Stopped, vars, Settled, control, issue
<1>15. CASE UNCHANGED vars
  BY <1>1, <1>15 DEF vars, Settled, control, issue
<1> QED
  BY <1>2, <1>3, <1>4, <1>5, <1>6, <1>7, <1>8, <1>9, <1>10, <1>11, <1>12,
     <1>13, <1>14, <1>15 DEF Next

\* run() never raises "no forward progress".
THEOREM TimeMovesForwardHolds == Spec => []TimeMovesForward
<1>1. Init => Settled
  BY DEF Init, Settled
<1>2. Types /\ Order /\ Settled /\ [Next]_vars => Settled'
  BY StepSettled
<1>3. Settled => TimeMovesForward
  BY DEF Settled, TimeMovesForward
<1> QED
  BY <1>1, <1>2, <1>3, TypesAndOrder, PTL DEF Spec

-----------------------------------------------------------------------------
(***************************************************************************)
(* No missed wake-up.  When the fixed point of a tick is reached, nothing  *)
(* is due and every candidate is blocked; a candidate is blocked until one *)
(* of the ticks it adds to the events.                                     *)
(***************************************************************************)
Quiet == Due = {} /\ \A u \in IssueCandidates : Blocked(u, now)

Exhausted ==
    /\ pc = "scan" /\ ~progress =>
          Due = {} /\ \A u \in IssueCandidates \ candidates : Blocked(u, now)
    /\ pc \in {"settle", "retire", "advance"} => Quiet

\* A set of natural numbers has a least element: the intervals that end at its
\* members are well-founded.
LEMMA LeastNumber ==
    ASSUME NEW S, S \subseteq Nat, S # {}
    PROVE  \E x \in S : \A y \in S : x <= y
<1> DEFINE Upto(x) == 0..x
           T == {Upto(x) : x \in S}
<1>1. T \subseteq FiniteSubsetsOf(Nat)
  <2> SUFFICES ASSUME NEW x \in S PROVE Upto(x) \in FiniteSubsetsOf(Nat)
    OBVIOUS
  <2>1. IsFiniteSet(0..x)
    BY FS_Interval
  <2> QED
    BY <2>1 DEF FiniteSubsetsOf
<1>2. IsWellFoundedOn(StrictSubsetOrdering(Nat), FiniteSubsetsOf(Nat))
  BY FS_StrictSubsetOrderingWellFounded
<1>3. PICK X \in T : \A Y \in T : <<Y, X>> \notin StrictSubsetOrdering(Nat)
  <2>1. T # {}
    OBVIOUS
  <2> HIDE DEF T
  <2> QED
    BY <1>1, <1>2, <2>1, WFMin
<1>4. PICK x \in S : X = 0..x
  OBVIOUS
<1>5. ASSUME NEW y \in S, y < x PROVE FALSE
  <2>1. 0..y \in SUBSET Nat /\ 0..x \in SUBSET Nat
    OBVIOUS
  <2>2. 0..y \subseteq 0..x /\ x \in 0..x /\ x \notin 0..y
    BY <1>5
  <2>3. <<0..y, 0..x>> \in StrictSubsetOrdering(Nat)
    BY <2>1, <2>2 DEF StrictSubsetOrdering
  <2>4. 0..y \in T
    OBVIOUS
  <2> QED
    BY <1>3, <1>4, <2>3, <2>4
<1> QED
  BY <1>5

\* A bounded set of natural numbers has a greatest element.
LEMMA GreatestNumber ==
    ASSUME NEW t \in Nat, NEW S, S \subseteq 0..t, S # {}
    PROVE  \E x \in S : \A y \in S : y <= x
<1> DEFINE D == {t - x : x \in S}
<1>1. D \subseteq Nat /\ D # {}
  <2>1. \A x \in S : t - x \in Nat
    OBVIOUS
  <2>2. PICK x : x \in S
    OBVIOUS
  <2>3. t - x \in D
    BY <2>2
  <2> QED
    BY <2>1, <2>3
<1> HIDE DEF D
<1>2. PICK z \in D : \A y \in D : z <= y
  BY <1>1, LeastNumber
<1>3. PICK x \in S : z = t - x
  BY <1>2 DEF D
<1>4. ASSUME NEW y \in S PROVE y <= x
  <2>1. t - y \in D
    BY DEF D
  <2>2. t - x <= t - y
    BY <1>2, <1>3, <2>1
  <2>3. x \in Nat /\ y \in Nat
    OBVIOUS
  <2> QED
    BY <2>2, <2>3
<1> QED
  BY <1>4

\* Between a tick and the next multiple of c there is none.
LEMMA BetweenBoundaries ==
    ASSUME NEW c \in Nat \ {0}, NEW a \in Nat, NEW t \in Nat,
           a < t, t < ((a \div c) + 1) * c
    PROVE  t % c # 0
<1> DEFINE q == a \div c
           k == t \div c
<1>1. q \in Int /\ k \in Int /\ a >= c * q /\ t % c \in Int
  OBVIOUS
<1>2. SUFFICES ASSUME t % c = 0 PROVE FALSE
  OBVIOUS
<1>3. t = c * k
  BY <1>2
<1>4. t < (q + 1) * c
  OBVIOUS
<1> HIDE DEF q, k
<1>5. CASE k <= q
  <2>1. c * k <= c * q
    BY <1>1, <1>5
  <2> QED
    BY <1>1, <1>3, <2>1
<1>6. CASE k >= q + 1
  <2>1. (q + 1) * c <= k * c
    BY <1>1, <1>6
  <2>2. k * c = c * k
    BY <1>1
  <2> QED
    BY <1>1, <1>3, <1>4, <2>1, <2>2
<1> QED
  BY <1>1, <1>5, <1>6

\* What a candidate is blocked by depends on nothing that the handlers outside
\* _issue_once and _complete change.
LEMMA FrameBlocked ==
    ASSUME UNCHANGED <<trace, now, dispatchTick, issue, completeTick>>
    PROVE  /\ Due' = Due /\ IssueCandidates' = IssueCandidates
           /\ \A u : Blocked(u, now)' <=> Blocked(u, now)
<1>1. Due' = Due
  BY DEF Due, InFlight, Issued, Completed, issue
<1>2. IssueCandidates' = IssueCandidates
  BY DEF IssueCandidates, Unissued, Issued, OutOfOrder, issue
<1>3. ASSUME NEW u PROVE Blocked(u, now)' <=> Blocked(u, now)
  <2>1. /\ DependencyBlocked(u)' <=> DependencyBlocked(u)
        /\ PartOrderBlocked(u)' <=> PartOrderBlocked(u)
        /\ PartGapBlocked(u, now)' <=> PartGapBlocked(u, now)
    BY DEF DependencyBlocked, PartOrderBlocked, PartGapBlocked, PartReady, Completed,
           Issued, issue
  <2>2. OverlapBlocked(u)' <=> OverlapBlocked(u)
    BY DEF OverlapBlocked, OverlapLimit, ComputeOf, issue
  <2>3. /\ IntervalBlocked(u, now)' <=> IntervalBlocked(u, now)
        /\ ResourceBlocked(u, now)' <=> ResourceBlocked(u, now)
        /\ MemoryBlocked(u, now)' <=> MemoryBlocked(u, now)
    BY DEF IntervalBlocked, IntervalReady, ResourceBlocked, LanesOf, MemoryBlocked,
           IsMemory, issue
  <2>4. Granted(u)' = Granted(u)
    BY DEF Granted, Cheapest, issue
  <2>5. DomainBlocked(u, now)' <=> DomainBlocked(u, now)
    BY <2>4 DEF DomainBlocked, issue
  <2> QED
    BY <2>1, <2>2, <2>3, <2>5 DEF Blocked, PortBlocked
<1> QED
  BY <1>1, <1>2, <1>3

\* A candidate blocked now is blocked until the earliest event.
LEMMA BlockedUntilEvent ==
    ASSUME Types, Quiet, NEW u \in IssueCandidates, NEW t \in Nat, now < t,
           \A e \in EventTicks : t < e
    PROVE  Blocked(u, t)
<1> SUFFICES ASSUME ~Blocked(u, t) PROVE FALSE
  OBVIOUS
<1>1. u \in Uop /\ ValidTrace(trace) /\ now \in Nat
  BY TraceIsValid DEF IssueCandidates, Unissued, Types
<1>2. ASSUME NEW e \in WakeUps(u), e > now PROVE t < e
  BY <1>2 DEF EventTicks
<1>3. /\ ~DependencyBlocked(u) /\ ~PartOrderBlocked(u) /\ ~OverlapBlocked(u)
      /\ ~PartGapBlocked(u, t) /\ ~IntervalBlocked(u, t) /\ ~ResourceBlocked(u, t)
      /\ ~MemoryBlocked(u, t) /\ ~DomainBlocked(u, t)
  BY DEF Blocked, PortBlocked
<1>4. ~PartGapBlocked(u, now)
  <2> SUFFICES ASSUME PartGapBlocked(u, now) PROVE FALSE
    OBVIOUS
  <2>1. PartReady(u) \in WakeUps(u)
    BY <1>3 DEF WakeUps
  <2>2. PartReady(u) > now /\ ~(PartReady(u) > t)
    BY <1>3 DEF PartGapBlocked
  <2>3. t < PartReady(u)
    BY <1>2, <2>1, <2>2
  <2>4. PartReady(u) \in Int
    BY <1>1, <2>1, EventTicksInt, <2>2 DEF EventTicks
  <2> QED
    BY <2>2, <2>3, <2>4
<1>5. ~IntervalBlocked(u, now)
  <2> SUFFICES ASSUME IntervalBlocked(u, now) PROVE FALSE
    OBVIOUS
  <2>1. lastIssue[trace.class[u]] # NotYet /\ IntervalReady(u) > now /\ ~(IntervalReady(u) > t)
    BY <1>3 DEF IntervalBlocked
  <2>2. IntervalReady(u) \in WakeUps(u)
    BY <2>1 DEF WakeUps
  <2>3. t < IntervalReady(u)
    BY <1>2, <2>1, <2>2
  <2>4. IntervalReady(u) \in Int
    BY <1>1, <2>1, <2>2, EventTicksInt DEF EventTicks
  <2> QED
    BY <2>1, <2>3, <2>4
<1>6. ~ResourceBlocked(u, now)
  <2> SUFFICES ASSUME ResourceBlocked(u, now) PROVE FALSE
    OBVIOUS
  <2>1. PICK l \in LanesOf(u) : ~(resourceFree[l] > t)
    BY <1>3 DEF ResourceBlocked
  <2>2. l \in Lane /\ l[1] \in trace.resources[u] /\ resourceFree[l] \in Nat
    BY DEF LanesOf, Types
  <2> DEFINE S == {resourceFree[k] : k \in {x \in Lane : x[1] = l[1]}}
  <2>3. S \subseteq Nat /\ S # {}
    BY <2>2 DEF Types
  <2>4. PICK e \in S : \A y \in S : e <= y
    <3> HIDE DEF S
    <3> QED
      BY <2>3, LeastNumber
  <2>5. PICK k \in Lane : k[1] = l[1] /\ e = resourceFree[k]
    BY <2>4
  <2>6. e <= resourceFree[l]
    BY <2>2, <2>4
  <2>7. e \in FirstFree(l[1])
    BY <2>4, <2>5 DEF FirstFree
  <2>8. e \in WakeUps(u)
    <3>1. e \in UNION {FirstFree(r) : r \in trace.resources[u]}
      BY <2>2, <2>7
    <3> QED
      BY <3>1 DEF WakeUps
  <2>9. e > now
    BY <2>2, <2>5 DEF ResourceBlocked, LanesOf
  <2>10. t < e
    BY <1>2, <2>8, <2>9
  <2>11. e \in Nat
    BY <2>3, <2>4
  <2> QED
    BY <2>1, <2>2, <2>6, <2>10, <2>11
<1>7. ~PortBlocked(u, now)
  BY <1>3, <1>4, <1>5, <1>6 DEF PortBlocked
<1>8. ~MemoryBlocked(u, now)
  <2> SUFFICES ASSUME MemoryBlocked(u, now) PROVE FALSE
    OBVIOUS
  <2>1. /\ IsMemory(u) /\ memoryFree[trace.kind[u]] > now
        /\ ~(memoryFree[trace.kind[u]] > t)
    BY <1>3 DEF MemoryBlocked
  <2>2. memoryFree[trace.kind[u]] \in WakeUps(u)
    BY <1>7, <2>1 DEF WakeUps
  <2>3. t < memoryFree[trace.kind[u]]
    BY <1>2, <2>1, <2>2
  <2>4. memoryFree[trace.kind[u]] \in Nat
    BY <2>1 DEF IsMemory, Types
  <2> QED
    BY <2>1, <2>3, <2>4
<1>9. ~DomainBlocked(u, now)
  <2> SUFFICES ASSUME DomainBlocked(u, now) PROVE FALSE
    OBVIOUS
  <2>1. PICK token \in Granted(u) : domainFree[token] > now
    BY DEF DomainBlocked
  <2>2. PICK d \in Domain : token \in Cheapest(d, trace.demand[u][d])
    BY <2>1 DEF Granted
  <2> DEFINE tokens == Cheapest(d, trace.demand[u][d])
             S == {domainFree[x] : x \in tokens}
  <2>3. tokens \subseteq Token /\ tokens \subseteq Granted(u)
    BY <2>2 DEF Cheapest, Granted
  <2>4. S \subseteq 0..t /\ S # {}
    <3>1. \A x \in tokens : domainFree[x] \in Nat /\ ~(domainFree[x] > t)
      BY <1>3, <2>3 DEF DomainBlocked, Types
    <3> HIDE DEF tokens
    <3>2. S \subseteq 0..t
      BY <3>1
    <3> QED
      BY <3>2, <2>2 DEF tokens
  <2>5. PICK e \in S : \A y \in S : y <= e
    <3> HIDE DEF S
    <3> QED
      BY <2>4, GreatestNumber
  <2>6. PICK k \in tokens : e = domainFree[k]
    BY <2>5
  <2>7. \A y \in tokens : domainFree[y] <= domainFree[k]
    BY <2>5, <2>6
  <2>8. e \in DomainReady(u, d)
    BY <2>6, <2>7 DEF DomainReady
  <2>9. e \in WakeUps(u)
    <3>1. e \in UNION {DomainReady(u, c) : c \in Domain}
      BY <2>2, <2>8
    <3> QED
      BY <3>1 DEF WakeUps
  <2>10. e \in Nat /\ e <= t
    BY <2>4, <2>5
  <2>11. domainFree[token] \in Nat /\ domainFree[token] <= e
    BY <2>2, <2>3, <2>6, <2>7 DEF Types
  <2>12. e > now
    BY <1>1, <2>1, <2>10, <2>11
  <2>13. t < e
    BY <1>2, <2>9, <2>12
  <2> QED
    BY <2>10, <2>13
<1> QED
  BY <1>7, <1>8, <1>9 DEF Quiet, Blocked

LEMMA StepExhausted == Types /\ Exhausted /\ [Next]_vars => Exhausted'
<1> SUFFICES ASSUME Types, Exhausted, [Next]_vars PROVE Exhausted'
  OBVIOUS
<1>1. CASE Iterate
  BY <1>1 DEF Iterate, Exhausted
<1>2. ASSUME NEW u \in Uop, Complete(u) PROVE Exhausted'
  BY <1>2 DEF Complete, Exhausted, Quiet, control
<1>3. CASE CompleteReturns
  <2>1. /\ Due = {} /\ Due' = Due /\ IssueCandidates' = IssueCandidates
        /\ \A u : Blocked(u, now)' <=> Blocked(u, now)
    BY <1>3, FrameBlocked DEF CompleteReturns, front
  <2>2. CASE pc = "complete"
    BY <1>3, <2>2 DEF CompleteReturns, Exhausted
  <2>3. CASE pc = "wake"
    BY <1>3, <2>1, <2>3 DEF CompleteReturns, Exhausted
  <2>4. CASE pc = "settle"
    BY <1>3, <2>1, <2>4 DEF CompleteReturns, Exhausted, Quiet
  <2> QED
    BY <1>3, <2>2, <2>3, <2>4 DEF CompleteReturns
<1>4. ASSUME NEW m \in Macro, Dispatch(m) PROVE Exhausted'
  BY <1>4 DEF Dispatch, Exhausted
<1>5. CASE DispatchReturns
  BY <1>5 DEF DispatchReturns, Exhausted
<1>6. ASSUME NEW u \in Uop, NEW l \in Lane, Issue(u, l) PROVE Exhausted'
  BY <1>6 DEF Issue, Exhausted, control
<1>7. ASSUME NEW u \in Uop, Skip(u) PROVE Exhausted'
  <2>1. /\ Due' = Due /\ IssueCandidates' = IssueCandidates
        /\ \A v : Blocked(v, now)' <=> Blocked(v, now)
    BY <1>7, FrameBlocked DEF Skip, control, front
  <2>2. /\ pc = "scan" /\ pc' = pc /\ progress' = progress
        /\ Blocked(u, now) /\ candidates' = candidates \ {u}
    BY <1>7 DEF Skip, control
  <2> QED
    BY <2>1, <2>2 DEF Exhausted
<1>8. CASE ScanReturns
  <2>1. /\ Due' = Due /\ IssueCandidates' = IssueCandidates
        /\ \A v : Blocked(v, now)' <=> Blocked(v, now)
    BY <1>8, FrameBlocked DEF ScanReturns, front
  <2>2. pc = "scan" /\ candidates = {} /\ pc' = AfterScan
    BY <1>8 DEF ScanReturns
  <2> QED
    BY <2>1, <2>2 DEF AfterScan, Exhausted, Quiet
<1>9. ASSUME NEW m \in Macro, Retire(m) PROVE Exhausted'
  <2>1. /\ Due' = Due /\ IssueCandidates' = IssueCandidates
        /\ \A v : Blocked(v, now)' <=> Blocked(v, now)
    BY <1>9, FrameBlocked DEF Retire
  <2> QED
    BY <1>9, <2>1 DEF Retire, Exhausted, Quiet
<1>10. CASE RetireReturns
  <2>1. /\ Due' = Due /\ IssueCandidates' = IssueCandidates
        /\ \A v : Blocked(v, now)' <=> Blocked(v, now)
    BY <1>10, FrameBlocked DEF RetireReturns, front
  <2> QED
    BY <1>10, <2>1 DEF RetireReturns, Exhausted, Quiet
<1>11. CASE Finish
  BY <1>11 DEF Finish, Exhausted
<1>12. ASSUME NEW tick \in EventTicks, Advance(tick) PROVE Exhausted'
  <2>1. pc' \in {"no_progress", "head"}
    BY <1>12 DEF Advance
  <2> QED
    BY <2>1 DEF Exhausted
<1>13. CASE UNCHANGED vars
  <2>1. /\ Due' = Due /\ IssueCandidates' = IssueCandidates
        /\ \A v : Blocked(v, now)' <=> Blocked(v, now)
    BY <1>13, FrameBlocked DEF vars, control, front
  <2>2. pc' = pc /\ progress' = progress /\ candidates' = candidates
    BY <1>13 DEF vars, control, scan
  <2> QED
    BY <2>1, <2>2 DEF Exhausted, Quiet
<1>14. CASE Stopped
  BY <1>13, <1>14 DEF Stopped
<1> QED
  BY <1>1, <1>2, <1>3, <1>4, <1>5, <1>6, <1>7, <1>8, <1>9, <1>10, <1>11,
     <1>12, <1>13, <1>14 DEF Next

LEMMA StepSkipsNothing ==
    Types /\ Order /\ Settled /\ Exhausted /\ [Next]_vars => [NothingSkipped]_vars
<1> SUFFICES ASSUME Types, Order, Settled, Exhausted, Next PROVE NothingSkipped
  OBVIOUS
<1>1. now \in Nat
  BY DEF Types
<1>2. CASE now' = now
  <2>1. now..(now' - 1) = {}
    BY <1>1, <1>2
  <2> QED
    BY <2>1 DEF NothingSkipped
<1>3. ASSUME NEW tick \in EventTicks, Advance(tick) PROVE NothingSkipped
  <2>1. pc = "advance" /\ Quiet /\ \A e \in EventTicks : tick <= e
    BY <1>3 DEF Advance, Exhausted
  <2>2. EventTicks \subseteq Int
    BY EventTicksInt
  <2>3. tick > now
    BY <2>1, FutureEvents
  <2>4. now' = tick
    BY <1>1, <1>3, <2>2, <2>3 DEF Advance
  <2>5. ASSUME NEW t \in now..(now' - 1)
        PROVE  /\ t > now => t % TicksPerCycle # 0
               /\ \A u \in InFlight : doneAt[u] > t
               /\ \A u \in IssueCandidates : Blocked(u, t)
    <3>1. t \in Nat /\ now <= t /\ t < tick
      BY <1>1, <2>2, <2>4
    <3>2. \A e \in EventTicks : t < e
      BY <2>1, <2>2, <3>1
    <3>3. t > now => t % TicksPerCycle # 0
      <4>1. t < ((now \div TicksPerCycle) + 1) * TicksPerCycle
        BY <3>2 DEF EventTicks, NextCycle
      <4> QED
        BY <1>1, <3>1, <4>1, PipelineAssumption, BetweenBoundaries
    <3>4. \A u \in InFlight : doneAt[u] > t
      <4> SUFFICES ASSUME NEW u \in InFlight PROVE doneAt[u] > t
        OBVIOUS
      <4>1. doneAt[u] \in EventTicks
        BY DEF EventTicks
      <4> QED
        BY <2>2, <3>1, <3>2, <4>1
    <3>5. \A u \in IssueCandidates : Blocked(u, t)
      <4>1. CASE t = now
        BY <2>1, <4>1 DEF Quiet
      <4>2. CASE t > now
        BY <1>1, <2>1, <3>1, <3>2, <4>2, BlockedUntilEvent
      <4> QED
        BY <1>1, <3>1, <4>1, <4>2
    <3> QED
      BY <3>3, <3>4, <3>5
  <2> QED
    BY <2>5 DEF NothingSkipped
<1>4. CASE ~ \E tick \in EventTicks : Advance(tick)
  <2>1. now' = now
    BY <1>4 DEF Next, Iterate, Complete, CompleteReturns, Dispatch, DispatchReturns, Issue,
         Skip, ScanReturns, Retire, RetireReturns, Finish, Stopped, vars, control
  <2> QED
    BY <1>2, <2>1
<1> QED
  BY <1>3, <1>4

\* _next_event_tick never jumps over a tick at which a uop could have been
\* issued, a completion was due or a cycle began: a trace simulated in jumps is
\* simulated as if tick by tick.
THEOREM NoMissedWakeUpHolds == Spec => NoMissedWakeUp
<1>1. Init => Settled /\ Exhausted
  BY DEF Init, Settled, Exhausted
<1>2. Types /\ Order /\ Settled /\ Exhausted /\ [Next]_vars => (Settled /\ Exhausted)'
  BY StepSettled, StepExhausted
<1>3. Types /\ Order /\ Settled /\ Exhausted /\ [Next]_vars => [NothingSkipped]_vars
  BY StepSkipsNothing
<1> QED
  BY <1>1, <1>2, <1>3, TypesAndOrder, PTL DEF Spec, NoMissedWakeUp

-----------------------------------------------------------------------------
(***************************************************************************)
(* Sums as cardinalities: the units of the members of a finite set.        *)
(***************************************************************************)
LEMMA UnitsFinite ==
    ASSUME NEW S, IsFiniteSet(S), NEW amount, \A x \in S : amount[x] \in Nat
    PROVE  IsFiniteSet(UnitsOf(amount, S)) /\ Cardinality(UnitsOf(amount, S)) \in Nat
<1> DEFINE f == [x \in S |-> {x} \X (1..amount[x])]
           T == {{x} \X (1..amount[x]) : x \in S}
<1>1. f \in Surjection(S, T)
  BY DEF Surjection
<1>2. ASSUME NEW x \in S PROVE IsFiniteSet({x} \X (1..amount[x]))
  <2>1. PICK n \in Nat : n = amount[x]
    OBVIOUS
  <2>2. PICK I : I = 1..amount[x] /\ IsFiniteSet(I)
    BY <2>1, FS_Interval
  <2>3. IsFiniteSet({x} \X I)
    BY <2>2, FS_Singleton, FS_Product
  <2> QED
    BY <2>2, <2>3
<1>3. IsFiniteSet(T) /\ \A t \in T : IsFiniteSet(t)
  <2>1. IsFiniteSet(T)
    <3> HIDE DEF f, T
    <3> QED
      BY <1>1, FS_Surjection
  <2> QED
    BY <1>2, <2>1
<1>4. UnitsOf(amount, S) = UNION T
  BY DEF UnitsOf
<1> HIDE DEF T
<1>5. IsFiniteSet(UnitsOf(amount, S))
  BY <1>3, <1>4, FS_UNION
<1> QED
  BY <1>5, FS_CardinalityType

LEMMA UnitsWith ==
    ASSUME NEW S, IsFiniteSet(S), NEW x, x \notin S,
           NEW amount, \A y \in S \cup {x} : amount[y] \in Nat
    PROVE  Cardinality(UnitsOf(amount, S \cup {x})) = Cardinality(UnitsOf(amount, S)) + amount[x]
<1> DEFINE new == {x} \X (1..amount[x])
           U == UnitsOf(amount, S)
<1>1. IsFiniteSet(U) /\ Cardinality(U) \in Nat
  BY UnitsFinite
<1>2. IsFiniteSet(new) /\ Cardinality(new) = amount[x]
  <2>1. IsFiniteSet({x}) /\ Cardinality({x}) = 1
    BY FS_Singleton
  <2>2. IsFiniteSet(1..amount[x]) /\ Cardinality(1..amount[x]) = amount[x]
    BY FS_Interval
  <2>3. PICK I : I = 1..amount[x]
    OBVIOUS
  <2>4. IsFiniteSet({x} \X I) /\ Cardinality({x} \X I) = Cardinality({x}) * Cardinality(I)
    BY <2>1, <2>2, <2>3, FS_Product
  <2>5. Cardinality(I) = amount[x] /\ amount[x] \in Nat /\ new = {x} \X I
    BY <2>2, <2>3
  <2> HIDE DEF new
  <2> QED
    BY <2>1, <2>4, <2>5
<1>3. U \cap new = {}
  BY DEF UnitsOf
<1>4. UnitsOf(amount, S \cup {x}) = U \cup new
  BY DEF UnitsOf
<1> HIDE DEF U, new
<1>5. Cardinality(U \cup new) = Cardinality(U) + Cardinality(new) - Cardinality(U \cap new)
  BY <1>1, <1>2, FS_Union
<1>6. Cardinality(U \cap new) = 0
  BY <1>3, FS_EmptySet
<1>7. amount[x] \in Nat
  OBVIOUS
<1>8. Cardinality(U \cup new) = Cardinality(U) + amount[x]
  BY <1>1, <1>2, <1>5, <1>6, <1>7
<1> QED
  BY <1>4, <1>8 DEF U

LEMMA NoUnits == \A amount : Cardinality(UnitsOf(amount, {})) = 0
BY FS_EmptySet DEF UnitsOf

-----------------------------------------------------------------------------
(***************************************************************************)
(* Dispatch and retirement keep to their widths.  While a handler is at    *)
(* work, width counts what it has moved at this tick, which is a boundary; *)
(* before it there is nothing of this tick.                                *)
(***************************************************************************)
WithinWidths ==
    /\ \A t \in Nat : /\ Cardinality(DispatchUnits(t)) <= DispatchWidth
                      /\ Cardinality(RetireUnits(t)) <= RetireWidth
    /\ \A m \in Macro : /\ dispatchTick[m] # NotYet => dispatchTick[m] % TicksPerCycle = 0
                        /\ retireTick[m] # NotYet => retireTick[m] % TicksPerCycle = 0

AtWork ==
    /\ \A m \in Macro : retireTick[m] <= now
    /\ pc \in {"head", "complete"} => \A m \in Macro : dispatchTick[m] # now
    /\ pc \in {"head", "complete", "dispatch", "wake", "scan", "settle"} =>
          \A m \in Macro : retireTick[m] # now
    /\ pc = "dispatch" => OnBoundary /\ width = Cardinality(DispatchUnits(now))
    /\ pc = "retire" => OnBoundary /\ width = Cardinality(RetireUnits(now))

Widths == WithinWidths /\ AtWork

\* Nothing has been dispatched or retired at a tick at which nothing was.
LEMMA NoneOfThisTick ==
    /\ (\A m \in Macro : dispatchTick[m] # now) => Cardinality(DispatchUnits(now)) = 0
    /\ (\A m \in Macro : retireTick[m] # now) => Cardinality(RetireUnits(now)) = 0
<1>1. ASSUME \A m \in Macro : dispatchTick[m] # now
      PROVE  Cardinality(DispatchUnits(now)) = 0
  <2>1. {m \in Macro : dispatchTick[m] = now} = {}
    BY <1>1
  <2> QED
    BY <2>1, NoUnits DEF DispatchUnits
<1>2. ASSUME \A m \in Macro : retireTick[m] # now
      PROVE  Cardinality(RetireUnits(now)) = 0
  <2>1. {m \in Macro : retireTick[m] = now} = {}
    BY <1>2
  <2> QED
    BY <2>1, NoUnits DEF RetireUnits
<1> QED
  BY <1>1, <1>2

LEMMA InitWidths == Init => Widths
<1> SUFFICES ASSUME Init PROVE Widths
  OBVIOUS
<1>1. \A m \in Macro : dispatchTick[m] = NotYet /\ retireTick[m] = NotYet
  BY DEF Init
<1>2. ASSUME NEW t \in Nat
      PROVE  /\ Cardinality(DispatchUnits(t)) <= DispatchWidth
             /\ Cardinality(RetireUnits(t)) <= RetireWidth
  <2>1. /\ {m \in Macro : dispatchTick[m] = t} = {}
        /\ {m \in Macro : retireTick[m] = t} = {}
    BY <1>1 DEF NotYet
  <2>2. Cardinality(DispatchUnits(t)) = 0 /\ Cardinality(RetireUnits(t)) = 0
    BY <2>1, NoUnits DEF DispatchUnits, RetireUnits
  <2> QED
    BY <2>2, PipelineAssumption
<1>3. WithinWidths
  BY <1>1, <1>2 DEF WithinWidths
<1>4. AtWork
  BY <1>1 DEF AtWork, Init, NotYet
<1> QED
  BY <1>3, <1>4 DEF Widths

LEMMA DispatchWidths ==
    ASSUME Types, Order, Widths, NEW m \in Macro, Dispatch(m)
    PROVE  Widths'
<1> DEFINE at(t) == {n \in Macro : dispatchTick[n] = t}
           decoded == [n \in Macro |-> Decoded(n)]
<1>1. /\ pc = "dispatch" /\ pc' = pc /\ now' = now /\ trace' = trace
      /\ width + Decoded(m) <= DispatchWidth /\ width' = width + Decoded(m)
      /\ dispatchTick' = [dispatchTick EXCEPT ![m] = now]
      /\ m = nextDispatch + 1 /\ retireTick' = retireTick
  BY DEF Dispatch, Dispatchable
<1>2. dispatchTick[m] = NotYet
  <2>1. nextDispatch \in Nat
    BY CountAssumption DEF Types
  <2>2. ~Dispatched(m)
    BY <1>1, <2>1 DEF Dispatched
  <2> QED
    BY <2>2 DEF Order, RobInOrder
<1>3. dispatchTick \in [Macro -> Nat \cup {NotYet}] /\ now \in Nat
  BY DEF Types
<1>4. OnBoundary /\ width = Cardinality(DispatchUnits(now))
  BY <1>1 DEF Widths, AtWork
<1>5. \A t \in Nat \ {now} : DispatchUnits(t)' = DispatchUnits(t)
  <2> SUFFICES ASSUME NEW t \in Nat \ {now} PROVE DispatchUnits(t)' = DispatchUnits(t)
    OBVIOUS
  <2>1. at(t)' = at(t)
    BY <1>1, <1>2, <1>3 DEF NotYet
  <2>2. decoded' = decoded
    BY <1>1 DEF Decoded
  <2> QED
    BY <2>1, <2>2 DEF DispatchUnits
<1>6. Cardinality(DispatchUnits(now))' = width + Decoded(m)
  <2>1. at(now)' = at(now) \cup {m} /\ m \notin at(now)
    BY <1>1, <1>2, <1>3 DEF NotYet
  <2>2. decoded' = decoded /\ decoded[m] = Decoded(m)
    BY <1>1 DEF Decoded
  <2>3. IsFiniteSet(at(now))
    <3>1. at(now) \subseteq Macro /\ IsFiniteSet(Macro)
      BY CountAssumption, FS_Interval DEF Macro
    <3> QED
      BY <3>1, FS_Subset
  <2>4. \A n \in at(now) \cup {m} : decoded[n] \in Nat
    BY DecodedNat, TraceIsValid
  <2>5. DispatchUnits(now)' = UnitsOf(decoded, at(now) \cup {m})
    BY <1>1, <2>1, <2>2 DEF DispatchUnits
  <2>6. DispatchUnits(now) = UnitsOf(decoded, at(now))
    BY DEF DispatchUnits
  <2> HIDE DEF at, decoded
  <2>7. Cardinality(UnitsOf(decoded, at(now) \cup {m}))
            = Cardinality(UnitsOf(decoded, at(now))) + decoded[m]
    BY <2>1, <2>3, <2>4, UnitsWith
  <2> QED
    BY <1>4, <2>2, <2>5, <2>6, <2>7
<1>7. \A t : RetireUnits(t)' = RetireUnits(t)
  BY <1>1 DEF RetireUnits
<1>8. WithinWidths'
  <2>1. \A t \in Nat : Cardinality(DispatchUnits(t))' <= DispatchWidth
    BY <1>1, <1>5, <1>6 DEF Widths, WithinWidths
  <2>2. \A n \in Macro : dispatchTick'[n] # NotYet => dispatchTick'[n] % TicksPerCycle = 0
    BY <1>1, <1>3, <1>4 DEF Widths, WithinWidths, OnBoundary
  <2> QED
    BY <1>1, <1>7, <2>1, <2>2 DEF Widths, WithinWidths
<1>9. AtWork'
  BY <1>1, <1>4, <1>6 DEF Widths, AtWork, OnBoundary
<1> QED
  BY <1>8, <1>9 DEF Widths

LEMMA RetireWidths ==
    ASSUME Types, Order, Widths, NEW m \in Macro, Retire(m)
    PROVE  Widths'
<1> DEFINE at(t) == {n \in Macro : retireTick[n] = t}
<1>1. /\ pc = "retire" /\ pc' = pc /\ now' = now /\ trace' = trace
      /\ width + trace.retireOps[m] <= RetireWidth
      /\ width' = width + trace.retireOps[m]
      /\ retireTick' = [retireTick EXCEPT ![m] = now] /\ dispatchTick' = dispatchTick
  BY DEF Retire, Retirable
<1>2. retireTick[m] = NotYet
  <2>1. m = RetiredCount + 1 /\ RetiredCount \in Nat
    BY RetireWindow, CountsFinite
  <2>2. ~(m <= RetiredCount)
    BY <2>1
  <2> QED
    BY <2>2 DEF Order, RobInOrder
<1>3. retireTick \in [Macro -> Nat \cup {NotYet}] /\ now \in Nat
  BY DEF Types
<1>4. OnBoundary /\ width = Cardinality(RetireUnits(now))
  BY <1>1 DEF Widths, AtWork
<1>5. \A t \in Nat \ {now} : RetireUnits(t)' = RetireUnits(t)
  <2> SUFFICES ASSUME NEW t \in Nat \ {now} PROVE RetireUnits(t)' = RetireUnits(t)
    OBVIOUS
  <2>1. at(t)' = at(t)
    BY <1>1, <1>2, <1>3 DEF NotYet
  <2> QED
    BY <1>1, <2>1 DEF RetireUnits
<1>6. Cardinality(RetireUnits(now))' = width + trace.retireOps[m]
  <2>1. at(now)' = at(now) \cup {m} /\ m \notin at(now)
    BY <1>1, <1>2, <1>3 DEF NotYet
  <2>2. IsFiniteSet(at(now))
    <3>1. at(now) \subseteq Macro /\ IsFiniteSet(Macro)
      BY CountAssumption, FS_Interval DEF Macro
    <3> QED
      BY <3>1, FS_Subset
  <2>3. PICK amount : amount = trace.retireOps
    OBVIOUS
  <2>4. \A n \in at(now) \cup {m} : amount[n] \in Nat
    BY <2>3, TraceIsValid DEF ValidTrace
  <2>5. RetireUnits(now)' = UnitsOf(amount, at(now) \cup {m})
    BY <1>1, <2>1, <2>3 DEF RetireUnits
  <2>6. RetireUnits(now) = UnitsOf(amount, at(now))
    BY <2>3 DEF RetireUnits
  <2> HIDE DEF at
  <2>7. Cardinality(UnitsOf(amount, at(now) \cup {m}))
            = Cardinality(UnitsOf(amount, at(now))) + amount[m]
    BY <2>1, <2>2, <2>4, UnitsWith
  <2> QED
    BY <1>4, <2>3, <2>5, <2>6, <2>7
<1>7. \A t : DispatchUnits(t)' = DispatchUnits(t)
  BY <1>1 DEF DispatchUnits, Decoded
<1>8. WithinWidths'
  <2>1. \A t \in Nat : Cardinality(RetireUnits(t))' <= RetireWidth
    BY <1>1, <1>5, <1>6 DEF Widths, WithinWidths
  <2>2. \A n \in Macro : retireTick'[n] # NotYet => retireTick'[n] % TicksPerCycle = 0
    BY <1>1, <1>3, <1>4 DEF Widths, WithinWidths, OnBoundary
  <2> QED
    BY <1>1, <1>7, <2>1, <2>2 DEF Widths, WithinWidths
<1>9. AtWork'
  <2>1. \A n \in Macro : retireTick'[n] <= now
    BY <1>1, <1>3 DEF Widths, AtWork
  <2> QED
    BY <1>1, <1>4, <1>6, <2>1 DEF AtWork, OnBoundary
<1> QED
  BY <1>8, <1>9 DEF Widths

\* A handler begins with nothing of its kind at this tick, and ends.
LEMMA TurnWidths ==
    ASSUME Widths, UNCHANGED <<trace, front, now>>,
           \/ pc' = pc /\ width' = width
           \/ pc = "head" /\ pc' \in {"complete", "not_converged"}
           \/ pc = "complete" /\ pc' = "dispatch" /\ OnBoundary /\ width' = 0
           \/ pc = "settle" /\ pc' = "retire" /\ OnBoundary /\ width' = 0
           \/ pc \in {"complete", "dispatch", "wake", "scan"} /\ pc' \in {"wake", "scan", "settle"}
           \/ pc' \in {"advance", "done"}
    PROVE  Widths'
<1>1. /\ dispatchTick' = dispatchTick /\ retireTick' = retireTick /\ now' = now
      /\ trace' = trace
  BY DEF front
<1>2. \A t : DispatchUnits(t)' = DispatchUnits(t) /\ RetireUnits(t)' = RetireUnits(t)
  BY <1>1 DEF DispatchUnits, RetireUnits, Decoded
<1>3. WithinWidths'
  BY <1>1, <1>2 DEF Widths, WithinWidths
<1>4. /\ Cardinality(DispatchUnits(now))' = Cardinality(DispatchUnits(now))
      /\ Cardinality(RetireUnits(now))' = Cardinality(RetireUnits(now))
  BY <1>1, <1>2
<1>5. AtWork'
  BY <1>1, <1>4, NoneOfThisTick DEF Widths, AtWork, OnBoundary
<1> QED
  BY <1>3, <1>5 DEF Widths

LEMMA AdvanceWidths ==
    ASSUME Types, Order, Widths, NEW tick \in EventTicks, Advance(tick)
    PROVE  Widths'
<1>1. UNCHANGED <<trace, dispatchTick, retireTick>>
  BY DEF Advance, front
<1>2. \A t : DispatchUnits(t)' = DispatchUnits(t) /\ RetireUnits(t)' = RetireUnits(t)
  BY <1>1 DEF DispatchUnits, RetireUnits, Decoded
<1>3. WithinWidths'
  BY <1>1, <1>2 DEF Widths, WithinWidths
<1>4. \/ pc' = "no_progress" /\ now' = now
      \/ pc' = "head" /\ now' = tick /\ tick > now
  BY EventTicksInt DEF Advance, Types
<1>5. \A m \in Macro : dispatchTick[m] \in Int /\ retireTick[m] \in Int
  BY DEF Types, NotYet
<1>6. \A m \in Macro : dispatchTick[m] <= now /\ retireTick[m] <= now
  BY DEF Order, Clock, Widths, AtWork
<1>7. tick \in Int /\ now \in Nat
  BY EventTicksInt DEF Types
<1>8. AtWork'
  BY <1>1, <1>4, <1>5, <1>6, <1>7 DEF AtWork
<1> QED
  BY <1>3, <1>8 DEF Widths

LEMMA StepWidths == Types /\ Order /\ Widths /\ [Next]_vars => Widths'
<1> SUFFICES ASSUME Types, Order, Widths, [Next]_vars PROVE Widths'
  OBVIOUS
<1>1. ASSUME NEW m \in Macro, Dispatch(m) PROVE Widths'
  BY <1>1, DispatchWidths
<1>2. ASSUME NEW m \in Macro, Retire(m) PROVE Widths'
  BY <1>2, RetireWidths
<1>3. ASSUME NEW tick \in EventTicks, Advance(tick) PROVE Widths'
  BY <1>3, AdvanceWidths
<1>4. CASE Iterate
  BY <1>4, TurnWidths DEF Iterate
<1>5. CASE CompleteReturns
  BY <1>5, TurnWidths DEF CompleteReturns
<1>6. CASE DispatchReturns
  BY <1>6, TurnWidths DEF DispatchReturns
<1>7. CASE ScanReturns
  BY <1>7, TurnWidths DEF ScanReturns, AfterScan
<1>8. CASE RetireReturns
  BY <1>8, TurnWidths DEF RetireReturns
<1>9. CASE Finish
  BY <1>9, TurnWidths DEF Finish
<1>10. ASSUME NEW u \in Uop, Complete(u) \/ Skip(u) PROVE Widths'
  BY <1>10, TurnWidths DEF Complete, Skip, control
<1>11. ASSUME NEW u \in Uop, NEW l \in Lane, Issue(u, l) PROVE Widths'
  BY <1>11, TurnWidths DEF Issue, control
<1>12. CASE Stopped
  BY <1>12, TurnWidths DEF Stopped, vars, control
<1>13. CASE UNCHANGED vars
  BY <1>13, TurnWidths DEF vars, control
<1> QED
  BY <1>1, <1>2, <1>3, <1>4, <1>5, <1>6, <1>7, <1>8, <1>9, <1>10, <1>11, <1>12, <1>13
     DEF Next

LEMMA WidthsAreKept == Widths /\ Types => WidthPerCycle
<1> SUFFICES ASSUME Widths, Types, NEW m \in Macro
             PROVE  /\ dispatchTick[m] # NotYet =>
                          /\ dispatchTick[m] % TicksPerCycle = 0
                          /\ Cardinality(DispatchUnits(dispatchTick[m])) <= DispatchWidth
                    /\ retireTick[m] # NotYet =>
                          /\ retireTick[m] % TicksPerCycle = 0
                          /\ Cardinality(RetireUnits(retireTick[m])) <= RetireWidth
  BY DEF WidthPerCycle
<1>1. dispatchTick[m] # NotYet => dispatchTick[m] \in Nat
  BY DEF Types
<1>2. retireTick[m] # NotYet => retireTick[m] \in Nat
  BY DEF Types
<1> QED
  BY <1>1, <1>2 DEF Widths, WithinWidths

-----------------------------------------------------------------------------
(***************************************************************************)
(* Issue domains.  A domain hands a uop as many tokens as it demands: of a *)
(* finite set in order there are n that fewer than n others precede.       *)
(***************************************************************************)
IsOrderOf(order, T) ==
    /\ \A s \in T : <<s, s>> \notin order
    /\ \A r, s, t \in T : <<r, s>> \in order /\ <<s, t>> \in order => <<r, t>> \in order
    /\ \A s, t \in T : s # t => <<s, t>> \in order \/ <<t, s>> \in order
Below(order, T, t) == {s \in T : <<s, t>> \in order}
FirstOf(order, T, n) == {t \in T : Cardinality(Below(order, T, t)) < n}

LEMMA BelowGrows ==
    ASSUME NEW T, IsFiniteSet(T), NEW order, IsOrderOf(order, T), NEW s \in T, NEW t \in T
    PROVE  /\ IsFiniteSet(Below(order, T, t)) /\ Cardinality(Below(order, T, t)) \in Nat
           /\ <<s, t>> \in order =>
                 Cardinality(Below(order, T, s)) < Cardinality(Below(order, T, t))
<1>1. \A x \in T : IsFiniteSet(Below(order, T, x)) /\ Cardinality(Below(order, T, x)) \in Nat
  <2> SUFFICES ASSUME NEW x \in T
               PROVE  /\ IsFiniteSet(Below(order, T, x))
                      /\ Cardinality(Below(order, T, x)) \in Nat
    OBVIOUS
  <2>1. Below(order, T, x) \subseteq T
    BY DEF Below
  <2> QED
    BY <2>1, FS_Subset, FS_CardinalityType
<1>2. ASSUME <<s, t>> \in order
      PROVE  Cardinality(Below(order, T, s)) < Cardinality(Below(order, T, t))
  <2>1. Below(order, T, s) \subseteq Below(order, T, t)
    BY <1>2 DEF Below, IsOrderOf
  <2>2. s \in Below(order, T, t) /\ s \notin Below(order, T, s)
    BY <1>2 DEF Below, IsOrderOf
  <2> QED
    BY <1>1, <2>1, <2>2, FS_Subset
<1> QED
  BY <1>1, <1>2

LEMMA FirstAreThere ==
    ASSUME NEW T, IsFiniteSet(T), NEW order, IsOrderOf(order, T), NEW n \in 0..Cardinality(T)
    PROVE  Cardinality(FirstOf(order, T, n)) = n
<1> DEFINE rank(t) == Cardinality(Below(order, T, t))
           F(k) == FirstOf(order, T, k)
           Bad == {k \in 0..Cardinality(T) : Cardinality(F(k)) # k}
<1>0. Cardinality(T) \in Nat
  BY FS_CardinalityType
<1>1. \A t \in T : rank(t) \in Nat
  BY BelowGrows
<1>2. \A s, t \in T : <<s, t>> \in order => rank(s) < rank(t)
  BY BelowGrows
<1> HIDE DEF rank
<1>3. \A k, t : t \in F(k) <=> t \in T /\ rank(t) < k
  BY DEF FirstOf, rank
<1> HIDE DEF F
<1>4. SUFFICES Bad = {}
  BY <1>4 DEF F
<1>5. SUFFICES ASSUME Bad # {} PROVE FALSE
  OBVIOUS
<1>6. PICK k \in Bad : \A j \in Bad : k <= j
  <2>1. Bad \subseteq Nat
    OBVIOUS
  <2> HIDE DEF Bad
  <2> QED
    BY <1>5, <2>1, LeastNumber
<1>7. k # 0
  <2>1. F(0) = {}
    BY <1>1, <1>3
  <2>2. Cardinality(F(0)) = 0
    BY <2>1, FS_EmptySet
  <2> QED
    BY <2>2
<1>8. k - 1 \in Nat /\ k \in Nat /\ k <= Cardinality(T) /\ Cardinality(F(k - 1)) = k - 1
  <2>1. k - 1 \in 0..Cardinality(T) /\ ~(k <= k - 1)
    BY <1>0, <1>7
  <2>2. k - 1 \notin Bad
    <3> HIDE DEF Bad
    <3> QED
      BY <1>6, <2>1
  <2> QED
    BY <1>0, <1>7, <2>1, <2>2
<1> DEFINE Rest == {rank(t) : t \in T \ F(k - 1)}
<1>9. F(k - 1) \subseteq T /\ IsFiniteSet(F(k - 1)) /\ F(k - 1) # T
  <2>1. F(k - 1) \subseteq T
    BY <1>3
  <2> QED
    BY <1>0, <1>8, <2>1, FS_Subset
<1>10. PICK m \in T \ F(k - 1) : \A t \in T \ F(k - 1) : rank(m) <= rank(t)
  <2>1. Rest \subseteq Nat /\ Rest # {}
    BY <1>1, <1>9
  <2>2. PICK r \in Rest : \A q \in Rest : r <= q
    <3> HIDE DEF Rest
    <3> QED
      BY <2>1, LeastNumber
  <2> QED
    BY <2>2
<1>11. Below(order, T, m) = F(k - 1)
  <2>1. ASSUME NEW s \in Below(order, T, m) PROVE s \in F(k - 1)
    <3>1. s \in T /\ <<s, m>> \in order
      BY DEF Below
    <3>2. rank(s) < rank(m) /\ rank(s) \in Nat /\ rank(m) \in Nat
      BY <1>1, <1>2, <3>1
    <3> QED
      BY <1>10, <3>1, <3>2
  <2>2. ASSUME NEW s \in F(k - 1) PROVE s \in Below(order, T, m)
    <3>1. s \in T /\ s # m /\ rank(s) < k - 1
      BY <1>3, <1>10
    <3>2. ~(rank(m) < k - 1)
      BY <1>3, <1>10
    <3>3. rank(s) \in Nat /\ rank(m) \in Nat
      BY <1>1, <3>1
    <3>4. <<m, s>> \notin order
      BY <1>2, <1>8, <3>1, <3>2, <3>3
    <3> QED
      BY <3>1, <3>4 DEF IsOrderOf, Below
  <2> QED
    BY <2>1, <2>2
<1>12. rank(m) = k - 1
  BY <1>8, <1>11 DEF rank
<1>13. F(k) = F(k - 1) \cup {m}
  <2>1. ASSUME NEW t \in T PROVE t \in F(k) <=> t \in F(k - 1) \/ t = m
    <3>1. t # m => rank(t) # k - 1
      <4>1. t # m => <<t, m>> \in order \/ <<m, t>> \in order
        BY DEF IsOrderOf
      <4> QED
        BY <1>1, <1>2, <1>12, <4>1
    <3>2. rank(t) \in Nat
      BY <1>1
    <3> QED
      BY <1>3, <1>8, <1>12, <3>1, <3>2
  <2> QED
    BY <1>3, <2>1
<1>14. Cardinality(F(k)) = k
  BY <1>8, <1>9, <1>10, <1>13, FS_AddElement
<1> QED
  BY <1>14

\* The tokens of a domain, and those of them that are taken at a tick.
TokensOf(d) == {x \in Token : x[1] = d}
TakenAt(d, t) == {x \in TokensOf(d) : domainFree[x] > t}

\* From now on no more tokens are demanded than are taken, and before now no
\* more were than there are.
TokensLast ==
    \A d \in Domain, t \in Nat :
        Cardinality(UnitsOf(Demands(d), HoldersAt(t))) <=
            IF now <= t THEN Cardinality(TakenAt(d, t)) ELSE DomainCapacity[d]

LEMMA TokenCount ==
    ASSUME NEW d \in Domain
    PROVE  /\ IsFiniteSet(TokensOf(d)) /\ Cardinality(TokensOf(d)) = DomainCapacity[d]
           /\ \A x \in TokensOf(d) : x = <<d, x[2]>> /\ x[2] \in Nat
<1>1. PICK n \in Nat : n = DomainCapacity[d]
  BY ResourceAssumption
<1>2. PICK I : I = 1..n /\ IsFiniteSet(I) /\ Cardinality(I) = n
  BY FS_Interval
<1>3. TokensOf(d) = {d} \X I
  <2>1. \A x \in TokensOf(d) : x \in {d} \X I
    BY <1>1, <1>2 DEF TokensOf, Token
  <2>2. \A x \in {d} \X I : x \in TokensOf(d)
    BY <1>1, <1>2 DEF TokensOf, Token
  <2> QED
    BY <2>1, <2>2
<1>4. /\ IsFiniteSet({d} \X I)
      /\ Cardinality({d} \X I) = Cardinality({d}) * Cardinality(I) /\ Cardinality({d}) = 1
  BY <1>2, FS_Singleton, FS_Product
<1>5. \A x \in {d} \X I : x = <<d, x[2]>> /\ x[2] \in Nat
  BY <1>2
<1> QED
  BY <1>1, <1>2, <1>3, <1>4, <1>5

LEMMA CheapestCount ==
    ASSUME Types, NEW d \in Domain, NEW n \in 0..DomainCapacity[d]
    PROVE  /\ Cheapest(d, n) \subseteq TokensOf(d)
           /\ Cardinality(Cheapest(d, n)) = n
<1> DEFINE T == TokensOf(d)
           before(s, t) == \/ domainFree[s] < domainFree[t]
                           \/ domainFree[s] = domainFree[t] /\ s[2] < t[2]
           order == {p \in T \X T : before(p[1], p[2])}
<1>1. \A x \in T : x = <<d, x[2]>> /\ x[2] \in Nat /\ domainFree[x] \in Nat
  <2>1. T \subseteq Token
    BY DEF TokensOf
  <2> QED
    BY <2>1, TokenCount DEF Types
<1>2. \A s, t \in T : <<s, t>> \in order <=> before(s, t)
  OBVIOUS
<1>3. IsOrderOf(order, T)
  <2> HIDE DEF order, T
  <2>1. \A s \in T : ~before(s, s)
    BY <1>1
  <2>2. \A r, s, t \in T : before(r, s) /\ before(s, t) => before(r, t)
    BY <1>1
  <2>3. \A s, t \in T : s # t => before(s, t) \/ before(t, s)
    <3> SUFFICES ASSUME NEW s \in T, NEW t \in T, ~before(s, t), ~before(t, s)
                 PROVE  s = t
      OBVIOUS
    <3>1. s[2] = t[2]
      BY <1>1
    <3> QED
      BY <1>1, <3>1
  <2> QED
    BY <1>2, <2>1, <2>2, <2>3 DEF IsOrderOf
<1>4. \A t \in T : Below(order, T, t) = {s \in T : before(s, t)}
  BY <1>2 DEF Below
<1>5. Cheapest(d, n) = FirstOf(order, T, n)
  <2>1. Cheapest(d, n) = {t \in T : Cardinality({s \in T : before(s, t)}) < n}
    BY DEF Cheapest, TokensOf
  <2> HIDE DEF order, T
  <2> QED
    BY <1>4, <2>1 DEF FirstOf
<1>6. Cardinality(FirstOf(order, T, n)) = n
  <2>1. IsFiniteSet(T) /\ n \in 0..Cardinality(T)
    BY TokenCount
  <2> HIDE DEF order, T
  <2> QED
    BY <1>3, <2>1, FirstAreThere
<1> QED
  BY <1>5, <1>6 DEF FirstOf

LEMMA HoldersFinite ==
    ASSUME Types, NEW d \in Domain, NEW t
    PROVE  /\ IsFiniteSet(HoldersAt(t)) /\ HoldersAt(t) \subseteq Uop
           /\ \A u \in Uop : Demands(d)[u] \in Nat /\ Demands(d)[u] = trace.demand[u][d]
           /\ IsFiniteSet(TakenAt(d, t)) /\ Cardinality(TakenAt(d, t)) \in Nat
           /\ Cardinality(TakenAt(d, t)) <= DomainCapacity[d]
           /\ Cardinality(UnitsOf(Demands(d), HoldersAt(t))) \in Nat
<1>1. HoldersAt(t) \subseteq Uop /\ IsFiniteSet(Uop)
  BY CountAssumption, FS_Interval DEF HoldersAt, Uop
<1>2. TakenAt(d, t) \subseteq TokensOf(d)
  BY DEF TakenAt
<1>3. \A u \in Uop : Demands(d)[u] \in Nat /\ Demands(d)[u] = trace.demand[u][d]
  BY TraceIsValid DEF ValidTrace, Demands
<1>4. /\ IsFiniteSet(TakenAt(d, t)) /\ Cardinality(TakenAt(d, t)) \in Nat
      /\ Cardinality(TakenAt(d, t)) <= DomainCapacity[d]
  BY <1>2, TokenCount, FS_Subset, FS_CardinalityType
<1>5. PICK S : S = HoldersAt(t) /\ IsFiniteSet(S) /\ S \subseteq Uop
  BY <1>1, FS_Subset
<1>6. PICK amount : amount = Demands(d) /\ \A x \in S : amount[x] \in Nat
  BY <1>3, <1>5
<1>7. Cardinality(UnitsOf(amount, S)) \in Nat
  BY <1>5, <1>6, UnitsFinite
<1> QED
  BY <1>1, <1>3, <1>4, <1>5, <1>6, <1>7

LEMMA InitTokens == Init => TokensLast
<1> SUFFICES ASSUME Init, NEW d \in Domain, NEW t \in Nat
             PROVE  Cardinality(UnitsOf(Demands(d), HoldersAt(t))) <=
                        IF now <= t THEN Cardinality(TakenAt(d, t)) ELSE DomainCapacity[d]
  BY DEF TokensLast
<1>1. HoldersAt(t) = {}
  BY DEF Init, HoldersAt, Issued
<1>2. Cardinality(UnitsOf(Demands(d), HoldersAt(t))) = 0
  BY <1>1, NoUnits
<1>3. Cardinality(TakenAt(d, t)) \in Nat /\ DomainCapacity[d] \in Nat
  BY InitTypes, HoldersFinite, ResourceAssumption
<1> QED
  BY <1>2, <1>3

LEMMA IssueTokens ==
    ASSUME Types, Order, TokensLast, NEW u \in Uop, NEW l \in Lane, Issue(u, l)
    PROVE  TokensLast'
<1> SUFFICES ASSUME NEW d \in Domain, NEW t \in Nat
             PROVE  Cardinality(UnitsOf(Demands(d), HoldersAt(t)))' <=
                        IF now <= t THEN Cardinality(TakenAt(d, t))' ELSE DomainCapacity[d]
  <2>1. now' = now
    BY DEF Issue, control
  <2> QED
    BY <2>1 DEF TokensLast
<1> DEFINE n == trace.demand[u][d]
           until == now + trace.occupancy[u]
           won == Cheapest(d, n)
<1>1. /\ ~DomainBlocked(u, now) /\ trace' = trace /\ now' = now /\ u \in candidates
      /\ issueTick' = [issueTick EXCEPT ![u] = now]
      /\ domainFree' = [x \in Token |-> IF x \in Granted(u) THEN until ELSE domainFree[x]]
  BY DEF Issue, control, Oldest, Blocked
<1>2. /\ now \in Nat /\ trace.occupancy[u] \in Nat /\ n \in 0..DomainCapacity[d]
      /\ DomainCapacity[d] \in Nat
  <2>1. DomainCapacity[d] \in Nat
    BY ResourceAssumption
  <2>2. n <= DomainCapacity[d] /\ trace.occupancy[u] \in Nat
    BY TraceIsValid DEF ValidTrace
  <2>3. n \in Nat
    BY HoldersFinite
  <2> QED
    BY <2>1, <2>2, <2>3 DEF Types
<1>3. ~Issued(u)
  BY <1>1 DEF Order, Clock, Unissued
<1>4. /\ Demands(d)' = Demands(d) /\ Demands(d)[u] = n
      /\ \A v \in Uop : Demands(d)[v] \in Nat
  BY <1>1, HoldersFinite DEF Demands
<1>5. IsFiniteSet(HoldersAt(t)) /\ u \notin HoldersAt(t)
  BY <1>3, HoldersFinite DEF HoldersAt
<1>6. HoldersAt(t)' = IF now <= t /\ t < until THEN HoldersAt(t) \cup {u} ELSE HoldersAt(t)
  <2>1. issueTick \in [Uop -> Nat \cup {NotYet}]
    BY DEF Types
  <2>2. \A v \in Uop \ {u} : issueTick'[v] = issueTick[v] /\ (Issued(v)' <=> Issued(v))
    BY <1>1, <2>1 DEF Issued
  <2>3. Issued(u)' /\ issueTick'[u] = now
    BY <1>1, <1>2, <2>1 DEF Issued, NotYet
  <2>4. \A v \in Uop : v \in HoldersAt(t)' <=>
            \/ v \in HoldersAt(t)
            \/ v = u /\ now <= t /\ t < until
    BY <1>1, <1>5, <2>2, <2>3 DEF HoldersAt
  <2>5. HoldersAt(t) \subseteq Uop /\ HoldersAt(t)' \subseteq Uop
    BY DEF HoldersAt
  <2> QED
    BY <2>4, <2>5
<1>7. CASE ~(now <= t /\ t < until)
  <2>1. Cardinality(UnitsOf(Demands(d), HoldersAt(t)))' =
            Cardinality(UnitsOf(Demands(d), HoldersAt(t)))
    BY <1>4, <1>6, <1>7
  <2>2. now <= t => TakenAt(d, t)' = TakenAt(d, t)
    <3> SUFFICES ASSUME now <= t PROVE TakenAt(d, t)' = TakenAt(d, t)
      OBVIOUS
    <3>1. \A x \in TokensOf(d) : x \in Token /\ domainFree[x] \in Nat
      BY DEF TokensOf, Types
    <3>2. \A x \in Granted(u) : domainFree[x] <= now \/ x \notin Token
      BY <1>1, <1>2 DEF DomainBlocked, Types
    <3>3. \A x \in TokensOf(d) : domainFree'[x] > t <=> domainFree[x] > t
      BY <1>1, <1>2, <1>7, <3>1, <3>2
    <3> QED
      BY <3>3 DEF TakenAt
  <2> QED
    BY <2>1, <2>2 DEF TokensLast
<1>8. CASE now <= t /\ t < until
  <2>1. Cardinality(UnitsOf(Demands(d), HoldersAt(t)))' =
            Cardinality(UnitsOf(Demands(d), HoldersAt(t))) + n
    <3>1. PICK amount : amount = Demands(d)
      OBVIOUS
    <3>2. PICK S : S = HoldersAt(t)
      OBVIOUS
    <3>3. \A v \in S \cup {u} : amount[v] \in Nat
      BY <1>4, <3>1, <3>2, HoldersFinite
    <3>4. Cardinality(UnitsOf(amount, S \cup {u})) = Cardinality(UnitsOf(amount, S)) + amount[u]
      BY <1>5, <3>2, <3>3, UnitsWith
    <3> QED
      BY <1>4, <1>6, <1>8, <3>1, <3>2, <3>4
  <2>2. won \subseteq TokensOf(d) /\ Cardinality(won) = n
    BY <1>2, CheapestCount
  <2>3. \A x \in TokensOf(d) : x \in Granted(u) <=> x \in won
    <3>1. \A e, k : Cheapest(e, k) \subseteq TokensOf(e)
      BY DEF Cheapest, TokensOf
    <3>2. \A x : x \in Granted(u) <=> \E e \in Domain : x \in Cheapest(e, trace.demand[u][e])
      BY DEF Granted
    <3>3. \A e : \A x \in TokensOf(d) : x \in TokensOf(e) => e = d
      BY DEF TokensOf
    <3> QED
      BY <3>1, <3>2, <3>3
  <2>4. \A x \in won : domainFree[x] <= now /\ domainFree[x] \in Nat
    <3>1. \A x \in won : x \in Token /\ x \in Granted(u)
      BY <2>2, <2>3 DEF TokensOf
    <3> QED
      BY <1>1, <1>2, <3>1 DEF DomainBlocked, Types
  <2>5. TakenAt(d, t)' = TakenAt(d, t) \cup won /\ TakenAt(d, t) \cap won = {}
    <3>1. \A x \in TokensOf(d) : x \in Token /\ domainFree[x] \in Nat
      BY DEF TokensOf, Types
    <3>2. \A x \in TokensOf(d) : domainFree'[x] > t <=> domainFree[x] > t \/ x \in won
      BY <1>1, <1>2, <1>8, <2>3, <3>1
    <3>3. \A x \in won : ~(domainFree[x] > t)
      BY <1>2, <1>8, <2>4
    <3> QED
      BY <2>2, <3>2, <3>3 DEF TakenAt
  <2>6. Cardinality(TakenAt(d, t))' = Cardinality(TakenAt(d, t)) + n
    <3>1. PICK old : old = TakenAt(d, t) /\ IsFiniteSet(old) /\ Cardinality(old) \in Nat
      BY HoldersFinite
    <3>2. PICK new : new = won /\ IsFiniteSet(new)
      BY <2>2, TokenCount, FS_Subset
    <3>3. Cardinality(old \cup new) =
              Cardinality(old) + Cardinality(new) - Cardinality(old \cap new)
      BY <3>1, <3>2, FS_Union
    <3>4. Cardinality(old \cap new) = 0
      BY <2>5, <3>1, <3>2, FS_EmptySet
    <3>5. Cardinality(old \cup new) = Cardinality(old) + n
      BY <1>2, <2>2, <3>1, <3>2, <3>3, <3>4
    <3> QED
      BY <2>5, <3>1, <3>2, <3>5
  <2>7. Cardinality(UnitsOf(Demands(d), HoldersAt(t))) <= Cardinality(TakenAt(d, t))
    BY <1>8 DEF TokensLast
  <2>8. /\ Cardinality(UnitsOf(Demands(d), HoldersAt(t))) \in Nat
        /\ Cardinality(TakenAt(d, t)) \in Nat
    BY HoldersFinite
  <2> QED
    BY <1>2, <1>8, <2>1, <2>6, <2>7, <2>8
<1> QED
  BY <1>7, <1>8

LEMMA AdvanceTokens ==
    ASSUME Types, TokensLast, UNCHANGED <<trace, issue>>, now' \in Nat, now <= now'
    PROVE  TokensLast'
<1> SUFFICES ASSUME NEW d \in Domain, NEW t \in Nat
             PROVE  Cardinality(UnitsOf(Demands(d), HoldersAt(t)))' <=
                        IF now' <= t THEN Cardinality(TakenAt(d, t))' ELSE DomainCapacity[d]
  BY DEF TokensLast
<1>1. /\ trace' = trace /\ issueTick' = issueTick /\ domainFree' = domainFree
  BY DEF issue
<1>2. /\ Demands(d)' = Demands(d) /\ HoldersAt(t)' = HoldersAt(t)
      /\ TakenAt(d, t)' = TakenAt(d, t)
  BY <1>1 DEF Demands, HoldersAt, Issued, TakenAt
<1>3. PICK count : count = Cardinality(UnitsOf(Demands(d), HoldersAt(t))) /\ count \in Nat
  BY HoldersFinite
<1>4. count <= IF now <= t THEN Cardinality(TakenAt(d, t)) ELSE DomainCapacity[d]
  BY <1>3 DEF TokensLast
<1>5. /\ Cardinality(TakenAt(d, t)) \in Nat /\ Cardinality(TakenAt(d, t)) <= DomainCapacity[d]
      /\ DomainCapacity[d] \in Nat
  BY HoldersFinite, ResourceAssumption
<1>6. now \in Nat
  BY DEF Types
<1>7. count <= IF now' <= t THEN Cardinality(TakenAt(d, t)) ELSE DomainCapacity[d]
  BY <1>3, <1>4, <1>5, <1>6
<1> QED
  BY <1>2, <1>3, <1>7

LEMMA StepTokens == Types /\ Order /\ TokensLast /\ [Next]_vars => TokensLast'
<1> SUFFICES ASSUME Types, Order, TokensLast, [Next]_vars PROVE TokensLast'
  OBVIOUS
<1>1. ASSUME NEW u \in Uop, NEW l \in Lane, Issue(u, l) PROVE TokensLast'
  BY <1>1, IssueTokens
<1>2. ASSUME NEW tick \in EventTicks, Advance(tick) PROVE TokensLast'
  <2>1. tick \in Int
    BY EventTicksInt
  <2>2. now' \in Nat /\ now <= now'
    BY <1>2, <2>1 DEF Advance, Types
  <2> QED
    BY <1>2, <2>2, AdvanceTokens DEF Advance
<1>3. ASSUME UNCHANGED <<trace, issue>>, now' = now PROVE TokensLast'
  BY <1>3, AdvanceTokens DEF Types
<1>4. \/ UNCHANGED <<trace, issue>> /\ now' = now
      \/ \E u \in Uop, l \in Lane : Issue(u, l)
      \/ \E tick \in EventTicks : Advance(tick)
  BY DEF Next, vars, control, Iterate, Complete, CompleteReturns, Dispatch, DispatchReturns,
         Skip, ScanReturns, Retire, RetireReturns, Finish, Stopped
<1> QED
  BY <1>1, <1>2, <1>3, <1>4

LEMMA TokensSuffice == Types /\ Order /\ TokensLast => TokensBounded
<1> SUFFICES ASSUME Types, Order, TokensLast, NEW d \in Domain, NEW v \in Uop, Issued(v)
             PROVE  Cardinality(UnitsOf(Demands(d), HoldersAt(issueTick[v]))) <= DomainCapacity[d]
  BY DEF TokensBounded
<1>1. PICK t \in Nat : t = issueTick[v]
  BY DEF Types, Issued
<1>2. PICK count : count = Cardinality(UnitsOf(Demands(d), HoldersAt(t))) /\ count \in Nat
  BY HoldersFinite
<1>3. count <= IF now <= t THEN Cardinality(TakenAt(d, t)) ELSE DomainCapacity[d]
  BY <1>2 DEF TokensLast
<1>4. /\ Cardinality(TakenAt(d, t)) \in Nat /\ Cardinality(TakenAt(d, t)) <= DomainCapacity[d]
      /\ DomainCapacity[d] \in Nat
  BY HoldersFinite, ResourceAssumption
<1>5. count <= DomainCapacity[d]
  BY <1>2, <1>3, <1>4
<1> QED
  BY <1>1, <1>2, <1>5

-----------------------------------------------------------------------------
(***************************************************************************)
(* The critical path.  Nothing in a trace says that its dependencies are   *)
(* acyclic, but those of issued uops are: they were issued in some order.  *)
(***************************************************************************)
Ranks(rank) == \A u \in Uop : Issued(u) => \A d \in trace.dependencies[u] : rank[d] < rank[u]
Ranked == \E rank \in [Uop -> Nat] : Ranks(rank)

\* Of finitely many numbers one is the greatest.
LEMMA LastOfThem ==
    ASSUME NEW S, IsFiniteSet(S), S # {}, NEW value, \A i \in S : value[i] \in Nat
    PROVE  \E i \in S : \A j \in S : value[j] <= value[i]
<1> DEFINE Later(i) == {j \in S : value[j] > value[i]}
           Counts == {Cardinality(Later(i)) : i \in S}
<1>1. \A i \in S : IsFiniteSet(Later(i)) /\ Cardinality(Later(i)) \in Nat
  <2> SUFFICES ASSUME NEW i \in S PROVE IsFiniteSet(Later(i)) /\ Cardinality(Later(i)) \in Nat
    OBVIOUS
  <2>1. Later(i) \subseteq S
    OBVIOUS
  <2> HIDE DEF Later
  <2> QED
    BY <2>1, FS_Subset, FS_CardinalityType
<1>2. Counts \subseteq Nat /\ Counts # {}
  <2> HIDE DEF Later
  <2> QED
    BY <1>1
<1>3. PICK least \in Counts : \A count \in Counts : least <= count
  <2> HIDE DEF Counts
  <2> QED
    BY <1>2, LeastNumber
<1>4. PICK i \in S : least = Cardinality(Later(i))
  OBVIOUS
<1>5. ASSUME NEW j \in S, value[j] > value[i] PROVE FALSE
  <2>1. Later(j) \subseteq Later(i)
    BY <1>5
  <2>2. j \in Later(i) /\ j \notin Later(j)
    BY <1>5
  <2>3. Cardinality(Later(j)) \in Counts
    OBVIOUS
  <2> HIDE DEF Later, Counts
  <2>4. Cardinality(Later(j)) < Cardinality(Later(i))
    BY <1>1, <2>1, <2>2, FS_Subset, FS_CardinalityType
  <2> QED
    BY <1>1, <1>3, <1>4, <2>3, <2>4
<1> QED
  BY <1>5

LEMMA IssueRanked ==
    ASSUME Types, Order, Ranked, NEW u \in Uop, NEW l \in Lane, Issue(u, l)
    PROVE  Ranked'
<1>1. /\ trace' = trace /\ u \in candidates /\ ~DependencyBlocked(u)
      /\ issueTick' = [issueTick EXCEPT ![u] = now] /\ issueTick \in [Uop -> Nat \cup {NotYet}]
  BY DEF Issue, Oldest, Blocked, PortBlocked, Types
<1>2. /\ ~Issued(u) /\ ~Completed(u)
      /\ \A d \in trace.dependencies[u] : Completed(d)
  BY <1>1 DEF Order, Clock, Unissued, DependencyBlocked
<1>3. \A v \in Uop : trace.dependencies[v] \subseteq Uop
  BY TraceIsValid DEF ValidTrace
<1>4. PICK rank \in [Uop -> Nat] : Ranks(rank)
  BY DEF Ranked
<1>5. PICK top \in Nat : \A v \in Uop : rank[v] <= top
  <2>1. IsFiniteSet(Uop) /\ u \in Uop
    BY CountAssumption, FS_Interval DEF Uop
  <2>2. \A v \in Uop : rank[v] \in Nat
    OBVIOUS
  <2>3. PICK v \in Uop : \A w \in Uop : rank[w] <= rank[v]
    BY <2>1, <2>2, LastOfThem
  <2> QED
    BY <2>2, <2>3
<1> DEFINE next == [rank EXCEPT ![u] = top + 1]
<1>6. next \in [Uop -> Nat] /\ next[u] = top + 1
  OBVIOUS
<1>7. ASSUME NEW v \in Uop, Issued(v)', NEW d \in trace'.dependencies[v]
      PROVE  next[d] < next[v]
  <2>1. d \in trace.dependencies[v] /\ d \in Uop
    BY <1>1, <1>3, <1>7
  <2>2. d # u
    <3>1. v # u => Issued(v)
      BY <1>1, <1>7 DEF Issued
    <3>2. v # u => Completed(d)
      BY <2>1, <3>1 DEF Order, DataflowOrder
    <3> QED
      BY <1>2, <2>1, <3>2
  <2>3. next[d] = rank[d] /\ rank[d] \in Nat
    BY <2>1, <2>2
  <2>4. CASE v = u
    BY <1>5, <1>6, <2>1, <2>3, <2>4
  <2>5. CASE v # u
    <3>1. Issued(v)
      BY <1>1, <1>7, <2>5 DEF Issued
    <3> QED
      BY <1>4, <2>1, <2>3, <2>5, <3>1 DEF Ranks
  <2> QED
    BY <2>4, <2>5
<1>8. Ranks(next)'
  BY <1>7 DEF Ranks
<1> QED
  BY <1>6, <1>8 DEF Ranked

Ended == (pc = "done" => Finished) /\ Ranked

LEMMA InitEnded == Init => Ended
<1> SUFFICES ASSUME Init PROVE Ranked
  BY DEF Init, Ended
<1>1. [u \in Uop |-> 0] \in [Uop -> Nat] /\ \A u \in Uop : ~Issued(u)
  BY DEF Init, Issued
<1> QED
  BY <1>1 DEF Ranked, Ranks

LEMMA StepEnded == Types /\ Order /\ Ended /\ [Next]_vars => Ended'
<1> SUFFICES ASSUME Types, Order, Ended, [Next]_vars PROVE Ended'
  OBVIOUS
<1>1. Ranked'
  <2>1. ASSUME NEW u \in Uop, NEW l \in Lane, Issue(u, l) PROVE Ranked'
    BY <2>1, IssueRanked DEF Ended
  <2>2. CASE UNCHANGED <<trace, issueTick>>
    BY <2>2 DEF Ended, Ranked, Ranks, Issued
  <2>3. UNCHANGED <<trace, issueTick>> \/ \E u \in Uop, l \in Lane : Issue(u, l)
    BY DEF Next, vars, issue, Iterate, Complete, CompleteReturns, Dispatch, DispatchReturns,
           Skip, ScanReturns, Retire, RetireReturns, Finish, Advance, Stopped
  <2> QED
    BY <2>1, <2>2, <2>3
<1>2. pc' = "done" => Finished'
  <2>1. pc' = "done" => UNCHANGED front /\ (pc = "done" \/ Finished)
    BY DEF Next, vars, control, Iterate, Complete, CompleteReturns, Dispatch, DispatchReturns,
           Issue, Skip, ScanReturns, AfterScan, Retire, RetireReturns, Finish, Advance, Stopped
  <2> QED
    BY <2>1 DEF Ended, Finished, front
<1> QED
  BY <1>1, <1>2 DEF Ended

\* When run() returns, every uop has completed by now.
LEMMA AllCompleted ==
    ASSUME Types, Order, Ended, pc = "done"
    PROVE  \A u \in Uop : Issued(u) /\ Completed(u)
<1> SUFFICES ASSUME NEW u \in Uop PROVE Issued(u) /\ Completed(u)
  OBVIOUS
<1>1. nextDispatch = NumMacros /\ rob = <<>>
  BY DEF Ended, Finished
<1>2. Len(rob) = 0
  <2>1. Len(<<>>) = 0
    OBVIOUS
  <2> QED
    BY <1>1, <2>1
<1>3. trace.parent[u] \in Macro
  BY TraceIsValid DEF ValidTrace
<1>4. trace.parent[u] <= RetiredCount
  BY <1>1, <1>2, <1>3, CountAssumption DEF RetiredCount, Macro
<1>5. retireTick[trace.parent[u]] # NotYet
  BY <1>3, <1>4 DEF Order, RobInOrder
<1> QED
  BY <1>5 DEF Order, DataflowOrder, Clock

\* The recursion of CriticalPath has a solution, by the order of issue, and a
\* uop's path is no longer than the time until it was done.
Longest(S) == CHOOSE n \in S : \A k \in S : k <= n
PathTo(f, u) == LatencyOf(u) + Longest({0} \cup {f[d] : d \in trace.dependencies[u]})
IsPaths(f) == f = [u \in Uop |-> PathTo(f, u)]

LEMMA PathsExist ==
    ASSUME Types, NEW rank \in [Uop -> Nat], Ranks(rank), \A u \in Uop : Issued(u)
    PROVE  \E f : IsPaths(f)
<1> DEFINE Solves(n, g) == \A u \in Uop : rank[u] < n => g[u] = PathTo(g, u)
           Bad == {n \in Nat : ~\E g : Solves(n, g)}
<1>1. \A u \in Uop : /\ trace.dependencies[u] \subseteq Uop
                     /\ \A d \in trace.dependencies[u] : rank[d] < rank[u]
  BY TraceIsValid DEF ValidTrace, Ranks
<1>2. Bad = {}
  <2> SUFFICES ASSUME Bad # {} PROVE FALSE
    OBVIOUS
  <2>1. PICK n \in Bad : \A m \in Bad : n <= m
    <3>1. Bad \subseteq Nat
      OBVIOUS
    <3> HIDE DEF Bad
    <3> QED
      BY <3>1, LeastNumber
  <2>2. n \in Nat /\ ~\E g : Solves(n, g)
    OBVIOUS
  <2>3. n # 0
    <3>1. Solves(0, rank)
      OBVIOUS
    <3> QED
      BY <2>2, <3>1
  <2>4. PICK g : Solves(n - 1, g)
    <3>1. n - 1 \in Nat /\ n - 1 \notin Bad
      <4>1. n - 1 \in Nat /\ ~(n <= n - 1)
        BY <2>2, <2>3
      <4> HIDE DEF Bad
      <4> QED
        BY <2>1, <4>1
    <3> QED
      BY <3>1
  <2> DEFINE h == [u \in Uop |-> IF rank[u] < n THEN PathTo(g, u) ELSE 0]
  <2>5. ASSUME NEW u \in Uop, rank[u] < n PROVE h[u] = PathTo(h, u)
    <3>1. \A d \in trace.dependencies[u] : d \in Uop /\ rank[d] < n - 1
      BY <1>1, <2>2, <2>5
    <3>2. \A d \in trace.dependencies[u] : h[d] = g[d]
      <4> SUFFICES ASSUME NEW d \in trace.dependencies[u] PROVE h[d] = g[d]
        OBVIOUS
      <4>1. d \in Uop /\ rank[d] < n - 1 /\ rank[d] < n
        BY <2>2, <3>1
      <4>2. g[d] = PathTo(g, d)
        BY <2>4, <4>1
      <4> QED
        BY <4>1, <4>2
    <3>3. {h[d] : d \in trace.dependencies[u]} = {g[d] : d \in trace.dependencies[u]}
      BY <3>2
    <3>4. PathTo(h, u) = PathTo(g, u)
      BY <3>3 DEF PathTo
    <3> QED
      BY <2>5, <3>4
  <2>6. Solves(n, h)
    <3> HIDE DEF h
    <3> QED
      BY <2>5
  <2> QED
    BY <2>2, <2>6
<1>3. PICK top \in Nat : \A u \in Uop : rank[u] < top
  <2>1. IsFiniteSet(Uop) /\ 1 \in Uop
    BY CountAssumption, FS_Interval DEF Uop
  <2>2. \A u \in Uop : rank[u] \in Nat
    OBVIOUS
  <2>3. PICK v \in Uop : \A u \in Uop : rank[u] <= rank[v]
    BY <2>1, <2>2, LastOfThem
  <2>4. rank[v] + 1 \in Nat /\ \A u \in Uop : rank[u] < rank[v] + 1
    BY <2>2, <2>3
  <2> QED
    BY <2>4
<1>4. PICK g : Solves(top, g)
  BY <1>2, <1>3
<1> DEFINE f == [u \in Uop |-> g[u]]
<1>5. ASSUME NEW u \in Uop PROVE f[u] = PathTo(f, u)
  <2>1. g[u] = PathTo(g, u)
    BY <1>3, <1>4
  <2>2. {f[d] : d \in trace.dependencies[u]} = {g[d] : d \in trace.dependencies[u]}
    BY <1>1
  <2>3. PathTo(f, u) = PathTo(g, u)
    BY <2>2 DEF PathTo
  <2> QED
    BY <2>1, <2>3
<1>6. IsPaths(f)
  BY <1>5 DEF IsPaths
<1> QED
  BY <1>6

LEMMA LongestOf ==
    ASSUME NEW bound \in Nat, NEW S, S \subseteq 0..bound, S # {}
    PROVE  Longest(S) \in S /\ Longest(S) \in 0..bound
<1>1. PICK x \in S : \A y \in S : y <= x
  BY GreatestNumber
<1> QED
  BY <1>1 DEF Longest

LEMMA PathsAreShort ==
    ASSUME Types, Order, NEW rank \in [Uop -> Nat], Ranks(rank),
           \A u \in Uop : Issued(u) /\ Completed(u), NEW f, IsPaths(f)
    PROVE  \A u \in Uop : f[u] \in 0..now
<1> DEFINE Short(u) == f[u] \in 0..doneAt[u]
           Bad == {rank[u] : u \in {v \in Uop : ~Short(v)}}
<1>1. \A u \in Uop :
         /\ trace.dependencies[u] \subseteq Uop
         /\ issueTick[u] \in Nat /\ doneAt[u] \in Nat
         /\ issueTick[u] <= doneAt[u] /\ doneAt[u] <= now
         /\ \A d \in trace.dependencies[u] : rank[d] < rank[u] /\ doneAt[d] <= issueTick[u]
  <2> SUFFICES ASSUME NEW u \in Uop
               PROVE  /\ trace.dependencies[u] \subseteq Uop
                      /\ issueTick[u] \in Nat /\ doneAt[u] \in Nat
                      /\ issueTick[u] <= doneAt[u] /\ doneAt[u] <= now
                      /\ \A d \in trace.dependencies[u] :
                            rank[d] < rank[u] /\ doneAt[d] <= issueTick[u]
    OBVIOUS
  <2>1. trace.dependencies[u] \subseteq Uop
    BY TraceIsValid DEF ValidTrace
  <2>2. issueTick[u] \in Nat /\ issueTick[u] <= doneAt[u] /\ doneAt[u] <= now
    BY DEF Order, Clock, Issued, Types
  <2>3. doneAt[u] \in Nat
    BY <2>2 DEF Types, NotYet
  <2>4. \A d \in trace.dependencies[u] : rank[d] < rank[u]
    BY DEF Ranks
  <2>5. \A d \in trace.dependencies[u] : doneAt[d] <= issueTick[u]
    BY <2>1 DEF Order, DataflowOrder, Clock
  <2> QED
    BY <2>1, <2>2, <2>3, <2>4, <2>5
<1>2. Bad = {}
  <2> SUFFICES ASSUME Bad # {} PROVE FALSE
    OBVIOUS
  <2>1. PICK n \in Bad : \A m \in Bad : n <= m
    <3>1. Bad \subseteq Nat
      OBVIOUS
    <3> HIDE DEF Bad
    <3> QED
      BY <3>1, LeastNumber
  <2>2. PICK u \in Uop : n = rank[u] /\ ~Short(u)
    OBVIOUS
  <2>3. ASSUME NEW d \in trace.dependencies[u] PROVE f[d] \in 0..issueTick[u]
    <3>1. d \in Uop /\ rank[d] \in Nat /\ rank[u] \in Nat /\ rank[d] < rank[u]
      BY <1>1
    <3>2. ~Short(d) => rank[d] \in Bad
      BY <3>1
    <3>3. Short(d)
      <4> HIDE DEF Bad, Short
      <4> QED
        BY <2>1, <2>2, <3>1, <3>2
    <3> QED
      BY <1>1, <3>1, <3>3
  <2> DEFINE S == {0} \cup {f[d] : d \in trace.dependencies[u]}
  <2>4. S \subseteq 0..issueTick[u] /\ S # {} /\ issueTick[u] \in Nat
    BY <1>1, <2>3
  <2>5. Longest(S) \in 0..issueTick[u]
    <3> HIDE DEF S
    <3> QED
      BY <2>4, LongestOf
  <2>6. f[u] = doneAt[u] - issueTick[u] + Longest(S)
    BY DEF IsPaths, PathTo, LatencyOf
  <2>7. f[u] \in 0..doneAt[u]
    <3> HIDE DEF S
    <3> QED
      BY <1>1, <2>5, <2>6
  <2> QED
    BY <2>2, <2>7
<1>3. ASSUME NEW u \in Uop PROVE f[u] \in 0..now
  <2>1. Short(u)
    BY <1>2
  <2> QED
    BY <1>1, <2>1 DEF Types
<1> QED
  BY <1>3

LEMMA PathIsLongest ==
    CriticalPath = Longest({(CHOOSE f : IsPaths(f))[u] : u \in Uop})
BY DEF CriticalPath, IsPaths, PathTo, Longest

LEMMA PathIsBounded == Types /\ Order /\ Ended => CriticalPathIsLowerBound
<1> SUFFICES ASSUME Types, Order, Ended, pc = "done" PROVE CriticalPath <= now
  BY DEF CriticalPathIsLowerBound
<1>1. PICK rank \in [Uop -> Nat] : Ranks(rank)
  BY DEF Ended, Ranked
<1>2. \A u \in Uop : Issued(u) /\ Completed(u)
  BY AllCompleted
<1>3. PICK f : f = (CHOOSE g : IsPaths(g))
  OBVIOUS
<1>4. IsPaths(f)
  BY <1>1, <1>2, <1>3, PathsExist
<1>5. \A u \in Uop : f[u] \in 0..now
  BY <1>1, <1>2, <1>4, PathsAreShort
<1>6. PICK S : S = {f[u] : u \in Uop}
  OBVIOUS
<1>7. S \subseteq 0..now /\ S # {} /\ now \in Nat
  <2>1. 1 \in Uop
    BY CountAssumption DEF Uop
  <2>2. f[1] \in S
    BY <1>6, <2>1
  <2>3. S \subseteq 0..now
    BY <1>5, <1>6
  <2> QED
    BY <2>2, <2>3 DEF Types
<1>8. Longest(S) \in 0..now
  BY <1>7, LongestOf
<1>9. CriticalPath = Longest(S)
  BY <1>3, <1>6, PathIsLongest
<1> QED
  BY <1>8, <1>9

\* The ticks recorded are such as the pipeline of the profile can produce, for
\* every trace, width and domain: a weighted demand never oversubscribes its
\* domain although tokens are reserved one by one, no cycle dispatches or
\* retires more than its width, and the dependency critical path that the
\* simulator reports never exceeds the time it simulates.
THEOREM TicksPlausibleHolds == Spec => []TicksPlausible
<1> DEFINE I == Types /\ Order /\ Widths /\ TokensLast /\ Ended
<1>1. Init => I
  BY InitTypes, InitOrder, InitWidths, InitTokens, InitEnded
<1>2. I /\ [Next]_vars => I'
  BY StepTypes, StepOrder, StepWidths, StepTokens, StepEnded
<1>3. I => TicksPlausible
  BY WidthsAreKept, TokensSuffice, PathIsBounded DEF TicksPlausible
<1> QED
  BY <1>1, <1>2, <1>3, PTL DEF Spec

=============================================================================
