---------------------------- MODULE XsaiFrontEnd ----------------------------
(***************************************************************************)
(* The front end of backend/xsai.py (class XsaiRvvEngine): admission of    *)
(* macro-ops into the reorder buffer under dispatch-domain tokens, physical *)
(* register free lists and queues; the draining of a macro-op's uops into  *)
(* bounded scheduler partitions, over several cycles if need be; and the   *)
(* delayed, width-limited return of registers after retirement.            *)
(*                                                                         *)
(* Execution is left open: in the step "work" any uop that has been        *)
(* dispatched may issue, and a macro-op may complete once all its uops     *)
(* have issued.  A uop is <<m, k>>, the k-th of macro-op m.  Simulated time *)
(* is its place in the cycle and, for each batch of registers on the way   *)
(* back, the ticks that are left.                                          *)
(***************************************************************************)
EXTENDS Integers, Sequences, FiniteSets, FiniteSetsExt

CONSTANTS
    NumMacros,          \* len(trace.macros)
    MaxUops,            \* the most uops a macro-op has
    Traces,             \* the traces the engine may be given
    TicksPerCycle,      \* trace.ticks_per_cycle
    DispatchWidth,      \* pipeline.dispatch_macro_ops_per_cycle
    RetireWidth,        \* pipeline.retire_macro_ops_per_cycle
    RobEntries,         \* pipeline.rob_entries
    VectorEntries,      \* pipeline.vector_scheduler_entries
    LoadEntries,        \* pipeline.load_queue_entries
    StoreEntries,       \* pipeline.store_queue_entries
    Partition,          \* scheduler partitions
    Entries,            \* entries of each partition
    EnqueueWidth,       \* enqueue_width of each partition
    Domain,             \* dispatch domains
    DomainCapacity,     \* capacity of each dispatch domain
    File,               \* register files, numbered in the order they are listed
    FreeEntries,        \* free_lists: entries of each file at the start
    AllocationWidth,    \* registers renamed in one cycle
    ReleaseWidth,       \* registers returned by one call of _release_rename
    ReleaseDelay,       \* release_delay_ticks + availability_delay_ticks
    GuardEntries        \* entries of a free list that are never allocated

Macro == 1..NumMacros
Uop == Macro \X (1..MaxUops)
NoPartition == 0

\* A trace the engine can run.  units[m] is dispatch_width_units, entries[m]
\* rob_entry_count, choices[m][k] the scheduler_partition_choices of uop k,
\* vector[m] the uops whose kind is in VECTOR_RESOURCE_KINDS.  That the widths
\* admit each macro-op by itself is a property of the recipes that ship.
ValidTrace(t) ==
    /\ t.units \in [Macro -> Nat \ {0}]
    /\ t.choices \in [Macro -> Seq(SUBSET Partition)]
    /\ \A m \in Macro : Len(t.choices[m]) \in 1..MaxUops
    /\ t.vector \in [Macro -> SUBSET (1..MaxUops)]
    /\ \A m \in Macro : t.vector[m] \subseteq 1..Len(t.choices[m])
    /\ t.entries \in [Macro -> 1..RobEntries]
    /\ t.rename \in [Macro -> [File -> Nat]]
    /\ t.demand \in [Macro -> [Domain -> Nat]]
    /\ t.load \subseteq Macro /\ t.store \subseteq Macro
    /\ t.retireOps \in [Macro -> 1..RetireWidth]
    /\ \A m \in Macro :
          /\ \A d \in Domain : t.demand[m][d] <= DomainCapacity[d]
          /\ \A f \in File : t.rename[m][f] + GuardEntries <= FreeEntries[f]
          /\ MapThenSumSet(LAMBDA f : t.rename[m][f], File) <= AllocationWidth

ASSUME PipelineAssumption ==
    /\ NumMacros \in Nat \ {0} /\ MaxUops \in Nat \ {0}
    /\ TicksPerCycle \in Nat \ {0}
    /\ DispatchWidth \in Nat \ {0} /\ RetireWidth \in Nat \ {0}
    /\ RobEntries \in Nat \ {0} /\ VectorEntries \in Nat \ {0}
    /\ LoadEntries \in Nat \ {0} /\ StoreEntries \in Nat \ {0}
ASSUME PartitionAssumption ==
    /\ NoPartition \notin Partition
    /\ Entries \in [Partition -> Nat \ {0}]
    /\ EnqueueWidth \in [Partition -> Nat \ {0}]
    /\ DomainCapacity \in [Domain -> Nat \ {0}]
ASSUME RenameAssumption ==
    /\ File \subseteq Nat /\ IsFiniteSet(File)
    /\ FreeEntries \in [File -> Nat \ {0}]
    /\ AllocationWidth \in Nat \ {0} /\ ReleaseWidth \in Nat \ {0}
    /\ ReleaseDelay \in Nat /\ GuardEntries \in Nat
ASSUME TraceAssumption == \A t \in Traces : ValidTrace(t)

VARIABLES
    pc,             \* where run() is in its loop body
    trace,          \* self.trace, never changed
    sub,            \* now % ticks_per_cycle
    next,           \* macro-ops dispatched completely (self.next_dispatch)
    admitted,       \* macro-ops with a dispatch tick
    retired,        \* macro-ops with a retire tick; the ROB is what lies between
    progress,       \* dispatch_unit_progress
    sent,           \* how many of a macro-op's uops have been dispatched
    partitionOf,    \* uop.scheduler_partition
    issued,         \* uops with an issue tick
    completed,      \* macro-ops with a complete tick
    partOcc,        \* scheduler_partition_occupancy
    robOcc, vecOcc, lqOcc, sqOcc,           \* the other occupancy counters
    dispatched, enqueues, domainUsage,      \* the locals of _dispatch
    renameUsage,                            \* ... and the sum of its rename_usage
    free,           \* rename_free
    pending,        \* rename_pending_releases: [wait, owed] in heap order
    width           \* released, or the local retired of _retire

cycle == <<dispatched, enqueues, domainUsage, renameUsage>>
rename == <<free, pending>>
queues == <<robOcc, vecOcc, lqOcc, sqOcc>>
drain == <<next, progress, sent, partitionOf>>
vars == <<pc, trace, sub, admitted, retired, issued, completed, partOcc, cycle,
          rename, queues, drain, width>>

-----------------------------------------------------------------------------
Least(a, b) == IF a <= b THEN a ELSE b
One(condition) == IF condition THEN 1 ELSE 0
Total(amount, keys) == MapThenSumSet(LAMBDA x : amount[x], keys)

UopCount(m) == Len(trace.choices[m])
OnBoundary == sub = 0
Unsent(m) == UopCount(m) - sent[m]

\* _uses_legacy_vector_scheduler
Legacy(m) == \E k \in trace.vector[m] : trace.choices[m][k] = {}

\* The dispatch units the first k uops stand for: _dispatch_unit_costs, summed.
Accounted(m, k) == (k * trace.units[m]) \div UopCount(m)

\* What dispatching the next k uops costs, units already consumed deducted.
MutantForgetsConsumed(m, k) == Accounted(m, sent[m] + k) - Accounted(m, sent[m])
Delta(m, k) == Accounted(m, sent[m] + k) - progress[m]
Budget == DispatchWidth - dispatched

\* _plan_partition_assignment: a partition for each of the next k uops of m that
\* has a choice, such that no partition exceeds its entries, nor its enqueue
\* width in this cycle.  The code searches all of them and takes the one that
\* loads the partitions most evenly; any is allowed here.
Assignments(m, k) ==
    {a \in [1..k -> Partition \cup {NoPartition}] :
        \A i \in 1..k :
            LET options == trace.choices[m][sent[m] + i]
            IN  IF options = {} THEN a[i] = NoPartition ELSE a[i] \in options}
Assigned(a, p) == Cardinality({i \in DOMAIN a : a[i] = p})
Accepts(a, p) ==
    /\ partOcc[p] + Assigned(a, p) <= Entries[p]
    /\ enqueues[p] + Assigned(a, p) <= EnqueueWidth[p]
Plans(m, k) == {a \in Assignments(m, k) : \A p \in Partition : Accepts(a, p)}

\* _select_dispatch_chunk (and the atomic path before it): the longest run of
\* uops the budget pays for and the partitions take.
Affordable(m, k) == Delta(m, k) \in 0..Budget /\ Plans(m, k) # {}
Chunks(m) == {k \in 1..Unsent(m) : Affordable(m, k)}
BudgetLimited(m) == Chunks(m) = {} /\ Delta(m, 1) > Budget

\* The conditions of _dispatch_blocker on a macro-op that is not admitted yet.
RenameBlocked(m) ==
    \/ renameUsage + Total(trace.rename[m], File) > AllocationWidth
    \/ \E f \in File : /\ trace.rename[m][f] > 0
                       /\ free[f] - trace.rename[m][f] < GuardEntries
AdmissionBlocked(m) ==
    \/ robOcc + trace.entries[m] > RobEntries
    \/ \E d \in Domain : /\ trace.demand[m][d] > 0
                         /\ domainUsage[d] + trace.demand[m][d] > DomainCapacity[d]
    \/ RenameBlocked(m)
    \/ Legacy(m) /\ vecOcc + 1 > VectorEntries
    \/ m \in trace.load /\ lqOcc >= LoadEntries
    \/ m \in trace.store /\ sqOcc >= StoreEntries
Admissible(m) == m <= admitted \/ ~AdmissionBlocked(m)

\* A macro-op that fits a cycle does not start in what another left of it.
WaitsForNextCycle(m) ==
    m > admitted /\ trace.units[m] <= DispatchWidth /\ trace.units[m] > Budget

Dispatching(m) ==
    /\ pc = "dispatch"
    /\ m = next + 1
    /\ Budget > 0
    /\ ~WaitsForNextCycle(m)

-----------------------------------------------------------------------------
Init ==
    /\ trace \in Traces
    /\ pc = "release"
    /\ sub = 0
    /\ next = 0 /\ admitted = 0 /\ retired = 0
    /\ progress = [m \in Macro |-> 0]
    /\ sent = [m \in Macro |-> 0]
    /\ partitionOf = [u \in Uop |-> NoPartition]
    /\ issued = {} /\ completed = {}
    /\ partOcc = [p \in Partition |-> 0]
    /\ robOcc = 0 /\ vecOcc = 0 /\ lqOcc = 0 /\ sqOcc = 0
    /\ dispatched = 0
    /\ enqueues = [p \in Partition |-> 0]
    /\ domainUsage = [d \in Domain |-> 0]
    /\ renameUsage = 0
    /\ free = FreeEntries
    /\ pending = <<>>
    /\ width = 0

\* _release_rename returns the head batch, or as much of it as the width allows.
Ready == pending # <<>> /\ Head(pending).wait = 0 /\ width < ReleaseWidth
Returned(owed, f) ==
    LET before == Total(owed, {g \in File : g < f})
        left == ReleaseWidth - width - before
    IN  IF left < 0 THEN 0 ELSE Least(owed[f], left)
MutantLosesLeftover(owed) == Tail(pending)
AfterReturn(owed) ==
    LET left == [f \in File |-> owed[f] - Returned(owed, f)]
    IN  IF \E f \in File : left[f] > 0
        THEN <<[wait |-> 0, owed |-> left]>> \o Tail(pending)
        ELSE Tail(pending)
ReturnBatch ==
    /\ pc = "release"
    /\ Ready
    /\ LET owed == Head(pending).owed IN
          /\ free' = [f \in File |-> free[f] + Returned(owed, f)]
          /\ pending' = AfterReturn(owed)
          /\ width' = width + Total([f \in File |-> Returned(owed, f)], File)
    /\ UNCHANGED <<pc, trace, sub, admitted, retired, issued, completed, partOcc,
                   cycle, queues, drain>>

ReleaseReturns ==
    /\ pc = "release"
    /\ ~Ready
    /\ pc' = IF OnBoundary THEN "dispatch" ELSE "work"
    /\ width' = 0
    /\ UNCHANGED <<trace, sub, admitted, retired, issued, completed, partOcc, cycle,
                   rename, queues, drain>>

\* _admit_macro, unless m is admitted already.
Admit(m) ==
    IF m <= admitted
    THEN UNCHANGED <<admitted, queues, domainUsage, renameUsage, free>>
    ELSE /\ admitted' = m
         /\ robOcc' = robOcc + trace.entries[m]
         /\ vecOcc' = vecOcc + One(Legacy(m))
         /\ lqOcc' = lqOcc + One(m \in trace.load)
         /\ sqOcc' = sqOcc + One(m \in trace.store)
         /\ domainUsage' = [d \in Domain |-> domainUsage[d] + trace.demand[m][d]]
         /\ renameUsage' = renameUsage + Total(trace.rename[m], File)
         /\ free' = [f \in File |-> free[f] - trace.rename[m][f]]

\* _dispatch sends the next uops of m to their partitions; unless they are the
\* last ones, the dispatch of this cycle ends.
DispatchChunk(m, plan) ==
    LET k == Len(plan) IN
    /\ Dispatching(m)
    /\ k \in Chunks(m) /\ \A j \in Chunks(m) : j <= k
    /\ plan \in Plans(m, k)
    /\ Admissible(m)
    /\ Admit(m)
    /\ progress' = [progress EXCEPT ![m] = @ + Delta(m, k)]
    /\ dispatched' = dispatched + Delta(m, k)
    /\ sent' = [sent EXCEPT ![m] = @ + k]
    /\ partitionOf' = [u \in Uop |->
          IF u[1] = m /\ u[2] - sent[m] \in 1..k THEN plan[u[2] - sent[m]]
          ELSE partitionOf[u]]
    /\ enqueues' = [p \in Partition |-> enqueues[p] + Assigned(plan, p)]
    /\ partOcc' = [p \in Partition |-> partOcc[p] + Assigned(plan, p)]
    /\ next' = IF sent'[m] = UopCount(m) THEN m ELSE next
    /\ pc' = IF sent'[m] = UopCount(m) THEN "dispatch" ELSE "work"
    /\ UNCHANGED <<trace, sub, retired, issued, completed, pending, width>>

\* The next uop costs more than is left of the cycle: its decoding is begun.
ConsumeBudget(m) ==
    /\ Dispatching(m)
    /\ BudgetLimited(m)
    /\ Admissible(m)
    /\ Admit(m)
    /\ progress' = [progress EXCEPT ![m] = @ + Budget]
    /\ dispatched' = dispatched + Budget
    /\ pc' = "work"
    /\ UNCHANGED <<trace, sub, retired, next, sent, partitionOf, issued, completed,
                   partOcc, enqueues, pending, width>>

DispatchReturns ==
    /\ pc = "dispatch"
    /\ \/ next = NumMacros
       \/ Budget = 0
       \/ \E m \in Macro :
             /\ m = next + 1
             /\ \/ WaitsForNextCycle(m)
                \/ Chunks(m) = {} /\ ~BudgetLimited(m)
                \/ ~Admissible(m)
    /\ pc' = "work"
    /\ UNCHANGED <<trace, sub, admitted, retired, issued, completed, partOcc, cycle,
                   rename, queues, drain, width>>

\* _issue_once issues a dispatched uop: it leaves its partition, and the first
\* vector uop of a macro-op frees its entry of the legacy scheduler.
Dispatched(u) == u[2] <= sent[u[1]]
MutantFreesAtEnd(m, k) ==
    Legacy(m) /\ k \in trace.vector[m] /\ \A j \in trace.vector[m] \ {k} : <<m, j>> \in issued
FreesVectorEntry(m, k) ==
    /\ Legacy(m)
    /\ k \in trace.vector[m]
    /\ \A j \in trace.vector[m] \ {k} : <<m, j>> \notin issued
Issue(u) ==
    /\ pc = "work"
    /\ Dispatched(u) /\ u \notin issued
    /\ issued' = issued \cup {u}
    /\ partOcc' = [p \in Partition |-> partOcc[p] - One(p = partitionOf[u])]
    /\ vecOcc' = vecOcc - One(FreesVectorEntry(u[1], u[2]))
    /\ UNCHANGED <<pc, trace, sub, admitted, retired, completed, cycle, rename,
                   robOcc, lqOcc, sqOcc, drain, width>>

\* _complete: all uops of m have completed; one that is not dispatched has not.
AllIssued(m) == \A k \in 1..UopCount(m) : <<m, k>> \in issued
Complete(m) ==
    /\ pc = "work"
    /\ m \notin completed
    /\ AllIssued(m)
    /\ completed' = completed \cup {m}
    /\ UNCHANGED <<pc, trace, sub, admitted, retired, issued, partOcc, cycle, rename,
                   queues, drain, width>>

WorkReturns ==
    /\ pc = "work"
    /\ pc' = IF OnBoundary THEN "retire" ELSE "advance"
    /\ UNCHANGED <<trace, sub, admitted, retired, issued, completed, partOcc, cycle,
                   rename, queues, drain, width>>

\* _retire takes the head of the ROB; its registers are due after the delays.
Retirable(m) ==
    m <= admitted /\ m \in completed /\ width + trace.retireOps[m] <= RetireWidth
Renames(m) == \E f \in File : trace.rename[m][f] > 0
Retire(m) ==
    /\ pc = "retire"
    /\ m = retired + 1
    /\ Retirable(m)
    /\ retired' = m
    /\ robOcc' = robOcc - trace.entries[m]
    /\ lqOcc' = lqOcc - One(m \in trace.load)
    /\ sqOcc' = sqOcc - One(m \in trace.store)
    /\ pending' = IF Renames(m)
                  THEN Append(pending, [wait |-> ReleaseDelay, owed |-> trace.rename[m]])
                  ELSE pending
    /\ width' = width + trace.retireOps[m]
    /\ UNCHANGED <<pc, trace, sub, admitted, issued, completed, partOcc, cycle, free,
                   vecOcc, drain>>

RetireReturns ==
    /\ pc = "retire"
    /\ retired < NumMacros => ~Retirable(retired + 1)
    /\ pc' = "advance"
    /\ UNCHANGED <<trace, sub, admitted, retired, issued, completed, partOcc, cycle,
                   rename, queues, drain, width>>

Finished == next = NumMacros /\ retired = admitted

\* _next_event_tick: at the latest the next cycle boundary or the tick at which
\* registers are due, earlier only for a uop that is waiting or executing.
NextEvent(ticks) ==
    LET due == pending # <<>> /\ Head(pending).wait > 0
    IN  /\ sub + ticks <= TicksPerCycle
        /\ due => ticks <= Head(pending).wait
        /\ \/ sub + ticks = TicksPerCycle
           \/ due /\ ticks = Head(pending).wait
           \/ \E m \in Macro : sent[m] > 0 /\ m \notin completed
Advance(ticks) ==
    /\ pc = "advance"
    /\ ~Finished
    /\ NextEvent(ticks)
    /\ sub' = (sub + ticks) % TicksPerCycle
    /\ pending' = [i \in DOMAIN pending |->
          [pending[i] EXCEPT !.wait = IF @ < ticks THEN 0 ELSE @ - ticks]]
    /\ dispatched' = 0
    /\ enqueues' = [p \in Partition |-> 0]
    /\ domainUsage' = [d \in Domain |-> 0]
    /\ renameUsage' = 0
    /\ width' = 0
    /\ pc' = "release"
    /\ UNCHANGED <<trace, admitted, retired, issued, completed, partOcc, free,
                   queues, drain>>

Finish ==
    /\ pc = "advance"
    /\ Finished
    /\ pc' = "done"
    /\ UNCHANGED <<trace, sub, admitted, retired, issued, completed, partOcc, cycle,
                   rename, queues, drain, width>>

Stopped == pc = "done" /\ UNCHANGED vars

\* A plan is a sequence of partitions, at most one per uop.
Plan == UNION {[1..k -> Partition \cup {NoPartition}] : k \in 1..MaxUops}

Next ==
    \/ ReturnBatch
    \/ ReleaseReturns
    \/ \E m \in Macro, plan \in Plan : DispatchChunk(m, plan)
    \/ \E m \in Macro : ConsumeBudget(m)
    \/ DispatchReturns
    \/ \E u \in Uop : Issue(u)
    \/ \E m \in Macro : Complete(m)
    \/ WorkReturns
    \/ \E m \in Macro : Retire(m)
    \/ RetireReturns
    \/ \E ticks \in 1..TicksPerCycle : Advance(ticks)
    \/ Finish
    \/ Stopped

Spec == Init /\ [][Next]_vars

\* run() goes on, and the execution back end, asked often enough, issues some
\* uop it has been given or completes some macro-op whose uops it has issued.
Execute == (\E u \in Uop : Issue(u)) \/ (\E m \in Macro : Complete(m))
FairSpec == Spec /\ WF_vars(Next) /\ SF_vars(Execute)

-----------------------------------------------------------------------------
(***************************************************************************)
(* Properties.                                                             *)
(***************************************************************************)
InRob == (retired + 1)..admitted
InPartition(p) == {u \in Uop : Dispatched(u) /\ u \notin issued /\ partitionOf[u] = p}

\* Type correctness, the occupancy counters never negative.
TypeOK ==
    /\ trace \in Traces
    /\ pc \in {"release", "dispatch", "work", "retire", "advance", "done"}
    /\ sub \in 0..(TicksPerCycle - 1)
    /\ next \in 0..NumMacros /\ admitted \in 0..NumMacros /\ retired \in 0..NumMacros
    /\ progress \in [Macro -> Nat]
    /\ sent \in [Macro -> 0..MaxUops]
    /\ partitionOf \in [Uop -> Partition \cup {NoPartition}]
    /\ issued \subseteq Uop /\ completed \subseteq Macro
    /\ partOcc \in [Partition -> Nat]
    /\ robOcc \in Nat /\ vecOcc \in Nat /\ lqOcc \in Nat /\ sqOcc \in Nat
    /\ dispatched \in Nat /\ renameUsage \in Nat /\ width \in Nat
    /\ enqueues \in [Partition -> Nat] /\ domainUsage \in [Domain -> Nat]
    /\ free \in [File -> Nat]
    /\ pending \in Seq([wait : 0..ReleaseDelay, owed : [File -> Nat]])

\* No register is lost or returned twice: the free ones, those that macro-ops in
\* flight hold and those on their way back make up the initial free list, and the
\* guard entries are never handed out.
RegistersConserved ==
    \A f \in File :
        LET held == Total([m \in Macro |-> trace.rename[m][f]], InRob)
            owed == Total([i \in DOMAIN pending |-> pending[i].owed[f]], DOMAIN pending)
        IN  free[f] >= GuardEntries /\ free[f] + held + owed = FreeEntries[f]

\* Each partition's counter equals the uops waiting in it and stays within its
\* entries, and every waiting uop is where one of its choices is.
PartitionsExact ==
    /\ \A p \in Partition : /\ partOcc[p] = Cardinality(InPartition(p))
                            /\ partOcc[p] <= Entries[p]
    /\ \A u \in Uop : Dispatched(u) =>
          LET options == trace.choices[u[1]][u[2]]
          IN  IF options = {} THEN partitionOf[u] = NoPartition
              ELSE partitionOf[u] \in options

\* The queues' counters equal what they count and stay within their entries; a
\* macro-op's entry in the legacy vector scheduler is held until its first
\* vector uop issues, even if that is before its last one is dispatched.
QueuesExact ==
    /\ robOcc = Total(trace.entries, InRob) /\ robOcc <= RobEntries
    /\ lqOcc = Cardinality(InRob \cap trace.load) /\ lqOcc <= LoadEntries
    /\ sqOcc = Cardinality(InRob \cap trace.store) /\ sqOcc <= StoreEntries
    /\ vecOcc = Cardinality({m \in 1..admitted :
                    Legacy(m) /\ \A k \in trace.vector[m] : <<m, k>> \notin issued})
    /\ vecOcc <= VectorEntries

\* In one cycle no more is dispatched, enqueued, renamed or admitted per domain
\* than the widths allow, over however many macro-ops it is spread.
CycleBudgets ==
    /\ dispatched <= DispatchWidth
    /\ \A p \in Partition : enqueues[p] <= EnqueueWidth[p]
    /\ \A d \in Domain : domainUsage[d] <= DomainCapacity[d]
    /\ renameUsage <= AllocationWidth

\* A macro-op that drains over several cycles pays for each uop exactly once:
\* what it has consumed lies between the cost of the uops it has sent and that
\* of the next one, and at the end is all of its dispatch units, so that
\* "dispatch accounting did not converge" is never raised.
ProgressAccounted ==
    \A m \in Macro :
        IF sent[m] = UopCount(m) THEN progress[m] = trace.units[m]
        ELSE /\ Accounted(m, sent[m]) <= progress[m]
             /\ progress[m] <= Accounted(m, sent[m] + 1)

\* A macro-op that is admitted but not drained holds its reorder buffer entry:
\* it does not retire while uops of it are still to be dispatched or issued.
RetiresWhole == \A m \in 1..retired : m <= next /\ AllIssued(m)

\* Registers, partitions, queues and the budgets of a cycle are accounted for.
AccountsExact ==
    TypeOK /\ RegistersConserved /\ PartitionsExact /\ QueuesExact /\ CycleBudgets

\* Draining over several cycles is invisible outside: a macro-op pays as if it
\* were sent at once and leaves as one.
DrainsWhole == ProgressAccounted /\ RetiresWhole

\* Every macro-op is admitted, drained and retired in the end, provided the back
\* end executes what it is given.
Drains == <>(pc = "done")

\* Registers that the release width left over wait for the next cycle, as the
\* comment in _next_event_tick says.  (The delays are whole cycles, so a batch
\* that is ready between two boundaries is a leftover.)
LeftoverWaitsForCycle == [][pc = "release" /\ free' # free => OnBoundary]_vars

\* Only a macro-op that by itself exceeds a cycle or the enqueue width of its
\* partitions is drained in parts, as the comment in _dispatch says.
FitsAlone(m) ==
    /\ trace.units[m] <= DispatchWidth
    /\ \E a \in Assignments(m, UopCount(m)) :
          \A p \in Partition : /\ Assigned(a, p) <= EnqueueWidth[p]
                               /\ Assigned(a, p) <= Entries[p]
SplitsOnlyIfIntrinsic ==
    [][\A m \in Macro : sent[m] = 0 /\ sent'[m] > 0 /\ FitsAlone(m) =>
          sent'[m] = UopCount(m)]_vars

=============================================================================
