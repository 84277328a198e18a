----------------------------- MODULE Zen4Memory -----------------------------
(***************************************************************************)
(* The Zen 4 event loop and the memory hierarchy together: backend/zen4.py *)
(* asks simulator/memory.py about every waiting load and store, oldest     *)
(* first, and decides from the answers how far time may jump.  Each action *)
(* of the loop is joined with the steps of MemoryHierarchy it causes.      *)
(*                                                                         *)
(* Of the loop only what concerns memory is here: the uops are loads and   *)
(* stores, lanes, intervals and issue domains are always free, and queues  *)
(* never fill.  Zen4Engine has those, with the memory as an interface.     *)
(* As in MemoryHierarchy, ticks are the time that is left.                 *)
(***************************************************************************)
EXTENDS MemoryHierarchy, Sequences

CONSTANTS
    Programs,       \* sequences of uops [access, dependencies]
    DispatchWidth,  \* uops dispatched at a cycle boundary
    StoreLatency    \* latency_ticks of a store's recipe

NotIssued == -1
Accesses(p) == {p[k].access : k \in DOMAIN p}

ASSUME LoopAssumption == DispatchWidth \in Nat \ {0} /\ StoreLatency \in Nat \ {0}
ASSUME ProgramsAssumption == \A p \in Programs :
    /\ p \in Seq([access : UNION Traces, dependencies : SUBSET Nat])
    /\ Accesses(p) \in Traces
    /\ \A k \in DOMAIN p : p[k].dependencies \subseteq 1..(k - 1)
\* As in the shipped Zen 4 profile, no level answers sooner than the nearest.
ASSUME NearestAssumption == \A s \in Source : Latency[1] <= Latency[s]

VARIABLES
    program,    \* the bound uops, never changed
    pc,         \* where run() is in its loop body
    phase,      \* now % ticks_per_cycle
    dispatched, \* uops dispatched so far
    finishIn,   \* ticks until a uop completes; 0 once it has
    candidates, \* what is left of _issue_once's snapshot
    progress,   \* issued in this round of the fixed point
    left        \* ticks of the jump that are still to pass

loop == <<pc, phase, dispatched, finishIn, candidates, progress, left>>
memory == <<trace, asked, answer, caches, fills, outstanding, busy>>
zvars == <<program, loop, memory>>

Uop == DOMAIN program
Waiting == {u \in 1..dispatched : finishIn[u] = NotIssued}
Ready(u) == \A d \in program[u].dependencies : finishIn[d] = 0
Oldest(u) == u \in candidates /\ \A v \in candidates : u <= v
Done == dispatched = Len(program) /\ \A u \in Uop : finishIn[u] = 0

-----------------------------------------------------------------------------
\* The tick blocker names for a blocked access: its bandwidth is free, or the
\* first level of its path without a free miss slot gets one.
Soonest(S) == CHOOSE t \in S : \A s \in S : t <= s
SlotDue(l) == Soonest({t \in 1..MaxLatency : outstanding[l][t] > 0})
FullLevels(r) == {l \in MissPath(Farthest(r)) : InFlight(l) >= Limit[l]}
MutantReadyIn(r) ==
    IF busy[Farthest(r)][r.direction] > 0 THEN busy[Farthest(r)][r.direction]
    ELSE LET l == Soonest(FullLevels(r))
         IN  CHOOSE t \in 1..MaxLatency : outstanding[l][t] > 0
                /\ \A s \in 1..MaxLatency : outstanding[l][s] > 0 => s <= t
ReadyIn(r) ==
    IF busy[Farthest(r)][r.direction] > 0 THEN busy[Farthest(r)][r.direction]
    ELSE SlotDue(Soonest(FullLevels(r)))

\* _next_event_tick: the next completion, the next boundary, and the tick at
\* which a waiting access may be made.
EventTicks ==
    {TicksPerCycle - phase}
    \cup {finishIn[u] : u \in {v \in Uop : finishIn[v] > 0}}
    \cup {ReadyIn(program[u].access) :
             u \in {v \in Waiting : Ready(v) /\ Blocked(program[v].access)}}

-----------------------------------------------------------------------------
\* _issue_blocker of the oldest candidate: it waits for a producer ...
PassOver(u) ==
    /\ pc = "scan" /\ asked = NoRequest /\ Oldest(u) /\ ~Ready(u)
    /\ candidates' = candidates \ {u}
    /\ UNCHANGED <<program, pc, phase, dispatched, finishIn, progress, left, memory>>
\* ... or the memory is asked, which applies the fills that are due.
Examine(u) ==
    /\ pc = "scan" /\ Oldest(u) /\ Ready(u)
    /\ Ask(program[u].access)
    /\ UNCHANGED <<program, loop>>
Arrive(x) == Fill(x) /\ UNCHANGED <<program, loop>>
Refuse(u) ==
    /\ Oldest(u) /\ Answering /\ Blocked(asked) /\ Decline
    /\ candidates' = candidates \ {u}
    /\ UNCHANGED <<program, pc, phase, dispatched, finishIn, progress, left>>

\* _issue_once makes the access; a load takes its latency.
Grant(u) ==
    /\ Oldest(u) /\ (Merge \/ Hit \/ Fetch)
    /\ finishIn' = [finishIn EXCEPT ![u] =
                      IF asked.direction = "load" THEN answer' ELSE StoreLatency]
    /\ candidates' = candidates \ {u}
    /\ progress' = TRUE
    /\ UNCHANGED <<program, pc, phase, dispatched, left>>

\* _issue_fixed_point goes round again if something was issued.
AfterRound == IF progress THEN "scan" ELSE "advance"
ScanReturns ==
    /\ pc = "scan" /\ asked = NoRequest /\ candidates = {}
    /\ pc' = AfterRound /\ progress' = FALSE
    /\ candidates' = IF pc' = "scan" THEN Waiting ELSE {}
    /\ UNCHANGED <<program, phase, dispatched, finishIn, left, memory>>

\* run() jumps to the next event and completes what is due; at a boundary it
\* dispatches.
Advance ==
    /\ pc = "advance" /\ ~Done
    /\ left' = Soonest(EventTicks) /\ pc' = "elapse"
    /\ UNCHANGED <<program, phase, dispatched, finishIn, candidates, progress, memory>>
Elapse ==
    /\ pc = "elapse" /\ Tick
    /\ left' = left - 1
    /\ phase' = (phase + 1) % TicksPerCycle
    /\ finishIn' = [u \in Uop |-> IF finishIn[u] > 0 THEN finishIn[u] - 1 ELSE finishIn[u]]
    /\ pc' = IF left' = 0 THEN "scan" ELSE "elapse"
    /\ dispatched' = IF phase' # 0 THEN dispatched
                     ELSE IF dispatched + DispatchWidth < Len(program)
                          THEN dispatched + DispatchWidth ELSE Len(program)
    /\ candidates' = IF left' = 0 THEN Waiting' ELSE {}
    /\ UNCHANGED <<program, progress>>
Stopped == pc = "advance" /\ Done /\ UNCHANGED zvars

ZInit ==
    /\ Init
    /\ program \in {p \in Programs : Accesses(p) = trace}
    /\ pc = "scan" /\ phase = 0 /\ left = 0 /\ progress = FALSE
    /\ dispatched = IF DispatchWidth < Len(program) THEN DispatchWidth ELSE Len(program)
    /\ finishIn = [u \in Uop |-> NotIssued]
    /\ candidates = 1..dispatched
ZNext ==
    \/ \E u \in Uop : PassOver(u) \/ Examine(u) \/ Refuse(u) \/ Grant(u)
    \/ \E x \in Line : Arrive(x)
    \/ ScanReturns \/ Advance \/ Elapse \/ Stopped
ZSpec == ZInit /\ [][ZNext]_zvars /\ WF_zvars(ZNext)

-----------------------------------------------------------------------------
(* Properties. *)

\* Types of the loop; a jump ends no later than the cycle, and a uop in flight
\* is completed at a tick that is visited.
LoopTypeOK ==
    /\ pc \in {"scan", "advance", "elapse"} /\ progress \in BOOLEAN
    /\ phase \in 0..(TicksPerCycle - 1) /\ left \in 0..(TicksPerCycle - phase)
    /\ dispatched \in 0..Len(program) /\ candidates \subseteq 1..dispatched
    /\ finishIn \in [Uop -> Int]
    /\ \A u \in Uop : finishIn[u] > 0 => left <= finishIn[u]

\* Time jumps over no tick at which an access could have been made: every
\* access whose producers have completed is refused all along.  The caches are
\* those of the last visited tick, as lines that arrive are filed when the
\* hierarchy is next asked.
NoMissedAccess ==
    pc = "elapse" => \A u \in Waiting : Ready(u) => Blocked(program[u].access)

\* A jump of time ends no later and begins no earlier than it must.
JumpsSound == LoopTypeOK /\ NoMissedAccess

\* Of two loads of the same lines, the one that issues first does not complete
\* last, whether the later one hits, is merged into a fill or fetches the lines
\* again after they were evicted.
SameLineOrder ==
    [][\A u, v \in Uop :
         /\ finishIn[u] > 0 /\ finishIn[v] = NotIssued /\ finishIn'[v] > 0
         /\ program[u].access = program[v].access
         /\ program[u].access.direction = "load"
         => finishIn[u] <= finishIn'[v]]_zvars

\* Every load and store is made and completes: retrying a refused access at the
\* tick the hierarchy names, oldest first, starves nobody.
Drains == <>Done

=============================================================================
