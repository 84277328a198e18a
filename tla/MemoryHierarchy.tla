--------------------------- MODULE MemoryHierarchy ---------------------------
(***************************************************************************)
(* simulator/memory.py: an inclusive hierarchy of set-associative LRU      *)
(* caches with bounded outstanding misses and one bandwidth timeline per   *)
(* level and direction.  An engine asks, at its current tick, whether an   *)
(* access is blocked (blocker) and, when it is not, may make it (access).  *)
(*                                                                         *)
(* Ticks are kept relative to now, as the time that is left: the code only *)
(* ever compares a tick with now.  A fill that is due is applied when the  *)
(* hierarchy is next asked, in line order, as _complete_fills does.        *)
(***************************************************************************)
EXTENDS Integers, FiniteSets

CONSTANTS
    Line,           \* cache lines, numbered
    Traces,         \* sets of accesses [lines, direction, bytes]
    NumLevels,      \* len(level_order); level 1 is the nearest
    Sets,           \* set_count of each level
    Ways,           \* ways of each level
    TicksPerCycle,  \* profile.ticks_per_cycle
    Latency,        \* latency of each level and of DRAM, in ticks
    Bandwidth,      \* bytes per cycle of each level and of DRAM, per direction
    Limit           \* outstanding limit of each level and of DRAM

Level == 1..NumLevels
Dram == NumLevels + 1
Source == 1..Dram
Direction == {"load", "store"}
NoRequest == [lines |-> {}]

ASSUME LineAssumption == Line \subseteq Nat /\ IsFiniteSet(Line) /\ NumLevels \in Nat \ {0}
ASSUME RequestAssumption == \A r \in UNION Traces :
    /\ r.lines \in (SUBSET Line) \ {{}}
    /\ r.direction \in Direction
    /\ r.bytes \in Nat \ {0}
ASSUME LatencyAssumption ==
    /\ TicksPerCycle \in Nat \ {0}
    /\ Latency \in [Source -> Nat \ {0}]
    /\ Limit \in [Source -> Nat \ {0}]
    /\ Bandwidth \in [Source -> [Direction -> Nat \ {0}]]
\* As in the shipped profiles, what fits in a level fits in the next one.
ASSUME GeometryAssumption ==
    /\ Sets \in [Level -> Nat \ {0}]
    /\ Ways \in [Level -> Nat \ {0}]
    /\ \A l \in Level : l < NumLevels =>
          Sets[l + 1] % Sets[l] = 0 /\ Ways[l] <= Ways[l + 1]

VARIABLES
    trace,          \* the accesses of the trace, never changed
    asked,          \* the request blocker is working on, or NoRequest
    answer,         \* latency_ticks of the access just made, else 0
    resident,       \* the lines of each cache
    newer,          \* <<x, y>> : x was touched after y, both resident
    pending,        \* pending_fills: the lines on their way
    remaining,      \* ticks until a pending line is there
    source,         \* the level a pending line comes from
    outstanding,    \* how many misses of a level are due in t ticks
    busy            \* ticks until a level's bandwidth is free, per direction

caches == <<resident, newer>>
fills == <<pending, remaining, source>>
vars == <<trace, asked, answer, caches, fills, outstanding, busy>>

Latencies == {Latency[s] : s \in Source}
MaxLatency == CHOOSE n \in Latencies : \A k \in Latencies : k <= n

-----------------------------------------------------------------------------
SetOf(l, x) == {y \in Line : y % Sets[l] = x % Sets[l]}

\* SetAssociativeCache.can_hold
CanHold(l, lines) == \A x \in lines : Cardinality(SetOf(l, x) \cap lines) <= Ways[l]

\* The line touch(x) evicts from level l: the least recently touched one, when
\* x is absent and its set is full.
Victim(l, x) ==
    LET inSet == SetOf(l, x) \cap resident[l]
    IN  {y \in inSet : /\ x \notin resident[l]
                       /\ Cardinality(inSet) = Ways[l]
                       /\ \A z \in inSet \ {y} : <<z, y>> \in newer[l]}

\* x moves to the end of its OrderedDict.
MovedToEnd(l, x, content) ==
    {p \in newer[l] : p[1] \in content /\ p[2] \in content /\ p[2] # x}
        \cup {<<x, y>> : y \in content \ {x}}

\* _fill_inclusive, at level l: x is touched in every level, and what a level
\* evicts is removed from all levels above it.
MutantNotRemoved(l, x) == (resident[l] \cup {x}) \ Victim(l, x)
Filled(l, x) ==
    (resident[l] \cup {x}) \ UNION {Victim(k, x) : k \in l..NumLevels}

\* The loop over the levels up to the source alone would not do: the line may
\* have left the source in the meantime.
Refilled(x) == Level

-----------------------------------------------------------------------------
\* peek_level: the farthest of the lines' levels, a pending line being where it
\* comes from.
LevelOf(x) ==
    IF x \in pending THEN source[x]
    ELSE CHOOSE s \in Source :
            /\ s = Dram \/ x \in resident[s]
            /\ \A l \in Level : x \in resident[l] => s <= l
Farthest(r) == CHOOSE s \in Source :
                  /\ \E x \in r.lines : LevelOf(x) = s
                  /\ \A x \in r.lines : LevelOf(x) <= s

MissPath(s) == IF s = Dram THEN Source ELSE 1..(s - 1)

\* Misses of level l that are still under way.
InFlight(l) ==
    LET upTo[t \in 0..MaxLatency] ==
            IF t = 0 THEN 0 ELSE outstanding[l][t] + upTo[t - 1]
    IN  upTo[MaxLatency]

MutantMergesWhole(r) == r.lines \subseteq pending
Merges(r) == r.lines \cap pending # {}
MutantNearestOnly(r) == Farthest(r) # 1 /\ InFlight(1) >= Limit[1]
MissesFull(r) == \E l \in MissPath(Farthest(r)) : InFlight(l) >= Limit[l]

\* blocker
Blocked(r) ==
    /\ ~Merges(r)
    /\ \/ busy[Farthest(r)][r.direction] > 0
       \/ MissesFull(r)

Due == {x \in pending : remaining[x] = 0}

-----------------------------------------------------------------------------
\* _initialize, for the lines of all accesses of the trace.  The code touches them
\* one by one in each level from the first on that can hold them, and under
\* hot-l1 in all.  By GeometryAssumption the levels behind can hold them as well,
\* so that nothing is evicted.
WorkingSet == UNION {r.lines : r \in trace}
Holds(first, l) == IF l >= first THEN WorkingSet ELSE {}
Nearest == CHOOSE l \in Level :
              CanHold(l, WorkingSet) /\ \A k \in 1..(l - 1) : ~CanHold(k, WorkingSet)

Init ==
    /\ trace \in Traces
    /\ asked = NoRequest
    /\ answer = 0
    /\ \/ resident = [l \in Level |-> {}]                      \* cold
       \/ /\ CanHold(1, WorkingSet)                            \* hot-l1
          /\ resident = [l \in Level |-> WorkingSet]
       \/ /\ \E l \in Level : CanHold(l, WorkingSet)           \* hot-capacity
          /\ resident = [l \in Level |-> Holds(Nearest, l)]
    /\ newer = [l \in Level |-> {p \in resident[l] \X resident[l] : p[1] > p[2]}]
    /\ pending = {}
    /\ remaining = [x \in Line |-> 0]
    /\ source = [x \in Line |-> Dram]
    /\ outstanding = [l \in Source |-> [t \in 1..MaxLatency |-> 0]]
    /\ busy = [l \in Source |-> [d \in Direction |-> 0]]

\* An engine asks about request r.
Ask(r) ==
    /\ asked = NoRequest
    /\ asked' = r
    /\ answer' = 0
    /\ UNCHANGED <<trace, caches, fills, outstanding, busy>>

\* _complete_fills: the due lines are filled in line order.
Fill(x) ==
    /\ asked # NoRequest
    /\ x \in Due
    /\ \A y \in Due : x <= y
    /\ resident' = [l \in Level |-> IF l \in Refilled(x) THEN Filled(l, x) ELSE resident[l]]
    /\ newer' = [l \in Level |-> IF l \in Refilled(x)
                                 THEN MovedToEnd(l, x, resident'[l]) ELSE newer[l]]
    /\ pending' = pending \ {x}
    /\ source' = [source EXCEPT ![x] = Dram]
    /\ UNCHANGED <<trace, asked, answer, remaining, outstanding, busy>>

Answering == asked # NoRequest /\ Due = {}

\* The engine does not make the access: it is blocked, or something the engine
\* tests afterwards is.
Decline ==
    /\ Answering
    /\ asked' = NoRequest
    /\ UNCHANGED <<trace, answer, caches, fills, outstanding, busy>>

\* access, merged into the pending fills of its lines: it completes with the
\* last of them and takes neither bandwidth nor a miss.
MutantMergedHit ==
    /\ Answering /\ Merges(asked)
    /\ asked' = NoRequest
    /\ answer' = Latency[1]
    /\ UNCHANGED <<trace, caches, fills, outstanding, busy>>
Merge ==
    /\ Answering
    /\ Merges(asked)
    /\ asked' = NoRequest
    /\ answer' \in {remaining[x] : x \in asked.lines \cap pending}
    /\ \A x \in asked.lines \cap pending : remaining[x] <= answer'
    /\ UNCHANGED <<trace, caches, fills, outstanding, busy>>

CeilingOf(n, d) == (n + d - 1) \div d
Transfer(r) ==
    [busy EXCEPT ![Farthest(r)][r.direction] =
        CeilingOf(r.bytes * TicksPerCycle, Bandwidth[Farthest(r)][r.direction])]

\* access, all of whose lines are in level 1.  Touching present lines evicts
\* nothing.
Touched(lines, order) ==
    {p \in order : p[2] \notin lines \/ (p[1] \in lines /\ p[1] > p[2])}
    \cup {p \in lines \X resident[1] : p[2] \notin lines \/ p[1] > p[2]}
Hit ==
    /\ Answering
    /\ ~Merges(asked) /\ ~Blocked(asked)
    /\ Farthest(asked) = 1
    /\ newer' = [newer EXCEPT ![1] = Touched(asked.lines, @)]
    /\ busy' = Transfer(asked)
    /\ asked' = NoRequest
    /\ answer' = Latency[1]
    /\ UNCHANGED <<trace, resident, fills, outstanding>>

\* access, from a farther level: every line of the access becomes pending.
Fetch ==
    LET from == Farthest(asked) IN
    /\ Answering
    /\ ~Merges(asked) /\ ~Blocked(asked)
    /\ from # 1
    /\ pending' = pending \cup asked.lines
    /\ remaining' = [x \in Line |-> IF x \in asked.lines THEN Latency[from] ELSE remaining[x]]
    /\ source' = [x \in Line |-> IF x \in asked.lines THEN from ELSE source[x]]
    /\ outstanding' = [l \in Source |-> IF l \in MissPath(from)
                          THEN [outstanding[l] EXCEPT ![Latency[from]] = @ + 1]
                          ELSE outstanding[l]]
    /\ busy' = Transfer(asked)
    /\ asked' = NoRequest
    /\ answer' = Latency[from]
    /\ UNCHANGED <<trace, caches>>

Less(n) == IF n = 0 THEN 0 ELSE n - 1

\* The engine's time moves on by a tick.
MutantNeverPruned ==
    /\ asked = NoRequest
    /\ answer' = 0
    /\ remaining' = [x \in Line |-> Less(remaining[x])]
    /\ busy' = [l \in Source |-> [d \in Direction |-> Less(busy[l][d])]]
    /\ UNCHANGED <<trace, asked, caches, pending, source, outstanding>>
Tick ==
    /\ asked = NoRequest
    /\ answer' = 0
    /\ remaining' = [x \in Line |-> Less(remaining[x])]
    /\ outstanding' = [l \in Source |-> [t \in 1..MaxLatency |->
                          IF t = MaxLatency THEN 0 ELSE outstanding[l][t + 1]]]
    /\ busy' = [l \in Source |-> [d \in Direction |-> Less(busy[l][d])]]
    /\ UNCHANGED <<trace, asked, caches, pending, source>>

Next ==
    \/ \E r \in trace : Ask(r)
    \/ \E x \in Line : Fill(x)
    \/ Decline
    \/ Merge
    \/ Hit
    \/ Fetch
    \/ Tick

Spec == Init /\ [][Next]_vars

-----------------------------------------------------------------------------
(***************************************************************************)
(* Properties.                                                             *)
(***************************************************************************)

\* Type correctness: the sets hold at most their ways, and the lines of each
\* cache are totally ordered by their last touch.
TypeOK ==
    /\ trace \in Traces
    /\ asked \in trace \cup {NoRequest}
    /\ answer \in 0..MaxLatency
    /\ resident \in [Level -> SUBSET Line]
    /\ \A l \in Level :
          /\ \A x \in resident[l] : Cardinality(SetOf(l, x) \cap resident[l]) <= Ways[l]
          /\ newer[l] \subseteq resident[l] \X resident[l]
          /\ \A x, y \in resident[l] :
                x = y \/ (<<x, y>> \in newer[l] <=> <<y, x>> \notin newer[l])
    /\ pending \in SUBSET Line
    /\ remaining \in [Line -> 0..MaxLatency]
    /\ source \in [Line -> Source]
    /\ outstanding \in [Source -> [1..MaxLatency -> Nat]]
    /\ busy \in [Source -> [Direction -> Nat]]

\* The hierarchy is inclusive: what a cache holds, the next one holds, whatever
\* was filled, hit or evicted while a fill was on its way.
Inclusive == \A l \in 1..(NumLevels - 1) : resident[l] \subseteq resident[l + 1]

\* At no level are more misses under way than it can track.
OutstandingBounded == \A l \in Source : InFlight(l) <= Limit[l]

\* A miss slot is held at a level exactly as long as a line that missed there is
\* on its way: none is released early, none is left behind.
SlotsMatchFills ==
    \A l \in Source, t \in 1..MaxLatency :
        outstanding[l][t] > 0 <=>
            \E x \in pending : remaining[x] = t /\ l \in MissPath(source[x])

\* The misses under way are those of the lines on their way, within the limits.
MissesExact == TypeOK /\ OutstandingBounded /\ SlotsMatchFills

\* A line that is on its way is not fetched again, nor is its arrival put off:
\* later accesses are merged into the fill.
FetchedOnce ==
    [][\A x \in pending : x \in pending' =>
          source'[x] = source[x] /\ remaining'[x] <= remaining[x]]_vars

\* Every access allocates its lines: after it, each of them is in the nearest
\* cache or on its way there.
Allocates ==
    [][answer' > 0 /\ asked # NoRequest =>
          asked.lines \subseteq resident'[1] \cup pending']_vars

=============================================================================
