---------------------------- MODULE MemoryProofs ----------------------------
(***************************************************************************)
(* Theorems about MemoryHierarchy, for every geometry, latency and limit   *)
(* that its assumptions admit.                                             *)
(***************************************************************************)
EXTENDS Zen4Memory, FiniteSetTheorems, TLAPS

\* A set of natural numbers has a least element: the intervals that end at its
\* members are well-founded.
LEMMA LeastNumber ==
    ASSUME NEW S, S \subseteq Nat, S # {}
    PROVE  \E x \in S : \A y \in S : x <= y
<1> DEFINE Upto(x) == 0..x
           T == {Upto(x) : x \in S}
<1>1. T \subseteq FiniteSubsetsOf(Nat)
  <2> SUFFICES ASSUME NEW x \in S PROVE Upto(x) \in FiniteSubsetsOf(Nat)
    OBVIOUS
  <2>1. IsFiniteSet(0..x)
    BY FS_Interval
  <2> QED
    BY <2>1 DEF FiniteSubsetsOf
<1>2. IsWellFoundedOn(StrictSubsetOrdering(Nat), FiniteSubsetsOf(Nat))
  BY FS_StrictSubsetOrderingWellFounded
<1>3. PICK X \in T : \A Y \in T : <<Y, X>> \notin StrictSubsetOrdering(Nat)
  <2>1. T # {}
    OBVIOUS
  <2> HIDE DEF T
  <2> QED
    BY <1>1, <1>2, <2>1, WFMin
<1>4. PICK x \in S : X = 0..x
  OBVIOUS
<1>5. ASSUME NEW y \in S, y < x PROVE FALSE
  <2>1. 0..y \in SUBSET Nat /\ 0..x \in SUBSET Nat
    OBVIOUS
  <2>2. 0..y \subseteq 0..x /\ x \in 0..x /\ x \notin 0..y
    BY <1>5
  <2>3. <<0..y, 0..x>> \in StrictSubsetOrdering(Nat)
    BY <2>1, <2>2 DEF StrictSubsetOrdering
  <2>4. 0..y \in T
    OBVIOUS
  <2> QED
    BY <1>3, <1>4, <2>3, <2>4
<1> QED
  BY <1>5

\* What fails for some number up to N fails for one where it held just before.
LEMMA FirstFailure ==
    ASSUME NEW N \in Nat, NEW S, S \subseteq 0..N, S # {}
    PROVE  \E n \in S : n \in 0..N /\ n - 1 \notin S
<1>1. PICK n \in S : \A y \in S : n <= y
  <2>1. S \subseteq Nat
    OBVIOUS
  <2> QED
    BY <2>1, LeastNumber
<1>2. n \in 0..N /\ n \in Nat
  OBVIOUS
<1>3. n - 1 \notin S
  BY <1>1, <1>2
<1> QED
  BY <1>2, <1>3

LEMMA LevelsAreNumbers ==
    /\ NumLevels \in Nat /\ Dram \in Nat /\ Dram \in Source
    /\ Level \subseteq Nat /\ Source \subseteq Nat
    /\ Level = Source \ {Dram}
BY LineAssumption DEF Level, Source, Dram

-----------------------------------------------------------------------------
(***************************************************************************)
(* Where a line is found.  The levels that peek_level returns are levels.  *)
(***************************************************************************)
Stock ==
    /\ trace \in Traces
    /\ asked \in trace \cup {NoRequest}
    /\ pending \subseteq Line
    /\ remaining \in [Line -> Nat]
    /\ source \in [Line -> Source]

LEMMA LevelOfIsLevel ==
    ASSUME Stock, NEW x \in Line
    PROVE  LevelOf(x) \in Source
<1>1. CASE x \in pending
  BY <1>1 DEF LevelOf, Stock
<1>2. CASE x \notin pending
  <2> DEFINE S == {s \in Source : s = Dram \/ x \in resident[s]}
  <2>1. Dram \in S /\ S \subseteq Nat
    BY LevelsAreNumbers
  <2>2. PICK s \in S : \A y \in S : s <= y
    BY <2>1, LeastNumber
  <2>3. \A l \in Level : x \in resident[l] => s <= l
    BY <2>2, LevelsAreNumbers
  <2>4. \E k \in Source :
           /\ k = Dram \/ x \in resident[k]
           /\ \A l \in Level : x \in resident[l] => k <= l
    BY <2>2, <2>3
  <2> QED
    BY <1>2, <2>4 DEF LevelOf
<1> QED
  BY <1>1, <1>2

LEMMA LevelOfResident ==
    ASSUME NEW x \in Line, x \notin pending
    PROVE  LevelOf(x) = Dram \/ x \in resident[LevelOf(x)]
<1> DEFINE S == {s \in Source : s = Dram \/ x \in resident[s]}
<1>1. Dram \in S /\ S \subseteq Nat
  BY LevelsAreNumbers
<1>2. PICK s \in S : \A y \in S : s <= y
  BY <1>1, LeastNumber
<1>3. \A l \in Level : x \in resident[l] => s <= l
  BY <1>2, LevelsAreNumbers
<1> QED
  BY <1>2, <1>3 DEF LevelOf

LEMMA FarthestWitness ==
    ASSUME Stock, NEW r \in trace
    PROVE  \E s \in Source : /\ \E x \in r.lines : LevelOf(x) = s
                            /\ \A x \in r.lines : LevelOf(x) <= s
<1>1. r.lines \subseteq Line /\ r.lines # {}
  BY RequestAssumption DEF Stock
<1>2. \A x \in r.lines : LevelOf(x) \in Source
  BY <1>1, LevelOfIsLevel
<1> DEFINE S == {Dram - LevelOf(x) : x \in r.lines}
<1>3. S \subseteq Nat /\ S # {}
  BY <1>1, <1>2, LevelsAreNumbers DEF Source
<1>4. PICK n \in S : \A k \in S : n <= k
  BY <1>3, LeastNumber
<1>5. PICK y \in r.lines : n = Dram - LevelOf(y)
  BY <1>4
<1>6. \A x \in r.lines : LevelOf(x) <= LevelOf(y)
  <2> SUFFICES ASSUME NEW x \in r.lines PROVE LevelOf(x) <= LevelOf(y)
    OBVIOUS
  <2>1. Dram - LevelOf(y) <= Dram - LevelOf(x)
    BY <1>4, <1>5
  <2>2. Dram \in Nat /\ LevelOf(x) \in Nat /\ LevelOf(y) \in Nat
    <3>1. LevelOf(x) \in Source /\ LevelOf(y) \in Source
      BY <1>2
    <3> QED
      BY <3>1, LevelsAreNumbers
  <2> HIDE DEF S
  <2> QED
    BY <2>1, <2>2
<1> QED
  BY <1>2, <1>6

LEMMA FarthestIsLevel ==
    ASSUME Stock, NEW r \in trace
    PROVE  Farthest(r) \in Source
BY FarthestWitness DEF Farthest

LEMMA InitStock == Init => Stock
<1> SUFFICES ASSUME Init PROVE Stock
  OBVIOUS
<1>1. trace \in Traces /\ asked = NoRequest /\ pending = {}
  BY DEF Init
<1>2. remaining \in [Line -> Nat] /\ source \in [Line -> Source]
  BY LevelsAreNumbers DEF Init
<1> QED
  BY <1>1, <1>2 DEF Stock

LEMMA StepStock == Stock /\ [Next]_vars => Stock'
<1> SUFFICES ASSUME Stock, [Next]_vars PROVE Stock'
  OBVIOUS
<1>1. ASSUME NEW r \in trace, Ask(r) PROVE Stock'
  BY <1>1 DEF Ask, Stock, fills
<1>2. ASSUME NEW x \in Line, Fill(x) PROVE Stock'
  BY <1>2, LevelsAreNumbers DEF Fill, Stock, Source
<1>3. CASE Decline \/ Merge \/ Hit
  BY <1>3 DEF Decline, Merge, Hit, Stock, fills
<1>4. CASE Fetch
  <2>1. asked \in trace
    BY <1>4 DEF Fetch, Answering, Stock
  <2>2. asked.lines \subseteq Line
    BY <2>1, RequestAssumption DEF Stock
  <2>3. Farthest(asked) \in Source
    BY <2>1, FarthestIsLevel
  <2>4. Latency[Farthest(asked)] \in Nat
    BY <2>3, LatencyAssumption
  <2> QED
    BY <1>4, <2>2, <2>3, <2>4 DEF Fetch, Stock
<1>5. CASE Tick
  <2>1. \A n \in Nat : Less(n) \in Nat
    BY DEF Less
  <2> QED
    BY <1>5, <2>1 DEF Tick, Stock
<1>6. CASE UNCHANGED vars
  BY <1>6 DEF vars, Stock, fills
<1> QED
  BY <1>1, <1>2, <1>3, <1>4, <1>5, <1>6 DEF Next

LEMMA StockHolds == Spec => []Stock
<1>1. Init => Stock
  BY InitStock
<1>2. Stock /\ [Next]_vars => Stock'
  BY StepStock
<1> QED
  BY <1>1, <1>2, PTL DEF Spec

\* Whatever is asked in whatever order, a line that is on its way is never
\* fetched again: blocker and access look at the pending fills first.
THEOREM FetchedOnceHolds == Spec => FetchedOnce
<1> DEFINE Kept == \A x \in pending : x \in pending' =>
                      source'[x] = source[x] /\ remaining'[x] <= remaining[x]
<1>1. ASSUME Stock, [Next]_vars PROVE Kept
  <2> SUFFICES ASSUME NEW x \in pending, x \in pending'
               PROVE  source'[x] = source[x] /\ remaining'[x] <= remaining[x]
    OBVIOUS
  <2>0. x \in Line /\ remaining[x] \in Nat
    BY <1>1 DEF Stock
  <2>1. ASSUME NEW r \in trace, Ask(r) PROVE UNCHANGED <<source, remaining>>
    BY <2>1 DEF Ask, fills
  <2>2. CASE Decline \/ Merge \/ Hit
    BY <2>0, <2>2 DEF Decline, Merge, Hit, fills
  <2>3. ASSUME NEW y \in Line, Fill(y)
        PROVE  source'[x] = source[x] /\ remaining' = remaining
    <3>1. x # y
      BY <2>3 DEF Fill
    <3> QED
      BY <1>1, <2>3, <3>1 DEF Fill, Stock
  <2>4. CASE Fetch
    <3>1. x \notin asked.lines
      BY <2>4 DEF Fetch, Merges
    <3> QED
      BY <2>0, <2>4, <3>1 DEF Fetch
  <2>5. CASE Tick
    <3>1. remaining'[x] = Less(remaining[x]) /\ source' = source
      BY <2>0, <2>5 DEF Tick
    <3> QED
      BY <2>0, <3>1 DEF Less
  <2>6. CASE UNCHANGED vars
    BY <2>0, <2>6 DEF vars, fills
  <2> QED
    BY <1>1, <2>0, <2>1, <2>2, <2>3, <2>4, <2>5, <2>6 DEF Next
<1>2. Stock /\ [Next]_vars => [Kept]_vars
  BY <1>1
<1> QED
  BY <1>2, StockHolds, PTL DEF Spec, FetchedOnce

-----------------------------------------------------------------------------
(***************************************************************************)
(* Inclusion.                                                              *)
(***************************************************************************)
LEMMA FilledGrows ==
    ASSUME NEW l \in 1..(NumLevels - 1), NEW x, resident[l] \subseteq resident[l + 1]
    PROVE  Filled(l, x) \subseteq Filled(l + 1, x)
<1>1. (l + 1)..NumLevels \subseteq l..NumLevels
  BY LevelsAreNumbers
<1>2. UNION {Victim(k, x) : k \in (l + 1)..NumLevels}
         \subseteq UNION {Victim(k, x) : k \in l..NumLevels}
  BY <1>1
<1> QED
  BY <1>2 DEF Filled

LEMMA InitInclusive == Init => Inclusive
<1> SUFFICES ASSUME Init, NEW l \in 1..(NumLevels - 1)
             PROVE  resident[l] \subseteq resident[l + 1]
  BY DEF Inclusive
<1>1. l \in Level /\ l + 1 \in Level
  BY LevelsAreNumbers DEF Level
<1>2. CASE resident = [k \in Level |-> {}] \/ resident = [k \in Level |-> WorkingSet]
  BY <1>1, <1>2
<1>3. CASE /\ \E k \in Level : CanHold(k, WorkingSet)
           /\ resident = [k \in Level |-> Holds(Nearest, k)]
  <2> DEFINE S == {k \in Level : CanHold(k, WorkingSet)}
  <2>1. S \subseteq Nat /\ S # {}
    BY <1>3, LevelsAreNumbers
  <2>2. PICK n \in S : \A k \in S : n <= k
    BY <2>1, LeastNumber
  <2>3. n \in Level /\ CanHold(n, WorkingSet)
        /\ \A k \in 1..(n - 1) : ~CanHold(k, WorkingSet)
    BY <2>2, LevelsAreNumbers DEF Level
  <2>4. Nearest \in Level
    BY <2>3 DEF Nearest
  <2>5. l >= Nearest => l + 1 >= Nearest
    BY <1>1, <2>4, LevelsAreNumbers
  <2> QED
    BY <1>1, <1>3, <2>5 DEF Holds
<1> QED
  BY <1>2, <1>3 DEF Init

LEMMA StepInclusive == Inclusive /\ [Next]_vars => Inclusive'
<1> SUFFICES ASSUME Inclusive, [Next]_vars PROVE Inclusive'
  OBVIOUS
<1>1. ASSUME NEW x \in Line, Fill(x) PROVE Inclusive'
  <2> SUFFICES ASSUME NEW l \in 1..(NumLevels - 1)
               PROVE  resident'[l] \subseteq resident'[l + 1]
    BY DEF Inclusive
  <2>1. l \in Level /\ l + 1 \in Level
    BY LevelsAreNumbers DEF Level
  <2>2. resident'[l] = Filled(l, x) /\ resident'[l + 1] = Filled(l + 1, x)
    BY <1>1, <2>1 DEF Fill, Refilled
  <2>3. resident[l] \subseteq resident[l + 1]
    BY DEF Inclusive
  <2> QED
    BY <2>2, <2>3, FilledGrows
<1>2. CASE UNCHANGED resident
  BY <1>2 DEF Inclusive
<1>3. ASSUME NEW r \in trace, Ask(r) PROVE UNCHANGED resident
  BY <1>3 DEF Ask, caches
<1>4. CASE Decline \/ Merge \/ Hit \/ Fetch \/ Tick
  BY <1>2, <1>4 DEF Decline, Merge, Hit, Fetch, Tick, caches
<1>5. CASE UNCHANGED vars
  BY <1>2, <1>5 DEF vars, caches
<1> QED
  BY <1>1, <1>2, <1>3, <1>4, <1>5 DEF Next

\* The hierarchy starts inclusive in every cache mode and every fill, whatever
\* it evicts and wherever its line came from, keeps it so.
THEOREM InclusiveHolds == Spec => []Inclusive
<1>1. Init => Inclusive
  BY InitInclusive
<1>2. Inclusive /\ [Next]_vars => Inclusive'
  BY StepInclusive
<1> QED
  BY <1>1, <1>2, PTL DEF Spec

-----------------------------------------------------------------------------
(***************************************************************************)
(* The latencies, and the misses of a level under way as a sum over the    *)
(* ticks at which they are due.                                            *)
(***************************************************************************)
LEMMA LatencyNumbers ==
    /\ MaxLatency \in Nat \ {0}
    /\ \A s \in Source : Latency[s] \in 1..MaxLatency
<1> DEFINE Greatest(n) == \E m \in 1..n : \A k \in 1..n : Latency[k] <= Latency[m]
           S == {n \in 1..Dram : ~Greatest(n)}
<1>1. Source = 1..Dram /\ Dram \in Nat \ {0} /\ \A s \in Source : Latency[s] \in Nat \ {0}
  BY LevelsAreNumbers, LatencyAssumption, LineAssumption DEF Source, Dram
<1>2. S = {}
  <2> SUFFICES ASSUME S # {} PROVE FALSE
    OBVIOUS
  <2>2. PICK n \in S : n \in 0..Dram /\ n - 1 \notin S
    <3>1. S \subseteq 0..Dram
      BY <1>1
    <3> HIDE DEF S
    <3> QED
      BY <1>1, <3>1, FirstFailure
  <2>3. n \in 1..Dram /\ ~Greatest(n) /\ n - 1 \notin S
    BY <2>2
  <2>4. n # 1
    <3>1. Greatest(1)
      <4>1. \A k \in 1..1 : k = 1
        OBVIOUS
      <4>2. Latency[1] <= Latency[1]
        <5> HIDE DEF Greatest, S
        <5>1. 1 \in Source
          BY <1>1
        <5>2. Latency[1] \in Nat
          BY <1>1, <5>1
        <5> QED
          BY <5>2
      <4> QED
        BY <4>1, <4>2
    <3> QED
      BY <2>3, <3>1
  <2>5. Greatest(n - 1)
    BY <1>1, <2>3, <2>4
  <2>6. PICK m \in 1..(n - 1) : \A k \in 1..(n - 1) : Latency[k] <= Latency[m]
    BY <2>5
  <2>7. \A k \in 1..n : k = n \/ k \in 1..(n - 1)
    BY <1>1, <2>3
  <2>8. m \in 1..n /\ n \in 1..n /\ m \in Source /\ n \in Source /\ \A k \in 1..n : k \in Source
    BY <1>1, <2>3, <2>6
  <2>9. CASE Latency[n] <= Latency[m]
    BY <2>3, <2>6, <2>7, <2>8, <2>9
  <2>10. CASE Latency[m] <= Latency[n]
    <3>1. ASSUME NEW k \in 1..n PROVE Latency[k] <= Latency[n]
      <4>1. Latency[k] \in Nat /\ Latency[m] \in Nat /\ Latency[n] \in Nat
        BY <1>1, <2>8
      <4>2. Latency[k] <= Latency[n]
        <5>1. CASE k = n
          BY <4>1, <5>1
        <5>2. CASE k \in 1..(n - 1)
          BY <2>6, <2>10, <4>1, <5>2
        <5> QED
          BY <2>7, <5>1, <5>2
      <4> QED
        BY <4>2
    <3> QED
      BY <2>3, <2>8, <3>1
  <2>11. Latency[m] \in Nat /\ Latency[n] \in Nat
    BY <1>1, <2>8
  <2> QED
    BY <2>9, <2>10, <2>11
<1>3. PICK m \in Source : \A k \in Source : Latency[k] <= Latency[m]
  <2>1. Dram \in 1..Dram
    BY <1>1
  <2>2. Greatest(Dram)
    BY <1>2, <2>1
  <2> QED
    BY <1>1, <2>2
<1>4. Latency[m] \in Latencies /\ \A k \in Latencies : k <= Latency[m]
  BY <1>3 DEF Latencies
<1>5. MaxLatency \in Latencies /\ \A k \in Latencies : k <= MaxLatency
  BY <1>4 DEF MaxLatency
<1> QED
  BY <1>1, <1>5 DEF Latencies

\* The sums over 1..t, for every t up to N.
Sums(g, N, f) == f = [t \in 0..N |-> IF t = 0 THEN 0 ELSE g[t] + f[t - 1]]

LEMMA SumsExist ==
    ASSUME NEW N \in Nat, NEW g \in [1..N -> Nat]
    PROVE  \E f \in [0..N -> Nat] : Sums(g, N, f)
<1> DEFINE P(n) == \E f \in [0..n -> Nat] : Sums(g, n, f)
           S == {n \in 0..N : ~P(n)}
<1>1. S = {}
  <2> SUFFICES ASSUME S # {} PROVE FALSE
    OBVIOUS
  <2>1. PICK n \in S : n \in 0..N /\ n - 1 \notin S
    <3>1. S \subseteq 0..N
      OBVIOUS
    <3> HIDE DEF S
    <3> QED
      BY <3>1, FirstFailure
  <2>2. n \in 0..N /\ ~P(n) /\ n - 1 \notin S
    BY <2>1
  <2>3. CASE n = 0
    <3> DEFINE f == [t \in 0..0 |-> 0]
    <3>1. \A t \in 0..0 : t = 0
      OBVIOUS
    <3>2. f \in [0..0 -> Nat]
      OBVIOUS
    <3>3. Sums(g, 0, f)
      BY <3>1 DEF Sums
    <3> QED
      BY <2>2, <2>3, <3>2, <3>3
  <2>4. CASE n # 0
    <3>1. n - 1 \in 0..N /\ P(n - 1)
      BY <2>2, <2>4
    <3>2. PICK f \in [0..(n - 1) -> Nat] : Sums(g, n - 1, f)
      BY <3>1
    <3> DEFINE h == [t \in 0..n |-> IF t = n THEN g[n] + f[n - 1] ELSE f[t]]
    <3>3. \A t \in 0..(n - 1) : f[t] = IF t = 0 THEN 0 ELSE g[t] + f[t - 1]
      BY <3>2 DEF Sums
    <3>4. h \in [0..n -> Nat]
      BY <2>2, <2>4
    <3>5. \A t \in 0..n : h[t] = IF t = 0 THEN 0 ELSE g[t] + h[t - 1]
      <4> SUFFICES ASSUME NEW t \in 0..n PROVE h[t] = IF t = 0 THEN 0 ELSE g[t] + h[t - 1]
        OBVIOUS
      <4>1. CASE t = n
        BY <2>2, <2>4, <4>1
      <4>2. CASE t # n
        <5>1. t \in 0..(n - 1) /\ (t # 0 => t - 1 \in 0..n /\ t - 1 # n)
          BY <2>2, <4>2
        <5> QED
          BY <3>3, <4>2, <5>1
      <4> QED
        BY <4>1, <4>2
    <3>6. Sums(g, n, h)
      <4>1. h = [t \in 0..n |-> h[t]]
        OBVIOUS
      <4> HIDE DEF h
      <4> QED
        BY <3>5, <4>1 DEF Sums
    <3> QED
      BY <2>2, <3>4, <3>6
  <2> QED
    BY <2>3, <2>4
<1>2. N \in 0..N
  OBVIOUS
<1> QED
  BY <1>1, <1>2

\* What the recursive function of InFlight computes.
Total(g) ==
    (CHOOSE upTo : upTo = [t \in 0..MaxLatency |->
                              IF t = 0 THEN 0 ELSE g[t] + upTo[t - 1]])[MaxLatency]
Slots == [1..MaxLatency -> Nat]
LEMMA InFlightIsTotal ==
    ASSUME NEW l
    PROVE  InFlight(l) = Total(outstanding[l]) /\ InFlight(l)' = Total(outstanding'[l])
BY DEF InFlight, Total

LEMMA TotalIsSum ==
    ASSUME NEW g \in Slots
    PROVE  \E f : Sums(g, MaxLatency, f) /\ Total(g) = f[MaxLatency]
<1>1. \E f : Sums(g, MaxLatency, f)
  BY SumsExist, LatencyNumbers DEF Slots
<1> QED
  BY <1>1 DEF Total, Sums

LEMMA SumsStep ==
    ASSUME NEW N \in Nat, NEW g, NEW f, Sums(g, N, f)
    PROVE  f[0] = 0 /\ \A t \in 1..N : t - 1 \in 0..N /\ f[t] = g[t] + f[t - 1]
<1>1. \A t \in 0..N : f[t] = IF t = 0 THEN 0 ELSE g[t] + f[t - 1]
  BY DEF Sums
<1> QED
  BY <1>1

\* A slot more adds one; when a tick passes, the slots due then are gone.
Adds(g, h, k, N) == \A t \in 1..N : h[t] = IF t = k THEN g[t] + 1 ELSE g[t]
Shifts(g, h, N) == \A t \in 1..N : h[t] = IF t = N THEN 0 ELSE g[t + 1]
LEMMA SumsCompare ==
    ASSUME NEW N \in Nat, NEW g \in [1..N -> Nat], NEW h \in [1..N -> Nat],
           NEW f, NEW e, Sums(g, N, f), Sums(h, N, e)
    PROVE  /\ \A t \in 0..N : f[t] \in Nat /\ e[t] \in Nat
           /\ \A k \in 1..N : Adds(g, h, k, N) => e[N] = f[N] + 1
           /\ N # 0 /\ Shifts(g, h, N) => e[N] = f[N] - g[1]
           /\ (\A t \in 1..N : g[t] = 0) => f[N] = 0
<1>1. f[0] = 0 /\ \A t \in 1..N : t - 1 \in 0..N /\ f[t] = g[t] + f[t - 1]
  BY ONLY N \in Nat, Sums(g, N, f), SumsStep
<1>2. e[0] = 0 /\ \A t \in 1..N : t - 1 \in 0..N /\ e[t] = h[t] + e[t - 1]
  BY ONLY N \in Nat, Sums(h, N, e), SumsStep
<1>3. \A t \in 0..N : f[t] \in Nat /\ e[t] \in Nat
  <2> DEFINE S == {t \in 0..N : ~(f[t] \in Nat /\ e[t] \in Nat)}
  <2> SUFFICES ASSUME S # {} PROVE FALSE
    OBVIOUS
  <2>1. PICK n \in S : n \in 0..N /\ n - 1 \notin S
    <3>1. S \subseteq 0..N
      OBVIOUS
    <3> HIDE DEF S
    <3> QED
      BY <3>1, FirstFailure
  <2>2. n # 0
    BY <1>1, <1>2
  <2>3. n \in 1..N /\ f[n - 1] \in Nat /\ e[n - 1] \in Nat
    BY <2>1, <2>2
  <2>4. f[n] = g[n] + f[n - 1] /\ e[n] = h[n] + e[n - 1]
    BY <1>1, <1>2, <2>3
  <2>5. g[n] \in Nat /\ h[n] \in Nat
    BY <2>3
  <2>6. f[n] \in Nat /\ e[n] \in Nat
    <3> HIDE DEF S
    <3>1. \A x, y \in Nat : x + y \in Nat
      OBVIOUS
    <3> QED
      BY <2>3, <2>4, <2>5, <3>1
  <2> QED
    BY <2>6
<1>5. ASSUME NEW k \in 1..N, Adds(g, h, k, N) PROVE e[N] = f[N] + 1
  <2> DEFINE S == {t \in 0..N : e[t] # f[t] + IF t >= k THEN 1 ELSE 0}
  <2>1. S = {}
    <3> SUFFICES ASSUME S # {} PROVE FALSE
      OBVIOUS
    <3>1. PICK n \in S : n \in 0..N /\ n - 1 \notin S
      <4>1. S \subseteq 0..N
        OBVIOUS
      <4> HIDE DEF S
      <4> QED
        BY <4>1, FirstFailure
    <3>2. n # 0
      BY <1>1, <1>2
    <3>3. n \in 1..N /\ e[n - 1] = f[n - 1] + IF n - 1 >= k THEN 1 ELSE 0
      BY <3>1, <3>2
    <3>4. f[n] = g[n] + f[n - 1] /\ e[n] = h[n] + e[n - 1] /\ f[n - 1] \in Nat /\ g[n] \in Nat
      BY <1>1, <1>2, <1>3, <3>3
    <3>5. h[n] = IF n = k THEN g[n] + 1 ELSE g[n]
      BY <1>5, <3>3 DEF Adds
    <3>6. e[n] = f[n] + IF n >= k THEN 1 ELSE 0
      <4>1. k \in Nat /\ n \in Nat
        OBVIOUS
      <4>2. CASE n < k
        BY <3>3, <3>4, <3>5, <4>1, <4>2
      <4>3. CASE n = k
        BY <3>3, <3>4, <3>5, <4>1, <4>3
      <4>4. CASE n > k
        BY <3>3, <3>4, <3>5, <4>1, <4>4
      <4> QED
        BY <4>1, <4>2, <4>3, <4>4
    <3> QED
      BY <3>6
  <2> QED
    BY <2>1
<1>6. ASSUME N # 0, Shifts(g, h, N) PROVE  e[N] = f[N] - g[1]
  <2> DEFINE M == N - 1
             S == {t \in 0..M : e[t] # f[t + 1] - g[1]}
  <2>0. M \in Nat /\ \A t \in 0..M : t \in 0..N /\ t + 1 \in 1..N
    BY <1>6
  <2>1. S = {}
    <3> SUFFICES ASSUME S # {} PROVE FALSE
      OBVIOUS
    <3>1. PICK n \in S : n \in 0..M /\ n - 1 \notin S
      <4>1. S \subseteq 0..M
        OBVIOUS
      <4> HIDE DEF S, M
      <4> QED
        BY <2>0, <4>1, FirstFailure
    <3>2. n # 0
      BY <1>1, <1>2, <1>3, <2>0
    <3>3. n \in 1..M /\ e[n - 1] = f[n] - g[1]
      BY <2>0, <3>1, <3>2
    <3>4. /\ f[n + 1] = g[n + 1] + f[n] /\ e[n] = h[n] + e[n - 1]
          /\ f[n] \in Nat /\ g[n + 1] \in Nat /\ g[1] \in Nat
      <4>1. n \in 1..N /\ n + 1 \in 1..N /\ 1 \in 1..N /\ n \in 0..N /\ (n + 1) - 1 = n
        BY <2>0, <3>3
      <4> QED
        BY <1>1, <1>2, <1>3, <4>1
    <3>5. h[n] = g[n + 1]
      BY <1>6, <2>0, <3>3 DEF Shifts
    <3>6. e[n] = f[n + 1] - g[1]
      <4> HIDE DEF S, M
      <4>1. e[n] = g[n + 1] + (f[n] - g[1])
        BY <3>3, <3>4, <3>5
      <4>2. \A x, y, z \in Nat : y + (x - z) = (y + x) - z
        OBVIOUS
      <4> QED
        BY <3>4, <4>1, <4>2
    <3> QED
      BY <3>6
  <2>2. e[M] = f[N] - g[1]
    <3>1. M \in 0..M /\ M + 1 = N
      BY <2>0
    <3>2. M \notin S
      BY <2>1
    <3> QED
      BY <3>1, <3>2
  <2>3. e[N] = h[N] + e[M] /\ h[N] = 0
    BY <1>2, <1>6 DEF Shifts
  <2> QED
    BY <1>3, <2>0, <2>2, <2>3
<1>7. ASSUME \A t \in 1..N : g[t] = 0 PROVE f[N] = 0
  <2> DEFINE S == {t \in 0..N : f[t] # 0}
  <2> SUFFICES ASSUME S # {} PROVE FALSE
    OBVIOUS
  <2>1. PICK n \in S : n \in 0..N /\ n - 1 \notin S
    <3>1. S \subseteq 0..N
      OBVIOUS
    <3> HIDE DEF S
    <3> QED
      BY <3>1, FirstFailure
  <2>2. n # 0
    BY <1>1
  <2>3. n \in 1..N /\ f[n - 1] = 0
    BY <2>1, <2>2
  <2> QED
    BY <1>1, <1>7, <2>3
<1> QED
  BY <1>3, <1>5, <1>6, <1>7

LEMMA Totals ==
    ASSUME NEW g \in Slots, NEW h \in Slots
    PROVE  /\ Total(g) \in Nat
           /\ \A k \in 1..MaxLatency : Adds(g, h, k, MaxLatency) => Total(h) = Total(g) + 1
           /\ Shifts(g, h, MaxLatency) => Total(h) = Total(g) - g[1]
           /\ (\A t \in 1..MaxLatency : g[t] = 0) => Total(g) = 0
<1> DEFINE n == MaxLatency
<1>1. n \in Nat /\ n # 0 /\ n \in 0..n
  BY LatencyNumbers
<1>2. PICK f : Sums(g, n, f) /\ Total(g) = f[n]
  BY TotalIsSum
<1>3. PICK e : Sums(h, n, e) /\ Total(h) = e[n]
  BY TotalIsSum
<1>4. g \in [1..n -> Nat] /\ h \in [1..n -> Nat]
  BY DEF Slots
<1> HIDE DEF n
<1>5. /\ \A t \in 0..n : f[t] \in Nat /\ e[t] \in Nat
      /\ \A k \in 1..n : Adds(g, h, k, n) => e[n] = f[n] + 1
      /\ n # 0 /\ Shifts(g, h, n) => e[n] = f[n] - g[1]
      /\ (\A t \in 1..n : g[t] = 0) => f[n] = 0
  BY <1>1, <1>2, <1>3, <1>4, SumsCompare
<1> QED
  BY <1>1, <1>2, <1>3, <1>5 DEF n

-----------------------------------------------------------------------------
(***************************************************************************)
(* The caches: no set holds more than its ways, and the order of the last  *)
(* touches is a strict total order, so that a full set has a line to       *)
(* evict.                                                                  *)
(***************************************************************************)
Ordered(order, content) ==
    /\ order \subseteq content \X content
    /\ \A x \in content : <<x, x>> \notin order
    /\ \A x, y \in content : x = y \/ (<<x, y>> \in order <=> <<y, x>> \notin order)
    /\ \A x, y, z \in content : <<x, y>> \in order /\ <<y, z>> \in order => <<x, z>> \in order
Fits(l, content) == \A x \in content : Cardinality(SetOf(l, x) \cap content) <= Ways[l]
Cached ==
    /\ resident \in [Level -> SUBSET Line] /\ DOMAIN newer = Level
    /\ \A l \in Level : Ordered(newer[l], resident[l]) /\ Fits(l, resident[l])

LEMMA LeastRecent ==
    ASSUME NEW order, NEW content, Ordered(order, content),
           NEW S, S \subseteq content, S # {}, IsFiniteSet(S)
    PROVE  \E y \in S : \A z \in S \ {y} : <<z, y>> \in order
<1> DEFINE Below(y) == {z \in S : <<y, z>> \in order}
           Sizes == {Cardinality(Below(y)) : y \in S}
<1>1. \A y \in S : IsFiniteSet(Below(y)) /\ Cardinality(Below(y)) \in Nat
  <2> SUFFICES ASSUME NEW y \in S
               PROVE  IsFiniteSet(Below(y)) /\ Cardinality(Below(y)) \in Nat
    OBVIOUS
  <2>1. Below(y) \subseteq S
    OBVIOUS
  <2> HIDE DEF Below
  <2> QED
    BY <2>1, FS_Subset, FS_CardinalityType
<1>2. PICK n \in Sizes : \A k \in Sizes : n <= k
  <2>1. Sizes \subseteq Nat /\ Sizes # {}
    BY <1>1
  <2> HIDE DEF Sizes
  <2> QED
    BY <2>1, LeastNumber
<1>3. PICK y \in S : n = Cardinality(Below(y))
  OBVIOUS
<1>4. Below(y) = {}
  <2> SUFFICES ASSUME NEW z \in Below(y) PROVE FALSE
    OBVIOUS
  <2>1. Below(z) \subseteq Below(y) /\ z \notin Below(z) /\ z \in S
    BY DEF Ordered
  <2>2. Cardinality(Below(z)) < Cardinality(Below(y))
    <3>1. IsFiniteSet(Below(y)) /\ IsFiniteSet(Below(z)) /\ Below(z) # Below(y)
      BY <1>1, <2>1
    <3> HIDE DEF Below
    <3> QED
      BY <1>1, <2>1, <3>1, FS_Subset
  <2>3. Cardinality(Below(z)) \in Sizes
    BY <2>1
  <2> HIDE DEF Sizes, Below
  <2> QED
    BY <1>1, <1>2, <1>3, <2>1, <2>2, <2>3
<1>5. \A z \in S \ {y} : <<z, y>> \in order
  BY <1>4 DEF Ordered
<1> QED
  BY <1>5

\* touch(x) keeps the order, whatever the other levels have evicted.
LEMMA MovedKeepsOrder ==
    ASSUME NEW l, Ordered(newer[l], resident[l]), NEW x, NEW content,
           content \subseteq resident[l] \cup {x}, x \in content
    PROVE  Ordered(MovedToEnd(l, x, content), content)
<1> DEFINE order == MovedToEnd(l, x, content)
<1>1. newer[l] \subseteq resident[l] \X resident[l]
  BY DEF Ordered
<1>2. order \subseteq content \X content
  BY <1>1 DEF MovedToEnd
<1>3. \A y, z \in content : <<y, z>> \in order <=> z # x /\ (y = x \/ <<y, z>> \in newer[l])
  BY DEF MovedToEnd
<1>4. \A y \in content : y # x => y \in resident[l]
  OBVIOUS
<1> HIDE DEF order
<1>5. \A y \in content : <<y, y>> \notin order
  BY <1>3, <1>4 DEF Ordered
<1>6. \A y, z \in content : y = z \/ (<<y, z>> \in order <=> <<z, y>> \notin order)
  BY <1>3, <1>4 DEF Ordered
<1>7. \A y, z, w \in content : <<y, z>> \in order /\ <<z, w>> \in order => <<y, w>> \in order
  BY <1>3, <1>4 DEF Ordered
<1> QED
  BY <1>2, <1>5, <1>6, <1>7 DEF Ordered, order

\* A hit moves the lines of the access to the end, in line order.
LEMMA TouchedKeepsOrder ==
    ASSUME Ordered(newer[1], resident[1]), NEW lines, lines \subseteq resident[1],
           lines \subseteq Nat
    PROVE  Ordered(Touched(lines, newer[1]), resident[1])
<1> DEFINE order == Touched(lines, newer[1])
           content == resident[1]
<1>1. newer[1] \subseteq content \X content
  BY DEF Ordered
<1>2. order \subseteq content \X content
  BY <1>1 DEF Touched
<1>3. \A y, z \in content : <<y, z>> \in order <=>
         \/ z \notin lines /\ (y \in lines \/ <<y, z>> \in newer[1])
         \/ z \in lines /\ y \in lines /\ y > z
  BY DEF Touched
<1> HIDE DEF order
<1>4. \A y \in content : <<y, y>> \notin order
  <2> SUFFICES ASSUME NEW y \in content PROVE <<y, y>> \notin order
    OBVIOUS
  <2>1. CASE y \in lines
    <3>1. y \in Nat /\ ~(y > y)
      <4>1. y \in Nat
        BY <2>1
      <4> HIDE DEF content
      <4> QED
        BY <4>1
    <3> QED
      BY <1>3, <2>1, <3>1
  <2>2. CASE y \notin lines
    BY <1>3, <2>2 DEF Ordered
  <2> QED
    BY <2>1, <2>2
<1>5. \A y, z \in content : y = z \/ (<<y, z>> \in order <=> <<z, y>> \notin order)
  <2> SUFFICES ASSUME NEW y \in content, NEW z \in content, y # z
               PROVE  <<y, z>> \in order <=> <<z, y>> \notin order
    OBVIOUS
  <2>1. y \in lines /\ z \in lines => (y > z <=> ~(z > y))
    OBVIOUS
  <2>2. <<y, z>> \in newer[1] <=> <<z, y>> \notin newer[1]
    BY DEF Ordered
  <2> QED
    BY <1>3, <2>1, <2>2
<1>6. \A y, z, w \in content : <<y, z>> \in order /\ <<z, w>> \in order => <<y, w>> \in order
  <2> SUFFICES ASSUME NEW y \in content, NEW z \in content, NEW w \in content,
                      <<y, z>> \in order, <<z, w>> \in order
               PROVE  <<y, w>> \in order
    OBVIOUS
  <2>1. <<y, z>> \in newer[1] /\ <<z, w>> \in newer[1] => <<y, w>> \in newer[1]
    BY DEF Ordered
  <2>2. y \in lines /\ z \in lines /\ w \in lines /\ y > z /\ z > w => y > w
    OBVIOUS
  <2> QED
    BY <1>3, <2>1, <2>2
<1> QED
  BY <1>2, <1>4, <1>5, <1>6 DEF Ordered, order

\* A fill leaves no set with more lines than ways, as the full set of an absent
\* line gives up its least recent one.
LEMMA FilledFits ==
    ASSUME Cached, NEW l \in Level, NEW x \in Line
    PROVE  /\ Filled(l, x) \subseteq resident[l] \cup {x} /\ x \in Filled(l, x)
           /\ Fits(l, Filled(l, x))
<1> DEFINE inSet == SetOf(l, x) \cap resident[l]
           content == Filled(l, x)
<1>0. /\ resident[l] \subseteq Line /\ Ordered(newer[l], resident[l]) /\ Fits(l, resident[l])
      /\ Ways[l] \in Nat \ {0} /\ l \in l..NumLevels
  BY GeometryAssumption, LevelsAreNumbers DEF Cached, Level
<1>1. content \subseteq resident[l] \cup {x}
  BY DEF Filled
<1>2. x \in content
  BY DEF Filled, Victim
<1>3. \A y \in Line : x \in SetOf(l, y) => SetOf(l, y) = SetOf(l, x)
  BY DEF SetOf
<1>4. \A y \in Line : IsFiniteSet(SetOf(l, y) \cap resident[l])
  <2> SUFFICES ASSUME NEW y \in Line PROVE IsFiniteSet(SetOf(l, y) \cap resident[l])
    OBVIOUS
  <2>1. SetOf(l, y) \cap resident[l] \subseteq Line
    BY DEF SetOf
  <2> QED
    BY <2>1, LineAssumption, FS_Subset
<1>5. \A y \in Line : Cardinality(SetOf(l, y) \cap resident[l]) \in Nat
  BY <1>4, FS_CardinalityType
<1>6. Cardinality(inSet) <= Ways[l]
  <2>1. CASE inSet = {}
    BY <1>0, <2>1, FS_EmptySet
  <2>2. CASE inSet # {}
    <3>1. PICK z \in resident[l] : z \in SetOf(l, x)
      BY <2>2
    <3>2. SetOf(l, z) = SetOf(l, x)
      BY <1>0, <3>1 DEF SetOf
    <3> QED
      BY <1>0, <3>1, <3>2 DEF Fits
  <2> QED
    BY <2>1, <2>2
<1>7. ASSUME NEW y \in content
      PROVE  Cardinality(SetOf(l, y) \cap content) <= Ways[l]
  <2>0. y \in Line
    BY <1>0, <1>1, <1>7
  <2>1. CASE SetOf(l, y) \cap content \subseteq resident[l]
    <3> DEFINE old == SetOf(l, y) \cap resident[l]
               new == SetOf(l, y) \cap content
    <3>1. new \subseteq old
      BY <2>1
    <3>2. Cardinality(old) <= Ways[l]
      <4>1. CASE y \in resident[l]
        BY <1>0, <4>1 DEF Fits
      <4>2. CASE y = x
        BY <1>6, <4>2
      <4> QED
        BY <1>1, <1>7, <4>1, <4>2
    <3>3. IsFiniteSet(old)
      BY <1>4, <2>0
    <3> HIDE DEF old, new
    <3>4. Cardinality(new) <= Cardinality(old) /\ IsFiniteSet(new)
      BY <3>1, <3>3, FS_Subset
    <3>5. Cardinality(new) \in Nat /\ Cardinality(old) \in Nat
      BY <3>3, <3>4, FS_CardinalityType
    <3>6. Cardinality(new) <= Ways[l]
      BY <1>0, <3>2, <3>4, <3>5
    <3> QED
      BY <3>6 DEF new
  <2>2. CASE ~(SetOf(l, y) \cap content \subseteq resident[l])
    <3>1. x \notin resident[l] /\ x \in SetOf(l, y)
      BY <1>1, <2>2
    <3>2. SetOf(l, y) = SetOf(l, x)
      BY <1>3, <2>0, <3>1
    <3>3. IsFiniteSet(inSet) /\ Cardinality(inSet) \in Nat /\ x \notin inSet
      BY <1>4, <1>5, <3>1
    <3>4. CASE Cardinality(inSet) < Ways[l]
      <4> DEFINE more == inSet \cup {x}
                 new == SetOf(l, y) \cap content
      <4>1. new \subseteq more
        BY <1>1, <3>2
      <4> HIDE DEF inSet, new
      <4>2. Cardinality(more) = Cardinality(inSet) + 1 /\ IsFiniteSet(more)
        BY <3>3, FS_AddElement
      <4> HIDE DEF more
      <4>3. Cardinality(new) <= Cardinality(more) /\ IsFiniteSet(new)
        BY <4>1, <4>2, FS_Subset
      <4>4. Cardinality(new) \in Nat
        BY <4>3, FS_CardinalityType
      <4>5. Cardinality(new) <= Ways[l]
        BY <1>0, <3>3, <3>4, <4>2, <4>3, <4>4
      <4> QED
        BY <4>5 DEF new
    <3>5. CASE Cardinality(inSet) = Ways[l]
      <4>1. inSet # {} /\ inSet \subseteq resident[l]
        BY <1>0, <3>5, FS_EmptySet
      <4>2. PICK v \in inSet : \A z \in inSet \ {v} : <<z, v>> \in newer[l]
        <5> HIDE DEF inSet
        <5> QED
          BY <1>0, <3>3, <4>1, LeastRecent
      <4>3. v \in Victim(l, x)
        BY <3>1, <3>5, <4>2 DEF Victim
      <4>4. v \notin content
        BY <1>0, <4>3 DEF Filled
      <4> DEFINE less == inSet \ {v}
                 more == less \cup {x}
                 new == SetOf(l, y) \cap content
      <4>5. new \subseteq more
        BY <1>1, <3>2, <4>4
      <4> HIDE DEF inSet, new
      <4>6. Cardinality(less) = Cardinality(inSet) - 1 /\ IsFiniteSet(less) /\ x \notin less
        BY <3>3, <4>2, FS_RemoveElement
      <4> HIDE DEF less
      <4>7. Cardinality(more) = Cardinality(less) + 1 /\ IsFiniteSet(more)
        BY <4>6, FS_AddElement
      <4> HIDE DEF more
      <4>8. Cardinality(new) <= Cardinality(more) /\ IsFiniteSet(new)
        BY <4>5, <4>7, FS_Subset
      <4>9. Cardinality(new) \in Nat
        BY <4>8, FS_CardinalityType
      <4>10. Cardinality(new) <= Ways[l]
        BY <1>0, <3>3, <3>5, <4>6, <4>7, <4>8, <4>9
      <4> QED
        BY <4>10 DEF new
    <3> HIDE DEF inSet
    <3> QED
      BY <1>0, <1>6, <3>3, <3>4, <3>5
  <2> QED
    BY <2>1, <2>2
<1> QED
  BY <1>1, <1>2, <1>7 DEF Fits

\* As the sets of a level refine those of the level before it, what fits in a
\* level fits in every later one.
LEMMA Remainder ==
    ASSUME NEW d \in Nat \ {0}, NEW m \in Nat \ {0}, m % d = 0, NEW n \in Nat
    PROVE  (n % m) % d = n % d
<1> DEFINE q == n \div m   r == n % m   k == m \div d   p == r \div d   s == r % d
<1>1. n = m * q + r /\ q \in Nat /\ r \in Nat
  OBVIOUS
<1>2. m = d * k /\ k \in Nat
  OBVIOUS
<1>3. r = d * p + s /\ p \in Nat /\ s \in 0..(d - 1)
  BY <1>1
<1> HIDE DEF q, r, k, p, s
<1>4. n = d * (k * q + p) + s /\ k * q + p \in Nat
  BY <1>1, <1>2, <1>3
<1> DEFINE t == k * q + p
<1>5. t \in Nat /\ n = d * t + s
  BY <1>4
<1> HIDE DEF t
<1>6. n % d = s
  BY <1>3, <1>5
<1> QED
  BY <1>6 DEF s, r

LEMMA FitsFurther ==
    ASSUME NEW l \in Level, l < NumLevels, NEW lines, lines \subseteq Line, CanHold(l, lines)
    PROVE  CanHold(l + 1, lines)
<1>1. /\ l + 1 \in Level /\ Sets[l] \in Nat \ {0} /\ Sets[l + 1] \in Nat \ {0}
      /\ Sets[l + 1] % Sets[l] = 0 /\ Ways[l] <= Ways[l + 1]
      /\ Ways[l] \in Nat /\ Ways[l + 1] \in Nat
  BY GeometryAssumption, LevelsAreNumbers DEF Level
<1> SUFFICES ASSUME NEW x \in lines
             PROVE  Cardinality(SetOf(l + 1, x) \cap lines) <= Ways[l + 1]
  BY DEF CanHold
<1>2. SetOf(l + 1, x) \subseteq SetOf(l, x)
  <2> SUFFICES ASSUME NEW y \in Line, y % Sets[l + 1] = x % Sets[l + 1]
               PROVE  y % Sets[l] = x % Sets[l]
    BY DEF SetOf
  <2>1. x \in Nat /\ y \in Nat
    BY LineAssumption
  <2>2. (x % Sets[l + 1]) % Sets[l] = x % Sets[l]
    BY <1>1, <2>1, Remainder
  <2>3. (y % Sets[l + 1]) % Sets[l] = y % Sets[l]
    BY <1>1, <2>1, Remainder
  <2> QED
    BY <2>2, <2>3
<1> DEFINE near == SetOf(l, x) \cap lines
           far == SetOf(l + 1, x) \cap lines
<1>3. far \subseteq near /\ near \subseteq Line
  BY <1>2
<1>4. Cardinality(near) <= Ways[l]
  BY DEF CanHold
<1> HIDE DEF near, far
<1>5. IsFiniteSet(near) /\ IsFiniteSet(far) /\ Cardinality(far) <= Cardinality(near)
  BY <1>3, LineAssumption, FS_Subset
<1>6. Cardinality(near) \in Nat /\ Cardinality(far) \in Nat
  BY <1>5, FS_CardinalityType
<1>7. Cardinality(far) <= Ways[l + 1]
  BY <1>1, <1>4, <1>5, <1>6
<1> QED
  BY <1>7 DEF far

LEMMA FitsFrom ==
    ASSUME NEW first \in Level, NEW lines, lines \subseteq Line, CanHold(first, lines)
    PROVE  \A l \in first..NumLevels : CanHold(l, lines)
<1> DEFINE S == {n \in 0..(NumLevels - first) : ~CanHold(first + n, lines)}
<1>0. first \in Nat /\ NumLevels \in Nat /\ first <= NumLevels /\ 1 <= first
  BY LevelsAreNumbers DEF Level
<1>1. S = {}
  <2> SUFFICES ASSUME S # {} PROVE FALSE
    OBVIOUS
  <2>1. PICK n \in S : n \in 0..(NumLevels - first) /\ n - 1 \notin S
    <3>1. S \subseteq 0..(NumLevels - first) /\ NumLevels - first \in Nat
      BY <1>0
    <3> HIDE DEF S
    <3> QED
      BY <3>1, FirstFailure
  <2>2. n # 0
    <3>1. first + 0 = first
      BY <1>0
    <3> QED
      BY <3>1
  <2>3. n - 1 \in 0..(NumLevels - first) /\ CanHold(first + (n - 1), lines)
    BY <1>0, <2>1, <2>2
  <2>4. first + (n - 1) \in Level /\ first + (n - 1) < NumLevels
        /\ (first + (n - 1)) + 1 = first + n
    BY <1>0, <2>1, <2>2 DEF Level
  <2>5. CanHold(first + n, lines)
    BY <2>3, <2>4, FitsFurther
  <2> QED
    BY <2>1, <2>5
<1> SUFFICES ASSUME NEW l \in first..NumLevels PROVE CanHold(l, lines)
  OBVIOUS
<1>2. l - first \in 0..(NumLevels - first) /\ first + (l - first) = l
  BY <1>0
<1> QED
  BY <1>1, <1>2

LEMMA NearestHolds ==
    ASSUME \E l \in Level : CanHold(l, WorkingSet)
    PROVE  Nearest \in Level /\ CanHold(Nearest, WorkingSet)
<1> DEFINE S == {k \in Level : CanHold(k, WorkingSet)}
<1>1. S \subseteq Nat /\ S # {}
  BY LevelsAreNumbers
<1>2. PICK n \in S : \A k \in S : n <= k
  BY <1>1, LeastNumber
<1>3. n \in Level /\ CanHold(n, WorkingSet)
      /\ \A k \in 1..(n - 1) : ~CanHold(k, WorkingSet)
  BY <1>2, LevelsAreNumbers DEF Level
<1> QED
  BY <1>3 DEF Nearest

\* The lines of a cache that is filled in advance were touched in line order.
LEMMA LineOrder ==
    ASSUME NEW content, content \subseteq Nat
    PROVE  Ordered({p \in content \X content : p[1] > p[2]}, content)
<1> DEFINE order == {p \in content \X content : p[1] > p[2]}
<1>1. order \subseteq content \X content
  OBVIOUS
<1>2. \A y, z \in content : <<y, z>> \in order <=> y > z
  OBVIOUS
<1> HIDE DEF order
<1>3. \A y \in content : y \in Nat
  OBVIOUS
<1>4. /\ \A y \in Nat : ~(y > y)
      /\ \A y, z \in Nat : y = z \/ (y > z <=> ~(z > y))
      /\ \A y, z, w \in Nat : y > z /\ z > w => y > w
  OBVIOUS
<1>5. \A y \in content : <<y, y>> \notin order
  BY <1>2, <1>3, <1>4
<1>6. \A y, z \in content : y = z \/ (<<y, z>> \in order <=> <<z, y>> \notin order)
  BY <1>2, <1>3, <1>4
<1>7. \A y, z, w \in content : <<y, z>> \in order /\ <<z, w>> \in order => <<y, w>> \in order
  BY <1>2, <1>3, <1>4
<1> QED
  BY <1>1, <1>5, <1>6, <1>7 DEF Ordered, order

LEMMA InitCached == Init => Cached
<1> SUFFICES ASSUME Init PROVE Cached
  OBVIOUS
<1>1. WorkingSet \subseteq Line
  BY RequestAssumption DEF WorkingSet, Init
<1>2. /\ resident \in [Level -> SUBSET Line]
      /\ \A l \in Level : resident[l] = {} \/ (resident[l] = WorkingSet /\ CanHold(l, WorkingSet))
  <2>1. CASE resident = [l \in Level |-> {}]
    BY <2>1
  <2>2. CASE CanHold(1, WorkingSet) /\ resident = [l \in Level |-> WorkingSet]
    <3>1. 1 \in Level
      BY LineAssumption DEF Level
    <3>2. \A l \in 1..NumLevels : CanHold(l, WorkingSet)
      BY <1>1, <2>2, <3>1, FitsFrom
    <3> QED
      BY <1>1, <2>2, <3>2 DEF Level
  <2>3. CASE /\ \E l \in Level : CanHold(l, WorkingSet)
             /\ resident = [l \in Level |-> Holds(Nearest, l)]
    <3>1. Nearest \in Level /\ CanHold(Nearest, WorkingSet)
      BY <2>3, NearestHolds
    <3>2. \A l \in Nearest..NumLevels : CanHold(l, WorkingSet)
      BY <1>1, <3>1, FitsFrom
    <3>3. \A l \in Level : l >= Nearest => l \in Nearest..NumLevels
      BY <3>1, LevelsAreNumbers DEF Level
    <3> QED
      BY <1>1, <2>3, <3>2, <3>3 DEF Holds
  <2> QED
    BY <2>1, <2>2, <2>3 DEF Init
<1>3. newer = [l \in Level |-> {p \in resident[l] \X resident[l] : p[1] > p[2]}]
  BY DEF Init
<1>4. ASSUME NEW l \in Level PROVE Ordered(newer[l], resident[l]) /\ Fits(l, resident[l])
  <2>1. resident[l] \subseteq Nat
    BY <1>2, LineAssumption
  <2>2. Ordered(newer[l], resident[l])
    BY <1>3, <2>1, LineOrder
  <2>3. Fits(l, resident[l])
    BY <1>2 DEF Fits, CanHold
  <2> QED
    BY <2>2, <2>3
<1> QED
  BY <1>2, <1>3, <1>4 DEF Cached

LEMMA HitsAreResident ==
    ASSUME Stock, NEW r \in trace, ~Merges(r), Farthest(r) = 1
    PROVE  r.lines \subseteq resident[1] /\ r.lines \subseteq Line
<1>1. r.lines \subseteq Line /\ r.lines # {}
  BY RequestAssumption DEF Stock
<1>2. \A x \in r.lines : LevelOf(x) \in Source /\ x \notin pending
  BY <1>1, LevelOfIsLevel DEF Merges
<1>3. \A x \in r.lines : LevelOf(x) <= 1
  <2>1. \E s \in Source : /\ \E x \in r.lines : LevelOf(x) = s
                         /\ \A x \in r.lines : LevelOf(x) <= s
    BY FarthestWitness
  <2> QED
    BY <2>1 DEF Farthest
<1>4. ASSUME NEW x \in r.lines PROVE x \in resident[1]
  <2>1. LevelOf(x) = 1 /\ Dram # 1
    <3>1. LevelOf(x) \in Nat \ {0}
      BY <1>2, LevelsAreNumbers DEF Source
    <3>2. Dram # 1
      BY LineAssumption DEF Dram
    <3> QED
      BY <1>3, <3>1, <3>2
  <2>2. LevelOf(x) = Dram \/ x \in resident[LevelOf(x)]
    BY <1>1, <1>2, LevelOfResident
  <2> QED
    BY <2>1, <2>2
<1> QED
  BY <1>1, <1>4

LEMMA StepCached == Stock /\ Cached /\ [Next]_vars => Cached'
<1> SUFFICES ASSUME Stock, Cached, [Next]_vars PROVE Cached'
  OBVIOUS
<1>0. resident \in [Level -> SUBSET Line] /\ DOMAIN newer = Level
  BY DEF Cached
<1>1. ASSUME NEW x \in Line, Fill(x) PROVE Cached'
  <2>1. resident' = [l \in Level |-> Filled(l, x)]
    BY <1>1 DEF Fill, Refilled
  <2>2. newer' = [l \in Level |-> MovedToEnd(l, x, resident'[l])]
    BY <1>1 DEF Fill, Refilled
  <2>3. ASSUME NEW l \in Level
        PROVE  /\ Filled(l, x) \in SUBSET Line
               /\ Ordered(MovedToEnd(l, x, Filled(l, x)), Filled(l, x))
               /\ Fits(l, Filled(l, x))
    <3>1. /\ Filled(l, x) \subseteq resident[l] \cup {x} /\ x \in Filled(l, x)
          /\ Fits(l, Filled(l, x))
      BY FilledFits
    <3>2. resident[l] \subseteq Line /\ Ordered(newer[l], resident[l])
      BY DEF Cached
    <3>3. Ordered(MovedToEnd(l, x, Filled(l, x)), Filled(l, x))
      BY <3>1, <3>2, MovedKeepsOrder
    <3> QED
      BY <3>1, <3>2, <3>3
  <2>4. \A l \in Level : Ordered(newer'[l], resident'[l]) /\ Fits(l, resident'[l])
    BY <2>1, <2>2, <2>3
  <2> QED
    BY <2>1, <2>2, <2>3, <2>4 DEF Cached, Fits, SetOf
<1>2. CASE Hit
  <2>1. asked \in trace /\ ~Merges(asked) /\ Farthest(asked) = 1
    BY <1>2 DEF Hit, Answering, Stock
  <2>2. asked.lines \subseteq resident[1] /\ asked.lines \subseteq Nat /\ 1 \in Level
    <3>1. asked.lines \subseteq resident[1] /\ asked.lines \subseteq Line
      BY <2>1, HitsAreResident
    <3>2. asked.lines \subseteq Nat
      BY <3>1, LineAssumption
    <3>3. 1 \in Level
      BY LineAssumption DEF Level
    <3> QED
      BY <3>1, <3>2, <3>3
  <2>3. Ordered(newer[1], resident[1])
    BY <2>2 DEF Cached
  <2>4. Ordered(Touched(asked.lines, newer[1]), resident[1])
    BY <2>2, <2>3, TouchedKeepsOrder
  <2>5. /\ resident' = resident /\ DOMAIN newer' = Level
        /\ \A l \in Level : newer'[l] = IF l = 1 THEN Touched(asked.lines, newer[1]) ELSE newer[l]
    BY <1>0, <1>2 DEF Hit
  <2>6. \A l \in Level : Ordered(newer'[l], resident[l]) /\ Fits(l, resident[l])
    BY <2>4, <2>5 DEF Cached
  <2> QED
    BY <1>0, <2>5, <2>6 DEF Cached, Fits, SetOf
<1>3. CASE UNCHANGED caches
  BY <1>3 DEF Cached, caches, Fits, SetOf
<1>4. ASSUME NEW r \in trace, Ask(r) PROVE UNCHANGED caches
  BY <1>4 DEF Ask
<1>5. CASE Decline \/ Merge \/ Fetch \/ Tick
  BY <1>3, <1>5 DEF Decline, Merge, Fetch, Tick
<1>6. CASE UNCHANGED vars
  BY <1>3, <1>6 DEF vars
<1> QED
  BY <1>1, <1>2, <1>3, <1>4, <1>5, <1>6 DEF Next

-----------------------------------------------------------------------------
(***************************************************************************)
(* The misses under way.                                                   *)
(***************************************************************************)
Misses ==
    /\ answer \in 0..MaxLatency
    /\ remaining \in [Line -> 0..MaxLatency]
    /\ outstanding \in [Source -> Slots]
    /\ busy \in [Source -> [Direction -> Nat]]
    /\ \A l \in Source : Total(outstanding[l]) <= Limit[l]
    /\ SlotsMatchFills
MInv == Stock /\ Cached /\ Misses

LEMMA InvariantIsExact == MInv => MissesExact
<1> SUFFICES ASSUME MInv PROVE MissesExact
  OBVIOUS
<1>1. TypeOK
  <2>1. /\ trace \in Traces /\ asked \in trace \cup {NoRequest} /\ answer \in 0..MaxLatency
        /\ resident \in [Level -> SUBSET Line] /\ pending \in SUBSET Line
        /\ remaining \in [Line -> 0..MaxLatency] /\ source \in [Line -> Source]
        /\ outstanding \in [Source -> [1..MaxLatency -> Nat]]
        /\ busy \in [Source -> [Direction -> Nat]]
    BY DEF MInv, Stock, Cached, Misses, Slots
  <2>2. ASSUME NEW l \in Level
        PROVE  /\ \A x \in resident[l] : Cardinality(SetOf(l, x) \cap resident[l]) <= Ways[l]
               /\ newer[l] \subseteq resident[l] \X resident[l]
               /\ \A x, y \in resident[l] :
                     x = y \/ (<<x, y>> \in newer[l] <=> <<y, x>> \notin newer[l])
    BY DEF MInv, Cached, Ordered, Fits
  <2> QED
    BY <2>1, <2>2 DEF TypeOK
<1>2. OutstandingBounded
  BY InFlightIsTotal DEF MInv, Misses, OutstandingBounded
<1> QED
  BY <1>1, <1>2 DEF MissesExact, MInv, Misses

LEMMA CeilingIsNumber ==
    ASSUME NEW n \in Nat, NEW d \in Nat \ {0}
    PROVE  CeilingOf(n, d) \in Nat
<1>1. n + d - 1 \in Nat
  OBVIOUS
<1> QED
  BY <1>1 DEF CeilingOf

LEMMA TransferIsTyped ==
    ASSUME Stock, busy \in [Source -> [Direction -> Nat]], NEW r \in trace
    PROVE  Transfer(r) \in [Source -> [Direction -> Nat]]
<1> DEFINE s == Farthest(r)
           n == CeilingOf(r.bytes * TicksPerCycle, Bandwidth[s][r.direction])
<1>1. s \in Source /\ r.direction \in Direction /\ r.bytes \in Nat /\ TicksPerCycle \in Nat
  BY FarthestIsLevel, RequestAssumption, LatencyAssumption DEF Stock
<1>2. Bandwidth[s][r.direction] \in Nat \ {0} /\ r.bytes * TicksPerCycle \in Nat
  BY <1>1, LatencyAssumption
<1>3. n \in Nat
  BY <1>2, CeilingIsNumber
<1>4. Transfer(r) = [busy EXCEPT ![s][r.direction] = n]
  BY DEF Transfer
<1> HIDE DEF s, n
<1> QED
  BY <1>1, <1>3, <1>4

LEMMA InitMisses == Init => Misses
<1> SUFFICES ASSUME Init PROVE Misses
  OBVIOUS
<1>1. MaxLatency \in Nat
  BY LatencyNumbers
<1>2. /\ answer = 0 /\ pending = {} /\ remaining = [x \in Line |-> 0]
      /\ outstanding = [l \in Source |-> [t \in 1..MaxLatency |-> 0]]
      /\ busy = [l \in Source |-> [d \in Direction |-> 0]]
  BY DEF Init
<1>3. outstanding \in [Source -> Slots]
  BY <1>2 DEF Slots
<1>4. ASSUME NEW l \in Source PROVE Total(outstanding[l]) <= Limit[l]
  <2>1. outstanding[l] \in Slots /\ \A t \in 1..MaxLatency : outstanding[l][t] = 0
    BY <1>2, <1>3
  <2>2. Total(outstanding[l]) = 0
    BY <2>1, Totals
  <2> QED
    BY <2>2, LatencyAssumption
<1>5. SlotsMatchFills
  BY <1>2 DEF SlotsMatchFills
<1>6. remaining \in [Line -> 0..MaxLatency] /\ busy \in [Source -> [Direction -> Nat]]
  BY <1>1, <1>2
<1>7. answer \in 0..MaxLatency
  BY <1>1, <1>2
<1> QED
  BY <1>3, <1>4, <1>5, <1>6, <1>7 DEF Misses

LEMMA FillKeepsMisses ==
    ASSUME Stock, Misses, NEW x \in Line, Fill(x)
    PROVE  Misses'
<1>1. /\ pending' = pending \ {x} /\ remaining[x] = 0 /\ source' = [source EXCEPT ![x] = Dram]
      /\ UNCHANGED <<answer, remaining, outstanding, busy>>
  BY DEF Fill, Due
<1>2. \A y \in Line : y # x => source'[y] = source[y]
  BY <1>1 DEF Stock
<1>3. SlotsMatchFills'
  <2> SUFFICES ASSUME NEW l \in Source, NEW t \in 1..MaxLatency
               PROVE  outstanding'[l][t] > 0 <=>
                         \E y \in pending' : remaining'[y] = t /\ l \in MissPath(source'[y])
    BY DEF SlotsMatchFills, MissPath
  <2>1. outstanding[l][t] > 0 <=>
           \E y \in pending : remaining[y] = t /\ l \in MissPath(source[y])
    BY DEF Misses, SlotsMatchFills
  <2>2. t # 0
    OBVIOUS
  <2>3. \A y \in pending : y \in Line
    BY DEF Stock
  <2> QED
    BY <1>1, <1>2, <2>1, <2>2, <2>3
<1> QED
  BY <1>1, <1>3 DEF Misses

LEMMA TickKeepsMisses ==
    ASSUME Stock, Misses, Tick
    PROVE  Misses'
<1>0. MaxLatency \in Nat \ {0}
  BY LatencyNumbers
<1>1. /\ answer' = 0 /\ remaining' = [x \in Line |-> Less(remaining[x])]
      /\ outstanding' = [l \in Source |-> [t \in 1..MaxLatency |->
                            IF t = MaxLatency THEN 0 ELSE outstanding[l][t + 1]]]
      /\ busy' = [l \in Source |-> [d \in Direction |-> Less(busy[l][d])]]
      /\ pending' = pending /\ source' = source
  BY DEF Tick
<1>2. \A n \in Nat : Less(n) \in Nat /\ (n > 0 => Less(n) = n - 1) /\ Less(n) <= n
  BY DEF Less
<1>3. remaining' \in [Line -> 0..MaxLatency] /\ busy' \in [Source -> [Direction -> Nat]]
  <2>1. \A x \in Line : remaining[x] \in 0..MaxLatency
    BY DEF Misses
  <2>2. \A x \in Line : Less(remaining[x]) \in 0..MaxLatency
    BY <1>0, <1>2, <2>1
  <2>3. \A l \in Source, d \in Direction : busy[l][d] \in Nat
    BY DEF Misses
  <2>4. \A l \in Source, d \in Direction : Less(busy[l][d]) \in Nat
    BY <1>2, <2>3
  <2> QED
    BY <1>1, <2>2, <2>4
<1>4. ASSUME NEW l \in Source
      PROVE  outstanding[l] \in Slots /\ outstanding'[l] \in Slots
             /\ Shifts(outstanding[l], outstanding'[l], MaxLatency)
  <2>1. outstanding[l] \in [1..MaxLatency -> Nat]
    BY DEF Misses, Slots
  <2>2. \A t \in 1..MaxLatency : t = MaxLatency \/ t + 1 \in 1..MaxLatency
    BY <1>0
  <2>3. outstanding'[l] = [t \in 1..MaxLatency |->
                              IF t = MaxLatency THEN 0 ELSE outstanding[l][t + 1]]
    BY <1>1
  <2>4. \A t \in 1..MaxLatency : (IF t = MaxLatency THEN 0 ELSE outstanding[l][t + 1]) \in Nat
    BY <2>1, <2>2
  <2>5. outstanding'[l] \in Slots
    BY <2>3, <2>4 DEF Slots
  <2>6. outstanding[l] \in Slots
    BY <2>1 DEF Slots
  <2>7. Shifts(outstanding[l], outstanding'[l], MaxLatency)
    BY <2>3 DEF Shifts
  <2> QED
    BY <2>5, <2>6, <2>7
<1>5. outstanding' \in [Source -> Slots]
  BY <1>1, <1>4
<1>6. ASSUME NEW l \in Source PROVE Total(outstanding'[l]) <= Limit[l]
  <2>1. Total(outstanding'[l]) = Total(outstanding[l]) - outstanding[l][1]
    BY <1>4, Totals
  <2>2. Total(outstanding[l]) \in Nat /\ Total(outstanding[l]) <= Limit[l]
    BY <1>4, Totals DEF Misses
  <2>3. outstanding[l][1] \in Nat
    BY <1>0, <1>4 DEF Slots
  <2> QED
    BY <2>1, <2>2, <2>3, LatencyAssumption
<1>7. SlotsMatchFills'
  <2> SUFFICES ASSUME NEW l \in Source, NEW t \in 1..MaxLatency
               PROVE  outstanding'[l][t] > 0 <=>
                         \E x \in pending' : remaining'[x] = t /\ l \in MissPath(source'[x])
    BY DEF SlotsMatchFills, MissPath
  <2>1. \A x \in pending : x \in Line /\ remaining[x] \in 0..MaxLatency
    BY DEF Stock, Misses
  <2>2. \A x \in pending : remaining'[x] = t <=> remaining[x] = t + 1
    <3> SUFFICES ASSUME NEW x \in pending PROVE remaining'[x] = t <=> remaining[x] = t + 1
      OBVIOUS
    <3>1. remaining'[x] = Less(remaining[x]) /\ remaining[x] \in 0..MaxLatency
      BY <1>1, <2>1
    <3> QED
      BY <3>1 DEF Less
  <2>3. CASE t = MaxLatency
    <3>1. outstanding'[l][t] = 0 /\ \A x \in pending : remaining[x] # t + 1
      BY <1>0, <1>1, <2>1, <2>3
    <3>2. \A x \in pending' : remaining'[x] # t
      BY <1>1, <2>2, <3>1
    <3> QED
      BY <3>1, <3>2
  <2>4. CASE t # MaxLatency
    <3>1. t + 1 \in 1..MaxLatency /\ outstanding'[l][t] = outstanding[l][t + 1]
      BY <1>0, <1>1, <2>4
    <3>2. outstanding[l][t + 1] > 0 <=>
             \E x \in pending : remaining[x] = t + 1 /\ l \in MissPath(source[x])
      BY <3>1 DEF Misses, SlotsMatchFills
    <3> QED
      BY <1>1, <2>2, <3>1, <3>2
  <2> QED
    BY <2>3, <2>4
<1>8. answer' \in 0..MaxLatency
  BY <1>0, <1>1
<1> QED
  BY <1>3, <1>5, <1>6, <1>7, <1>8 DEF Misses

\* A fetch takes a slot at every level it missed, and there is one.
LEMMA FetchKeepsMisses ==
    ASSUME Stock, Misses, Fetch
    PROVE  Misses'
<1> DEFINE from == Farthest(asked)
<1>0. MaxLatency \in Nat \ {0}
  BY LatencyNumbers
<1>1. asked \in trace /\ asked.lines \subseteq Line /\ asked.lines # {}
  BY RequestAssumption DEF Stock, Fetch, Answering
<1>2. from \in Source /\ Latency[from] \in 1..MaxLatency
  BY <1>1, FarthestIsLevel, LatencyNumbers
<1>3. MissPath(from) \subseteq Source
  BY <1>2, LevelsAreNumbers DEF MissPath, Source
<1>4. asked.lines \cap pending = {} /\ \A l \in MissPath(from) : ~(InFlight(l) >= Limit[l])
  BY DEF Fetch, Blocked, Merges, MissesFull
<1>5. /\ pending' = pending \cup asked.lines
      /\ remaining' = [x \in Line |-> IF x \in asked.lines THEN Latency[from] ELSE remaining[x]]
      /\ source' = [x \in Line |-> IF x \in asked.lines THEN from ELSE source[x]]
      /\ outstanding' = [l \in Source |-> IF l \in MissPath(from)
                            THEN [outstanding[l] EXCEPT ![Latency[from]] = @ + 1]
                            ELSE outstanding[l]]
      /\ busy' = Transfer(asked)
      /\ answer' = Latency[from]
  BY DEF Fetch
<1>6. busy' \in [Source -> [Direction -> Nat]]
  BY <1>1, <1>5, TransferIsTyped DEF Misses
<1> HIDE DEF from
<1>7. answer' \in 0..MaxLatency /\ remaining' \in [Line -> 0..MaxLatency]
  BY <1>0, <1>2, <1>5 DEF Misses
<1>8. ASSUME NEW l \in Source
      PROVE  /\ outstanding[l] \in Slots /\ outstanding'[l] \in Slots
             /\ IF l \in MissPath(from)
                THEN Adds(outstanding[l], outstanding'[l], Latency[from], MaxLatency)
                ELSE outstanding'[l] = outstanding[l]
  <2>1. outstanding[l] \in [1..MaxLatency -> Nat]
    BY DEF Misses, Slots
  <2>2. CASE l \in MissPath(from)
    <3>1. outstanding'[l] = [outstanding[l] EXCEPT ![Latency[from]] = outstanding[l][Latency[from]] + 1]
      BY <1>5, <2>2
    <3>2. outstanding[l][Latency[from]] + 1 \in Nat
      <4>1. \A t \in 1..MaxLatency : outstanding[l][t] \in Nat
        BY <2>1
      <4>2. outstanding[l][Latency[from]] \in Nat
        BY <1>2, <4>1
      <4> QED
        BY <4>2
    <3>3. outstanding'[l] \in Slots /\ outstanding[l] \in Slots
      BY <1>2, <2>1, <3>1, <3>2 DEF Slots
    <3>4. Adds(outstanding[l], outstanding'[l], Latency[from], MaxLatency)
      BY <1>2, <2>1, <3>1 DEF Adds
    <3> QED
      BY <2>2, <3>3, <3>4
  <2>3. CASE l \notin MissPath(from)
    BY <1>5, <2>1, <2>3 DEF Slots
  <2> QED
    BY <2>2, <2>3
<1>9. outstanding' \in [Source -> Slots]
  BY <1>5, <1>8
<1>10. ASSUME NEW l \in Source PROVE Total(outstanding'[l]) <= Limit[l]
  <2>1. Total(outstanding[l]) \in Nat /\ Total(outstanding[l]) <= Limit[l] /\ Limit[l] \in Nat
    BY <1>8, Totals, LatencyAssumption DEF Misses
  <2>2. CASE l \in MissPath(from)
    <3>1. Total(outstanding'[l]) = Total(outstanding[l]) + 1
      BY <1>2, <1>8, <2>2, Totals
    <3>2. ~(Total(outstanding[l]) >= Limit[l])
      BY <1>4, <2>2, InFlightIsTotal
    <3> QED
      BY <2>1, <3>1, <3>2
  <2>3. CASE l \notin MissPath(from)
    BY <1>8, <2>1, <2>3
  <2> QED
    BY <2>2, <2>3
<1>11. SlotsMatchFills'
  <2> SUFFICES ASSUME NEW l \in Source, NEW t \in 1..MaxLatency
               PROVE  outstanding'[l][t] > 0 <=>
                         \E x \in pending' : remaining'[x] = t /\ l \in MissPath(source'[x])
    BY DEF SlotsMatchFills, MissPath
  <2>1. outstanding[l][t] > 0 <=>
           \E x \in pending : remaining[x] = t /\ l \in MissPath(source[x])
    BY DEF Misses, SlotsMatchFills
  <2>2. \A x \in pending : x \in Line /\ remaining'[x] = remaining[x] /\ source'[x] = source[x]
    BY <1>4, <1>5 DEF Stock
  <2>3. \A x \in asked.lines : remaining'[x] = Latency[from] /\ source'[x] = from
    BY <1>1, <1>5
  <2>4. outstanding[l][t] \in Nat /\
        outstanding'[l][t] = outstanding[l][t] +
            (IF l \in MissPath(from) /\ t = Latency[from] THEN 1 ELSE 0)
    <3>1. outstanding[l][t] \in Nat
      BY <1>8 DEF Slots
    <3> QED
      BY <1>8, <3>1 DEF Adds
  <2>5. CASE l \in MissPath(from) /\ t = Latency[from]
    <3>1. outstanding'[l][t] > 0
      BY <2>4, <2>5
    <3>2. PICK x \in asked.lines : TRUE
      BY <1>1
    <3>3. x \in pending' /\ remaining'[x] = t /\ l \in MissPath(source'[x])
      BY <1>5, <2>3, <2>5
    <3> QED
      BY <3>1, <3>3
  <2>6. CASE ~(l \in MissPath(from) /\ t = Latency[from])
    <3>1. outstanding'[l][t] = outstanding[l][t]
      BY <2>4, <2>6
    <3>2. \A x \in asked.lines : ~(remaining'[x] = t /\ l \in MissPath(source'[x]))
      BY <2>3, <2>6
    <3> QED
      BY <1>5, <2>1, <2>2, <3>1, <3>2
  <2> QED
    BY <2>5, <2>6
<1> QED
  BY <1>6, <1>7, <1>9, <1>10, <1>11 DEF Misses

LEMMA StepMisses == Stock /\ Misses /\ [Next]_vars => Misses'
<1> SUFFICES ASSUME Stock, Misses, [Next]_vars PROVE Misses'
  OBVIOUS
<1>0. MaxLatency \in Nat \ {0}
  BY LatencyNumbers
<1>1. ASSUME answer' \in 0..MaxLatency, UNCHANGED <<fills, outstanding>>,
             busy' \in [Source -> [Direction -> Nat]]
      PROVE  Misses'
  BY <1>1 DEF Misses, fills, SlotsMatchFills, MissPath
<1>2. ASSUME NEW r \in trace, Ask(r) PROVE Misses'
  BY <1>0, <1>1, <1>2 DEF Ask, Misses
<1>3. ASSUME NEW x \in Line, Fill(x) PROVE Misses'
  BY <1>3, FillKeepsMisses
<1>4. CASE Decline
  BY <1>1, <1>4 DEF Decline, Misses
<1>5. CASE Merge
  <2>1. answer' \in {remaining[x] : x \in asked.lines \cap pending}
    BY <1>5 DEF Merge
  <2>2. answer' \in 0..MaxLatency
    BY <2>1 DEF Misses, Stock
  <2> QED
    BY <1>1, <1>5, <2>2 DEF Merge, Misses
<1>6. CASE Hit
  <2>1. asked \in trace
    BY <1>6 DEF Hit, Answering, Stock
  <2>2. busy' \in [Source -> [Direction -> Nat]]
    BY <1>6, <2>1, TransferIsTyped DEF Hit, Misses
  <2>3. 1 \in Source
    BY LineAssumption DEF Source, Dram
  <2>4. answer' \in 0..MaxLatency
    BY <1>0, <1>6, <2>3, LatencyNumbers DEF Hit
  <2> QED
    BY <1>1, <1>6, <2>2, <2>4 DEF Hit
<1>7. CASE Fetch
  BY <1>7, FetchKeepsMisses
<1>8. CASE Tick
  BY <1>8, TickKeepsMisses
<1>9. CASE UNCHANGED vars
  BY <1>1, <1>9 DEF vars, Misses
<1> QED
  BY <1>2, <1>3, <1>4, <1>5, <1>6, <1>7, <1>8, <1>9 DEF Next

LEMMA InvariantHolds == Spec => []MInv
<1>1. Init => MInv
  BY InitStock, InitCached, InitMisses DEF MInv
<1>2. MInv /\ [Next]_vars => MInv'
  <2>1. MInv <=> Stock /\ Cached /\ Misses
    BY DEF MInv
  <2>2. MInv' <=> Stock' /\ Cached' /\ Misses'
    BY DEF MInv
  <2> QED
    BY <2>1, <2>2, StepStock, StepCached, StepMisses
<1> QED
  BY <1>1, <1>2, PTL DEF Spec

\* Whatever is asked when: the caches keep to their ways, no level has more
\* misses under way than it can track, and a slot is held exactly as long as a
\* line that missed there is on its way.
THEOREM MissesExactHolds == Spec => []MissesExact
BY InvariantHolds, InvariantIsExact, PTL

-----------------------------------------------------------------------------
(***************************************************************************)
(* The event loop makes steps of the hierarchy only, so that what holds of *)
(* the hierarchy for every engine holds of it in the Zen 4 event loop.     *)
(***************************************************************************)
Bound == program \in Programs /\ Accesses(program) = trace

LEMMA BoundProgram ==
    ASSUME Bound
    PROVE  /\ Len(program) \in Nat /\ Uop = 1..Len(program)
           /\ \A u \in Uop : program[u].access \in trace
           /\ \A u \in Uop : program[u].dependencies \subseteq Uop
<1>1. program \in Seq([access : UNION Traces, dependencies : SUBSET Nat])
  BY ProgramsAssumption DEF Bound
<1>2. Len(program) \in Nat /\ DOMAIN program = 1..Len(program)
  BY <1>1
<1>3. \A u \in DOMAIN program : program[u].dependencies \subseteq 1..(u - 1)
  BY ProgramsAssumption DEF Bound
<1>4. \A u \in Uop : program[u].dependencies \subseteq Uop
  BY <1>2, <1>3 DEF Uop
<1> QED
  BY <1>2, <1>4 DEF Bound, Accesses, Uop

LEMMA LoopSteps ==
    ASSUME Bound, [ZNext]_zvars
    PROVE  [Next]_vars /\ Bound'
<1>1. ASSUME UNCHANGED memory PROVE UNCHANGED vars
  BY <1>1 DEF memory, vars
<1>2. ASSUME NEW u \in Uop, PassOver(u) PROVE [Next]_vars /\ program' = program /\ trace' = trace
  BY <1>1, <1>2 DEF PassOver, memory
<1>3. ASSUME NEW u \in Uop, Examine(u) PROVE [Next]_vars /\ program' = program /\ trace' = trace
  <2>1. program[u].access \in trace
    BY BoundProgram
  <2> QED
    BY <1>3, <2>1 DEF Examine, Next, Ask
<1>4. ASSUME NEW u \in Uop, Refuse(u) PROVE [Next]_vars /\ program' = program /\ trace' = trace
  BY <1>4 DEF Refuse, Next, Decline
<1>5. ASSUME NEW u \in Uop, Grant(u) PROVE [Next]_vars /\ program' = program /\ trace' = trace
  BY <1>5 DEF Grant, Next, Merge, Hit, Fetch
<1>6. ASSUME NEW x \in Line, Arrive(x) PROVE [Next]_vars /\ program' = program /\ trace' = trace
  BY <1>6 DEF Arrive, Next, Fill
<1>7. CASE ScanReturns \/ Advance
  BY <1>1, <1>7 DEF ScanReturns, Advance, memory, Bound
<1>8. CASE Elapse
  BY <1>8 DEF Elapse, Next, Tick, Bound
<1>9. CASE Stopped \/ UNCHANGED zvars
  BY <1>1, <1>9 DEF Stopped, zvars, memory, Bound
<1>10. ASSUME program' = program /\ trace' = trace PROVE Bound'
  BY <1>10 DEF Bound, Accesses
<1> QED
  BY <1>2, <1>3, <1>4, <1>5, <1>6, <1>7, <1>8, <1>9, <1>10 DEF ZNext

\* The loop of run() asks, retries and lets time pass as it likes: it is one of
\* the engines MemoryHierarchy is about.
THEOREM LoopUsesMemory == ZSpec => Spec
<1>1. ZInit => Init /\ Bound
  BY DEF ZInit, Bound
<1>2. Bound /\ [ZNext]_zvars => [Next]_vars /\ Bound'
  BY LoopSteps
<1> QED
  BY <1>1, <1>2, PTL DEF ZSpec, Spec

-----------------------------------------------------------------------------
(***************************************************************************)
(* Time jumps over no tick at which an access could be made.  The          *)
(* invariant follows an access from the moment it is refused: it is still  *)
(* refused when the round ends, and what refuses it, a busy level or a     *)
(* level all of whose slots are due later, lasts until the jump is over.   *)
(***************************************************************************)
Running ==
    /\ LoopTypeOK
    /\ (pc = "elapse" => left > 0) /\ (pc # "elapse" => left = 0)
    /\ pc # "scan" => candidates = {} /\ asked = NoRequest
    /\ asked # NoRequest => \E u \in candidates : Oldest(u) /\ program[u].access = asked
Settled ==
    pc = "advance" \/ (pc = "scan" /\ ~progress) =>
       \A u \in Waiting \ candidates, r \in trace :
          Ready(u) /\ program[u].access = r => Due = {} /\ Blocked(r)
HeldBack(r, n) ==
    /\ ~Merges(r)
    /\ \/ busy[Farthest(r)][r.direction] >= n
       \/ \E l \in MissPath(Farthest(r)) :
             InFlight(l) >= Limit[l] /\ \A t \in 1..MaxLatency : t < n => outstanding[l][t] = 0
Elapsing ==
    pc = "elapse" =>
       \A u \in Waiting, r \in trace, n \in 1..left :
          Ready(u) /\ program[u].access = r => HeldBack(r, n)
JInv == MInv /\ Bound /\ Running /\ Settled /\ Elapsing

LEMMA SoonestIsLeast ==
    ASSUME NEW S, S \subseteq Nat, S # {}
    PROVE  Soonest(S) \in S /\ \A s \in S : Soonest(S) <= s
<1>1. \E x \in S : \A y \in S : x <= y
  BY LeastNumber
<1> QED
  BY <1>1 DEF Soonest

LEMMA FarthestKept ==
    ASSUME NEW r, UNCHANGED <<pending, source, resident>>
    PROVE  Farthest(r)' = Farthest(r)
BY DEF Farthest, LevelOf

LEMMA BlockedKept ==
    ASSUME UNCHANGED <<caches, fills, outstanding, busy>>
    PROVE  Due' = Due /\ \A r : Blocked(r)' <=> Blocked(r)
<1>1. UNCHANGED <<pending, remaining, source, resident>>
  BY DEF caches, fills
<1>2. Due' = Due
  BY <1>1 DEF Due
<1>3. ASSUME NEW r PROVE Blocked(r)' <=> Blocked(r)
  <2>1. Farthest(r)' = Farthest(r)
    BY <1>1, FarthestKept
  <2>2. \A l : InFlight(l)' = InFlight(l)
    BY InFlightIsTotal
  <2> QED
    BY <1>1, <2>1, <2>2 DEF Blocked, Merges, MissesFull, MissPath
<1> QED
  BY <1>2, <1>3

\* A busy bandwidth or a full level refuses until the tick blocker names.
LEMMA RefusedUntilReady ==
    ASSUME MInv, NEW r \in trace, Blocked(r)
    PROVE  /\ ReadyIn(r) \in Nat \ {0}
           /\ \A n \in 1..ReadyIn(r) : HeldBack(r, n)
<1> DEFINE b == busy[Farthest(r)][r.direction]
<1>1. Farthest(r) \in Source /\ r.direction \in Direction /\ b \in Nat
  BY FarthestIsLevel, RequestAssumption DEF MInv, Stock, Misses
<1>2. CASE b > 0
  <2>1. ReadyIn(r) = b
    BY <1>2 DEF ReadyIn
  <2>2. ~Merges(r)
    BY DEF Blocked
  <2> HIDE DEF b
  <2>3. \A n \in 1..b : b >= n
    BY <1>1
  <2> QED
    BY <1>1, <1>2, <2>1, <2>2, <2>3 DEF HeldBack, b
<1>3. CASE ~(b > 0)
  <2>1. ~Merges(r) /\ MissesFull(r)
    BY <1>3 DEF Blocked
  <2>2. FullLevels(r) \subseteq Nat /\ FullLevels(r) # {} /\ FullLevels(r) \subseteq Source
    BY <1>1, <2>1, LevelsAreNumbers DEF FullLevels, MissesFull, MissPath, Source
  <2>3. PICK l \in FullLevels(r) : l = Soonest(FullLevels(r))
    BY <2>2, SoonestIsLeast
  <2>4. l \in Source /\ l \in MissPath(Farthest(r)) /\ InFlight(l) >= Limit[l]
    BY <2>2, <2>3 DEF FullLevels
  <2> DEFINE D == {t \in 1..MaxLatency : outstanding[l][t] > 0}
  <2>5. outstanding[l] \in Slots /\ \A t \in 1..MaxLatency : outstanding[l][t] \in Nat
    BY <2>4 DEF MInv, Misses, Slots
  <2>6. D # {}
    <3> SUFFICES ASSUME D = {} PROVE FALSE
      OBVIOUS
    <3>1. \A t \in 1..MaxLatency : outstanding[l][t] = 0
      BY <2>5
    <3>2. Total(outstanding[l]) = 0
      BY <2>5, <3>1, Totals
    <3> QED
      BY <2>4, <3>2, InFlightIsTotal, LatencyAssumption
  <2>7. PICK d \in D : d = SlotDue(l) /\ \A t \in D : d <= t
    <3>1. D \subseteq Nat
      OBVIOUS
    <3>2. SlotDue(l) = Soonest(D)
      BY DEF SlotDue
    <3> HIDE DEF D
    <3> QED
      BY <2>6, <3>1, <3>2, SoonestIsLeast
  <2>8. ReadyIn(r) = d /\ d \in Nat \ {0}
    BY <1>3, <2>3, <2>7 DEF ReadyIn
  <2>9. ASSUME NEW n \in 1..d PROVE HeldBack(r, n)
    <3>1. \A t \in 1..MaxLatency : t < n => outstanding[l][t] = 0
      <4> SUFFICES ASSUME NEW t \in 1..MaxLatency, t < n PROVE outstanding[l][t] = 0
        OBVIOUS
      <4>1. t \notin D
        BY <2>7, <2>8
      <4> QED
        BY <2>5, <4>1
    <3> QED
      BY <2>1, <2>4, <3>1 DEF HeldBack
  <2> QED
    BY <2>8, <2>9
<1> QED
  BY <1>2, <1>3

\* A tick before the last one of a jump.
LEMMA HeldBackKept ==
    ASSUME MInv, Tick, NEW r \in trace, NEW n \in Nat \ {0}, HeldBack(r, n + 1)
    PROVE  HeldBack(r, n)'
<1>1. UNCHANGED <<pending, source, resident, newer>>
  BY DEF Tick, caches
<1>2. Farthest(r)' = Farthest(r) /\ (Merges(r)' <=> Merges(r))
  BY <1>1, FarthestKept DEF Merges
<1>3. Farthest(r) \in Source /\ r.direction \in Direction
      /\ busy[Farthest(r)][r.direction] \in Nat
  BY FarthestIsLevel, RequestAssumption DEF MInv, Stock, Misses
<1>4. MissPath(Farthest(r)) \subseteq Source
  BY <1>3, LevelsAreNumbers DEF MissPath, Source
<1>5. CASE busy[Farthest(r)][r.direction] >= n + 1
  <2>1. busy'[Farthest(r)][r.direction] = Less(busy[Farthest(r)][r.direction])
    BY <1>3 DEF Tick
  <2>2. busy'[Farthest(r)][r.direction] >= n
    BY <1>3, <1>5, <2>1 DEF Less
  <2> QED
    BY <1>2, <2>2 DEF HeldBack
<1>6. ASSUME NEW l \in MissPath(Farthest(r)), InFlight(l) >= Limit[l],
             \A t \in 1..MaxLatency : t < n + 1 => outstanding[l][t] = 0
      PROVE  HeldBack(r, n)'
  <2>0. MaxLatency \in Nat \ {0} /\ l \in Source
    BY <1>4, LatencyNumbers
  <2>1. outstanding'[l] = [t \in 1..MaxLatency |->
                              IF t = MaxLatency THEN 0 ELSE outstanding[l][t + 1]]
    BY <2>0 DEF Tick
  <2>2. outstanding[l] \in Slots /\ outstanding'[l] \in Slots
    <3>1. Misses'
      BY TickKeepsMisses DEF MInv
    <3> QED
      BY <2>0, <3>1 DEF MInv, Misses
  <2>3. Shifts(outstanding[l], outstanding'[l], MaxLatency)
    BY <2>1 DEF Shifts
  <2>4. outstanding[l][1] = 0
    BY <1>6, <2>0
  <2>5. InFlight(l)' = InFlight(l)
    <3>1. Total(outstanding'[l]) = Total(outstanding[l]) - outstanding[l][1]
      BY <2>2, <2>3, Totals
    <3>2. Total(outstanding[l]) \in Nat
      BY <2>2, Totals
    <3>3. Total(outstanding'[l]) = Total(outstanding[l])
      BY <2>4, <3>1, <3>2
    <3> QED
      BY <3>3, InFlightIsTotal
  <2>6. \A t \in 1..MaxLatency : t < n => outstanding'[l][t] = 0
    <3> SUFFICES ASSUME NEW t \in 1..MaxLatency, t < n PROVE outstanding'[l][t] = 0
      OBVIOUS
    <3>1. CASE t = MaxLatency
      BY <2>1, <3>1
    <3>2. CASE t # MaxLatency
      <4>1. t + 1 \in 1..MaxLatency /\ t + 1 < n + 1
        BY <2>0, <3>2
      <4> QED
        BY <1>6, <2>1, <3>2, <4>1
    <3> QED
      BY <3>1, <3>2
  <2> QED
    BY <1>2, <1>6, <2>5, <2>6 DEF HeldBack, MissPath
<1> QED
  BY <1>5, <1>6 DEF HeldBack

LEMMA InvariantJumps == JInv => JumpsSound
<1> SUFFICES ASSUME JInv, pc = "elapse", NEW u \in Waiting, Ready(u)
             PROVE  Blocked(program[u].access)
  BY DEF JInv, Running, JumpsSound, NoMissedAccess
<1>1. u \in Uop /\ program[u].access \in trace
  <2>1. u \in Uop
    BY BoundProgram DEF JInv, Running, LoopTypeOK, Waiting
  <2> QED
    BY <2>1, BoundProgram DEF JInv
<1>2. PICK r \in trace : r = program[u].access
  BY <1>1
<1>3. 1 \in 1..left
  BY DEF JInv, Running, LoopTypeOK
<1>4. HeldBack(r, 1)
  BY <1>2, <1>3 DEF JInv, Elapsing
<1>5. Blocked(r)
  <2>1. busy[Farthest(r)][r.direction] \in Nat
    BY FarthestIsLevel, RequestAssumption DEF JInv, MInv, Stock, Misses
  <2> QED
    BY <1>4, <2>1 DEF HeldBack, Blocked, MissesFull
<1> QED
  BY <1>2, <1>5

LEMMA InitJumps == ZInit => Running /\ Settled /\ Elapsing
<1> SUFFICES ASSUME ZInit PROVE Running /\ Settled /\ Elapsing
  OBVIOUS
<1>1. Bound
  BY DEF ZInit, Bound
<1>2. Len(program) \in Nat /\ Uop = 1..Len(program)
  BY <1>1, BoundProgram
<1>3. /\ pc = "scan" /\ phase = 0 /\ left = 0 /\ progress = FALSE /\ asked = NoRequest
      /\ dispatched = IF DispatchWidth < Len(program) THEN DispatchWidth ELSE Len(program)
      /\ finishIn = [u \in Uop |-> NotIssued] /\ candidates = 1..dispatched
  BY DEF ZInit, Init
<1>4. dispatched \in 0..Len(program)
  BY <1>2, <1>3, LoopAssumption
<1>5. LoopTypeOK
  <2>1. finishIn \in [Uop -> Int] /\ \A u \in Uop : ~(finishIn[u] > 0)
    BY <1>3 DEF NotIssued
  <2>2. phase \in 0..(TicksPerCycle - 1) /\ left \in 0..(TicksPerCycle - phase)
    BY <1>3, LatencyAssumption
  <2> QED
    BY <1>3, <1>4, <2>1, <2>2 DEF LoopTypeOK
<1>6. Waiting \subseteq candidates
  BY <1>3 DEF Waiting
<1> QED
  BY <1>3, <1>5, <1>6 DEF Running, Settled, Elapsing

\* The uops of the snapshot, and the one the hierarchy is asked about.
LEMMA CandidatesAreUops ==
    ASSUME Bound, Running
    PROVE  /\ candidates \subseteq Uop /\ Uop \subseteq Nat /\ Waiting \subseteq Uop
           /\ candidates # {} => pc = "scan" /\ left = 0
           /\ \A u \in Uop : asked # NoRequest /\ Oldest(u) => program[u].access = asked
<1>1. Len(program) \in Nat /\ Uop = 1..Len(program)
  BY BoundProgram
<1>2. candidates \subseteq Uop /\ Uop \subseteq Nat /\ Waiting \subseteq Uop
  BY <1>1 DEF Running, LoopTypeOK, Waiting
<1>3. candidates # {} => pc = "scan" /\ left = 0
  BY DEF Running
<1>4. ASSUME NEW u \in Uop, asked # NoRequest, Oldest(u) PROVE program[u].access = asked
  <2>1. PICK v \in candidates : Oldest(v) /\ program[v].access = asked
    BY <1>4 DEF Running
  <2>2. u \in Nat /\ v \in Nat /\ u <= v /\ v <= u
    BY <1>2, <1>4, <2>1 DEF Oldest
  <2>3. u = v
    BY <2>2
  <2> QED
    BY <2>1, <2>3
<1> QED
  BY <1>2, <1>3, <1>4

LEMMA PassOverKeepsJumps ==
    ASSUME JInv, NEW u \in Uop, PassOver(u)
    PROVE  Running' /\ Settled' /\ Elapsing'
<1>1. /\ pc = "scan" /\ asked = NoRequest /\ Oldest(u) /\ ~Ready(u)
      /\ candidates' = candidates \ {u}
      /\ UNCHANGED <<program, pc, phase, dispatched, finishIn, progress, left, trace, asked,
                     caches, fills, outstanding, busy>>
  BY DEF PassOver, memory
<1>2. Running'
  BY <1>1 DEF JInv, Running, LoopTypeOK, Uop
<1>3. Waiting' = Waiting /\ (\A v : Ready(v)' <=> Ready(v)) /\ Due' = Due
      /\ \A r : Blocked(r)' <=> Blocked(r)
  BY <1>1, BlockedKept DEF Waiting, Ready
<1>4. Settled'
  <2> SUFFICES ASSUME pc' = "advance" \/ (pc' = "scan" /\ ~progress'),
                      NEW v \in Waiting' \ candidates', NEW r \in trace',
                      Ready(v)', program'[v].access = r
               PROVE  Due' = {} /\ Blocked(r)'
    BY DEF Settled
  <2>1. v # u /\ v \in Waiting \ candidates /\ Ready(v) /\ program[v].access = r /\ r \in trace
    BY <1>1, <1>3
  <2>2. pc = "scan" /\ ~progress
    BY <1>1
  <2>3. Due = {} /\ Blocked(r)
    BY <2>1, <2>2 DEF JInv, Settled
  <2> QED
    BY <1>3, <2>3
<1> QED
  BY <1>1, <1>2, <1>4 DEF Elapsing

LEMMA ExamineKeepsJumps ==
    ASSUME JInv, NEW u \in Uop, Examine(u)
    PROVE  Running' /\ Settled' /\ Elapsing'
<1>1. /\ pc = "scan" /\ Oldest(u) /\ asked' = program[u].access
      /\ UNCHANGED <<program, pc, phase, dispatched, finishIn, candidates, progress, left, trace,
                     caches, fills, outstanding, busy>>
  BY DEF Examine, Ask, loop
<1>2. Running'
  BY <1>1 DEF JInv, Running, LoopTypeOK, Uop, Oldest
<1>3. Waiting' = Waiting /\ (\A v : Ready(v)' <=> Ready(v)) /\ Due' = Due
      /\ \A r : Blocked(r)' <=> Blocked(r)
  BY <1>1, BlockedKept DEF Waiting, Ready
<1>4. Settled'
  BY <1>1, <1>3 DEF JInv, Settled
<1> QED
  BY <1>1, <1>2, <1>4 DEF Elapsing

LEMMA RefuseKeepsJumps ==
    ASSUME JInv, NEW u \in Uop, Refuse(u)
    PROVE  Running' /\ Settled' /\ Elapsing'
<1>1. /\ asked # NoRequest /\ Due = {} /\ Oldest(u) /\ Blocked(asked)
      /\ candidates' = candidates \ {u} /\ asked' = NoRequest
      /\ UNCHANGED <<program, pc, phase, dispatched, finishIn, progress, left, trace,
                     caches, fills, outstanding, busy>>
  BY DEF Refuse, Decline, Answering
<1>2. pc = "scan" /\ left = 0 /\ program[u].access = asked
  BY <1>1, CandidatesAreUops DEF JInv, Oldest
<1>3. Running'
  BY <1>1, <1>2 DEF JInv, Running, LoopTypeOK, Uop
<1>4. Waiting' = Waiting /\ (\A v : Ready(v)' <=> Ready(v)) /\ Due' = Due
      /\ \A r : Blocked(r)' <=> Blocked(r)
  BY <1>1, BlockedKept DEF Waiting, Ready
<1>5. Settled'
  <2> SUFFICES ASSUME ~progress', NEW v \in Waiting' \ candidates', NEW r \in trace',
                      Ready(v)', program'[v].access = r
               PROVE  Due' = {} /\ Blocked(r)'
    BY <1>1, <1>2 DEF Settled
  <2>1. CASE v = u
    BY <1>1, <1>2, <1>4, <2>1
  <2>2. CASE v # u
    <3>1. v \in Waiting \ candidates /\ Ready(v) /\ program[v].access = r /\ r \in trace
      BY <1>1, <1>4, <2>2
    <3>2. Blocked(r)
      BY <1>1, <1>2, <3>1 DEF JInv, Settled
    <3> QED
      BY <1>1, <1>4, <3>2
  <2> QED
    BY <2>1, <2>2
<1> QED
  BY <1>1, <1>2, <1>3, <1>5 DEF Elapsing

LEMMA GrantKeepsJumps ==
    ASSUME JInv, MInv', NEW u \in Uop, Grant(u)
    PROVE  Running' /\ Settled' /\ Elapsing'
<1>1. /\ Oldest(u) /\ progress' = TRUE /\ candidates' = candidates \ {u} /\ asked' = NoRequest
      /\ finishIn' = [finishIn EXCEPT ![u] =
                        IF asked.direction = "load" THEN answer' ELSE StoreLatency]
      /\ UNCHANGED <<program, pc, phase, dispatched, left>>
  BY DEF Grant, Merge, Hit, Fetch
<1>2. pc = "scan" /\ left = 0
  BY <1>1, CandidatesAreUops DEF JInv, Oldest
<1>3. answer' \in Nat /\ StoreLatency \in Nat
  BY LatencyNumbers, LoopAssumption DEF MInv, Misses
<1>4. finishIn \in [Uop -> Int] /\ \A v \in Uop : finishIn[v] > 0 => 0 <= finishIn[v]
  BY DEF JInv, Running, LoopTypeOK
<1>5. finishIn' \in [Uop' -> Int] /\ \A v \in Uop' : finishIn'[v] > 0 => left' <= finishIn'[v]
  BY <1>1, <1>2, <1>3, <1>4 DEF Uop
<1>6. Running'
  BY <1>1, <1>2, <1>5 DEF JInv, Running, LoopTypeOK
<1> QED
  BY <1>1, <1>2, <1>6 DEF Settled, Elapsing

\* A fill can let an access through or hold it up; but no uop has been passed
\* over as refused while a line was due.
LEMMA ArriveKeepsJumps ==
    ASSUME JInv, NEW x \in Line, Arrive(x)
    PROVE  Running' /\ Settled' /\ Elapsing'
<1>1. /\ x \in Due /\ asked # NoRequest
      /\ UNCHANGED <<program, pc, phase, dispatched, finishIn, candidates, progress, left, trace,
                     asked>>
  BY DEF Arrive, Fill, loop
<1>2. pc = "scan"
  BY <1>1 DEF JInv, Running
<1>3. Running'
  BY <1>1 DEF JInv, Running, LoopTypeOK, Uop, Oldest
<1>4. Waiting' = Waiting /\ (\A v : Ready(v)' <=> Ready(v))
  BY <1>1 DEF Waiting, Ready
<1>5. Settled'
  BY <1>1, <1>4 DEF JInv, Settled
<1> QED
  BY <1>1, <1>2, <1>3, <1>5 DEF Elapsing

LEMMA ScanReturnsKeepsJumps ==
    ASSUME JInv, ScanReturns
    PROVE  Running' /\ Settled' /\ Elapsing'
<1>1. /\ pc = "scan" /\ asked = NoRequest /\ candidates = {}
      /\ pc' = AfterRound /\ progress' = FALSE
      /\ candidates' = IF pc' = "scan" THEN Waiting ELSE {}
      /\ UNCHANGED <<program, phase, dispatched, finishIn, left, trace, asked,
                     caches, fills, outstanding, busy>>
  BY DEF ScanReturns, memory
<1>2. pc' \in {"scan", "advance"} /\ (pc' = "advance" => ~progress)
  BY <1>1 DEF AfterRound
<1>3. candidates' \subseteq 1..dispatched
  BY <1>1 DEF Waiting
<1>4. Running'
  BY <1>1, <1>2, <1>3 DEF JInv, Running, LoopTypeOK, Uop
<1>5. Waiting' = Waiting /\ (\A v : Ready(v)' <=> Ready(v)) /\ Due' = Due
      /\ \A r : Blocked(r)' <=> Blocked(r)
  BY <1>1, BlockedKept DEF Waiting, Ready
<1>6. Settled'
  <2> SUFFICES ASSUME NEW v \in Waiting' \ candidates', NEW r \in trace',
                      Ready(v)', program'[v].access = r
               PROVE  Due' = {} /\ Blocked(r)'
    BY DEF Settled
  <2>1. pc' = "advance" /\ ~progress
    BY <1>1, <1>2, <1>5
  <2>2. v \in Waiting \ candidates /\ Ready(v) /\ program[v].access = r /\ r \in trace
    BY <1>1, <1>5
  <2>3. Due = {} /\ Blocked(r)
    BY <1>1, <2>1, <2>2 DEF JInv, Settled
  <2> QED
    BY <1>5, <2>3
<1> QED
  BY <1>2, <1>4, <1>6 DEF Elapsing

\* A jump goes to an event, so none is jumped over.
LEMMA EventsAhead ==
    ASSUME JInv, pc = "advance", NEW n, n = Soonest(EventTicks)
    PROVE  /\ n \in 1..(TicksPerCycle - phase)
           /\ \A u \in Uop : finishIn[u] > 0 => n <= finishIn[u]
           /\ \A u \in Waiting, r \in trace :
                 Ready(u) /\ program[u].access = r => n <= ReadyIn(r)
<1>0. Running /\ Bound /\ MInv /\ Settled /\ candidates = {}
  BY DEF JInv, Running
<1>1. /\ TicksPerCycle \in Nat /\ phase \in 0..(TicksPerCycle - 1)
      /\ finishIn \in [Uop -> Int] /\ Waiting \subseteq Uop
  BY <1>0, LatencyAssumption, CandidatesAreUops DEF Running, LoopTypeOK
<1>2. ASSUME NEW u \in Waiting, NEW r \in trace, Ready(u), program[u].access = r
      PROVE  Blocked(r) /\ ReadyIn(r) \in Nat \ {0}
  <2>1. u \in Waiting \ candidates
    BY <1>0
  <2>2. Blocked(r)
    BY <1>0, <1>2, <2>1 DEF Settled
  <2> QED
    BY <1>0, <2>2, RefusedUntilReady
<1>3. EventTicks \subseteq Nat \ {0} /\ TicksPerCycle - phase \in EventTicks
  <2>1. TicksPerCycle - phase \in Nat \ {0}
    BY <1>1
  <2>2. ASSUME NEW u \in Uop, finishIn[u] > 0 PROVE finishIn[u] \in Nat \ {0}
    BY <1>1, <2>2
  <2>3. ASSUME NEW u \in Waiting, Ready(u) PROVE ReadyIn(program[u].access) \in Nat \ {0}
    <3>1. program[u].access \in trace
      BY <1>0, <1>1, BoundProgram
    <3> QED
      BY <1>2, <2>3, <3>1
  <2> QED
    BY <2>1, <2>2, <2>3 DEF EventTicks
<1>4. n \in EventTicks /\ \A t \in EventTicks : n <= t
  <2>1. EventTicks \subseteq Nat /\ EventTicks # {}
    BY <1>3
  <2> QED
    BY <2>1, SoonestIsLeast
<1>5. \A u \in Uop : finishIn[u] > 0 => finishIn[u] \in EventTicks
  BY DEF EventTicks
<1>6. ASSUME NEW u \in Waiting, NEW r \in trace, Ready(u), program[u].access = r
      PROVE  ReadyIn(r) \in EventTicks
  BY <1>2, <1>6 DEF EventTicks
<1>7. n \in 1..(TicksPerCycle - phase)
  BY <1>1, <1>3, <1>4
<1> QED
  BY <1>4, <1>5, <1>6, <1>7

LEMMA AdvanceKeepsJumps ==
    ASSUME JInv, Advance
    PROVE  Running' /\ Settled' /\ Elapsing'
<1>1. /\ pc = "advance" /\ pc' = "elapse"
      /\ UNCHANGED <<program, phase, dispatched, finishIn, candidates, progress, trace, asked,
                     caches, fills, outstanding, busy>>
  BY DEF Advance, memory
<1>2. PICK n : n = Soonest(EventTicks) /\ left' = n
  BY DEF Advance
<1>3. /\ n \in 1..(TicksPerCycle - phase)
      /\ \A u \in Uop : finishIn[u] > 0 => n <= finishIn[u]
      /\ \A u \in Waiting, r \in trace :
            Ready(u) /\ program[u].access = r => n <= ReadyIn(r)
  BY <1>1, <1>2, EventsAhead
<1>4. TicksPerCycle \in Nat /\ phase \in 0..(TicksPerCycle - 1) /\ candidates = {}
      /\ asked = NoRequest
  BY <1>1, LatencyAssumption DEF JInv, Running, LoopTypeOK
<1>5. left' \in 0..(TicksPerCycle - phase) /\ left' > 0
  BY <1>2, <1>3, <1>4
<1>6. Running'
  BY <1>1, <1>2, <1>3, <1>4, <1>5 DEF JInv, Running, LoopTypeOK, Uop
<1>7. Elapsing'
  <2> SUFFICES ASSUME NEW u \in Waiting', NEW r \in trace', NEW k \in 1..left',
                      Ready(u)', program'[u].access = r
               PROVE  HeldBack(r, k)'
    BY DEF Elapsing
  <2>1. u \in Waiting /\ r \in trace /\ Ready(u) /\ program[u].access = r /\ u \notin candidates
    BY <1>1, <1>4 DEF Waiting, Ready
  <2>2. Blocked(r) /\ MInv
    BY <1>1, <2>1 DEF JInv, Settled
  <2>3. ReadyIn(r) \in Nat \ {0} /\ \A m \in 1..ReadyIn(r) : HeldBack(r, m)
    BY <2>1, <2>2, RefusedUntilReady
  <2>4. k \in 1..ReadyIn(r)
    BY <1>2, <1>3, <1>4, <2>1, <2>3
  <2>5. HeldBack(r, k)
    BY <2>3, <2>4
  <2>6. UNCHANGED <<pending, source, resident, outstanding, busy>>
    BY <1>1 DEF caches, fills
  <2>7. Farthest(r)' = Farthest(r) /\ \A l : InFlight(l)' = InFlight(l)
    BY <2>6, FarthestKept, InFlightIsTotal
  <2> QED
    BY <2>5, <2>6, <2>7 DEF HeldBack, Merges, MissPath
<1> QED
  BY <1>1, <1>6, <1>7 DEF Settled

LEMMA ElapseKeepsJumps ==
    ASSUME JInv, Elapse
    PROVE  Running' /\ Settled' /\ Elapsing'
<1>1. /\ pc = "elapse" /\ Tick
      /\ left' = left - 1
      /\ phase' = (phase + 1) % TicksPerCycle
      /\ finishIn' = [u \in Uop |-> IF finishIn[u] > 0 THEN finishIn[u] - 1 ELSE finishIn[u]]
      /\ pc' = IF left' = 0 THEN "scan" ELSE "elapse"
      /\ dispatched' = IF phase' # 0 THEN dispatched
                       ELSE IF dispatched + DispatchWidth < Len(program)
                            THEN dispatched + DispatchWidth ELSE Len(program)
      /\ candidates' = IF left' = 0 THEN Waiting' ELSE {}
      /\ program' = program /\ progress' = progress
  BY DEF Elapse
<1>2. asked' = NoRequest /\ asked = NoRequest /\ trace' = trace
  BY <1>1 DEF Tick
<1>3. /\ TicksPerCycle \in Nat \ {0} /\ phase \in 0..(TicksPerCycle - 1)
      /\ left \in 1..(TicksPerCycle - phase)
      /\ dispatched \in 0..Len(program) /\ Len(program) \in Nat /\ DispatchWidth \in Nat
      /\ finishIn \in [Uop -> Int] /\ progress \in BOOLEAN
  BY <1>1, LatencyAssumption, LoopAssumption, BoundProgram DEF JInv, Running, LoopTypeOK
<1>4. \A u \in Uop : finishIn[u] > 0 => left <= finishIn[u]
  BY DEF JInv, Running, LoopTypeOK
<1>5. \/ phase + 1 = TicksPerCycle /\ phase' = 0 /\ left' = 0
      \/ phase + 1 < TicksPerCycle /\ phase' = phase + 1
  <2>1. CASE phase + 1 = TicksPerCycle
    BY <1>1, <1>3, <2>1
  <2>2. CASE phase + 1 < TicksPerCycle
    BY <1>1, <1>3, <2>2
  <2> QED
    BY <1>3, <2>1, <2>2
<1>6. phase' \in 0..(TicksPerCycle - 1) /\ left' \in 0..(TicksPerCycle - phase')
  BY <1>1, <1>3, <1>5
<1>7. dispatched' \in 0..Len(program)
  BY <1>1, <1>3
<1>8. \A u \in Uop : finishIn'[u] \in Int /\ (finishIn'[u] > 0 => left' <= finishIn'[u])
  <2> SUFFICES ASSUME NEW u \in Uop
               PROVE  finishIn'[u] \in Int /\ (finishIn'[u] > 0 => left' <= finishIn'[u])
    OBVIOUS
  <2>1. finishIn'[u] = IF finishIn[u] > 0 THEN finishIn[u] - 1 ELSE finishIn[u]
    BY <1>1
  <2>2. finishIn[u] \in Int
    BY <1>3
  <2> QED
    BY <1>1, <1>3, <1>4, <2>1, <2>2
<1>9. Uop' = Uop /\ finishIn' \in [Uop -> Int]
  BY <1>1, <1>8 DEF Uop
<1>10. candidates' \subseteq 1..dispatched'
  BY <1>1 DEF Waiting
<1>11. LoopTypeOK'
  BY <1>1, <1>3, <1>6, <1>7, <1>8, <1>9, <1>10 DEF LoopTypeOK
<1>12. Running'
  <2>1. CASE left' = 0
    BY <1>1, <1>2, <1>11, <2>1 DEF Running
  <2>2. CASE left' # 0
    <3>1. left' > 0 /\ pc' = "elapse" /\ candidates' = {}
      BY <1>1, <1>3, <2>2
    <3> QED
      BY <1>2, <1>11, <3>1 DEF Running
  <2> QED
    BY <2>1, <2>2
<1>13. Settled'
  BY <1>1 DEF Settled
<1>14. Elapsing'
  <2> SUFFICES ASSUME pc' = "elapse", NEW u \in Waiting', NEW r \in trace', NEW k \in 1..left',
                      Ready(u)', program'[u].access = r
               PROVE  HeldBack(r, k)'
    BY DEF Elapsing
  <2>1. left' # 0 /\ left > 1 /\ phase' # 0 /\ dispatched' = dispatched
    BY <1>1, <1>3, <1>5
  <2>2. ASSUME NEW v \in Uop
        PROVE  (finishIn'[v] = NotIssued => finishIn[v] = NotIssued)
               /\ (finishIn'[v] = 0 => finishIn[v] = 0)
    <3>1. finishIn'[v] = IF finishIn[v] > 0 THEN finishIn[v] - 1 ELSE finishIn[v]
      BY <1>1
    <3>2. finishIn[v] \in Int
      BY <1>3
    <3> QED
      BY <1>3, <1>4, <2>1, <3>1, <3>2 DEF NotIssued
  <2>3. Uop = 1..Len(program) /\ \A v \in Uop : program[v].dependencies \subseteq Uop
    BY BoundProgram DEF JInv
  <2>4. u \in Uop /\ u \in Waiting
    BY <1>3, <2>1, <2>2, <2>3 DEF Waiting
  <2>5. Ready(u)
    BY <1>1, <2>2, <2>3, <2>4 DEF Ready
  <2>6. k \in Nat \ {0} /\ k + 1 \in 1..left
    BY <1>1, <1>3
  <2>7. HeldBack(r, k + 1)
    BY <1>1, <1>2, <2>4, <2>5, <2>6 DEF JInv, Elapsing
  <2> QED
    BY <1>1, <1>2, <2>6, <2>7, HeldBackKept DEF JInv
<1> QED
  BY <1>12, <1>13, <1>14

LEMMA StutterKeepsJumps ==
    ASSUME JInv, UNCHANGED zvars
    PROVE  Running' /\ Settled' /\ Elapsing'
<1>1. UNCHANGED <<program, pc, phase, dispatched, finishIn, candidates, progress, left, trace,
                  asked, caches, fills, outstanding, busy>>
  BY DEF zvars, loop, memory
<1>2. Running'
  BY <1>1 DEF JInv, Running, LoopTypeOK, Uop, Oldest
<1>3. Waiting' = Waiting /\ (\A v : Ready(v)' <=> Ready(v)) /\ Due' = Due
      /\ \A r : Blocked(r)' <=> Blocked(r)
  BY <1>1, BlockedKept DEF Waiting, Ready
<1>4. Settled'
  BY <1>1, <1>3 DEF JInv, Settled
<1>5. UNCHANGED <<pending, source, resident>>
  BY <1>1 DEF caches, fills
<1>6. \A r : Farthest(r)' = Farthest(r)
  BY <1>5, FarthestKept
<1>7. \A l : InFlight(l)' = InFlight(l)
  BY <1>1, InFlightIsTotal
<1>8. \A r, n : HeldBack(r, n)' <=> HeldBack(r, n)
  BY <1>1, <1>5, <1>6, <1>7 DEF HeldBack, Merges, MissPath
<1>9. Elapsing'
  BY <1>1, <1>3, <1>8 DEF JInv, Elapsing
<1> QED
  BY <1>2, <1>4, <1>9

LEMMA StepJumps ==
    ASSUME JInv, [ZNext]_zvars
    PROVE  JInv'
<1>1. Bound' /\ MInv'
  <2>1. [Next]_vars /\ Bound'
    BY LoopSteps DEF JInv
  <2>2. Stock' /\ Cached' /\ Misses'
    BY <2>1, StepStock, StepCached, StepMisses DEF JInv, MInv
  <2> QED
    BY <2>1, <2>2 DEF MInv
<1>2. CASE ZNext
  <2>1. ASSUME NEW u \in Uop, PassOver(u) \/ Examine(u) \/ Refuse(u) \/ Grant(u)
        PROVE  Running' /\ Settled' /\ Elapsing'
    BY <1>1, <2>1, PassOverKeepsJumps, ExamineKeepsJumps, RefuseKeepsJumps, GrantKeepsJumps
  <2>2. ASSUME NEW x \in Line, Arrive(x) PROVE Running' /\ Settled' /\ Elapsing'
    BY <2>2, ArriveKeepsJumps
  <2>3. CASE Stopped
    <3>1. UNCHANGED zvars
      BY <2>3 DEF Stopped
    <3> QED
      BY <1>1, <3>1, StutterKeepsJumps DEF JInv
  <2> QED
    BY <1>1, <1>2, <2>1, <2>2, <2>3, ScanReturnsKeepsJumps, AdvanceKeepsJumps,
       ElapseKeepsJumps DEF ZNext, JInv
<1>3. CASE UNCHANGED zvars
  BY <1>1, <1>3, StutterKeepsJumps DEF JInv
<1> QED
  BY <1>2, <1>3

LEMMA InvariantOfLoop == ZSpec => []JInv
<1>1. ZInit => JInv
  <2>1. ZInit => Init /\ Bound
    BY DEF ZInit, Bound
  <2> QED
    BY <2>1, InitStock, InitCached, InitMisses, InitJumps DEF JInv, MInv
<1>2. JInv /\ [ZNext]_zvars => JInv'
  BY StepJumps
<1> QED
  BY <1>1, <1>2, PTL DEF ZSpec

\* Time never jumps over a tick at which a load or store of the loop could have
\* been made, nor over a completion or a cycle boundary.
THEOREM JumpsSoundHolds == ZSpec => []JumpsSound
<1>1. JInv => JumpsSound
  BY InvariantJumps
<1> QED
  BY <1>1, InvariantOfLoop, PTL

-----------------------------------------------------------------------------
(***************************************************************************)
(* Loads of the same lines.  While one is in flight, either a line of it   *)
(* is on its way and will not be there before the load completes, or the   *)
(* load takes the latency of the nearest level, which no later fetch of    *)
(* its lines can beat.                                                     *)
(***************************************************************************)
OnTheWay(r) == r.lines \cap pending
InStep(n, r) ==
    \/ \E x \in OnTheWay(r) : n <= remaining[x]
    \/ n <= Latency[1] /\ \A x \in OnTheWay(r) : n <= remaining[x]
InOrder ==
    \A u \in Uop, r \in trace :
       finishIn[u] > 0 /\ program[u].access = r /\ r.direction = "load"
          => InStep(finishIn[u], r)

NotOvertaken ==
    \A u, v \in Uop :
       /\ finishIn[u] > 0 /\ finishIn[v] = NotIssued /\ finishIn'[v] > 0
       /\ program[u].access = program[v].access
       /\ program[u].access.direction = "load"
       => finishIn[u] <= finishIn'[v]

LEMMA InStepNumbers ==
    ASSUME MInv
    PROVE  /\ Latency[1] \in Nat \ {0}
           /\ \A s \in Source : Latency[s] \in Nat /\ Latency[1] <= Latency[s]
           /\ \A x \in Line : remaining[x] \in Nat
           /\ \A r \in trace : r.lines \subseteq Line /\ r.lines # {}
<1>1. 1 \in Source /\ \A s \in Source : Latency[s] \in Nat \ {0}
  BY LevelsAreNumbers, LineAssumption, LatencyAssumption DEF Source, Dram
<1>2. \A s \in Source : Latency[1] <= Latency[s]
  BY NearestAssumption
<1>3. \A x \in Line : remaining[x] \in Nat
  BY DEF MInv, Stock
<1>4. \A r \in trace : r.lines \subseteq Line /\ r.lines # {}
  BY RequestAssumption DEF MInv, Stock
<1> QED
  BY <1>1, <1>2, <1>3, <1>4

\* A load that is made while another of the same lines is in flight does not
\* complete before it.
LEMMA LaterIsNotSooner ==
    ASSUME MInv, asked \in trace, Merge \/ Hit \/ Fetch,
           NEW n \in Nat, InStep(n, asked)
    PROVE  n <= answer'
<1> USE DEF OnTheWay
<1>1. CASE Merge
  <2>1. PICK y \in OnTheWay(asked) : TRUE
    BY <1>1 DEF Merge, Merges
  <2>2. PICK x \in OnTheWay(asked) : n <= remaining[x]
    BY <2>1 DEF InStep
  <2>3. remaining[x] <= answer' /\ answer' \in {remaining[z] : z \in asked.lines \cap pending}
    BY <1>1 DEF Merge
  <2>4. remaining[x] \in Nat /\ answer' \in Nat
    BY <2>3, InStepNumbers
  <2> QED
    BY <2>2, <2>3, <2>4
<1>2. CASE Hit \/ Fetch
  <2>1. OnTheWay(asked) = {}
    BY <1>2 DEF Hit, Fetch, Merges
  <2>2. n <= Latency[1]
    BY <2>1 DEF InStep
  <2>3. Farthest(asked) \in Source
    BY FarthestIsLevel DEF MInv
  <2>4. answer' \in Nat /\ Latency[1] <= answer'
    BY <1>2, <2>3, InStepNumbers DEF Hit, Fetch
  <2> QED
    BY <2>2, <2>4, InStepNumbers
<1> QED
  BY <1>1, <1>2

\* The load that has just been made is in step with its lines.
LEMMA MadeInStep ==
    ASSUME MInv, asked \in trace, Merge \/ Hit \/ Fetch,
           NEW CONSTANT n, NEW CONSTANT r, n = answer', r = asked
    PROVE  InStep(n, r)'
<1> USE DEF OnTheWay
<1>0. \A x \in asked.lines : remaining[x] \in Nat
  BY InStepNumbers
<1>1. CASE Merge
  <2>1. PICK x \in asked.lines \cap pending : answer' = remaining[x]
    BY <1>1 DEF Merge
  <2>2. pending' = pending /\ remaining' = remaining
    BY <1>1 DEF Merge, fills
  <2> QED
    BY <1>0, <2>1, <2>2 DEF InStep
<1>2. CASE Hit
  <2>1. asked.lines \cap pending = {} /\ pending' = pending /\ answer' = Latency[1]
    BY <1>2 DEF Hit, fills, Merges
  <2> QED
    BY <2>1, InStepNumbers DEF InStep
<1>3. CASE Fetch
  <2>1. PICK x \in asked.lines : x \in Line
    BY InStepNumbers
  <2>2. Farthest(asked) \in Source
    BY FarthestIsLevel DEF MInv
  <2>3. x \in pending' /\ remaining'[x] = Latency[Farthest(asked)]
        /\ answer' = Latency[Farthest(asked)]
    BY <1>3, <2>1 DEF Fetch
  <2> QED
    BY <2>1, <2>2, <2>3, InStepNumbers DEF InStep
<1> QED
  BY <1>1, <1>2, <1>3

\* What the hierarchy does for others leaves a load in flight in step.
LEMMA InStepKept ==
    ASSUME MInv, NEW r \in trace, NEW n \in Nat \ {0}, InStep(n, r)
    PROVE  /\ UNCHANGED fills => InStep(n, r)'
           /\ \A y \in Line : Fill(y) => InStep(n, r)'
           /\ Fetch /\ asked \in trace => InStep(n, r)'
           /\ Tick => InStep(n - 1, r)'
<1> USE DEF OnTheWay
<1>0. \A x \in r.lines : x \in Line /\ remaining[x] \in Nat
  BY InStepNumbers
<1>1. ASSUME UNCHANGED fills PROVE InStep(n, r)'
  BY <1>1 DEF fills, InStep
<1>2. ASSUME NEW y \in Line, Fill(y) PROVE InStep(n, r)'
  <2>1. pending' = pending \ {y} /\ remaining' = remaining /\ remaining[y] = 0
    BY <1>2 DEF Fill, Due
  <2>2. \A x \in OnTheWay(r) : n <= remaining[x] => x # y
    BY <2>1
  <2> QED
    BY <2>1, <2>2 DEF InStep
<1>3. ASSUME Fetch, asked \in trace PROVE InStep(n, r)'
  <2>1. /\ pending' = pending \cup asked.lines /\ asked.lines \cap pending = {}
        /\ \A x \in Line : remaining'[x] = IF x \in asked.lines THEN Latency[Farthest(asked)]
                                           ELSE remaining[x]
    BY <1>3 DEF Fetch, Merges
  <2>2. Farthest(asked) \in Source
    BY <1>3, FarthestIsLevel DEF MInv
  <2>3. Latency[Farthest(asked)] \in Nat /\ Latency[1] <= Latency[Farthest(asked)]
        /\ Latency[1] \in Nat
    BY <2>2, InStepNumbers
  <2>4. CASE \E x \in OnTheWay(r) : n <= remaining[x]
    <3>1. PICK x \in OnTheWay(r) : n <= remaining[x]
      BY <2>4
    <3>2. x \in OnTheWay(r)' /\ remaining'[x] = remaining[x]
      BY <1>0, <2>1, <3>1
    <3> QED
      BY <3>1, <3>2 DEF InStep
  <2>5. CASE n <= Latency[1] /\ \A x \in OnTheWay(r) : n <= remaining[x]
    <3>1. ASSUME NEW x \in r.lines, x \in pending' PROVE n <= remaining'[x]
      BY <1>0, <2>1, <2>3, <2>5, <3>1
    <3> QED
      BY <2>5, <3>1 DEF InStep
  <2> QED
    BY <2>4, <2>5 DEF InStep
<1>4. ASSUME Tick PROVE InStep(n - 1, r)'
  <2>1. pending' = pending /\ \A x \in Line : remaining'[x] = Less(remaining[x])
    BY <1>4 DEF Tick
  <2>2. \A x \in r.lines : n <= remaining[x] => n - 1 <= remaining'[x]
    BY <1>0, <2>1 DEF Less
  <2>3. n <= Latency[1] => n - 1 <= Latency[1]
    BY InStepNumbers
  <2> QED
    BY <2>1, <2>2, <2>3 DEF InStep
<1> QED
  BY <1>1, <1>2, <1>3, <1>4

LEMMA InOrderIfKept ==
    ASSUME InOrder, Bound, UNCHANGED <<program, trace, finishIn>>,
           \A u \in Uop, r \in trace :
              finishIn[u] > 0 /\ program[u].access = r /\ InStep(finishIn[u], r)
                 => \A n \in {finishIn[u]} : InStep(n, r)'
    PROVE  InOrder'
<1> SUFFICES ASSUME NEW u \in Uop', NEW r \in trace', finishIn'[u] > 0,
                    program'[u].access = r, r.direction = "load"
             PROVE  \A n \in {finishIn'[u]} : InStep(n, r)'
  BY DEF InOrder, InStep
<1>1. u \in Uop /\ r \in trace /\ finishIn[u] > 0 /\ program[u].access = r
  BY DEF Uop
<1>2. InStep(finishIn[u], r)
  BY <1>1 DEF InOrder
<1> QED
  BY <1>1, <1>2

LEMMA InitInOrder == ZInit => InOrder
<1> SUFFICES ASSUME ZInit, NEW u \in Uop PROVE ~(finishIn[u] > 0)
  BY DEF InOrder
<1> QED
  BY DEF ZInit, NotIssued

LEMMA GrantKeepsInOrder ==
    ASSUME JInv, InOrder, NEW u \in Uop, Grant(u)
    PROVE  /\ InOrder'
           /\ \A v \in Uop : v # u => finishIn'[v] = finishIn[v]
           /\ \A v \in Uop : finishIn[v] > 0 /\ program[v].access = program[u].access
                                /\ program[v].access.direction = "load"
                                => finishIn[v] <= finishIn'[u]
<1>1. /\ Oldest(u) /\ asked # NoRequest /\ (Merge \/ Hit \/ Fetch)
      /\ finishIn' = [finishIn EXCEPT ![u] =
                        IF asked.direction = "load" THEN answer' ELSE StoreLatency]
      /\ program' = program /\ trace' = trace
  BY DEF Grant, Merge, Hit, Fetch, Answering
<1>2. /\ program[u].access = asked /\ asked \in trace
      /\ finishIn \in [Uop -> Int] /\ MInv
  BY <1>1, CandidatesAreUops, BoundProgram DEF JInv, Running, LoopTypeOK
<1>3. \A v \in Uop : v # u => finishIn'[v] = finishIn[v]
  BY <1>1, <1>2
<1>4. finishIn'[u] = IF asked.direction = "load" THEN answer' ELSE StoreLatency
  BY <1>1, <1>2
<1>5. ASSUME NEW v \in Uop, finishIn[v] > 0, program[v].access = program[u].access,
             program[v].access.direction = "load"
      PROVE  finishIn[v] <= finishIn'[u]
  <2>1. InStep(finishIn[v], asked) /\ finishIn[v] \in Nat
    BY <1>2, <1>5 DEF InOrder
  <2>2. finishIn[v] <= answer'
    BY <1>1, <1>2, <2>1, LaterIsNotSooner
  <2> QED
    BY <1>2, <1>4, <1>5, <2>2
<1>6. ASSUME NEW v \in Uop', NEW r \in trace', finishIn'[v] > 0,
             program'[v].access = r, r.direction = "load"
      PROVE  \A n \in {finishIn'[v]} : InStep(n, r)'
  <2> SUFFICES ASSUME NEW n, n = finishIn'[v] PROVE InStep(n, r)'
    OBVIOUS
  <2>0. v \in Uop /\ r \in trace /\ program[v].access = r
    BY <1>1, <1>6 DEF Uop
  <2>1. CASE v = u
    <3>1. n = answer' /\ r = asked
      BY <1>2, <1>4, <1>6, <2>0, <2>1
    <3> QED
      BY <1>1, <1>2, <3>1, MadeInStep
  <2>2. CASE v # u
    <3>1. n = finishIn[v] /\ n > 0 /\ n \in Nat \ {0}
      BY <1>2, <1>3, <1>6, <2>0, <2>2
    <3>2. InStep(n, r)
      BY <1>6, <2>0, <3>1 DEF InOrder
    <3>3. UNCHANGED fills \/ Fetch
      BY <1>1 DEF Merge, Hit
    <3> QED
      BY <1>2, <2>0, <3>1, <3>2, <3>3, InStepKept
  <2> QED
    BY <2>1, <2>2
<1>7. InOrder'
  BY <1>6 DEF InOrder, InStep
<1> QED
  BY <1>3, <1>5, <1>7

LEMMA ElapseKeepsInOrder ==
    ASSUME JInv, InOrder, Elapse
    PROVE  InOrder' /\ \A v \in Uop : finishIn[v] <= 0 => finishIn'[v] = finishIn[v]
<1>1. /\ Tick /\ program' = program /\ trace' = trace /\ MInv
      /\ finishIn' = [v \in Uop |-> IF finishIn[v] > 0 THEN finishIn[v] - 1 ELSE finishIn[v]]
      /\ finishIn \in [Uop -> Int]
  BY DEF Elapse, Tick, JInv, Running, LoopTypeOK
<1>2. ASSUME NEW u \in Uop', NEW r \in trace', finishIn'[u] > 0,
             program'[u].access = r, r.direction = "load"
      PROVE  \A n \in {finishIn'[u]} : InStep(n, r)'
  <2>1. u \in Uop /\ r \in trace /\ program[u].access = r /\ finishIn[u] \in Int
    BY <1>1, <1>2 DEF Uop
  <2>2. PICK m : m = finishIn[u]
    OBVIOUS
  <2>3. m \in Nat \ {0} /\ finishIn'[u] = m - 1
    BY <1>1, <1>2, <2>1, <2>2
  <2>4. InStep(m, r)
    BY <1>2, <2>1, <2>2, <2>3 DEF InOrder
  <2>5. InStep(m - 1, r)'
    BY <1>1, <2>1, <2>3, <2>4, InStepKept
  <2> QED
    BY <2>3, <2>5 DEF InStep
<1>3. InOrder'
  BY <1>2 DEF InOrder, InStep
<1>4. \A v \in Uop : finishIn[v] <= 0 => finishIn'[v] = finishIn[v]
  BY <1>1
<1> QED
  BY <1>3, <1>4

\* No step undoes the order, and only the uop that is made starts to complete.
LEMMA StepInOrder ==
    ASSUME JInv, InOrder, [ZNext]_zvars
    PROVE  InOrder' /\ NotOvertaken
<1> USE DEF NotOvertaken
<1>0. MInv /\ Bound /\ finishIn \in [Uop -> Int] /\ \A u \in Uop : program[u].access \in trace
  BY BoundProgram DEF JInv, Running, LoopTypeOK
<1>1. ASSUME UNCHANGED <<program, trace, finishIn>>,
             UNCHANGED fills \/ \E y \in Line : Fill(y)
      PROVE  InOrder' /\ NotOvertaken
  <2>1. ASSUME NEW u \in Uop, NEW r \in trace, finishIn[u] > 0, InStep(finishIn[u], r)
        PROVE  \A n \in {finishIn[u]} : InStep(n, r)'
    <3> SUFFICES ASSUME NEW n, n = finishIn[u] PROVE InStep(n, r)'
      OBVIOUS
    <3>1. n \in Nat \ {0} /\ InStep(n, r)
      BY <1>0, <2>1
    <3> QED
      BY <1>0, <1>1, <3>1, InStepKept
  <2>2. InOrder'
    BY <1>0, <1>1, <2>1, InOrderIfKept
  <2>3. \A v \in Uop : ~(finishIn[v] = NotIssued /\ finishIn'[v] > 0)
    BY <1>1 DEF NotIssued
  <2> QED
    BY <2>2, <2>3
<1>2. ASSUME NEW u \in Uop, Grant(u) PROVE InOrder' /\ NotOvertaken
  <2>1. /\ InOrder' /\ \A v \in Uop : v # u => finishIn'[v] = finishIn[v]
        /\ \A v \in Uop : finishIn[v] > 0 /\ program[v].access = program[u].access
                             /\ program[v].access.direction = "load"
                             => finishIn[v] <= finishIn'[u]
    BY <1>2, GrantKeepsInOrder
  <2>2. \A v \in Uop : finishIn[v] = NotIssued /\ finishIn'[v] > 0 => v = u
    BY <2>1 DEF NotIssued
  <2> QED
    BY <2>1, <2>2
<1>3. CASE Elapse
  <2>1. InOrder' /\ \A v \in Uop : finishIn[v] <= 0 => finishIn'[v] = finishIn[v]
    BY <1>3, ElapseKeepsInOrder
  <2>2. \A v \in Uop : ~(finishIn[v] = NotIssued /\ finishIn'[v] > 0)
    BY <2>1 DEF NotIssued
  <2> QED
    BY <2>1, <2>2
<1>4. ASSUME NEW u \in Uop, PassOver(u) \/ Examine(u) \/ Refuse(u)
      PROVE  UNCHANGED <<program, trace, finishIn, fills>>
  BY <1>4 DEF PassOver, Examine, Refuse, Ask, Decline, loop, memory
<1>5. ASSUME NEW x \in Line, Arrive(x)
      PROVE  UNCHANGED <<program, trace, finishIn>> /\ Fill(x)
  BY <1>5 DEF Arrive, Fill, loop
<1>6. CASE ScanReturns \/ Advance \/ Stopped \/ UNCHANGED zvars
  <2>1. UNCHANGED <<program, trace, finishIn, fills>>
    BY <1>6 DEF ScanReturns, Advance, Stopped, zvars, loop, memory
  <2> QED
    BY <1>1, <2>1
<1> QED
  BY <1>1, <1>2, <1>3, <1>4, <1>5, <1>6 DEF ZNext

\* Of two loads of the same lines the first to issue is never the last to
\* complete, whatever is fetched and evicted between them, in every geometry
\* whose nearest level is the quickest to answer.
THEOREM SameLineOrderHolds == ZSpec => SameLineOrder
<1>1. ZInit => InOrder
  BY InitInOrder
<1>2. JInv /\ InOrder /\ [ZNext]_zvars => InOrder' /\ NotOvertaken
  BY StepInOrder
<1>3. JInv /\ InOrder /\ [ZNext]_zvars => [NotOvertaken]_zvars
  BY <1>2
<1>4. ZSpec => []JInv
  BY InvariantOfLoop
<1> QED
  BY <1>1, <1>2, <1>3, <1>4, PTL DEF ZSpec, SameLineOrder, NotOvertaken

=============================================================================
