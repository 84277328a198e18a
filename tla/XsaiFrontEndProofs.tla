------------------------- MODULE XsaiFrontEndProofs -------------------------
(***************************************************************************)
(* Theorems about XsaiFrontEnd, for every trace, width and number of       *)
(* entries.                                                                *)
(***************************************************************************)
EXTENDS XsaiFrontEnd, FiniteSetTheorems, TLAPS

-----------------------------------------------------------------------------
(***************************************************************************)
(* Sums over finite sets.  Total is a fold, a recursive function on the    *)
(* subsets of its keys.  That there is such a function, and that the order *)
(* in which it takes the keys does not matter, are arguments from the      *)
(* least cardinality at which they would fail.                             *)
(***************************************************************************)
\* A set of natural numbers has a least element: the intervals that end at its
\* members are well-founded.
LEMMA LeastNumber ==
    ASSUME NEW S, S \subseteq Nat, S # {}
    PROVE  \E x \in S : \A y \in S : x <= y
<1> DEFINE Upto(x) == 0..x
           T == {Upto(x) : x \in S}
<1>1. T \subseteq FiniteSubsetsOf(Nat)
  <2> SUFFICES ASSUME NEW x \in S PROVE Upto(x) \in FiniteSubsetsOf(Nat)
    OBVIOUS
  <2>1. IsFiniteSet(0..x)
    BY FS_Interval
  <2> QED
    BY <2>1 DEF FiniteSubsetsOf
<1>2. IsWellFoundedOn(StrictSubsetOrdering(Nat), FiniteSubsetsOf(Nat))
  BY FS_StrictSubsetOrderingWellFounded
<1>3. PICK X \in T : \A Y \in T : <<Y, X>> \notin StrictSubsetOrdering(Nat)
  <2>1. T # {}
    OBVIOUS
  <2> HIDE DEF T
  <2> QED
    BY <1>1, <1>2, <2>1, WFMin
<1>4. PICK x \in S : X = 0..x
  OBVIOUS
<1>5. ASSUME NEW y \in S, y < x PROVE FALSE
  <2>1. 0..y \in SUBSET Nat /\ 0..x \in SUBSET Nat
    OBVIOUS
  <2>2. 0..y \subseteq 0..x /\ x \in 0..x /\ x \notin 0..y
    BY <1>5
  <2>3. <<0..y, 0..x>> \in StrictSubsetOrdering(Nat)
    BY <2>1, <2>2 DEF StrictSubsetOrdering
  <2>4. 0..y \in T
    OBVIOUS
  <2> QED
    BY <1>3, <1>4, <2>3, <2>4
<1> QED
  BY <1>5

Picked(s) == CHOOSE x \in s : TRUE
IsSum(amount, keys, sum) ==
    sum = [s \in SUBSET keys |->
              IF s = {} THEN 0 ELSE amount[Picked(s)] + sum[s \ {Picked(s)}]]

LEMMA TotalIsSum ==
    ASSUME NEW amount, NEW keys
    PROVE  Total(amount, keys) = (CHOOSE sum : IsSum(amount, keys, sum))[keys]
BY Zenon DEF Total, MapThenSumSet, MapThenFoldSet, IsSum, Picked

\* Subsets of a finite set: fewer members without one of them.
LEMMA Smaller ==
    ASSUME NEW keys, IsFiniteSet(keys), NEW s \in SUBSET keys
    PROVE  /\ IsFiniteSet(s) /\ Cardinality(s) \in Nat
           /\ Cardinality(s) = 0 <=> s = {}
           /\ \A x \in s : Cardinality(s \ {x}) = Cardinality(s) - 1
           /\ s # {} => Picked(s) \in s
<1>1. IsFiniteSet(s)
  BY FS_Subset
<1>2. Cardinality(s) \in Nat /\ (Cardinality(s) = 0 <=> s = {})
  BY <1>1, FS_CardinalityType, FS_EmptySet
<1>3. \A x \in s : Cardinality(s \ {x}) = Cardinality(s) - 1
  BY <1>1, FS_RemoveElement
<1>4. s # {} => Picked(s) \in s
  BY DEF Picked
<1> QED
  BY <1>1, <1>2, <1>3, <1>4

\* The recursion has a solution.
LEMMA SumExists ==
    ASSUME NEW keys, IsFiniteSet(keys), NEW amount
    PROVE  \E sum : IsSum(amount, keys, sum)
<1> DEFINE Upto(n) == {s \in SUBSET keys : Cardinality(s) <= n}
           Solves(n, g) == g = [s \in Upto(n) |->
                              IF s = {} THEN 0 ELSE amount[Picked(s)] + g[s \ {Picked(s)}]]
           Bad == {n \in Nat : ~\E g : Solves(n, g)}
<1>1. Bad = {}
  <2> SUFFICES ASSUME Bad # {} PROVE FALSE
    OBVIOUS
  <2>1. PICK n \in Bad : \A m \in Bad : n <= m
    <3>1. Bad \subseteq Nat
      OBVIOUS
    <3> HIDE DEF Bad
    <3> QED
      BY <3>1, LeastNumber
  <2>2. n \in Nat /\ ~\E g : Solves(n, g)
    OBVIOUS
  <2>3. CASE n = 0
    <3> DEFINE g == [s \in Upto(n) |-> 0]
    <3>1. \A s \in Upto(n) : s = {}
      BY <2>3, Smaller
    <3>2. Solves(n, g)
      <4> HIDE DEF Upto
      <4> QED
        BY <3>1
    <3> QED
      BY <2>2, <3>2
  <2>4. CASE n # 0
    <3>1. n - 1 \in Nat /\ n - 1 \notin Bad
      <4>1. n - 1 \in Nat /\ ~(n <= n - 1)
        BY <2>2, <2>4
      <4> HIDE DEF Bad
      <4> QED
        BY <2>1, <4>1
    <3>2. PICK g : Solves(n - 1, g)
      BY <3>1
    <3> DEFINE h == [s \in Upto(n) |->
                        IF s = {} THEN 0 ELSE amount[Picked(s)] + g[s \ {Picked(s)}]]
    <3>3. \A s \in Upto(n) : s # {} => s \ {Picked(s)} \in Upto(n - 1)
      BY <2>2, Smaller
    <3>4. \A s \in Upto(n - 1) : s \in Upto(n)
      BY <2>2, Smaller
    <3> HIDE DEF Upto
    <3>5. \A s \in Upto(n - 1) : h[s] = g[s]
      BY <3>2, <3>4
    <3>6. Solves(n, h)
      BY <3>3, <3>5
    <3> QED
      BY <2>2, <3>6
  <2> QED
    BY <2>3, <2>4
<1>2. Cardinality(keys) \in Nat /\ keys \in SUBSET keys
  BY Smaller
<1>3. PICK g : Solves(Cardinality(keys), g)
  BY <1>1, <1>2
<1>4. Upto(Cardinality(keys)) = SUBSET keys
  BY FS_Subset
<1>5. IsSum(amount, keys, g)
  <2> HIDE DEF Upto
  <2> QED
    BY <1>3, <1>4 DEF IsSum
<1> QED
  BY <1>5

\* All solutions agree, and do not depend on the keys beyond the set summed.
LEMMA SumUnique ==
    ASSUME NEW amount, NEW keys, IsFiniteSet(keys), NEW other, IsFiniteSet(other),
           NEW sum, IsSum(amount, keys, sum), NEW sum2, IsSum(amount, other, sum2)
    PROVE  \A s \in SUBSET (keys \cap other) : sum[s] = sum2[s]
<1> DEFINE Bad == {n \in Nat : \E s \in SUBSET (keys \cap other) :
                                  Cardinality(s) = n /\ sum[s] # sum2[s]}
<1>1. Bad = {}
  <2> SUFFICES ASSUME Bad # {} PROVE FALSE
    OBVIOUS
  <2>1. PICK n \in Bad : \A m \in Bad : n <= m
    <3>1. Bad \subseteq Nat
      OBVIOUS
    <3> HIDE DEF Bad
    <3> QED
      BY <3>1, LeastNumber
  <2>2. PICK s \in SUBSET (keys \cap other) : Cardinality(s) = n /\ sum[s] # sum2[s]
    OBVIOUS
  <2>3. s \in SUBSET keys /\ s \in SUBSET other
    OBVIOUS
  <2>4. s # {}
    BY <2>2, <2>3 DEF IsSum
  <2> DEFINE x == Picked(s)
             r == s \ {x}
  <2>5. x \in s /\ Cardinality(r) \in Nat /\ Cardinality(r) < n
    BY <2>2, <2>3, <2>4, Smaller
  <2>6. r \in SUBSET (keys \cap other) /\ r \in SUBSET keys /\ r \in SUBSET other
    OBVIOUS
  <2>7. sum[r] = sum2[r]
    <3>1. Cardinality(r) \notin Bad
      <4>1. ~(n <= Cardinality(r))
        BY <2>1, <2>5
      <4> HIDE DEF Bad
      <4> QED
        BY <2>1, <4>1
    <3> HIDE DEF r
    <3> QED
      BY <2>5, <2>6, <3>1
  <2>8. sum[s] = amount[x] + sum[r] /\ sum2[s] = amount[x] + sum2[r]
    BY <2>3, <2>4 DEF IsSum
  <2> QED
    BY <2>2, <2>7, <2>8
<1>2. ASSUME NEW s \in SUBSET (keys \cap other) PROVE sum[s] = sum2[s]
  <2>1. Cardinality(s) \in Nat
    BY Smaller
  <2> QED
    BY <1>1, <2>1
<1> QED
  BY <1>2

\* A sum of natural numbers is one, and any of its keys may be taken first.
LEMMA SumFacts ==
    ASSUME NEW amount, NEW keys, IsFiniteSet(keys), \A x \in keys : amount[x] \in Nat,
           NEW sum, IsSum(amount, keys, sum)
    PROVE  \A s \in SUBSET keys :
              sum[s] \in Nat /\ \A x \in s : sum[s] = amount[x] + sum[s \ {x}]
<1> DEFINE Good(s) == sum[s] \in Nat /\ \A x \in s : sum[s] = amount[x] + sum[s \ {x}]
           Bad == {n \in Nat : \E s \in SUBSET keys : Cardinality(s) = n /\ ~Good(s)}
<1>1. Bad = {}
  <2> SUFFICES ASSUME Bad # {} PROVE FALSE
    OBVIOUS
  <2>1. PICK n \in Bad : \A m \in Bad : n <= m
    <3>1. Bad \subseteq Nat
      OBVIOUS
    <3> HIDE DEF Bad
    <3> QED
      BY <3>1, LeastNumber
  <2>2. PICK s \in SUBSET keys : Cardinality(s) = n /\ ~Good(s)
    OBVIOUS
  <2>3. ASSUME NEW r \in SUBSET keys, Cardinality(r) < n PROVE Good(r)
    <3>1. Cardinality(r) \in Nat
      BY Smaller
    <3>2. Cardinality(r) \notin Bad
      <4> HIDE DEF Bad
      <4>1. n \in Nat
        BY DEF Bad
      <4> QED
        BY <2>1, <2>3, <3>1, <4>1
    <3> HIDE DEF Good
    <3> QED
      BY <3>1, <3>2
  <2>4. s # {}
    <3> SUFFICES ASSUME s = {} PROVE Good(s)
      BY <2>2
    <3>1. sum[s] = 0
      BY DEF IsSum
    <3> QED
      BY <3>1
  <2> DEFINE y == Picked(s)
  <2>5. y \in s /\ amount[y] \in Nat
    BY <2>4, Smaller
  <2>6. sum[s] = amount[y] + sum[s \ {y}]
    BY <2>4 DEF IsSum
  <2>7. \A x \in s : Cardinality(s \ {x}) < n
    BY <2>2, Smaller
  <2> HIDE DEF y
  <2>8. Good(s \ {y})
    <3> HIDE DEF Good
    <3> QED
      BY <2>3, <2>5, <2>7
  <2>9. sum[s] \in Nat
    BY <2>5, <2>6, <2>8
  <2>10. ASSUME NEW x \in s PROVE sum[s] = amount[x] + sum[s \ {x}]
    <3>1. CASE x = y
      BY <2>6, <3>1
    <3>2. CASE x # y
      <4>1. Good(s \ {x})
        <5> HIDE DEF Good
        <5> QED
          BY <2>3, <2>7
      <4>2. x \in s \ {y} /\ y \in s \ {x} /\ (s \ {x}) \ {y} = (s \ {y}) \ {x}
        BY <2>5, <3>2
      <4>3. PICK rest : rest = sum[(s \ {y}) \ {x}]
        OBVIOUS
      <4>4. sum[s \ {y}] = amount[x] + rest
        BY <2>8, <4>2, <4>3
      <4>5. sum[s \ {x}] = amount[y] + rest
        BY <4>1, <4>2, <4>3
      <4>6. rest \in Nat
        <5>1. Cardinality((s \ {y}) \ {x}) < n
          <6>1. /\ Cardinality(s \ {y}) \in Nat /\ Cardinality(s \ {y}) = Cardinality(s) - 1
                /\ Cardinality((s \ {y}) \ {x}) = Cardinality(s \ {y}) - 1
            BY <2>5, <4>2, Smaller
          <6> QED
            BY <2>2, <6>1
        <5>2. Good((s \ {y}) \ {x})
          <6> HIDE DEF Good
          <6> QED
            BY <2>3, <5>1
        <5> QED
          BY <4>3, <5>2
      <4>7. amount[x] \in Nat
        OBVIOUS
      <4> QED
        BY <2>5, <2>6, <4>4, <4>5, <4>6, <4>7
    <3> QED
      BY <3>1, <3>2
  <2> QED
    BY <2>2, <2>9, <2>10
<1>2. ASSUME NEW s \in SUBSET keys PROVE Good(s)
  <2>1. Cardinality(s) \in Nat
    BY Smaller
  <2> HIDE DEF Good
  <2> QED
    BY <1>1, <2>1
<1> QED
  BY <1>2

\* What the proofs use of Total.
LEMMA TotalFacts ==
    ASSUME NEW amount, NEW keys, IsFiniteSet(keys), \A x \in keys : amount[x] \in Nat
    PROVE  /\ Total(amount, keys) \in Nat
           /\ keys = {} => Total(amount, keys) = 0
           /\ \A x \in keys : Total(amount, keys) = amount[x] + Total(amount, keys \ {x})
<1> DEFINE sumOf(s) == CHOOSE sum : IsSum(amount, s, sum)
<1>1. \A s \in SUBSET keys : IsSum(amount, s, sumOf(s)) /\ Total(amount, s) = sumOf(s)[s]
  BY TotalIsSum, SumExists, FS_Subset
<1> HIDE DEF sumOf
<1>2. \A s \in SUBSET keys : Total(amount, s) = sumOf(keys)[s]
  <2> SUFFICES ASSUME NEW s \in SUBSET keys PROVE sumOf(s)[s] = sumOf(keys)[s]
    BY <1>1
  <2>1. IsFiniteSet(s) /\ s \in SUBSET (s \cap keys)
    BY FS_Subset
  <2> QED
    BY <1>1, <2>1, SumUnique
<1>3. \A s \in SUBSET keys : /\ sumOf(keys)[s] \in Nat
                             /\ \A x \in s : sumOf(keys)[s] = amount[x] + sumOf(keys)[s \ {x}]
  BY <1>1, SumFacts
<1>4. sumOf(keys)[{}] = 0
  BY <1>1 DEF IsSum
<1> QED
  BY <1>2, <1>3, <1>4

LEMMA TotalWith ==
    ASSUME NEW amount, NEW keys, IsFiniteSet(keys), \A x \in keys : amount[x] \in Nat,
           NEW x \in keys, NEW rest, keys \ {x} = rest
    PROVE  Total(amount, keys) = amount[x] + Total(amount, rest)
BY TotalFacts

LEMMA TotalSame ==
    ASSUME NEW amount, NEW amount2, NEW keys, IsFiniteSet(keys),
           \A x \in keys : amount[x] = amount2[x]
    PROVE  Total(amount, keys) = Total(amount2, keys)
<1>1. ASSUME NEW sum PROVE IsSum(amount, keys, sum) <=> IsSum(amount2, keys, sum)
  <2>1. ASSUME NEW s \in SUBSET keys
        PROVE  (IF s = {} THEN 0 ELSE amount[Picked(s)] + sum[s \ {Picked(s)}])
             = (IF s = {} THEN 0 ELSE amount2[Picked(s)] + sum[s \ {Picked(s)}])
    BY Smaller
  <2> QED
    BY <2>1 DEF IsSum
<1>2. PICK sum : IsSum(amount, keys, sum)
  BY SumExists
<1>3. /\ IsSum(amount, keys, CHOOSE x : IsSum(amount, keys, x))
      /\ IsSum(amount2, keys, CHOOSE x : IsSum(amount2, keys, x))
  BY <1>1, <1>2
<1>4. IsSum(amount, keys, CHOOSE x : IsSum(amount2, keys, x))
  BY <1>1, <1>3
<1>5. keys \in SUBSET (keys \cap keys)
  OBVIOUS
<1> QED
  BY <1>3, <1>4, <1>5, SumUnique, TotalIsSum

-----------------------------------------------------------------------------
(***************************************************************************)
(* Draining: what is sent, what is paid for it, and what may leave.        *)
(***************************************************************************)
Places == {"release", "dispatch", "work", "retire", "advance", "done"}

\* The type invariant without the occupancy counters, which the accounts below
\* keep from going negative.
Types ==
    /\ trace \in Traces /\ pc \in Places /\ sub \in 0..(TicksPerCycle - 1)
    /\ next \in 0..NumMacros /\ admitted \in 0..NumMacros /\ retired \in 0..NumMacros
    /\ progress \in [Macro -> Nat] /\ sent \in [Macro -> 0..MaxUops]
    /\ partitionOf \in [Uop -> Partition \cup {NoPartition}]
    /\ issued \subseteq Uop /\ completed \subseteq Macro
    /\ dispatched \in 0..DispatchWidth /\ renameUsage \in Nat /\ width \in Nat
    /\ enqueues \in [Partition -> Nat] /\ domainUsage \in [Domain -> Nat]
    /\ free \in [File -> Nat]
    /\ pending \in Seq([wait : 0..ReleaseDelay, owed : [File -> Nat]])

\* The next macro-op is the only one that may be admitted and not sent as a whole.
Sending ==
    /\ next <= admitted /\ admitted <= next + 1
    /\ \A m \in Macro : /\ m <= next => sent[m] = UopCount(m)
                        /\ m > next => sent[m] < UopCount(m)
                        /\ m > admitted => sent[m] = 0 /\ progress[m] = 0

\* What has issued was sent, what has completed has issued and what has retired
\* has completed.
Leaving ==
    /\ \A u \in issued : Dispatched(u)
    /\ \A m \in completed : AllIssued(m)
    /\ \A m \in 1..retired : m \in completed
    /\ retired <= next

LEMMA TraceFields ==
    ASSUME Types, NEW m \in Macro
    PROVE  /\ UopCount(m) \in 1..MaxUops /\ MaxUops \in Nat /\ NumMacros \in Nat
           /\ trace.units[m] \in Nat \ {0} /\ trace.retireOps[m] \in 1..RetireWidth
           /\ trace.entries[m] \in 1..RobEntries /\ RobEntries \in Nat
           /\ trace.choices[m] \in Seq(SUBSET Partition)
           /\ trace.vector[m] \subseteq 1..UopCount(m)
           /\ trace.rename[m] \in [File -> Nat] /\ trace.demand[m] \in [Domain -> Nat]
           /\ m \in Nat /\ sent[m] \in Nat /\ progress[m] \in Nat
<1>1. ValidTrace(trace)
  BY TraceAssumption DEF Types
<1>2. MaxUops \in Nat /\ NumMacros \in Nat /\ RobEntries \in Nat /\ m \in Nat
  BY PipelineAssumption DEF Macro
<1>3. sent[m] \in Nat /\ progress[m] \in Nat
  BY <1>2 DEF Types
<1>4. UopCount(m) \in 1..MaxUops /\ trace.choices[m] \in Seq(SUBSET Partition)
  BY <1>1 DEF ValidTrace, UopCount
<1>5. trace.vector[m] \subseteq 1..UopCount(m)
  BY <1>1 DEF ValidTrace, UopCount
<1>6. /\ trace.units[m] \in Nat \ {0} /\ trace.retireOps[m] \in 1..RetireWidth
      /\ trace.entries[m] \in 1..RobEntries
      /\ trace.rename[m] \in [File -> Nat] /\ trace.demand[m] \in [Domain -> Nat]
  BY <1>1 DEF ValidTrace
<1> QED
  BY <1>2, <1>3, <1>4, <1>5, <1>6

\* Division without a remainder, and its monotony.
LEMMA ShareOfAll ==
    ASSUME NEW n \in Nat \ {0}, NEW units \in Nat
    PROVE  (n * units) \div n = units
<1>1. PICK q \in Int : q = (n * units) \div n
  OBVIOUS
<1>2. n * q <= n * units /\ n * units < n * (q + 1)
  BY <1>1
<1>3. ASSUME q < units PROVE FALSE
  <2>1. n * (q + 1) <= n * units
    BY <1>3
  <2> QED
    BY <1>2, <2>1
<1>4. ASSUME q > units PROVE FALSE
  <2>1. n * q >= n * (units + 1)
    BY <1>4
  <2>2. n * (units + 1) = n * units + n
    OBVIOUS
  <2> QED
    BY <1>2, <2>1, <2>2
<1> QED
  BY <1>1, <1>3, <1>4

LEMMA SharesAscend ==
    ASSUME NEW n \in Nat \ {0}, NEW units \in Nat, NEW j \in Nat, NEW k \in Nat, j <= k
    PROVE  /\ (j * units) \div n \in Nat /\ (k * units) \div n \in Nat
           /\ (j * units) \div n <= (k * units) \div n
<1>1. j * units <= k * units /\ j * units \in Nat /\ k * units \in Nat
  OBVIOUS
<1>2. PICK a, b \in Nat : a = j * units /\ b = k * units
  BY <1>1
<1>3. a \div n \in Nat /\ b \div n \in Nat /\ a <= b
  BY <1>1, <1>2
<1>4. PICK p, q \in Nat : p = a \div n /\ q = b \div n
  BY <1>3
<1>5. n * p <= a /\ b < n * (q + 1)
  BY <1>4
<1>6. ASSUME p >= q + 1 PROVE FALSE
  <2>1. n * (q + 1) <= n * p
    BY <1>6
  <2> QED
    BY <1>3, <1>5, <2>1
<1> QED
  BY <1>2, <1>4, <1>6

LEMMA AccountedFacts ==
    ASSUME Types, NEW m \in Macro
    PROVE  /\ Accounted(m, 0) = 0 /\ Accounted(m, UopCount(m)) = trace.units[m]
           /\ \A j, k \in Nat : j <= k => /\ Accounted(m, j) \in Nat /\ Accounted(m, k) \in Nat
                                          /\ Accounted(m, j) <= Accounted(m, k)
<1>1. UopCount(m) \in Nat \ {0} /\ trace.units[m] \in Nat
  BY TraceFields
<1>2. Accounted(m, UopCount(m)) = trace.units[m]
  BY <1>1, ShareOfAll DEF Accounted
<1>3. Accounted(m, 0) = 0
  BY <1>1 DEF Accounted
<1>4. ASSUME NEW j \in Nat, NEW k \in Nat, j <= k
      PROVE  /\ Accounted(m, j) \in Nat /\ Accounted(m, k) \in Nat
             /\ Accounted(m, j) <= Accounted(m, k)
  BY <1>1, <1>4, SharesAscend DEF Accounted
<1> QED
  BY <1>2, <1>3, <1>4
\* Steps that admit, send, issue, complete and retire nothing.
Idle == UNCHANGED <<trace, admitted, retired, issued, completed, partOcc, queues, drain>>

LEMMA StepCases ==
    ASSUME [Next]_vars
    PROVE  \/ Idle
           \/ \E m \in Macro, plan \in Plan : DispatchChunk(m, plan)
           \/ \E m \in Macro : ConsumeBudget(m)
           \/ \E u \in Uop : Issue(u)
           \/ \E m \in Macro : Complete(m)
           \/ \E m \in Macro : Retire(m)
<1>1. CASE ReturnBatch
  BY <1>1 DEF ReturnBatch, Idle
<1>2. CASE ReleaseReturns
  BY <1>2 DEF ReleaseReturns, Idle
<1>3. CASE DispatchReturns
  BY <1>3 DEF DispatchReturns, Idle
<1>4. CASE WorkReturns
  BY <1>4 DEF WorkReturns, Idle
<1>5. CASE RetireReturns
  BY <1>5 DEF RetireReturns, Idle
<1>6. CASE \E ticks \in 1..TicksPerCycle : Advance(ticks)
  BY <1>6 DEF Advance, Idle
<1>7. CASE Finish
  BY <1>7 DEF Finish, Idle
<1>8. CASE Stopped \/ UNCHANGED vars
  BY <1>8 DEF Stopped, vars, Idle
<1> QED
  BY <1>1, <1>2, <1>3, <1>4, <1>5, <1>6, <1>7, <1>8 DEF Next

\* The chunk that is sent: uops that are left, that the budget pays for and the
\* partitions take.
LEMMA ChunkFacts ==
    ASSUME Types, NEW m \in Macro, NEW plan \in Plan, DispatchChunk(m, plan)
    PROVE  /\ Len(plan) \in Nat \ {0} /\ sent[m] + Len(plan) <= UopCount(m)
           /\ Delta(m, Len(plan)) \in 0..Budget
           /\ plan \in [1..Len(plan) -> Partition \cup {NoPartition}]
           /\ plan \in Assignments(m, Len(plan))
           /\ \A p \in Partition : Assigned(plan, p) \in Nat /\ Accepts(plan, p)
           /\ m = next + 1 /\ Admissible(m) /\ Admit(m)
<1> DEFINE k == Len(plan)
<1>1. k \in 1..Unsent(m) /\ Delta(m, k) \in 0..Budget /\ plan \in Plans(m, k)
  BY DEF DispatchChunk, Chunks, Affordable
<1>2. k \in Nat \ {0} /\ sent[m] + k <= UopCount(m)
  BY <1>1, TraceFields DEF Unsent
<1>3. plan \in Assignments(m, k) /\ \A p \in Partition : Accepts(plan, p)
  BY <1>1 DEF Plans
<1>4. plan \in [1..k -> Partition \cup {NoPartition}]
  BY <1>3 DEF Assignments
<1>5. ASSUME NEW p \in Partition PROVE Assigned(plan, p) \in Nat
  <2>1. IsFiniteSet(1..k)
    BY <1>2, FS_Interval
  <2>2. IsFiniteSet({i \in DOMAIN plan : plan[i] = p})
    BY <1>4, <2>1, FS_Subset
  <2> QED
    BY <2>2, FS_CardinalityType DEF Assigned
<1>6. m = next + 1 /\ Admissible(m) /\ Admit(m)
  BY DEF DispatchChunk, Dispatching
<1> QED
  BY <1>1, <1>2, <1>3, <1>4, <1>5, <1>6

LEMMA ConsumeFacts ==
    ASSUME Types, NEW m \in Macro, ConsumeBudget(m)
    PROVE  /\ m = next + 1 /\ Admissible(m) /\ Admit(m)
           /\ Budget \in Nat \ {0} /\ Delta(m, 1) > Budget
<1>1. m = next + 1 /\ Admissible(m) /\ Admit(m) /\ Budget > 0 /\ Delta(m, 1) > Budget
  BY DEF ConsumeBudget, Dispatching, BudgetLimited
<1>2. Budget \in Nat
  BY PipelineAssumption DEF Types, Budget
<1> QED
  BY <1>1, <1>2
-----------------------------------------------------------------------------
\* Types.
LEMMA RenameTotal ==
    ASSUME Types, NEW m \in Macro
    PROVE  Total(trace.rename[m], File) \in Nat /\ \A f \in File : trace.rename[m][f] \in Nat
<1>1. \A f \in File : trace.rename[m][f] \in Nat
  BY TraceFields
<1>2. IsFiniteSet(File)
  BY RenameAssumption
<1> QED
  BY <1>1, <1>2, TotalFacts

LEMMA AdmitTypes ==
    ASSUME Types, NEW m \in Macro, Admissible(m), Admit(m)
    PROVE  /\ admitted' \in 0..NumMacros
           /\ domainUsage' \in [Domain -> Nat] /\ renameUsage' \in Nat
           /\ free' \in [File -> Nat]
<1>1. CASE m <= admitted
  BY <1>1 DEF Types, Admit
<1>2. CASE ~(m <= admitted)
  <2>1. admitted' = m /\ m \in 0..NumMacros
    BY <1>2, TraceFields DEF Admit, Macro
  <2>2. domainUsage' \in [Domain -> Nat]
    <3>1. domainUsage' = [d \in Domain |-> domainUsage[d] + trace.demand[m][d]]
      BY <1>2 DEF Admit
    <3>2. \A d \in Domain : domainUsage[d] \in Nat /\ trace.demand[m][d] \in Nat
      BY TraceFields DEF Types
    <3> QED
      BY <3>1, <3>2
  <2>3. renameUsage' \in Nat
    BY <1>2, RenameTotal DEF Admit, Types
  <2>4. free' \in [File -> Nat]
    <3>1. free' = [f \in File |-> free[f] - trace.rename[m][f]]
      BY <1>2 DEF Admit
    <3>2. ASSUME NEW f \in File PROVE free[f] - trace.rename[m][f] \in Nat
      <4>1. free[f] \in Nat /\ trace.rename[m][f] \in Nat /\ GuardEntries \in Nat
        BY RenameTotal, RenameAssumption DEF Types
      <4>2. ~RenameBlocked(m)
        BY <1>2 DEF Admissible, AdmissionBlocked
      <4>3. trace.rename[m][f] > 0 => ~(free[f] - trace.rename[m][f] < GuardEntries)
        BY <4>2 DEF RenameBlocked
      <4> QED
        BY <4>1, <4>3
    <3> QED
      BY <3>1, <3>2
  <2> QED
    BY <2>1, <2>2, <2>3, <2>4
<1> QED
  BY <1>1, <1>2

\* Queues.
LEMMA HeadAndTail ==
    ASSUME NEW S, NEW q \in Seq(S), q # <<>>
    PROVE  Head(q) = q[1] /\ q[1] \in S /\ Tail(q) \in Seq(S)
<1>1. Len(q) \in Nat /\ Len(q) # 0
  OBVIOUS
<1>2. 1 \in 1..Len(q)
  BY <1>1
<1> QED
  BY <1>2

LEMMA PutFirst ==
    ASSUME NEW S, NEW q \in Seq(S), NEW e \in S
    PROVE  <<e>> \o q \in Seq(S)
OBVIOUS

\* What comes back of a batch, and what is left of it.
LEMMA ReturnedFacts ==
    ASSUME Types, ReturnBatch
    PROVE  /\ pending # <<>> /\ pending[1] \in [wait : 0..ReleaseDelay, owed : [File -> Nat]]
           /\ Head(pending) = pending[1] /\ pending[1].wait = 0
           /\ \A f \in File : Returned(pending[1].owed, f) \in 0..pending[1].owed[f]
<1>1. pending # <<>> /\ Head(pending).wait = 0 /\ width < ReleaseWidth
  BY DEF ReturnBatch, Ready
<1>2. pending[1] \in [wait : 0..ReleaseDelay, owed : [File -> Nat]] /\ Head(pending) = pending[1]
  BY <1>1, HeadAndTail DEF Types
<1>3. ASSUME NEW f \in File PROVE Returned(pending[1].owed, f) \in 0..pending[1].owed[f]
  <2> DEFINE o == pending[1].owed
             s == {g \in File : g < f}
  <2>1. \A g \in File : o[g] \in Nat
    BY <1>2
  <2>2. IsFiniteSet(s)
    BY RenameAssumption, FS_Subset
  <2>3. \A g \in s : o[g] \in Nat
    BY <2>1
  <2>4. Total(o, s) \in Nat
    <3> HIDE DEF o, s
    <3> QED
      BY <2>2, <2>3, TotalFacts
  <2>5. width \in Nat /\ ReleaseWidth \in Nat /\ o[f] \in Nat
    BY <2>1, RenameAssumption DEF Types
  <2> HIDE DEF o, s
  <2>6. Returned(o, f) \in 0..o[f]
    <3>1. Returned(o, f) = IF ReleaseWidth - width - Total(o, s) < 0 THEN 0
                           ELSE Least(o[f], ReleaseWidth - width - Total(o, s))
      BY DEF Returned, s
    <3> QED
      BY <2>4, <2>5, <3>1 DEF Least
  <2> QED
    BY <2>6 DEF o
<1> QED
  BY <1>1, <1>2, <1>3

LEMMA ReturnTypes ==
    ASSUME Types, ReturnBatch
    PROVE  /\ free' \in [File -> Nat] /\ width' \in Nat
           /\ pending' \in Seq([wait : 0..ReleaseDelay, owed : [File -> Nat]])
<1> DEFINE o == pending[1].owed
           Batch == [wait : 0..ReleaseDelay, owed : [File -> Nat]]
<1>1. \A f \in File : Returned(o, f) \in 0..o[f] /\ o[f] \in Nat
  BY ReturnedFacts
<1>2. \A f \in File : Returned(o, f) \in Nat /\ o[f] - Returned(o, f) \in Nat
  BY <1>1
<1>3. /\ free' = [f \in File |-> free[f] + Returned(o, f)]
      /\ pending' = AfterReturn(o)
      /\ width' = width + Total([f \in File |-> Returned(o, f)], File)
  BY ReturnedFacts DEF ReturnBatch
<1>4. Tail(pending) \in Seq(Batch)
  BY ReturnedFacts, HeadAndTail DEF Types
<1> HIDE DEF o
<1>5. free' \in [File -> Nat]
  BY <1>2, <1>3 DEF Types
<1>6. width' \in Nat
  <2> DEFINE r == [f \in File |-> Returned(o, f)]
  <2>1. \A f \in File : r[f] \in Nat
    BY <1>2
  <2>2. IsFiniteSet(File) /\ width \in Nat
    BY RenameAssumption DEF Types
  <2>3. width' = width + Total(r, File)
    BY <1>3
  <2> HIDE DEF r
  <2>4. Total(r, File) \in Nat
    BY <2>1, <2>2, TotalFacts
  <2> QED
    BY <2>2, <2>3, <2>4
<1>7. pending' \in Seq(Batch)
  <2> DEFINE left == [f \in File |-> o[f] - Returned(o, f)]
  <2>1. left \in [File -> Nat]
    BY <1>2
  <2>2. AfterReturn(o) = IF \E f \in File : left[f] > 0
                         THEN <<[wait |-> 0, owed |-> left]>> \o Tail(pending)
                         ELSE Tail(pending)
    BY DEF AfterReturn
  <2> HIDE DEF left
  <2>3. [wait |-> 0, owed |-> left] \in Batch
    BY <2>1, RenameAssumption
  <2> HIDE DEF Batch
  <2>4. <<[wait |-> 0, owed |-> left]>> \o Tail(pending) \in Seq(Batch)
    BY <1>4, <2>3, PutFirst
  <2> QED
    BY <1>3, <1>4, <2>2, <2>4
<1> QED
  BY <1>5, <1>6, <1>7
LEMMA DispatchTypes ==
    ASSUME Types, NEW m \in Macro, NEW plan \in Plan, DispatchChunk(m, plan)
    PROVE  Types'
<1> DEFINE k == Len(plan)
<1>1. /\ k \in Nat \ {0} /\ sent[m] + k <= UopCount(m) /\ Delta(m, k) \in 0..Budget
      /\ plan \in [1..k -> Partition \cup {NoPartition}]
      /\ \A p \in Partition : Assigned(plan, p) \in Nat
  BY ChunkFacts
<1>2. Admissible(m) /\ Admit(m) /\ m = next + 1
  BY ChunkFacts
<1>3. /\ UopCount(m) \in 1..MaxUops /\ m \in 1..NumMacros /\ MaxUops \in Nat
      /\ sent[m] \in Nat /\ progress[m] \in Nat /\ NumMacros \in Nat
  BY TraceFields DEF Macro
<1>4. trace' \in Traces /\ sub' \in 0..(TicksPerCycle - 1) /\ retired' \in 0..NumMacros
  BY DEF DispatchChunk, Types
<1>5. issued' \subseteq Uop /\ completed' \subseteq Macro /\ width' \in Nat
  BY DEF DispatchChunk, Types
<1>6. pending' \in Seq([wait : 0..ReleaseDelay, owed : [File -> Nat]])
  BY DEF DispatchChunk, Types
<1>7. pc' \in Places
  BY DEF DispatchChunk, Places
<1>8. next' \in 0..NumMacros
  BY <1>3 DEF DispatchChunk, Types
<1>9. /\ admitted' \in 0..NumMacros
      /\ domainUsage' \in [Domain -> Nat] /\ renameUsage' \in Nat
      /\ free' \in [File -> Nat]
  BY <1>2, AdmitTypes
<1>10. progress' \in [Macro -> Nat] /\ sent' \in [Macro -> 0..MaxUops]
  <2>1. progress[m] + Delta(m, k) \in Nat /\ sent[m] + k \in 0..MaxUops
    BY <1>1, <1>3
  <2>2. progress' = [progress EXCEPT ![m] = @ + Delta(m, k)] /\ sent' = [sent EXCEPT ![m] = @ + k]
    BY DEF DispatchChunk
  <2> QED
    BY <2>1, <2>2 DEF Types
<1>11. partitionOf' \in [Uop -> Partition \cup {NoPartition}]
  <2>1. partitionOf' = [u \in Uop |->
                          IF u[1] = m /\ u[2] - sent[m] \in 1..k THEN plan[u[2] - sent[m]]
                          ELSE partitionOf[u]]
    BY DEF DispatchChunk
  <2> QED
    BY <1>1, <2>1 DEF Types
<1>12. dispatched' \in 0..DispatchWidth
  <2>1. dispatched' = dispatched + Delta(m, k) /\ Budget = DispatchWidth - dispatched
    BY DEF DispatchChunk, Budget
  <2>2. dispatched \in 0..DispatchWidth /\ DispatchWidth \in Nat
    BY PipelineAssumption DEF Types
  <2> QED
    BY <1>1, <2>1, <2>2
<1>13. enqueues' \in [Partition -> Nat]
  <2>1. enqueues' = [p \in Partition |-> enqueues[p] + Assigned(plan, p)]
    BY DEF DispatchChunk
  <2> QED
    BY <1>1, <2>1 DEF Types
<1> QED
  BY <1>4, <1>5, <1>6, <1>7, <1>8, <1>9, <1>10, <1>11, <1>12, <1>13 DEF Types

LEMMA ConsumeTypes ==
    ASSUME Types, NEW m \in Macro, ConsumeBudget(m)
    PROVE  Types'
<1>1. Admissible(m) /\ Admit(m) /\ Budget \in Nat
  BY ConsumeFacts
<1>2. /\ admitted' \in 0..NumMacros
      /\ domainUsage' \in [Domain -> Nat] /\ renameUsage' \in Nat
      /\ free' \in [File -> Nat]
  BY <1>1, AdmitTypes
<1>3. progress' \in [Macro -> Nat]
  BY <1>1 DEF ConsumeBudget, Types
<1>4. dispatched' \in 0..DispatchWidth
  <2>1. dispatched' = dispatched + Budget /\ Budget = DispatchWidth - dispatched
    BY DEF ConsumeBudget, Budget
  <2>2. dispatched \in 0..DispatchWidth /\ DispatchWidth \in Nat
    BY PipelineAssumption DEF Types
  <2> QED
    BY <2>1, <2>2
<1>5. /\ trace' \in Traces /\ pc' \in Places /\ sub' \in 0..(TicksPerCycle - 1)
      /\ next' \in 0..NumMacros /\ retired' \in 0..NumMacros /\ sent' \in [Macro -> 0..MaxUops]
  BY DEF ConsumeBudget, Types, Places
<1>6. /\ partitionOf' \in [Uop -> Partition \cup {NoPartition}]
      /\ issued' \subseteq Uop /\ completed' \subseteq Macro /\ width' \in Nat
      /\ enqueues' \in [Partition -> Nat]
      /\ pending' \in Seq([wait : 0..ReleaseDelay, owed : [File -> Nat]])
  BY DEF ConsumeBudget, Types
<1> QED
  BY <1>2, <1>3, <1>4, <1>5, <1>6 DEF Types

\* Time passes: the batches on their way come nearer.
LEMMA AdvanceWaits ==
    ASSUME Types, NEW ticks \in 1..TicksPerCycle, Advance(ticks)
    PROVE  pending' \in Seq([wait : 0..ReleaseDelay, owed : [File -> Nat]])
<1> DEFINE Batch == [wait : 0..ReleaseDelay, owed : [File -> Nat]]
           later(b) == [b EXCEPT !.wait = IF @ < ticks THEN 0 ELSE @ - ticks]
<1>1. pending' = [i \in DOMAIN pending |-> later(pending[i])]
  BY DEF Advance
<1>2. pending \in Seq(Batch)
  BY DEF Types
<1>3. ASSUME NEW b \in Batch PROVE later(b) \in Batch
  <2>1. TicksPerCycle \in Nat /\ ReleaseDelay \in Nat
    BY PipelineAssumption, RenameAssumption
  <2>2. b.wait \in 0..ReleaseDelay /\ b.owed \in [File -> Nat]
    OBVIOUS
  <2>3. (IF b.wait < ticks THEN 0 ELSE b.wait - ticks) \in 0..ReleaseDelay
    BY <2>1, <2>2
  <2> QED
    BY <2>3
<1> HIDE DEF Batch, later
<1>4. \A i \in 1..Len(pending) : later(pending[i]) \in Batch
  BY <1>2, <1>3
<1>5. DOMAIN pending = 1..Len(pending) /\ Len(pending) \in Nat
  BY <1>2
<1>6. pending' \in Seq(Batch)
  BY <1>1, <1>4, <1>5
<1> QED
  BY <1>6 DEF Batch

LEMMA StepTypes ==
    ASSUME Types, [Next]_vars
    PROVE  Types'
<1>1. CASE ReturnBatch
  <2>1. /\ free' \in [File -> Nat] /\ width' \in Nat
        /\ pending' \in Seq([wait : 0..ReleaseDelay, owed : [File -> Nat]])
    BY <1>1, ReturnTypes
  <2> QED
    BY <1>1, <2>1 DEF Types, ReturnBatch, cycle, drain
<1>2. CASE ReleaseReturns
  BY <1>2 DEF Types, ReleaseReturns, cycle, drain, rename, Places
<1>3. CASE \E m \in Macro, plan \in Plan : DispatchChunk(m, plan)
  BY <1>3, DispatchTypes
<1>4. CASE \E m \in Macro : ConsumeBudget(m)
  BY <1>4, ConsumeTypes
<1>5. CASE DispatchReturns
  BY <1>5 DEF Types, DispatchReturns, cycle, drain, rename, Places
<1>6. CASE \E u \in Uop : Issue(u)
  BY <1>6 DEF Types, Issue, cycle, drain, rename
<1>7. CASE \E m \in Macro : Complete(m)
  BY <1>7 DEF Types, Complete, cycle, drain, rename
<1>8. CASE WorkReturns
  BY <1>8 DEF Types, WorkReturns, cycle, drain, rename, Places
<1>9. CASE \E m \in Macro : Retire(m)
  <2>1. PICK m \in Macro : Retire(m)
    BY <1>9
  <2>2. /\ trace.rename[m] \in [File -> Nat] /\ trace.retireOps[m] \in Nat /\ m \in 0..NumMacros
    <3>1. RetireWidth \in Nat
      BY PipelineAssumption
    <3> QED
      BY <3>1, TraceFields DEF Macro
  <2>3. width' \in Nat /\ retired' \in 0..NumMacros
    <3>1. width \in Nat /\ width' = width + trace.retireOps[m] /\ retired' = m
      BY <2>1 DEF Retire, Types
    <3> QED
      BY <2>2, <3>1
  <2>4. pending' \in Seq([wait : 0..ReleaseDelay, owed : [File -> Nat]])
    <3> DEFINE b == [wait |-> ReleaseDelay, owed |-> trace.rename[m]]
               Batch == [wait : 0..ReleaseDelay, owed : [File -> Nat]]
    <3>1. b \in Batch
      BY <2>2, RenameAssumption
    <3>2. pending \in Seq(Batch) /\ pending' = IF Renames(m) THEN Append(pending, b) ELSE pending
      BY <2>1 DEF Retire, Types
    <3> HIDE DEF b, Batch
    <3>3. pending' \in Seq(Batch)
      BY <3>1, <3>2
    <3> QED
      BY <3>3 DEF Batch
  <2> QED
    BY <2>1, <2>3, <2>4 DEF Types, Retire, cycle, drain
<1>10. CASE RetireReturns
  BY <1>10 DEF Types, RetireReturns, cycle, drain, rename, Places
<1>11. CASE \E ticks \in 1..TicksPerCycle : Advance(ticks)
  <2>1. PICK ticks \in 1..TicksPerCycle : Advance(ticks)
    BY <1>11
  <2>2. pending' \in Seq([wait : 0..ReleaseDelay, owed : [File -> Nat]])
    BY <2>1, AdvanceWaits
  <2>3. sub' \in 0..(TicksPerCycle - 1)
    <3>1. sub' = (sub + ticks) % TicksPerCycle /\ sub \in 0..(TicksPerCycle - 1)
      BY <2>1 DEF Types, Advance
    <3>2. TicksPerCycle \in Nat \ {0}
      BY PipelineAssumption
    <3>3. sub + ticks \in Nat
      BY <3>1, <3>2
    <3> QED
      BY <3>1, <3>2, <3>3
  <2>4. dispatched' \in 0..DispatchWidth
    BY <2>1, PipelineAssumption DEF Advance
  <2>5. /\ renameUsage' \in Nat /\ width' \in Nat /\ pc' \in Places
        /\ enqueues' \in [Partition -> Nat] /\ domainUsage' \in [Domain -> Nat]
    BY <2>1 DEF Advance, Places
  <2>6. /\ trace' \in Traces /\ admitted' \in 0..NumMacros /\ retired' \in 0..NumMacros
        /\ issued' \subseteq Uop /\ completed' \subseteq Macro /\ free' \in [File -> Nat]
        /\ next' \in 0..NumMacros /\ progress' \in [Macro -> Nat] /\ sent' \in [Macro -> 0..MaxUops]
        /\ partitionOf' \in [Uop -> Partition \cup {NoPartition}]
    BY <2>1 DEF Advance, Types, drain
  <2> QED
    BY <2>2, <2>3, <2>4, <2>5, <2>6 DEF Types
<1>12. CASE Finish
  BY <1>12 DEF Types, Finish, cycle, drain, rename, Places
<1>13. CASE Stopped \/ UNCHANGED vars
  BY <1>13 DEF Types, Stopped, vars, cycle, drain, rename, Places
<1> QED
  BY <1>1, <1>2, <1>3, <1>4, <1>5, <1>6, <1>7, <1>8, <1>9, <1>10, <1>11, <1>12, <1>13 DEF Next
-----------------------------------------------------------------------------
\* The progress of draining.
LEMMA AdmitNext ==
    ASSUME Types, Sending, NEW m \in Macro, m = next + 1, Admit(m)
    PROVE  admitted' = m
BY TraceFields DEF Admit, Sending, Types

LEMMA SendingKept ==
    ASSUME Types, Sending, ProgressAccounted, UNCHANGED <<trace, admitted, drain>>
    PROVE  Sending' /\ ProgressAccounted'
<1>1. trace' = trace /\ admitted' = admitted /\ next' = next /\ progress' = progress /\ sent' = sent
  BY DEF drain
<1>2. Sending'
  BY <1>1 DEF Sending, UopCount
<1>3. ProgressAccounted'
  BY <1>1 DEF ProgressAccounted, Accounted, UopCount
<1> QED
  BY <1>2, <1>3

LEMMA SendingDispatch ==
    ASSUME Types, Sending, ProgressAccounted,
           NEW m \in Macro, NEW plan \in Plan, DispatchChunk(m, plan)
    PROVE  Sending' /\ ProgressAccounted'
<1> DEFINE k == Len(plan)
<1>1. /\ k \in Nat \ {0} /\ sent[m] + k <= UopCount(m) /\ m = next + 1 /\ Admit(m)
      /\ trace' = trace
  BY ChunkFacts DEF DispatchChunk
<1>2. admitted' = m /\ next \in Nat /\ admitted \in Nat /\ m \in 1..NumMacros
  BY <1>1, AdmitNext DEF Types, Macro
<1>3. /\ sent' = [sent EXCEPT ![m] = @ + k] /\ progress' = [progress EXCEPT ![m] = @ + Delta(m, k)]
      /\ sent \in [Macro -> 0..MaxUops] /\ progress \in [Macro -> Nat]
  BY DEF DispatchChunk, Types
<1>4. /\ UopCount(m) \in Nat /\ sent[m] \in Nat /\ progress[m] \in Nat
  BY TraceFields
<1>5. /\ sent'[m] = sent[m] + k
      /\ \A x \in Macro : x # m => sent'[x] = sent[x] /\ progress'[x] = progress[x]
  BY <1>3
<1>6. \A x \in Macro : UopCount(x)' = UopCount(x) /\ \A j : Accounted(x, j)' = Accounted(x, j)
  BY <1>1 DEF UopCount, Accounted
<1>7. next' = IF sent'[m] = UopCount(m) THEN m ELSE next
  BY DEF DispatchChunk
<1>8. \A x \in Macro : x \in Nat
  BY DEF Macro
<1>9. Sending'
  <2>1. next' <= admitted' /\ admitted' <= next' + 1
    BY <1>1, <1>2, <1>7
  <2>2. ASSUME NEW x \in Macro
        PROVE  /\ x <= next' => sent'[x] = UopCount(x)
               /\ x > next' => sent'[x] < UopCount(x)
               /\ x > admitted' => sent'[x] = 0 /\ progress'[x] = 0
    <3>1. CASE x = m
      BY <1>1, <1>2, <1>4, <1>5, <1>7, <3>1
    <3>2. CASE x # m
      <4>1. x <= next' <=> x <= next
        BY <1>1, <1>2, <1>7, <1>8, <3>2
      <4>2. x > next' <=> x > next
        BY <1>1, <1>2, <1>7, <1>8, <3>2
      <4>3. x > admitted' => x > admitted
        BY <1>1, <1>2, <1>8 DEF Sending
      <4> QED
        BY <1>5, <3>2, <4>1, <4>2, <4>3 DEF Sending
    <3> QED
      BY <3>1, <3>2
  <2> QED
    BY <1>6, <2>1, <2>2 DEF Sending
<1>10. ProgressAccounted'
  <2>1. progress'[m] = Accounted(m, sent'[m])
    <3>1. progress'[m] = progress[m] + Delta(m, k)
      BY <1>3
    <3>2. Accounted(m, sent[m] + k) \in Nat
      BY <1>1, <1>4, AccountedFacts
    <3> QED
      BY <1>4, <1>5, <3>1, <3>2 DEF Delta
  <2>2. ASSUME NEW x \in Macro
        PROVE  IF sent'[x] = UopCount(x) THEN progress'[x] = trace.units[x]
               ELSE /\ Accounted(x, sent'[x]) <= progress'[x]
                    /\ progress'[x] <= Accounted(x, sent'[x] + 1)
    <3>1. CASE x = m
      <4>1. CASE sent'[m] = UopCount(m)
        BY <2>1, <3>1, <4>1, AccountedFacts
      <4>2. CASE sent'[m] # UopCount(m)
        <5>1. sent'[m] \in Nat /\ sent'[m] + 1 \in Nat /\ sent'[m] <= sent'[m] + 1
          BY <1>1, <1>4, <1>5
        <5>2. /\ Accounted(m, sent'[m]) \in Nat
              /\ Accounted(m, sent'[m]) <= Accounted(m, sent'[m] + 1)
          BY <5>1, AccountedFacts
        <5> QED
          BY <2>1, <3>1, <4>2, <5>2
      <4> QED
        BY <4>1, <4>2
    <3>2. CASE x # m
      BY <1>5, <3>2 DEF ProgressAccounted
    <3> QED
      BY <3>1, <3>2
  <2> QED
    BY <1>1, <1>6, <2>2 DEF ProgressAccounted
<1> QED
  BY <1>9, <1>10

LEMMA SendingConsume ==
    ASSUME Types, Sending, ProgressAccounted, NEW m \in Macro, ConsumeBudget(m)
    PROVE  Sending' /\ ProgressAccounted'
<1>1. m = next + 1 /\ Admit(m) /\ Budget \in Nat \ {0} /\ Delta(m, 1) > Budget
  BY ConsumeFacts
<1>2. trace' = trace /\ next' = next /\ sent' = sent
  BY DEF ConsumeBudget
<1>3. admitted' = m /\ next \in Nat /\ admitted \in Nat
  BY <1>1, AdmitNext DEF Types
<1>4. progress' = [progress EXCEPT ![m] = @ + Budget] /\ progress \in [Macro -> Nat]
  BY DEF ConsumeBudget, Types
<1>5. progress'[m] = progress[m] + Budget /\ \A x \in Macro : x # m => progress'[x] = progress[x]
  BY <1>4
<1>6. \A x \in Macro : UopCount(x)' = UopCount(x) /\ \A j : Accounted(x, j)' = Accounted(x, j)
  BY <1>2 DEF UopCount, Accounted
<1>7. \A x \in Macro : x \in Nat
  BY DEF Macro
<1>8. Sending'
  <2>1. next' <= admitted' /\ admitted' <= next' + 1
    BY <1>1, <1>2, <1>3
  <2>2. ASSUME NEW x \in Macro
        PROVE  /\ x <= next' => sent'[x] = UopCount(x)
               /\ x > next' => sent'[x] < UopCount(x)
               /\ x > admitted' => sent'[x] = 0 /\ progress'[x] = 0
    <3>1. x > admitted' => x > admitted /\ x # m
      BY <1>1, <1>3, <1>7 DEF Sending
    <3> QED
      BY <1>2, <1>5, <3>1 DEF Sending
  <2> QED
    BY <1>6, <2>1, <2>2 DEF Sending
<1>9. ProgressAccounted'
  <2>1. sent[m] < UopCount(m) /\ sent[m] \in Nat /\ UopCount(m) \in Nat /\ progress[m] \in Nat
    <3>1. m > next
      BY <1>1, <1>3
    <3> QED
      BY <3>1, TraceFields DEF Sending
  <2>2. Accounted(m, sent[m]) <= progress[m]
    BY <2>1 DEF ProgressAccounted
  <2>3. Accounted(m, sent[m]) \in Nat /\ Accounted(m, sent[m] + 1) \in Nat
    BY <2>1, AccountedFacts
  <2>4. progress'[m] <= Accounted(m, sent[m] + 1) /\ Accounted(m, sent[m]) <= progress'[m]
    BY <1>1, <1>5, <2>1, <2>2, <2>3 DEF Delta
  <2>5. ASSUME NEW x \in Macro
        PROVE  IF sent[x] = UopCount(x) THEN progress'[x] = trace.units[x]
               ELSE /\ Accounted(x, sent[x]) <= progress'[x]
                    /\ progress'[x] <= Accounted(x, sent[x] + 1)
    <3>1. CASE x = m
      BY <2>1, <2>4, <3>1
    <3>2. CASE x # m
      BY <1>5, <3>2 DEF ProgressAccounted
    <3> QED
      BY <3>1, <3>2
  <2> QED
    BY <1>2, <1>6, <2>5 DEF ProgressAccounted
<1> QED
  BY <1>8, <1>9

LEMMA StepSending ==
    ASSUME Types, Sending, ProgressAccounted, [Next]_vars
    PROVE  Sending' /\ ProgressAccounted'
<1>1. CASE Idle
  BY <1>1, SendingKept DEF Idle
<1>2. CASE \E m \in Macro, plan \in Plan : DispatchChunk(m, plan)
  BY <1>2, SendingDispatch
<1>3. CASE \E m \in Macro : ConsumeBudget(m)
  BY <1>3, SendingConsume
<1>4. CASE \E u \in Uop : Issue(u)
  BY <1>4, SendingKept DEF Issue
<1>5. CASE \E m \in Macro : Complete(m)
  BY <1>5, SendingKept DEF Complete
<1>6. CASE \E m \in Macro : Retire(m)
  BY <1>6, SendingKept DEF Retire
<1> QED
  BY <1>1, <1>2, <1>3, <1>4, <1>5, <1>6, StepCases

\* What leaves has been sent as a whole.
LEMMA CompletedIsSent ==
    ASSUME Types, Sending, Leaving, NEW m \in completed
    PROVE  m \in Macro /\ m <= next
<1>1. m \in Macro /\ AllIssued(m)
  BY DEF Leaving, Types
<1>2. UopCount(m) \in 1..MaxUops /\ MaxUops \in Nat /\ m \in Nat /\ next \in Nat /\ sent[m] \in Nat
  BY <1>1, TraceFields DEF Types
<1>3. <<m, UopCount(m)>> \in issued
  BY <1>1, <1>2 DEF AllIssued
<1>4. UopCount(m) <= sent[m]
  BY <1>3 DEF Leaving, Dispatched
<1>5. ~(m > next)
  BY <1>1, <1>2, <1>4 DEF Sending
<1> QED
  BY <1>1, <1>2, <1>5

LEMMA StepLeaving ==
    ASSUME Types, Sending, Leaving, [Next]_vars
    PROVE  Leaving'
<1>1. CASE Idle
  BY <1>1 DEF Idle, drain, Leaving, Dispatched, AllIssued, UopCount
<1>2. ASSUME UNCHANGED <<trace, issued, completed, retired>>,
             next' \in Nat, next <= next',
             \A m \in Macro : sent'[m] \in Nat /\ sent[m] <= sent'[m]
      PROVE  Leaving'
  <2>1. \A u \in issued : Dispatched(u)'
    <3> SUFFICES ASSUME NEW u \in issued PROVE u[2] <= sent'[u[1]]
      BY DEF Dispatched
    <3>1. u[1] \in Macro /\ u[2] \in Nat /\ sent[u[1]] \in Nat
      BY TraceFields DEF Types, Uop
    <3> QED
      BY <1>2, <3>1 DEF Leaving, Dispatched
  <2>2. retired' <= next'
    BY <1>2 DEF Leaving, Types
  <2> QED
    BY <1>2, <2>1, <2>2 DEF Leaving, AllIssued, UopCount
<1>3. CASE \E m \in Macro, plan \in Plan : DispatchChunk(m, plan)
  <2>1. PICK m \in Macro, plan \in Plan : DispatchChunk(m, plan)
    BY <1>3
  <2>2. Len(plan) \in Nat /\ m = next + 1 /\ next \in Nat
    BY <2>1, ChunkFacts DEF Types
  <2>3. next' \in Nat /\ next <= next'
    BY <2>1, <2>2 DEF DispatchChunk
  <2>4. \A x \in Macro : sent'[x] \in Nat /\ sent[x] <= sent'[x]
    <3>1. sent' = [sent EXCEPT ![m] = @ + Len(plan)] /\ \A x \in Macro : sent[x] \in Nat
      BY <2>1, TraceFields DEF DispatchChunk
    <3> QED
      BY <2>2, <3>1 DEF Types
  <2>5. UNCHANGED <<trace, issued, completed, retired>>
    BY <2>1 DEF DispatchChunk
  <2> QED
    BY <1>2, <2>3, <2>4, <2>5
<1>4. CASE \E m \in Macro : ConsumeBudget(m)
  <2>1. UNCHANGED <<trace, issued, completed, retired, next, sent>>
    BY <1>4 DEF ConsumeBudget
  <2> QED
    BY <2>1 DEF Leaving, Dispatched, AllIssued, UopCount
<1>5. CASE \E u \in Uop : Issue(u)
  <2>1. PICK u \in Uop : Issue(u)
    BY <1>5
  <2>2. /\ issued' = issued \cup {u} /\ Dispatched(u) /\ next' = next /\ sent' = sent
        /\ UNCHANGED <<trace, completed, retired>>
    BY <2>1 DEF Issue, drain
  <2> QED
    BY <2>2 DEF Leaving, Dispatched, AllIssued, UopCount
<1>6. CASE \E m \in Macro : Complete(m)
  <2>1. PICK m \in Macro : Complete(m)
    BY <1>6
  <2>2. /\ completed' = completed \cup {m} /\ AllIssued(m) /\ next' = next /\ sent' = sent
        /\ UNCHANGED <<trace, issued, retired>>
    BY <2>1 DEF Complete, drain
  <2> QED
    BY <2>2 DEF Leaving, Dispatched, AllIssued, UopCount
<1>7. CASE \E m \in Macro : Retire(m)
  <2>1. PICK m \in Macro : Retire(m)
    BY <1>7
  <2>2. /\ retired' = m /\ m = retired + 1 /\ m \in completed /\ next' = next /\ sent' = sent
        /\ UNCHANGED <<trace, issued, completed>>
    BY <2>1 DEF Retire, Retirable, drain
  <2>3. m <= next
    BY <2>2, CompletedIsSent
  <2>4. \A x \in 1..m : x \in completed
    BY <2>2 DEF Leaving, Types
  <2>5. \A u \in issued : Dispatched(u)'
    BY <2>2 DEF Leaving, Dispatched
  <2>6. \A x \in completed : AllIssued(x)'
    BY <2>2 DEF Leaving, AllIssued, UopCount
  <2> QED
    BY <2>2, <2>3, <2>4, <2>5, <2>6 DEF Leaving
<1> QED
  BY <1>1, <1>3, <1>4, <1>5, <1>6, <1>7, StepCases

Draining == Types /\ Sending /\ Leaving /\ ProgressAccounted

LEMMA InitDraining == Init => Draining
<1> SUFFICES ASSUME Init PROVE Draining
  OBVIOUS
<1>1. Types
  <2>1. /\ NumMacros \in Nat /\ MaxUops \in Nat /\ TicksPerCycle \in Nat \ {0}
        /\ DispatchWidth \in Nat
    BY PipelineAssumption
  <2>2. free \in [File -> Nat]
    BY RenameAssumption DEF Init
  <2>3. /\ progress \in [Macro -> Nat] /\ sent \in [Macro -> 0..MaxUops]
        /\ partitionOf \in [Uop -> Partition \cup {NoPartition}]
        /\ enqueues \in [Partition -> Nat] /\ domainUsage \in [Domain -> Nat]
    BY <2>1 DEF Init
  <2>4. pending \in Seq([wait : 0..ReleaseDelay, owed : [File -> Nat]])
    BY DEF Init
  <2>5. /\ trace \in Traces /\ pc \in Places /\ issued \subseteq Uop /\ completed \subseteq Macro
        /\ renameUsage \in Nat /\ width \in Nat
    BY DEF Init, Places
  <2>6. /\ sub \in 0..(TicksPerCycle - 1) /\ dispatched \in 0..DispatchWidth
        /\ next \in 0..NumMacros /\ admitted \in 0..NumMacros /\ retired \in 0..NumMacros
    BY <2>1 DEF Init
  <2> QED
    BY <2>2, <2>3, <2>4, <2>5, <2>6 DEF Types
<1>2. next = 0 /\ admitted = 0 /\ retired = 0 /\ issued = {} /\ completed = {}
  BY DEF Init
<1>3. \A m \in Macro : /\ sent[m] = 0 /\ progress[m] = 0
                       /\ m \in Nat \ {0} /\ UopCount(m) \in Nat \ {0}
  <2>1. \A m \in Macro : sent[m] = 0 /\ progress[m] = 0
    BY DEF Init
  <2>2. \A m \in Macro : m \in Nat \ {0} /\ UopCount(m) \in Nat \ {0}
    BY <1>1, TraceFields DEF Macro
  <2> QED
    BY <2>1, <2>2
<1>4. Sending
  BY <1>2, <1>3 DEF Sending
<1>5. Leaving
  BY <1>2 DEF Leaving
<1>6. ProgressAccounted
  <2> SUFFICES ASSUME NEW m \in Macro
               PROVE  IF sent[m] = UopCount(m) THEN progress[m] = trace.units[m]
                      ELSE /\ Accounted(m, sent[m]) <= progress[m]
                           /\ progress[m] <= Accounted(m, sent[m] + 1)
    BY DEF ProgressAccounted
  <2>1. Accounted(m, 0) = 0 /\ Accounted(m, 1) \in Nat
    BY <1>1, AccountedFacts
  <2> QED
    BY <1>3, <2>1
<1> QED
  BY <1>1, <1>4, <1>5, <1>6 DEF Draining

LEMMA StepDraining == Draining /\ [Next]_vars => Draining'
<1> SUFFICES ASSUME Draining, [Next]_vars PROVE Draining'
  OBVIOUS
<1> QED
  BY StepTypes, StepSending, StepLeaving DEF Draining

LEMMA DrainingHolds == Spec => []Draining
BY InitDraining, StepDraining, PTL DEF Spec

\* Draining over several cycles is invisible outside: what a macro-op has paid
\* follows what it has sent and is all of its dispatch units at the end, and none
\* retires before its last uop was sent and issued.
THEOREM DrainsWholeHolds == Spec => []DrainsWhole
<1>1. Draining => DrainsWhole
  <2> SUFFICES ASSUME Draining PROVE RetiresWhole
    BY DEF Draining, DrainsWhole
  <2>1. Types /\ Sending /\ Leaving
    BY DEF Draining
  <2>2. ASSUME NEW m \in 1..retired PROVE m <= next /\ AllIssued(m)
    <3>1. m \in completed
      BY <2>1 DEF Leaving
    <3> QED
      BY <2>1, <3>1, CompletedIsSent DEF Leaving
  <2> QED
    BY <2>2 DEF RetiresWhole
<1> QED
  BY <1>1, DrainingHolds, PTL
-----------------------------------------------------------------------------
(***************************************************************************)
(* The accounts of a cycle and of the queues.                              *)
(***************************************************************************)
\* The widths of a cycle hold in whatever portions it is used up.
LEMMA AdmitBudget ==
    ASSUME Types, CycleBudgets, NEW m \in Macro, Admissible(m), Admit(m)
    PROVE  /\ \A d \in Domain : domainUsage'[d] <= DomainCapacity[d]
           /\ renameUsage' <= AllocationWidth
<1>1. CASE m <= admitted
  BY <1>1 DEF Admit, CycleBudgets
<1>2. CASE ~(m <= admitted)
  <2>1. ~AdmissionBlocked(m)
    BY <1>2 DEF Admissible
  <2>2. renameUsage' <= AllocationWidth
    <3>1. renameUsage' = renameUsage + Total(trace.rename[m], File)
      BY <1>2 DEF Admit
    <3>2. ~(renameUsage + Total(trace.rename[m], File) > AllocationWidth)
      BY <2>1 DEF AdmissionBlocked, RenameBlocked
    <3>3. renameUsage \in Nat /\ AllocationWidth \in Nat /\ Total(trace.rename[m], File) \in Nat
      BY RenameTotal, RenameAssumption DEF Types
    <3> QED
      BY <3>1, <3>2, <3>3
  <2>3. ASSUME NEW d \in Domain PROVE domainUsage'[d] <= DomainCapacity[d]
    <3>1. domainUsage'[d] = domainUsage[d] + trace.demand[m][d]
      BY <1>2 DEF Admit
    <3>2. trace.demand[m][d] > 0 => ~(domainUsage[d] + trace.demand[m][d] > DomainCapacity[d])
      BY <2>1 DEF AdmissionBlocked
    <3>3. domainUsage[d] \in Nat /\ trace.demand[m][d] \in Nat /\ DomainCapacity[d] \in Nat
      BY TraceFields, PartitionAssumption DEF Types
    <3>4. domainUsage[d] <= DomainCapacity[d]
      BY DEF CycleBudgets
    <3> QED
      BY <3>1, <3>2, <3>3, <3>4
  <2> QED
    BY <2>2, <2>3
<1> QED
  BY <1>1, <1>2

LEMMA StepBudgets ==
    ASSUME Types, Types', CycleBudgets, [Next]_vars
    PROVE  CycleBudgets'
<1>1. dispatched' <= DispatchWidth
  BY PipelineAssumption DEF Types
<1>2. CASE \E m \in Macro, plan \in Plan : DispatchChunk(m, plan)
  <2>1. PICK m \in Macro, plan \in Plan : DispatchChunk(m, plan)
    BY <1>2
  <2>2. /\ \A d \in Domain : domainUsage'[d] <= DomainCapacity[d]
        /\ renameUsage' <= AllocationWidth
    BY <2>1, ChunkFacts, AdmitBudget
  <2>3. ASSUME NEW p \in Partition PROVE enqueues'[p] <= EnqueueWidth[p]
    <3>1. enqueues'[p] = enqueues[p] + Assigned(plan, p)
      BY <2>1 DEF DispatchChunk
    <3> QED
      BY <2>1, <3>1, ChunkFacts DEF Accepts
  <2> QED
    BY <1>1, <2>2, <2>3 DEF CycleBudgets
<1>3. CASE \E m \in Macro : ConsumeBudget(m)
  <2>1. PICK m \in Macro : ConsumeBudget(m)
    BY <1>3
  <2>2. /\ \A d \in Domain : domainUsage'[d] <= DomainCapacity[d]
        /\ renameUsage' <= AllocationWidth
    BY <2>1, ConsumeFacts, AdmitBudget
  <2>3. enqueues' = enqueues
    BY <2>1 DEF ConsumeBudget
  <2> QED
    BY <1>1, <2>2, <2>3 DEF CycleBudgets
<1>4. CASE \E ticks \in 1..TicksPerCycle : Advance(ticks)
  <2>1. /\ \A d \in Domain : domainUsage'[d] = 0
        /\ \A p \in Partition : enqueues'[p] = 0
        /\ renameUsage' = 0
    BY <1>4 DEF Advance
  <2>2. /\ \A p \in Partition : EnqueueWidth[p] >= 0
        /\ \A d \in Domain : DomainCapacity[d] >= 0
        /\ AllocationWidth >= 0
    BY PartitionAssumption, RenameAssumption
  <2> QED
    BY <1>1, <2>1, <2>2 DEF CycleBudgets
<1>5. CASE UNCHANGED cycle
  BY <1>5 DEF cycle, CycleBudgets
<1>6. CASE \/ ReturnBatch \/ ReleaseReturns \/ DispatchReturns \/ WorkReturns \/ RetireReturns
           \/ Finish \/ Stopped \/ UNCHANGED vars
  BY <1>5, <1>6 DEF ReturnBatch, ReleaseReturns, DispatchReturns, WorkReturns, RetireReturns,
                    Finish, Stopped, vars
<1>7. CASE \/ \E u \in Uop : Issue(u)
           \/ \E m \in Macro : Complete(m)
           \/ \E m \in Macro : Retire(m)
  BY <1>5, <1>7 DEF Issue, Complete, Retire
<1> QED
  BY <1>2, <1>3, <1>4, <1>6, <1>7 DEF Next

\* The macro-ops in the reorder buffer, and the one that enters it.
LEMMA RobFacts ==
    ASSUME Draining
    PROVE  /\ admitted \in Nat /\ retired \in Nat /\ retired <= admitted
           /\ InRob \subseteq Macro /\ IsFiniteSet(InRob)
           /\ 1..admitted \subseteq Macro /\ IsFiniteSet(1..admitted)
<1>1. /\ admitted \in 0..NumMacros /\ retired \in 0..NumMacros /\ next \in 0..NumMacros
      /\ NumMacros \in Nat /\ next <= admitted /\ retired <= next
  BY PipelineAssumption DEF Draining, Types, Sending, Leaving
<1>2. InRob \subseteq Macro /\ 1..admitted \subseteq Macro
  BY <1>1 DEF InRob, Macro
<1>3. IsFiniteSet(Macro)
  BY <1>1, FS_Interval DEF Macro
<1> QED
  BY <1>1, <1>2, <1>3, FS_Subset

LEMMA EntersRob ==
    ASSUME Draining, NEW m \in Macro, m = next + 1, ~(m <= admitted), Admit(m), retired' = retired
    PROVE  /\ m = admitted + 1 /\ sent[m] = 0 /\ m \notin InRob
           /\ InRob' = InRob \cup {m} /\ 1..admitted' = (1..admitted) \cup {m}
           /\ \A k : <<m, k>> \notin issued
<1>1. admitted \in Nat /\ retired \in Nat /\ retired <= admitted /\ m \in Nat /\ next \in Nat
  BY RobFacts DEF Macro, Draining, Types
<1>2. m = admitted + 1 /\ admitted' = m /\ sent[m] = 0
  BY <1>1 DEF Draining, Sending, Admit
<1>3. InRob' = InRob \cup {m} /\ m \notin InRob /\ 1..admitted' = (1..admitted) \cup {m}
  BY <1>1, <1>2 DEF InRob
<1>4. ASSUME NEW k, <<m, k>> \in issued PROVE FALSE
  <2>1. k <= sent[m] /\ k \in 1..MaxUops
    BY <1>4 DEF Draining, Leaving, Types, Dispatched, Uop
  <2> QED
    BY <1>2, <2>1, PipelineAssumption
<1> QED
  BY <1>2, <1>3, <1>4

LEMMA LeavesRob ==
    ASSUME Draining, NEW m \in Macro, Retire(m)
    PROVE  /\ m = retired + 1 /\ m \in InRob /\ InRob' = InRob \ {m}
           /\ admitted' = admitted /\ trace' = trace
<1>1. admitted \in Nat /\ retired \in Nat /\ retired <= admitted /\ m \in Nat
  BY RobFacts DEF Macro
<1>2. m = retired + 1 /\ m <= admitted /\ retired' = m /\ admitted' = admitted /\ trace' = trace
  BY DEF Retire, Retirable
<1>3. m \in InRob /\ InRob' = InRob \ {m}
  BY <1>1, <1>2 DEF InRob
<1> QED
  BY <1>2, <1>3
Holders == {m \in 1..admitted : Legacy(m) /\ \A k \in trace.vector[m] : <<m, k>> \notin issued}

LEMMA HoldersFacts ==
    ASSUME Draining
    PROVE  /\ Holders \subseteq Macro /\ IsFiniteSet(Holders) /\ Cardinality(Holders) \in Nat
           /\ \A s : /\ IsFiniteSet(InRob \cap s) /\ Cardinality(InRob \cap s) \in Nat
           /\ \A m \in Macro : trace.entries[m] \in Nat
           /\ Total(trace.entries, InRob) \in Nat
<1>1. Holders \subseteq Macro /\ IsFiniteSet(Holders)
  <2>1. Holders \subseteq 1..admitted
    BY DEF Holders
  <2> QED
    BY <2>1, RobFacts, FS_Subset
<1>2. \A s : IsFiniteSet(InRob \cap s)
  BY RobFacts, FS_Intersection
<1>3. \A m \in Macro : trace.entries[m] \in Nat
  BY TraceFields DEF Draining
<1>4. Total(trace.entries, InRob) \in Nat
  BY <1>3, RobFacts, TotalFacts
<1> QED
  BY <1>1, <1>2, <1>3, <1>4, FS_CardinalityType

LEMMA QueuesKept ==
    ASSUME QueuesExact, UNCHANGED <<trace, admitted, retired, issued, queues>>
    PROVE  QueuesExact'
<1>1. /\ trace' = trace /\ admitted' = admitted /\ retired' = retired /\ issued' = issued
      /\ robOcc' = robOcc /\ vecOcc' = vecOcc /\ lqOcc' = lqOcc /\ sqOcc' = sqOcc
  BY DEF queues
<1>2. InRob' = InRob
  BY <1>1 DEF InRob
<1>3. Holders' = Holders
  BY <1>1 DEF Holders, Legacy
<1> QED
  BY <1>1, <1>2, <1>3 DEF QueuesExact, Holders

\* One macro-op more or less in a set of them.
LEMMA CountedIn ==
    ASSUME NEW rob, IsFiniteSet(rob), NEW s, NEW m, m \notin rob
    PROVE  Cardinality((rob \cup {m}) \cap s) = Cardinality(rob \cap s) + One(m \in s)
<1>1. IsFiniteSet(rob \cap s) /\ m \notin rob \cap s
  BY FS_Intersection
<1>2. CASE m \in s
  <2>1. (rob \cup {m}) \cap s = (rob \cap s) \cup {m}
    BY <1>2
  <2>2. Cardinality((rob \cap s) \cup {m}) = Cardinality(rob \cap s) + 1
    BY <1>1, FS_AddElement
  <2> QED
    BY <1>2, <2>1, <2>2 DEF One
<1>3. CASE m \notin s
  <2>1. (rob \cup {m}) \cap s = rob \cap s
    BY <1>3
  <2>2. Cardinality(rob \cap s) \in Nat
    BY <1>1, FS_CardinalityType
  <2>3. One(m \in s) = 0
    BY <1>3 DEF One
  <2>4. Cardinality(rob \cap s) + 0 = Cardinality(rob \cap s)
    BY <2>2
  <2> QED
    BY <2>1, <2>3, <2>4, Zenon
<1> QED
  BY <1>2, <1>3

LEMMA QueuesAdmit ==
    ASSUME Draining, QueuesExact, NEW m \in Macro, m = next + 1, Admissible(m), Admit(m),
           UNCHANGED <<trace, retired, issued>>
    PROVE  QueuesExact'
<1>1. CASE m <= admitted
  BY <1>1, QueuesKept DEF Admit
<1>2. CASE ~(m <= admitted)
  <2>1. /\ m = admitted + 1 /\ m \notin InRob /\ InRob' = InRob \cup {m}
        /\ 1..admitted' = (1..admitted) \cup {m} /\ \A k : <<m, k>> \notin issued
    BY <1>2, EntersRob
  <2>2. /\ robOcc' = robOcc + trace.entries[m] /\ vecOcc' = vecOcc + One(Legacy(m))
        /\ lqOcc' = lqOcc + One(m \in trace.load) /\ sqOcc' = sqOcc + One(m \in trace.store)
    BY <1>2 DEF Admit
  <2>3. /\ ~(robOcc + trace.entries[m] > RobEntries)
        /\ ~(Legacy(m) /\ vecOcc + 1 > VectorEntries)
        /\ ~(m \in trace.load /\ lqOcc >= LoadEntries)
        /\ ~(m \in trace.store /\ sqOcc >= StoreEntries)
    BY <1>2 DEF Admissible, AdmissionBlocked
  <2>4. IsFiniteSet(InRob) /\ InRob \subseteq Macro /\ trace.entries[m] \in Nat
    BY RobFacts, HoldersFacts
  <2>5. /\ RobEntries \in Nat /\ VectorEntries \in Nat /\ LoadEntries \in Nat /\ StoreEntries \in Nat
    BY PipelineAssumption
  <2>6. robOcc' = Total(trace.entries, InRob') /\ robOcc' <= RobEntries
    <3>1. IsFiniteSet(InRob \cup {m}) /\ (InRob \cup {m}) \ {m} = InRob
      BY <2>1, <2>4, FS_AddElement
    <3>2. \A x \in InRob \cup {m} : trace.entries[x] \in Nat
      BY <2>4, HoldersFacts
    <3>3. Total(trace.entries, InRob \cup {m}) = trace.entries[m] + Total(trace.entries, InRob)
      <4>1. m \in InRob \cup {m}
        OBVIOUS
      <4> QED
        BY <3>1, <3>2, <4>1, TotalFacts
    <3>4. robOcc = Total(trace.entries, InRob) /\ robOcc \in Nat
      BY HoldersFacts DEF QueuesExact
    <3>5. robOcc' = Total(trace.entries, InRob')
      <4>1. robOcc' = trace.entries[m] + Total(trace.entries, InRob)
        BY <2>2, <2>4, <3>4
      <4> QED
        BY <2>1, <3>3, <4>1
    <3>6. robOcc' <= RobEntries
      BY <2>2, <2>3, <2>4, <2>5, <3>4
    <3> QED
      BY <3>5, <3>6
  <2>7. lqOcc' = Cardinality(InRob' \cap trace.load) /\ lqOcc' <= LoadEntries
    <3>1. lqOcc' = Cardinality((InRob \cup {m}) \cap trace.load)
      BY <2>1, <2>2, <2>4, CountedIn DEF QueuesExact
    <3>2. lqOcc \in Nat /\ lqOcc <= LoadEntries
      BY HoldersFacts DEF QueuesExact
    <3>3. lqOcc' <= LoadEntries
      <4>1. CASE m \in trace.load
        BY <2>2, <2>3, <2>5, <3>2, <4>1 DEF One
      <4>2. CASE m \notin trace.load
        BY <2>2, <2>5, <3>2, <4>2 DEF One
      <4> QED
        BY <4>1, <4>2
    <3> QED
      BY <2>1, <3>1, <3>3
  <2>8. sqOcc' = Cardinality(InRob' \cap trace.store) /\ sqOcc' <= StoreEntries
    <3>1. sqOcc' = Cardinality((InRob \cup {m}) \cap trace.store)
      BY <2>1, <2>2, <2>4, CountedIn DEF QueuesExact
    <3>2. sqOcc \in Nat /\ sqOcc <= StoreEntries
      BY HoldersFacts DEF QueuesExact
    <3>3. sqOcc' <= StoreEntries
      <4>1. CASE m \in trace.store
        BY <2>2, <2>3, <2>5, <3>2, <4>1 DEF One
      <4>2. CASE m \notin trace.store
        BY <2>2, <2>5, <3>2, <4>2 DEF One
      <4> QED
        BY <4>1, <4>2
    <3> QED
      BY <2>1, <3>1, <3>3
  <2>9. vecOcc' = Cardinality(Holders') /\ vecOcc' <= VectorEntries
    <3>1. /\ vecOcc = Cardinality(Holders) /\ vecOcc \in Nat /\ vecOcc <= VectorEntries
          /\ IsFiniteSet(Holders)
      BY HoldersFacts DEF QueuesExact, Holders
    <3>2. m \notin Holders
      <4>1. m \notin 1..admitted
        BY <1>2
      <4> QED
        BY <4>1 DEF Holders
    <3>3. Holders' = {x \in (1..admitted) \cup {m} :
                        Legacy(x) /\ \A k \in trace.vector[x] : <<x, k>> \notin issued}
      BY <2>1 DEF Holders, Legacy
    <3>4. CASE Legacy(m)
      <4>1. Holders' = Holders \cup {m}
        BY <2>1, <3>3, <3>4 DEF Holders
      <4>2. Cardinality(Holders \cup {m}) = Cardinality(Holders) + 1
        BY <3>1, <3>2, FS_AddElement
      <4> QED
        BY <2>2, <2>3, <2>5, <3>1, <3>4, <4>1, <4>2 DEF One
    <3>5. CASE ~Legacy(m)
      <4>1. Holders' = Holders
        BY <3>3, <3>5 DEF Holders
      <4> QED
        BY <2>2, <3>1, <3>5, <4>1 DEF One
    <3> QED
      BY <3>4, <3>5
  <2> QED
    BY <2>6, <2>7, <2>8, <2>9 DEF QueuesExact, Holders
<1> QED
  BY <1>1, <1>2

LEMMA QueuesRetire ==
    ASSUME Draining, QueuesExact, NEW m \in Macro, Retire(m)
    PROVE  QueuesExact'
<1>1. m \in InRob /\ InRob' = InRob \ {m} /\ admitted' = admitted /\ trace' = trace
  BY LeavesRob
<1>2. /\ robOcc' = robOcc - trace.entries[m] /\ vecOcc' = vecOcc
      /\ lqOcc' = lqOcc - One(m \in trace.load) /\ sqOcc' = sqOcc - One(m \in trace.store)
      /\ issued' = issued
  BY DEF Retire
<1>3. IsFiniteSet(InRob) /\ IsFiniteSet(InRob \ {m}) /\ InRob \subseteq Macro
  BY RobFacts, FS_RemoveElement
<1>4. /\ RobEntries \in Nat /\ LoadEntries \in Nat /\ StoreEntries \in Nat
  BY PipelineAssumption
<1>5. robOcc' = Total(trace.entries, InRob') /\ robOcc' <= RobEntries
  <2>1. \A x \in InRob : trace.entries[x] \in Nat
    BY <1>3, HoldersFacts
  <2>2. Total(trace.entries, InRob) = trace.entries[m] + Total(trace.entries, InRob \ {m})
    BY <1>1, <1>3, <2>1, TotalFacts
  <2>3. Total(trace.entries, InRob \ {m}) \in Nat /\ trace.entries[m] \in Nat
    BY <1>1, <1>3, <2>1, TotalFacts
  <2> QED
    BY <1>1, <1>2, <1>4, <2>2, <2>3 DEF QueuesExact
<1>6. (InRob \ {m}) \cup {m} = InRob
  BY <1>1
<1>7. ASSUME NEW s
      PROVE  /\ Cardinality(InRob \cap s) = Cardinality((InRob \ {m}) \cap s) + One(m \in s)
             /\ Cardinality((InRob \ {m}) \cap s) \in Nat
  <2>1. Cardinality((InRob \ {m}) \cap s) \in Nat
    BY <1>3, FS_Intersection, FS_CardinalityType
  <2> QED
    BY <1>3, <1>6, <2>1, CountedIn
<1>8. lqOcc' = Cardinality(InRob' \cap trace.load) /\ lqOcc' <= LoadEntries
  <2>1. lqOcc = Cardinality(InRob \cap trace.load) /\ lqOcc <= LoadEntries
    BY DEF QueuesExact
  <2>2. PICK c \in Nat : c = Cardinality((InRob \ {m}) \cap trace.load)
    BY <1>7
  <2>3. PICK one \in {0, 1} : one = One(m \in trace.load)
    BY DEF One
  <2>4. lqOcc = c + one
    BY <1>7, <2>1, <2>2, <2>3
  <2> QED
    BY <1>1, <1>2, <1>4, <2>1, <2>2, <2>3, <2>4
<1>9. sqOcc' = Cardinality(InRob' \cap trace.store) /\ sqOcc' <= StoreEntries
  <2>1. sqOcc = Cardinality(InRob \cap trace.store) /\ sqOcc <= StoreEntries
    BY DEF QueuesExact
  <2>2. PICK c \in Nat : c = Cardinality((InRob \ {m}) \cap trace.store)
    BY <1>7
  <2>3. PICK one \in {0, 1} : one = One(m \in trace.store)
    BY DEF One
  <2>4. sqOcc = c + one
    BY <1>7, <2>1, <2>2, <2>3
  <2> QED
    BY <1>1, <1>2, <1>4, <2>1, <2>2, <2>3, <2>4
<1>10. vecOcc' = Cardinality(Holders') /\ vecOcc' <= VectorEntries
  <2>1. Holders' = Holders
    BY <1>1, <1>2 DEF Holders, Legacy
  <2> QED
    BY <1>2, <2>1 DEF QueuesExact, Holders
<1> QED
  BY <1>1, <1>5, <1>8, <1>9, <1>10 DEF QueuesExact, Holders

\* The first vector uop of a macro-op that issues, and no other, frees its entry.
LEMMA QueuesIssue ==
    ASSUME Draining, QueuesExact, NEW u \in Uop, Issue(u)
    PROVE  QueuesExact'
<1>1. /\ Dispatched(u) /\ u \notin issued /\ issued' = issued \cup {u}
      /\ vecOcc' = vecOcc - One(FreesVectorEntry(u[1], u[2]))
      /\ UNCHANGED <<trace, admitted, retired, robOcc, lqOcc, sqOcc>>
  BY DEF Issue
<1>2. InRob' = InRob
  BY <1>1 DEF InRob
<1>3. /\ vecOcc = Cardinality(Holders) /\ vecOcc \in Nat /\ vecOcc <= VectorEntries
      /\ IsFiniteSet(Holders) /\ VectorEntries \in Nat
  BY HoldersFacts, PipelineAssumption DEF QueuesExact, Holders
<1>4. PICK m \in Macro, k \in 1..MaxUops : u = <<m, k>>
  BY DEF Uop
<1>5. m \in 1..admitted
  <2>1. k <= sent[m] /\ m \in Nat /\ admitted \in Nat /\ MaxUops \in Nat /\ m >= 1
    BY <1>1, <1>4, RobFacts, PipelineAssumption DEF Dispatched, Macro
  <2>2. ~(m > admitted)
    BY <1>4, <2>1 DEF Draining, Sending
  <2> QED
    BY <2>1, <2>2
<1>6. Holders' = {x \in 1..admitted :
                    Legacy(x) /\ \A j \in trace.vector[x] : <<x, j>> \notin issued \cup {u}}
  BY <1>1 DEF Holders, Legacy
<1>7. CASE FreesVectorEntry(m, k)
  <2>1. m \in Holders /\ Legacy(m) /\ k \in trace.vector[m]
    BY <1>1, <1>4, <1>5, <1>7 DEF FreesVectorEntry, Holders
  <2>2. Holders' = Holders \ {m}
    BY <1>4, <1>6, <2>1 DEF Holders
  <2>3. Cardinality(Holders \ {m}) = Cardinality(Holders) - 1 /\ Cardinality(Holders \ {m}) \in Nat
    BY <1>3, <2>1, FS_RemoveElement, FS_CardinalityType
  <2>4. vecOcc' = Cardinality(Holders') /\ vecOcc' <= VectorEntries
    BY <1>1, <1>3, <1>4, <1>7, <2>2, <2>3 DEF One
  <2> QED
    BY <1>1, <1>2, <2>4 DEF QueuesExact, Holders
<1>8. CASE ~FreesVectorEntry(m, k)
  <2>1. Holders' = Holders
    <3>1. ASSUME NEW x \in Holders PROVE x \in Holders'
      <4>1. Legacy(x) /\ x \in 1..admitted /\ \A j \in trace.vector[x] : <<x, j>> \notin issued
        BY DEF Holders
      <4>2. ASSUME NEW j \in trace.vector[x], <<x, j>> = u PROVE FALSE
        <5>1. x = m /\ j = k
          BY <1>4, <4>2
        <5> QED
          BY <1>8, <4>1, <5>1 DEF FreesVectorEntry
      <4> QED
        BY <1>6, <4>1, <4>2
    <3>2. \A x \in Holders' : x \in Holders
      BY <1>6 DEF Holders
    <3> QED
      BY <3>1, <3>2
  <2>2. vecOcc' = vecOcc
    BY <1>1, <1>3, <1>4, <1>8 DEF One
  <2> QED
    BY <1>1, <1>2, <1>3, <2>1, <2>2 DEF QueuesExact, Holders
<1> QED
  BY <1>7, <1>8

LEMMA StepQueues ==
    ASSUME Draining, QueuesExact, [Next]_vars
    PROVE  QueuesExact'
<1>1. CASE Idle
  BY <1>1, QueuesKept DEF Idle
<1>2. CASE \E m \in Macro, plan \in Plan : DispatchChunk(m, plan)
  <2>1. PICK m \in Macro, plan \in Plan : DispatchChunk(m, plan)
    BY <1>2
  <2>2. m = next + 1 /\ Admissible(m) /\ Admit(m)
    BY <2>1, ChunkFacts DEF Draining
  <2>3. UNCHANGED <<trace, retired, issued>>
    BY <2>1 DEF DispatchChunk
  <2> QED
    BY <2>2, <2>3, QueuesAdmit
<1>3. CASE \E m \in Macro : ConsumeBudget(m)
  <2>1. PICK m \in Macro : ConsumeBudget(m)
    BY <1>3
  <2>2. m = next + 1 /\ Admissible(m) /\ Admit(m)
    BY <2>1, ConsumeFacts DEF Draining
  <2>3. UNCHANGED <<trace, retired, issued>>
    BY <2>1 DEF ConsumeBudget
  <2> QED
    BY <2>2, <2>3, QueuesAdmit
<1>4. CASE \E u \in Uop : Issue(u)
  BY <1>4, QueuesIssue
<1>5. CASE \E m \in Macro : Complete(m)
  BY <1>5, QueuesKept DEF Complete
<1>6. CASE \E m \in Macro : Retire(m)
  BY <1>6, QueuesRetire
<1> QED
  BY <1>1, <1>2, <1>3, <1>4, <1>5, <1>6, StepCases
-----------------------------------------------------------------------------
(***************************************************************************)
(* The accounts of the partitions.                                         *)
(***************************************************************************)
Placed == partOcc \in [Partition -> Nat] /\ PartitionsExact

LEMMA PlacedKept ==
    ASSUME Placed, UNCHANGED <<trace, issued, partOcc, sent, partitionOf>>
    PROVE  Placed'
<1>1. \A p : InPartition(p)' = InPartition(p)
  BY DEF InPartition, Dispatched
<1> QED
  BY <1>1 DEF Placed, PartitionsExact, Dispatched

LEMMA WaitingFinite ==
    ASSUME Types, NEW p
    PROVE  IsFiniteSet(InPartition(p)) /\ Cardinality(InPartition(p)) \in Nat
<1>1. IsFiniteSet(Macro) /\ IsFiniteSet(1..MaxUops)
  BY PipelineAssumption, FS_Interval DEF Macro
<1>2. IsFiniteSet(Uop)
  BY <1>1, FS_Product DEF Uop
<1>3. InPartition(p) \subseteq Uop
  BY DEF InPartition
<1> QED
  BY <1>2, <1>3, FS_Subset, FS_CardinalityType

LEMMA PlacedIssue ==
    ASSUME Types, Placed, NEW u \in Uop, Issue(u)
    PROVE  Placed'
<1>1. /\ Dispatched(u) /\ u \notin issued /\ issued' = issued \cup {u}
      /\ partOcc' = [p \in Partition |-> partOcc[p] - One(p = partitionOf[u])]
      /\ trace' = trace /\ sent' = sent /\ partitionOf' = partitionOf
  BY DEF Issue, drain
<1>2. ASSUME NEW p \in Partition
      PROVE  /\ partOcc'[p] = Cardinality(InPartition(p)') /\ partOcc'[p] \in Nat
             /\ partOcc'[p] <= Entries[p]
  <2>1. /\ partOcc[p] = Cardinality(InPartition(p)) /\ partOcc[p] <= Entries[p]
        /\ partOcc[p] \in Nat /\ Entries[p] \in Nat
    BY PartitionAssumption DEF Placed, PartitionsExact
  <2>2. InPartition(p)' = InPartition(p) \ {u}
    BY <1>1 DEF InPartition, Dispatched
  <2>3. u \in InPartition(p) <=> p = partitionOf[u]
    BY <1>1 DEF InPartition
  <2>4. /\ Cardinality(InPartition(p) \ {u})
             = IF u \in InPartition(p) THEN Cardinality(InPartition(p)) - 1
               ELSE Cardinality(InPartition(p))
        /\ Cardinality(InPartition(p) \ {u}) \in Nat
    BY WaitingFinite, FS_RemoveElement, FS_CardinalityType
  <2>5. partOcc'[p] = partOcc[p] - One(p = partitionOf[u])
    BY <1>1
  <2>6. CASE p = partitionOf[u]
    BY <2>1, <2>2, <2>3, <2>4, <2>5, <2>6 DEF One
  <2>7. CASE p # partitionOf[u]
    BY <2>1, <2>2, <2>3, <2>4, <2>5, <2>7 DEF One
  <2> QED
    BY <2>6, <2>7
<1>3. partOcc' \in [Partition -> Nat]
  BY <1>1, <1>2
<1>4. \A x \in Uop : Dispatched(x)' =>
         LET options == trace'.choices[x[1]][x[2]]
         IN  IF options = {} THEN partitionOf'[x] = NoPartition ELSE partitionOf'[x] \in options
  BY <1>1 DEF Placed, PartitionsExact, Dispatched
<1> QED
  BY <1>2, <1>3, <1>4 DEF Placed, PartitionsExact

\* The uops of a chunk that the plan puts in a partition.
LEMMA NewlyPlaced ==
    ASSUME Types, NEW m \in Macro, NEW plan \in Plan, DispatchChunk(m, plan), NEW p,
           NEW newly, newly = {u \in Uop : /\ u[1] = m /\ u[2] - sent[m] \in 1..Len(plan)
                                           /\ plan[u[2] - sent[m]] = p}
    PROVE  IsFiniteSet(newly) /\ Cardinality(newly) = Assigned(plan, p)
<1> DEFINE ofP == {i \in DOMAIN plan : plan[i] = p}
           put == [i \in ofP |-> <<m, sent[m] + i>>]
<1>1. /\ Len(plan) \in Nat \ {0} /\ sent[m] + Len(plan) <= UopCount(m)
      /\ DOMAIN plan = 1..Len(plan)
  BY ChunkFacts
<1>2. UopCount(m) \in 1..MaxUops /\ MaxUops \in Nat /\ sent[m] \in Nat
  BY TraceFields
<1>3. \A i \in ofP : i \in 1..Len(plan) /\ plan[i] = p
  BY <1>1
<1>4. ASSUME NEW i \in ofP PROVE put[i] \in newly
  <2>1. i \in 1..Len(plan) /\ plan[i] = p /\ put[i] = <<m, sent[m] + i>>
    BY <1>3
  <2>2. sent[m] + i \in 1..MaxUops /\ (sent[m] + i) - sent[m] = i
    BY <1>1, <1>2, <2>1
  <2> QED
    BY <2>1, <2>2 DEF Uop
<1>5. put \in Injection(ofP, newly)
  <2>1. \A i, j \in ofP : put[i] = put[j] => i = j
    BY <1>1, <1>2, <1>3
  <2>2. put \in [ofP -> newly]
    BY <1>4
  <2> QED
    BY <2>1, <2>2 DEF Injection, IsInjective
<1>6. put \in Surjection(ofP, newly)
  <2>1. ASSUME NEW u \in newly PROVE \E i \in ofP : put[i] = u
    <3>1. /\ u \in Uop /\ u[1] = m /\ u[2] - sent[m] \in 1..Len(plan)
          /\ plan[u[2] - sent[m]] = p
      OBVIOUS
    <3>2. PICK i \in 1..Len(plan) : i = u[2] - sent[m] /\ plan[i] = p
      BY <3>1
    <3>3. u = <<m, sent[m] + i>>
      BY <1>2, <3>1, <3>2 DEF Uop
    <3>4. i \in ofP
      BY <1>1, <3>2
    <3> QED
      BY <3>3, <3>4
  <2>2. put \in [ofP -> newly]
    BY <1>4
  <2> QED
    BY <2>1, <2>2 DEF Surjection
<1>7. ExistsBijection(ofP, newly)
  BY <1>5, <1>6 DEF Bijection, ExistsBijection
<1>8. IsFiniteSet(ofP)
  <2>1. IsFiniteSet(1..Len(plan))
    BY <1>1, FS_Interval
  <2> QED
    BY <1>1, <2>1, FS_Subset
<1>9. IsFiniteSet(newly) /\ Cardinality(newly) = Cardinality(ofP)
  <2> HIDE DEF ofP
  <2> QED
    BY <1>7, <1>8, FS_Bijection
<1> QED
  BY <1>9 DEF Assigned

LEMMA PlacedDispatch ==
    ASSUME Draining, Placed, NEW m \in Macro, NEW plan \in Plan, DispatchChunk(m, plan)
    PROVE  Placed'
<1> DEFINE k == Len(plan)
           s == sent[m]
           Newly(p) == {u \in Uop : u[1] = m /\ u[2] - s \in 1..k /\ plan[u[2] - s] = p}
<1>0. Types
  BY DEF Draining
<1>1. /\ k \in Nat \ {0} /\ s + k <= UopCount(m)
      /\ plan \in Assignments(m, k)
      /\ \A p \in Partition : Assigned(plan, p) \in Nat /\ Accepts(plan, p)
  BY <1>0, ChunkFacts
<1>2. /\ sent' = [sent EXCEPT ![m] = @ + k]
      /\ partitionOf' = [u \in Uop |->
            IF u[1] = m /\ u[2] - s \in 1..k THEN plan[u[2] - s] ELSE partitionOf[u]]
      /\ partOcc' = [p \in Partition |-> partOcc[p] + Assigned(plan, p)]
      /\ trace' = trace /\ issued' = issued
  BY DEF DispatchChunk
<1>3. s \in Nat /\ sent \in [Macro -> 0..MaxUops] /\ MaxUops \in Nat
  BY <1>0, TraceFields DEF Types
<1>4. ASSUME NEW u \in Uop
      PROVE  /\ u[1] \in Macro /\ u[2] \in 1..MaxUops /\ u[2] \in Nat
             /\ u[1] = m => (Dispatched(u)' <=> Dispatched(u) \/ u[2] - s \in 1..k)
             /\ u[1] = m => ~(Dispatched(u) /\ u[2] - s \in 1..k)
             /\ u[1] # m => (Dispatched(u)' <=> Dispatched(u))
  <2>1. u[1] \in Macro /\ u[2] \in 1..MaxUops /\ u[2] \in Nat
    BY <1>3 DEF Uop
  <2>2. sent'[m] = s + k /\ (u[1] # m => sent'[u[1]] = sent[u[1]])
    BY <1>2, <1>3, <2>1
  <2>3. u[1] = m => (Dispatched(u)' <=> u[2] <= s + k) /\ (Dispatched(u) <=> u[2] <= s)
    BY <2>2 DEF Dispatched
  <2>4. u[1] # m => (Dispatched(u)' <=> Dispatched(u))
    BY <2>2 DEF Dispatched
  <2>5. (u[2] <= s + k <=> u[2] <= s \/ u[2] - s \in 1..k) /\ ~(u[2] <= s /\ u[2] - s \in 1..k)
    BY <1>1, <1>3, <2>1
  <2> QED
    BY <2>1, <2>3, <2>4, <2>5
<1>5. ASSUME NEW p \in Partition
      PROVE  /\ partOcc'[p] = Cardinality(InPartition(p)') /\ partOcc'[p] \in Nat
             /\ partOcc'[p] <= Entries[p]
  <2>1. InPartition(p)' = InPartition(p) \cup Newly(p)
    <3>1. ASSUME NEW u \in Uop
          PROVE  u \in InPartition(p)' <=> u \in InPartition(p) \/ u \in Newly(p)
      <4>1. CASE u[1] = m /\ u[2] - s \in 1..k
        <5>1. partitionOf'[u] = plan[u[2] - s]
          BY <1>2, <4>1
        <5>2. Dispatched(u)' /\ ~Dispatched(u)
          BY <1>4, <4>1
        <5>3. u \notin issued
          BY <5>2 DEF Draining, Leaving
        <5>4. u \in InPartition(p)' <=> plan[u[2] - s] = p
          BY <1>2, <5>1, <5>2, <5>3 DEF InPartition
        <5>5. u \in Newly(p) <=> plan[u[2] - s] = p
          BY <4>1
        <5> QED
          BY <5>2, <5>4, <5>5 DEF InPartition
      <4>2. CASE ~(u[1] = m /\ u[2] - s \in 1..k)
        <5>1. partitionOf'[u] = partitionOf[u]
          BY <1>2, <4>2
        <5>2. Dispatched(u)' <=> Dispatched(u)
          BY <1>4, <4>2
        <5>3. u \in InPartition(p)' <=> u \in InPartition(p)
          BY <1>2, <5>1, <5>2 DEF InPartition
        <5> QED
          BY <4>2, <5>3
      <4> QED
        BY <4>1, <4>2
    <3>2. InPartition(p)' \subseteq Uop /\ InPartition(p) \subseteq Uop /\ Newly(p) \subseteq Uop
      BY DEF InPartition
    <3> QED
      BY <3>1, <3>2
  <2>2. InPartition(p) \cap Newly(p) = {}
    BY <1>4 DEF InPartition
  <2>3. IsFiniteSet(InPartition(p)) /\ Cardinality(InPartition(p)) \in Nat
    BY <1>0, WaitingFinite
  <2>4. IsFiniteSet(Newly(p)) /\ Cardinality(Newly(p)) = Assigned(plan, p)
    BY <1>0, NewlyPlaced
  <2> HIDE DEF Newly
  <2>5. Cardinality(InPartition(p) \cup Newly(p)) = Cardinality(InPartition(p)) + Assigned(plan, p)
    <3>1. Cardinality(InPartition(p) \cup Newly(p))
            = Cardinality(InPartition(p)) + Cardinality(Newly(p))
              - Cardinality(InPartition(p) \cap Newly(p))
      BY <2>3, <2>4, FS_Union
    <3>2. Cardinality(InPartition(p) \cap Newly(p)) = 0
      BY <2>2, FS_EmptySet
    <3>3. PICK a, b \in Nat : a = Cardinality(InPartition(p)) /\ b = Cardinality(Newly(p))
      BY <1>1, <2>3, <2>4
    <3>4. Cardinality(InPartition(p) \cup Newly(p)) = a + b - 0
      BY <3>1, <3>2, <3>3
    <3> QED
      BY <2>4, <3>3, <3>4
  <2>6. partOcc'[p] = partOcc[p] + Assigned(plan, p) /\ partOcc[p] = Cardinality(InPartition(p))
    BY <1>2 DEF Placed, PartitionsExact
  <2>7. partOcc[p] + Assigned(plan, p) <= Entries[p]
    BY <1>1 DEF Accepts
  <2> QED
    BY <1>1, <2>1, <2>3, <2>5, <2>6, <2>7
<1>6. partOcc' \in [Partition -> Nat]
  BY <1>2, <1>5
<1>7. ASSUME NEW u \in Uop, Dispatched(u)'
      PROVE  LET options == trace'.choices[u[1]][u[2]]
             IN  IF options = {} THEN partitionOf'[u] = NoPartition ELSE partitionOf'[u] \in options
  <2>1. CASE u[1] = m /\ u[2] - s \in 1..k
    <3>1. partitionOf'[u] = plan[u[2] - s]
      BY <1>2, <2>1
    <3>2. PICK i \in 1..k : i = u[2] - s
      BY <2>1
    <3>3. s + i = u[2]
      BY <1>3, <1>4, <3>2
    <3>4. LET options == trace.choices[m][s + i]
          IN  IF options = {} THEN plan[i] = NoPartition ELSE plan[i] \in options
      BY <1>1 DEF Assignments
    <3> QED
      BY <1>2, <2>1, <3>1, <3>2, <3>3, <3>4
  <2>2. CASE ~(u[1] = m /\ u[2] - s \in 1..k)
    <3>1. partitionOf'[u] = partitionOf[u] /\ Dispatched(u)
      BY <1>2, <1>4, <1>7, <2>2
    <3> QED
      BY <1>2, <3>1 DEF Placed, PartitionsExact
  <2> QED
    BY <2>1, <2>2
<1> QED
  BY <1>5, <1>6, <1>7 DEF Placed, PartitionsExact

LEMMA StepPlaced ==
    ASSUME Draining, Placed, [Next]_vars
    PROVE  Placed'
<1>1. CASE Idle
  BY <1>1, PlacedKept DEF Idle, drain
<1>2. CASE \E m \in Macro, plan \in Plan : DispatchChunk(m, plan)
  BY <1>2, PlacedDispatch
<1>3. CASE \E m \in Macro : ConsumeBudget(m)
  BY <1>3, PlacedKept DEF ConsumeBudget
<1>4. CASE \E u \in Uop : Issue(u)
  BY <1>4, PlacedIssue DEF Draining
<1>5. CASE \E m \in Macro : Complete(m)
  BY <1>5, PlacedKept DEF Complete, drain
<1>6. CASE \E m \in Macro : Retire(m)
  BY <1>6, PlacedKept DEF Retire, drain
<1> QED
  BY <1>1, <1>2, <1>3, <1>4, <1>5, <1>6, StepCases
-----------------------------------------------------------------------------
(***************************************************************************)
(* The accounts of the registers.                                          *)
(***************************************************************************)
\* The last and the first term of a sum over an interval.
LEMMA TotalLast ==
    ASSUME NEW amount, NEW lo \in Nat, NEW hi \in Nat, lo <= hi + 1,
           \A x \in lo..(hi + 1) : amount[x] \in Nat
    PROVE  Total(amount, lo..(hi + 1)) = amount[hi + 1] + Total(amount, lo..hi)
<1>1. PICK keys, rest, last : keys = lo..(hi + 1) /\ rest = lo..hi /\ last = hi + 1
  OBVIOUS
<1>2. keys \ {last} = rest /\ last \in keys
  BY <1>1
<1>3. IsFiniteSet(keys)
  <2>1. hi + 1 \in Int /\ lo \in Int
    OBVIOUS
  <2> QED
    BY <1>1, <2>1, FS_Interval
<1>4. \A x \in keys : amount[x] \in Nat
  BY <1>1
<1>5. Total(amount, keys) = amount[last] + Total(amount, rest)
  BY <1>2, <1>3, <1>4, TotalWith
<1> QED
  BY <1>1, <1>5

LEMMA TotalFirst ==
    ASSUME NEW amount, NEW hi \in Nat, hi >= 1, \A x \in 1..hi : amount[x] \in Nat
    PROVE  Total(amount, 1..hi) = amount[1] + Total(amount, 2..hi)
<1>1. PICK keys, rest : keys = 1..hi /\ rest = 2..hi
  OBVIOUS
<1>2. keys \ {1} = rest /\ 1 \in keys
  BY <1>1
<1>5. IsFiniteSet(keys)
  <2>1. 1 \in Int /\ hi \in Int
    OBVIOUS
  <2> QED
    BY <1>1, <2>1, FS_Interval
<1>3. \A x \in keys : amount[x] \in Nat
  BY <1>1
<1>4. Total(amount, keys) = amount[1] + Total(amount, rest)
  BY <1>2, <1>3, <1>5, TotalWith
<1> QED
  BY <1>1, <1>4

\* A sum over the positions of a sequence does not depend on where it begins.
LEMMA ShiftedSum ==
    ASSUME NEW n \in Nat, NEW a, NEW b,
           \A i \in 1..n : b[i] \in Nat /\ a[i + 1] = b[i]
    PROVE  Total(a, 2..(n + 1)) = Total(b, 1..n)
<1> DEFINE Bad == {j \in Nat : j <= n /\ Total(a, 2..(j + 1)) # Total(b, 1..j)}
<1>1. ASSUME Bad # {} PROVE FALSE
  <2>1. PICK j \in Bad : \A i \in Bad : j <= i
    <3>1. Bad \subseteq Nat
      OBVIOUS
    <3> HIDE DEF Bad
    <3> QED
      BY <1>1, <3>1, LeastNumber
  <2>2. j \in Nat /\ j <= n /\ Total(a, 2..(j + 1)) # Total(b, 1..j)
    BY <2>1
  <2>3. j # 0
    <3> SUFFICES ASSUME j = 0 PROVE Total(a, 2..(j + 1)) = Total(b, 1..j)
      BY <2>2
    <3>1. 2..(j + 1) = {} /\ 1..j = {}
      OBVIOUS
    <3>2. Total(a, {}) = 0 /\ Total(b, {}) = 0
      BY FS_EmptySet, TotalFacts
    <3> QED
      BY <3>1, <3>2
  <2>4. PICK i \in Nat : j = i + 1
    <3>1. j - 1 \in Nat /\ j = (j - 1) + 1
      BY <2>2, <2>3
    <3> QED
      BY <3>1
  <2>5. Total(a, 2..(i + 1)) = Total(b, 1..i)
    <3>1. i <= n /\ ~(j <= i)
      BY <2>2, <2>4
    <3>2. i \notin Bad
      <4> HIDE DEF Bad
      <4> QED
        BY <2>1, <3>1
    <3> QED
      BY <3>1, <3>2
  <2>7. \A x \in 1..j : b[x] \in Nat
    BY <2>2
  <2>8. \A x \in 2..(j + 1) : a[x] \in Nat
    <3> SUFFICES ASSUME NEW x \in 2..(j + 1) PROVE a[x] \in Nat
      OBVIOUS
    <3>1. PICK y \in 1..n : x = y + 1
      <4>1. x - 1 \in 1..n /\ x = (x - 1) + 1
        BY <2>2
      <4> QED
        BY <4>1
    <3> QED
      BY <3>1
  <2>9. Total(b, 1..j) = b[j] + Total(b, 1..i)
    <3>1. Total(b, 1..(i + 1)) = b[i + 1] + Total(b, 1..i)
      BY <2>4, <2>7, TotalLast
    <3> QED
      BY <2>4, <3>1
  <2>10. Total(a, 2..(j + 1)) = a[j + 1] + Total(a, 2..(i + 1))
    <3>1. 2 <= j + 1 /\ j = i + 1
      BY <2>4
    <3> QED
      BY <2>2, <2>8, <3>1, TotalLast
  <2>11. a[j + 1] = b[j]
    BY <2>2, <2>3
  <2> QED
    BY <2>2, <2>5, <2>9, <2>10, <2>11
<1>2. n \notin Bad
  BY <1>1
<1> QED
  BY <1>2

Batch == [wait : 0..ReleaseDelay, owed : [File -> Nat]]
Owed(q, f) == Total([i \in DOMAIN q |-> q[i].owed[f]], DOMAIN q)

LEMMA OwedNat ==
    ASSUME NEW q \in Seq(Batch), NEW f \in File
    PROVE  /\ Owed(q, f) \in Nat /\ Len(q) \in Nat /\ DOMAIN q = 1..Len(q)
           /\ IsFiniteSet(DOMAIN q) /\ \A i \in DOMAIN q : q[i].owed[f] \in Nat
           /\ q = <<>> => Owed(q, f) = 0
<1>1. Len(q) \in Nat /\ DOMAIN q = 1..Len(q)
  OBVIOUS
<1>2. IsFiniteSet(DOMAIN q)
  BY <1>1, FS_Interval
<1>3. ASSUME NEW i \in DOMAIN q PROVE q[i].owed[f] \in Nat
  <2>1. q[i] \in Batch
    OBVIOUS
  <2> QED
    BY <2>1 DEF Batch
<1> DEFINE a == [i \in DOMAIN q |-> q[i].owed[f]]
<1>4. \A i \in DOMAIN q : a[i] \in Nat
  BY <1>3
<1>5. Owed(q, f) = Total(a, DOMAIN q)
  BY DEF Owed
<1>6. q = <<>> => DOMAIN q = {}
  OBVIOUS
<1> HIDE DEF a
<1>7. Owed(q, f) \in Nat /\ (q = <<>> => Owed(q, f) = 0)
  BY <1>2, <1>4, <1>5, <1>6, TotalFacts
<1> QED
  BY <1>1, <1>2, <1>3, <1>7

LEMMA OwedSame ==
    ASSUME NEW q \in Seq(Batch), NEW r \in Seq(Batch), NEW f \in File, DOMAIN q = DOMAIN r,
           \A i \in DOMAIN q : q[i].owed = r[i].owed
    PROVE  Owed(q, f) = Owed(r, f)
<1> DEFINE a == [i \in DOMAIN q |-> q[i].owed[f]]
           b == [i \in DOMAIN r |-> r[i].owed[f]]
<1>1. \A i \in DOMAIN q : a[i] = b[i]
  OBVIOUS
<1>2. IsFiniteSet(DOMAIN q)
  BY OwedNat
<1>3. Owed(q, f) = Total(a, DOMAIN q) /\ Owed(r, f) = Total(b, DOMAIN q)
  BY DEF Owed
<1> HIDE DEF a, b
<1> QED
  BY <1>1, <1>2, <1>3, TotalSame

LEMMA OwedAppend ==
    ASSUME NEW q \in Seq(Batch), NEW e \in Batch, NEW f \in File
    PROVE  Owed(Append(q, e), f) = Owed(q, f) + e.owed[f]
<1> DEFINE r == Append(q, e)
           n == Len(q)
           a == [i \in DOMAIN q |-> q[i].owed[f]]
           b == [i \in DOMAIN r |-> r[i].owed[f]]
<1>1. n \in Nat /\ DOMAIN q = 1..n /\ IsFiniteSet(1..n) /\ Owed(q, f) \in Nat
  BY OwedNat
<1>2. r \in Seq(Batch) /\ DOMAIN r = 1..(n + 1) /\ r[n + 1] = e /\ \A i \in 1..n : r[i] = q[i]
  OBVIOUS
<1>3. IsFiniteSet(1..(n + 1)) /\ \A i \in 1..(n + 1) : b[i] \in Nat
  BY <1>2, OwedNat
<1>4. n + 1 \in 1..(n + 1)
  BY <1>1
<1>5. b[n + 1] = e.owed[f] /\ \A i \in 1..n : b[i] = a[i]
  BY <1>1, <1>2
<1>6. Owed(q, f) = Total(a, 1..n) /\ Owed(r, f) = Total(b, 1..(n + 1))
  BY <1>1, <1>2 DEF Owed
<1> HIDE DEF a, b, r, n
<1>7. Total(b, 1..(n + 1)) = b[n + 1] + Total(b, 1..n)
  <2>1. 1 <= n + 1
    BY <1>1
  <2> QED
    BY <1>1, <1>3, <2>1, TotalLast
<1>8. Total(b, 1..n) = Total(a, 1..n)
  BY <1>1, <1>5, TotalSame
<1>9. b[n + 1] \in Nat
  BY <1>3, <1>4
<1> QED
  BY <1>1, <1>5, <1>6, <1>7, <1>8, <1>9 DEF r

LEMMA OwedTail ==
    ASSUME NEW q \in Seq(Batch), q # <<>>, NEW f \in File
    PROVE  Owed(q, f) = q[1].owed[f] + Owed(Tail(q), f)
<1> DEFINE r == Tail(q)
           n == Len(r)
           a == [i \in DOMAIN q |-> q[i].owed[f]]
           b == [i \in DOMAIN r |-> r[i].owed[f]]
<1>1. r \in Seq(Batch)
  BY HeadAndTail
<1>2. n \in Nat /\ DOMAIN r = 1..n /\ \A i \in 1..n : r[i].owed[f] \in Nat
  BY <1>1, OwedNat
<1>3. DOMAIN q = 1..(n + 1) /\ \A i \in 1..n : r[i] = q[i + 1]
  <2>1. Len(q) \in Nat /\ Len(q) # 0 /\ DOMAIN q = 1..Len(q)
    OBVIOUS
  <2>2. Len(r) = Len(q) - 1 /\ \A i \in 1..(Len(q) - 1) : r[i] = q[i + 1]
    BY <2>1
  <2> QED
    BY <2>1, <2>2
<1>4. \A i \in 1..(n + 1) : a[i] \in Nat
  BY <1>3, OwedNat
<1>5. \A i \in 1..n : b[i] \in Nat /\ a[i + 1] = b[i]
  <2> SUFFICES ASSUME NEW i \in 1..n PROVE b[i] \in Nat /\ a[i + 1] = b[i]
    OBVIOUS
  <2>1. i + 1 \in 1..(n + 1)
    BY <1>2
  <2> QED
    BY <1>2, <1>3, <2>1
<1>6. a[1] = q[1].owed[f]
  <2>1. 1 \in 1..(n + 1)
    BY <1>2
  <2> QED
    BY <1>3, <2>1
<1>7. Owed(q, f) = Total(a, 1..(n + 1)) /\ Owed(r, f) = Total(b, 1..n)
  BY <1>2, <1>3 DEF Owed
<1> HIDE DEF a, b, r, n
<1>9. Total(a, 1..(n + 1)) = a[1] + Total(a, 2..(n + 1))
  <2>1. n + 1 \in Nat /\ n + 1 >= 1
    BY <1>2
  <2> QED
    BY <1>4, <2>1, TotalFirst
<1>10. Total(a, 2..(n + 1)) = Total(b, 1..n)
  BY <1>2, <1>5, ShiftedSum
<1> QED
  BY <1>6, <1>7, <1>9, <1>10 DEF r
Held(f) == Total([m \in Macro |-> trace.rename[m][f]], InRob)
Conserved(f) == free[f] >= GuardEntries /\ free[f] + Held(f) + Owed(pending, f) = FreeEntries[f]

LEMMA ConservedIsRegisters ==
    /\ RegistersConserved <=> \A f \in File : Conserved(f)
    /\ RegistersConserved' <=> \A f \in File : Conserved(f)'
BY DEF RegistersConserved, Conserved, Held, Owed

LEMMA RegisterNumbers ==
    ASSUME Draining, NEW f \in File
    PROVE  /\ pending \in Seq(Batch)
           /\ free[f] \in Nat /\ Held(f) \in Nat /\ Owed(pending, f) \in Nat
           /\ GuardEntries \in Nat /\ FreeEntries[f] \in Nat
           /\ \A m \in Macro : trace.rename[m][f] \in Nat
<1>1. pending \in Seq(Batch) /\ free[f] \in Nat
  BY DEF Draining, Types, Batch
<1>2. GuardEntries \in Nat /\ FreeEntries[f] \in Nat
  BY RenameAssumption
<1>3. \A m \in Macro : trace.rename[m][f] \in Nat
  BY TraceFields DEF Draining
<1>4. Held(f) \in Nat
  <2> DEFINE a == [m \in Macro |-> trace.rename[m][f]]
  <2>1. \A m \in InRob : a[m] \in Nat
    BY <1>3, RobFacts
  <2>2. IsFiniteSet(InRob) /\ Held(f) = Total(a, InRob)
    BY RobFacts DEF Held
  <2> HIDE DEF a
  <2> QED
    BY <2>1, <2>2, TotalFacts
<1> QED
  BY <1>1, <1>2, <1>3, <1>4, OwedNat

\* What a macro-op adds to the registers held when it is in the buffer.
LEMMA HeldWith ==
    ASSUME Draining, NEW f \in File, NEW rob \in SUBSET Macro, IsFiniteSet(rob),
           NEW m \in rob
    PROVE  /\ Total([x \in Macro |-> trace.rename[x][f]], rob)
                = trace.rename[m][f] + Total([x \in Macro |-> trace.rename[x][f]], rob \ {m})
           /\ Total([x \in Macro |-> trace.rename[x][f]], rob \ {m}) \in Nat
<1> DEFINE a == [x \in Macro |-> trace.rename[x][f]]
<1>1. \A x \in rob : a[x] \in Nat
  BY RegisterNumbers
<1>2. a[m] = trace.rename[m][f]
  OBVIOUS
<1>3. IsFiniteSet(rob \ {m})
  BY FS_RemoveElement
<1> HIDE DEF a
<1>4. Total(a, rob) = a[m] + Total(a, rob \ {m}) /\ Total(a, rob \ {m}) \in Nat
  BY <1>1, <1>3, TotalFacts
<1> QED
  BY <1>2, <1>4 DEF a

LEMMA RegistersKept ==
    ASSUME RegistersConserved, UNCHANGED <<trace, admitted, retired, free>>,
           \A f \in File : Owed(pending', f) = Owed(pending, f)
    PROVE  RegistersConserved'
<1>1. \A f \in File : Conserved(f)' <=> Conserved(f)
  <2> SUFFICES ASSUME NEW f \in File PROVE Conserved(f)' <=> Conserved(f)
    OBVIOUS
  <2>1. Held(f)' = Held(f)
    BY DEF Held, InRob
  <2>2. Owed(pending, f)' = Owed(pending, f)
    OBVIOUS
  <2> QED
    BY <2>1, <2>2 DEF Conserved
<1>2. RegistersConserved' <=> \A f \in File : Conserved(f)'
  BY ConservedIsRegisters
<1> QED
  BY <1>1, <1>2, ConservedIsRegisters
LEMMA RegistersAdmit ==
    ASSUME Draining, RegistersConserved, NEW m \in Macro, m = next + 1, Admissible(m), Admit(m),
           UNCHANGED <<trace, retired, pending>>
    PROVE  RegistersConserved'
<1>1. CASE m <= admitted
  <2>1. UNCHANGED <<trace, admitted, retired, free>>
    BY <1>1 DEF Admit
  <2>2. \A f \in File : Owed(pending', f) = Owed(pending, f)
    OBVIOUS
  <2> QED
    BY <2>1, <2>2, RegistersKept
<1>2. CASE ~(m <= admitted)
  <2>1. m \notin InRob /\ InRob' = InRob \cup {m}
    BY <1>2, EntersRob
  <2>2. ASSUME NEW f \in File PROVE Conserved(f)'
    <3>1. /\ free[f] \in Nat /\ Held(f) \in Nat /\ Owed(pending, f) \in Nat
          /\ GuardEntries \in Nat /\ trace.rename[m][f] \in Nat
      BY RegisterNumbers
    <3>2. free'[f] = free[f] - trace.rename[m][f]
      BY <1>2 DEF Admit
    <3>3. ~RenameBlocked(m)
      BY <1>2 DEF Admissible, AdmissionBlocked
    <3>4. trace.rename[m][f] > 0 => ~(free[f] - trace.rename[m][f] < GuardEntries)
      BY <3>3 DEF RenameBlocked
    <3>5. Held(f)' = trace.rename[m][f] + Held(f)
      <4>1. PICK rob : rob = InRob \cup {m}
        OBVIOUS
      <4>2. rob \in SUBSET Macro /\ IsFiniteSet(rob) /\ m \in rob /\ rob \ {m} = InRob
        BY <2>1, <4>1, RobFacts, FS_AddElement
      <4>3. Held(f)' = Total([x \in Macro |-> trace.rename[x][f]], rob)
        BY <2>1, <4>1 DEF Held
      <4>4. Total([x \in Macro |-> trace.rename[x][f]], rob)
               = trace.rename[m][f] + Total([x \in Macro |-> trace.rename[x][f]], rob \ {m})
        BY <4>2, HeldWith
      <4> QED
        BY <4>2, <4>3, <4>4 DEF Held
    <3>6. Owed(pending, f)' = Owed(pending, f)
      OBVIOUS
    <3>7. free[f] >= GuardEntries /\ free[f] + Held(f) + Owed(pending, f) = FreeEntries[f]
      BY ConservedIsRegisters DEF Conserved
    <3>8. free'[f] >= GuardEntries
      BY <3>1, <3>2, <3>4, <3>7
    <3>9. free'[f] + Held(f)' + Owed(pending, f)' = FreeEntries[f]
      BY <3>1, <3>2, <3>5, <3>6, <3>7
    <3> QED
      BY <3>8, <3>9 DEF Conserved
  <2> QED
    BY <2>2, ConservedIsRegisters
<1> QED
  BY <1>1, <1>2

LEMMA RegistersRetire ==
    ASSUME Draining, RegistersConserved, NEW m \in Macro, Retire(m)
    PROVE  RegistersConserved'
<1>1. m \in InRob /\ InRob' = InRob \ {m} /\ trace' = trace /\ free' = free
  BY LeavesRob DEF Retire
<1>2. ASSUME NEW f \in File PROVE Conserved(f)'
  <2>1. /\ free[f] \in Nat /\ Held(f) \in Nat /\ Owed(pending, f) \in Nat
        /\ trace.rename[m][f] \in Nat /\ pending \in Seq(Batch)
    BY RegisterNumbers
  <2>2. Held(f) = trace.rename[m][f] + Held(f)' /\ Held(f)' \in Nat
    <3>1. PICK rob : rob = InRob
      OBVIOUS
    <3>2. rob \in SUBSET Macro /\ IsFiniteSet(rob) /\ m \in rob
      BY <1>1, <3>1, RobFacts
    <3>3. /\ Held(f) = Total([x \in Macro |-> trace.rename[x][f]], rob)
          /\ Held(f)' = Total([x \in Macro |-> trace.rename[x][f]], rob \ {m})
      BY <1>1, <3>1 DEF Held
    <3> QED
      BY <3>2, <3>3, HeldWith
  <2>3. Owed(pending, f)' = Owed(pending, f) + trace.rename[m][f]
    <3> DEFINE b == [wait |-> ReleaseDelay, owed |-> trace.rename[m]]
    <3>1. pending' = IF Renames(m) THEN Append(pending, b) ELSE pending
      BY DEF Retire
    <3>2. b \in Batch /\ b.owed[f] = trace.rename[m][f]
      BY TraceFields, RenameAssumption DEF Draining, Batch
    <3> HIDE DEF b
    <3>3. CASE Renames(m)
      BY <2>1, <3>1, <3>2, <3>3, OwedAppend
    <3>4. CASE ~Renames(m)
      <4>1. trace.rename[m][f] = 0
        BY <2>1, <3>4 DEF Renames
      <4> QED
        BY <2>1, <3>1, <3>4, <4>1
    <3> QED
      BY <3>3, <3>4
  <2>4. free[f] >= GuardEntries /\ free[f] + Held(f) + Owed(pending, f) = FreeEntries[f]
    BY ConservedIsRegisters DEF Conserved
  <2>5. free'[f] + Held(f)' + Owed(pending, f)' = FreeEntries[f]
    <3>1. PICK h \in Nat : h = Held(f)'
      BY <2>2
    <3>2. PICK r \in Nat : r = trace.rename[m][f]
      BY <2>1
    <3>3. PICK o \in Nat : o = Owed(pending, f)
      BY <2>1
    <3>4. Held(f) = r + h /\ Owed(pending, f)' = o + r /\ free'[f] = free[f]
      BY <1>1, <2>2, <2>3, <3>1, <3>2, <3>3
    <3>5. free[f] + (r + h) + o = FreeEntries[f]
      BY <2>4, <3>3, <3>4
    <3>6. free[f] + h + (o + r) = free[f] + (r + h) + o
      BY <2>1
    <3> QED
      BY <3>1, <3>4, <3>5, <3>6
  <2> QED
    BY <1>1, <2>4, <2>5 DEF Conserved
<1> QED
  BY <1>2, ConservedIsRegisters

LEMMA RegistersReturn ==
    ASSUME Draining, RegistersConserved, ReturnBatch
    PROVE  RegistersConserved'
<1> DEFINE o == pending[1].owed
           left == [f \in File |-> o[f] - Returned(o, f)]
           rest == [wait |-> 0, owed |-> left]
<1>1. /\ pending # <<>> /\ pending[1] \in Batch /\ pending \in Seq(Batch)
      /\ \A f \in File : Returned(o, f) \in 0..o[f] /\ o[f] \in Nat
  BY ReturnedFacts DEF Draining, Types, Batch
<1>2. /\ free' = [f \in File |-> free[f] + Returned(o, f)]
      /\ pending' = AfterReturn(o)
      /\ UNCHANGED <<trace, admitted, retired>>
  BY ReturnedFacts DEF ReturnBatch, Draining
<1>3. Tail(pending) \in Seq(Batch)
  BY <1>1, HeadAndTail
<1>4. pending' = IF \E f \in File : left[f] > 0 THEN <<rest>> \o Tail(pending) ELSE Tail(pending)
  BY <1>2 DEF AfterReturn
<1>5. rest \in Batch /\ \A f \in File : rest.owed[f] = o[f] - Returned(o, f)
  <2>1. left \in [File -> Nat]
    BY <1>1
  <2> QED
    BY <2>1, RenameAssumption DEF Batch
<1>6. \A f \in File : left[f] = o[f] - Returned(o, f)
  OBVIOUS
<1> HIDE DEF rest, left, o
<1>7. ASSUME NEW f \in File
      PROVE  Owed(pending, f)' = Owed(pending, f) - Returned(o, f)
  <2>1. Owed(pending, f) = o[f] + Owed(Tail(pending), f)
    BY <1>1, OwedTail DEF o
  <2>2. Owed(Tail(pending), f) \in Nat /\ o[f] \in Nat /\ Returned(o, f) \in Nat
    <3>1. Owed(Tail(pending), f) \in Nat
      BY <1>3, OwedNat
    <3>2. o[f] \in Nat /\ Returned(o, f) \in Nat
      BY <1>1
    <3> QED
      BY <3>1, <3>2
  <2>3. CASE \E g \in File : left[g] > 0
    <3>1. PICK q : q = <<rest>> \o Tail(pending)
      OBVIOUS
    <3>2. q \in Seq(Batch) /\ q # <<>> /\ q[1] = rest /\ Tail(q) = Tail(pending)
      BY <1>3, <1>5, <3>1
    <3>3. Owed(q, f) = rest.owed[f] + Owed(Tail(pending), f)
      BY <3>2, OwedTail
    <3>4. pending' = q
      BY <1>4, <2>3, <3>1
    <3> QED
      BY <1>5, <2>1, <2>2, <3>3, <3>4
  <2>4. CASE ~\E g \in File : left[g] > 0
    <3>1. ~(o[f] - Returned(o, f) > 0)
      BY <1>6, <2>4
    <3>2. o[f] = Returned(o, f)
      BY <1>1, <3>1
    <3>3. pending' = Tail(pending)
      BY <1>4, <2>4
    <3> QED
      BY <2>1, <2>2, <3>2, <3>3
  <2> QED
    BY <2>3, <2>4
<1>8. ASSUME NEW f \in File PROVE Conserved(f)'
  <2>1. free[f] \in Nat /\ Held(f) \in Nat /\ Owed(pending, f) \in Nat /\ GuardEntries \in Nat
    BY RegisterNumbers
  <2>2. Returned(o, f) \in Nat /\ free'[f] = free[f] + Returned(o, f)
    BY <1>1, <1>2
  <2>3. Held(f)' = Held(f)
    BY <1>2 DEF Held, InRob
  <2>4. free[f] >= GuardEntries /\ free[f] + Held(f) + Owed(pending, f) = FreeEntries[f]
    BY ConservedIsRegisters DEF Conserved
  <2>5. Owed(pending, f)' = Owed(pending, f) - Returned(o, f)
    BY <1>7
  <2>6. free'[f] + Held(f)' + Owed(pending, f)' = FreeEntries[f]
    BY <2>1, <2>2, <2>3, <2>4, <2>5
  <2>7. free'[f] >= GuardEntries
    BY <2>1, <2>2, <2>4
  <2> QED
    BY <2>6, <2>7 DEF Conserved
<1> QED
  BY <1>8, ConservedIsRegisters
LEMMA RegistersAdvance ==
    ASSUME Draining, Types', RegistersConserved, NEW ticks \in 1..TicksPerCycle, Advance(ticks)
    PROVE  RegistersConserved'
<1>1. UNCHANGED <<trace, admitted, retired, free>>
  BY DEF Advance
<1>2. pending \in Seq(Batch) /\ pending' \in Seq(Batch)
  BY DEF Draining, Types, Batch
<1>3. DOMAIN pending' = DOMAIN pending /\ \A i \in DOMAIN pending : pending'[i].owed = pending[i].owed
  <2>1. pending' = [i \in DOMAIN pending |->
                      [pending[i] EXCEPT !.wait = IF @ < ticks THEN 0 ELSE @ - ticks]]
    BY DEF Advance
  <2>2. ASSUME NEW i \in DOMAIN pending
        PROVE  [pending[i] EXCEPT !.wait = IF @ < ticks THEN 0 ELSE @ - ticks].owed
                  = pending[i].owed
    <3>1. pending[i] \in Batch
      BY <1>2
    <3> QED
      BY <3>1 DEF Batch
  <2> QED
    BY <2>1, <2>2
<1>4. ASSUME NEW f \in File PROVE Owed(pending', f) = Owed(pending, f)
  <2>1. PICK q, r \in Seq(Batch) : q = pending /\ r = pending'
    BY <1>2
  <2>2. Owed(q, f) = Owed(r, f)
    BY <1>3, <2>1, OwedSame
  <2> QED
    BY <2>1, <2>2
<1> QED
  BY <1>1, <1>4, RegistersKept

LEMMA StepRegisters ==
    ASSUME Draining, Types', RegistersConserved, [Next]_vars
    PROVE  RegistersConserved'
<1>1. CASE ReturnBatch
  BY <1>1, RegistersReturn
<1>2. CASE UNCHANGED <<trace, admitted, retired, free, pending>>
  BY <1>2, RegistersKept
<1>3. CASE \E m \in Macro, plan \in Plan : DispatchChunk(m, plan)
  <2>1. PICK m \in Macro, plan \in Plan : DispatchChunk(m, plan)
    BY <1>3
  <2>2. m = next + 1 /\ Admissible(m) /\ Admit(m)
    BY <2>1, ChunkFacts DEF Draining
  <2>3. UNCHANGED <<trace, retired, pending>>
    BY <2>1 DEF DispatchChunk
  <2> QED
    BY <2>2, <2>3, RegistersAdmit
<1>4. CASE \E m \in Macro : ConsumeBudget(m)
  <2>1. PICK m \in Macro : ConsumeBudget(m)
    BY <1>4
  <2>2. m = next + 1 /\ Admissible(m) /\ Admit(m)
    BY <2>1, ConsumeFacts DEF Draining
  <2>3. UNCHANGED <<trace, retired, pending>>
    BY <2>1 DEF ConsumeBudget
  <2> QED
    BY <2>2, <2>3, RegistersAdmit
<1>5. CASE \E m \in Macro : Retire(m)
  BY <1>5, RegistersRetire
<1>6. CASE \E ticks \in 1..TicksPerCycle : Advance(ticks)
  BY <1>6, RegistersAdvance
<1>7. CASE ReleaseReturns \/ DispatchReturns \/ WorkReturns \/ RetireReturns
  BY <1>2, <1>7 DEF ReleaseReturns, DispatchReturns, WorkReturns, RetireReturns, rename
<1>8. CASE Finish \/ Stopped \/ UNCHANGED vars
  BY <1>2, <1>8 DEF Finish, Stopped, vars, rename
<1>9. CASE (\E u \in Uop : Issue(u)) \/ \E m \in Macro : Complete(m)
  BY <1>2, <1>9 DEF Issue, Complete, rename
<1> QED
  BY <1>1, <1>3, <1>4, <1>5, <1>6, <1>7, <1>8, <1>9 DEF Next

-----------------------------------------------------------------------------
Accounts == Draining /\ CycleBudgets /\ QueuesExact /\ Placed /\ RegistersConserved

LEMMA InitAccounts == Init => Accounts
<1> SUFFICES ASSUME Init PROVE Accounts
  OBVIOUS
<1>1. Draining
  BY InitDraining
<1>2. CycleBudgets
  <2>1. /\ DispatchWidth >= 0 /\ AllocationWidth >= 0
        /\ \A p \in Partition : EnqueueWidth[p] >= 0
        /\ \A d \in Domain : DomainCapacity[d] >= 0
    BY PipelineAssumption, PartitionAssumption, RenameAssumption
  <2> QED
    BY <2>1 DEF CycleBudgets, Init
<1>3. admitted = 0 /\ retired = 0 /\ pending = <<>> /\ free = FreeEntries
  BY DEF Init
<1>4. InRob = {}
  BY <1>3 DEF InRob
<1>5. Cardinality({}) = 0 /\ IsFiniteSet({})
  BY FS_EmptySet
<1>6. \A a : Total(a, {}) = 0
  BY <1>5, TotalFacts
<1>7. QueuesExact
  <2>1. RobEntries >= 0 /\ VectorEntries >= 0 /\ LoadEntries >= 0 /\ StoreEntries >= 0
    BY PipelineAssumption
  <2>2. \A s : InRob \cap s = {}
    BY <1>4
  <2>3. {m \in 1..admitted : Legacy(m) /\ \A k \in trace.vector[m] : <<m, k>> \notin issued} = {}
    BY <1>3
  <2>4. robOcc = 0 /\ vecOcc = 0 /\ lqOcc = 0 /\ sqOcc = 0
    BY DEF Init
  <2> QED
    BY <1>4, <1>5, <1>6, <2>1, <2>2, <2>3, <2>4 DEF QueuesExact
<1>8. Placed
  <2>1. \A u \in Uop : ~Dispatched(u)
    <3> SUFFICES ASSUME NEW u \in Uop, Dispatched(u) PROVE FALSE
      OBVIOUS
    <3>1. sent[u[1]] = 0 /\ u[2] \in 1..MaxUops
      BY DEF Init, Uop
    <3> QED
      BY <3>1, PipelineAssumption DEF Dispatched
  <2>2. \A p : InPartition(p) = {}
    BY <2>1 DEF InPartition
  <2>3. \A p \in Partition : partOcc[p] = 0 /\ Entries[p] >= 0
    BY PartitionAssumption DEF Init
  <2>4. partOcc \in [Partition -> Nat]
    BY DEF Init
  <2> QED
    BY <1>5, <2>1, <2>2, <2>3, <2>4 DEF Placed, PartitionsExact
<1>9. RegistersConserved
  <2> SUFFICES ASSUME NEW f \in File PROVE Conserved(f)
    BY ConservedIsRegisters
  <2>1. 1 \in Macro
    BY PipelineAssumption DEF Macro
  <2>2. ValidTrace(trace)
    BY <1>1, TraceAssumption DEF Draining, Types
  <2>3. trace.rename[1][f] + GuardEntries <= FreeEntries[f] /\ trace.rename[1][f] \in Nat
    <3>1. trace.rename \in [Macro -> [File -> Nat]]
      BY <2>2 DEF ValidTrace
    <3>2. \A m \in Macro, x \in File : trace.rename[m][x] + GuardEntries <= FreeEntries[x]
      BY <2>2 DEF ValidTrace
    <3> QED
      BY <2>1, <3>1, <3>2
  <2>4. GuardEntries \in Nat /\ FreeEntries[f] \in Nat
    BY RenameAssumption
  <2>5. Held(f) = 0
    BY <1>4, <1>6 DEF Held
  <2>6. Owed(pending, f) = 0
    <3>1. DOMAIN pending = {}
      BY <1>3
    <3> QED
      BY <1>6, <3>1 DEF Owed
  <2> QED
    BY <1>3, <2>3, <2>4, <2>5, <2>6 DEF Conserved
<1> QED
  BY <1>1, <1>2, <1>7, <1>8, <1>9 DEF Accounts

LEMMA StepAccounts == Accounts /\ [Next]_vars => Accounts'
<1> SUFFICES ASSUME Accounts, [Next]_vars PROVE Accounts'
  OBVIOUS
<1>1. Draining /\ Types /\ CycleBudgets /\ QueuesExact /\ Placed /\ RegistersConserved
  BY DEF Accounts, Draining
<1>2. Draining'
  BY <1>1, StepDraining
<1>3. Types'
  BY <1>2 DEF Draining
<1>4. CycleBudgets'
  BY <1>1, <1>3, StepBudgets
<1>5. QueuesExact'
  BY <1>1, StepQueues
<1>6. Placed'
  BY <1>1, StepPlaced
<1>7. RegistersConserved'
  BY <1>1, <1>3, StepRegisters
<1> QED
  BY <1>2, <1>4, <1>5, <1>6, <1>7 DEF Accounts

LEMMA AccountsHold == Spec => []Accounts
BY InitAccounts, StepAccounts, PTL DEF Spec

\* Physical registers, scheduler partitions, queues and the budgets of a cycle are
\* accounted for: the occupancy counters equal what they count and stay within
\* their entries, no cycle exceeds a width, and no register is lost between its
\* renaming, the retirement of its macro-op and its delayed, divided return.
THEOREM AccountsExactHolds == Spec => []AccountsExact
<1>1. Accounts => AccountsExact
  <2> SUFFICES ASSUME Accounts PROVE AccountsExact
    OBVIOUS
  <2>1. /\ Draining /\ Types /\ CycleBudgets /\ QueuesExact /\ Placed /\ RegistersConserved
        /\ PartitionsExact
    BY DEF Accounts, Draining, Placed
  <2>2. partOcc \in [Partition -> Nat]
    BY <2>1 DEF Placed
  <2>3. robOcc \in Nat /\ vecOcc \in Nat /\ lqOcc \in Nat /\ sqOcc \in Nat
    BY <2>1, HoldersFacts DEF QueuesExact, Holders
  <2>4. dispatched \in Nat
    BY <2>1, PipelineAssumption DEF Types
  <2>5. TypeOK
    BY <2>1, <2>2, <2>3, <2>4 DEF Types, TypeOK, Places
  <2> QED
    BY <2>1, <2>5 DEF AccountsExact
<1> QED
  BY <1>1, AccountsHold, PTL

=============================================================================
