------------------------- MODULE DynamicTraceProofs -------------------------
(***************************************************************************)
(* What the proofs about both front ends need of a dynamic trace: when an  *)
(* entry is appended, what was true of the entries before it stays true;   *)
(* and if every access waits for the last store to each of its lines, it   *)
(* is a descendant of every earlier store to any of its bytes.             *)
(***************************************************************************)
EXTENDS DynamicTrace, FiniteSetTheorems, WellFoundedInduction, TLAPS

\* A set of natural numbers has a least member.
LEMMA LeastNumber ==
    ASSUME NEW S, S \subseteq Nat, S # {}
    PROVE  \E x \in S : \A y \in S : x <= y
<1> DEFINE Upto(x) == 0..x
           T == {Upto(x) : x \in S}
<1>1. T \subseteq FiniteSubsetsOf(Nat)
  <2> SUFFICES ASSUME NEW x \in S PROVE Upto(x) \in FiniteSubsetsOf(Nat)
    OBVIOUS
  <2>1. IsFiniteSet(0..x)
    BY FS_Interval
  <2> QED
    BY <2>1 DEF FiniteSubsetsOf
<1>2. IsWellFoundedOn(StrictSubsetOrdering(Nat), FiniteSubsetsOf(Nat))
  BY FS_StrictSubsetOrderingWellFounded
<1>3. PICK X \in T : \A Y \in T : <<Y, X>> \notin StrictSubsetOrdering(Nat)
  <2>1. T # {}
    OBVIOUS
  <2> HIDE DEF T
  <2> QED
    BY <1>1, <1>2, <2>1, WFMin
<1>4. PICK x \in S : X = 0..x
  OBVIOUS
<1>5. ASSUME NEW y \in S, y < x PROVE FALSE
  <2>1. 0..y \in SUBSET Nat /\ 0..x \in SUBSET Nat
    OBVIOUS
  <2>2. 0..y \subseteq 0..x /\ x \in 0..x /\ x \notin 0..y
    BY <1>5
  <2>3. <<0..y, 0..x>> \in StrictSubsetOrdering(Nat)
    BY <2>1, <2>2 DEF StrictSubsetOrdering
  <2>4. 0..y \in T
    OBVIOUS
  <2> QED
    BY <1>3, <1>4, <2>3, <2>4
<1> QED
  BY <1>5

\* A set with 0 that holds with a number the next one holds them all.  (The
\* principle of induction, for a set instead of a formula.)
LEMMA SetInduction ==
    ASSUME NEW S, 0 \in S, \A n \in Nat : n \in S => n + 1 \in S
    PROVE  Nat \subseteq S
<1> DEFINE Bad == Nat \ S
<1> SUFFICES ASSUME Bad # {} PROVE FALSE
  OBVIOUS
<1>1. PICK n \in Bad : \A m \in Bad : n <= m
  <2>1. Bad \subseteq Nat
    OBVIOUS
  <2> HIDE DEF Bad
  <2> QED
    BY <2>1, LeastNumber
<1>2. n \in Nat /\ n # 0 /\ n \notin S
  OBVIOUS
<1>3. n - 1 \in Nat /\ ~(n <= n - 1)
  BY <1>2
<1>4. n - 1 \notin Bad
  <2> HIDE DEF Bad
  <2> QED
    BY <1>1, <1>3
<1>5. n - 1 \in S /\ (n - 1) + 1 = n
  BY <1>3, <1>4
<1> QED
  BY <1>2, <1>3, <1>5

\* A bounded set of numbers has a greatest member.
LEMMA GreatestNumber ==
    ASSUME NEW n \in Nat, NEW S, S \subseteq 1..n, S # {}
    PROVE  \E x \in S : \A y \in S : y <= x
<1> DEFINE Below == {n - y : y \in S}
<1>1. Below \subseteq Nat /\ Below # {}
  <2>1. \A y \in S : n - y \in Nat
    OBVIOUS
  <2>2. PICK y \in S : TRUE
    OBVIOUS
  <2>3. n - y \in Below
    OBVIOUS
  <2> QED
    BY <2>1, <2>3
<1>2. PICK b \in Below : \A c \in Below : b <= c
  <2> HIDE DEF Below
  <2> QED
    BY <1>1, LeastNumber
<1>3. PICK x \in S : b = n - x
  OBVIOUS
<1>4. ASSUME NEW y \in S PROVE y <= x
  <2>1. n - y \in Below
    OBVIOUS
  <2> HIDE DEF Below
  <2>2. n - x <= n - y
    BY <1>2, <1>3, <2>1
  <2>3. x \in Int /\ y \in Int
    OBVIOUS
  <2> QED
    BY <2>2, <2>3
<1> QED
  BY <1>4

\* Appending to a sequence: the length grows by one, the old entries stay.
LEMMA AppendFacts ==
    ASSUME NEW S, NEW s \in Seq(S), NEW e
    PROVE  /\ Append(s, e) \in Seq(S \cup {e})
           /\ Len(s) \in Nat /\ Len(Append(s, e)) = Len(s) + 1
           /\ DOMAIN s = 1..Len(s) /\ DOMAIN Append(s, e) = 1..(Len(s) + 1)
           /\ Append(s, e)[Len(s) + 1] = e
           /\ \A k \in 1..Len(s) : Append(s, e)[k] = s[k]
<1>1. s \in Seq(S \cup {e}) /\ e \in S \cup {e}
  OBVIOUS
<1> QED
  BY <1>1

-----------------------------------------------------------------------------
(* Ancestors. *)

IsUp(t, k, up) ==
    up = [n \in 0..Len(t) |->
            IF n = 0 THEN {k}
            ELSE up[n - 1] \cup UNION {t[j].dependsOn : j \in up[n - 1]}]

LEMMA AncestorsIsUp ==
    ASSUME NEW t, NEW k
    PROVE  Ancestors(t, k) = (CHOOSE up : IsUp(t, k, up))[Len(t)] \ {k}
BY Zenon DEF Ancestors, IsUp

\* The recursion has a solution.
LEMMA UpExists ==
    ASSUME NEW t, NEW k, Len(t) \in Nat
    PROVE  \E up : IsUp(t, k, up)
<1> DEFINE Step(s) == s \cup UNION {t[j].dependsOn : j \in s}
           Solves(n, g) == /\ DOMAIN g = 0..n /\ g = [m \in 0..n |-> g[m]]
                           /\ \A m \in 0..n : g[m] = IF m = 0 THEN {k} ELSE Step(g[m - 1])
           S == {n \in Nat : \E g : Solves(n, g)}
<1> HIDE DEF Step
<1>1. 0 \in S
  <2> DEFINE g0 == [m \in 0..0 |-> {k}]
  <2>1. Solves(0, g0)
    OBVIOUS
  <2> HIDE DEF Solves, g0
  <2> QED
    BY <2>1
<1>2. ASSUME NEW n \in Nat, n \in S PROVE n + 1 \in S
  <2>1. PICK g : Solves(n, g)
    BY <1>2
  <2> DEFINE h == [m \in 0..(n + 1) |-> IF m = 0 THEN {k} ELSE Step(g[m - 1])]
  <2>2. \A m \in 0..n : h[m] = g[m]
    <3> SUFFICES ASSUME NEW m \in 0..n PROVE h[m] = g[m]
      OBVIOUS
    <3>1. m \in 0..(n + 1)
      OBVIOUS
    <3>2. g[m] = IF m = 0 THEN {k} ELSE Step(g[m - 1])
      BY <2>1
    <3> QED
      BY <3>1, <3>2
  <2>3. \A m \in 0..(n + 1) : m # 0 => m - 1 \in 0..n
    OBVIOUS
  <2>4. \A m \in 0..(n + 1) : h[m] = IF m = 0 THEN {k} ELSE Step(h[m - 1])
    <3> SUFFICES ASSUME NEW m \in 0..(n + 1)
                 PROVE  h[m] = IF m = 0 THEN {k} ELSE Step(h[m - 1])
      OBVIOUS
    <3>1. h[m] = IF m = 0 THEN {k} ELSE Step(g[m - 1])
      OBVIOUS
    <3> HIDE DEF h
    <3> QED
      BY <3>1, <2>2, <2>3
  <2>5. Solves(n + 1, h)
    <3>1. DOMAIN h = 0..(n + 1) /\ h = [m \in 0..(n + 1) |-> h[m]]
      OBVIOUS
    <3> HIDE DEF h
    <3> QED
      BY <2>4, <3>1
  <2> HIDE DEF Solves, h
  <2> QED
    BY <2>5
<1>3. Len(t) \in S
  <2> HIDE DEF S
  <2> QED
    BY <1>1, <1>2, SetInduction
<1>4. PICK g : Solves(Len(t), g)
  BY <1>3
<1>5. g = [m \in 0..Len(t) |-> IF m = 0 THEN {k} ELSE Step(g[m - 1])]
  BY <1>4
<1> QED
  BY <1>5 DEF IsUp, Step

\* The ancestors of an entry are in a closed set if the entry is.
LEMMA AncestorsLeast ==
    ASSUME NEW t, Len(t) \in Nat, NEW k, NEW T, k \in T,
           \A j \in T : t[j].dependsOn \subseteq T
    PROVE  Ancestors(t, k) \subseteq T
<1>1. PICK up : IsUp(t, k, up) /\ Ancestors(t, k) = up[Len(t)] \ {k}
  BY AncestorsIsUp, UpExists
<1> DEFINE S == {n \in Nat : n \in 0..Len(t) => up[n] \subseteq T}
<1>2. 0 \in S
  BY <1>1 DEF IsUp
<1>3. ASSUME NEW n \in Nat, n \in S PROVE n + 1 \in S
  <2> SUFFICES ASSUME n + 1 \in 0..Len(t) PROVE up[n + 1] \subseteq T
    OBVIOUS
  <2>1. n \in 0..Len(t) /\ n + 1 # 0 /\ (n + 1) - 1 = n
    OBVIOUS
  <2>2. up[n + 1] = up[n] \cup UNION {t[j].dependsOn : j \in up[n]}
    BY <1>1, <2>1 DEF IsUp
  <2>3. up[n] \subseteq T
    BY <1>3, <2>1
  <2> QED
    BY <2>2, <2>3
<1>4. Len(t) \in S
  <2> HIDE DEF S
  <2> QED
    BY <1>2, <1>3, SetInduction
<1> QED
  BY <1>1, <1>4

\* Where dependencies point backwards the recursion goes far enough: the
\* ancestors of an entry are closed.
LEMMA AncestorsClosed ==
    ASSUME NEW t, Len(t) \in Nat, DOMAIN t = 1..Len(t), AllBackward(t),
           NEW k \in 1..Len(t)
    PROVE  /\ Ancestors(t, k) \subseteq 1..(k - 1)
           /\ t[k].dependsOn \subseteq Ancestors(t, k)
           /\ \A j \in Ancestors(t, k) : t[j].dependsOn \subseteq Ancestors(t, k)
<1> DEFINE N == Len(t)
<1>1. PICK up : IsUp(t, k, up) /\ Ancestors(t, k) = up[N] \ {k}
  BY AncestorsIsUp, UpExists
<1>2. up[0] = {k} /\ \A n \in 1..N :
         up[n] = up[n - 1] \cup UNION {t[j].dependsOn : j \in up[n - 1]}
  <2>1. \A n \in 0..N : up[n] =
           IF n = 0 THEN {k}
           ELSE up[n - 1] \cup UNION {t[j].dependsOn : j \in up[n - 1]}
    BY <1>1, Zenon DEF IsUp
  <2>2. 0 \in 0..N /\ \A n \in 1..N : n \in 0..N /\ n # 0
    OBVIOUS
  <2> HIDE DEF N
  <2> QED
    BY <2>1, <2>2
<1>3. \A j \in 1..N : t[j].dependsOn \subseteq 1..(j - 1)
  BY DEF AllBackward
<1> DEFINE A == {n \in Nat : n \in 0..N => up[n] \subseteq 1..k /\ k \in up[n]}
<1>4. N \in A /\ \A n \in 0..N : up[n] \subseteq 1..k /\ k \in up[n]
  <2>1. 0 \in A
    BY <1>2
  <2>2. ASSUME NEW n \in Nat, n \in A PROVE n + 1 \in A
    <3> SUFFICES ASSUME n + 1 \in 0..N PROVE up[n + 1] \subseteq 1..k /\ k \in up[n + 1]
      OBVIOUS
    <3>1. n \in 0..N /\ up[n] \subseteq 1..k /\ k \in up[n]
      BY <2>2
    <3>2. up[n + 1] = up[n] \cup UNION {t[j].dependsOn : j \in up[n]}
      BY <1>2
    <3>3. \A j \in up[n] : t[j].dependsOn \subseteq 1..k
      BY <1>3, <3>1
    <3> QED
      BY <3>1, <3>2, <3>3
  <2>3. Nat \subseteq A
    <3> HIDE DEF A
    <3> QED
      BY <2>1, <2>2, SetInduction
  <2> QED
    BY <2>3
<1> DEFINE M == {d \in Nat : \A n \in 0..N : n + d \in 0..N => up[n] \subseteq up[n + d]}
<1>5. \A m \in 0..N : \A n \in m..N : up[m] \subseteq up[n]
  <2>1. 0 \in M
    OBVIOUS
  <2>2. ASSUME NEW d \in Nat, d \in M PROVE d + 1 \in M
    <3> SUFFICES ASSUME NEW n \in 0..N, n + (d + 1) \in 0..N
                 PROVE  up[n] \subseteq up[n + (d + 1)]
      OBVIOUS
    <3>1. up[n] \subseteq up[n + d] /\ (n + (d + 1)) - 1 = n + d /\ n + (d + 1) \in 1..N
      BY <2>2
    <3> QED
      BY <1>2, <3>1
  <2>3. Nat \subseteq M
    <3> HIDE DEF M
    <3> QED
      BY <2>1, <2>2, SetInduction
  <2> SUFFICES ASSUME NEW m \in 0..N, NEW n \in m..N PROVE up[m] \subseteq up[n]
    OBVIOUS
  <2>4. n - m \in Nat /\ m + (n - m) = n /\ n \in 0..N
    OBVIOUS
  <2>5. n - m \in M
    BY <2>3, <2>4
  <2> QED
    BY <2>4, <2>5
<1> DEFINE R == {n \in Nat : n \in 0..N => \A j \in up[n] : j \in up[k - j]}
<1>6. \A j \in up[N] : j \in up[k - j]
  <2>1. 0 \in R
    BY <1>2
  <2>2. ASSUME NEW n \in Nat, n \in R PROVE n + 1 \in R
    <3> SUFFICES ASSUME n + 1 \in 0..N, NEW j \in up[n + 1] PROVE j \in up[k - j]
      OBVIOUS
    <3>1. n \in 0..N /\ up[n + 1] = up[n] \cup UNION {t[i].dependsOn : i \in up[n]}
      BY <1>2
    <3>2. CASE j \in up[n]
      BY <2>2, <3>1, <3>2
    <3>3. CASE j \notin up[n]
      <4>1. PICK i \in up[n] : j \in t[i].dependsOn
        BY <3>1, <3>3
      <4>2. i \in 1..k /\ i \in up[k - i]
        BY <2>2, <3>1, <4>1, <1>4
      <4>3. j \in 1..(i - 1)
        BY <1>3, <4>1, <4>2
      <4>4. k - i + 1 \in 1..N /\ (k - i + 1) - 1 = k - i
        BY <4>2, <4>3
      <4>5. j \in up[k - i + 1]
        BY <1>2, <4>1, <4>2, <4>4
      <4>6. k - i + 1 \in 0..N /\ k - j \in (k - i + 1)..N
        BY <4>2, <4>3, <4>4
      <4> QED
        BY <1>5, <4>5, <4>6
    <3> QED
      BY <3>2, <3>3
  <2>3. Nat \subseteq R
    <3> HIDE DEF R
    <3> QED
      BY <2>1, <2>2, SetInduction
  <2> QED
    BY <2>3
<1>7. ASSUME NEW j \in up[N] PROVE t[j].dependsOn \subseteq up[N] \ {k}
  <2>1. j \in 1..k /\ j \in up[k - j]
    BY <1>4, <1>6
  <2>2. k - j + 1 \in 1..N /\ (k - j + 1) - 1 = k - j
    BY <2>1
  <2>3. t[j].dependsOn \subseteq up[k - j + 1]
    BY <1>2, <2>1, <2>2
  <2>4. up[k - j + 1] \subseteq up[N]
    <3>1. k - j + 1 \in 0..N /\ N \in (k - j + 1)..N
      BY <2>2
    <3> QED
      BY <1>5, <3>1
  <2>5. k \notin t[j].dependsOn
    BY <1>3, <2>1
  <2> QED
    BY <2>3, <2>4, <2>5
<1>8. k \in up[N] /\ up[N] \subseteq 1..k
  BY <1>4
<1>9. Ancestors(t, k) \subseteq 1..(k - 1)
  BY <1>1, <1>8
<1> HIDE DEF A, M, R
<1> QED
  BY <1>1, <1>7, <1>8, <1>9

-----------------------------------------------------------------------------
(* A trace that grows by an entry, and the maps the builders keep beside it. *)

\* t2 is t and the entry e.
Grows(t, t2, e) ==
    /\ Len(t) \in Nat /\ Len(t2) = Len(t) + 1
    /\ DOMAIN t = 1..Len(t) /\ DOMAIN t2 = 1..(Len(t) + 1)
    /\ t2[Len(t) + 1] = e /\ \A k \in 1..Len(t) : t2[k] = t[k]

\* last[r] is the latest entry that writes register r, 0 if none does.
WriterMap(t, last, R) ==
    /\ last = [r \in R |-> last[r]]
    /\ \A r \in R :
          /\ last[r] \in 0..Len(t)
          /\ last[r] # 0 => r \in t[last[r]].writes
          /\ \A k \in (last[r] + 1)..Len(t) : r \notin t[k].writes

StoresTo(e, l) == e.memory.access = "store" /\ l \in e.memory.lines

\* lastStore[l] is the latest entry that stores to line l; a line that is not in
\* the map has not been stored to.
StoreMap(t, lastStore) ==
    /\ \A l \in DOMAIN lastStore :
          /\ lastStore[l] \in 1..Len(t)
          /\ StoresTo(t[lastStore[l]], l)
          /\ \A k \in (lastStore[l] + 1)..Len(t) : ~StoresTo(t[k], l)
    /\ \A k \in 1..Len(t) : \A l : StoresTo(t[k], l) => l \in DOMAIN lastStore

\* An access covers the lines from its first byte to its last.
AccessIsShaped(a) ==
    a # NoAccess => a.address \in Int /\ a.bytes \in Nat /\ a.lines = LinesOf(a.address, a.bytes)

\* An access depends on the latest store before it to each of its lines.
AwaitsStores(t, k) ==
    t[k].memory # NoAccess =>
        \A l \in t[k].memory.lines :
            LatestOf({j \in 1..(k - 1) : StoresTo(t[j], l)}) \subseteq t[k].dependsOn

LEMMA GrowsByAppend ==
    ASSUME NEW S, NEW t \in Seq(S), NEW e
    PROVE  Grows(t, Append(t, e), e) /\ Append(t, e) \in Seq(S \cup {e})
BY AppendFacts DEF Grows

LEMMA WriterMapGrows ==
    ASSUME NEW t, NEW t2, NEW e, NEW R, NEW last, NEW last2,
           Grows(t, t2, e), WriterMap(t, last, R),
           last2 = [r \in R |-> IF r \in e.writes THEN Len(t) + 1 ELSE last[r]]
    PROVE  WriterMap(t2, last2, R)
<1>1. /\ Len(t) \in Nat /\ Len(t2) = Len(t) + 1 /\ t2[Len(t) + 1] = e
      /\ \A k \in 1..Len(t) : t2[k] = t[k]
  BY DEF Grows
<1>2. ASSUME NEW r \in R
      PROVE  /\ last2[r] \in 0..Len(t2)
             /\ last2[r] # 0 => r \in t2[last2[r]].writes
             /\ \A k \in (last2[r] + 1)..Len(t2) : r \notin t2[k].writes
  <2>1. CASE r \in e.writes
    BY <2>1, <1>1
  <2>2. CASE r \notin e.writes
    <3>1. /\ last2[r] = last[r] /\ last[r] \in 0..Len(t)
          /\ last[r] # 0 => r \in t[last[r]].writes
          /\ \A k \in (last[r] + 1)..Len(t) : r \notin t[k].writes
      BY <2>2 DEF WriterMap
    <3>2. last[r] # 0 => r \in t2[last[r]].writes
      BY <3>1, <1>1
    <3>3. \A k \in (last[r] + 1)..Len(t) : r \notin t2[k].writes
      BY <3>1, <1>1
    <3> QED
      BY <3>1, <3>2, <3>3, <2>2, <1>1
  <2> QED
    BY <2>1, <2>2
<1> QED
  BY <1>2 DEF WriterMap

\* What the map says is what looking back over the trace finds.
LEMMA WriterIsLast ==
    ASSUME NEW t, NEW t2, NEW e, NEW R, NEW last, NEW r \in R,
           Grows(t, t2, e), WriterMap(t, last, R)
    PROVE  LastWriter(t2, Len(t) + 1, r) = {last[r]} \ {0}
<1>1. /\ Len(t) \in Nat /\ (Len(t) + 1) - 1 = Len(t) /\ \A k \in 1..Len(t) : t2[k] = t[k]
  BY DEF Grows
<1>2. /\ last[r] \in 0..Len(t) /\ (last[r] # 0 => r \in t[last[r]].writes)
      /\ \A k \in (last[r] + 1)..Len(t) : r \notin t[k].writes
  BY DEF WriterMap
<1> DEFINE S == {j \in 1..Len(t) : r \in t2[j].writes}
<1>3. \A j \in S : j \in 1..Len(t) /\ j <= last[r]
  BY <1>1, <1>2
<1>4. last[r] # 0 => last[r] \in S
  BY <1>1, <1>2
<1>5. LastWriter(t2, Len(t) + 1, r) = LatestOf(S)
  BY <1>1 DEF LastWriter
<1> HIDE DEF S
<1>6. LatestOf(S) = {last[r]} \ {0}
  BY <1>2, <1>3, <1>4 DEF LatestOf
<1> QED
  BY <1>5, <1>6

LEMMA StoreMapGrows ==
    ASSUME NEW t, NEW t2, NEW e, NEW ls, NEW ls2,
           Grows(t, t2, e), StoreMap(t, ls), ls2 = StoresAfter(ls, e.memory, Len(t) + 1)
    PROVE  StoreMap(t2, ls2)
<1>1. /\ Len(t) \in Nat /\ Len(t2) = Len(t) + 1 /\ t2[Len(t) + 1] = e
      /\ \A k \in 1..Len(t) : t2[k] = t[k]
  BY DEF Grows
<1>2. /\ \A l : StoresTo(e, l) => l \in DOMAIN ls2 /\ ls2[l] = Len(t) + 1
      /\ \A l \in DOMAIN ls2 : ~StoresTo(e, l) => l \in DOMAIN ls /\ ls2[l] = ls[l]
      /\ DOMAIN ls \subseteq DOMAIN ls2
  BY DEF StoresAfter, StoresTo
<1>3. ASSUME NEW l \in DOMAIN ls2
      PROVE  /\ ls2[l] \in 1..Len(t2) /\ StoresTo(t2[ls2[l]], l)
             /\ \A k \in (ls2[l] + 1)..Len(t2) : ~StoresTo(t2[k], l)
  <2>1. CASE StoresTo(e, l)
    BY <2>1, <1>1, <1>2
  <2>2. CASE ~StoresTo(e, l)
    <3>1. /\ ls2[l] = ls[l] /\ ls[l] \in 1..Len(t) /\ StoresTo(t[ls[l]], l)
          /\ \A k \in (ls[l] + 1)..Len(t) : ~StoresTo(t[k], l)
      BY <2>2, <1>2 DEF StoreMap
    <3>2. StoresTo(t2[ls[l]], l)
      BY <3>1, <1>1
    <3>3. \A k \in (ls[l] + 1)..Len(t) : ~StoresTo(t2[k], l)
      BY <3>1, <1>1
    <3> QED
      BY <3>1, <3>2, <3>3, <2>2, <1>1
  <2> QED
    BY <2>1, <2>2
<1>4. ASSUME NEW k \in 1..Len(t2), NEW l, StoresTo(t2[k], l) PROVE l \in DOMAIN ls2
  <2>1. CASE k = Len(t) + 1
    BY <2>1, <1>1, <1>2, <1>4
  <2>2. CASE k \in 1..Len(t)
    <3>1. StoresTo(t[k], l)
      BY <2>2, <1>1, <1>4
    <3> QED
      BY <3>1, <2>2, <1>2 DEF StoreMap
  <2> QED
    BY <2>1, <2>2, <1>1
<1> QED
  BY <1>3, <1>4 DEF StoreMap

LEMMA StoreIsLast ==
    ASSUME NEW t, NEW t2, NEW e, NEW ls, NEW l, Grows(t, t2, e), StoreMap(t, ls)
    PROVE  LatestOf({j \in 1..Len(t) : StoresTo(t2[j], l)})
              = {ls[m] : m \in {l} \cap DOMAIN ls}
<1>1. /\ Len(t) \in Nat /\ \A k \in 1..Len(t) : t2[k] = t[k]
  BY DEF Grows
<1> DEFINE S == {j \in 1..Len(t) : StoresTo(t2[j], l)}
<1>2. CASE l \in DOMAIN ls
  <2>1. /\ ls[l] \in 1..Len(t) /\ StoresTo(t[ls[l]], l)
        /\ \A k \in (ls[l] + 1)..Len(t) : ~StoresTo(t[k], l)
    BY <1>2 DEF StoreMap
  <2>2. ls[l] \in S /\ \A j \in S : j \in 1..Len(t) /\ j <= ls[l]
    <3>1. StoresTo(t2[ls[l]], l)
      BY <2>1, <1>1
    <3>2. \A k \in (ls[l] + 1)..Len(t) : ~StoresTo(t2[k], l)
      BY <2>1, <1>1
    <3> QED
      BY <3>1, <3>2, <2>1, <1>1
  <2> HIDE DEF S
  <2>3. LatestOf(S) = {ls[l]}
    BY <2>1, <2>2 DEF LatestOf
  <2> QED
    BY <2>3, <1>2 DEF S
<1>3. CASE l \notin DOMAIN ls
  <2>1. S = {}
    BY <1>1, <1>3 DEF StoreMap
  <2> QED
    BY <2>1, <1>3 DEF LatestOf
<1> QED
  BY <1>2, <1>3

\* What holds of an entry looks at the entries up to it only.
LEMMA OldEntriesKeep ==
    ASSUME NEW t, NEW t2, NEW e, Grows(t, t2, e), NEW k \in 1..Len(t), NEW others,
           AllBackward(t)
    PROVE  /\ OnLastWriters(t2, k, others) <=> OnLastWriters(t, k, others)
           /\ AwaitsStores(t2, k) <=> AwaitsStores(t, k)
<1>1. /\ Len(t) \in Nat /\ t2[k] = t[k] /\ \A j \in 1..(k - 1) : t2[j] = t[j]
  BY DEF Grows
<1>2. \A r : LastWriter(t2, k, r) = LastWriter(t, k, r)
  <2> TAKE r
  <2>1. {j \in 1..(k - 1) : r \in t2[j].writes} = {j \in 1..(k - 1) : r \in t[j].writes}
    BY <1>1
  <2> QED
    BY <2>1 DEF LastWriter
<1>3. \A l : {j \in 1..(k - 1) : StoresTo(t2[j], l)} = {j \in 1..(k - 1) : StoresTo(t[j], l)}
  BY <1>1
<1>4. AwaitsStores(t2, k) <=> AwaitsStores(t, k)
  <2>1. \A l : LatestOf({j \in 1..(k - 1) : StoresTo(t2[j], l)})
                 = LatestOf({j \in 1..(k - 1) : StoresTo(t[j], l)})
    BY <1>3
  <2> QED
    BY <1>1, <2>1 DEF AwaitsStores
<1>5. OnLastWriters(t2, k, others) <=> OnLastWriters(t, k, others)
  <2> DEFINE raw == (UNION {LastWriter(t, k, r) : r \in t[k].reads}) \cup others
  <2>1. (UNION {LastWriter(t2, k, r) : r \in t2[k].reads}) \cup others = raw
    BY <1>1, <1>2
  <2>2. \A j \in t[k].dependsOn \ raw : t2[j] = t[j]
    <3>1. t[k].dependsOn \subseteq 1..(k - 1)
      BY DEF AllBackward, Grows
    <3> QED
      BY <1>1, <3>1
  <2> HIDE DEF raw
  <2>3. OnLastWriters(t2, k, others) <=>
          /\ raw \subseteq t[k].dependsOn
          /\ \A j \in t[k].dependsOn \ raw :
                /\ t2[j].memory.access = "store" /\ t[k].memory # NoAccess
                /\ t2[j].memory.lines \cap t[k].memory.lines # {}
    BY <1>1, <2>1, Zenon DEF OnLastWriters
  <2>4. OnLastWriters(t, k, others) <=>
          /\ raw \subseteq t[k].dependsOn
          /\ \A j \in t[k].dependsOn \ raw :
                /\ t[j].memory.access = "store" /\ t[k].memory # NoAccess
                /\ t[j].memory.lines \cap t[k].memory.lines # {}
    BY Zenon DEF OnLastWriters, raw
  <2> QED
    BY <2>2, <2>3, <2>4
<1> QED
  BY <1>4, <1>5

\* The entry that a builder appends: its registers are looked up in one map, its
\* lines in the other.
LEMMA NewEntryIsExact ==
    ASSUME NEW t, NEW t2, NEW e, NEW R, NEW last, NEW ls, NEW others,
           Grows(t, t2, e), WriterMap(t, last, R), StoreMap(t, ls), e.reads \subseteq R,
           others \subseteq 1..Len(t),
           e.dependsOn = ({last[r] : r \in e.reads} \ {0}) \cup others
              \cup (IF e.memory = NoAccess THEN {}
                    ELSE {ls[l] : l \in e.memory.lines \cap DOMAIN ls})
    PROVE  /\ OnLastWriters(t2, Len(t) + 1, others)
           /\ AwaitsStores(t2, Len(t) + 1)
           /\ e.dependsOn \subseteq 1..Len(t)
<1> DEFINE k == Len(t) + 1
           raw == ({last[r] : r \in e.reads} \ {0}) \cup others
           mem == IF e.memory = NoAccess THEN {}
                  ELSE {ls[l] : l \in e.memory.lines \cap DOMAIN ls}
<1>1. Len(t) \in Nat /\ k - 1 = Len(t) /\ t2[k] = e /\ \A j \in 1..Len(t) : t2[j] = t[j]
  BY DEF Grows
<1>2. (UNION {LastWriter(t2, k, r) : r \in t2[k].reads}) \cup others = raw
  <2>1. \A r \in e.reads : LastWriter(t2, k, r) = {last[r]} \ {0}
    <3> SUFFICES ASSUME NEW r \in e.reads PROVE LastWriter(t2, k, r) = {last[r]} \ {0}
      OBVIOUS
    <3>1. r \in R
      OBVIOUS
    <3> QED
      BY <3>1, WriterIsLast
  <2> HIDE DEF k
  <2> QED
    BY <1>1, <2>1
<1>3. \A j \in mem : /\ j \in 1..Len(t)
                     /\ t2[j].memory.access = "store" /\ e.memory # NoAccess
                     /\ t2[j].memory.lines \cap e.memory.lines # {}
  <2> SUFFICES ASSUME NEW j \in mem
               PROVE  /\ j \in 1..Len(t)
                      /\ t2[j].memory.access = "store" /\ e.memory # NoAccess
                      /\ t2[j].memory.lines \cap e.memory.lines # {}
    OBVIOUS
  <2>1. e.memory # NoAccess
    OBVIOUS
  <2>2. PICK l \in e.memory.lines \cap DOMAIN ls : j = ls[l]
    BY <2>1
  <2>3. j \in 1..Len(t) /\ StoresTo(t[j], l)
    BY <2>2 DEF StoreMap
  <2> QED
    BY <1>1, <2>1, <2>2, <2>3 DEF StoresTo
<1>4. raw \subseteq 1..Len(t)
  <2>1. \A r \in e.reads : last[r] \in 0..Len(t)
    BY DEF WriterMap
  <2>2. ASSUME NEW x \in {last[r] : r \in e.reads} \ {0} PROVE x \in 1..Len(t)
    <3>1. PICK r \in e.reads : x = last[r]
      OBVIOUS
    <3>2. x \in 0..Len(t) /\ x # 0
      BY <2>1, <3>1
    <3> QED
      BY <3>2, <1>1
  <2> QED
    BY <2>2
<1>5. e.dependsOn = raw \cup mem
  OBVIOUS
<1>6. e.dependsOn \subseteq 1..Len(t)
  <2> HIDE DEF raw, mem
  <2> QED
    BY <1>3, <1>4, <1>5
<1>7. OnLastWriters(t2, k, others)
  <2> HIDE DEF raw, mem, k
  <2>1. /\ raw \subseteq e.dependsOn
        /\ \A j \in e.dependsOn \ raw : /\ t2[j].memory.access = "store" /\ e.memory # NoAccess
                                        /\ t2[j].memory.lines \cap e.memory.lines # {}
    BY <1>3, <1>5
  <2> QED
    BY <1>1, <1>2, <2>1, Zenon DEF OnLastWriters
<1>8. AwaitsStores(t2, k)
  <2> SUFFICES ASSUME e.memory # NoAccess, NEW l \in e.memory.lines
               PROVE  LatestOf({j \in 1..Len(t) : StoresTo(t2[j], l)}) \subseteq e.dependsOn
    BY <1>1 DEF AwaitsStores
  <2>1. LatestOf({j \in 1..Len(t) : StoresTo(t2[j], l)}) = {ls[m] : m \in {l} \cap DOMAIN ls}
    BY StoreIsLast
  <2>2. {ls[m] : m \in {l} \cap DOMAIN ls} \subseteq mem
    OBVIOUS
  <2> HIDE DEF mem
  <2> QED
    BY <2>1, <2>2, <1>5
<1> QED
  BY <1>6, <1>7, <1>8

-----------------------------------------------------------------------------
\* Two accesses that share a byte share the line it is in.
LEMMA OverlapSharesLine ==
    ASSUME LineBytes \in Nat \ {0}, NEW a, NEW b, AccessIsShaped(a), AccessIsShaped(b),
           Overlap(a, b)
    PROVE  a.lines \cap b.lines # {}
<1>1. /\ a.address \in Int /\ a.bytes \in Nat /\ a.lines = LinesOf(a.address, a.bytes)
      /\ b.address \in Int /\ b.bytes \in Nat /\ b.lines = LinesOf(b.address, b.bytes)
      /\ a.bytes > 0 /\ b.bytes > 0
      /\ a.address < b.address + b.bytes /\ b.address < a.address + a.bytes
  BY DEF AccessIsShaped, Overlap
<1>2. ASSUME NEW x \in Int, NEW y \in Int, x <= y PROVE x \div LineBytes <= y \div LineBytes
  BY <1>2
<1>3. ASSUME NEW c \in {a, b}, NEW d \in Int,
             c.address <= d, d <= c.address + c.bytes - 1
      PROVE  d \div LineBytes \in c.lines
  <2>1. c.address \in Int /\ c.bytes \in Nat /\ c.lines = LinesOf(c.address, c.bytes)
    BY <1>1
  <2>2. c.address + c.bytes - 1 \in Int
    BY <2>1
  <2>3. /\ c.address \div LineBytes <= d \div LineBytes
        /\ d \div LineBytes <= (c.address + c.bytes - 1) \div LineBytes
    BY <1>2, <1>3, <2>1, <2>2
  <2>4. /\ d \div LineBytes \in Int /\ c.address \div LineBytes \in Int
        /\ (c.address + c.bytes - 1) \div LineBytes \in Int
    BY <2>1, <2>2
  <2> QED
    BY <2>1, <2>3, <2>4 DEF LinesOf
<1>4. CASE a.address <= b.address
  <2>1. b.address \div LineBytes \in a.lines
    BY <1>1, <1>3, <1>4
  <2>2. b.address \div LineBytes \in b.lines
    BY <1>1, <1>3
  <2> QED
    BY <2>1, <2>2
<1>5. CASE b.address < a.address
  <2>1. a.address \div LineBytes \in b.lines
    BY <1>1, <1>3, <1>5
  <2>2. a.address \div LineBytes \in a.lines
    BY <1>1, <1>3
  <2> QED
    BY <2>1, <2>2
<1> QED
  BY <1>1, <1>4, <1>5

\* Waiting for the last store to each line is waiting for all of them: the last
\* store has itself waited for the one before it, and so on.
LEMMA StoresAreFollowed ==
    ASSUME LineBytes \in Nat \ {0}, NEW t, Len(t) \in Nat, DOMAIN t = 1..Len(t),
           AllBackward(t), \A k \in 1..Len(t) : AccessIsShaped(t[k].memory) /\ AwaitsStores(t, k)
    PROVE  FollowStores(t)
<1> SUFFICES ASSUME NEW k \in 1..Len(t), NEW j \in 1..(k - 1),
                    t[j].memory.access = "store", Overlap(t[j].memory, t[k].memory)
             PROVE  j \in Ancestors(t, k)
  BY DEF FollowStores
<1> DEFINE A == Ancestors(t, k)
<1>1. /\ A \subseteq 1..(k - 1) /\ t[k].dependsOn \subseteq A
      /\ \A i \in A : t[i].dependsOn \subseteq A
  BY AncestorsClosed
<1>2. j \in 1..Len(t) /\ t[k].memory # NoAccess
  BY DEF Overlap
<1>3. PICK l : l \in t[j].memory.lines /\ l \in t[k].memory.lines
  <2>1. AccessIsShaped(t[j].memory) /\ AccessIsShaped(t[k].memory)
    BY <1>2
  <2> QED
    BY <2>1, OverlapSharesLine
<1> DEFINE To == {i \in 1..Len(t) : StoresTo(t[i], l)}
\* The latest store to the line before an entry that waits for it.
<1>4. ASSUME NEW m \in 1..Len(t), j < m, t[m].memory # NoAccess, l \in t[m].memory.lines
      PROVE  \E i \in To : i \in t[m].dependsOn /\ j <= i /\ i < m
  <2> DEFINE Before == {i \in 1..(m - 1) : StoresTo(t[i], l)}
  <2>1. Before \subseteq 1..(m - 1) /\ m - 1 \in Nat
    OBVIOUS
  <2>2. j \in Before
    BY <1>3, <1>4 DEF StoresTo
  <2>3. PICK i \in Before : \A h \in Before : h <= i
    <3> HIDE DEF Before
    <3> QED
      BY <2>1, <2>2, GreatestNumber
  <2>4. i \in LatestOf(Before)
    BY <2>3 DEF LatestOf
  <2>5. LatestOf(Before) \subseteq t[m].dependsOn
    BY <1>4 DEF AwaitsStores
  <2>6. i \in 1..(m - 1) /\ StoresTo(t[i], l) /\ j <= i
    <3> HIDE DEF Before
    <3>1. j <= i
      BY <2>2, <2>3
    <3> QED
      BY <3>1, <2>3 DEF Before
  <2>7. i \in To /\ i < m
    BY <2>6
  <2> HIDE DEF Before, To
  <2> QED
    BY <2>4, <2>5, <2>6, <2>7
<1> DEFINE Later == {i \in To : i \in A /\ j <= i}
<1>5. Later \subseteq Nat /\ Later # {}
  <2>1. PICK i \in To : i \in t[k].dependsOn /\ j <= i
    BY <1>2, <1>3, <1>4
  <2>2. i \in Later
    BY <1>1, <2>1
  <2> QED
    BY <2>2
<1>6. PICK m \in Later : \A i \in Later : m <= i
  <2> HIDE DEF Later
  <2> QED
    BY <1>5, LeastNumber
<1>7. m \in To /\ m \in A /\ j <= m
  OBVIOUS
<1>8. CASE j < m
  <2>1. m \in 1..Len(t) /\ t[m].memory # NoAccess /\ l \in t[m].memory.lines
    <3>1. StoresTo(t[m], l) /\ m \in 1..Len(t)
      BY <1>7
    <3> QED
      BY <3>1 DEF StoresTo, NoAccess, None
  <2>2. PICK i \in To : i \in t[m].dependsOn /\ j <= i /\ i < m
    <3> HIDE DEF To
    <3> QED
      BY <1>4, <1>8, <2>1
  <2>3. i \in Later
    BY <1>1, <1>7, <2>2
  <2>4. m <= i /\ i \in Nat /\ m \in Nat
    BY <1>6, <2>3, <1>5
  <2> QED
    BY <2>2, <2>4
<1>9. CASE j = m
  BY <1>7, <1>9
<1> QED
  <2>1. m \in Nat /\ j \in Nat
    BY <1>7
  <2> QED
    BY <1>7, <1>8, <1>9, <2>1
=============================================================================
