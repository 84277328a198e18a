----------------------------- MODULE XsaiProofs -----------------------------
(***************************************************************************)
(* Theorems about XsaiIssue, for every trace, topology and policy.         *)
(***************************************************************************)
EXTENDS XsaiIssue, FiniteSetTheorems, TLAPS

\* The trace of a run is one the expander makes: uops are numbered from 1 and
\* depend on earlier uops only.
LEMMA TraceIsValid ==
    ASSUME trace \in Traces
    PROVE  /\ Uop = 1..Len(trace) /\ Len(trace) \in 1..LongestTrace
           /\ NumMacros \in Nat \ {0} /\ NumMacros <= MostMacros
           /\ \A u \in Uop : trace[u].macro \in Nat \ {0} /\ trace[u].deps \subseteq Uop
<1>1. /\ DOMAIN trace = 1..Len(trace) /\ Len(trace) \in 1..LongestTrace
      /\ NumMacros <= MostMacros
  BY LengthAssumption DEF NumMacros
<1>2. \A u \in Uop : trace[u].macro \in Nat \ {0} /\ trace[u].deps \subseteq 1..(u - 1)
  BY TraceAssumption DEF ValidUop, Uop
<1>3. Len(trace) \in Uop /\ Len(trace) \in Nat
  BY <1>1, LengthAssumption DEF Uop
<1>4. \A u \in Uop : 1..(u - 1) \subseteq Uop
  BY <1>1, <1>3 DEF Uop
<1> QED
  BY <1>1, <1>2, <1>3, <1>4 DEF Uop, NumMacros

(***************************************************************************)
(* The counters of the loop and the dataflow order: whatever is issued has *)
(* entered, and its producers have completed.                              *)
(***************************************************************************)
Counters ==
    /\ trace \in Traces
    /\ now \in Nat
    /\ sent \in 0..NumMacros /\ left \in 0..sent
    /\ DOMAIN issueTick = Uop /\ DOMAIN doneTick = Uop

Flow ==
    /\ \A u \in Uop : Issued(u) =>
          trace[u].macro <= sent /\ \A v \in trace[u].deps : Completed(v)
    /\ \A u \in Uop : Completed(u) => Issued(u)

LEMMA InitFlow == Init => Counters /\ Flow
<1> SUFFICES ASSUME Init PROVE Counters /\ Flow
  OBVIOUS
<1>1. /\ trace \in Traces /\ now = 0 /\ sent = 0 /\ left = 0
      /\ issueTick = [u \in Uop |-> Never] /\ doneTick = [u \in Uop |-> Never]
  BY DEF Init
<1>2. NumMacros \in Nat
  BY <1>1, TraceIsValid
<1>3. Counters
  BY <1>1, <1>2 DEF Counters
<1>4. Flow
  BY <1>1 DEF Flow, Issued, Completed
<1> QED
  BY <1>3, <1>4

\* Only a uop whose producers have all completed passes _issue_blocker.
LEMMA IssueReady ==
    ASSUME Counters, NEW u \in Uop, Issue(u)
    PROVE  /\ trace[u].macro <= sent /\ \A v \in trace[u].deps : Completed(v)
           /\ issueTick' = [issueTick EXCEPT ![u] = now]
           /\ UNCHANGED <<trace, now, sent, left, doneTick>>
<1>1. u \in Listed /\ Issuable(u, now)
      /\ UNCHANGED <<trace, now, sent, left, doneTick>>
      /\ issueTick' = [issueTick EXCEPT ![u] = now]
  BY DEF Issue, setup
<1>2. u \in Waiting
  BY <1>1 DEF Listed, Candidates
<1>3. Incomplete(u) = {}
  <2> SUFFICES ASSUME Incomplete(u) # {} PROVE FALSE
    OBVIOUS
  <2>1. Blocker(u, now) = Blocked("dependency", Soonest(FinishKnown(Incomplete(u))))
    BY DEF Blocker
  <2>2. Blocker(u, now).why = "dependency"
    BY <2>1 DEF Blocked
  <2> QED
    BY <1>1, <2>2 DEF Issuable
<1> QED
  BY <1>1, <1>2, <1>3 DEF Waiting, Incomplete

\* A step that neither issues, completes, dispatches nor retires.
LEMMA FrameFlow ==
    ASSUME Counters, Flow, UNCHANGED <<trace, sent, left, doneTick, issueTick>>, now' \in Nat
    PROVE  (Counters /\ Flow)'
<1>1. Counters'
  BY DEF Counters, NumMacros, Uop
<1>2. Flow'
  BY DEF Flow, Issued, Completed, Uop
<1> QED
  BY <1>1, <1>2

LEMMA StepFlow == Counters /\ Flow /\ [Next]_vars => (Counters /\ Flow)'
<1> SUFFICES ASSUME Counters, Flow, [Next]_vars PROVE (Counters /\ Flow)'
  OBVIOUS
<1>0. now \in Nat /\ NumMacros \in Nat /\ sent \in Nat /\ left \in Nat
  BY TraceIsValid DEF Counters
<1>1. ASSUME NEW u \in Uop, Complete(u) PROVE (Counters /\ Flow)'
  <2>1. /\ UNCHANGED <<trace, now, sent, left, issueTick>>
        /\ doneTick' = [doneTick EXCEPT ![u] = Finish(u)]
        /\ Issued(u) /\ ~Completed(u)
    BY <1>1 DEF Complete, setup, place, Due
  <2>2. Counters'
    BY <2>1 DEF Counters, NumMacros, Uop
  <2>3. \A v \in Uop : v # u => (Completed(v)' <=> Completed(v))
    BY <2>1 DEF Completed, Counters
  <2>4. \A v \in Uop : Completed(v) => Completed(v)'
    BY <2>1, <2>3
  <2>5. \A v \in Uop : (Issued(v)' <=> Issued(v)) /\ trace[v].deps \subseteq Uop
    BY <2>1, TraceIsValid DEF Issued, Counters
  <2>6. Flow'
    BY <2>1, <2>3, <2>4, <2>5 DEF Flow, Uop
  <2> QED
    BY <2>2, <2>6
<1>2. ASSUME NEW u \in Uop, Issue(u) PROVE (Counters /\ Flow)'
  <2>1. /\ trace[u].macro <= sent /\ \A v \in trace[u].deps : Completed(v)
        /\ issueTick' = [issueTick EXCEPT ![u] = now]
        /\ UNCHANGED <<trace, now, sent, left, doneTick>>
    BY <1>2, IssueReady
  <2>2. Counters'
    BY <2>1 DEF Counters, NumMacros, Uop
  <2>3. \A v \in Uop : Issued(v)' <=> (Issued(v) \/ v = u)
    BY <1>0, <2>1 DEF Issued, Counters, Never
  <2>4. \A v : Completed(v)' <=> Completed(v)
    BY <2>1 DEF Completed
  <2>5. Flow'
    BY <2>1, <2>3, <2>4 DEF Flow, Uop
  <2> QED
    BY <2>2, <2>5
<1>3. CASE Dispatch
  <2>1. /\ sent < NumMacros /\ sent' = sent + 1
        /\ UNCHANGED <<trace, now, left, doneTick, issueTick>>
    BY <1>3 DEF Dispatch, setup, place
  <2>2. Counters'
    <3>1. NumMacros' = NumMacros /\ Uop' = Uop
      BY <2>1 DEF NumMacros, Uop
    <3>2. sent' \in 0..NumMacros /\ left' \in 0..sent'
      BY <1>0, <2>1 DEF Counters
    <3> QED
      BY <2>1, <3>1, <3>2 DEF Counters
  <2>3. \A u \in Uop : trace[u].macro \in Nat
    BY TraceIsValid DEF Counters
  <2>4. Flow'
    BY <1>0, <2>1, <2>3 DEF Flow, Issued, Completed, Uop
  <2> QED
    BY <2>2, <2>4
<1>4. CASE Retire
  <2>1. /\ left < sent /\ left' = left + 1
        /\ UNCHANGED <<trace, now, sent, doneTick, issueTick>>
    BY <1>4 DEF Retire, CanRetire, setup, place
  <2>2. Counters'
    <3>1. NumMacros' = NumMacros /\ Uop' = Uop
      BY <2>1 DEF NumMacros, Uop
    <3>2. left' \in 0..sent
      BY <1>0, <2>1 DEF Counters
    <3> QED
      BY <2>1, <3>1, <3>2 DEF Counters
  <2>3. Flow'
    BY <2>1 DEF Flow, Issued, Completed, Uop
  <2> QED
    BY <2>2, <2>3
<1>5. CASE DispatchEnds
  BY <1>0, <1>5, FrameFlow DEF DispatchEnds, setup, place
<1>6. CASE ReleaseFlows
  BY <1>0, <1>6, FrameFlow DEF ReleaseFlows, setup, place
<1>7. CASE List
  BY <1>0, <1>7, FrameFlow DEF List, setup, place
<1>8. CASE Round
  BY <1>0, <1>8, FrameFlow DEF Round, setup, place
<1>9. CASE RetireEnds
  BY <1>0, <1>9, FrameFlow DEF RetireEnds, setup, place
<1>10. CASE Advance
  <2>1. now' \in Nat
    BY <1>0, <1>10 DEF Advance
  <2> QED
    BY <1>10, <2>1, FrameFlow DEF Advance, setup, place
<1>11. CASE UNCHANGED vars
  BY <1>0, <1>11, FrameFlow DEF vars, setup, place
<1>12. CASE Stopped
  BY <1>11, <1>12 DEF Stopped
<1> QED
  BY <1>1, <1>2, <1>3, <1>4, <1>5, <1>6, <1>7, <1>8, <1>9, <1>10, <1>11, <1>12 DEF Next

THEOREM CountersAndFlow == Spec => [](Counters /\ Flow)
<1>1. Init => Counters /\ Flow
  BY InitFlow
<1>2. Counters /\ Flow /\ [Next]_vars => (Counters /\ Flow)'
  BY StepFlow
<1> QED
  BY <1>1, <1>2, PTL DEF Spec

-----------------------------------------------------------------------------
(***************************************************************************)
(* XsaiIssue implements Dataflow.                                          *)
(***************************************************************************)

\* The uops of a trace are those that its abstract view has, with a parent.
LEMMA SeenTrace ==
    ASSUME Counters
    PROVE  /\ Uop \subseteq 1..LongestTrace
           /\ \A u \in Uop : /\ Seen(trace).parent[u] = trace[u].macro
                           /\ Seen(trace).dependencies[u] = trace[u].deps
           /\ \A u \in 1..LongestTrace : u \notin Uop => Seen(trace).parent[u] = 0
<1>1. Uop = 1..Len(trace) /\ Len(trace) \in 1..LongestTrace
  BY TraceIsValid DEF Counters
<1>2. Uop \subseteq 1..LongestTrace /\ \A u \in 1..LongestTrace : u \in Uop <=> u <= Len(trace)
  BY <1>1, LengthAssumption
<1> QED
  BY <1>2 DEF Seen

LEMMA UnseenStutters ==
    ASSUME UNCHANGED <<trace, sent, left, doneTick>>
    PROVE  UNCHANGED Abstract!vars
BY DEF Abstract!vars, Seen, Completed, Uop

LEMMA CompleteProduces ==
    ASSUME Counters, Flow, NEW u \in Uop, Complete(u), ~UNCHANGED Abstract!vars
    PROVE  Abstract!Next
<1>1. /\ UNCHANGED <<trace, sent, left>>
      /\ doneTick' = [doneTick EXCEPT ![u] = Finish(u)]
      /\ Issued(u) /\ ~Completed(u)
  BY DEF Complete, setup, Due
<1> DEFINE finished == {v \in Uop : Completed(v)}
<1>2. finished' = finished \cup {u}
  <2>1. finished' = IF Finish(u) # Never THEN finished \cup {u} ELSE finished
    BY <1>1 DEF Completed, Counters, Uop
  <2>2. Seen(trace)' = Seen(trace)
    BY <1>1 DEF Seen
  <2>3. finished' # finished
    BY <1>1, <2>2 DEF Abstract!vars
  <2> QED
    BY <2>1, <2>3
<1>3. u \notin finished
  BY <1>1
<1>4. trace[u].macro <= sent /\ trace[u].deps \subseteq finished
  BY <1>1, TraceIsValid DEF Flow, Counters
<1>5. u \in 1..LongestTrace /\ Seen(trace)' = Seen(trace)
  BY <1>1, SeenTrace DEF Seen
<1>6. Abstract!Produce(u)
  BY <1>1, <1>2, <1>3, <1>4, <1>5, SeenTrace DEF Abstract!Produce
<1> QED
  BY <1>5, <1>6 DEF Abstract!Next

LEMMA DispatchEnters ==
    ASSUME Counters, Flow, Dispatch
    PROVE  Abstract!Next
<1>1. /\ sent < NumMacros /\ sent' = sent + 1
      /\ UNCHANGED <<trace, left, doneTick>>
  BY DEF Dispatch, setup
<1>2. sent < MostMacros
  BY <1>1, TraceIsValid, LengthAssumption DEF Counters
<1>3. /\ Seen(trace)' = Seen(trace)
      /\ {v \in Uop : Completed(v)}' = {v \in Uop : Completed(v)}
  BY <1>1 DEF Seen, Completed, Uop
<1> QED
  BY <1>1, <1>2, <1>3 DEF Abstract!Enter, Abstract!Next

LEMMA RetireLeaves ==
    ASSUME Counters, Flow, Retire
    PROVE  Abstract!Next
<1>1. /\ left < sent /\ MacroDone(left + 1) /\ left' = left + 1
      /\ UNCHANGED <<trace, sent, doneTick>>
  BY DEF Retire, CanRetire, setup
<1>2. /\ Seen(trace)' = Seen(trace)
      /\ {v \in Uop : Completed(v)}' = {v \in Uop : Completed(v)}
  BY <1>1 DEF Seen, Completed, Uop
<1>3. left + 1 # 0
  BY DEF Counters
<1>4. \A u \in 1..LongestTrace : Seen(trace).parent[u] = left + 1 =>
         u \in {v \in Uop : Completed(v)}
  BY <1>1, <1>3, SeenTrace DEF MacroDone, UopsOf
<1> QED
  BY <1>1, <1>2, <1>4 DEF Abstract!Leave, Abstract!Next

LEMMA StepImplements ==
    Counters /\ Flow /\ [Next]_vars => [Abstract!Next]_(Abstract!vars)
<1> SUFFICES ASSUME Counters, Flow, [Next]_vars, ~UNCHANGED Abstract!vars
             PROVE  Abstract!Next
  OBVIOUS
<1>1. ASSUME NEW u \in Uop, Complete(u) PROVE Abstract!Next
  BY <1>1, CompleteProduces
<1>2. CASE Dispatch
  BY <1>2, DispatchEnters
<1>3. CASE Retire
  BY <1>3, RetireLeaves
<1>4. ASSUME NEW u \in Uop, Issue(u) PROVE FALSE
  BY <1>4, UnseenStutters DEF Issue, setup
<1>5. CASE DispatchEnds
  BY <1>5, UnseenStutters DEF DispatchEnds, setup
<1>6. CASE ReleaseFlows
  BY <1>6, UnseenStutters DEF ReleaseFlows, setup
<1>7. CASE List
  BY <1>7, UnseenStutters DEF List, setup
<1>8. CASE Round
  BY <1>8, UnseenStutters DEF Round, setup
<1>9. CASE RetireEnds
  BY <1>9, UnseenStutters DEF RetireEnds, setup
<1>10. CASE Advance
  BY <1>10, UnseenStutters DEF Advance, setup
<1>11. CASE UNCHANGED vars
  BY <1>11, UnseenStutters DEF vars, setup
<1>12. CASE Stopped
  BY <1>11, <1>12 DEF Stopped
<1> QED
  BY <1>1, <1>2, <1>3, <1>4, <1>5, <1>6, <1>7, <1>8, <1>9, <1>10, <1>11, <1>12 DEF Next

LEMMA InitImplements == Init => Abstract!Init
<1> SUFFICES ASSUME Init PROVE Abstract!Init
  OBVIOUS
<1>1. /\ trace \in Traces /\ sent = 0 /\ left = 0
      /\ doneTick = [u \in Uop |-> Never]
  BY DEF Init
<1>2. {u \in Uop : Completed(u)} = {}
  BY <1>1 DEF Completed
<1> QED
  BY <1>1, <1>2 DEF Abstract!Init

\* Ports, epochs, flows and limits shape the timing of the XSAI engine and not
\* its result: results appear in dependency order, and macro-ops enter and leave
\* in program order.
THEOREM ImplementsHolds == Spec => Implements
<1>1. Init => Abstract!Init
  BY InitImplements
<1>2. Counters /\ Flow /\ [Next]_vars => [Abstract!Next]_(Abstract!vars)
  BY StepImplements
<1> QED
  BY <1>1, <1>2, CountersAndFlow, PTL DEF Spec, Implements, Abstract!Spec

-----------------------------------------------------------------------------
(***************************************************************************)
(* Facts about numbers, cycles and counters.                               *)
(***************************************************************************)
\* A set of natural numbers has a least element: the intervals that end at its
\* members are well-founded.
LEMMA LeastNumber ==
    ASSUME NEW S, S \subseteq Nat, S # {}
    PROVE  \E x \in S : \A y \in S : x <= y
<1> DEFINE Upto(x) == 0..x
           T == {Upto(x) : x \in S}
<1>1. T \subseteq FiniteSubsetsOf(Nat)
  <2> SUFFICES ASSUME NEW x \in S PROVE Upto(x) \in FiniteSubsetsOf(Nat)
    OBVIOUS
  <2>1. IsFiniteSet(0..x)
    BY FS_Interval
  <2> QED
    BY <2>1 DEF FiniteSubsetsOf
<1>2. IsWellFoundedOn(StrictSubsetOrdering(Nat), FiniteSubsetsOf(Nat))
  BY FS_StrictSubsetOrderingWellFounded
<1>3. PICK X \in T : \A Y \in T : <<Y, X>> \notin StrictSubsetOrdering(Nat)
  <2>1. T # {}
    OBVIOUS
  <2> HIDE DEF T
  <2> QED
    BY <1>1, <1>2, <2>1, WFMin
<1>4. PICK x \in S : X = 0..x
  OBVIOUS
<1>5. ASSUME NEW y \in S, y < x PROVE FALSE
  <2>1. 0..y \in SUBSET Nat /\ 0..x \in SUBSET Nat
    OBVIOUS
  <2>2. 0..y \subseteq 0..x /\ x \in 0..x /\ x \notin 0..y
    BY <1>5
  <2>3. <<0..y, 0..x>> \in StrictSubsetOrdering(Nat)
    BY <2>1, <2>2 DEF StrictSubsetOrdering
  <2>4. 0..y \in T
    OBVIOUS
  <2> QED
    BY <1>3, <1>4, <2>3, <2>4
<1> QED
  BY <1>5

LEMMA LeastField ==
    ASSUME NEW Q, Q \subseteq Nat \X Nat \X Nat \X Nat, Q # {}
    PROVE  \A i \in 1..4 : \E c \in Q : \A d \in Q : c[i] <= d[i]
<1> TAKE i \in 1..4
<1> DEFINE S == {c[i] : c \in Q}
<1>1. \A c \in Q : c[i] \in Nat
  OBVIOUS
<1>2. S \subseteq Nat /\ S # {}
  BY <1>1
<1>3. PICK x \in S : \A y \in S : x <= y
  <2> HIDE DEF S
  <2> QED
    BY <1>2, LeastNumber
<1>4. PICK c \in Q : x = c[i]
  OBVIOUS
<1>5. \A d \in Q : d[i] \in S
  OBVIOUS
<1> QED
  BY <1>3, <1>4, <1>5

\* Candidates are compared field by field; one of them comes first.
LEMMA FirstPath ==
    ASSUME NEW P, P \subseteq Nat \X Nat \X Nat \X Nat, P # {}
    PROVE  \E c \in P : \A d \in P : d = c \/ Precedes(c, d)
<1>1. /\ 1 \in 1..4 /\ 2 \in 1..4 /\ 3 \in 1..4 /\ 4 \in 1..4
      /\ \E c \in P : \A d \in P : c[1] <= d[1]
  <2>1. \A i \in 1..4 : \E c \in P : \A d \in P : c[i] <= d[i]
    BY LeastField
  <2> QED
    BY <2>1
<1>2. PICK P1 : P1 = {c \in P : \A d \in P : c[1] <= d[1]}
  OBVIOUS
<1>3. P1 # {} /\ P1 \subseteq P /\ P1 \subseteq Nat \X Nat \X Nat \X Nat
  BY <1>1, <1>2
<1>4. \E c \in P1 : \A d \in P1 : c[2] <= d[2]
  <2>1. \A i \in 1..4 : \E c \in P1 : \A d \in P1 : c[i] <= d[i]
    BY <1>3, LeastField
  <2> QED
    BY <1>1, <2>1
<1>5. PICK P2 : P2 = {c \in P1 : \A d \in P1 : c[2] <= d[2]}
  OBVIOUS
<1>6. P2 # {} /\ P2 \subseteq P1 /\ P2 \subseteq Nat \X Nat \X Nat \X Nat
  BY <1>3, <1>4, <1>5
<1>7. \E c \in P2 : \A d \in P2 : c[3] <= d[3]
  <2>1. \A i \in 1..4 : \E c \in P2 : \A d \in P2 : c[i] <= d[i]
    BY <1>6, LeastField
  <2> QED
    BY <1>1, <2>1
<1>8. PICK P3 : P3 = {c \in P2 : \A d \in P2 : c[3] <= d[3]}
  OBVIOUS
<1>9. P3 # {} /\ P3 \subseteq P2 /\ P3 \subseteq Nat \X Nat \X Nat \X Nat
  BY <1>6, <1>7, <1>8
<1>10. PICK c \in P3 : \A d \in P3 : c[4] <= d[4]
  <2>1. \A i \in 1..4 : \E c \in P3 : \A d \in P3 : c[i] <= d[i]
    BY <1>9, LeastField
  <2> QED
    BY <1>1, <2>1
<1>11. c \in P
  BY <1>3, <1>6, <1>9
<1>12. /\ \A d \in P : c[1] <= d[1] /\ (d[1] = c[1] => d \in P1)
       /\ \A d \in P1 : c[2] <= d[2] /\ (d[2] = c[2] => d \in P2)
       /\ \A d \in P2 : c[3] <= d[3] /\ (d[3] = c[3] => d \in P3)
  BY <1>2, <1>3, <1>5, <1>6, <1>8, <1>9
<1>13. \A d \in P : /\ d = <<d[1], d[2], d[3], d[4]>>
                   /\ d[1] \in Nat /\ d[2] \in Nat /\ d[3] \in Nat /\ d[4] \in Nat
  OBVIOUS
<1>14. ASSUME NEW d \in P, d # c PROVE Precedes(c, d)
  <2>1. CASE d[1] # c[1]
    <3>1. c[1] < d[1] /\ 1 \in 1..4 /\ \A j \in 1..(1 - 1) : c[j] = d[j]
      BY <1>11, <1>12, <1>13, <2>1
    <3> QED
      BY <3>1 DEF Precedes
  <2>2. CASE d[1] = c[1] /\ d[2] # c[2]
    <3>1. c[2] < d[2] /\ 2 \in 1..4 /\ \A j \in 1..(2 - 1) : c[j] = d[j]
      BY <1>11, <1>12, <1>13, <2>2
    <3> QED
      BY <3>1 DEF Precedes
  <2>3. CASE d[1] = c[1] /\ d[2] = c[2] /\ d[3] # c[3]
    <3>1. c[3] < d[3] /\ 3 \in 1..4
      BY <1>11, <1>12, <1>13, <2>3
    <3>2. \A j \in 1..(3 - 1) : c[j] = d[j]
      <4>1. \A j \in 1..(3 - 1) : j = 1 \/ j = 2
        OBVIOUS
      <4> QED
        BY <2>3, <4>1
    <3> QED
      BY <3>1, <3>2 DEF Precedes
  <2>4. CASE d[1] = c[1] /\ d[2] = c[2] /\ d[3] = c[3]
    <3>1. d[4] # c[4]
      BY <1>11, <1>13, <1>14, <2>4
    <3>2. c[4] < d[4] /\ 4 \in 1..4
      BY <1>10, <1>11, <1>12, <1>13, <2>4, <3>1
    <3>3. \A j \in 1..(4 - 1) : c[j] = d[j]
      <4>1. \A j \in 1..(4 - 1) : j = 1 \/ j = 2 \/ j = 3
        OBVIOUS
      <4> QED
        BY <2>4, <4>1
    <3> QED
      BY <3>2, <3>3 DEF Precedes
  <2> QED
    BY <2>1, <2>2, <2>3, <2>4
<1> QED
  BY <1>11, <1>14

\* The first tick of a cycle lies in it.
LEMMA CycleStarts ==
    ASSUME NEW n \in Nat
    PROVE  Cycle(n * TicksPerCycle) = n /\ n * TicksPerCycle \in Nat
<1>1. PICK c \in Nat \ {0} : c = TicksPerCycle
  BY WidthAssumption
<1>2. (n * c) \div c = n /\ n * c \in Nat
  OBVIOUS
<1> QED
  BY <1>1, <1>2 DEF Cycle

LEMMA CycleIsNat ==
    ASSUME NEW t \in Nat
    PROVE  Cycle(t) \in Nat /\ t < (Cycle(t) + 1) * TicksPerCycle
<1>1. PICK c \in Nat \ {0} : c = TicksPerCycle
  BY WidthAssumption
<1>2. t \div c \in Nat /\ t < (t \div c + 1) * c
  OBVIOUS
<1> QED
  BY <1>1, <1>2 DEF Cycle

\* A slot that is taken counts one more, all others as before.
LEMMA TakeCounts ==
    ASSUME NEW slots, NEW d, NEW tick, NEW s
    PROVE  Reserved(Take(slots, d, tick), s) =
              IF d # NoDomain /\ s = Slot(d, tick) THEN Reserved(slots, s) + 1
              ELSE Reserved(slots, s)
BY DEF Take, Reserved

-----------------------------------------------------------------------------
(***************************************************************************)
(* Every issue is respectful.  The invariant says what the engine's own    *)
(* ledgers, which are all that _issue_blocker reads, tell of the uops that *)
(* were issued.                                                            *)
(***************************************************************************)
Places == {"begin", "dispatch", "settle", "scan", "retire", "advance", "done", "diverged"}

\* No tick lies in the future but the ends of uops under way, and those do.
Times ==
    /\ pc \in Places /\ policy \in Policies /\ now \in 0..Horizon
    /\ width \in Nat /\ at \in Uop \cup {NoUop} /\ progressed \in BOOLEAN
    /\ DOMAIN latency = Uop /\ DOMAIN placed = Uop
    /\ \A u \in Uop : latency[u] \in Nat /\ issueTick[u] \in Never..now
    /\ \A u \in Uop : Completed(u) => doneTick[u] = Finish(u) /\ Finish(u) <= now
    /\ \A u \in Uop : Issued(u) /\ ~Completed(u) => Finish(u) >= now
    /\ pc = "scan" /\ ~progressed => Due = {}
    /\ pc \in {"retire", "advance"} => Due = {}

\* A flow whose service is timed is in flight, of an issued uop.
Flows ==
    /\ serving \subseteq inflight /\ inflight \subseteq IssuedUops
    /\ \A u \in serving : policy.service[trace[u].kind] # Never

\* Where an issued uop is placed, and what is reserved for it there.
Reservations ==
    /\ \A r \in Resource : \A l \in 1..Lanes[r] : laneFree[r][l] \in Nat
    /\ \A x \in Unit : unitFree[x] \in Nat
    /\ DOMAIN laneFree = Resource /\ DOMAIN unitFree = Unit
    /\ \A r \in Resource : DOMAIN laneFree[r] = 1..Lanes[r]
    /\ \A u \in Uop : Issued(u) =>
          LET r == placed[u][1]
              l == placed[u][2]
              x == placed[u][3]
          IN  /\ r \in Resource /\ l \in 1..Lanes[r] /\ x \in Unit \cup {NoUnit}
              /\ issueTick[u] + trace[u].occupancy <= laneFree[r][l]
              /\ x # NoUnit => issueTick[u] + trace[u].occupancy <= unitFree[x]

\* The Counters of the domains count the issued uops that hold a slot.
Readers(d, c) ==
    {u \in Uop : Issued(u) /\ ReadOf(u, placed[u][3]) = d /\ Cycle(issueTick[u]) = c}
Writers(d, c) ==
    {u \in Uop : Issued(u) /\ WriteOf(u, placed[u][3]) = d /\ Cycle(Finish(u)) = c}
Ports ==
    /\ reads \in [DOMAIN reads -> Nat \ {0}] /\ writes \in [DOMAIN writes -> Nat \ {0}]
    /\ \A d \in DOMAIN ReadCapacity \ {NoDomain}, c \in Nat :
          /\ Reserved(reads, <<d, c>>) = Cardinality(Readers(d, c))
          /\ Reserved(reads, <<d, c>>) <= ReadCapacity[d]
    /\ \A d \in DOMAIN WriteCapacity \ {NoDomain}, c \in Nat :
          /\ Reserved(writes, <<d, c>>) = Cardinality(Writers(d, c))
          /\ Reserved(writes, <<d, c>>) <= WriteCapacity[d]

Ledger == Times /\ Flows /\ Reservations /\ Ports

LEMMA UopFields ==
    ASSUME Counters, NEW u \in Uop
    PROVE  /\ trace[u].latency \in Nat /\ trace[u].occupancy \in Nat
           /\ trace[u].access \subseteq Nat
           /\ trace[u].resources \subseteq Resource /\ trace[u].units \subseteq Unit
           /\ trace[u].deps \subseteq Uop /\ trace[u].state \subseteq trace[u].deps
<1>1. ValidUop(trace, u)
  BY TraceAssumption DEF Counters, Uop
<1> QED
  BY <1>1, TraceIsValid DEF ValidUop, Counters

LEMMA MaxOfThree ==
    ASSUME NEW a \in Nat, NEW b \in Nat, NEW c \in Nat
    PROVE  Max({a, b, c}) \in Nat
<1>1. \E x \in {a, b, c} : \A y \in {a, b, c} : x >= y
  <2>1. CASE a >= b /\ a >= c
    BY <2>1
  <2>2. CASE b >= a /\ b >= c
    BY <2>2
  <2>3. CASE c >= a /\ c >= b
    BY <2>3
  <2> QED
    BY <2>1, <2>2, <2>3
<1> QED
  BY <1>1 DEF Max

LEMMA MinIsLeast ==
    ASSUME NEW S, S \subseteq Nat, S # {}
    PROVE  Min(S) \in S /\ \A y \in S : Min(S) <= y
BY LeastNumber DEF Min

\* The ways of execution are those the lanes, units and read domains allow now.
LEMMA PathsAllow ==
    ASSUME Counters, Times, Reservations, NEW u \in Uop
    PROVE  /\ Paths(u, now) \subseteq Nat \X Nat \X Nat \X Nat
           /\ \A c \in Paths(u, now) :
                 /\ c[2] \in Resource /\ c[3] \in 1..Lanes[c[2]]
                 /\ c[4] \in Unit \cup {NoUnit}
                 /\ laneFree[c[2]][c[3]] <= now
                 /\ c[4] # NoUnit => unitFree[c[4]] <= now
                 /\ ReadOf(u, c[4]) # NoDomain => ReadFree(ReadOf(u, c[4]), now)
<1>1. SUFFICES ASSUME NEW c \in Paths(u, now)
               PROVE  /\ c \in Nat \X Nat \X Nat \X Nat
                      /\ c[2] \in Resource /\ c[3] \in 1..Lanes[c[2]]
                      /\ c[4] \in Unit \cup {NoUnit}
                      /\ laneFree[c[2]][c[3]] <= now
                      /\ c[4] # NoUnit => unitFree[c[4]] <= now
                      /\ ReadOf(u, c[4]) # NoDomain => ReadFree(ReadOf(u, c[4]), now)
  OBVIOUS
<1>2. c \in Readable(u, now)
  BY DEF Paths
<1>3. c \in FreePaths(u, now) /\ (ReadOf(u, c[4]) # NoDomain => ReadFree(ReadOf(u, c[4]), now))
  BY <1>2 DEF Readable
<1>4. PICK r \in trace[u].resources : \E l \in 1..Lanes[r], x \in UnitChoices(u) :
         c = <<laneFree[r][l], r, l, x>>
  BY <1>3 DEF FreePaths
<1>5. PICK l \in 1..Lanes[r], x \in UnitChoices(u) : c = <<laneFree[r][l], r, l, x>>
  BY <1>4
<1>6. c[1] <= now /\ (c[4] # NoUnit => unitFree[c[4]] <= now)
  BY <1>3 DEF FreePaths
<1>7. r \in Resource /\ x \in Unit \cup {NoUnit}
  BY <1>4, UopFields DEF UnitChoices
<1>8. r \in Nat /\ Lanes[r] \in Nat /\ x \in Nat /\ laneFree[r][l] \in Nat
  BY <1>7, TopologyAssumption DEF Reservations, NoUnit
<1> QED
  BY <1>3, <1>5, <1>6, <1>7, <1>8

\* A result finds a slot: no more slots are taken than uops have issued, so that
\* _reserve_completion_domain comes to a cycle with room.
LEMMA ReserveFinds ==
    ASSUME Counters, Times, Ports, NEW d \in DOMAIN WriteCapacity \cup {NoDomain},
           NEW tick \in Nat
    PROVE  /\ Reserve(d, tick) \in Nat /\ Reserve(d, tick) >= tick
           /\ d # NoDomain => WriteFree(d, Reserve(d, tick))
<1>1. CASE d = NoDomain \/ WriteFree(d, tick)
  BY <1>1 DEF Reserve
<1>2. CASE d # NoDomain /\ ~WriteFree(d, tick)
  <2> DEFINE n == Len(trace)
             start(k) == (Cycle(tick) + k) * TicksPerCycle
             later == {k \in 1..(n + 1) : WriteFree(d, start(k))}
  <2>1. /\ Uop = 1..n /\ n \in Nat /\ Cycle(tick) \in Nat
        /\ WriteCapacity[d] \in Nat \ {0}
    BY <1>2, TraceIsValid, CycleIsNat, TopologyAssumption, LengthAssumption DEF Counters
  <2>2. ASSUME NEW k \in Nat
        PROVE  start(k) \in Nat /\ Slot(d, start(k)) = <<d, Cycle(tick) + k>>
    <3>1. Cycle(tick) + k \in Nat
      BY <2>1
    <3> QED
      BY <3>1, CycleStarts DEF Slot
  <2>3. later # {}
    <3> SUFFICES ASSUME later = {} PROVE FALSE
      OBVIOUS
    <3> DEFINE holder == [k \in 1..(n + 1) |-> CHOOSE u \in Uop : u \in Writers(d, Cycle(tick) + k)]
    <3>1. ASSUME NEW k \in 1..(n + 1) PROVE \E u \in Uop : u \in Writers(d, Cycle(tick) + k)
      <4>1. k \in Nat /\ ~WriteFree(d, start(k)) /\ Cycle(tick) + k \in Nat
        BY <2>1
      <4>2. ~(Reserved(writes, <<d, Cycle(tick) + k>>) < WriteCapacity[d])
        BY <2>2, <4>1 DEF WriteFree
      <4>3. /\ Reserved(writes, <<d, Cycle(tick) + k>>) = Cardinality(Writers(d, Cycle(tick) + k))
        BY <1>2, <4>1 DEF Ports
      <4>4. Writers(d, Cycle(tick) + k) # {}
        <5>1. Cardinality({}) = 0
          BY FS_EmptySet
        <5> SUFFICES ASSUME Writers(d, Cycle(tick) + k) = {} PROVE FALSE
          OBVIOUS
        <5>2. Reserved(writes, <<d, Cycle(tick) + k>>) = 0
          BY <4>3, <5>1
        <5> QED
          BY <2>1, <4>2, <5>2
      <4> QED
        BY <4>4 DEF Writers
    <3>2. holder \in [1..(n + 1) -> Uop]
      BY <3>1
    <3>3. ASSUME NEW k \in 1..(n + 1) PROVE Cycle(Finish(holder[k])) = Cycle(tick) + k
      <4>1. holder[k] \in Writers(d, Cycle(tick) + k)
        BY <3>1
      <4> QED
        BY <4>1 DEF Writers
    <3>4. /\ IsFiniteSet(1..(n + 1)) /\ Cardinality(1..(n + 1)) = n + 1
          /\ IsFiniteSet(1..n) /\ Cardinality(1..n) = n
      <4>1. \A m \in Nat : IsFiniteSet(1..m) /\ Cardinality(1..m) = m
        BY FS_Interval
      <4> QED
        BY <2>1, <4>1
    <3> HIDE DEF holder
    <3>5. Cardinality(Uop) < Cardinality(1..(n + 1)) /\ IsFiniteSet(Uop)
      BY <2>1, <3>4
    <3>6. \E x, y \in 1..(n + 1) : x # y /\ holder[x] = holder[y]
      BY <3>2, <3>4, <3>5, FS_PigeonHole
    <3> QED
      BY <2>1, <3>3, <3>6
  <2>4. Min(later) \in later
    <3>1. later \subseteq Nat
      OBVIOUS
    <3> HIDE DEF later
    <3> QED
      BY <2>3, <3>1, MinIsLeast
  <2>5. PICK k \in later : Min(later) = k
    BY <2>4
  <2>6. Reserve(d, tick) = start(k)
    BY <1>2, <2>5 DEF Reserve
  <2>7. k \in Nat \ {0} /\ WriteFree(d, start(k))
    OBVIOUS
  <2>8. start(k) >= tick
    <3>1. tick < (Cycle(tick) + 1) * TicksPerCycle
      BY CycleIsNat
    <3>2. PICK a \in Nat, c \in Nat : a = Cycle(tick) /\ c = TicksPerCycle
      BY <2>1, WidthAssumption
    <3>3. (a + k) * c >= (a + 1) * c
      BY <2>7
    <3>4. (a + k) * c \in Nat /\ (a + 1) * c \in Nat
      BY <2>7
    <3> QED
      BY <3>1, <3>2, <3>3, <3>4
  <2> QED
    BY <2>2, <2>6, <2>7, <2>8
<1> QED
  BY <1>1, <1>2

\* What _issue_blocker has ruled out when it lets a uop pass.
LEMMA IssueGates ==
    ASSUME NEW u \in Uop, Issuable(u, now)
    PROVE  /\ EpochBlocker(u, now) = Clear
           /\ trace[u].vmem => VectorMemoryBlocker(u, now) = Clear
           /\ Paths(u, now) # {}
<1>1. EpochBlocker(u, now) # Clear => EpochBlocker(u, now).why # "none"
  BY DEF EpochBlocker, Blocked, Clear
<1>2. VectorMemoryBlocker(u, now) # Clear => VectorMemoryBlocker(u, now).why # "none"
  BY DEF VectorMemoryBlocker, Blocked, Clear
<1>3. PortBlocker(u, now).why = "none" => Paths(u, now) # {}
  BY DEF PortBlocker, Blocked, Clear
<1>4. /\ Blocker(u, now).why = "none"
      /\ \A why, tick : Blocked(why, tick).why = why
  BY DEF Issuable, Blocked
<1>5. EpochBlocker(u, now) = Clear
  BY <1>1, <1>4 DEF Blocker
<1>6. /\ trace[u].vmem => VectorMemoryBlocker(u, now) = Clear
      /\ Blocker(u, now) = PortBlocker(u, now)
  BY <1>2, <1>4, <1>5 DEF Blocker
<1> QED
  BY <1>3, <1>4, <1>5, <1>6

\* What an issue finds and what it does.
LEMMA IssueFacts ==
    ASSUME Counters, Flow, Ledger, NEW u \in Uop, Issue(u)
    PROVE  /\ pc = "scan" /\ pc' = "scan" /\ progressed' = TRUE /\ at' = u
           /\ ~Issued(u) /\ trace[u].macro <= sent
           /\ \A v \in trace[u].deps : Completed(v)
           /\ EpochBlocker(u, now) = Clear
           /\ trace[u].vmem => VectorMemoryBlocker(u, now) = Clear
           /\ UNCHANGED <<trace, policy, epochs, now, sent, left, width, doneTick>>
           /\ \E c \in Paths(u, now), finish \in Nat :
                 /\ finish >= now
                 /\ WriteOf(u, c[4]) # NoDomain => WriteFree(WriteOf(u, c[4]), finish)
                 /\ issueTick' = [issueTick EXCEPT ![u] = now]
                 /\ latency' = [latency EXCEPT ![u] = finish - now]
                 /\ placed' = [placed EXCEPT ![u] = <<c[2], c[3], c[4]>>]
                 /\ Occupy(u, c)
                 /\ reads' = Take(reads, ReadOf(u, c[4]), now)
                 /\ writes' = Take(writes, WriteOf(u, c[4]), finish)
<1>1. /\ pc = "scan" /\ progressed' = TRUE /\ at' = u
      /\ u \in Listed /\ Issuable(u, now)
      /\ UNCHANGED <<pc, trace, policy, epochs, now, sent, left, width, doneTick>>
  BY DEF Issue, setup
<1>2. ~Issued(u)
  BY <1>1 DEF Listed, Candidates, Waiting
<1>3. /\ EpochBlocker(u, now) = Clear /\ Paths(u, now) # {}
      /\ trace[u].vmem => VectorMemoryBlocker(u, now) = Clear
  BY <1>1, IssueGates
<1>4. /\ trace[u].macro <= sent /\ \A v \in trace[u].deps : Completed(v)
  BY IssueReady
<1>5. PICK answer \in Answers(u) :
         LET c == Choice(u)
             due == now + AccessLatency(u, answer)
             finish == Reserve(WriteOf(u, c[4]), due)
         IN  /\ issueTick' = [issueTick EXCEPT ![u] = now]
             /\ latency' = [latency EXCEPT ![u] = finish - now]
             /\ placed' = [placed EXCEPT ![u] = <<c[2], c[3], c[4]>>]
             /\ Occupy(u, c)
             /\ reads' = Take(reads, ReadOf(u, c[4]), now)
             /\ writes' = Take(writes, WriteOf(u, c[4]), finish)
  BY DEF Issue
<1>6. PICK c : c = Choice(u)
  OBVIOUS
<1>7. c \in Paths(u, now)
  <2>1. Paths(u, now) \subseteq Nat \X Nat \X Nat \X Nat
    BY PathsAllow DEF Ledger
  <2>2. \E e \in Paths(u, now) : \A d \in Paths(u, now) : d = e \/ Precedes(e, d)
    BY <1>3, <2>1, FirstPath
  <2> QED
    BY <1>6, <2>2 DEF Choice
<1>8. PICK due : due = now + AccessLatency(u, answer)
  OBVIOUS
<1>9. due \in Nat /\ due >= now
  <2>1. latency[u] \in Nat /\ now \in Nat /\ policy \in Policies
    BY DEF Ledger, Times, Counters
  <2>2. answer \in Nat
    BY <1>5, UopFields DEF Answers
  <2>3. policy.storeCompletion \in Nat
    BY <2>1, PolicyAssumption
  <2>4. (IF trace[u].vmem /\ trace[u].kind = "store" THEN policy.storeCompletion ELSE 0) \in Nat
    BY <2>3
  <2>5. AccessLatency(u, answer) \in Nat
    BY <2>1, <2>2, <2>4, MaxOfThree DEF AccessLatency
  <2> QED
    BY <1>8, <2>1, <2>5
<1>10. WriteOf(u, c[4]) \in DOMAIN WriteCapacity \cup {NoDomain}
  <2>1. c[4] \in Unit \cup {NoUnit}
    BY <1>7, PathsAllow DEF Ledger
  <2> QED
    BY <2>1, TopologyAssumption DEF WriteOf
<1>11. PICK finish : finish = Reserve(WriteOf(u, c[4]), due)
  OBVIOUS
<1>12. /\ finish \in Nat /\ finish >= due
       /\ WriteOf(u, c[4]) # NoDomain => WriteFree(WriteOf(u, c[4]), finish)
  BY <1>9, <1>10, <1>11, ReserveFinds DEF Ledger
<1>13. finish >= now /\ now \in Nat
  BY <1>9, <1>12 DEF Counters
<1>14. /\ issueTick' = [issueTick EXCEPT ![u] = now]
       /\ latency' = [latency EXCEPT ![u] = finish - now]
       /\ placed' = [placed EXCEPT ![u] = <<c[2], c[3], c[4]>>]
       /\ Occupy(u, c)
       /\ reads' = Take(reads, ReadOf(u, c[4]), now)
       /\ writes' = Take(writes, WriteOf(u, c[4]), finish)
  BY <1>5, <1>6, <1>8, <1>11
<1>15. \E p \in Paths(u, now), end \in Nat :
          /\ end >= now
          /\ WriteOf(u, p[4]) # NoDomain => WriteFree(WriteOf(u, p[4]), end)
          /\ issueTick' = [issueTick EXCEPT ![u] = now]
          /\ latency' = [latency EXCEPT ![u] = end - now]
          /\ placed' = [placed EXCEPT ![u] = <<p[2], p[3], p[4]>>]
          /\ Occupy(u, p)
          /\ reads' = Take(reads, ReadOf(u, p[4]), now)
          /\ writes' = Take(writes, WriteOf(u, p[4]), end)
  BY <1>7, <1>12, <1>13, <1>14, Zenon
<1> QED
  BY <1>1, <1>2, <1>3, <1>4, <1>15, Zenon

LEMMA InitLedger == Init => Ledger
<1> SUFFICES ASSUME Init PROVE Ledger
  OBVIOUS
<1>1. /\ trace \in Traces /\ policy \in Policies /\ pc = "begin" /\ now = 0 /\ width = 0
      /\ at = NoUop /\ progressed = FALSE
      /\ issueTick = [u \in Uop |-> Never] /\ doneTick = [u \in Uop |-> Never]
      /\ latency = [u \in Uop |-> trace[u].latency] /\ placed = [u \in Uop |-> <<>>]
      /\ laneFree = [r \in Resource |-> [l \in 1..Lanes[r] |-> 0]]
      /\ unitFree = [x \in Unit |-> 0]
      /\ inflight = {} /\ serving = {} /\ reads = <<>> /\ writes = <<>>
  BY DEF Init
<1>2. Counters /\ \A u \in Uop : ~Issued(u) /\ ~Completed(u)
  BY <1>1, InitFlow DEF Issued, Completed
<1>3. Times
  <2>1. now \in 0..Horizon
    BY <1>1, WidthAssumption
  <2>2. \A u \in Uop : latency[u] \in Nat /\ issueTick[u] \in Never..now
    BY <1>1, <1>2, UopFields DEF Never
  <2>3. Due = {}
    BY <1>2 DEF Due
  <2> QED
    BY <1>1, <1>2, <2>1, <2>2, <2>3 DEF Times, Places
<1>4. Flows
  BY <1>1 DEF Flows
<1>5. Reservations
  <2>1. DOMAIN laneFree = Resource /\ DOMAIN unitFree = Unit
    BY <1>1
  <2>2. \A r \in Resource : /\ DOMAIN laneFree[r] = 1..Lanes[r]
                            /\ \A l \in 1..Lanes[r] : laneFree[r][l] \in Nat
    BY <1>1
  <2>3. \A x \in Unit : unitFree[x] \in Nat
    BY <1>1
  <2> QED
    BY <1>2, <2>1, <2>2, <2>3 DEF Reservations
<1>6. Ports
  <2>1. \A s : Reserved(reads, s) = 0 /\ Reserved(writes, s) = 0
    BY <1>1 DEF Reserved
  <2>2. \A d, c : Readers(d, c) = {} /\ Writers(d, c) = {}
    BY <1>2 DEF Readers, Writers
  <2>3. Cardinality({}) = 0
    BY FS_EmptySet
  <2>4. /\ \A d \in DOMAIN ReadCapacity : 0 <= ReadCapacity[d]
        /\ \A d \in DOMAIN WriteCapacity : 0 <= WriteCapacity[d]
    BY TopologyAssumption
  <2>5. reads \in [DOMAIN reads -> Nat \ {0}] /\ writes \in [DOMAIN writes -> Nat \ {0}]
    BY <1>1
  <2>6. \A d \in DOMAIN ReadCapacity \ {NoDomain}, c \in Nat :
          /\ Reserved(reads, <<d, c>>) = Cardinality(Readers(d, c))
          /\ Reserved(reads, <<d, c>>) <= ReadCapacity[d]
    BY <2>1, <2>2, <2>3, <2>4
  <2>7. \A d \in DOMAIN WriteCapacity \ {NoDomain}, c \in Nat :
          /\ Reserved(writes, <<d, c>>) = Cardinality(Writers(d, c))
          /\ Reserved(writes, <<d, c>>) <= WriteCapacity[d]
    BY <2>1, <2>2, <2>3, <2>4
  <2> QED
    BY <2>5, <2>6, <2>7 DEF Ports
<1> QED
  BY <1>3, <1>4, <1>5, <1>6 DEF Ledger

\* A handler that places no uop leaves the reservations and the ports alone.
LEMMA FramePlaces ==
    ASSUME Reservations, Ports, UNCHANGED <<trace, issueTick, latency, placed, laneFree, unitFree, ports>>
    PROVE  Reservations' /\ Ports'
<1>1. Reservations'
  BY DEF Reservations, Issued, Uop
<1>2. \A d, c : Readers(d, c)' = Readers(d, c) /\ Writers(d, c)' = Writers(d, c)
  BY DEF Readers, Writers, Issued, Finish, ReadOf, WriteOf, Uop
<1>3. Ports'
  <2>1. reads' = reads /\ writes' = writes
    BY DEF ports
  <2> QED
    BY <1>2, <2>1 DEF Ports, Reserved
<1> QED
  BY <1>1, <1>3

LEMMA IssueTimes ==
    ASSUME Counters, Flow, Ledger, NEW u \in Uop, Issue(u)
    PROVE  Times'
<1>1. /\ pc' = "scan" /\ progressed' = TRUE /\ at' = u
      /\ ~Issued(u)
      /\ UNCHANGED <<trace, policy, epochs, now, sent, left, width, doneTick>>
  BY IssueFacts
<1>2. PICK finish \in Nat : /\ finish >= now
                            /\ issueTick' = [issueTick EXCEPT ![u] = now]
                            /\ latency' = [latency EXCEPT ![u] = finish - now]
                            /\ DOMAIN placed' = DOMAIN placed
  BY IssueFacts
<1>3. /\ now \in Nat /\ DOMAIN issueTick = Uop /\ DOMAIN latency = Uop /\ ~Completed(u)
  BY <1>1 DEF Counters, Ledger, Times, Flow
<1>4. /\ issueTick'[u] = now /\ latency'[u] = finish - now
      /\ \A v \in Uop : v # u => issueTick'[v] = issueTick[v] /\ latency'[v] = latency[v]
  BY <1>2, <1>3
<1>5. Uop' = Uop /\ \A v \in Uop : Completed(v)' <=> Completed(v)
  BY <1>1 DEF Uop, Completed
<1>6. \A v \in Uop : latency'[v] \in Nat /\ issueTick'[v] \in Never..now'
  BY <1>1, <1>2, <1>3, <1>4 DEF Ledger, Times, Never
<1>7. Finish(u)' = finish /\ \A v \in Uop : v # u => Finish(v)' = Finish(v)
  BY <1>2, <1>3, <1>4 DEF Finish
<1>8. \A v \in Uop : Completed(v)' => doneTick'[v] = Finish(v)' /\ Finish(v)' <= now'
  BY <1>1, <1>3, <1>5, <1>7 DEF Ledger, Times
<1>9. \A v \in Uop : Issued(v)' /\ ~Completed(v)' => Finish(v)' >= now'
  <2>1. \A v \in Uop : v # u => (Issued(v)' <=> Issued(v))
    BY <1>4 DEF Issued
  <2> QED
    BY <1>1, <1>2, <1>5, <1>7, <2>1 DEF Ledger, Times
<1>10. /\ pc' \in Places /\ policy' \in Policies /\ now' \in 0..Horizon
       /\ width' \in Nat /\ at' \in Uop' \cup {NoUop} /\ progressed' \in BOOLEAN
       /\ DOMAIN latency' = Uop' /\ DOMAIN placed' = Uop'
  BY <1>1, <1>2, <1>5 DEF Ledger, Times, Places
<1> QED
  BY <1>1, <1>5, <1>6, <1>8, <1>9, <1>10 DEF Times

LEMMA IssueReservations ==
    ASSUME Counters, Flow, Ledger, NEW u \in Uop, Issue(u)
    PROVE  Reservations'
<1>1. ~Issued(u) /\ UNCHANGED <<trace, now>>
  BY IssueFacts
<1>2. PICK c \in Paths(u, now) :
         /\ issueTick' = [issueTick EXCEPT ![u] = now]
         /\ placed' = [placed EXCEPT ![u] = <<c[2], c[3], c[4]>>]
         /\ Occupy(u, c)
  BY IssueFacts
<1>3. PICK r, l, x : r = c[2] /\ l = c[3] /\ x = c[4]
  OBVIOUS
<1>4. /\ r \in Resource /\ l \in 1..Lanes[r] /\ x \in Unit \cup {NoUnit}
      /\ laneFree[r][l] <= now /\ (x # NoUnit => unitFree[x] <= now)
  BY <1>3, PathsAllow DEF Ledger
<1>5. PICK end : end = now + trace[u].occupancy
  OBVIOUS
<1>6. end \in Nat /\ end >= now /\ now \in Nat
  BY <1>5, UopFields DEF Counters
<1>7. /\ laneFree' = [laneFree EXCEPT ![r][l] = end]
      /\ unitFree' = IF x = NoUnit THEN unitFree ELSE [unitFree EXCEPT ![x] = end]
  BY <1>2, <1>3, <1>5 DEF Occupy
<1>8. /\ DOMAIN laneFree = Resource /\ DOMAIN unitFree = Unit
      /\ \A s \in Resource : /\ DOMAIN laneFree[s] = 1..Lanes[s]
                             /\ \A k \in 1..Lanes[s] : laneFree[s][k] \in Nat
      /\ \A y \in Unit : unitFree[y] \in Nat
      /\ DOMAIN issueTick = Uop /\ DOMAIN placed = Uop /\ NoUnit \notin Unit
  BY TopologyAssumption DEF Ledger, Reservations, Counters, Times, NoUnit
<1>9. /\ DOMAIN laneFree' = Resource
      /\ \A s \in Resource :
            /\ DOMAIN laneFree'[s] = 1..Lanes[s]
            /\ \A k \in 1..Lanes[s] : /\ laneFree'[s][k] \in Nat
                                      /\ laneFree[s][k] <= laneFree'[s][k]
      /\ laneFree'[r][l] = end
  <2>1. /\ laneFree'[r] = [laneFree[r] EXCEPT ![l] = end]
        /\ \A s \in Resource : s # r => laneFree'[s] = laneFree[s]
        /\ DOMAIN laneFree' = Resource
    BY <1>4, <1>7, <1>8
  <2>2. /\ DOMAIN laneFree'[r] = 1..Lanes[r] /\ laneFree'[r][l] = end
        /\ \A k \in 1..Lanes[r] : k # l => laneFree'[r][k] = laneFree[r][k]
    BY <1>4, <1>8, <2>1
  <2>3. ASSUME NEW s \in Resource, NEW k \in 1..Lanes[s]
        PROVE  laneFree'[s][k] \in Nat /\ laneFree[s][k] <= laneFree'[s][k]
    <3>1. laneFree[s][k] \in Nat
      BY <1>8
    <3>2. CASE s = r /\ k = l
      BY <1>4, <1>6, <2>2, <3>1, <3>2
    <3>3. CASE s = r /\ k # l
      BY <2>2, <3>1, <3>3
    <3>4. CASE s # r
      BY <2>1, <3>1, <3>4
    <3> QED
      BY <3>2, <3>3, <3>4
  <2>4. \A s \in Resource : DOMAIN laneFree'[s] = 1..Lanes[s]
    BY <1>8, <2>1, <2>2
  <2> QED
    BY <2>1, <2>2, <2>3, <2>4
<1>10. /\ DOMAIN unitFree' = Unit
       /\ \A y \in Unit : unitFree'[y] \in Nat /\ unitFree[y] <= unitFree'[y]
       /\ x # NoUnit => unitFree'[x] = end
  <2>1. CASE x = NoUnit
    BY <1>7, <1>8, <2>1
  <2>2. CASE x # NoUnit
    BY <1>4, <1>6, <1>7, <1>8, <2>2
  <2> QED
    BY <2>1, <2>2
<1>11. /\ issueTick'[u] = now /\ placed'[u] = <<r, l, x>>
       /\ \A v \in Uop : v # u => issueTick'[v] = issueTick[v] /\ placed'[v] = placed[v]
  BY <1>2, <1>3, <1>8
<1>12. ASSUME NEW v \in Uop, Issued(v)'
       PROVE  LET s == placed'[v][1]
                  k == placed'[v][2]
                  y == placed'[v][3]
              IN  /\ s \in Resource /\ k \in 1..Lanes[s] /\ y \in Unit \cup {NoUnit}
                  /\ issueTick'[v] + trace[v].occupancy <= laneFree'[s][k]
                  /\ y # NoUnit => issueTick'[v] + trace[v].occupancy <= unitFree'[y]
  <2>1. CASE v = u
    <3>1. /\ placed'[v][1] = r /\ placed'[v][2] = l /\ placed'[v][3] = x
      BY <1>11, <2>1
    <3>2. issueTick'[v] + trace[v].occupancy = end
      BY <1>5, <1>11, <2>1
    <3> QED
      BY <1>4, <1>6, <1>9, <1>10, <3>1, <3>2
  <2>2. CASE v # u
    <3>1. Issued(v) /\ issueTick'[v] = issueTick[v] /\ placed'[v] = placed[v]
      BY <1>11, <1>12, <2>2 DEF Issued
    <3>2. PICK s, k, y : s = placed[v][1] /\ k = placed[v][2] /\ y = placed[v][3]
      OBVIOUS
    <3>3. /\ s \in Resource /\ k \in 1..Lanes[s] /\ y \in Unit \cup {NoUnit}
          /\ issueTick[v] + trace[v].occupancy <= laneFree[s][k]
          /\ y # NoUnit => issueTick[v] + trace[v].occupancy <= unitFree[y]
      BY <3>1, <3>2 DEF Ledger, Reservations
    <3>4. issueTick[v] + trace[v].occupancy \in Int
      BY UopFields DEF Ledger, Times, Never
    <3>5. /\ laneFree[s][k] <= laneFree'[s][k] /\ laneFree[s][k] \in Nat
          /\ laneFree'[s][k] \in Nat
      BY <1>8, <1>9, <3>3
    <3>6. y # NoUnit => /\ unitFree[y] <= unitFree'[y] /\ unitFree[y] \in Nat
                        /\ unitFree'[y] \in Nat
      BY <1>8, <1>10, <3>3
    <3> QED
      BY <3>1, <3>2, <3>3, <3>4, <3>5, <3>6
  <2> QED
    BY <2>1, <2>2
<1>13. Uop' = Uop /\ trace' = trace
  BY <1>1 DEF Uop
<1> QED
  BY <1>9, <1>10, <1>12, <1>13 DEF Reservations

\* A uop that comes to hold a slot is counted in it, once.
LEMMA IssuePorts ==
    ASSUME Counters, Flow, Ledger, NEW u \in Uop, Issue(u)
    PROVE  Ports'
<1>1. ~Issued(u) /\ UNCHANGED <<trace, now>>
  BY IssueFacts
<1>2. PICK c \in Paths(u, now), finish \in Nat :
         /\ finish >= now
         /\ WriteOf(u, c[4]) # NoDomain => WriteFree(WriteOf(u, c[4]), finish)
         /\ issueTick' = [issueTick EXCEPT ![u] = now]
         /\ latency' = [latency EXCEPT ![u] = finish - now]
         /\ placed' = [placed EXCEPT ![u] = <<c[2], c[3], c[4]>>]
         /\ reads' = Take(reads, ReadOf(u, c[4]), now)
         /\ writes' = Take(writes, WriteOf(u, c[4]), finish)
  BY IssueFacts
<1>3. PICK rd, wd : rd = ReadOf(u, c[4]) /\ wd = WriteOf(u, c[4])
  OBVIOUS
<1>4. /\ rd # NoDomain => ReadFree(rd, now)
      /\ wd # NoDomain => WriteFree(wd, finish)
      /\ reads' = Take(reads, rd, now) /\ writes' = Take(writes, wd, finish)
  BY <1>2, <1>3, PathsAllow DEF Ledger
<1>5. now \in Nat /\ DOMAIN issueTick = Uop /\ DOMAIN latency = Uop /\ DOMAIN placed = Uop
  BY DEF Counters, Ledger, Times
<1>6. /\ issueTick'[u] = now /\ Finish(u)' = finish /\ placed'[u][3] = c[4]
      /\ \A v \in Uop : v # u => /\ issueTick'[v] = issueTick[v] /\ Finish(v)' = Finish(v)
                                 /\ placed'[v] = placed[v]
  BY <1>2, <1>5 DEF Finish
<1>7. /\ Uop' = Uop /\ \A v, x : ReadOf(v, x)' = ReadOf(v, x) /\ WriteOf(v, x)' = WriteOf(v, x)
      /\ \A v \in Uop : Issued(v)' <=> (Issued(v) \/ v = u)
  BY <1>1, <1>5, <1>6 DEF Uop, ReadOf, WriteOf, Issued, Never
<1>8. ASSUME NEW d, NEW k
      PROVE  /\ Readers(d, k)' = Readers(d, k) \cup (IF rd = d /\ Cycle(now) = k THEN {u} ELSE {})
             /\ Writers(d, k)' = Writers(d, k) \cup (IF wd = d /\ Cycle(finish) = k THEN {u} ELSE {})
             /\ u \notin Readers(d, k) /\ u \notin Writers(d, k)
  <2>1. Readers(d, k)' = {v \in Uop : /\ Issued(v) \/ v = u
                                      /\ ReadOf(v, placed'[v][3]) = d
                                      /\ Cycle(issueTick'[v]) = k}
    BY <1>7 DEF Readers, Cycle
  <2>2. Writers(d, k)' = {v \in Uop : /\ Issued(v) \/ v = u
                                      /\ WriteOf(v, placed'[v][3]) = d
                                      /\ Cycle(Finish(v)') = k}
    BY <1>7 DEF Writers, Cycle
  <2>3. ReadOf(u, placed'[u][3]) = rd /\ WriteOf(u, placed'[u][3]) = wd
    BY <1>3, <1>6
  <2>4. Readers(d, k)' = Readers(d, k) \cup (IF rd = d /\ Cycle(now) = k THEN {u} ELSE {})
    BY <1>1, <1>6, <2>1, <2>3 DEF Readers
  <2>5. Writers(d, k)' = Writers(d, k) \cup (IF wd = d /\ Cycle(finish) = k THEN {u} ELSE {})
    BY <1>1, <1>6, <2>2, <2>3 DEF Writers
  <2> QED
    BY <1>1, <2>4, <2>5 DEF Readers, Writers
<1>9. ASSUME NEW d, NEW k
      PROVE  IsFiniteSet(Readers(d, k)) /\ IsFiniteSet(Writers(d, k))
  <2>1. Uop = 1..Len(trace) /\ Len(trace) \in Nat
    BY TraceIsValid, LengthAssumption DEF Counters
  <2>2. IsFiniteSet(Uop)
    <3>1. \A m \in Nat : IsFiniteSet(1..m)
      BY FS_Interval
    <3> QED
      BY <2>1, <3>1
  <2>3. Readers(d, k) \subseteq Uop /\ Writers(d, k) \subseteq Uop
    BY DEF Readers, Writers
  <2> QED
    BY <2>2, <2>3, FS_Subset
<1>10. /\ reads \in [DOMAIN reads -> Nat \ {0}] /\ writes \in [DOMAIN writes -> Nat \ {0}]
       /\ \A s : Reserved(reads, s) \in Nat /\ Reserved(writes, s) \in Nat
  BY DEF Ledger, Ports, Reserved
<1>11. reads' \in [DOMAIN reads' -> Nat \ {0}]
  BY <1>4, <1>10 DEF Take
<1>12. writes' \in [DOMAIN writes' -> Nat \ {0}]
  BY <1>4, <1>10 DEF Take
<1>13. ASSUME NEW d \in DOMAIN ReadCapacity \ {NoDomain}, NEW k \in Nat
       PROVE  /\ Reserved(reads', <<d, k>>) = Cardinality(Readers(d, k)')
              /\ Reserved(reads', <<d, k>>) <= ReadCapacity[d]
  <2>1. /\ Reserved(reads, <<d, k>>) = Cardinality(Readers(d, k))
        /\ Reserved(reads, <<d, k>>) <= ReadCapacity[d] /\ ReadCapacity[d] \in Nat
    BY TopologyAssumption DEF Ledger, Ports
  <2>2. CASE rd = d /\ Cycle(now) = k
    <3>1. Slot(rd, now) = <<d, k>> /\ rd # NoDomain
      BY <2>2 DEF Slot
    <3>2. Reserved(reads', <<d, k>>) = Reserved(reads, <<d, k>>) + 1
      BY <1>4, <3>1, TakeCounts
    <3>3. Reserved(reads, <<d, k>>) < ReadCapacity[d]
      BY <1>4, <2>2, <3>1 DEF ReadFree
    <3>4. Readers(d, k)' = Readers(d, k) \cup {u} /\ u \notin Readers(d, k)
      BY <1>8, <2>2
    <3>5. Cardinality(Readers(d, k)') = Cardinality(Readers(d, k)) + 1
      BY <1>9, <3>4, FS_AddElement
    <3> QED
      BY <1>10, <2>1, <3>2, <3>3, <3>5
  <2>3. CASE ~(rd = d /\ Cycle(now) = k)
    <3>1. ~(rd # NoDomain /\ <<d, k>> = Slot(rd, now))
      BY <2>3 DEF Slot
    <3>2. Reserved(reads', <<d, k>>) = Reserved(reads, <<d, k>>)
      BY <1>4, <3>1, TakeCounts
    <3>3. Readers(d, k)' = Readers(d, k)
      BY <1>8, <2>3
    <3> QED
      BY <2>1, <3>2, <3>3
  <2> QED
    BY <2>2, <2>3
<1>14. ASSUME NEW d \in DOMAIN WriteCapacity \ {NoDomain}, NEW k \in Nat
       PROVE  /\ Reserved(writes', <<d, k>>) = Cardinality(Writers(d, k)')
              /\ Reserved(writes', <<d, k>>) <= WriteCapacity[d]
  <2>1. /\ Reserved(writes, <<d, k>>) = Cardinality(Writers(d, k))
        /\ Reserved(writes, <<d, k>>) <= WriteCapacity[d] /\ WriteCapacity[d] \in Nat
    BY TopologyAssumption DEF Ledger, Ports
  <2>2. CASE wd = d /\ Cycle(finish) = k
    <3>1. Slot(wd, finish) = <<d, k>> /\ wd # NoDomain
      BY <2>2 DEF Slot
    <3>2. Reserved(writes', <<d, k>>) = Reserved(writes, <<d, k>>) + 1
      BY <1>4, <3>1, TakeCounts
    <3>3. Reserved(writes, <<d, k>>) < WriteCapacity[d]
      BY <1>4, <2>2, <3>1 DEF WriteFree
    <3>4. Writers(d, k)' = Writers(d, k) \cup {u} /\ u \notin Writers(d, k)
      BY <1>8, <2>2
    <3>5. Cardinality(Writers(d, k)') = Cardinality(Writers(d, k)) + 1
      BY <1>9, <3>4, FS_AddElement
    <3> QED
      BY <1>10, <2>1, <3>2, <3>3, <3>5
  <2>3. CASE ~(wd = d /\ Cycle(finish) = k)
    <3>1. ~(wd # NoDomain /\ <<d, k>> = Slot(wd, finish))
      BY <2>3 DEF Slot
    <3>2. Reserved(writes', <<d, k>>) = Reserved(writes, <<d, k>>)
      BY <1>4, <3>1, TakeCounts
    <3>3. Writers(d, k)' = Writers(d, k)
      BY <1>8, <2>3
    <3> QED
      BY <2>1, <3>2, <3>3
  <2> QED
    BY <2>2, <2>3
<1> QED
  BY <1>11, <1>12, <1>13, <1>14 DEF Ports, Reserved

LEMMA IssueFlows ==
    ASSUME Counters, Flow, Ledger, NEW u \in Uop, Issue(u)
    PROVE  Flows'
<1>1. ~Issued(u) /\ UNCHANGED <<trace, policy, now>>
  BY IssueFacts
<1>2. EnterVectorMemory(u)
  BY DEF Issue
<1>3. issueTick' = [issueTick EXCEPT ![u] = now]
  BY IssueFacts
<1>4. now \in Nat /\ DOMAIN issueTick = Uop /\ policy \in Policies
  BY DEF Counters, Ledger, Times
<1>5. /\ Uop' = Uop /\ IssuedUops' = IssuedUops \cup {u}
  <2>1. Uop' = Uop /\ \A v \in Uop : Issued(v)' <=> (Issued(v) \/ v = u)
    BY <1>1, <1>3, <1>4 DEF Uop, Issued, Never
  <2> QED
    BY <2>1 DEF IssuedUops
<1>6. CASE ~trace[u].vmem
  <2>1. inflight' = inflight /\ serving' = serving
    BY <1>2, <1>6 DEF EnterVectorMemory
  <2> QED
    BY <1>1, <1>5, <2>1 DEF Flows, Ledger
<1>7. CASE trace[u].vmem
  <2>1. trace[u].kind \in AccessKind
    <3>1. ValidUop(trace, u)
      BY TraceAssumption DEF Counters, Uop
    <3> QED
      BY <1>7, <3>1 DEF ValidUop
  <2>2. PICK service \in Nat \cup {Never} : service = policy.service[trace[u].kind]
    BY <1>4, <2>1, PolicyAssumption
  <2>3. /\ inflight' = inflight \cup (IF service = 0 THEN {} ELSE {u})
        /\ serving' = serving \cup (IF service > 0 THEN {u} ELSE {})
    BY <1>2, <1>7, <2>2 DEF EnterVectorMemory
  <2>4. service > 0 => service # 0 /\ service # Never
    BY <2>2 DEF Never
  <2>5. serving' \subseteq inflight' /\ inflight' \subseteq IssuedUops'
    BY <1>5, <2>3, <2>4 DEF Flows, Ledger
  <2>6. \A v \in serving' : policy.service[trace[v].kind] # Never
    BY <2>2, <2>3, <2>4 DEF Flows, Ledger
  <2> QED
    BY <1>1, <2>5, <2>6 DEF Flows
<1> QED
  BY <1>6, <1>7

\* Time stops at the end of the next uop under way at the latest.
LEMMA AdvanceTimes ==
    ASSUME Counters, Flow, Ledger, Advance
    PROVE  Times'
<1>1. PICK tick \in EventTicks :
         /\ \A event \in EventTicks : tick <= event
         /\ IF tick \in (now + 1)..Horizon THEN now' = tick /\ pc' = "begin"
            ELSE now' = now /\ pc' = "diverged"
  BY DEF Advance
<1>2. /\ pc = "advance" /\ Due = {}
      /\ UNCHANGED <<trace, policy, width, at, progressed, doneTick, issueTick, latency, placed>>
  BY DEF Advance, Ledger, Times, setup, place
<1>3. now \in Nat /\ now' \in Nat /\ now <= now' /\ now' \in 0..Horizon
  BY <1>1, WidthAssumption DEF Counters, Ledger, Times
<1>4. /\ Uop' = Uop /\ \A v \in Uop : /\ Issued(v)' <=> Issued(v)
                                      /\ Completed(v)' <=> Completed(v)
                                      /\ Finish(v)' = Finish(v)
  BY <1>2 DEF Uop, Issued, Completed, Finish
<1>5. \A v \in Uop : latency[v] \in Nat /\ issueTick[v] \in Never..now /\ Finish(v) \in Int
  BY DEF Ledger, Times, Finish, Never
<1>6. \A v \in Uop : Issued(v) /\ ~Completed(v) => Finish(v) >= now'
  <2> SUFFICES ASSUME NEW v \in Uop, Issued(v), ~Completed(v) PROVE Finish(v) >= now'
    OBVIOUS
  <2>1. Finish(v) > now
    BY <1>2, <1>3, <1>5 DEF Due
  <2>2. CASE now' = now
    BY <1>3, <1>5, <2>1, <2>2
  <2>3. CASE now' = tick
    <3>1. Finish(v) \in EventTicks
      BY <2>1 DEF EventTicks
    <3> QED
      BY <1>1, <1>3, <1>5, <2>3, <3>1
  <2> QED
    BY <1>1, <2>2, <2>3
<1>7. \A v \in Uop : /\ latency'[v] \in Nat /\ issueTick'[v] \in Never..now'
                     /\ Completed(v) => doneTick'[v] = Finish(v) /\ Finish(v) <= now'
  BY <1>2, <1>3, <1>5 DEF Ledger, Times, Never
<1>8. /\ pc' \in {"begin", "diverged"} /\ policy' \in Policies /\ width' \in Nat
      /\ at' \in Uop \cup {NoUop} /\ progressed' \in BOOLEAN
      /\ DOMAIN latency' = Uop /\ DOMAIN placed' = Uop
  BY <1>1, <1>2 DEF Ledger, Times
<1> QED
  BY <1>3, <1>4, <1>6, <1>7, <1>8 DEF Times, Places

LEMMA CompleteTimes ==
    ASSUME Counters, Flow, Ledger, NEW u \in Uop, Complete(u)
    PROVE  Times' /\ Flows'
<1>1. /\ pc \in {"begin", "settle"} /\ u \in Due
      /\ doneTick' = [doneTick EXCEPT ![u] = Finish(u)]
      /\ inflight' = IF trace[u].vmem /\ policy.service[trace[u].kind] = Never
                     THEN inflight \ {u} ELSE inflight
      /\ progressed' = (pc = "settle" \/ progressed)
      /\ UNCHANGED <<pc, trace, policy, now, width, at, issueTick, latency, placed, serving>>
  BY DEF Complete, setup, place, memory
<1>2. /\ Uop' = Uop /\ IssuedUops' = IssuedUops
      /\ \A v \in Uop : (Issued(v)' <=> Issued(v)) /\ Finish(v)' = Finish(v)
  BY <1>1 DEF Uop, Issued, Finish, IssuedUops
<1>3. /\ Issued(u) /\ Finish(u) <= now /\ DOMAIN doneTick = Uop
      /\ doneTick'[u] = Finish(u) /\ \A v \in Uop : v # u => doneTick'[v] = doneTick[v]
  BY <1>1 DEF Due, Counters
<1>4. Times'
  <2>1. \A v \in Uop : Completed(v)' => doneTick'[v] = Finish(v) /\ Finish(v) <= now
    BY <1>3 DEF Ledger, Times, Completed
  <2>2. \A v \in Uop : v # u => (Completed(v)' <=> Completed(v))
    BY <1>3 DEF Completed
  <2>3. Finish(u) >= now /\ now \in Nat /\ Finish(u) \in Int
    <3>1. latency[u] \in Nat /\ issueTick[u] \in Int /\ now \in Nat
      BY DEF Ledger, Times, Never, Counters
    <3>2. ~Completed(u)
      BY <1>1 DEF Due
    <3> QED
      BY <1>3, <3>1, <3>2 DEF Ledger, Times, Finish
  <2>4. \A v \in Uop : Issued(v) /\ ~Completed(v)' => Finish(v) >= now
    BY <2>2, <2>3 DEF Ledger, Times
  <2>5. progressed' \in BOOLEAN
    BY <1>1
  <2>6. \A v \in Uop : latency'[v] \in Nat /\ issueTick'[v] \in Never..now'
    BY <1>1 DEF Ledger, Times
  <2>7. /\ pc' \in {"begin", "settle"} /\ policy' \in Policies /\ width' \in Nat
        /\ at' \in Uop \cup {NoUop} /\ DOMAIN latency' = Uop /\ DOMAIN placed' = Uop
        /\ now' = now /\ now' \in 0..Horizon
    BY <1>1 DEF Ledger, Times
  <2> QED
    BY <1>2, <2>1, <2>4, <2>5, <2>6, <2>7 DEF Times, Places
<1>5. Flows'
  <2>1. serving \subseteq inflight'
    BY <1>1 DEF Ledger, Flows
  <2> QED
    BY <1>1, <1>2, <2>1 DEF Ledger, Flows
<1> QED
  BY <1>4, <1>5

\* The steps of the loop that move neither uops nor time.
LEMMA FrameTimes ==
    ASSUME Counters, Ledger,
           UNCHANGED <<trace, policy, now, issueTick, latency, placed, doneTick>>,
           pc' \in Places, width' \in Nat, at' \in Uop \cup {NoUop}, progressed' \in BOOLEAN,
           pc' = "scan" /\ ~progressed' => Due = {},
           pc' \in {"retire", "advance"} => Due = {}
    PROVE  Times'
<1>1. Uop' = Uop /\ Due' = Due
  BY DEF Uop, Due, Issued, Completed, Finish
<1>2. \A v \in Uop : /\ Issued(v)' <=> Issued(v)
                     /\ Completed(v)' <=> Completed(v)
                     /\ Finish(v)' = Finish(v)
  BY DEF Issued, Completed, Finish
<1> QED
  BY <1>1, <1>2 DEF Ledger, Times

LEMMA FrameFlows ==
    ASSUME Ledger, UNCHANGED <<trace, policy, issueTick, inflight, serving>>
    PROVE  Flows'
BY DEF Ledger, Flows, IssuedUops, Issued, Uop

LEMMA StepLedger == Counters /\ Flow /\ Ledger /\ [Next]_vars => Ledger'
<1> SUFFICES ASSUME Counters, Flow, Ledger, [Next]_vars PROVE Ledger'
  OBVIOUS
<1>0. /\ pc \in Places /\ width \in Nat /\ at \in Uop \cup {NoUop} /\ progressed \in BOOLEAN
      /\ pc = "scan" /\ ~progressed => Due = {}
      /\ pc \in {"retire", "advance"} => Due = {}
      /\ Reservations /\ Ports
  BY DEF Ledger, Times
<1>1. ASSUME NEW u \in Uop, Complete(u) PROVE Ledger'
  <2>1. UNCHANGED <<trace, issueTick, latency, placed, laneFree, unitFree, ports>>
    BY <1>1 DEF Complete, setup, place
  <2> QED
    BY <1>0, <1>1, <2>1, CompleteTimes, FramePlaces DEF Ledger
<1>2. ASSUME NEW u \in Uop, Issue(u) PROVE Ledger'
  BY <1>2, IssueTimes, IssueFlows, IssueReservations, IssuePorts DEF Ledger
<1>3. CASE Dispatch
  <2>1. /\ UNCHANGED <<pc, trace, policy, now, at, progressed, doneTick, issueTick, latency,
                       placed, laneFree, unitFree, ports, inflight, serving>>
        /\ width' = width + 1
    BY <1>3 DEF Dispatch, setup, place, memory
  <2>2. Times' /\ Flows'
    BY <1>0, <2>1, FrameTimes, FrameFlows
  <2> QED
    BY <1>0, <2>1, <2>2, FramePlaces DEF Ledger
<1>4. CASE DispatchEnds
  <2>1. /\ UNCHANGED <<trace, policy, now, at, progressed, doneTick, issueTick, latency,
                       placed, laneFree, unitFree, ports, inflight, serving>>
        /\ width' = 0 /\ pc' = "settle"
    BY <1>4 DEF DispatchEnds, setup, place, memory
  <2>2. Times' /\ Flows'
    BY <1>0, <2>1, FrameTimes, FrameFlows DEF Places
  <2> QED
    BY <1>0, <2>1, <2>2, FramePlaces DEF Ledger
<1>5. CASE ReleaseFlows
  <2>1. /\ UNCHANGED <<trace, policy, now, width, at, progressed, doneTick, issueTick, latency,
                       placed, laneFree, unitFree, ports>>
        /\ pc' \in {"dispatch", "settle"}
        /\ serving' \subseteq inflight' /\ inflight' \subseteq inflight /\ serving' \subseteq serving
    BY <1>5 DEF ReleaseFlows, setup, place, Ledger, Flows
  <2>2. Times'
    BY <1>0, <2>1, FrameTimes DEF Places
  <2>3. Flows'
    BY <2>1 DEF Ledger, Flows, IssuedUops, Issued, Uop
  <2> QED
    BY <1>0, <2>1, <2>2, <2>3, FramePlaces DEF Ledger
<1>6. CASE List
  <2>1. /\ UNCHANGED <<trace, policy, now, width, progressed, doneTick, issueTick, latency,
                       placed, laneFree, unitFree, ports, inflight, serving>>
        /\ at' = NoUop /\ pc' = "scan" /\ Due = {}
    BY <1>6 DEF List, setup, place, memory
  <2>2. Times' /\ Flows'
    BY <1>0, <2>1, FrameTimes, FrameFlows DEF Places
  <2> QED
    BY <1>0, <2>1, <2>2, FramePlaces DEF Ledger
<1>7. CASE Round
  <2>1. /\ UNCHANGED <<trace, policy, now, width, doneTick, issueTick, latency,
                       placed, laneFree, unitFree, ports, inflight, serving>>
        /\ at' = NoUop /\ progressed' = FALSE /\ pc = "scan"
        /\ pc' = IF progressed THEN "settle" ELSE IF OnBoundary THEN "retire" ELSE "advance"
    BY <1>7 DEF Round, setup, place, memory
  <2>2. /\ pc' \in Places /\ pc' # "scan"
        /\ pc' \in {"retire", "advance"} => Due = {}
    BY <1>0, <2>1 DEF Places
  <2>3. Times' /\ Flows'
    BY <1>0, <2>1, <2>2, FrameTimes, FrameFlows
  <2> QED
    BY <1>0, <2>1, <2>3, FramePlaces DEF Ledger
<1>8. CASE Retire
  <2>1. /\ UNCHANGED <<pc, trace, policy, now, at, progressed, doneTick, issueTick, latency,
                       placed, laneFree, unitFree, ports, inflight, serving>>
        /\ width' = width + 1
    BY <1>8 DEF Retire, setup, place, memory
  <2>2. Times' /\ Flows'
    BY <1>0, <2>1, FrameTimes, FrameFlows
  <2> QED
    BY <1>0, <2>1, <2>2, FramePlaces DEF Ledger
<1>9. CASE RetireEnds
  <2>1. /\ UNCHANGED <<trace, policy, now, at, progressed, doneTick, issueTick, latency,
                       placed, laneFree, unitFree, ports, inflight, serving>>
        /\ width' = 0 /\ pc = "retire" /\ pc' \in {"done", "advance"}
    BY <1>9 DEF RetireEnds, setup, place, memory
  <2>2. Times' /\ Flows'
    BY <1>0, <2>1, FrameTimes, FrameFlows DEF Places
  <2> QED
    BY <1>0, <2>1, <2>2, FramePlaces DEF Ledger
<1>10. CASE Advance
  <2>1. UNCHANGED <<trace, policy, issueTick, latency, placed, laneFree, unitFree, ports,
                    inflight, serving>>
    BY <1>10 DEF Advance, setup, place, memory
  <2> QED
    BY <1>0, <1>10, <2>1, AdvanceTimes, FrameFlows, FramePlaces DEF Ledger
<1>11. CASE UNCHANGED vars
  <2>1. UNCHANGED <<pc, trace, policy, now, width, at, progressed, doneTick, issueTick, latency,
                    placed, laneFree, unitFree, ports, inflight, serving>>
    BY <1>11 DEF vars, setup, place, memory
  <2>2. Times' /\ Flows'
    BY <1>0, <2>1, FrameTimes, FrameFlows
  <2> QED
    BY <1>0, <2>1, <2>2, FramePlaces DEF Ledger
<1>12. CASE Stopped
  BY <1>11, <1>12 DEF Stopped
<1> QED
  BY <1>1, <1>2, <1>3, <1>4, <1>5, <1>6, <1>7, <1>8, <1>9, <1>10, <1>11, <1>12 DEF Next

\* What the ledgers say is true throughout a run.
THEOREM LedgerHolds == Spec => [](Counters /\ Flow /\ Ledger)
<1>1. Init => Counters /\ Flow /\ Ledger
  BY InitFlow, InitLedger
<1>2. Counters /\ Flow /\ Ledger /\ [Next]_vars => (Counters /\ Flow /\ Ledger)'
  BY StepFlow, StepLedger
<1> QED
  BY <1>1, <1>2, PTL DEF Spec

\* Only an issue places uops and starts their time.
LEMMA QuietSteps ==
    ASSUME [Next]_vars, \A u \in Uop : ~Issue(u)
    PROVE  UNCHANGED <<trace, policy, epochs, issueTick, latency, placed>>
<1>1. CASE \E u \in Uop : Complete(u)
  BY <1>1 DEF Complete, setup, place
<1>2. CASE Dispatch \/ DispatchEnds \/ ReleaseFlows \/ List
  BY <1>2 DEF Dispatch, DispatchEnds, ReleaseFlows, List, setup, place
<1>3. CASE Round \/ Retire \/ RetireEnds \/ Advance
  BY <1>3 DEF Round, Retire, RetireEnds, Advance, setup, place
<1>4. CASE Stopped \/ UNCHANGED vars
  BY <1>4 DEF Stopped, vars, setup, place
<1> QED
  BY <1>1, <1>2, <1>3, <1>4 DEF Next

\* A lane or a unit that a uop still holds is not free for the next one.
LEMMA IssueExclusive ==
    ASSUME Counters, Flow, Ledger, Exclusive, NEW u \in Uop, Issue(u)
    PROVE  Exclusive'
<1>1. ~Issued(u) /\ UNCHANGED <<trace, now>>
  BY IssueFacts
<1>2. PICK c \in Paths(u, now) :
         /\ issueTick' = [issueTick EXCEPT ![u] = now]
         /\ placed' = [placed EXCEPT ![u] = <<c[2], c[3], c[4]>>]
  BY IssueFacts
<1>3. PICK r, l, x : r = c[2] /\ l = c[3] /\ x = c[4]
  OBVIOUS
<1>4. /\ r \in Resource /\ l \in 1..Lanes[r] /\ x \in Unit \cup {NoUnit}
      /\ laneFree[r][l] <= now /\ (x # NoUnit => unitFree[x] <= now)
  BY <1>3, PathsAllow DEF Ledger
<1>5. /\ now \in Nat /\ DOMAIN issueTick = Uop /\ DOMAIN placed = Uop /\ Uop' = Uop
      /\ \A v \in Uop : issueTick[v] \in Int /\ issueTick[v] <= now /\ trace[v].occupancy \in Nat
  BY <1>1, UopFields DEF Counters, Ledger, Times, Never, Uop
<1>6. /\ issueTick'[u] = now /\ placed'[u] = <<r, l, x>>
      /\ \A v \in Uop : v # u => issueTick'[v] = issueTick[v] /\ placed'[v] = placed[v]
  BY <1>2, <1>3, <1>5
<1>7. IssuedUops' = IssuedUops \cup {u} /\ u \notin IssuedUops /\ IssuedUops \subseteq Uop
  <2>1. \A v \in Uop : Issued(v)' <=> (Issued(v) \/ v = u)
    BY <1>1, <1>5, <1>6 DEF Issued, Never
  <2> QED
    BY <1>1, <1>5, <2>1 DEF IssuedUops
<1>8. ASSUME NEW v \in IssuedUops, issueTick[v] + trace[v].occupancy > now
      PROVE  /\ placed[v][1] # r \/ placed[v][2] # l
             /\ placed[v][3] = NoUnit \/ placed[v][3] # x
  <2>1. PICK s, k, y : s = placed[v][1] /\ k = placed[v][2] /\ y = placed[v][3]
    OBVIOUS
  <2>2. /\ s \in Resource /\ k \in 1..Lanes[s] /\ y \in Unit \cup {NoUnit}
        /\ issueTick[v] + trace[v].occupancy <= laneFree[s][k]
        /\ y # NoUnit => issueTick[v] + trace[v].occupancy <= unitFree[y]
    BY <2>1 DEF Ledger, Reservations, IssuedUops
  <2>3. issueTick[v] + trace[v].occupancy \in Int
    BY <1>5, <1>7
  <2>4. laneFree[s][k] \in Nat /\ (y # NoUnit => unitFree[y] \in Nat)
    BY <2>2 DEF Ledger, Reservations
  <2>5. s # r \/ k # l
    BY <1>4, <1>5, <1>8, <2>2, <2>3, <2>4
  <2>6. y = NoUnit \/ y # x
    BY <1>4, <1>5, <1>8, <2>2, <2>3, <2>4
  <2> QED
    BY <2>1, <2>5, <2>6
<1>9. ASSUME NEW a \in IssuedUops \cup {u}, NEW b \in IssuedUops \cup {u}, a # b,
             trace[a].occupancy > 0, trace[b].occupancy > 0,
             issueTick'[b] \in issueTick'[a]..(issueTick'[a] + trace[a].occupancy - 1)
      PROVE  /\ placed'[a][1] # placed'[b][1] \/ placed'[a][2] # placed'[b][2]
             /\ placed'[a][3] = NoUnit \/ placed'[a][3] # placed'[b][3]
  <2>1. /\ placed'[u][1] = r /\ placed'[u][2] = l /\ placed'[u][3] = x
    BY <1>6
  <2>2. CASE a # u /\ b # u
    <3>1. /\ a \in IssuedUops /\ b \in IssuedUops
          /\ issueTick'[a] = issueTick[a] /\ issueTick'[b] = issueTick[b]
          /\ placed'[a] = placed[a] /\ placed'[b] = placed[b]
      BY <1>6, <1>7, <2>2
    <3> QED
      BY <1>9, <3>1 DEF Exclusive
  <2>3. CASE b = u
    <3>1. a \in IssuedUops /\ issueTick'[a] = issueTick[a] /\ placed'[a] = placed[a]
      BY <1>6, <1>7, <1>9, <2>3
    <3>2. issueTick[a] + trace[a].occupancy > now
      BY <1>5, <1>6, <1>7, <1>9, <2>3, <3>1
    <3> QED
      BY <1>8, <2>1, <2>3, <3>1, <3>2
  <2>4. CASE a = u
    <3>1. b \in IssuedUops /\ issueTick'[b] = issueTick[b] /\ placed'[b] = placed[b]
      BY <1>6, <1>7, <1>9, <2>4
    <3>2. issueTick[b] + trace[b].occupancy > now
      BY <1>5, <1>6, <1>7, <1>9, <2>4, <3>1
    <3> QED
      BY <1>8, <2>1, <2>4, <3>1, <3>2
  <2> QED
    BY <2>2, <2>3, <2>4
<1> QED
  BY <1>1, <1>7, <1>9 DEF Exclusive

LEMMA StepExclusive ==
    Counters /\ Flow /\ Ledger /\ Exclusive /\ [Next]_vars => Exclusive'
<1> SUFFICES ASSUME Counters, Flow, Ledger, Exclusive, [Next]_vars PROVE Exclusive'
  OBVIOUS
<1>1. CASE \E u \in Uop : Issue(u)
  BY <1>1, IssueExclusive
<1>2. CASE \A u \in Uop : ~Issue(u)
  BY <1>2, QuietSteps DEF Exclusive, IssuedUops, Issued, Uop
<1> QED
  BY <1>1, <1>2

LEMMA InitExclusive == Init => Exclusive
BY DEF Init, Exclusive, IssuedUops, Issued

\* Ports are bounded because their Counters are, and count the right uops.
LEMMA PortsRespected ==
    ASSUME Counters, Ledger
    PROVE  ReadPortsBounded /\ WritebackBounded
<1>1. \A v \in Uop : issueTick[v] \in Never..now /\ latency[v] \in Nat /\ now \in Nat
  BY DEF Counters, Ledger, Times
<1>2. ASSUME NEW v \in IssuedUops PROVE issueTick[v] \in Nat /\ Finish(v) \in Nat
  BY <1>1, <1>2 DEF IssuedUops, Issued, Finish, Never
<1>3. ASSUME NEW v \in IssuedUops
      PROVE  /\ ReadOf(v, placed[v][3]) \in DOMAIN ReadCapacity \cup {NoDomain}
             /\ WriteOf(v, placed[v][3]) \in DOMAIN WriteCapacity \cup {NoDomain}
  <2>1. placed[v][3] \in Unit \cup {NoUnit}
    BY DEF IssuedUops, Ledger, Reservations
  <2> QED
    BY <2>1, TopologyAssumption DEF ReadOf, WriteOf
<1>4. ReadPortsBounded
  <2> SUFFICES ASSUME NEW v \in IssuedUops, NEW d, d = ReadOf(v, placed[v][3]), d # NoDomain
               PROVE  Cardinality({u \in IssuedUops :
                                      /\ ReadOf(u, placed[u][3]) = d
                                      /\ Cycle(issueTick[u]) = Cycle(issueTick[v])})
                          <= ReadCapacity[d]
    BY DEF ReadPortsBounded
  <2>1. PICK c : c = Cycle(issueTick[v])
    OBVIOUS
  <2>2. c \in Nat /\ d \in DOMAIN ReadCapacity \ {NoDomain}
    BY <1>2, <1>3, <2>1, CycleIsNat
  <2>3. Cardinality(Readers(d, c)) <= ReadCapacity[d]
    BY <2>2 DEF Ledger, Ports
  <2>4. {u \in IssuedUops : ReadOf(u, placed[u][3]) = d /\ Cycle(issueTick[u]) = c} = Readers(d, c)
    BY DEF IssuedUops, Readers
  <2> QED
    BY <2>1, <2>3, <2>4
<1>5. WritebackBounded
  <2> SUFFICES ASSUME NEW v \in IssuedUops, NEW d, d = WriteOf(v, placed[v][3]), d # NoDomain
               PROVE  Cardinality({u \in IssuedUops :
                                      /\ WriteOf(u, placed[u][3]) = d
                                      /\ Cycle(Finish(u)) = Cycle(Finish(v))})
                          <= WriteCapacity[d]
    BY DEF WritebackBounded
  <2>1. PICK c : c = Cycle(Finish(v))
    OBVIOUS
  <2>2. c \in Nat /\ d \in DOMAIN WriteCapacity \ {NoDomain}
    BY <1>2, <1>3, <2>1, CycleIsNat
  <2>3. Cardinality(Writers(d, c)) <= WriteCapacity[d]
    BY <2>2 DEF Ledger, Ports
  <2>4. {u \in IssuedUops : WriteOf(u, placed[u][3]) = d /\ Cycle(Finish(u)) = c} = Writers(d, c)
    BY DEF IssuedUops, Writers
  <2> QED
    BY <2>1, <2>3, <2>4
<1> QED
  BY <1>4, <1>5

LEMMA TypesHold ==
    ASSUME Counters, Flow, Ledger
    PROVE  TypeOK
<1>1. \A u \in Uop : /\ issueTick[u] \in Never..now
                     /\ Completed(u) => Issued(u) /\ doneTick[u] = Finish(u)
                     /\ Issued(u) => trace[u].macro <= sent
  BY DEF Flow, Ledger, Times
<1>2. \A u \in Uop : doneTick[u] \in Never..now
  <2> SUFFICES ASSUME NEW u \in Uop PROVE doneTick[u] \in Never..now
    OBVIOUS
  <2>1. CASE ~Completed(u)
    BY <2>1 DEF Completed, Never, Counters
  <2>2. CASE Completed(u)
    <3>1. /\ Issued(u) /\ doneTick[u] = Finish(u) /\ Finish(u) <= now
          /\ issueTick[u] \in Never..now /\ latency[u] \in Nat /\ now \in Nat
      BY <2>2 DEF Flow, Ledger, Times, Counters
    <3>2. Finish(u) \in Nat
      BY <3>1 DEF Finish, Issued, Never
    <3> QED
      BY <3>1, <3>2 DEF Never
  <2> QED
    BY <2>1, <2>2
<1>3. /\ pc \in {"begin", "dispatch", "settle", "scan", "retire", "advance", "done", "diverged"}
      /\ trace \in Traces /\ now \in 0..Horizon
      /\ sent \in 0..NumMacros /\ left \in 0..sent /\ width \in Nat
      /\ at \in Uop \cup {NoUop} /\ progressed \in BOOLEAN
      /\ serving \subseteq inflight /\ inflight \subseteq IssuedUops
      /\ reads \in [DOMAIN reads -> Nat \ {0}] /\ writes \in [DOMAIN writes -> Nat \ {0}]
  BY DEF Counters, Ledger, Times, Flows, Ports, Places
<1> QED
  BY <1>1, <1>2, <1>3 DEF TypeOK

LEMMA MaxIsGreatest ==
    ASSUME NEW n \in Nat, NEW S, S \subseteq 0..n, S # {}
    PROVE  Max(S) \in S /\ \A y \in S : Max(S) >= y
<1> DEFINE T == {n - x : x \in S}
<1>1. T \subseteq Nat /\ T # {}
  <2>1. \A x \in S : n - x \in Nat
    OBVIOUS
  <2>2. PICK x \in S : TRUE
    OBVIOUS
  <2>3. n - x \in T
    OBVIOUS
  <2>4. T \subseteq Nat
    BY <2>1
  <2> QED
    BY <2>3, <2>4
<1>2. PICK m \in T : \A y \in T : m <= y
  <2> HIDE DEF T
  <2> QED
    BY <1>1, LeastNumber
<1>3. PICK x \in S : m = n - x
  OBVIOUS
<1>4. ASSUME NEW y \in S PROVE x >= y
  <2>1. n - y \in T
    OBVIOUS
  <2>2. n - x <= n - y
    BY <1>2, <1>3, <2>1
  <2> QED
    BY <2>2
<1> QED
  BY <1>4 DEF Max

\* The uop that ends an epoch is one of the trace.
Closings ==
    /\ \A c \in DOMAIN epochs.close : epochs.close[c].uop \in Uop /\ epochs.close[c].offset \in Int
    /\ \A c \in DOMAIN epochs.mixed : epochs.mixed[c] \in Uop

LEMMA EndingInTrace ==
    ASSUME trace \in Traces, policy \in Policies, NEW c
    PROVE  Ending(trace, c).kind # "none" =>
               Ending(trace, c).uop \in Uop /\ Ending(trace, c).offset \in Int
<1>1. PICK body : body = Body(trace, c)
  OBVIOUS
<1>2. PICK loads, stores, reductions :
         /\ loads = {u \in body : IsVectorLoad(trace, u)}
         /\ stores = {u \in body : IsComputedStore(trace, u)}
         /\ reductions = {u \in body : trace[u].reduce}
  OBVIOUS
<1>3. body \subseteq Uop /\ loads \subseteq Uop /\ stores \subseteq Uop /\ reductions \subseteq Uop
  BY <1>1, <1>2 DEF Body, Uop
<1>4. ASSUME NEW S, S \subseteq Uop, S # {} PROVE Max(S) \in Uop
  BY <1>4, MaxIsGreatest, TraceIsValid, LengthAssumption
<1>5. ASSUME reductions # {} PROVE ReductionTerminal(trace, body, reductions) \in Uop
  <2>1. PICK trailing : trailing = {u \in body : u >= Max(reductions) /\ IsCompute(trace, u)}
    OBVIOUS
  <2>2. ReductionTerminal(trace, body, reductions) =
           IF trailing = {} THEN Max(reductions) ELSE Max(trailing)
    BY <2>1 DEF ReductionTerminal
  <2>3. trailing \subseteq Uop
    BY <1>3, <2>1
  <2> QED
    BY <1>3, <1>4, <1>5, <2>2, <2>3
<1>6. /\ policy.multiLoadDrain \in Int /\ policy.chainedDrain \in Int
      /\ -policy.reductionOverlap \in Int
  <2>1. policy.multiLoadDrain \in Nat /\ policy.chainedDrain \in Nat /\ policy.reductionOverlap \in Nat
    BY PolicyAssumption
  <2> QED
    BY <2>1
<1>7. CASE stores # {} /\ reductions # {}
  <2>1. Ending(trace, c) = [kind |-> "mixed", uop |-> ReductionTerminal(trace, body, reductions),
                            offset |-> 0]
    BY <1>1, <1>2, <1>7 DEF Ending
  <2> QED
    BY <1>5, <1>7, <2>1
<1>8. CASE stores # {} /\ reductions = {}
  <2>1. PICK o \in Int : Ending(trace, c) = [kind |-> "close", uop |-> Max(stores), offset |-> o]
    <3>1. PICK o : o = IF Cardinality(LoadAncestors(trace, body, Max(stores))) >= 2
                       THEN policy.multiLoadDrain
                       ELSE IF Cardinality(ComputeAncestors(trace, body, Max(stores))) >= 2
                       THEN policy.chainedDrain ELSE 0
      OBVIOUS
    <3>2. Ending(trace, c) = [kind |-> "close", uop |-> Max(stores), offset |-> o]
      BY <1>1, <1>2, <1>8, <3>1 DEF Ending
    <3>3. o \in Int
      BY <1>6, <3>1
    <3> QED
      BY <3>2, <3>3
  <2> QED
    BY <1>3, <1>4, <1>8, <2>1
<1>9. CASE stores = {} /\ reductions # {}
  <2>1. PICK o \in Int : Ending(trace, c) =
           [kind |-> "close", uop |-> ReductionTerminal(trace, body, reductions), offset |-> o]
    <3>1. PICK o : o = IF Cardinality({trace[u].macro : u \in reductions}) >= 2
                       THEN -policy.reductionOverlap ELSE 0
      OBVIOUS
    <3>2. Ending(trace, c) =
             [kind |-> "close", uop |-> ReductionTerminal(trace, body, reductions), offset |-> o]
      BY <1>1, <1>2, <1>9, <3>1 DEF Ending
    <3>3. o \in Int
      BY <1>6, <3>1
    <3> QED
      BY <3>2, <3>3
  <2> QED
    BY <1>5, <1>9, <2>1
<1>10. CASE stores = {} /\ reductions = {} /\ loads # {}
  <2>1. Ending(trace, c) =
           [[kind |-> "close", uop |-> Max(loads), offset |-> 0] EXCEPT !.kind = "loads"]
    BY <1>1, <1>2, <1>10 DEF Ending
  <2>2. Ending(trace, c) = [kind |-> "loads", uop |-> Max(loads), offset |-> 0]
    BY <2>1
  <2> QED
    BY <1>3, <1>4, <1>10, <2>2
<1>11. CASE stores = {} /\ reductions = {} /\ loads = {}
  <2>1. Ending(trace, c) = [kind |-> "none", uop |-> NoUop, offset |-> 0]
    BY <1>1, <1>2, <1>11 DEF Ending
  <2> QED
    BY <2>1
<1> QED
  BY <1>7, <1>8, <1>9, <1>10, <1>11

LEMMA InitClosings == Init => Closings
<1> SUFFICES ASSUME Init PROVE Closings
  OBVIOUS
<1>1. trace \in Traces /\ policy \in Policies /\ epochs = Epochs(trace)
  BY DEF Init
<1>2. ASSUME NEW c \in DOMAIN epochs.close
      PROVE  epochs.close[c].uop \in Uop /\ epochs.close[c].offset \in Int
  <2>1. /\ epochs.close[c] = Ending(trace, Previous(trace, c))
        /\ Ending(trace, Previous(trace, c)).kind \in {"close", "loads"}
    BY <1>1 DEF Epochs
  <2> QED
    BY <1>1, <2>1, EndingInTrace
<1>3. ASSUME NEW c \in DOMAIN epochs.mixed PROVE epochs.mixed[c] \in Uop
  <2>1. epochs.mixed[c] = Ending(trace, c).uop /\ Ending(trace, c).kind = "mixed"
    BY <1>1 DEF Epochs
  <2> QED
    BY <1>1, <2>1, EndingInTrace
<1> QED
  BY <1>2, <1>3 DEF Closings

LEMMA StepClosings ==
    Counters /\ Flow /\ Ledger /\ Closings /\ [Next]_vars => Closings'
<1> SUFFICES ASSUME Counters, Flow, Ledger, Closings, [Next]_vars PROVE Closings'
  OBVIOUS
<1>1. UNCHANGED <<trace, epochs>>
  BY IssueFacts, QuietSteps
<1> QED
  BY <1>1 DEF Closings, Uop

\* The blocker of an epoch lets its configuration pass when the epoch before is
\* closed; what reads the state waits for the configuration.
LEMMA IssueEpochOrder ==
    ASSUME Counters, Flow, Ledger, Closings, EpochOrder, NEW u \in Uop, Issue(u)
    PROVE  EpochOrder'
<1>1. /\ ~Issued(u) /\ UNCHANGED <<trace, epochs, now>>
      /\ \A v \in trace[u].deps : Completed(v)
      /\ EpochBlocker(u, now) = Clear
  BY IssueFacts
<1>2. PICK finish \in Nat : /\ issueTick' = [issueTick EXCEPT ![u] = now]
                            /\ latency' = [latency EXCEPT ![u] = finish - now]
  BY IssueFacts
<1>3. /\ now \in Nat /\ DOMAIN issueTick = Uop /\ DOMAIN latency = Uop /\ Uop' = Uop
      /\ \A v \in Uop : issueTick[v] \in Int /\ issueTick[v] <= now /\ latency[v] \in Nat
  BY <1>1 DEF Counters, Ledger, Times, Never, Uop
<1>4. /\ issueTick'[u] = now
      /\ \A v \in Uop : v # u => issueTick'[v] = issueTick[v] /\ Finish(v)' = Finish(v)
  BY <1>2, <1>3 DEF Finish
<1>5. IssuedUops' = IssuedUops \cup {u} /\ IssuedUops \subseteq Uop
      /\ \A v \in Uop : Issued(v) => Issued(v)' /\ v # u
  <2>1. \A v \in Uop : Issued(v)' <=> (Issued(v) \/ v = u)
    BY <1>1, <1>3, <1>4 DEF Issued, Never
  <2> QED
    BY <1>1, <1>3, <2>1 DEF IssuedUops
<1>6. ASSUME NEW c \in DOMAIN epochs.close
      PROVE  /\ epochs.close[c].uop \in Uop /\ epochs.close[c].offset \in Int
             /\ Finish(epochs.close[c].uop) \in Int
  BY <1>3 DEF Closings, Finish
<1>7. ASSUME NEW c \in DOMAIN epochs.close, NEW v \in IssuedUops \cup {u},
             c \in trace[v].state \cup {v}
      PROVE  LET end == epochs.close[c]
             IN  Issued(end.uop)' /\ issueTick'[v] >= Finish(end.uop)' + end.offset
  <2>1. PICK e, o : e = epochs.close[c].uop /\ o = epochs.close[c].offset
    OBVIOUS
  <2>2. e \in Uop /\ o \in Int /\ Finish(e) \in Int
    BY <1>6, <2>1
  <2>3. Issued(e) /\ (v = u => now >= Finish(e) + o) /\ (v # u => issueTick[v] >= Finish(e) + o)
    <3>1. CASE v # u
      BY <1>7, <2>1, <3>1 DEF EpochOrder
    <3>2. CASE v = u /\ c \in trace[u].state
      <4>1. Completed(c) /\ c \in Uop
        BY <1>1, <3>2, UopFields
      <4>2. c \in IssuedUops
        BY <4>1 DEF Flow, IssuedUops
      <4>3. Issued(e) /\ issueTick[c] >= Finish(e) + o
        BY <2>1, <4>2 DEF EpochOrder
      <4>4. issueTick[c] \in Int /\ issueTick[c] <= now
        BY <1>3, <4>1
      <4> QED
        BY <1>3, <2>2, <3>2, <4>3, <4>4
    <3>3. CASE v = u /\ c = u
      <4>1. ~(CloseTick(u) = Never \/ CloseTick(u) > now)
        <5>1. Clear.why = "none" /\ \A why, tick : Blocked(why, tick).why = why
          BY DEF Clear, Blocked
        <5>2. (u \in DOMAIN epochs.close /\ (CloseTick(u) = Never \/ CloseTick(u) > now))
                 => EpochBlocker(u, now).why \in {"load_visibility", "epoch_completion"}
          BY <5>1 DEF EpochBlocker
        <5> QED
          BY <1>1, <3>3, <5>1, <5>2
      <4>2. Issued(e) /\ CloseTick(u) = Finish(e) + o
        BY <2>1, <3>3, <4>1 DEF CloseTick
      <4> QED
        BY <1>3, <2>2, <3>3, <4>1, <4>2
    <3> QED
      BY <1>7, <3>1, <3>2, <3>3
  <2>4. Issued(e)' /\ Finish(e)' = Finish(e)
    BY <1>4, <1>5, <2>2, <2>3
  <2>5. issueTick'[v] = IF v = u THEN now ELSE issueTick[v]
    BY <1>4, <1>5, <1>7
  <2> QED
    BY <1>1, <2>1, <2>3, <2>4, <2>5 DEF Issued, Finish
<1>8. EpochOrder'
  <2>1. \A c, v : c \in trace'[v].state \cup {v} <=> c \in trace[v].state \cup {v}
    BY <1>1
  <2> QED
    BY <1>1, <1>5, <1>7, <2>1 DEF EpochOrder
<1> QED
  BY <1>8

LEMMA StepEpochOrder ==
    Counters /\ Flow /\ Ledger /\ Closings /\ EpochOrder /\ [Next]_vars => EpochOrder'
<1> SUFFICES ASSUME Counters, Flow, Ledger, Closings, EpochOrder, [Next]_vars PROVE EpochOrder'
  OBVIOUS
<1>1. CASE \E u \in Uop : Issue(u)
  BY <1>1, IssueEpochOrder
<1>2. CASE \A u \in Uop : ~Issue(u)
  BY <1>2, QuietSteps DEF EpochOrder, IssuedUops, Issued, Finish, Uop
<1> QED
  BY <1>1, <1>2

LEMMA InitEpochOrder == Init => EpochOrder
BY DEF Init, EpochOrder, IssuedUops, Issued

\* Macro-ops are numbered along the trace.
LEMMA MacrosAscend ==
    ASSUME Counters, NEW u \in Uop, NEW v \in Uop, u <= v
    PROVE  trace[u].macro <= trace[v].macro
<1>1. /\ Uop = 1..Len(trace) /\ Len(trace) \in Nat
      /\ \A w \in Uop : trace[w].macro \in Nat
  BY TraceIsValid, LengthAssumption DEF Counters
<1>2. \A w \in Uop : w > 1 => trace[w].macro - trace[w - 1].macro \in 0..1
  BY TraceAssumption DEF Counters, Uop
<1> DEFINE below == {w \in Uop : u <= w /\ trace[w].macro < trace[u].macro}
<1> SUFFICES ASSUME below # {} PROVE FALSE
  BY <1>1
<1>3. PICK w \in below : \A x \in below : w <= x
  <2>1. below \subseteq Nat
    BY <1>1
  <2> HIDE DEF below
  <2> QED
    BY <2>1, LeastNumber
<1>4. w \in Uop /\ w - 1 \in Uop /\ w > 1 /\ u <= w - 1
  BY <1>1, <1>3
<1>5. w - 1 \notin below
  BY <1>1, <1>3
<1>6. trace[w - 1].macro >= trace[u].macro
  BY <1>1, <1>4, <1>5
<1>7. trace[w].macro >= trace[w - 1].macro
  <2>1. trace[w].macro - trace[w - 1].macro \in 0..1
    BY <1>2, <1>4
  <2>2. trace[w].macro \in Nat /\ trace[w - 1].macro \in Nat
    BY <1>1, <1>4
  <2> QED
    BY <2>1, <2>2
<1> QED
  BY <1>1, <1>3, <1>4, <1>6, <1>7

\* An older vector access that could go is a reason to wait.
LEMMA OlderLacksOperand ==
    ASSUME Counters, NEW x \in Uop, NEW u \in Uop, u < x, trace[x].macro <= sent,
           VectorMemoryBlocker(x, now) = Clear, policy.order # "any",
           ~Issued(u), trace[u].vmem, policy.order = "oldest" \/ trace[u].kind = trace[x].kind
    PROVE  \E w \in trace[u].deps : ~Completed(w)
<1>1. OlderReady(x) = {}
  <2>1. Clear.why = "none" /\ \A why, tick : Blocked(why, tick).why = why
    BY DEF Clear, Blocked
  <2>2. OlderReady(x) # {} =>
            VectorMemoryBlocker(x, now).why \in {"split_issue_busy", "service_busy", "order"}
    BY <2>1 DEF VectorMemoryBlocker
  <2> QED
    BY <2>1, <2>2
<1>2. trace[u].macro <= sent
  <2>1. trace[u].macro <= trace[x].macro
    <3>1. u <= x
      BY TraceIsValid DEF Counters
    <3> QED
      BY <3>1, MacrosAscend
  <2>2. trace[u].macro \in Nat /\ trace[x].macro \in Nat /\ sent \in Nat
    BY TraceIsValid DEF Counters
  <2> QED
    BY <2>1, <2>2
<1>3. u \in Waiting
  BY <1>2 DEF Waiting
<1>4. Incomplete(u) # {}
  BY <1>1, <1>3 DEF OlderReady
<1> QED
  BY <1>4 DEF Incomplete

LEMMA IssueOldestFirst ==
    ASSUME Counters, Flow, Ledger, OldestFirst, NEW x \in Uop, Issue(x)
    PROVE  OldestFirst'
<1>1. /\ ~Issued(x) /\ trace[x].macro <= sent /\ \A w \in trace[x].deps : Completed(w)
      /\ trace[x].vmem => VectorMemoryBlocker(x, now) = Clear
      /\ UNCHANGED <<trace, policy, now, doneTick>>
  BY IssueFacts
<1>2. issueTick' = [issueTick EXCEPT ![x] = now]
  BY IssueFacts
<1>3. /\ now \in Nat /\ DOMAIN issueTick = Uop /\ Uop = 1..Len(trace) /\ Len(trace) \in Nat
      /\ \A v \in Uop : issueTick[v] \in Int /\ issueTick[v] <= now
  BY TraceIsValid, LengthAssumption DEF Counters, Ledger, Times, Never
<1>4. /\ issueTick'[x] = now
      /\ \A v \in Uop : v # x => issueTick'[v] = issueTick[v]
  BY <1>2, <1>3
<1>5. \A v \in Uop : /\ Issued(v)' <=> (Issued(v) \/ v = x)
                     /\ Completed(v)' <=> Completed(v)
  BY <1>1, <1>3, <1>4 DEF Issued, Completed, Never
<1>6. IssuedUops' = IssuedUops \cup {x} /\ IssuedUops \subseteq Uop
  BY <1>1, <1>5 DEF IssuedUops, Uop
<1>7. ASSUME policy.order # "any", NEW v \in IssuedUops \cup {x}, NEW u \in 1..(v - 1),
             trace[u].vmem, trace[v].vmem,
             policy.order = "oldest" \/ trace[u].kind = trace[v].kind,
             ~Issued(u)' \/ issueTick'[u] > issueTick'[v]
      PROVE  \E w \in trace[u].deps : ~Completed(w) \/ doneTick[w] >= issueTick'[v]
  <2>1. u \in Uop /\ v \in Uop /\ u < v
    BY <1>3, <1>6
  <2>2. CASE v = x
    <3>1. ~Issued(u)
      BY <1>3, <1>4, <1>5, <1>7, <2>1, <2>2
    <3>2. \E w \in trace[u].deps : ~Completed(w)
      BY <1>1, <1>7, <2>1, <2>2, <3>1, OlderLacksOperand
    <3> QED
      BY <3>2
  <2>3. CASE v # x
    <3>1. v \in IssuedUops /\ issueTick'[v] = issueTick[v]
      BY <1>4, <1>7, <2>1, <2>3
    <3>2. ~Issued(u) \/ issueTick[u] > issueTick[v]
      BY <1>1, <1>4, <1>5, <1>7, <2>1, <3>1
    <3> QED
      BY <1>7, <3>1, <3>2 DEF OldestFirst
  <2> QED
    BY <2>2, <2>3
<1>8. \A u \in Uop : trace[u].deps \subseteq Uop
  BY UopFields
<1>9. ASSUME (policy.order # "any")', NEW v \in IssuedUops', NEW u \in 1..(v - 1),
             trace'[u].vmem, trace'[v].vmem,
             (policy.order = "oldest")' \/ trace'[u].kind = trace'[v].kind,
             ~Issued(u)' \/ issueTick'[u] > issueTick'[v]
      PROVE  \E w \in trace'[u].deps : ~Completed(w)' \/ doneTick'[w] >= issueTick'[v]
  <2>1. PICK w \in trace[u].deps : ~Completed(w) \/ doneTick[w] >= issueTick'[v]
    BY <1>1, <1>6, <1>7, <1>9
  <2>2. w \in Uop
    BY <1>3, <1>6, <1>8, <1>9
  <2> QED
    BY <1>1, <1>5, <2>1, <2>2
<1> QED
  BY <1>9 DEF OldestFirst

\* An operand that was lacking arrives now, which is not before the overtaking.
LEMMA CompleteOldestFirst ==
    ASSUME Counters, Flow, Ledger, OldestFirst, NEW x \in Uop, Complete(x)
    PROVE  OldestFirst'
<1>1. /\ x \in Due /\ doneTick' = [doneTick EXCEPT ![x] = Finish(x)]
      /\ UNCHANGED <<trace, policy, now, issueTick>>
  BY DEF Complete, setup, place
<1>2. /\ Issued(x) /\ ~Completed(x) /\ DOMAIN doneTick = Uop
      /\ doneTick'[x] = Finish(x) /\ \A v \in Uop : v # x => doneTick'[v] = doneTick[v]
  BY <1>1 DEF Due, Counters
<1>3. /\ now \in Nat /\ Finish(x) >= now /\ Finish(x) \in Int
      /\ \A v \in Uop : issueTick[v] \in Int /\ issueTick[v] <= now
  BY <1>2 DEF Counters, Ledger, Times, Never, Finish
<1>4. /\ Uop' = Uop /\ IssuedUops' = IssuedUops /\ IssuedUops \subseteq Uop
      /\ Uop = 1..Len(trace) /\ Len(trace) \in Nat
      /\ \A v : Issued(v)' <=> Issued(v)
  <2>1. Uop = 1..Len(trace) /\ Len(trace) \in Nat
    BY TraceIsValid, LengthAssumption DEF Counters
  <2>2. Uop' = Uop /\ \A v : Issued(v)' <=> Issued(v)
    BY <1>1 DEF Uop, Issued
  <2>3. IssuedUops' = IssuedUops /\ IssuedUops \subseteq Uop
    BY <2>2 DEF IssuedUops
  <2> QED
    BY <2>1, <2>2, <2>3
<1>5. \A u \in Uop : trace[u].deps \subseteq Uop
  BY UopFields
<1>6. ASSUME policy.order # "any", NEW v \in IssuedUops, NEW u \in 1..(v - 1),
             trace[u].vmem, trace[v].vmem,
             policy.order = "oldest" \/ trace[u].kind = trace[v].kind,
             ~Issued(u) \/ issueTick[u] > issueTick[v]
      PROVE  \E w \in trace[u].deps : ~Completed(w)' \/ doneTick'[w] >= issueTick[v]
  <2>1. PICK w \in trace[u].deps : ~Completed(w) \/ doneTick[w] >= issueTick[v]
    BY <1>6 DEF OldestFirst
  <2>2. w \in Uop /\ v \in Uop
    BY <1>4, <1>5
  <2>3. CASE w = x
    BY <1>2, <1>3, <2>2, <2>3
  <2>4. CASE w # x
    BY <1>2, <2>1, <2>2, <2>4 DEF Completed
  <2> QED
    BY <2>3, <2>4
<1> QED
  BY <1>1, <1>4, <1>6 DEF OldestFirst

LEMMA StepOldestFirst ==
    Counters /\ Flow /\ Ledger /\ OldestFirst /\ [Next]_vars => OldestFirst'
<1> SUFFICES ASSUME Counters, Flow, Ledger, OldestFirst, [Next]_vars PROVE OldestFirst'
  OBVIOUS
<1>1. CASE \E u \in Uop : Issue(u)
  BY <1>1, IssueOldestFirst
<1>2. CASE \E u \in Uop : Complete(u)
  BY <1>2, CompleteOldestFirst
<1>3. CASE \A u \in Uop : ~Issue(u) /\ ~Complete(u)
  <2>1. UNCHANGED <<trace, policy, issueTick>>
    BY <1>3, QuietSteps
  <2>2. UNCHANGED doneTick
    BY <1>3 DEF Next, Dispatch, DispatchEnds, ReleaseFlows, List, Round, Retire, RetireEnds,
                Advance, Stopped, vars
  <2> QED
    BY <2>1, <2>2 DEF OldestFirst, IssuedUops, Issued, Completed, Uop
<1> QED
  BY <1>1, <1>2, <1>3

LEMMA InitOldestFirst == Init => OldestFirst
BY DEF Init, OldestFirst, IssuedUops, Issued

\* Whatever is reserved ahead of it, an issue finds its ports, its lane and its
\* unit free, its epoch open and no older vector access ready: the blockers of
\* _issue_blocker and what _issue_once writes down fit each other, for every
\* trace, topology and policy.
THEOREM IssueRespectfulHolds == Spec => []IssueRespectful
<1> DEFINE Base == Counters /\ Flow /\ Ledger
           Order == Closings /\ Exclusive /\ EpochOrder /\ OldestFirst
<1>1. Init => Base /\ Order
  BY InitFlow, InitLedger, InitClosings, InitExclusive, InitEpochOrder, InitOldestFirst
<1>2. Base /\ Order /\ [Next]_vars => (Base /\ Order)'
  <2> SUFFICES ASSUME Base, Order, [Next]_vars PROVE Base' /\ Order'
    OBVIOUS
  <2>1. Base'
    BY StepFlow, StepLedger
  <2>2. Order'
    BY StepClosings, StepExclusive, StepEpochOrder, StepOldestFirst
  <2> QED
    BY <2>1, <2>2
<1>3. Base /\ Order => IssueRespectful
  BY TypesHold, PortsRespected DEF IssueRespectful
<1> QED
  BY <1>1, <1>2, <1>3, PTL DEF Spec

-----------------------------------------------------------------------------
(***************************************************************************)
(* What vector accesses and epochs hold is given back.                     *)
(***************************************************************************)
Timed(u) == policy.service[trace[u].kind] # Never

\* A flow is in flight until its timer, which is in serving, or its completion
\* takes it out; timers expire at the begin of the tick at which they are due.
Holding ==
    /\ inflight = {u \in Uop : /\ Issued(u) /\ trace[u].vmem
                               /\ (Timed(u) /\ u \in serving) \/ (~Timed(u) /\ ~Completed(u))}
    /\ \A u \in Uop : Issued(u) /\ trace[u].vmem /\ Timed(u) /\ ReleaseTick(u) > now => u \in serving
    /\ pc # "begin" => \A u \in serving : ReleaseTick(u) > now
Capacities ==
    \A k \in AccessKind :
        policy.capacity[k] # Never => Cardinality(OfKind(inflight, k)) <= policy.capacity[k]

LEMMA FinitelyManyUops ==
    ASSUME Counters
    PROVE  /\ IsFiniteSet(Uop)
           /\ \A S : S \subseteq Uop => IsFiniteSet(S) /\ Cardinality(S) \in Nat
<1>1. Uop = 1..Len(trace) /\ Len(trace) \in Nat
  BY TraceIsValid, LengthAssumption DEF Counters
<1>2. \A m \in Nat : IsFiniteSet(1..m)
  BY FS_Interval
<1>3. IsFiniteSet(Uop)
  BY <1>1, <1>2
<1> QED
  BY <1>3, FS_Subset, FS_CardinalityType

LEMMA VectorMemoryType ==
    ASSUME Counters, Ledger, NEW u \in Uop, trace[u].vmem
    PROVE  /\ trace[u].kind \in AccessKind
           /\ policy.service[trace[u].kind] \in Nat \cup {Never}
           /\ policy.capacity[trace[u].kind] \in Nat \cup {Never}
<1>1. ValidUop(trace, u) /\ policy \in Policies
  BY TraceAssumption DEF Counters, Uop, Ledger, Times
<1>2. trace[u].kind \in AccessKind
  BY <1>1 DEF ValidUop
<1> QED
  BY <1>1, <1>2, PolicyAssumption

LEMMA InitHolding == Init => Holding /\ Capacities
<1> SUFFICES ASSUME Init PROVE Holding /\ Capacities
  OBVIOUS
<1>1. /\ policy \in Policies /\ pc = "begin" /\ inflight = {} /\ serving = {}
      /\ \A u \in Uop : ~Issued(u)
  BY DEF Init, Issued
<1>2. Holding
  BY <1>1 DEF Holding
<1>3. \A k \in AccessKind : OfKind(inflight, k) = {} /\ policy.capacity[k] \in Nat \cup {Never}
  BY <1>1, PolicyAssumption DEF OfKind
<1>4. Capacities
  BY <1>3, FS_EmptySet DEF Capacities
<1> QED
  BY <1>2, <1>4

\* Fewer flows in flight take less.
LEMMA FewerHold ==
    ASSUME Counters, Ledger, Capacities, UNCHANGED <<trace, policy>>, inflight' \subseteq inflight
    PROVE  Capacities'
<1> SUFFICES ASSUME NEW k \in AccessKind, policy.capacity[k] # Never
             PROVE  Cardinality(OfKind(inflight, k)') <= policy.capacity[k]
  BY DEF Capacities
<1>1. /\ OfKind(inflight, k)' \subseteq OfKind(inflight, k)
      /\ OfKind(inflight, k) \subseteq Uop
  BY DEF OfKind, Ledger, Flows, IssuedUops
<1>2. /\ Cardinality(OfKind(inflight, k)') <= Cardinality(OfKind(inflight, k))
      /\ Cardinality(OfKind(inflight, k)') \in Nat /\ Cardinality(OfKind(inflight, k)) \in Nat
  BY <1>1, FinitelyManyUops, FS_Subset
<1>3. policy.capacity[k] \in Nat \cup {Never}
  BY PolicyAssumption DEF Ledger, Times
<1> QED
  BY <1>2, <1>3 DEF Capacities, Never

LEMMA IssueHolding ==
    ASSUME Counters, Flow, Ledger, Holding, Capacities, NEW u \in Uop, Issue(u)
    PROVE  Holding' /\ Capacities'
<1>1. /\ ~Issued(u) /\ pc = "scan" /\ pc' = "scan"
      /\ trace[u].vmem => VectorMemoryBlocker(u, now) = Clear
      /\ UNCHANGED <<trace, policy, now, doneTick>>
  BY IssueFacts
<1>2. issueTick' = [issueTick EXCEPT ![u] = now] /\ DOMAIN issueTick = Uop /\ now \in Nat
  BY IssueFacts DEF Counters
<1>3. PICK finish \in Nat : /\ latency' = [latency EXCEPT ![u] = finish - now]
  BY IssueFacts
<1>4. /\ Uop' = Uop /\ issueTick'[u] = now
      /\ \A v \in Uop : v # u => issueTick'[v] = issueTick[v] /\ Finish(v)' = Finish(v)
      /\ \A v \in Uop : /\ Issued(v)' <=> (Issued(v) \/ v = u)
                        /\ Completed(v)' <=> Completed(v)
                        /\ Timed(v)' <=> Timed(v)
  <2>1. DOMAIN latency = Uop
    BY DEF Ledger, Times
  <2> QED
    BY <1>1, <1>2, <1>3, <2>1 DEF Uop, Issued, Completed, Timed, Finish, Never
<1>5. \A v \in Uop : v # u => ReleaseTick(v)' = ReleaseTick(v)
  BY <1>1, <1>4 DEF ReleaseTick
<1>6. ~Completed(u) /\ u \notin serving /\ u \notin inflight
  BY <1>1 DEF Flow, Ledger, Flows, IssuedUops
<1>7. CASE ~trace[u].vmem
  <2>1. inflight' = inflight /\ serving' = serving
    BY <1>7 DEF Issue, EnterVectorMemory
  <2>2. Holding'
    <3>1. inflight' = {v \in Uop' : /\ Issued(v)' /\ trace'[v].vmem
                                    /\ \/ Timed(v)' /\ v \in serving'
                                       \/ ~Timed(v)' /\ ~Completed(v)'}
      BY <1>1, <1>4, <1>7, <2>1 DEF Holding
    <3>2. \A v \in Uop : Issued(v)' /\ trace[v].vmem /\ Timed(v)' /\ ReleaseTick(v)' > now
                            => v \in serving'
      BY <1>4, <1>5, <1>7, <2>1 DEF Holding
    <3>3. \A v \in serving' : ReleaseTick(v)' > now
      BY <1>1, <1>5, <1>6, <2>1 DEF Holding, Ledger, Flows, IssuedUops
    <3> QED
      BY <1>1, <1>4, <3>1, <3>2, <3>3 DEF Holding
  <2> QED
    BY <1>1, <2>1, <2>2, FewerHold
<1>8. CASE trace[u].vmem
  <2>1. PICK kind \in AccessKind : kind = trace[u].kind
    BY <1>8, VectorMemoryType
  <2>2. PICK service \in Nat \cup {Never} : service = policy.service[trace[u].kind]
    BY <1>8, VectorMemoryType
  <2>3. /\ inflight' = inflight \cup (IF service = 0 THEN {} ELSE {u})
        /\ serving' = serving \cup (IF service > 0 THEN {u} ELSE {})
    BY <1>8, <2>2 DEF Issue, EnterVectorMemory
  <2>4. /\ Timed(u) <=> service # Never
        /\ service # Never => service \in Nat /\ ReleaseTick(u)' = now + service
        /\ service = Never => ~(service > 0) /\ service # 0
    BY <1>1, <1>4, <2>2 DEF Timed, ReleaseTick, Never
  <2>5. inflight' = {v \in Uop' : /\ Issued(v)' /\ trace'[v].vmem
                                  /\ \/ Timed(v)' /\ v \in serving'
                                     \/ ~Timed(v)' /\ ~Completed(v)'}
    <3>1. u \in inflight' <=> /\ Issued(u)' /\ trace'[u].vmem
                              /\ \/ Timed(u)' /\ u \in serving'
                                 \/ ~Timed(u)' /\ ~Completed(u)'
      BY <1>1, <1>4, <1>6, <1>8, <2>2, <2>3, <2>4
    <3>2. ASSUME NEW v \in Uop, v # u
          PROVE  v \in inflight' <=> /\ Issued(v)' /\ trace'[v].vmem
                                     /\ \/ Timed(v)' /\ v \in serving'
                                        \/ ~Timed(v)' /\ ~Completed(v)'
      BY <1>1, <1>4, <2>3, <3>2 DEF Holding
    <3>3. inflight' \subseteq Uop
      BY <2>3 DEF Ledger, Flows, IssuedUops
    <3> QED
      BY <1>4, <3>1, <3>2, <3>3
  <2>6. \A v \in Uop : Issued(v)' /\ trace[v].vmem /\ Timed(v)' /\ ReleaseTick(v)' > now
                          => v \in serving'
    <3>1. Timed(u) /\ ReleaseTick(u)' > now => u \in serving'
      BY <1>2, <2>3, <2>4
    <3> QED
      BY <1>4, <1>5, <2>3, <3>1 DEF Holding
  <2>7. \A v \in serving' : ReleaseTick(v)' > now
    <3>1. service > 0 => ReleaseTick(u)' > now
      BY <1>2, <2>4
    <3>2. \A v \in serving : ReleaseTick(v)' > now
      BY <1>1, <1>5, <1>6 DEF Holding, Ledger, Flows, IssuedUops
    <3> QED
      BY <2>3, <3>1, <3>2
  <2>8. Holding'
    BY <1>1, <1>4, <2>5, <2>6, <2>7 DEF Holding
  <2>9. Capacities'
    <3> SUFFICES ASSUME NEW k \in AccessKind, policy.capacity[k] # Never
                 PROVE  Cardinality(OfKind(inflight, k)') <= policy.capacity[k]
      BY <1>1 DEF Capacities
    <3>1. PICK held : held = OfKind(inflight, k)
      OBVIOUS
    <3>2. held \subseteq Uop /\ u \notin held /\ Cardinality(held) <= policy.capacity[k]
      BY <1>6, <3>1 DEF OfKind, Ledger, Flows, IssuedUops, Capacities
    <3>3. IsFiniteSet(held) /\ Cardinality(held) \in Nat
      BY <3>2, FinitelyManyUops
    <3>4. CASE OfKind(inflight, k)' = held
      BY <3>2, <3>4
    <3>5. CASE OfKind(inflight, k)' = held \cup {u} /\ k = kind
      <4>1. Cardinality(OfKind(inflight, k)') = Cardinality(held) + 1
        BY <3>2, <3>3, <3>5, FS_AddElement
      <4>2. ~(Cardinality(held) >= policy.capacity[k])
        <5>1. Clear.why = "none" /\ \A why, tick : Blocked(why, tick).why = why
          BY DEF Clear, Blocked
        <5>2. (policy.capacity[kind] # Never
                /\ Cardinality(OfKind(inflight, kind)) >= policy.capacity[kind])
                  => VectorMemoryBlocker(u, now).why \in {"split_issue_busy", "service_busy"}
          BY <2>1, <5>1 DEF VectorMemoryBlocker
        <5> QED
          BY <1>1, <1>8, <3>1, <3>5, <5>1, <5>2
      <4>3. policy.capacity[k] \in Nat
        BY PolicyAssumption DEF Ledger, Times
      <4> QED
        BY <3>3, <4>1, <4>2, <4>3
    <3>6. \/ OfKind(inflight, k)' = held
          \/ OfKind(inflight, k)' = held \cup {u} /\ k = kind
      BY <1>1, <2>1, <2>3, <3>1 DEF OfKind
    <3> QED
      BY <3>4, <3>5, <3>6
  <2> QED
    BY <2>8, <2>9
<1> QED
  BY <1>7, <1>8

LEMMA CompleteHolding ==
    ASSUME Counters, Flow, Ledger, Holding, Capacities, NEW u \in Uop, Complete(u)
    PROVE  Holding' /\ Capacities'
<1>1. /\ u \in Due /\ doneTick' = [doneTick EXCEPT ![u] = Finish(u)]
      /\ inflight' = IF trace[u].vmem /\ policy.service[trace[u].kind] = Never
                     THEN inflight \ {u} ELSE inflight
      /\ UNCHANGED <<pc, trace, policy, now, issueTick, latency, serving>>
  BY DEF Complete, setup, place, memory
<1>2. /\ Issued(u) /\ ~Completed(u) /\ DOMAIN doneTick = Uop
      /\ doneTick'[u] = Finish(u) /\ \A v \in Uop : v # u => doneTick'[v] = doneTick[v]
  BY <1>1 DEF Due, Counters
<1>3. Completed(u)'
  <2>1. Finish(u) >= now /\ now \in Nat /\ issueTick[u] \in Int /\ latency[u] \in Nat
    BY <1>2 DEF Counters, Ledger, Times, Never
  <2> QED
    BY <1>2, <2>1 DEF Completed, Finish, Never
<1>4. /\ Uop' = Uop
      /\ \A v \in Uop : /\ Issued(v)' <=> Issued(v)
                        /\ Timed(v)' <=> Timed(v)
                        /\ ReleaseTick(v)' = ReleaseTick(v)
                        /\ v # u => (Completed(v)' <=> Completed(v))
  BY <1>1, <1>2 DEF Uop, Issued, Completed, Timed, ReleaseTick, Finish
<1>5. inflight' \subseteq inflight /\ inflight \subseteq Uop
  BY <1>1 DEF Ledger, Flows, IssuedUops
<1>6. ASSUME NEW v \in Uop
      PROVE  v \in inflight' <=> /\ Issued(v)' /\ trace[v].vmem
                                 /\ (Timed(v)' /\ v \in serving) \/ (~Timed(v)' /\ ~Completed(v)')
  <2>1. v \in inflight <=> /\ Issued(v) /\ trace[v].vmem
                           /\ (Timed(v) /\ v \in serving) \/ (~Timed(v) /\ ~Completed(v))
    BY DEF Holding
  <2>2. CASE v = u
    BY <1>1, <1>2, <1>3, <1>4, <2>1, <2>2 DEF Timed
  <2>3. CASE v # u
    BY <1>1, <1>4, <2>1, <2>3
  <2> QED
    BY <2>2, <2>3
<1>7. Holding'
  <2>1. inflight' = {v \in Uop' : /\ Issued(v)' /\ trace'[v].vmem
                                  /\ \/ Timed(v)' /\ v \in serving'
                                     \/ ~Timed(v)' /\ ~Completed(v)'}
    BY <1>1, <1>4, <1>5, <1>6
  <2>2. \A v \in Uop : Issued(v)' /\ trace[v].vmem /\ Timed(v)' /\ ReleaseTick(v)' > now
                          => v \in serving
    BY <1>4 DEF Holding
  <2>3. pc # "begin" => \A v \in serving : ReleaseTick(v)' > now
    BY <1>4 DEF Holding, Ledger, Flows, IssuedUops
  <2> QED
    BY <1>1, <1>4, <2>1, <2>2, <2>3 DEF Holding
<1> QED
  BY <1>1, <1>5, <1>7, FewerHold

LEMMA ReleaseHolding ==
    ASSUME Counters, Flow, Ledger, Holding, Capacities, ReleaseFlows
    PROVE  Holding' /\ Capacities'
<1>1. PICK expired : /\ expired = {u \in serving : ReleaseTick(u) <= now}
                     /\ serving' = serving \ expired /\ inflight' = inflight \ expired
  BY DEF ReleaseFlows
<1>2. UNCHANGED <<trace, policy, now, issueTick, latency, doneTick>>
  BY DEF ReleaseFlows, setup, place
<1>3. /\ Uop' = Uop
      /\ \A v \in Uop : /\ Issued(v)' <=> Issued(v)
                        /\ Timed(v)' <=> Timed(v)
                        /\ ReleaseTick(v)' = ReleaseTick(v)
                        /\ Completed(v)' <=> Completed(v)
  BY <1>2 DEF Uop, Issued, Completed, Timed, ReleaseTick, Finish
<1>4. /\ serving \subseteq Uop /\ inflight \subseteq Uop /\ \A v \in serving : Timed(v)
      /\ \A v \in serving : ReleaseTick(v) \in Int
      /\ now \in Nat
  <2>1. serving \subseteq Uop /\ inflight \subseteq Uop /\ \A v \in serving : Timed(v)
    BY DEF Ledger, Flows, IssuedUops, Timed
  <2>2. \A v \in serving : ReleaseTick(v) \in Int
    <3> SUFFICES ASSUME NEW v \in serving PROVE ReleaseTick(v) \in Int
      OBVIOUS
    <3>1. v \in inflight
      BY DEF Ledger, Flows
    <3>2. trace[v].vmem /\ v \in Uop
      BY <3>1 DEF Holding
    <3>3. policy.service[trace[v].kind] \in Int /\ issueTick[v] \in Int /\ latency[v] \in Int
      BY <3>2, VectorMemoryType DEF Ledger, Times, Never
    <3> QED
      BY <3>3 DEF ReleaseTick, Finish
  <2> QED
    BY <2>1, <2>2 DEF Counters
<1>5. Holding'
  <2>1. ASSUME NEW v \in Uop
        PROVE  v \in inflight' <=> /\ Issued(v) /\ trace[v].vmem
                                   /\ (Timed(v) /\ v \in serving') \/ (~Timed(v) /\ ~Completed(v))
    <3>1. v \in inflight <=> /\ Issued(v) /\ trace[v].vmem
                             /\ (Timed(v) /\ v \in serving) \/ (~Timed(v) /\ ~Completed(v))
      BY DEF Holding
    <3>2. v \in expired => Timed(v) /\ v \in serving
      BY <1>1, <1>4
    <3> QED
      BY <1>1, <3>1, <3>2
  <2>2. inflight' = {v \in Uop' : /\ Issued(v)' /\ trace'[v].vmem
                                  /\ \/ Timed(v)' /\ v \in serving'
                                     \/ ~Timed(v)' /\ ~Completed(v)'}
    BY <1>1, <1>2, <1>3, <1>4, <2>1
  <2>3. \A v \in Uop : Issued(v)' /\ trace[v].vmem /\ Timed(v)' /\ ReleaseTick(v)' > now
                          => v \in serving'
    <3>1. \A v \in expired : ReleaseTick(v) \in Int /\ ReleaseTick(v) <= now
      BY <1>1, <1>4
    <3> QED
      BY <1>1, <1>3, <1>4, <3>1 DEF Holding
  <2>4. \A v \in serving' : ReleaseTick(v)' > now
    BY <1>1, <1>3, <1>4
  <2> QED
    BY <1>2, <1>3, <2>2, <2>3, <2>4 DEF Holding
<1> QED
  BY <1>1, <1>2, <1>5, FewerHold

\* Other steps keep what is held; only time moves, up to where it is looked at.
LEMMA FrameHolding ==
    ASSUME Counters, Ledger, Holding, Capacities,
           UNCHANGED <<trace, policy, issueTick, latency, doneTick, inflight, serving>>,
           now' \in Nat, now <= now', pc' = "begin" \/ (pc # "begin" /\ now' = now)
    PROVE  Holding' /\ Capacities'
<1>1. /\ Uop' = Uop
      /\ \A v \in Uop : /\ Issued(v)' <=> Issued(v)
                        /\ Timed(v)' <=> Timed(v)
                        /\ ReleaseTick(v)' = ReleaseTick(v)
                        /\ Completed(v)' <=> Completed(v)
  BY DEF Uop, Issued, Completed, Timed, ReleaseTick, Finish
<1>2. inflight' = {v \in Uop' : /\ Issued(v)' /\ trace'[v].vmem
                                /\ \/ Timed(v)' /\ v \in serving'
                                   \/ ~Timed(v)' /\ ~Completed(v)'}
  BY <1>1 DEF Holding
<1>3. ASSUME NEW v \in Uop, Issued(v), trace[v].vmem, Timed(v), ReleaseTick(v) > now'
      PROVE  v \in serving
  <2>1. ReleaseTick(v) \in Int
    <3>1. policy.service[trace[v].kind] \in Int /\ issueTick[v] \in Int /\ latency[v] \in Int
      BY <1>3, VectorMemoryType DEF Ledger, Times, Never
    <3> QED
      BY <3>1 DEF ReleaseTick, Finish
  <2>2. ReleaseTick(v) > now
    BY <1>3, <2>1 DEF Counters
  <2> QED
    BY <1>3, <2>2 DEF Holding
<1>4. pc' # "begin" => \A v \in serving : ReleaseTick(v) > now'
  BY DEF Holding
<1>5. serving \subseteq Uop
  BY DEF Ledger, Flows, IssuedUops
<1>6. Holding'
  <2>1. \A v \in Uop' : Issued(v)' /\ trace'[v].vmem /\ Timed(v)' /\ ReleaseTick(v)' > now'
                           => v \in serving'
    BY <1>1, <1>3
  <2>2. pc' # "begin" => \A v \in serving' : ReleaseTick(v)' > now'
    BY <1>1, <1>4, <1>5
  <2> QED
    BY <1>2, <2>1, <2>2 DEF Holding
<1> QED
  BY <1>6, FewerHold

LEMMA StepHolding ==
    Counters /\ Flow /\ Ledger /\ Holding /\ Capacities /\ [Next]_vars => (Holding /\ Capacities)'
<1> SUFFICES ASSUME Counters, Flow, Ledger, Holding, Capacities, [Next]_vars
             PROVE  Holding' /\ Capacities'
  OBVIOUS
<1>1. CASE \E u \in Uop : Issue(u)
  BY <1>1, IssueHolding
<1>2. CASE \E u \in Uop : Complete(u)
  BY <1>2, CompleteHolding
<1>3. CASE ReleaseFlows
  BY <1>3, ReleaseHolding
<1>4. CASE Dispatch \/ DispatchEnds \/ List \/ Round \/ Retire \/ RetireEnds
  <2>1. /\ UNCHANGED <<trace, policy, issueTick, latency, doneTick, inflight, serving, now>>
        /\ pc # "begin"
    BY <1>4 DEF Dispatch, DispatchEnds, List, Round, Retire, RetireEnds, setup, place, memory
  <2>2. now' \in Nat /\ now <= now'
    BY <2>1 DEF Counters
  <2> QED
    BY <2>1, <2>2, FrameHolding
<1>5. CASE Advance
  <2>1. /\ UNCHANGED <<trace, policy, issueTick, latency, doneTick, inflight, serving>>
        /\ pc = "advance"
    BY <1>5 DEF Advance, setup, place, memory
  <2>2. /\ now' \in Nat /\ now <= now'
        /\ pc' = "begin" \/ now' = now
    <3>1. PICK tick : IF tick \in (now + 1)..Horizon THEN now' = tick /\ pc' = "begin"
                      ELSE now' = now /\ pc' = "diverged"
      BY <1>5 DEF Advance
    <3> QED
      BY <3>1, WidthAssumption DEF Counters
  <2> QED
    BY <2>1, <2>2, FrameHolding
<1>6. CASE Stopped \/ UNCHANGED vars
  <2>1. UNCHANGED <<pc, trace, policy, issueTick, latency, doneTick, inflight, serving, now>>
    BY <1>6 DEF Stopped, vars, setup, place, memory
  <2>2. \A v \in Uop : (Issued(v)' <=> Issued(v)) /\ (Completed(v)' <=> Completed(v))
    BY <2>1 DEF Issued, Completed
  <2>3. Holding'
    BY <2>1 DEF Holding, Uop, Issued, Completed, Timed, ReleaseTick, Finish
  <2> QED
    BY <2>1, <2>3, FewerHold
<1> QED
  BY <1>1, <1>2, <1>3, <1>4, <1>5, <1>6 DEF Next

LEMMA FlowsFollow ==
    ASSUME Counters, Ledger, Holding, Capacities
    PROVE  FlowsExact
<1>1. ASSUME pc # "begin"
      PROVE  inflight = {u \in IssuedUops :
                 /\ trace[u].vmem
                 /\ IF policy.service[trace[u].kind] = Never THEN ~Completed(u)
                    ELSE ReleaseTick(u) > now}
  BY <1>1 DEF Holding, Timed, IssuedUops
<1> QED
  BY <1>1 DEF FlowsExact, Capacities

LEMMA InitMixed == Init => MixedExact
<1> SUFFICES ASSUME Init PROVE MixedExact
  OBVIOUS
<1>1. policy \in Policies /\ active = {} /\ epochs = Epochs(trace)
  BY DEF Init
<1>2. \A d \in DOMAIN epochs.mixed : d \in Uop
  BY <1>1 DEF Epochs, Configs, Uop
<1>3. \A u \in Uop : ~Issued(u)
  BY DEF Init, Issued
<1>4. policy.mixedCapacity \in Nat /\ Cardinality({}) = 0
  BY <1>1, PolicyAssumption, FS_EmptySet
<1> QED
  BY <1>1, <1>2, <1>3, <1>4 DEF MixedExact

LEMMA StepMixed ==
    Counters /\ Flow /\ Ledger /\ Closings /\ TerminalsFollow /\ MixedExact /\ [Next]_vars
        => (TerminalsFollow /\ MixedExact)'
<1> SUFFICES ASSUME Counters, Flow, Ledger, Closings, TerminalsFollow, MixedExact, [Next]_vars
             PROVE  TerminalsFollow' /\ MixedExact'
  OBVIOUS
<1>1. UNCHANGED <<trace, policy, epochs>>
  BY IssueFacts, QuietSteps
<1>2. TerminalsFollow'
  BY <1>1 DEF TerminalsFollow
<1>3. \A d \in DOMAIN epochs.mixed : /\ d \in Uop /\ epochs.mixed[d] \in Uop
                                     /\ d \in trace[epochs.mixed[d]].deps
  BY UopFields DEF TerminalsFollow, Closings
<1>4. active \subseteq Uop /\ policy.mixedCapacity \in Nat
  BY <1>3, PolicyAssumption DEF MixedExact, Ledger, Times
<1>5. ASSUME NEW u \in Uop, Issue(u) PROVE MixedExact'
  <2>1. /\ ~Issued(u) /\ now \in Nat /\ DOMAIN issueTick = Uop
        /\ issueTick' = [issueTick EXCEPT ![u] = now]
        /\ EpochBlocker(u, now) = Clear
        /\ doneTick' = doneTick
    BY <1>5, IssueFacts DEF Counters
  <2>2. active' = active \cup (IF u \in DOMAIN epochs.mixed THEN {epochs.mixed[u]} ELSE {})
    BY <1>5 DEF Issue, OpenEpoch
  <2>3. \A v \in Uop : /\ Issued(v)' <=> (Issued(v) \/ v = u)
                       /\ Completed(v)' <=> Completed(v)
    BY <2>1 DEF Issued, Completed, Never
  <2>4. CASE u \notin DOMAIN epochs.mixed
    <3>1. active' = active
      BY <2>2, <2>4
    <3>2. \A d \in DOMAIN epochs.mixed : /\ Issued(d)' <=> Issued(d)
                                         /\ Completed(epochs.mixed[d])' <=> Completed(epochs.mixed[d])
      <4>1. \A d \in DOMAIN epochs.mixed : epochs'.mixed[d] = epochs.mixed[d]
        BY <1>1
      <4> QED
        BY <1>3, <2>1, <2>3, <2>4, <4>1 DEF Completed
    <3>3. {d \in DOMAIN epochs.mixed : Issued(d)' /\ ~Completed(epochs.mixed[d])'}
             = {d \in DOMAIN epochs.mixed : Issued(d) /\ ~Completed(epochs.mixed[d])}
      BY <3>2
    <3>4. {d \in DOMAIN epochs.mixed : Issued(d) /\ ~Completed(epochs.mixed[d])}'
             = {d \in DOMAIN epochs.mixed : Issued(d)' /\ ~Completed(epochs.mixed[d])'}
      BY <1>1 DEF Completed
    <3> QED
      BY <1>1, <3>1, <3>3, <3>4 DEF MixedExact
  <2>5. CASE u \in DOMAIN epochs.mixed
    <3>1. PICK e \in Uop : e = epochs.mixed[u] /\ u \in trace[e].deps
      BY <1>3, <2>5
    <3>2. ~Completed(e)
      BY <2>1, <3>1 DEF Flow
    <3>3. ASSUME NEW x
          PROVE  x \in active' <=> \E d \in DOMAIN epochs.mixed :
                                      /\ x = epochs.mixed[d]
                                      /\ Issued(d)' /\ ~Completed(epochs.mixed[d])'
      <4>1. x \in active <=> \E d \in DOMAIN epochs.mixed :
                                      /\ x = epochs.mixed[d]
                                      /\ Issued(d) /\ ~Completed(epochs.mixed[d])
        BY DEF MixedExact
      <4>2. \A d \in DOMAIN epochs.mixed :
               /\ Issued(d)' <=> (Issued(d) \/ d = u)
               /\ Completed(epochs.mixed[d])' <=> Completed(epochs.mixed[d])
        <5>1. \A d \in DOMAIN epochs.mixed : epochs'.mixed[d] = epochs.mixed[d]
          BY <1>1
        <5> QED
          BY <1>3, <2>1, <2>3, <5>1 DEF Completed
      <4>3. x \in active' <=> x \in active \/ x = e
        BY <2>2, <2>5, <3>1
      <4> QED
        BY <2>5, <3>1, <3>2, <4>1, <4>2, <4>3
    <3>4. active' = {epochs'.mixed[d] : d \in {c \in DOMAIN epochs'.mixed :
                                                  Issued(c)' /\ ~Completed(epochs.mixed[c])'}}
      BY <1>1, <3>3
    <3>5. Cardinality(active') <= policy.mixedCapacity
      <4>1. ~(Cardinality(active) >= policy.mixedCapacity)
        <5>1. Clear.why = "none" /\ \A why, tick : Blocked(why, tick).why = why
          BY DEF Clear, Blocked
        <5>2. Cardinality(active) >= policy.mixedCapacity
                 => EpochBlocker(u, now).why \in
                       {"load_visibility", "epoch_completion", "mixed_epoch_capacity"}
          BY <2>5, <5>1 DEF EpochBlocker
        <5> QED
          BY <2>1, <5>1, <5>2
      <4>2. IsFiniteSet(active) /\ Cardinality(active) \in Nat
        BY <1>4, FinitelyManyUops
      <4>3. active' = active \cup {e}
        BY <2>2, <2>5, <3>1
      <4>4. Cardinality(active') = Cardinality(active) \/ Cardinality(active') = Cardinality(active) + 1
        BY <4>2, <4>3, FS_AddElement
      <4> QED
        BY <1>4, <4>1, <4>2, <4>4
    <3> QED
      BY <1>1, <3>4, <3>5 DEF MixedExact
  <2> QED
    BY <2>4, <2>5
<1>6. ASSUME NEW u \in Uop, Complete(u) PROVE MixedExact'
  <2>1. /\ u \in Due /\ doneTick' = [doneTick EXCEPT ![u] = Finish(u)]
        /\ active' = active \ {u} /\ issueTick' = issueTick
    BY <1>6 DEF Complete, place
  <2>2. /\ ~Completed(u) /\ Completed(u)'
        /\ \A v \in Uop : v # u => (Completed(v)' <=> Completed(v))
    <3>1. Issued(u) /\ ~Completed(u) /\ DOMAIN doneTick = Uop
      BY <2>1 DEF Due, Counters
    <3>2. Finish(u) >= now /\ now \in Nat /\ issueTick[u] \in Int /\ latency[u] \in Nat
      BY <3>1 DEF Counters, Ledger, Times, Never
    <3>3. Finish(u) # Never
      BY <3>2 DEF Finish, Never
    <3> QED
      BY <2>1, <3>1, <3>3 DEF Completed
  <2>3. ASSUME NEW x
        PROVE  x \in active' <=> \E d \in DOMAIN epochs.mixed :
                                    /\ x = epochs.mixed[d]
                                    /\ Issued(d)' /\ ~Completed(epochs.mixed[d])'
    <3>1. x \in active <=> \E d \in DOMAIN epochs.mixed :
                                    /\ x = epochs.mixed[d]
                                    /\ Issued(d) /\ ~Completed(epochs.mixed[d])
      BY DEF MixedExact
    <3>2. \A d \in DOMAIN epochs.mixed :
             /\ Issued(d)' <=> Issued(d)
             /\ Completed(epochs.mixed[d])' <=> Completed(epochs.mixed[d]) \/ epochs.mixed[d] = u
      <4>1. \A d \in DOMAIN epochs.mixed : epochs'.mixed[d] = epochs.mixed[d]
        BY <1>1
      <4>2. \A v \in Uop : Completed(v)' <=> Completed(v) \/ v = u
        BY <2>2
      <4> QED
        BY <1>3, <2>1, <4>1, <4>2 DEF Issued, Completed
    <3> QED
      BY <2>1, <3>1, <3>2
  <2>4. active' = {epochs'.mixed[d] : d \in {c \in DOMAIN epochs'.mixed :
                                                Issued(c)' /\ ~Completed(epochs.mixed[c])'}}
    BY <1>1, <2>3
  <2>5. Cardinality(active') <= policy.mixedCapacity
    <3>1. active' \subseteq active /\ IsFiniteSet(active)
      BY <1>4, <2>1, FinitelyManyUops
    <3>2. Cardinality(active') <= Cardinality(active) /\ Cardinality(active) \in Nat
          /\ Cardinality(active') \in Nat
      BY <1>4, <3>1, FinitelyManyUops, FS_Subset
    <3> QED
      BY <1>4, <3>2 DEF MixedExact
  <2> QED
    BY <1>1, <2>4, <2>5 DEF MixedExact
<1>7. ASSUME \A u \in Uop : ~Issue(u) /\ ~Complete(u) PROVE MixedExact'
  <2>1. UNCHANGED <<issueTick, doneTick, active>>
    BY <1>7 DEF Next, Dispatch, DispatchEnds, ReleaseFlows, List, Round, Retire, RetireEnds,
                Advance, Stopped, vars, place
  <2> QED
    BY <1>1, <2>1 DEF MixedExact, Issued, Completed
<1> QED
  BY <1>2, <1>5, <1>6, <1>7

\* Flow tokens are given back exactly when they are due, and so are active epochs, if
\* those that store and reduce end at a uop that depends on their configuration.
\* If one does not, it may complete first, and its place is never given back.
THEOREM HoldingsExactHolds == Spec => []HoldingsExact
<1> DEFINE Base == Counters /\ Flow /\ Ledger /\ Closings
           Held == Holding /\ Capacities
           Open == TerminalsFollow => MixedExact
<1>1. Init => Base /\ Held /\ Open
  BY InitFlow, InitLedger, InitClosings, InitHolding, InitMixed
<1>2. Base /\ Held /\ Open /\ [Next]_vars => (Base /\ Held /\ Open)'
  <2> SUFFICES ASSUME Base, Held, Open, [Next]_vars PROVE Base' /\ Held' /\ Open'
    OBVIOUS
  <2>1. Base'
    BY StepFlow, StepLedger, StepClosings
  <2>2. Held'
    BY StepHolding
  <2>3. Open'
    <3>1. TerminalsFollow' => TerminalsFollow
      <4>1. UNCHANGED <<trace, epochs>>
        BY IssueFacts, QuietSteps
      <4> QED
        BY <4>1 DEF TerminalsFollow
    <3> QED
      BY <3>1, StepMixed
  <2> QED
    BY <2>1, <2>2, <2>3
<1>3. Base /\ Held /\ Open => HoldingsExact
  BY FlowsFollow DEF HoldingsExact
<1> QED
  BY <1>1, <1>2, <1>3, PTL DEF Spec

-----------------------------------------------------------------------------
(***************************************************************************)
(* No missed wake-up.  When the fixed point of a tick is reached, whatever *)
(* keeps a candidate back keeps it back until one of the ticks it adds to  *)
(* the events, or until its ports are free again.                          *)
(***************************************************************************)
\* What keeps a candidate back depends on nothing that run() changes after the
\* fixed point and before time moves on.
LEMMA FrameBlocker ==
    ASSUME UNCHANGED <<trace, policy, epochs, now, sent, doneTick, place, splitFree,
                       inflight, active, pendingGroups, ports>>
    PROVE  /\ Candidates' = Candidates
           /\ \A u : Issuable(u, now)' <=> Issuable(u, now)
<1>1. UNCHANGED <<trace, policy, epochs, now, sent, doneTick, issueTick, latency, laneFree,
                  unitFree, tokenFree, lastIssue, memoryFree, splitFree, inflight, active,
                  pendingGroups, reads, writes>>
  BY DEF place, ports
<1>2. Candidates' = Candidates
  BY <1>1 DEF Candidates, Waiting, Uop, Issued
<1>3. ASSUME NEW u PROVE Issuable(u, now)' <=> Issuable(u, now)
  <2>1. Incomplete(u)' = Incomplete(u)
    BY <1>1 DEF Incomplete, Completed
  <2>2. EpochBlocker(u, now)' = EpochBlocker(u, now)
    <3>1. StateSeen(u)' = StateSeen(u)
      BY <1>1 DEF StateSeen
    <3>2. \A c : CloseTick(c)' = CloseTick(c)
      BY <1>1 DEF CloseTick, Issued, Finish
    <3>3. Soonest(FinishKnown(active))' = Soonest(FinishKnown(active))
      BY <1>1 DEF Soonest, FinishKnown, Issued, Finish
    <3> QED
      BY <1>1, <3>1, <3>2, <3>3 DEF EpochBlocker
  <2>3. VectorMemoryBlocker(u, now)' = VectorMemoryBlocker(u, now)
    <3>1. \A k : SplitTick(k)' = SplitTick(k)
      BY <1>1 DEF SplitTick
    <3>2. OlderReady(u)' = OlderReady(u)
      BY <1>1 DEF OlderReady, Waiting, Uop, Issued, Incomplete, Completed
    <3>3. \A k : OfKind(inflight, k)' = OfKind(inflight, k)
      BY <1>1 DEF OfKind
    <3>4. \A v : ReleaseTick(v)' = ReleaseTick(v)
      BY <1>1 DEF ReleaseTick, Finish
    <3> QED
      BY <1>1, <3>1, <3>2, <3>3, <3>4 DEF VectorMemoryBlocker, NextBoundary
  <2>4. OverlapBlocked(u)' <=> OverlapBlocked(u)
    BY <1>1 DEF OverlapBlocked, Group, UopsOf, Uop
  <2>5. /\ SpacedTick(u)' = SpacedTick(u) /\ UnitTick(u)' = UnitTick(u)
    BY <1>1 DEF SpacedTick, UnitTick
  <2>6. ResourceTick(u)' = ResourceTick(u) 
    BY <1>1 DEF ResourceTick, LaneTick
  <2>7. /\ DomainsOf(u)' = DomainsOf(u) /\ DomainTick(u)' = DomainTick(u)
        /\ MemoryRefuses(u, now)' <=> MemoryRefuses(u, now)
    BY <1>1 DEF DomainTick, DomainsOf, TokenTick, MemoryRefuses
  <2>8. PortBlocker(u, now)' = PortBlocker(u, now)
    <3>1. FreePaths(u, now)' = FreePaths(u, now)
      BY <1>1 DEF FreePaths, UnitChoices
    <3>2. Readable(u, now)' = Readable(u, now)
      BY <1>1, <3>1 DEF Readable, ReadFree, Reserved, Slot, ReadOf
    <3>3. Paths(u, now)' = Paths(u, now)
      BY <1>1, <3>2 DEF Paths, WriteFree, Reserved, Slot, WriteOf
    <3>4. UnitReadyTick(u, now)' = UnitReadyTick(u, now)
      BY <1>1 DEF UnitReadyTick, UnitChoices, LaneTick
    <3> QED
      BY <1>1, <3>1, <3>2, <3>3, <3>4 DEF PortBlocker, NextBoundary
  <2>9. Blocker(u, now)' = Blocker(u, now)
    BY <1>1, <2>1, <2>2, <2>3, <2>4, <2>5, <2>6, <2>7, <2>8 DEF Blocker, FinishKnown, Issued, Finish
  <2> QED
    BY <2>9 DEF Issuable
<1> QED
  BY <1>2, <1>3

\* The fixed point: a round in which nothing has issued yet is still at the head of
\* its list, and a tick is left with every candidate blocked.
Exhausted ==
    /\ pc = "scan" /\ ~progressed => at = NoUop
    /\ pc \in {"retire", "advance"} => \A u \in Candidates : ~Issuable(u, now)

LEMMA StepExhausted == Counters /\ Exhausted /\ [Next]_vars => Exhausted'
<1> SUFFICES ASSUME Counters, Exhausted, [Next]_vars PROVE Exhausted'
  OBVIOUS
<1>1. ASSUME NEW u \in Uop, Complete(u) PROVE Exhausted'
  BY <1>1 DEF Complete, Exhausted
<1>2. ASSUME NEW u \in Uop, Issue(u) PROVE Exhausted'
  BY <1>2 DEF Issue, Exhausted
<1>3. CASE Dispatch \/ DispatchEnds \/ ReleaseFlows \/ List
  BY <1>3 DEF Dispatch, DispatchEnds, ReleaseFlows, List, Exhausted
<1>4. CASE Round
  <2>1. CASE progressed
    BY <1>4, <2>1 DEF Round, Exhausted
  <2>2. CASE ~progressed
    <3>1. at = NoUop /\ \A u \in Listed : ~Issuable(u, now)
      BY <1>4, <2>2 DEF Round, Exhausted
    <3>2. Listed = Candidates
      <4>1. Candidates \subseteq Nat \ {0}
        BY TraceIsValid DEF Counters, Candidates, Waiting
      <4>2. at = 0 /\ \A u \in Candidates : u > at
        BY <3>1, <4>1 DEF NoUop
      <4>3. {u \in Candidates : u > at} = Candidates
        BY <4>2
      <4> QED
        BY <4>2, <4>3 DEF Listed, NoUop
    <3>3. /\ Candidates' = Candidates
          /\ \A u : Issuable(u, now)' <=> Issuable(u, now)
      BY <1>4, FrameBlocker DEF Round, setup, memory
    <3>4. pc' # "scan"
      BY <1>4, <2>2 DEF Round
    <3> QED
      BY <3>1, <3>2, <3>3, <3>4 DEF Exhausted
  <2> QED
    BY <2>1, <2>2
<1>5. CASE Retire \/ RetireEnds
  <2>1. /\ Candidates' = Candidates
        /\ \A u : Issuable(u, now)' <=> Issuable(u, now)
    BY <1>5, FrameBlocker DEF Retire, RetireEnds, setup, memory
  <2>2. pc = "retire" /\ pc' # "scan"
    BY <1>5 DEF Retire, RetireEnds
  <2> QED
    BY <2>1, <2>2 DEF Exhausted
<1>6. CASE Advance
  BY <1>6 DEF Advance, Exhausted
<1>7. CASE Stopped \/ UNCHANGED vars
  <2>1. /\ Candidates' = Candidates
        /\ \A u : Issuable(u, now)' <=> Issuable(u, now)
    BY <1>7, FrameBlocker DEF Stopped, vars, setup, memory
  <2>2. UNCHANGED <<pc, progressed, at>>
    BY <1>7 DEF Stopped, vars
  <2> QED
    BY <2>1, <2>2 DEF Exhausted
<1> QED
  BY <1>1, <1>2, <1>3, <1>4, <1>5, <1>6, <1>7 DEF Next

\* The timelines hold ticks.
Clocks ==
    /\ DOMAIN lastIssue = {trace[u].class : u \in Uop}
    /\ \A c \in DOMAIN lastIssue : lastIssue[c] \in Nat \cup {Never}
    /\ \A k \in AccessKind : memoryFree[k] \in Nat
    /\ DOMAIN splitFree = AccessKind
    /\ \A k \in AccessKind : /\ DOMAIN splitFree[k] = 1..policy.split.lanes[k]
                             /\ \A l \in DOMAIN splitFree[k] : splitFree[k][l] \in Nat
    /\ \A d \in DOMAIN Tokens : \A i \in 1..Tokens[d] : tokenFree[d][i] \in Nat

LEMMA InitClocks == Init => Clocks
  BY DEF Init, Clocks, Uop

LEMMA IssueClocks ==
    ASSUME Counters, Flow, Ledger, Clocks, NEW u \in Uop, Issue(u)
    PROVE  Clocks'
<1>1. /\ UNCHANGED <<trace, policy>> /\ now \in Nat /\ policy \in Policies
      /\ trace[u].occupancy \in Nat /\ trace \in Traces
  BY IssueFacts, UopFields DEF Counters, Ledger, Times
<1>2. DOMAIN lastIssue' = {trace[v].class : v \in Uop} /\ Uop' = Uop
      /\ \A c \in DOMAIN lastIssue' : lastIssue'[c] \in Nat \cup {Never}
  <2>1. lastIssue' = [lastIssue EXCEPT ![trace[u].class] = now]
    BY DEF Issue
  <2> QED
    BY <1>1, <2>1 DEF Clocks, Uop
<1>3. ASSUME NEW d \in DOMAIN Tokens, NEW i \in 1..Tokens[d]
      PROVE  tokenFree'[d][i] \in Nat
  <2>1. tokenFree'[d][i] \in {now + trace[u].occupancy, tokenFree[d][i]}
    BY DEF Issue, ReserveIssueDomains
  <2> QED
    BY <1>1, <2>1 DEF Clocks
<1>4. FlowCount(u) * policy.split.ticks \in Nat \/ policy.split.ticks = Never \/ ~trace[u].vmem
  <2> SUFFICES ASSUME trace[u].vmem, policy.split.ticks # Never
               PROVE  FlowCount(u) * policy.split.ticks \in Nat
    OBVIOUS
  <2>1. trace[u].bytes \in Nat /\ trace[u].address \in Nat
    BY <1>1, TraceAssumption DEF ValidUop, Uop
  <2>2. policy.split.boundary \in Nat \ {0} /\ policy.split.ticks \in Nat /\ policy.split.maxFlows \in Nat
    BY <1>1, PolicyAssumption DEF AccessKind
  <2>3. PICK covered : covered = (trace[u].address % policy.split.boundary) + trace[u].bytes
    OBVIOUS
  <2>4. covered \in Nat
    BY <2>1, <2>2, <2>3
  <2>5. PICK lines : lines = (covered + policy.split.boundary - 1) \div policy.split.boundary
    OBVIOUS
  <2>6. lines \in Nat
    BY <2>2, <2>4, <2>5
  <2>7. Min({lines, policy.split.maxFlows}) \in Nat
    BY <2>2, <2>6, MinIsLeast
  <2>8. FlowCount(u) \in Nat
    BY <2>3, <2>5, <2>7 DEF FlowCount
  <2> QED
    BY <2>2, <2>8
<1>5. /\ DOMAIN splitFree' = AccessKind
      /\ \A k \in AccessKind : /\ DOMAIN splitFree'[k] = 1..policy.split.lanes[k]
                               /\ \A l \in DOMAIN splitFree'[k] : splitFree'[k][l] \in Nat
  <2>1. CASE ~trace[u].vmem \/ policy.split.ticks = Never
    <3>1. splitFree' = splitFree
      BY <2>1 DEF Issue, EnterVectorMemory
    <3> QED
      BY <3>1 DEF Clocks
  <2>2. CASE trace[u].vmem /\ policy.split.ticks # Never
    <3>1. PICK lane, busy : /\ busy = now + FlowCount(u) * policy.split.ticks
                            /\ splitFree' = [splitFree EXCEPT ![trace[u].kind][lane] = busy]
      BY <2>2 DEF Issue, EnterVectorMemory
    <3>2. busy \in Nat
      BY <1>1, <1>4, <2>2, <3>1
    <3> QED
      BY <3>1, <3>2 DEF Clocks
  <2> QED
    BY <2>1, <2>2
<1>6. \A k \in AccessKind : memoryFree'[k] \in Nat
  <2>1. memoryFree' \in MemoryAfter(u)
    BY DEF Issue
  <2> QED
    BY <1>1, <2>1, MemoryAssumption DEF MemoryAfter, Clocks
<1> QED
  BY <1>1, <1>2, <1>3, <1>5, <1>6 DEF Clocks

LEMMA StepClocks == Counters /\ Flow /\ Ledger /\ Clocks /\ [Next]_vars => Clocks'
<1> SUFFICES ASSUME Counters, Flow, Ledger, Clocks, [Next]_vars PROVE Clocks'
  OBVIOUS
<1>1. ASSUME NEW u \in Uop, Issue(u) PROVE Clocks'
  BY <1>1, IssueClocks
<1>2. ASSUME \A u \in Uop : ~Issue(u) PROVE Clocks'
  <2>1. UNCHANGED <<trace, policy, lastIssue, memoryFree, splitFree, tokenFree>>
    BY <1>2 DEF Next, Complete, Dispatch, DispatchEnds, ReleaseFlows, List, Round, Retire,
           RetireEnds, Advance, Stopped, vars, setup, place, memory
  <2> QED
    BY <2>1 DEF Clocks, Uop
<1> QED
  BY <1>1, <1>2

\* A uop may issue at a tick exactly if each of the tests of _issue_blocker passes
\* at it.
LEMMA GatesOpen ==
    ASSUME NEW u, NEW t, Issuable(u, t)
    PROVE  /\ Incomplete(u) = {} /\ EpochBlocker(u, t) = Clear
           /\ trace[u].after # NoUop =>
                 Issued(trace[u].after) /\ ~(issueTick[trace[u].after] + trace[u].gap > t)
           /\ ~OverlapBlocked(u)
           /\ lastIssue[trace[u].class] # Never => ~(SpacedTick(u) > t)
           /\ ~(ResourceTick(u) > t)
           /\ trace[u].units # {} => ~(UnitTick(u) > t)
           /\ trace[u].vmem => VectorMemoryBlocker(u, t) = Clear
           /\ ~MemoryRefuses(u, t)
           /\ DomainsOf(u) # {} => ~(DomainTick(u) > t)
           /\ PortBlocker(u, t).why = "none"
<1>1. EpochBlocker(u, t) # Clear => EpochBlocker(u, t).why # "none"
  BY DEF EpochBlocker, Blocked, Clear
<1>2. VectorMemoryBlocker(u, t) # Clear => VectorMemoryBlocker(u, t).why # "none"
  BY DEF VectorMemoryBlocker, Blocked, Clear
<1>3. /\ Blocker(u, t).why = "none"
      /\ \A why, tick : Blocked(why, tick).why = why
  BY DEF Issuable, Blocked
<1> QED
  BY <1>1, <1>2, <1>3 DEF Blocker

\* The gates an epoch closes: each names the tick at which it opens.
LEMMA EpochWakes ==
    ASSUME Counters, Ledger, Closings, NEW u \in Uop, NEW t \in Nat, now < t,
           Incomplete(u) = {}, EpochBlocker(u, t) = Clear,
           EpochBlocker(u, now) # Clear
    PROVE  EpochBlocker(u, now).at \in (now + 1)..t
<1>1. now \in Nat
  BY DEF Counters
<1>2. \A why, tick : Blocked(why, tick) # Clear => Blocked(why, tick).at = tick
  BY DEF Blocked
<1>3. CASE u \in epochs.loads /\ trace[u].state # {} /\ StateSeen(u) > now
  <2>1. StateSeen(u) \in Int
    <3> DEFINE S == {doneTick[v] : v \in trace[u].state}
    <3>1. S \subseteq 0..now /\ S # {}
      <4>1. ASSUME NEW v \in trace[u].state PROVE doneTick[v] \in 0..now
        <5>1. v \in Uop /\ Completed(v)
          BY UopFields DEF Incomplete
        <5>2. Issued(v) => issueTick[v] \in Nat
          BY <5>1, <1>1 DEF Ledger, Times, Issued, Never
        <5>3. doneTick[v] = Finish(v) /\ Finish(v) <= now /\ Completed(v) => doneTick[v] # Never
          BY <5>1 DEF Ledger, Times, Completed
        <5> QED
          BY <5>1, <5>2, <5>3, <1>1 DEF Ledger, Times, Finish, Never, Completed
      <4> QED
        BY <4>1, <1>3
    <3>2. Max(S) \in S
      <4> HIDE DEF S
      <4> QED
        BY <3>1, <1>1, MaxIsGreatest
    <3>3. policy.loadVisibility \in Nat
      BY PolicyAssumption DEF Ledger, Times
    <3> QED
      BY <3>1, <3>2, <3>3 DEF StateSeen
  <2>2. ~(StateSeen(u) > t)
    BY <1>3 DEF EpochBlocker, Blocked, Clear
  <2>3. EpochBlocker(u, now).at = StateSeen(u)
    BY <1>3 DEF EpochBlocker, Blocked
  <2> QED
    BY <1>1, <1>3, <2>1, <2>2, <2>3
<1>4. CASE /\ ~(u \in epochs.loads /\ trace[u].state # {} /\ StateSeen(u) > now)
           /\ u \in DOMAIN epochs.close /\ (CloseTick(u) = Never \/ CloseTick(u) > now)
  <2>1. ~(CloseTick(u) = Never \/ CloseTick(u) > t)
    BY <1>4 DEF EpochBlocker, Blocked, Clear
  <2>2. CloseTick(u) \in Int
    <3>1. epochs.close[u].uop \in Uop /\ epochs.close[u].offset \in Int
      BY <1>4 DEF Closings
    <3> QED
      BY <3>1 DEF CloseTick, Ledger, Times, Finish, Never
  <2>3. EpochBlocker(u, now).at = CloseTick(u)
    BY <1>4 DEF EpochBlocker, Blocked
  <2> QED
    BY <1>1, <1>4, <2>1, <2>2, <2>3
<1>5. CASE /\ ~(u \in epochs.loads /\ trace[u].state # {} /\ StateSeen(u) > now)
           /\ ~(u \in DOMAIN epochs.close /\ (CloseTick(u) = Never \/ CloseTick(u) > now))
  <2>1. u \in DOMAIN epochs.mixed /\ Cardinality(active) >= policy.mixedCapacity
    BY <1>5 DEF EpochBlocker
  <2>2. EpochBlocker(u, t).why # "none"
    BY <2>1 DEF EpochBlocker, Blocked
  <2> QED
    BY <2>2 DEF Clear, Blocked
<1> QED
  BY <1>3, <1>4, <1>5

\* A vector access that may issue later is kept back by the split alone.
LEMMA VectorMemoryWakes ==
    ASSUME Counters, Ledger, Clocks, NEW u \in Uop, trace[u].vmem, NEW t \in Nat, now < t,
           VectorMemoryBlocker(u, t) = Clear, VectorMemoryBlocker(u, now) # Clear
    PROVE  VectorMemoryBlocker(u, now).at \in (now + 1)..t
<1> DEFINE kind == trace[u].kind
<1>1. now \in Nat /\ kind \in AccessKind
  BY VectorMemoryType DEF Counters
<1>2. \A why, tick : Blocked(why, tick) = Clear => why = "none"
  BY DEF Blocked, Clear
<1>3. ~(policy.split.ticks # Never /\ SplitTick(kind) > t)
  BY <1>2 DEF VectorMemoryBlocker
<1>4. policy.split.ticks # Never /\ SplitTick(kind) > now
  <2>1. /\ ~(policy.capacity[kind] # Never /\ Cardinality(OfKind(inflight, kind)) >= policy.capacity[kind])
        /\ ~(policy.order # "any" /\ OlderReady(u) # {})
    BY <1>2, <1>3 DEF VectorMemoryBlocker
  <2> QED
    BY <2>1 DEF VectorMemoryBlocker
<1>5. SplitTick(kind) \in Nat
  <2> DEFINE S == {splitFree[kind][l] : l \in DOMAIN splitFree[kind]}
  <2>1. S \subseteq Nat
    BY <1>1 DEF Clocks
  <2>2. 1 \in DOMAIN splitFree[kind]
    <3>1. policy.split.lanes[kind] \in Nat \ {0}
      BY <1>1, PolicyAssumption DEF Ledger, Times
    <3>2. DOMAIN splitFree[kind] = 1..policy.split.lanes[kind]
      BY <1>1 DEF Clocks
    <3> QED
      BY <3>1, <3>2
  <2>3. S # {}
    BY <2>2
  <2>4. Min(S) \in S
    <3> HIDE DEF S
    <3> QED
      BY <2>1, <2>3, MinIsLeast
  <2> QED
    BY <2>1, <2>4 DEF SplitTick
<1>6. VectorMemoryBlocker(u, now).at = SplitTick(kind)
  BY <1>4 DEF VectorMemoryBlocker, Blocked
<1> QED
  BY <1>1, <1>3, <1>4, <1>5, <1>6

\* Of finitely many timelines one is the last to be free.
LEMMA LastIsThere ==
    ASSUME NEW S, IsFiniteSet(S), S # {}, NEW free, \A i \in S : free[i] \in Nat
    PROVE  \E i \in S : \A j \in S : free[j] <= free[i]
<1> DEFINE Later(i) == {j \in S : free[j] > free[i]}
           Counts == {Cardinality(Later(i)) : i \in S}
<1>1. \A i \in S : IsFiniteSet(Later(i)) /\ Cardinality(Later(i)) \in Nat
  <2> SUFFICES ASSUME NEW i \in S PROVE IsFiniteSet(Later(i)) /\ Cardinality(Later(i)) \in Nat
    OBVIOUS
  <2>1. Later(i) \subseteq S
    OBVIOUS
  <2> HIDE DEF Later
  <2> QED
    BY <2>1, FS_Subset, FS_CardinalityType
<1>2. Counts \subseteq Nat /\ Counts # {}
  <2> HIDE DEF Later
  <2> QED
    BY <1>1
<1>3. PICK least \in Counts : \A count \in Counts : least <= count
  <2> HIDE DEF Counts
  <2> QED
    BY <1>2, LeastNumber
<1>4. PICK i \in S : least = Cardinality(Later(i))
  OBVIOUS
<1>5. ASSUME NEW j \in S, free[j] > free[i] PROVE FALSE
  <2>1. Later(j) \subseteq Later(i)
    BY <1>5
  <2>2. j \in Later(i) /\ j \notin Later(j)
    BY <1>5
  <2>3. Cardinality(Later(j)) \in Counts
    OBVIOUS
  <2> HIDE DEF Later, Counts
  <2>4. Cardinality(Later(j)) < Cardinality(Later(i))
    BY <1>1, <2>1, <2>2, FS_Subset, FS_CardinalityType
  <2> QED
    BY <1>1, <1>3, <1>4, <2>3, <2>4
<1> QED
  BY <1>5

\* A domain has as many tokens as a uop demands of it, so the last of them comes at
\* some tick.
LEMMA TokenTickIsNat ==
    ASSUME Counters, Clocks, NEW u \in Uop, NEW d \in DomainsOf(u)
    PROVE  TokenTick(u, d) \in Nat
<1> DEFINE n == Tokens[d]
           ticks == {tokenFree[d][i] : i \in 1..n}
           free(tick) == Cardinality({i \in 1..n : tokenFree[d][i] <= tick})
           enough == {tick \in ticks : free(tick) >= trace[u].demand[d]}
<1>1. d \in DOMAIN Tokens /\ n \in Nat /\ trace[u].demand[d] \in 1..n
  BY TopologyAssumption, TraceAssumption DEF DomainsOf, Counters, ValidUop, Uop
<1>2. \A i \in 1..n : tokenFree[d][i] \in Nat
  BY <1>1 DEF Clocks
<1>3. PICK i \in 1..n : \A j \in 1..n : tokenFree[d][j] <= tokenFree[d][i]
  <2>1. IsFiniteSet(1..n) /\ 1..n # {}
    BY <1>1, FS_Interval
  <2>2. PICK f : f = tokenFree[d]
    OBVIOUS
  <2> HIDE DEF n
  <2> QED
    BY <1>2, <2>1, <2>2, LastIsThere
<1>4. free(tokenFree[d][i]) = n
  <2>1. {j \in 1..n : tokenFree[d][j] <= tokenFree[d][i]} = 1..n
    BY <1>3
  <2>2. \A m \in Nat : Cardinality(1..m) = m
    BY FS_Interval
  <2> QED
    BY <1>1, <2>1, <2>2
<1>5. tokenFree[d][i] \in enough
  <2>1. tokenFree[d][i] \in ticks
    OBVIOUS
  <2>2. free(tokenFree[d][i]) >= trace[u].demand[d]
    <3> HIDE DEF free
    <3> QED
      BY <1>1, <1>4
  <2> HIDE DEF ticks, free
  <2> QED
    BY <2>1, <2>2
<1>6. enough \subseteq Nat
  BY <1>2
<1>7. Min(enough) \in Nat
  <2> HIDE DEF enough
  <2> QED
    BY <1>5, <1>6, MinIsLeast
<1> QED
  BY <1>7 DEF TokenTick

LEMMA DomainTickIsNat ==
    ASSUME Counters, Clocks, NEW u \in Uop, DomainsOf(u) # {}
    PROVE  DomainTick(u) \in Nat
<1> DEFINE ticks == {TokenTick(u, d) : d \in DomainsOf(u)}
<1>1. IsFiniteSet(DomainsOf(u))
  <2>1. DomainsOf(u) \subseteq DOMAIN Tokens
    BY DEF DomainsOf
  <2> QED
    BY <2>1, TopologyAssumption, FS_Subset
<1>2. PICK last \in DomainsOf(u) : \A d \in DomainsOf(u) : TokenTick(u, d) <= TokenTick(u, last)
  <2>1. PICK f : f = [d \in DomainsOf(u) |-> TokenTick(u, d)]
    OBVIOUS
  <2>2. \A d \in DomainsOf(u) : f[d] = TokenTick(u, d) /\ f[d] \in Nat
    BY <2>1, TokenTickIsNat
  <2> QED
    BY <1>1, <2>2, LastIsThere
<1>3. /\ ticks \subseteq 0..TokenTick(u, last) /\ TokenTick(u, last) \in ticks
      /\ TokenTick(u, last) \in Nat
  BY <1>2, TokenTickIsNat
<1>4. Max(ticks) \in ticks
  <2> HIDE DEF ticks
  <2> QED
    BY <1>3, MaxIsGreatest
<1> QED
  BY <1>3, <1>4 DEF DomainTick

LEMMA LaneTickIsLeast ==
    ASSUME Counters, Ledger, NEW r \in Resource
    PROVE  /\ LaneTick(r) \in Nat
           /\ \E l \in 1..Lanes[r] : LaneTick(r) = laneFree[r][l]
           /\ \A l \in 1..Lanes[r] : LaneTick(r) <= laneFree[r][l]
<1> DEFINE ticks == {laneFree[r][l] : l \in 1..Lanes[r]}
<1>1. ticks \subseteq Nat
  BY DEF Ledger, Reservations
<1>2. 1 \in 1..Lanes[r]
  BY TopologyAssumption
<1>3. ticks # {}
  BY <1>2
<1>4. Min(ticks) \in ticks /\ \A y \in ticks : Min(ticks) <= y
  <2> HIDE DEF ticks
  <2> QED
    BY <1>1, <1>3, MinIsLeast
<1> QED
  BY <1>1, <1>4 DEF LaneTick

\* The ticks of the gates before the ports are numbers.
LEMMA GateTicks ==
    ASSUME Counters, Ledger, Clocks, NEW u \in Uop
    PROVE  /\ trace[u].after # NoUop /\ Issued(trace[u].after) =>
                 issueTick[trace[u].after] + trace[u].gap \in Nat
           /\ lastIssue[trace[u].class] # Never => SpacedTick(u) \in Nat
           /\ ResourceTick(u) \in Nat
           /\ trace[u].units # {} => UnitTick(u) \in Nat
<1>1. ValidUop(trace, u)
  BY TraceAssumption DEF Counters, Uop
<1>2. ASSUME trace[u].after # NoUop, Issued(trace[u].after)
      PROVE  issueTick[trace[u].after] + trace[u].gap \in Nat
  <2>1. trace[u].after \in Uop
    <3>1. trace[u].after \in 1..(u - 1) /\ u \in 1..Len(trace) /\ Len(trace) \in Nat
      BY <1>1, <1>2, TraceIsValid, LengthAssumption DEF ValidUop, Counters, NoUop
    <3> QED
      BY <3>1, TraceIsValid DEF Counters
  <2>2. issueTick[trace[u].after] \in Nat
    BY <1>2, <2>1 DEF Ledger, Times, Counters, Issued, Never
  <2> QED
    BY <1>1, <2>2 DEF ValidUop
<1>3. lastIssue[trace[u].class] # Never => SpacedTick(u) \in Nat
  BY <1>1 DEF Clocks, SpacedTick, ValidUop
<1>4. ResourceTick(u) \in Nat
  <2> DEFINE ticks == {LaneTick(r) : r \in trace[u].resources}
  <2>1. ticks \subseteq Nat
    BY UopFields, LaneTickIsLeast
  <2>2. ticks # {}
    BY <1>1 DEF ValidUop
  <2>3. Min(ticks) \in ticks
    <3> HIDE DEF ticks
    <3> QED
      BY <2>1, <2>2, MinIsLeast
  <2> QED
    BY <2>1, <2>3 DEF ResourceTick
<1>5. ASSUME trace[u].units # {} PROVE UnitTick(u) \in Nat
  <2> DEFINE ticks == {unitFree[x] : x \in trace[u].units}
  <2>1. ticks \subseteq Nat
    BY UopFields DEF Ledger, Reservations
  <2>2. ticks # {}
    BY <1>5
  <2>3. Min(ticks) \in ticks
    <3> HIDE DEF ticks
    <3> QED
      BY <2>1, <2>2, MinIsLeast
  <2> QED
    BY <2>1, <2>3 DEF UnitTick
<1> QED
  BY <1>2, <1>3, <1>4, <1>5

\* A uop whose lanes and units are taken now and free later names a tick between.
LEMMA UnitsWake ==
    ASSUME Counters, Ledger, NEW u \in Uop, NEW t \in Nat, now < t,
           FreePaths(u, now) = {}, FreePaths(u, t) # {}
    PROVE  UnitReadyTick(u, now) \in (now + 1)..t
<1> DEFINE pair(r, x) == IF x = NoUnit THEN LaneTick(r) ELSE Max({LaneTick(r), unitFree[x]})
           served(r) == {y \in UnitChoices(u) : y # NoUnit => r \in Serves[y]}
           ticks == UNION {{pair(r, x) : x \in served(r)} : r \in trace[u].resources}
           later == {k \in ticks : k > now}
<1>1. now \in Nat
  BY DEF Counters
<1>2. PICK c \in FreePaths(u, t) : TRUE
  OBVIOUS
<1>3. PICK r \in trace[u].resources : \E l \in 1..Lanes[r], x \in UnitChoices(u) :
         c = <<laneFree[r][l], r, l, x>>
  BY <1>2 DEF FreePaths
<1>4. PICK l \in 1..Lanes[r], x \in UnitChoices(u) : c = <<laneFree[r][l], r, l, x>>
  BY <1>3
<1>5. laneFree[r][l] <= t /\ (x # NoUnit => r \in Serves[x] /\ unitFree[x] <= t)
  BY <1>2, <1>4 DEF FreePaths
<1>6. \A s \in trace[u].resources, y \in UnitChoices(u) :
         s \in Resource /\ LaneTick(s) \in Nat /\ (y # NoUnit => unitFree[y] \in Nat)
  BY UopFields, LaneTickIsLeast DEF UnitChoices, Ledger, Reservations
<1>7. \A a, b \in Nat : Max({a, b}) \in Nat /\ Max({a, b}) \in {a, b}
                         /\ Max({a, b}) >= a /\ Max({a, b}) >= b
  <2> SUFFICES ASSUME NEW a \in Nat, NEW b \in Nat
               PROVE  Max({a, b}) \in {a, b} /\ Max({a, b}) >= a /\ Max({a, b}) >= b
    OBVIOUS
  <2>1. PICK S : S = {a, b}
    OBVIOUS
  <2>2. S \subseteq 0..(a + b) /\ S # {} /\ a + b \in Nat
    BY <2>1
  <2>3. Max(S) \in S /\ \A y \in S : Max(S) >= y
    BY <2>2, MaxIsGreatest
  <2> QED
    BY <2>1, <2>3
<1>8. \A s \in trace[u].resources, y \in UnitChoices(u) : pair(s, y) \in Nat
  BY <1>6, <1>7
<1>9. pair(r, x) <= t
  <2>1. LaneTick(r) <= t
    BY <1>5, <1>6, LaneTickIsLeast DEF Ledger, Reservations
  <2>2. CASE x = NoUnit
    BY <2>1, <2>2
  <2>3. CASE x # NoUnit
    <3>1. Max({LaneTick(r), unitFree[x]}) \in {LaneTick(r), unitFree[x]}
      BY <1>6, <1>7, <2>3
    <3> QED
      BY <1>5, <2>1, <2>3, <3>1
  <2> QED
    BY <2>2, <2>3
<1>10. pair(r, x) > now
  <2> SUFFICES ASSUME pair(r, x) <= now PROVE FALSE
    BY <1>1, <1>8
  <2>1. LaneTick(r) <= now /\ (x # NoUnit => unitFree[x] <= now)
    <3>1. CASE x = NoUnit
      BY <3>1
    <3>2. CASE x # NoUnit
      <4>1. /\ Max({LaneTick(r), unitFree[x]}) >= LaneTick(r)
            /\ Max({LaneTick(r), unitFree[x]}) >= unitFree[x]
            /\ Max({LaneTick(r), unitFree[x]}) \in Nat /\ LaneTick(r) \in Nat /\ unitFree[x] \in Nat
        BY <1>6, <1>7, <3>2
      <4>2. Max({LaneTick(r), unitFree[x]}) <= now
        BY <3>2
      <4> QED
        BY <1>1, <4>1, <4>2
    <3> QED
      BY <3>1, <3>2
  <2>2. PICK k \in 1..Lanes[r] : LaneTick(r) = laneFree[r][k]
    BY <1>6, LaneTickIsLeast
  <2>3. PICK path : path = <<laneFree[r][k], r, k, x>>
    OBVIOUS
  <2>4. path \in {<<laneFree[r][j], r, j, y>> : j \in 1..Lanes[r], y \in UnitChoices(u)}
    BY <2>3
  <2>5. /\ path[1] <= now
        /\ path[4] # NoUnit => path[2] \in Serves[path[4]] /\ unitFree[path[4]] <= now
    BY <1>5, <2>1, <2>2, <2>3
  <2>6. path \in FreePaths(u, now)
    BY <2>4, <2>5 DEF FreePaths
  <2> QED
    BY <2>6
<1>11. pair(r, x) \in later
  <2> HIDE DEF pair
  <2>1. x \in served(r)
    BY <1>5
  <2>2. pair(r, x) \in {pair(r, y) : y \in served(r)}
    BY <2>1
  <2> HIDE DEF served
  <2>3. pair(r, x) \in ticks
    BY <2>2
  <2> QED
    BY <1>10, <2>3
<1>12. later \subseteq Nat
  <2> HIDE DEF pair
  <2> QED
    BY <1>8
<1>13. Min(later) \in later /\ Min(later) <= pair(r, x)
  <2> HIDE DEF later, pair
  <2> QED
    BY <1>11, <1>12, MinIsLeast
<1>14. Min(later) \in (now + 1)..t
  <2>1. Min(later) \in Nat /\ Min(later) > now
    <3> HIDE DEF ticks
    <3> QED
      BY <1>12, <1>13
  <2>2. pair(r, x) \in Nat
    BY <1>8
  <2> HIDE DEF later, pair
  <2> QED
    BY <1>1, <1>9, <1>13, <2>1, <2>2
<1>15. UnitReadyTick(u, now) = IF later = {} THEN now + 1 ELSE Min(later)
  BY DEF UnitReadyTick
<1> HIDE DEF later
<1> QED
  BY <1>11, <1>14, <1>15

\* Before the next boundary the cycle is the same.
LEMMA SameCycle ==
    ASSUME NEW a \in Nat, NEW t \in Nat, a < t, t < (Cycle(a) + 1) * TicksPerCycle
    PROVE  Cycle(t) = Cycle(a)
<1> DEFINE q == Cycle(a)
           k == Cycle(t)
<1>1. TicksPerCycle \in Nat \ {0}
  BY WidthAssumption
<1>2. /\ q \in Nat /\ k \in Nat /\ a < (q + 1) * TicksPerCycle /\ t < (k + 1) * TicksPerCycle
  BY CycleIsNat
<1>3. q * TicksPerCycle <= a /\ k * TicksPerCycle <= t
  BY <1>1 DEF Cycle
<1>4. t < (q + 1) * TicksPerCycle
  OBVIOUS
<1> HIDE DEF q, k
<1>5. ASSUME k <= q - 1 PROVE FALSE
  <2>1. (k + 1) * TicksPerCycle <= q * TicksPerCycle
    BY <1>1, <1>2, <1>5
  <2> QED
    BY <1>1, <1>2, <1>3, <2>1
<1>6. ASSUME k >= q + 1 PROVE FALSE
  <2>1. (q + 1) * TicksPerCycle <= k * TicksPerCycle
    BY <1>1, <1>2, <1>6
  <2> QED
    BY <1>1, <1>2, <1>3, <1>4, <2>1
<1>7. k = q
  BY <1>2, <1>5, <1>6
<1> QED
  BY <1>7 DEF q, k

\* What keeps a uop back now and does not at a later tick names a tick between the
\* two, unless it is a port.
LEMMA BlockedUntilWake ==
    ASSUME Counters, Ledger, Clocks, Closings, NEW u \in Uop, NEW t \in Nat, now < t,
           ~Issuable(u, now), Issuable(u, t)
    PROVE  Blocker(u, now).why \in PortReasons \/ Blocker(u, now).at \in (now + 1)..t
<1>1. now \in Nat
  BY DEF Counters
<1>2. /\ Incomplete(u) = {} /\ EpochBlocker(u, t) = Clear
      /\ trace[u].after # NoUop =>
            Issued(trace[u].after) /\ ~(issueTick[trace[u].after] + trace[u].gap > t)
      /\ ~OverlapBlocked(u)
      /\ lastIssue[trace[u].class] # Never => ~(SpacedTick(u) > t)
      /\ ~(ResourceTick(u) > t)
      /\ trace[u].units # {} => ~(UnitTick(u) > t)
      /\ trace[u].vmem => VectorMemoryBlocker(u, t) = Clear
      /\ ~MemoryRefuses(u, t)
      /\ DomainsOf(u) # {} => ~(DomainTick(u) > t)
      /\ PortBlocker(u, t).why = "none"
  BY GatesOpen
<1>3. \A w, k : Blocked(w, k).why = w /\ Blocked(w, k).at = k
  BY DEF Blocked
<1>4. CASE EpochBlocker(u, now) # Clear
  <2>1. Blocker(u, now) = EpochBlocker(u, now)
    BY <1>2, <1>4 DEF Blocker
  <2> QED
    BY <1>2, <1>4, <2>1, EpochWakes
<1>5. CASE /\ EpochBlocker(u, now) = Clear
           /\ trace[u].after # NoUop /\ issueTick[trace[u].after] + trace[u].gap > now
  <2>1. Blocker(u, now) = Blocked("part_gap", issueTick[trace[u].after] + trace[u].gap)
    BY <1>2, <1>5 DEF Blocker
  <2>2. issueTick[trace[u].after] + trace[u].gap \in Nat
    BY <1>2, <1>5, GateTicks
  <2> QED
    BY <1>1, <1>2, <1>3, <1>5, <2>1, <2>2
<1>6. CASE /\ EpochBlocker(u, now) = Clear
           /\ ~(trace[u].after # NoUop /\ issueTick[trace[u].after] + trace[u].gap > now)
  <2>1. CASE lastIssue[trace[u].class] # Never /\ SpacedTick(u) > now
    <3>1. Blocker(u, now) = Blocked("issue_interval", SpacedTick(u))
      BY <1>2, <1>6, <2>1 DEF Blocker
    <3> QED
      BY <1>1, <1>2, <1>3, <2>1, <3>1, GateTicks
  <2>2. CASE /\ ~(lastIssue[trace[u].class] # Never /\ SpacedTick(u) > now)
             /\ ResourceTick(u) > now
    <3>1. Blocker(u, now) = Blocked("resource_busy", ResourceTick(u))
      BY <1>2, <1>6, <2>2 DEF Blocker
    <3> QED
      BY <1>1, <1>2, <1>3, <2>2, <3>1, GateTicks
  <2>3. CASE /\ ~(lastIssue[trace[u].class] # Never /\ SpacedTick(u) > now)
             /\ ~(ResourceTick(u) > now)
             /\ trace[u].units # {} /\ UnitTick(u) > now
    <3>1. Blocker(u, now) = Blocked("execution_unit_busy", UnitTick(u))
      BY <1>2, <1>6, <2>3 DEF Blocker
    <3> QED
      BY <1>1, <1>2, <1>3, <2>3, <3>1, GateTicks
  <2>4. CASE /\ ~(lastIssue[trace[u].class] # Never /\ SpacedTick(u) > now)
             /\ ~(ResourceTick(u) > now)
             /\ ~(trace[u].units # {} /\ UnitTick(u) > now)
    <3> DEFINE vector == VectorMemoryBlocker(u, now)
    <3>1. CASE trace[u].vmem /\ vector # Clear
      <4>1. Blocker(u, now) = vector
        BY <1>2, <1>6, <2>4, <3>1 DEF Blocker
      <4> QED
        BY <1>2, <3>1, <4>1, VectorMemoryWakes
    <3>4. CASE ~(trace[u].vmem /\ vector # Clear) /\ MemoryRefuses(u, now)
      <4>1. Blocker(u, now) = Blocked("memory", memoryFree[trace[u].kind])
        BY <1>2, <1>6, <2>4, <3>4 DEF Blocker
      <4>2. memoryFree[trace[u].kind] \in Nat /\ memoryFree[trace[u].kind] > now
        BY <3>4 DEF MemoryRefuses, Clocks
      <4>3. ~(memoryFree[trace[u].kind] > t)
        BY <1>2, <3>4 DEF MemoryRefuses
      <4> QED
        BY <1>1, <1>3, <4>1, <4>2, <4>3
    <3>2. CASE /\ ~(trace[u].vmem /\ vector # Clear) /\ ~MemoryRefuses(u, now)
               /\ DomainsOf(u) # {} /\ DomainTick(u) > now
      <4>1. Blocker(u, now) = Blocked("issue_domain_busy", DomainTick(u))
        BY <1>2, <1>6, <2>4, <3>2 DEF Blocker
      <4> QED
        BY <1>1, <1>2, <1>3, <3>2, <4>1, DomainTickIsNat
    <3>3. CASE /\ ~(trace[u].vmem /\ vector # Clear) /\ ~MemoryRefuses(u, now)
               /\ ~(DomainsOf(u) # {} /\ DomainTick(u) > now)
      <4>1. Blocker(u, now) = PortBlocker(u, now)
        BY <1>2, <1>6, <2>4, <3>3 DEF Blocker
      <4>2. CASE FreePaths(u, now) = {}
        <5>1. FreePaths(u, t) # {}
          BY <1>2, <1>3 DEF PortBlocker
        <5>2. Blocker(u, now).at = UnitReadyTick(u, now)
          BY <1>3, <4>1, <4>2 DEF PortBlocker
        <5> QED
          BY <4>2, <5>1, <5>2, UnitsWake
      <4>3. CASE FreePaths(u, now) # {}
        <5>1. PortBlocker(u, now).why \in PortReasons \cup {"none"}
          BY <1>3, <4>3 DEF PortBlocker, PortReasons, Clear
        <5> QED
          BY <4>1, <5>1 DEF Issuable
      <4> QED
        BY <4>2, <4>3
    <3> QED
      BY <3>1, <3>2, <3>3, <3>4
  <2> QED
    BY <2>1, <2>2, <2>3, <2>4
<1> QED
  BY <1>4, <1>5, <1>6

\* A step that lets time pass is the jump to the least of the event ticks.
LEMMA StepWakes ==
    ASSUME Counters, Flow, Ledger, Closings, Clocks, Exhausted, [Next]_vars,
           NEW t \in (now + 1)..(now' - 1)
    PROVE  /\ Cycle(t) = Cycle(now)
           /\ \A u \in Candidates : Issuable(u, t) => Blocker(u, now).why \in PortReasons
<1>1. now \in Nat /\ TicksPerCycle \in Nat \ {0}
  BY WidthAssumption DEF Counters
<1>2. Advance
  <2>1. ~(now' = now)
    BY <1>1
  <2> QED
    BY <2>1 DEF Next, Complete, Issue, Dispatch, DispatchEnds, ReleaseFlows, List, Round,
           Retire, RetireEnds, Stopped, vars
<1>3. PICK tick \in EventTicks :
         /\ \A event \in EventTicks : tick <= event
         /\ IF tick \in (now + 1)..Horizon THEN now' = tick /\ pc' = "begin"
            ELSE now' = now /\ pc' = "diverged"
  BY <1>2 DEF Advance
<1>4. tick = now' /\ tick \in Nat /\ t \in Nat /\ now < t /\ t < tick
  BY <1>1, <1>3, WidthAssumption
<1>5. Cycle(t) = Cycle(now)
  <2>1. NextBoundary(now) \in Nat /\ now < NextBoundary(now)
    BY <1>1, CycleIsNat DEF NextBoundary
  <2>2. NextBoundary(now) \in EventTicks
    BY <2>1 DEF EventTicks
  <2>3. t < (Cycle(now) + 1) * TicksPerCycle
    BY <1>3, <1>4, <2>1, <2>2 DEF NextBoundary
  <2> QED
    BY <1>1, <1>4, <2>3, SameCycle
<1>6. ASSUME NEW u \in Candidates, Issuable(u, t)
      PROVE  Blocker(u, now).why \in PortReasons
  <2>1. u \in Uop /\ ~Issuable(u, now)
    BY <1>2 DEF Exhausted, Advance, Candidates, Waiting
  <2>2. CASE Blocker(u, now).at \in (now + 1)..t
    <3>1. Blocker(u, now).at \in WakeUps(u) /\ Blocker(u, now).at > now
      BY <1>1, <2>2 DEF WakeUps
    <3>2. Blocker(u, now).at \in EventTicks
      BY <3>1 DEF EventTicks
    <3>3. tick <= Blocker(u, now).at
      BY <1>3, <3>2
    <3> QED
      BY <1>1, <1>4, <2>2, <3>3
  <2> QED
    BY <1>4, <1>6, <2>1, <2>2, BlockedUntilWake
<1> QED
  BY <1>5, <1>6

\* Time jumps over no cycle, and within one over no tick at which a waiting uop could
\* have issued, except that a uop that finds its ports taken is looked at again in
\* the next cycle (_next_event_tick).
THEOREM NoMissedWakeUpHolds == Spec => NoMissedWakeUp
<1>1. Init => Closings /\ Clocks /\ Exhausted
  BY InitClosings, InitClocks DEF Init, Exhausted
<1>2. Counters /\ Flow /\ Ledger /\ Closings /\ Clocks /\ Exhausted /\ [Next]_vars
        => (Closings /\ Clocks /\ Exhausted)'
  BY StepClosings, StepClocks, StepExhausted
<1>3. Counters /\ Flow /\ Ledger /\ Closings /\ Clocks /\ Exhausted /\ [Next]_vars
        => [\A t \in (now + 1)..(now' - 1) :
              /\ Cycle(t) = Cycle(now)
              /\ \A u \in Candidates : Issuable(u, t) => Blocker(u, now).why \in PortReasons]_now
  BY StepWakes
<1> QED
  BY <1>1, <1>2, <1>3, LedgerHolds, PTL DEF Spec, NoMissedWakeUp

=============================================================================
