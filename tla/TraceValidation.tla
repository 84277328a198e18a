--------------------------- MODULE TraceValidation ---------------------------
(***************************************************************************)
(* validate_bound_trace (simulator/trace.py), which both engines call with *)
(* the trace they are about to run: the macro-ops one by one, the uops one *)
(* by one, building the indegrees and the consumers of each uop, and then  *)
(* Kahn's algorithm to exclude a cycle of dependencies.  issue_after_uop,  *)
(* for which a uop waits as well, has to exist and is no edge of that      *)
(* graph.                                                                  *)
(*                                                                         *)
(* The checks that look at one macro-op or uop alone (counts, demands,     *)
(* choices, parts) are the one bit wellFormed.  The queue of ready uops is *)
(* a set from which any is taken: the verdict does not depend on it.       *)
(***************************************************************************)
EXTENDS Integers, Sequences, FiniteSets, SequencesExt

CONSTANTS
    Id,     \* uop ids
    Traces  \* [macros: sequence of [id, uops: sequence of ids, wellFormed],
            \*  uops: sequence of [id, parent, dependencies, after, wellFormed]]

NoUop == 0      \* issue_after_uop is None

ASSUME IdAssumption == IsFiniteSet(Id) /\ NoUop \notin Id
ASSUME TracesAssumption == \A t \in Traces :
    /\ t.macros \in Seq({t.macros[k] : k \in DOMAIN t.macros})
    /\ t.uops \in Seq({t.uops[k] : k \in DOMAIN t.uops})
    /\ \A k \in DOMAIN t.macros : t.macros[k].uops \in Seq(Id)
    /\ \A k \in DOMAIN t.uops : t.uops[k].id \in Id /\ t.uops[k].dependencies \subseteq Id

VARIABLES
    boundTrace,  \* the argument, never changed
    tracePc,     \* where validate_bound_trace is
    traceError,  \* which of its errors it raised, or "none"
    traceAt,     \* index of the loops over the macro-ops and the uops
    referenced,  \* the uops the macro-ops name
    indegree,    \* of each uop, the producers that are not visited
    consumers,   \* of each uop
    ready,       \* the deque
    visited,     \* the counter
    rank         \* history: when a uop was visited, 0 if it was not

graph == <<indegree, consumers>>
kahn == <<ready, visited, rank>>
traceVars == <<boundTrace, tracePc, traceError, traceAt, referenced, graph, kahn>>

-----------------------------------------------------------------------------
MacroIds == {boundTrace.macros[k].id : k \in DOMAIN boundTrace.macros}
UopIds == {boundTrace.uops[k].id : k \in DOMAIN boundTrace.uops}
Unique(s) == \A i, j \in DOMAIN s : s[i].id = s[j].id => i = j

Raise(why) == tracePc' = "raised" /\ traceError' = why
TraceGoOn(to) == tracePc' = to /\ traceError' = traceError

CheckIds ==
    /\ tracePc = "ids"
    /\ IF Unique(boundTrace.macros) /\ Unique(boundTrace.uops) THEN TraceGoOn("macros") ELSE Raise("duplicate")
    /\ UNCHANGED <<boundTrace, traceAt, referenced, graph, kahn>>

\* One macro-op: it has uops, and one after another they exist and name it as
\* their parent.  Nothing says that it names each of them once.
ParentIs(x, id) == \A k \in DOMAIN boundTrace.uops : boundTrace.uops[k].id = x => boundTrace.uops[k].parent = id
MutantMacroError(macro) ==
    IF ~macro.wellFormed THEN "macro"
    ELSE IF macro.uops = <<>> THEN "empty"
    ELSE IF ~(ToSet(macro.uops) \subseteq UopIds) THEN "unknown_uop" ELSE "none"
MacroError(macro) ==
    IF ~macro.wellFormed THEN "macro"
    ELSE IF macro.uops = <<>> THEN "empty"
    ELSE IF \E k \in DOMAIN macro.uops :
              /\ macro.uops[k] \notin UopIds
              /\ \A j \in 1..(k - 1) : ParentIs(macro.uops[j], macro.id)
         THEN "unknown_uop"
    ELSE IF \E k \in DOMAIN macro.uops : ~ParentIs(macro.uops[k], macro.id) THEN "parent" ELSE "none"
CheckMacro ==
    /\ tracePc = "macros" /\ traceAt <= Len(boundTrace.macros)
    /\ LET macro == boundTrace.macros[traceAt] IN
       IF MacroError(macro) # "none"
       THEN Raise(MacroError(macro)) /\ UNCHANGED <<traceAt, referenced>>
       ELSE /\ TraceGoOn(tracePc) /\ traceAt' = traceAt + 1
            /\ referenced' = referenced \cup ToSet(macro.uops)
    /\ UNCHANGED <<boundTrace, graph, kahn>>
MacrosReturn ==
    /\ tracePc = "macros" /\ traceAt > Len(boundTrace.macros)
    /\ IF referenced = UopIds THEN TraceGoOn("uops") ELSE Raise("orphan")
    /\ traceAt' = 1
    /\ UNCHANGED <<boundTrace, referenced, graph, kahn>>

\* One uop: its references exist, and it is counted with its producers.
UopError(uop) ==
    IF uop.parent \notin MacroIds \/ ~uop.wellFormed THEN "uop"
    ELSE IF ~(uop.dependencies \subseteq UopIds) THEN "unknown_dependency"
    ELSE IF uop.after # NoUop /\ uop.after \notin UopIds THEN "unknown_predecessor" ELSE "none"
MutantConsumersOf(uop) ==
    [d \in UopIds |-> IF d \in uop.dependencies THEN {uop.id} ELSE consumers[d]]
ConsumersOf(uop) ==
    [d \in UopIds |-> IF d \in uop.dependencies THEN consumers[d] \cup {uop.id} ELSE consumers[d]]
MutantIndegreeOf(uop) == [indegree EXCEPT ![uop.id] = IF uop.dependencies = {} THEN 0 ELSE 1]
IndegreeOf(uop) == [indegree EXCEPT ![uop.id] = @ + Cardinality(uop.dependencies)]
CheckUop ==
    /\ tracePc = "uops" /\ traceAt <= Len(boundTrace.uops)
    /\ LET uop == boundTrace.uops[traceAt] IN
       IF UopError(uop) # "none"
       THEN Raise(UopError(uop)) /\ UNCHANGED <<traceAt, graph>>
       ELSE /\ TraceGoOn(tracePc) /\ traceAt' = traceAt + 1
            /\ indegree' = IndegreeOf(uop) /\ consumers' = ConsumersOf(uop)
    /\ UNCHANGED <<boundTrace, referenced, kahn>>
UopsReturn ==
    /\ tracePc = "uops" /\ traceAt > Len(boundTrace.uops)
    /\ TraceGoOn("kahn")
    /\ ready' = {x \in UopIds : indegree[x] = 0}
    /\ UNCHANGED <<boundTrace, traceAt, referenced, graph, visited, rank>>

\* Kahn's algorithm: a visited uop no longer holds back its consumers.
Pop(x) ==
    /\ tracePc = "kahn" /\ x \in ready
    /\ visited' = visited + 1
    /\ rank' = [rank EXCEPT ![x] = visited + 1]
    /\ indegree' = [y \in UopIds |-> IF y \in consumers[x] THEN indegree[y] - 1 ELSE indegree[y]]
    /\ ready' = (ready \ {x}) \cup {y \in consumers[x] : indegree'[y] = 0}
    /\ UNCHANGED <<boundTrace, tracePc, traceError, traceAt, referenced, consumers>>
KahnReturns ==
    /\ tracePc = "kahn" /\ ready = {}
    /\ IF visited = Cardinality(UopIds) THEN TraceGoOn("accepted") ELSE Raise("cycle")
    /\ UNCHANGED <<boundTrace, traceAt, referenced, graph, kahn>>

TraceStopped == tracePc \in {"raised", "accepted"} /\ UNCHANGED traceVars

TraceInit ==
    /\ boundTrace \in Traces
    /\ tracePc = "ids" /\ traceError = "none" /\ traceAt = 1
    /\ referenced = {} /\ ready = {} /\ visited = 0
    /\ indegree = [x \in UopIds |-> 0]
    /\ consumers = [x \in UopIds |-> {}]
    /\ rank = [x \in UopIds |-> 0]
TraceNext ==
    \/ CheckIds \/ CheckMacro \/ MacrosReturn \/ CheckUop \/ UopsReturn \/ KahnReturns
    \/ \E x \in Id : Pop(x)
    \/ TraceStopped
TraceSpec == TraceInit /\ [][TraceNext]_traceVars

-----------------------------------------------------------------------------
(* Properties. *)

\* Types, and that an error is named exactly when one was raised.
TraceTypeOK ==
    /\ boundTrace \in Traces
    /\ tracePc \in {"ids", "macros", "uops", "kahn", "raised", "accepted"}
    /\ tracePc = "raised" <=> traceError # "none"
    /\ indegree \in [UopIds -> Nat] /\ consumers \in [UopIds -> SUBSET UopIds]
    /\ ready \subseteq UopIds /\ visited \in 0..Cardinality(UopIds)
    /\ rank \in [UopIds -> 0..visited]

\* What a uop waits for: its producers, by its id, and its issue predecessor.
DependsOn(x, d) == \E k \in DOMAIN boundTrace.uops : boundTrace.uops[k].id = x /\ d \in boundTrace.uops[k].dependencies
Follows(x, y) ==
    \E k \in DOMAIN boundTrace.uops : boundTrace.uops[k].id = x /\ boundTrace.uops[k].after = y /\ y # NoUop

\* The dependencies of an accepted trace have an order: every uop is visited,
\* after all its producers.
DependenciesOrdered ==
    tracePc = "accepted" =>
        \A x \in UopIds :
            /\ rank[x] # 0
            /\ \A d \in Id : DependsOn(x, d) => d \in UopIds /\ rank[d] # 0 /\ rank[d] < rank[x]

\* Whether an accepted trace can be executed to its end is another matter: an
\* engine also waits for issue_after_uop, of which only its existence is
\* checked.  What is excluded is every other deadlock: uops that wait for ever,
\* each for one of them, have a uop among them that waits for its issue
\* predecessor among them, possibly for itself.
Deadlocked(S) == S # {} /\ \A x \in S : \E d \in S : DependsOn(x, d) \/ Follows(x, d)
OnlyPredecessorsDeadlock ==
    tracePc = "accepted" =>
        \A S \in SUBSET UopIds : Deadlocked(S) => \E x, y \in S : Follows(x, y)

\* "dependency graph contains a cycle" is only raised for one that does: there
\* are uops each of which waits for another of them, so that no order exists.
CycleIsReal ==
    traceError = "cycle" =>
        LET stuck == {x \in UopIds : rank[x] = 0}
        IN  stuck # {} /\ \A x \in stuck : \E d \in stuck : DependsOn(x, d)

\* Every uop of an accepted trace belongs to a macro-op of the trace, to one
\* only, and that one names it, be it once or more.
AcceptedIsClosed ==
    /\ TraceTypeOK
    /\ tracePc = "accepted" =>
        \A x \in UopIds :
            \E m \in DOMAIN boundTrace.macros :
                /\ x \in ToSet(boundTrace.macros[m].uops) /\ ParentIs(x, boundTrace.macros[m].id)
                /\ \A n \in DOMAIN boundTrace.macros : x \in ToSet(boundTrace.macros[n].uops) => n = m

\* What the back ends may take for granted of a trace validate_bound_trace lets
\* through: its dependencies have an order, its uops are deadlocked by issue
\* predecessors only, and its two levels fit together.
AcceptedIsSound == DependenciesOrdered /\ OnlyPredecessorsDeadlock /\ AcceptedIsClosed

=============================================================================
