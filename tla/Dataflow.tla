------------------------------ MODULE Dataflow ------------------------------
(***************************************************************************)
(* What both simulator back ends promise, without time, queues or lanes:   *)
(* macro-ops enter in program order, a uop produces its result once its    *)
(* macro-op has entered and all its producers have produced theirs, and    *)
(* macro-ops leave in program order, each after all its uops.              *)
(***************************************************************************)
EXTENDS Naturals

CONSTANTS NumUops, NumMacros,
          Traces      \* bound traces; only parent and dependencies matter here

VARIABLES trace,      \* the trace being executed
          entered,    \* how many macro-ops have been dispatched
          done,       \* the uops that have completed
          left        \* how many macro-ops have retired

vars == <<trace, entered, done, left>>

Init == trace \in Traces /\ entered = 0 /\ done = {} /\ left = 0

Enter ==
    /\ entered < NumMacros
    /\ entered' = entered + 1
    /\ UNCHANGED <<trace, done, left>>

Produce(u) ==
    /\ u \notin done
    /\ trace.parent[u] <= entered
    /\ trace.dependencies[u] \subseteq done
    /\ done' = done \cup {u}
    /\ UNCHANGED <<trace, entered, left>>

Leave ==
    /\ left < entered
    /\ \A u \in 1..NumUops : trace.parent[u] = left + 1 => u \in done
    /\ left' = left + 1
    /\ UNCHANGED <<trace, entered, done>>

Next == Enter \/ (\E u \in 1..NumUops : Produce(u)) \/ Leave

Spec == Init /\ [][Next]_vars

=============================================================================
