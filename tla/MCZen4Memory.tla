----------------------------- MODULE MCZen4Memory -----------------------------
(***************************************************************************)
(* Instances of Zen4Memory: five loads and stores over four lines; a level *)
(* of two lines and one of two sets, of which the even one is too small; a *)
(* cycle of three ticks.                                                   *)
(***************************************************************************)
EXTENDS Zen4Memory

MCLine == {0, 1, 2, 4}
MCSets == <<1, 2>>
MCWays == <<2, 2>>
MCLatency == <<2, 4, 5>>
MCBandwidth == <<[load |-> 2, store |-> 1], [load |-> 1, store |-> 3], [load |-> 1, store |-> 1]>>
MCLimit == <<2, 2, 1>>

Load(lines) == [lines |-> lines, direction |-> "load", bytes |-> Cardinality(lines)]
Store(lines) == [lines |-> lines, direction |-> "store", bytes |-> 1]
Access == {Load({0}), Load({1}), Load({0, 1}), Load({2}), Store({0}), Store({1}), Store({4})}

\* Accesses that race, and accesses in a chain, where the line a level evicts is
\* the one that was used last in the level above.
MCPrograms ==
    {<<[access |-> a, dependencies |-> {}], [access |-> b, dependencies |-> {}],
       [access |-> c, dependencies |-> d], [access |-> e, dependencies |-> {}],
       [access |-> f, dependencies |-> {}]>> :
       a \in {Load({0}), Store({0}), Load({0, 1})}, b \in Access,
       c \in {Load({0}), Load({1}), Load({2}), Store({1}), Load({0, 1})},
       e \in {Load({0}), Load({2}), Store({4})},
       f \in {Load({0}), Store({4})}, d \in {{}, {1}}}
    \cup
    {<<[access |-> a, dependencies |-> {}], [access |-> b, dependencies |-> {1}],
       [access |-> a, dependencies |-> {2}], [access |-> c, dependencies |-> {3}],
       [access |-> a, dependencies |-> {4}]>> :
       a \in {Load({0}), Store({0}), Load({0, 1})}, b \in {Load({1}), Load({2})},
       c \in {Load({4}), Store({4})}}
MCTraces == {Accesses(p) : p \in MCPrograms}

=============================================================================
