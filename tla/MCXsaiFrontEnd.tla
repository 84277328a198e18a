--------------------------- MODULE MCXsaiFrontEnd ---------------------------
(***************************************************************************)
(* Instances of XsaiFrontEnd: two partitions and two register files, and   *)
(* traces whose macro-ops exceed a cycle, a partition or a free list.      *)
(***************************************************************************)
EXTENDS XsaiFrontEnd

MCPartition == 1..2
MCEntries == <<2, 2>>
MCEnqueueWidth == <<2, 1>>
MCDomain == {1}
MCDomainCapacity == <<1>>
MCFile == 1..2
MCFreeEntries == <<4, 3>>

\* Macro-op kinds.  Wide: three uops that cost five dispatch units.  Narrow:
\* two uops for one unit, the second in the legacy vector scheduler.  Pair: two
\* uops that may go to either partition.  Heavy: one uop that costs more than a
\* cycle.
Wide == [units |-> 5, choices |-> <<{1}, {1, 2}, {}>>, vector |-> {3}, entries |-> 1,
         rename |-> <<2, 1>>, demand |-> <<1>>, retireOps |-> 2]
Narrow == [units |-> 1, choices |-> <<{1}, {}>>, vector |-> {1, 2}, entries |-> 2,
           rename |-> <<1, 0>>, demand |-> <<0>>, retireOps |-> 1]
Pair == [units |-> 2, choices |-> <<{1, 2}, {1, 2}>>, vector |-> {1, 2}, entries |-> 1,
         rename |-> <<1, 2>>, demand |-> <<1>>, retireOps |-> 1]
Heavy == [units |-> 4, choices |-> <<{2}>>, vector |-> {1}, entries |-> 1,
           rename |-> <<0, 1>>, demand |-> <<0>>, retireOps |-> 1]

TraceOf(kinds) ==
    [units |-> [m \in Macro |-> kinds[m].units],
     choices |-> [m \in Macro |-> kinds[m].choices],
     vector |-> [m \in Macro |-> kinds[m].vector],
     entries |-> [m \in Macro |-> kinds[m].entries],
     rename |-> [m \in Macro |-> kinds[m].rename],
     demand |-> [m \in Macro |-> kinds[m].demand],
     retireOps |-> [m \in Macro |-> kinds[m].retireOps],
     load |-> {m \in Macro : kinds[m] \in {Wide, Narrow}},
     store |-> {m \in Macro : kinds[m] \in {Pair, Wide}}]

\* Every sequence of three of them.
MCTraces == {TraceOf(kinds) : kinds \in [Macro -> {Wide, Narrow, Pair, Heavy}]}

=============================================================================
