-------------------------- MODULE MCTraceValidation --------------------------
(***************************************************************************)
(* Every dependency graph over three uops, with and without a reference    *)
(* that leads nowhere, every choice of issue predecessors beside acyclic   *)
(* dependencies, and the ways in which macro-ops can be wrong or repeat a  *)
(* uop.                                                                    *)
(***************************************************************************)
EXTENDS TraceValidation

MCId == 1..4
Known == 1..3
Macro(id, uops) == [id |-> id, uops |-> uops, wellFormed |-> TRUE]
Uop(id, parent, dependencies) ==
    [id |-> id, parent |-> parent, dependencies |-> dependencies, after |-> NoUop,
     wellFormed |-> TRUE]

TwoMacros == <<Macro("m1", <<1, 2>>), Macro("m2", <<3>>)>>
Graphs ==
    {[macros |-> TwoMacros,
      uops |-> <<Uop(1, "m1", a), Uop(2, "m1", b), Uop(3, "m2", c)>>] :
        a \in SUBSET Known, b \in SUBSET Known, c \in SUBSET MCId}
\* Among them predecessors that wait for each other, for their consumers or for
\* themselves.
Predecessors ==
    {[macros |-> TwoMacros,
      uops |-> <<[Uop(1, "m1", {}) EXCEPT !.after = i], [Uop(2, "m1", b) EXCEPT !.after = j],
                 [Uop(3, "m2", c) EXCEPT !.after = k]>>] :
        b \in SUBSET {1}, c \in SUBSET {1, 2}, i \in {NoUop} \cup Known, j \in {NoUop} \cup Known,
        k \in {NoUop} \cup MCId}
Chain == [macros |-> TwoMacros, uops |-> <<Uop(1, "m1", {}), Uop(2, "m1", {1}), Uop(3, "m2", {1, 2})>>]
Wrong ==
    {[Chain EXCEPT !.macros = ms] :
        ms \in {<<Macro("m1", <<1, 2>>), Macro("m1", <<3>>)>>, <<Macro("m1", <<1, 2>>)>>,
                <<Macro("m1", <<1, 2>>), Macro("m2", <<>>)>>, <<Macro("m1", <<1, 2>>), Macro("m2", <<3, 2>>)>>,
                <<Macro("m1", <<1, 2, 4>>), Macro("m2", <<3>>)>>,
                <<Macro("m1", <<1, 2, 1>>), Macro("m2", <<3, 3>>)>>,
                <<Macro("m1", <<1, 2, 3, 4>>), Macro("m2", <<3>>)>>,
                <<[Macro("m1", <<1, 2>>) EXCEPT !.wellFormed = FALSE], Macro("m2", <<3>>)>>}}
    \cup {[Chain EXCEPT !.uops[3].id = 2], [Chain EXCEPT !.uops[2].wellFormed = FALSE]}
MCTraces == Graphs \cup Predecessors \cup Wrong

=============================================================================
