---------------------------- MODULE XsaiExpander ----------------------------
(***************************************************************************)
(* _XsaiUopExpander and _materialize_xsai_trace (backend/xsai.py): the     *)
(* execution uops of a bound trace are grouped into scheduler slots.  A    *)
(* configuration or a reduction becomes a chain of decoded_macro_ops slots *)
(* of which the last owns the execution uops; a vector computation or      *)
(* access becomes one slot per preparation uop and one per part; anything  *)
(* else keeps one slot per uop.  The dependencies between uops become      *)
(* dependencies between the slots that own them.                           *)
(*                                                                         *)
(* The expansion is a function of the bound trace, so it has no actions of *)
(* its own: the properties hold of the slots of every trace that Binding   *)
(* produces.  A slot is named by its macro-op and its place there, and the *)
(* order of the expanded trace is that of the names.                       *)
(***************************************************************************)
EXTENDS Binding

\* Slots <<k, 0, n>> of macro-op k are the links n of a chain or own uop n alone,
\* slots <<k, 1, p>> own part p; none of the first kind comes after one of those.
Before(s, t) ==
    \/ s[1] < t[1]
    \/ s[1] = t[1] /\ s[2] < t[2]
    \/ s[1] = t[1] /\ s[2] = t[2] /\ s[3] < t[3]
Decoded(k) == RecipeOf(trace[k].form).decoded

\* _synthetic_sequence.
Chain(k) == {<<k, 0, j>> : j \in 1..Decoded(k)}

\* _vector_compute_groups and _vector_memory_groups.
PrepUops(k) == {u \in UopsOf(k) : uops[u].part = NoPart}
PrepAndParts(k) ==
    {<<k, 0, u>> : u \in PrepUops(k)} \cup {<<k, 1, p>> : p \in PartsOf(k)}

\* _groups_for_macro, in the order the code tries the classes.
Kind(f) ==
    IF "vector_config" \in KindSet(f) THEN "vector-config"
    ELSE IF KindSet(f) \cap ReduceKinds # {} THEN "vector-reduction"
    ELSE IF Category(f) = "vector-memory" THEN "vector-memory"
    ELSE IF f.lmul # 0 /\ KindSet(f) \cap VectorKinds # {} THEN "vector-compute"
    ELSE "scalar"
ChainKinds == {"vector-config", "vector-reduction"}
Groups(k) ==
    LET kind == Kind(trace[k].form) IN
    CASE kind \in ChainKinds -> Chain(k)
      [] kind \in {"vector-memory", "vector-compute"} -> PrepAndParts(k)
      [] kind = "scalar" -> {<<k, 0, u>> : u \in UopsOf(k)}

\* The checks that end in an XsaiBackendError.
MutantFloorFlows(f) == AtLeastOne(f.active \div WidthBits)
ExpectedFlows(f) == AtLeastOne(Ceil(f.active, WidthBits))
Expands(k) ==
    LET f == trace[k].form
    IN  /\ Kind(f) \in ChainKinds =>
              Decoded(k) >= 1 /\ Cardinality({uops[u].part : u \in UopsOf(k)}) = 1
        /\ Kind(f) = "vector-compute" => Cardinality(PartsOf(k)) = AtLeastOne(f.lmul)
        /\ Kind(f) = "vector-memory" => Cardinality(PartsOf(k)) = ExpectedFlows(f)
Expandable == \A k \in DOMAIN trace : Expands(k)

-----------------------------------------------------------------------------
(* The slots of the whole trace, and their dependencies. *)

Slots == UNION {Groups(k) : k \in DOMAIN trace}
Chained(s) == Kind(trace[s[1]].form) \in ChainKinds

\* The last link of a chain owns the uops of its macro-op.
Members(s) ==
    IF Chained(s) THEN IF s[3] = Decoded(s[1]) THEN UopsOf(s[1]) ELSE {}
    ELSE IF s[2] = 0 THEN {s[3]} ELSE {u \in UopsOf(s[1]) : uops[u].part = s[3]}

\* execution_owner: the slot of each execution uop.
Owner == [u \in DOMAIN uops |-> CHOOSE s \in Slots : u \in Members(s)]

\* A chained slot follows the one before it; the others inherit the
\* dependencies of their members, each replaced by its owner.
MutantUnchained(owner, s) ==
    {owner[d] : d \in UNION {uops[u].dependencies : u \in Members(s)}} \ {s}
SlotDependencies(owner, s) ==
    (IF Chained(s) /\ s[3] > 1 THEN {<<s[1], 0, s[3] - 1>>} ELSE {}) \cup
    ({owner[d] : d \in UNION {uops[u].dependencies : u \in Members(s)}} \ {s})

\* _materialize_xsai_trace: the uop whose fields the slot copies, the last
\* data access of its members if there is one.  A structural slot copies one
\* of its macro, without the memory access.
Latest(S) == CHOOSE u \in S : \A w \in S : w <= u
DataKinds == {"load_data", "store_data"}
DataMembers(members) == {u \in members : uops[u].kind \in DataKinds}
CopiedUop(s) ==
    LET members == IF Members(s) = {} THEN UopsOf(s[1]) ELSE Members(s)
    IN  Latest(IF DataMembers(members) = {} THEN members ELSE DataMembers(members))
SlotAfter(owner, s) ==
    LET after == uops[CopiedUop(s)].after
    IN  IF after = 0 \/ owner[after] = s THEN {} ELSE {owner[after]}

-----------------------------------------------------------------------------
(* Properties. *)

\* Only the XSAI back end expands, and its profile alone has such rules.
IsXsai == DOMAIN Rules # {}

\* What the profile must say of an instruction for its parts to be those the
\* expander counts, which it does from LMUL and from the active bits.
CountsAgree(f) ==
    /\ Kind(f) \in ChainKinds =>
          /\ RecipeOf(f).decoded >= 1
          /\ IF Dynamic(f) THEN Rule(f).by = "count" /\ Rule(f).count <= 1 /\ ~NeedsPrep(f)
             ELSE RecipeOf(f).parts = 0
    /\ Kind(f) = "vector-compute" => Dynamic(f) /\ Rule(f).by = "lmul"
    /\ Kind(f) = "vector-memory" =>
          Dynamic(f) /\ Rule(f).by = "dynamic" /\ f.active = 8 * f.bytes

\* And for its slots to carry its access: one entry of the recipe moves data.
OneDataEntry(f) ==
    LET entries == RecipeOf(f).uops
    IN  \E e \in DOMAIN entries : \A j \in DOMAIN entries :
            entries[j].kind \in DataKinds <=> j = e
RulesMatch ==
    \A f \in self.forms : Refusal(f) = "none" =>
        CountsAgree(f) /\ (f.memory => OneDataEntry(f))

\* The expander accepts whatever the binder does: the number of parts that
\* bind made is the number of LMUL parts or memory flows it expects.
BoundIsExpandable == error = "none" /\ IsXsai => Expandable

\* Under a profile whose rules match the expander, every bound trace expands.
ExpanderAccepts == (IsXsai => RulesMatch) /\ BoundIsExpandable

\* Each execution uop belongs to exactly one slot, so that its time is
\* accounted once.
OwnedOnce ==
    \A u \in DOMAIN uops : Cardinality({s \in Slots : u \in Members(s)}) = 1

\* Grouping keeps the order: slots depend on and issue after earlier slots
\* only, so that the trace the event loop gets still has no cycle.
SlotsBackward ==
    LET owner == Owner IN
    \A s \in Slots : \A t \in SlotDependencies(owner, s) \cup SlotAfter(owner, s) :
        t \in Slots /\ Before(t, s)

\* A consumer of a configuration or a reduction waits for every slot of its
\* chain, the ones without timing of their own included, because it waits for
\* the last one and that one waits for those before it: whatever set of links
\* has the one it depends on, and all those its links depend on, has them all.
ConsumersAwaitChain ==
    LET owner == Owner IN
    \A s \in Slots : \A d \in SlotDependencies(owner, s) :
        Chained(d) /\ d[1] # s[1] =>
            \A links \in SUBSET Chain(d[1]) :
                /\ d \in links
                /\ \A t \in links : SlotDependencies(owner, t) \cap Chain(d[1]) \subseteq links
                => links = Chain(d[1])

\* The slots that carry the data of an access cover its bytes once each:
\* merging the address and data uops of a part loses and repeats nothing.
SlotsTileMemory ==
    \A k \in DOMAIN trace : trace[k].form.memory =>
        \A b \in 0..(trace[k].form.bytes - 1) :
            Cardinality({s \in Groups(k) :
                LET u == uops[CopiedUop(s)] IN
                /\ Members(s) # {} /\ u.kind \in DataKinds
                /\ u.memory.start <= b /\ b < u.memory.start + u.memory.bytes}) = 1

\* The trace that the event loop gets is the bound one, grouped: each uop is in
\* one slot, order, chains and bytes are kept.
SlotsFaithful ==
    IsXsai /\ Expandable =>
        OwnedOnce /\ SlotsBackward /\ ConsumersAwaitChain /\ SlotsTileMemory

=============================================================================
