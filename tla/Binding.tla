------------------------------ MODULE Binding ------------------------------
(***************************************************************************)
(* Profile.bind (simulator/profile.py) and bind_execution_semantics        *)
(* (simulator/semantic.py): a dynamic trace is turned, one instruction at  *)
(* a time, into execution uops with the dependencies between them.  An     *)
(* instruction finds its recipe, its recipe entries find the semantic uop  *)
(* they implement, the entries are expanded into vector parts (a static    *)
(* decomposition of the recipe, or the back end's rule for the class of    *)
(* the instruction, with a preparation uop), and every uop gets its edges: *)
(* to uops of the same instruction, to the results of the instructions     *)
(* that produced its registers, memory and flags, to the vector state and  *)
(* to the old value of a destination it merges into.                       *)
(*                                                                         *)
(* Uops are numbered by position, so that a dependency is a number.  The   *)
(* instruction stream is any sequence of the forms of the profile, with    *)
(* the last writers that a front end records for it.  Timing fields are    *)
(* left out.                                                               *)
(***************************************************************************)
EXTENDS Integers, Sequences, FiniteSets, SequencesExt

CONSTANTS
    Profiles,         \* what differs between the profiles, see SelfType
    Recipes,          \* profile recipes, by key
    WidthBits,        \* backend.vector_decomposition.register_width_bits
    Registers, VectorRegisters, StateRegisters

NoPart == -1

\* A form is what the trace says of an instruction; lmul 0: no vector_state,
\* active is active_vector_bits, sources are the operands after the first;
\* marks: the front end records vector destinations (RVV does, x86 does not).
FormType(f) ==
    /\ f.keys \in Seq(STRING) \ {<<>>} /\ f.kinds \in Seq(STRING) \ {<<>>}
    /\ f.reads \subseteq Registers /\ f.writes \subseteq Registers
    /\ f.address \subseteq f.reads
    /\ f.bytes \in Nat /\ f.lmul \in Nat /\ f.active \in Nat
    /\ f.memory \in BOOLEAN /\ f.flags \in BOOLEAN /\ f.marks \in BOOLEAN
    /\ f.flags => "flags" \in Registers
    /\ DOMAIN f.sources \subseteq Nat

\* An entry names the entries it depends on; schemas/profile.schema.json has
\* its fields, and the recipes list dependencies and parts in order.
RecipeType(r) ==
    /\ r.parts \in Nat /\ r.decoded \in Nat
    /\ Len(r.uops) \in Nat \ {0} /\ DOMAIN r.uops = 1..Len(r.uops)
    /\ \A k \in DOMAIN r.uops :
         /\ r.uops[k].kind \in STRING
         /\ r.uops[k].part \in {NoPart} \cup 0..(r.parts - 1)
         /\ \A d \in r.uops[k].needs : \E j \in 1..(k - 1) : r.uops[j].id = d
         /\ \A j \in 1..(k - 1) : r.uops[k].part = NoPart \/ r.uops[j].part <= r.uops[k].part
    /\ IsInjective([k \in DOMAIN r.uops |-> r.uops[k].id])

\* A preparation uop has an id of its own, as in profiles/xsai.yaml.
PrepType(entry) ==
    /\ entry.kind \in STRING /\ entry.id # "fit"
    /\ \A key \in DOMAIN Recipes : \A e \in DOMAIN Recipes[key].uops :
           Recipes[key].uops[e].id # entry.id

\* forms are the instructions a trace is made of, length bounds the trace;
\* fitKinds: semantic kinds of scalar_control_fit ({}: disabled),
\* rules: backend.vector_decomposition.rules by category,
\* stateKinds: vector_state.wait_execution_kinds, oldKinds and implicitKinds:
\* wait_execution_kinds and implicit_execution_kinds of old_destination.
SelfType(p) ==
    /\ \A f \in p.forms : FormType(f)
    /\ p.length \in Nat
    /\ \A c \in DOMAIN p.rules :
          /\ p.rules[c].by \in {"lmul", "count", "dynamic"}
          /\ p.rules[c].by = "count" => p.rules[c].count \in Nat
          /\ \A class \in DOMAIN p.rules[c].prep : PrepType(p.rules[c].prep[class])
    /\ p.implicitKinds \subseteq p.oldKinds

ASSUME ProfilesAssumption == \A p \in Profiles : SelfType(p)
ASSUME WidthAssumption == WidthBits \in Nat \ {0}
ASSUME RecipesAssumption == \A k \in DOMAIN Recipes : RecipeType(Recipes[k])
ASSUME RegistersAssumption ==
    VectorRegisters \subseteq Registers /\ StateRegisters \subseteq Registers

VARIABLES
    self,       \* the Profile, never changed
    trace,      \* instructions bound so far, with their recorded producers
    uops,       \* execution uops of all of them, in order
    results,    \* result_uops: the terminal uops of each instruction
    writer,     \* the front end's last writer of each register (0: none)
    error       \* the ProfileError that ended the binding, or "none"
vars == <<self, trace, uops, results, writer, error>>

Rules == self.rules
StateKinds == self.stateKinds
OldKinds == self.oldKinds
ImplicitKinds == self.implicitKinds

-----------------------------------------------------------------------------
(* Recipes and semantics. *)

\* SEMANTIC_EXECUTION_KINDS: the execution kinds that implement a semantic.
MemoryExecution == [scalar_load |-> {"load_data"}, vector_load |-> {"load_data"},
                    scalar_store |-> {"store_data"}, vector_store |-> {"store_data"},
                    address_generation |-> {"address_generation"}]
ScalarExecution == [scalar_alu |-> {"scalar_alu"}, branch |-> {"branch"},
                    scalar_fp_add |-> {"scalar_fp_add", "scalar_fp"},
                    scalar_fp_div |-> {"scalar_fp_div", "scalar_fp"},
                    scalar_move |-> {"scalar_move", "scalar_alu"},
                    return |-> {"return", "branch"}]
FpOnly == {"vector_fp_add", "vector_fp_sub", "vector_fp_mul", "vector_fp_fma",
           "vector_fp_max", "vector_reduce_add", "vector_reduce_max"}
VectorKinds == FpOnly \cup {"vector_broadcast", "vector_move", "vector_config",
    "vector_load", "vector_store", "vector_convert", "vector_integer",
    "vector_shift", "vector_shuffle"}
ReduceKinds == {"vector_reduce_add", "vector_reduce_max"}
ExecutionKinds(kind) ==
    CASE kind \in DOMAIN MemoryExecution -> MemoryExecution[kind]
      [] kind \in DOMAIN ScalarExecution -> ScalarExecution[kind]
      [] kind \in FpOnly -> {"vector_fp"}
      [] kind \in {"vector_broadcast", "vector_move"} -> {"vector_fp", "vector_integer"}
      [] kind = "vector_config" -> {"vector_config", "vector_control", "vector_integer"}
      [] kind = "vector_convert" -> {"conversion"}
      [] kind \in {"vector_integer", "vector_shift"} -> {"vector_integer"}
      [] kind = "vector_shuffle" -> {"shuffle"}
      [] OTHER -> {}

\* The semantic uops of f that an execution entry may implement.
Implements(f, entry) == {k \in DOMAIN f.kinds : entry.kind \in ExecutionKinds(f.kinds[k])}

\* bind_execution_semantics: one semantic per entry, and none left over.
SemanticsBind(f, recipe) ==
    /\ \A e \in DOMAIN recipe.uops : Cardinality(Implements(f, recipe.uops[e])) = 1
    /\ DOMAIN f.kinds = UNION {Implements(f, recipe.uops[e]) : e \in DOMAIN recipe.uops}

\* recipe_keys: the first candidate the profile knows.
KnownKeys(f) == {k \in DOMAIN f.keys : f.keys[k] \in DOMAIN Recipes}
FirstOf(S) == CHOOSE k \in S : \A j \in S : k <= j

\* _fallback_recipe: a fit for an instruction of one semantic uop.
HasRecipe(f) == KnownKeys(f) # {} \/ (Len(f.kinds) = 1 /\ f.kinds[1] \in self.fitKinds)
FitRecipe(f) == [parts |-> 0, decoded |-> 1,
                 uops |-> <<[id |-> "fit", kind |-> f.kinds[1],
                             needs |-> {}, part |-> NoPart]>>]
RecipeOf(f) == IF KnownKeys(f) = {} THEN FitRecipe(f)
               ELSE Recipes[f.keys[FirstOf(KnownKeys(f))]]

-----------------------------------------------------------------------------
(* Vector decomposition. *)

KindSet(f) == {f.kinds[k] : k \in DOMAIN f.kinds}
ScalarClasses == {"fp_register", "register", "immediate"}
SourceClasses(f) == {f.sources[k].class : k \in DOMAIN f.sources}

\* _vector_decomposition_class.
Category(f) ==
    IF f.memory /\ KindSet(f) \cap {"address_generation", "vector_load", "vector_store"} # {}
    THEN "vector-memory"
    ELSE IF "vector_config" \in KindSet(f) THEN "vector-config"
    ELSE IF KindSet(f) \cap ReduceKinds # {} THEN "vector-reduction"
    ELSE IF KindSet(f) \cap VectorKinds = {} THEN "scalar"
    ELSE IF SourceClasses(f) \cap ScalarClasses # {} THEN "vector-scalar"
    ELSE "vector-vector"

\* _backend_vector_decomposition applies unless the recipe has its own.
Dynamic(f) ==
    RecipeOf(f).parts = 0 /\ f.lmul # 0 /\ Category(f) \in DOMAIN Rules
Rule(f) == Rules[Category(f)]

\* _vector_part_count; lmul is 1 for a fractional LMUL.
Ceil(a, b) == (a + b - 1) \div b
AtLeastOne(n) == IF n < 1 THEN 1 ELSE n
PartCount(f) ==
    CASE Rule(f).by = "count" -> AtLeastOne(Rule(f).count)
      [] Rule(f).by = "lmul" -> AtLeastOne(f.lmul)
      [] Rule(f).by = "dynamic" ->
           AtLeastOne(Ceil(IF f.memory THEN 8 * f.bytes ELSE f.active, WidthBits))

\* _select_vector_prep_uop: the first scalar source with a variant, else the
\* default; it waits for that source alone.
PrepSources(f) == {k \in DOMAIN f.sources : /\ f.sources[k].class \in ScalarClasses
                                            /\ f.sources[k].class \in DOMAIN Rule(f).prep}
NeedsPrep(f) == Dynamic(f) /\ DOMAIN Rule(f).prep # {}
PrepMissing(f) == NeedsPrep(f) /\ PrepSources(f) = {} /\ "default" \notin DOMAIN Rule(f).prep
PrepClass(f) == IF PrepSources(f) = {} THEN "default"
                ELSE f.sources[FirstOf(PrepSources(f))].class
PrepRegisters(f) ==
    IF PrepClass(f) \in {"fp_register", "register"}
    THEN {f.sources[FirstOf(PrepSources(f))].register} ELSE {}

\* One expanded entry: local is its place in the recipe, only the registers
\* a preparation uop waits for.
Slot(entry, local, part, count) ==
    [id |-> entry.id, kind |-> entry.kind, needs |-> entry.needs, local |-> local,
     part |-> part, count |-> count, prep |-> FALSE, only |-> {}]
PrepSlot(f) ==
    LET entry == Rule(f).prep[PrepClass(f)]
    IN  [id |-> entry.id, kind |-> entry.kind, needs |-> {}, local |-> 1,
         part |-> NoPart, count |-> 0, prep |-> TRUE, only |-> PrepRegisters(f)]

\* The entry that is j-th in the parts of a dynamic decomposition.
PartSlot(f, j) ==
    LET entries == RecipeOf(f).uops
        local == ((j - 1) % Len(entries)) + 1
        slot == Slot(entries[local], local, (j - 1) \div Len(entries), PartCount(f))
    IN  IF NeedsPrep(f)
        THEN [slot EXCEPT !.needs = @ \cup {PrepSlot(f).id}] ELSE slot

Expanded(f) ==
    LET recipe == RecipeOf(f)
        parts == [j \in 1..(PartCount(f) * Len(recipe.uops)) |-> PartSlot(f, j)]
    IN  IF ~Dynamic(f)
        THEN [k \in DOMAIN recipe.uops |->
                Slot(recipe.uops[k], k, recipe.uops[k].part,
                     IF recipe.uops[k].part = NoPart THEN 0 ELSE recipe.parts)]
        ELSE IF NeedsPrep(f) THEN <<PrepSlot(f)>> \o parts ELSE parts

\* _memory_part: bytes of the access that a part moves; a start at or past
\* the end is the error of an empty part.
MemoryKinds == {"load_data", "store_data", "address_generation"}
MovesMemory(f, slot) == f.memory /\ slot.kind \in MemoryKinds
PartBytes == WidthBits \div 8
Share(f, slot) ==
    IF ~Dynamic(f) THEN [start |-> 0, bytes |-> f.bytes]
    ELSE LET start == (IF slot.part = NoPart THEN 0 ELSE slot.part) * PartBytes
             left == f.bytes - start
         IN  [start |-> start, bytes |-> IF left < PartBytes THEN left ELSE PartBytes]
EmptyPart(f) ==
    Dynamic(f) /\ \E k \in DOMAIN Expanded(f) :
        /\ MovesMemory(f, Expanded(f)[k])
        /\ Share(f, Expanded(f)[k]).bytes <= 0

-----------------------------------------------------------------------------
(* Dependencies. *)

\* The candidates of the same part, or all of them if none has it.
Matching(same, candidates) == IF same # {} THEN same ELSE candidates

\* depends_on: uops of the same instruction (slots is its expansion and
\* base the number of uops before it).
LocalDependencies(slots, base, k) ==
    LET part == slots[k].part
        named(d) == {j \in DOMAIN slots : slots[j].id = d}
        same(d) == {j \in named(d) : part # NoPart /\ slots[j].part = part}
    IN  {base + j : j \in UNION {Matching(same(d), named(d)) : d \in slots[k].needs}}

\* The producers of an instruction i of the trace, by register.
Producers(i, registers) ==
    {i.dependencies[r] : r \in {r \in registers \cap i.form.reads : i.dependencies[r] # 0}}

\* _add_external_dependencies: which producers a uop waits for.
External(i, slot) ==
    IF slot.prep THEN Producers(i, slot.only)
    ELSE CASE slot.kind = "address_generation" -> Producers(i, i.form.address)
           [] slot.kind = "load_data" ->
                i.stores \cup (IF slot.local = 1 THEN Producers(i, i.form.reads) ELSE {})
           [] slot.kind = "store_data" -> i.stores \cup Producers(i, i.form.reads)
           [] OTHER -> i.stores \cup Producers(i, i.form.reads) \cup i.flags

\* The vector-state producers of a uop that waits for them.
MutantStateOfFirstPart(i, slot) ==
    IF ~slot.prep /\ slot.kind \in StateKinds /\ slot.part \in {NoPart, 0}
    THEN Producers(i, StateRegisters) ELSE {}
StateProducers(i, slot) ==
    IF ~slot.prep /\ slot.kind \in StateKinds
    THEN Producers(i, StateRegisters) ELSE {}

\* Old destinations: a uop of an implicit kind merges into every vector
\* register its instruction writes; another one only into a register that is
\* both read and written (the front end marks its semantic uop).
InPlace(f) == f.reads \cap f.writes \cap VectorRegisters
OldRegisters(f, slot) ==
    IF slot.kind \in ImplicitKinds /\ f.marks THEN f.writes \cap VectorRegisters
    ELSE InPlace(f)
ReadsOld(f, slot) ==
    /\ ~slot.prep /\ slot.kind \in OldKinds
    /\ \/ slot.kind \in ImplicitKinds
       \/ f.marks /\ InPlace(f) # {} /\ \E k \in Implements(f, slot) :
                f.kinds[k] \notin {"address_generation", "vector_config"}

\* The map of vector destinations holds registers that are not read.
OldProducers(i, slot) ==
    IF ~ReadsOld(i.form, slot) THEN {}
    ELSE {i.old[r] : r \in {r \in OldRegisters(i.form, slot) : i.old[r] # 0}}

\* _add_producer_dependencies: the results of the producers, part by part.
Results(producers, part) ==
    UNION {Matching({u \in results[p] : part # NoPart /\ uops[u].part = part}, results[p]) :
             p \in producers}

\* issue_after_uop of a static part: the first uop of the part before it.
IssueAfter(i, slots, base, k) ==
    LET before == {j \in DOMAIN slots : slots[j].part = slots[k].part - 1}
    IN  IF ~Dynamic(i.form) /\ RecipeOf(i.form).parts # 0 /\ slots[k].part > 0 /\ before # {}
        THEN base + FirstOf(before) ELSE 0

\* depended_locals: an entry nothing of its instruction depends on is a result.
Terminal(slots, k) == \A j \in DOMAIN slots : slots[k].id \notin slots[j].needs

\* _requires_vector_read_token.
ReadsVector(f, slot) ==
    /\ ~slot.prep
    /\ slot.kind \in {"vector_fp", "vector_integer", "conversion", "shuffle", "store_data"}
    /\ \E k \in Implements(f, slot) :
         f.kinds[k] \in VectorKinds \ {"vector_config", "vector_load"}
    /\ f.reads \cap VectorRegisters # {}

\* The execution uop of slot k of instruction i.
Bound(i, slots, base, k) ==
    LET slot == slots[k]
        f == i.form
        state == Results(StateProducers(i, slot), slot.part)
        old == Results(OldProducers(i, slot), slot.part)
    IN  [parent |-> Len(trace) + 1, kind |-> slot.kind,
         part |-> slot.part, count |-> slot.count,
         dependencies |-> LocalDependencies(slots, base, k)
                            \cup Results(External(i, slot), slot.part)
                            \cup state \cup old,
         state |-> state, old |-> old,
         after |-> IssueAfter(i, slots, base, k),
         completes |-> slot.prep \/ (Terminal(slots, k) /\ f.writes \cap VectorRegisters # {}),
         reads |-> ReadsVector(f, slot),
         memory |-> IF MovesMemory(f, slot) THEN Share(f, slot)
                    ELSE [start |-> 0, bytes |-> 0]]

-----------------------------------------------------------------------------
(* The specification. *)

Init ==
    /\ self \in Profiles
    /\ trace = <<>> /\ uops = <<>> /\ results = <<>>
    /\ writer = [r \in Registers |-> 0]
    /\ error = "none"

\* The producers a front end records for form f.  Any set of earlier stores
\* may share a line with the access.
Stores == {k \in DOMAIN trace : "store_data" \in
             {uops[u].kind : u \in {u \in DOMAIN uops : uops[u].parent = k}}}
Instruction(f, stores) ==
    [form |-> f,
     dependencies |-> [r \in f.reads |-> writer[r]],
     old |-> [r \in f.writes |-> writer[r]],
     stores |-> stores,
     flags |-> IF f.flags /\ writer["flags"] # 0 THEN {writer["flags"]} ELSE {}]

\* The ProfileError of an instruction: the first the code reaches.
Refusal(f) ==
    IF ~HasRecipe(f) THEN "missing recipe"
    ELSE IF ~SemanticsBind(f, RecipeOf(f)) THEN "semantic mapping"
    ELSE IF PrepMissing(f) THEN "no prep uop"
    ELSE IF EmptyPart(f) THEN "empty part" ELSE "none"

\* One iteration of the loop in bind.
Bind(f) ==
    /\ error = "none" /\ Len(trace) < self.length
    /\ Refusal(f) = "none"
    /\ \E stores \in IF f.memory THEN SUBSET Stores ELSE {{}} :
         LET i == Instruction(f, stores)
             slots == Expanded(f)
             base == Len(uops)
         IN  /\ trace' = Append(trace, i)
             /\ uops' = uops \o [k \in DOMAIN slots |-> Bound(i, slots, base, k)]
             /\ results' = Append(results,
                    {base + k : k \in {k \in DOMAIN slots : Terminal(slots, k)}})
    /\ writer' = [r \in Registers |-> IF r \in f.writes THEN Len(trace) + 1 ELSE writer[r]]
    /\ UNCHANGED <<self, error>>

Reject(f) ==
    /\ error = "none" /\ Len(trace) < self.length
    /\ Refusal(f) # "none"
    /\ error' = Refusal(f)
    /\ UNCHANGED <<self, trace, uops, results, writer>>

Stopped == (error # "none" \/ Len(trace) = self.length) /\ UNCHANGED vars

Next == (\E f \in self.forms : Bind(f) \/ Reject(f)) \/ Stopped
Spec == Init /\ [][Next]_vars

-----------------------------------------------------------------------------
(* Properties. *)

UopType ==
    [parent : Nat, kind : STRING, part : Int, count : Nat,
     dependencies : SUBSET Nat, state : SUBSET Nat, old : SUBSET Nat,
     after : Nat, completes : BOOLEAN, reads : BOOLEAN,
     memory : [start : Nat, bytes : Nat]]

\* The binder's state has the right shape; every instruction has results.
TypeOK ==
    /\ uops \in Seq(UopType)
    /\ results \in Seq((SUBSET (1..Len(uops))) \ {{}}) /\ Len(results) = Len(trace)
    /\ writer \in [Registers -> 0..Len(trace)]
    /\ error \in {"none", "missing recipe", "semantic mapping", "no prep uop", "empty part"}

\* A uop depends on, and issues after, earlier uops only: the trace that bind
\* returns has no cycle, so the event loops cannot wait on each other.
DependenciesBackward ==
    \A u \in DOMAIN uops :
        uops[u].dependencies \subseteq 1..(u - 1) /\ uops[u].after < u

\* The uops that some uop of instruction k waits for.
UopsOf(k) == {u \in DOMAIN uops : uops[u].parent = k}
AwaitedBy(k) == UNION {uops[u].dependencies : u \in UopsOf(k)}
PartsOf(k) == {uops[u].part : u \in UopsOf(k)} \ {NoPart}

\* The results of instruction p that hold parts instruction k also has.
SharedResults(k, p) ==
    {u \in results[p] : \/ uops[u].part = NoPart \/ PartsOf(k) = {}
                        \/ uops[u].part \in PartsOf(k)}

\* Whatever an instruction reads (registers, memory lines, flags), one of its
\* uops waits for: no producer is lost when the edges of an instruction are
\* shared out over its address, data and compute uops and over its parts.
ProducersAwaited ==
    \A k \in DOMAIN trace :
        \A p \in Producers(trace[k], trace[k].form.reads) \cup trace[k].stores
                   \cup trace[k].flags :
            SharedResults(k, p) \subseteq AwaitedBy(k)

\* A vector uop that merges into its destination waits, part by part, for the
\* previous writer of that register even when it does not read it.
OldDestinationAwaited ==
    \A u \in DOMAIN uops :
        LET i == trace[uops[u].parent] IN
        uops[u].kind \in ImplicitKinds \cap OldKinds /\ uops[u].part # NoPart /\ i.form.marks =>
            \A r \in i.form.writes \cap VectorRegisters : i.old[r] # 0 =>
                \E d \in results[i.old[r]] : d \in uops[u].dependencies

\* Every part of a vector instruction, not only its first, waits for the
\* instruction that set the vector state it runs under.
StateReachesEveryPart ==
    \A u \in DOMAIN uops :
        LET i == trace[uops[u].parent] IN
        uops[u].kind \in StateKinds /\ uops[u].part # NoPart =>
            \A p \in Producers(i, StateRegisters) :
                results[p] \cap uops[u].dependencies # {}

\* The parts of a decomposed access cover its bytes once each, in order: for
\* each kind of memory uop, every byte is moved by exactly one part.
MemoryTiled ==
    \A k \in DOMAIN trace : trace[k].form.memory =>
        \A kind \in {uops[u].kind : u \in UopsOf(k)} \cap MemoryKinds :
            \A b \in 0..(trace[k].form.bytes - 1) :
                Cardinality({u \in UopsOf(k) :
                    /\ uops[u].kind = kind
                    /\ uops[u].memory.start <= b
                    /\ b < uops[u].memory.start + uops[u].memory.bytes}) = 1

\* What a profile must say of an instruction for the binding to lose nothing.
\* Which uop of a form waits for the producer of a register; every uop but a
\* preparation and an address waits for stores, and those that do not access
\* memory for the flags.
WaitsFor(f, slot, r) ==
    IF slot.prep THEN r \in slot.only
    ELSE CASE slot.kind = "address_generation" -> r \in f.address
           [] slot.kind = "load_data" ->
                slot.local = 1 \/ (slot.kind \in StateKinds /\ r \in StateRegisters)
           [] OTHER -> TRUE
WaitsForStores(slot) == ~slot.prep /\ slot.kind # "address_generation"
WaitsForFlags(slot) == ~slot.prep /\ slot.kind \notin MemoryKinds

\* In each part of the instruction, or apart from the parts, is one of places.
Everywhere(slots, places) ==
    /\ places # {}
    /\ \A j \in DOMAIN slots : slots[j].part # NoPart =>
          \E p \in places : slots[p].part \in {NoPart, slots[j].part}

\* Each kind of memory uop moves the access once: as one uop, or in parts that
\* are counted by the bytes.
MovesOnce(f) ==
    LET entries == IF Dynamic(f) THEN RecipeOf(f).uops ELSE Expanded(f)
    IN  /\ \A j, k \in DOMAIN entries :
              entries[j].kind = entries[k].kind /\ entries[j].kind \in MemoryKinds => j = k
        /\ Dynamic(f) =>
              /\ Rule(f).by = "dynamic" /\ WidthBits % 8 = 0
              /\ NeedsPrep(f) => PrepSlot(f).kind \notin MemoryKinds

Serves(f) ==
    LET slots == Expanded(f)
    IN  /\ \A r \in f.reads : Everywhere(slots, {j \in DOMAIN slots : WaitsFor(f, slots[j], r)})
        /\ f.memory => Everywhere(slots, {j \in DOMAIN slots : WaitsForStores(slots[j])})
        /\ f.flags => Everywhere(slots, {j \in DOMAIN slots : WaitsForFlags(slots[j])})
        /\ \A j, k \in DOMAIN slots : Terminal(slots, j) /\ Terminal(slots, k) =>
              (slots[j].part = NoPart <=> slots[k].part = NoPart)
        /\ f.memory => MovesOnce(f)
ProfileServes == \A f \in self.forms : Refusal(f) = "none" => Serves(f)

\* No edge of the semantic trace is lost, none leads forward and no byte is
\* moved twice, however an instruction is cut into uops and parts, under a
\* profile that provides for its instructions.
BindsFaithfully ==
    /\ ProfileServes
    /\ TypeOK /\ DependenciesBackward
    /\ ProducersAwaited /\ OldDestinationAwaited /\ StateReachesEveryPart
    /\ MemoryTiled

\* A reduction combines every lane of its vector source (semantic_uop.md), so
\* it waits for every part of the instruction that produced it.
ReductionAwaitsGroup ==
    \A k \in DOMAIN trace : KindSet(trace[k].form) \cap ReduceKinds # {} =>
        \A p \in Producers(trace[k], trace[k].form.reads \cap VectorRegisters) :
            results[p] \subseteq AwaitedBy(k)

=============================================================================
