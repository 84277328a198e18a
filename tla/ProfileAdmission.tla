-------------------------- MODULE ProfileAdmission --------------------------
(***************************************************************************)
(* From a profile to a running XSAI engine.  Profile.__init__              *)
(* (simulator/profile.py) validates a profile part by part, records the    *)
(* parameters that are still "measure" and derives the ticks of a cycle;   *)
(* bind() resolves the parameters that the trace uses and finds the units  *)
(* that can execute each uop; the engine's constructor (backend/xsai.py)   *)
(* groups the bound uops to scheduler slots, checks those against the      *)
(* topology again and resolves the rest; the first cycle then tries to     *)
(* admit and to issue the macro-op in an empty machine.  Three classes     *)
(* judge the same profile in three places.                                 *)
(*                                                                         *)
(* The profile starts as Base and up to MaxEdits of its fields are         *)
(* replaced before it is loaded (without a schema, as load_profile allows).*)
(* Capacities are integers and cycle counts fractions <<n, d>>; what is    *)
(* not a number is one of the codes below.  The trace is one instruction   *)
(* of profile.recipe, with the preparation uop of profile.prep if any.  A  *)
(* decomposed instruction has one part: the others repeat it.  What an     *)
(* entry has as kind is whether it moves data (load_data, store_data), and *)
(* the instruction's semantic kinds are profile.recipe.slots.              *)
(***************************************************************************)
EXTENDS Integers, Sequences, FiniteSets, SequencesExt, FiniteSetsExt

CONSTANTS
    Base,       \* a profile
    Alternatives,    \* field |-> the values an edit may give it
    MaxEdits    \* bound: fields that depart from Base

Measure == -1       \* the string 'measure'
Invalid == -2       \* a value of the wrong type or below zero
ProfileAbsent  == -3       \* an omitted field
ProfileNone == "none"      \* an omitted identifier

IsInt(v) == v >= 0
Positive(v) == v = Measure \/ v >= 1
NonNegative(v) == v = Measure \/ v >= 0
Cycles(c) == NonNegative(c[1])
Optional(v, ok) == v = ProfileAbsent \/ ok

IsSequence(s) == s \in Seq(ToSet(s))
IntegerValued(f) == \A x \in DOMAIN f : f[x] \in Int
IsCycles(c) == c \in Int \X (Nat \ {0})

\* What a profile of any kind is: lists are lists, cycle counts are fractions,
\* resources and cycle counts are finitely many, and the demands on domains and
\* the capacities of domains are integers or codes.  What no validator of
\* Profile reads is as profile.schema.json says: the latencies, the capacities
\* of issue domains and of resources, and the demands of the preparation.
ProfileType(p) ==
    /\ IsSequence(p.prep)
    /\ \A k \in DOMAIN p.prep :
          /\ IntegerValued(p.prep[k].demands)
          /\ \A d \in DOMAIN p.prep[k].demands : p.prep[k].demands[d] >= 1
          /\ IsCycles(p.prep[k].latency) /\ p.prep[k].latency[1] >= Measure
    /\ IsSequence(p.recipe.uops) /\ p.recipe.uops # <<>>
    /\ p.recipe.slots \in {"each", "part", "whole"}
    /\ \A k \in DOMAIN p.recipe.uops :
          /\ IntegerValued(p.recipe.uops[k].demands)
          /\ IsCycles(p.recipe.uops[k].latency) /\ p.recipe.uops[k].latency[1] >= Measure
    /\ IntegerValued(p.recipe.demands)
    /\ IsFiniteSet(DOMAIN p.resources)
    /\ \A r \in DOMAIN p.resources :
          /\ p.resources[r].capacity \in Int /\ Positive(p.resources[r].capacity)
          /\ p.resources[r].bytes \in Int
    /\ \A d \in DOMAIN p.issueDomains : p.issueDomains[d] \in Nat \cup {Measure}
    /\ IntegerValued(p.dispatchDomains)
    /\ IsCycles(p.vectorMemory.completion) /\ IsCycles(p.vectorMemory.service)
    /\ IsCycles(p.vectorMemory.flowCycles)
    /\ IsCycles(p.rename.releaseDelay) /\ IsCycles(p.rename.availabilityDelay)
    /\ IsFiniteSet(p.epochs.cycles) /\ \A c \in p.epochs.cycles : IsCycles(c)

ASSUME EditsAssumption == MaxEdits \in Nat
ASSUME BaseAssumption ==
    /\ {"prep", "recipe", "resources", "issueDomains", "dispatchDomains", "vectorMemory",
        "rename", "epochs"} \subseteq DOMAIN Base
    /\ ProfileType(Base)
ASSUME AlternativesAssumption ==
    /\ DOMAIN Alternatives \subseteq DOMAIN Base
    /\ \A f \in DOMAIN Alternatives : \A v \in Alternatives[f] :
          ProfileType([Base EXCEPT ![f] = v])

VARIABLES
    profile,       \* self.data
    edited,        \* fields replaced so far
    profilePc,     \* the step that comes next
    profileError,  \* what ended it, or "none"
    unresolved,    \* self.unresolved_parameters
    tpc,           \* self.ticks_per_cycle (0: not derived yet)
    profileUops,   \* the uops of the bound trace, then of the engine's
    blocker        \* why the empty machine does not take the macro-op
profileVars == <<profile, edited, profilePc, profileError, unresolved, tpc, profileUops, blocker>>

-----------------------------------------------------------------------------
(* Profile.__init__ *)

IsaValid(p) == p.isa.length = ProfileAbsent \/ p.isa.length <= p.isa.maximum

\* The partitions and the units name each other, each unit once.
UniqueIds(s) == \A i, j \in DOMAIN s : s[i].id = s[j].id => i = j
Lists(p, k, u) == \E i \in DOMAIN p.partitions[k].units : p.partitions[k].units[i] = u
PartitionsAgree(p) ==
    /\ UniqueIds(p.partitions)
    /\ \A u \in DOMAIN p.units : \E k \in DOMAIN p.partitions : Lists(p, k, u)
    /\ \A k \in DOMAIN p.partitions :
          LET listed == p.partitions[k].units IN
          /\ IsInjective(listed)
          /\ \A i \in DOMAIN listed :
                /\ listed[i] \in DOMAIN p.units
                /\ \A j \in DOMAIN p.partitions : Lists(p, j, listed[i]) => j = k
                /\ p.units[listed[i]].partition = p.partitions[k].id
UnitsKnown(p) ==
    \A u \in DOMAIN p.units :
        /\ \E k \in DOMAIN p.partitions : p.partitions[k].id = p.units[u].partition
        /\ p.units[u].resources \subseteq DOMAIN p.resources

\* A domain is listed under a register file; its id is unique over all files.
DomainIds(domains) == {domains[k].id : k \in DOMAIN domains}
MutantDomainsKnown(p, domains) ==
    \A k \in DOMAIN domains :
          /\ IsInt(domains[k].ports) /\ IsInt(domains[k].capacity)
                => domains[k].capacity <= domains[k].ports
          /\ domains[k].units \subseteq DOMAIN p.units
DomainsKnown(p, domains) ==
    /\ UniqueIds(domains)
    /\ \A k \in DOMAIN domains :
          /\ IsInt(domains[k].ports) /\ IsInt(domains[k].capacity)
                => domains[k].capacity <= domains[k].ports
          /\ domains[k].units \subseteq DOMAIN p.units
PortsKnown(p) ==
    \A u \in DOMAIN p.units :
        /\ p.units[u].read \in {ProfileNone} \cup DomainIds(p.reads)
        /\ p.units[u].write \in {ProfileNone} \cup DomainIds(p.writes)

\* pipeline.vector_scheduler_entries is the sum over the vector partitions.
EntriesAgree(p) ==
    LET vector == {k \in DOMAIN p.partitions : p.partitions[k].vector}
    IN  vector # {} /\ IsInt(p.schedulerEntries)
            /\ (\A k \in vector : IsInt(p.partitions[k].entries))
        => MapThenSumSet(LAMBDA k : p.partitions[k].entries, vector) = p.schedulerEntries
WidthAligned(p) == IsInt(p.widthBits) => p.widthBits % 8 = 0

Bases == {"decoded_macro_ops", "execution_uops", "max_decoded_or_execution_uops",
          "architectural_instructions"}
BasesKnown(p) == p.basis.dispatch \in Bases /\ p.basis.rob \in Bases

VectorMemoryValid(vm) ==
    /\ vm.order \in {"any", "oldest", "oldest_same_kind"}
    /\ Optional(vm.capacity, Positive(vm.capacity))
    /\ Cycles(vm.completion)
    /\ Optional(vm.service[1], Cycles(vm.service))
    /\ (vm.boundary = ProfileAbsent) <=> (vm.flowCycles[1] = ProfileAbsent)
    /\ Optional(vm.boundary, Positive(vm.boundary))
    /\ Optional(vm.flowCycles[1], Cycles(vm.flowCycles))

EpochsValid(p) ==
    p.epochs.present => p.model = "xsai-rvv" /\ \A c \in p.epochs.cycles : Cycles(c)
DispatchCapacitiesValid(p) ==
    \A d \in DOMAIN p.dispatchDomains : Positive(p.dispatchDomains[d])

RenameValid(r) ==
    r.enabled =>
        /\ DOMAIN r.lists # {} /\ \A f \in DOMAIN r.lists : Positive(r.lists[f])
        /\ r.policy \in {"all_files_must_be_ready", "any_file_may_be_ready"}
        /\ Positive(r.allocation) /\ Positive(r.release)
        /\ Cycles(r.releaseDelay) /\ Cycles(r.availabilityDelay)
        /\ NonNegative(r.guard)

TopologyValid(p) ==
    /\ PartitionsAgree(p) /\ UnitsKnown(p)
    /\ DomainsKnown(p, p.reads) /\ DomainsKnown(p, p.writes) /\ PortsKnown(p)
    /\ EntriesAgree(p) /\ WidthAligned(p) /\ BasesKnown(p)
    /\ VectorMemoryValid(p.vectorMemory) /\ EpochsValid(p)
    /\ DispatchCapacitiesValid(p) /\ RenameValid(p.rename)

ProfileExecutionKinds ==
    {"vector_fp", "vector_integer", "conversion", "shuffle", "vector_control",
     "vector_divide", "address_generation", "load_data", "store_data"}
UniqueList(s) == s # <<>> /\ IsInjective(s)
DependencyValid(d) ==
    d.present =>
        /\ UniqueList(d.evidence) /\ (d.state \/ d.old)
        /\ d.state => /\ UniqueList(d.registers) /\ UniqueList(d.stateKinds)
                      /\ ToSet(d.stateKinds) \subseteq ProfileExecutionKinds
        /\ d.old => /\ d.mode \in {"disabled", "semantic"}
                    /\ UniqueList(d.oldKinds) /\ ToSet(d.oldKinds) \subseteq ProfileExecutionKinds
                    /\ IsInjective(d.implicitKinds)
                    /\ ToSet(d.implicitKinds) \subseteq ToSet(d.oldKinds)

EvidenceValid(p) == IsInjective(p.sources) /\ p.referenced \subseteq ToSet(p.sources)
OverlapValid(p) == p.overlapKinds \subseteq p.semanticKinds

\* A demand is for a listed domain that exists, at least one and not above the
\* capacity; it is 1 where none is given.
Demand(entry, d) == IF d \in DOMAIN entry.demands THEN entry.demands[d] ELSE 1
MutantDemandsFit(entry, listed, capacity) ==
    /\ DOMAIN entry.demands \subseteq listed
    /\ \A d \in listed : d \in DOMAIN capacity /\ Demand(entry, d) >= 1
DemandsFit(entry, listed, capacity) ==
    /\ DOMAIN entry.demands \subseteq listed
    /\ \A d \in listed :
          /\ d \in DOMAIN capacity /\ Demand(entry, d) >= 1
          /\ IsInt(capacity[d]) => Demand(entry, d) <= capacity[d]
IssueDomainsValid(p) ==
    \A k \in DOMAIN p.recipe.uops :
        DemandsFit(p.recipe.uops[k], p.recipe.uops[k].domains, p.issueDomains)
DispatchDomainsValid(p) ==
    /\ IsInjective(p.recipe.domains)
    /\ DemandsFit(p.recipe, ToSet(p.recipe.domains), p.dispatchDomains)

Steps == <<"isa", "topology", "dependency", "evidence", "overlap", "issue", "dispatch">>
ProfileValid(step, p) ==
    CASE step = "isa" -> IsaValid(p)
      [] step = "topology" -> TopologyValid(p)
      [] step = "dependency" -> DependencyValid(p.dependency)
      [] step = "evidence" -> EvidenceValid(p)
      [] step = "overlap" -> OverlapValid(p)
      [] step = "issue" -> IssueDomainsValid(p)
      [] step = "dispatch" -> DispatchDomainsValid(p)

Fail(why) == profilePc' = "failed" /\ profileError' = why
ProfileGoOn(to) == profilePc' = to /\ profileError' = profileError

Edit ==
    /\ profilePc = "edit" /\ Cardinality(edited) < MaxEdits
    /\ \E f \in DOMAIN Alternatives \ edited : \E v \in Alternatives[f] :
         profile' = [profile EXCEPT ![f] = v] /\ edited' = edited \cup {f}
    /\ UNCHANGED <<profilePc, profileError, unresolved, tpc, profileUops, blocker>>
Load ==
    /\ profilePc = "edit" /\ ProfileGoOn(Steps[1])
    /\ UNCHANGED <<profile, edited, unresolved, tpc, profileUops, blocker>>
Validate ==
    /\ \E k \in DOMAIN Steps :
         /\ profilePc = Steps[k]
         /\ IF ~ProfileValid(Steps[k], profile) THEN Fail("profile")
            ELSE ProfileGoOn(IF k = Len(Steps) THEN "resolve" ELSE Steps[k + 1])
    /\ UNCHANGED <<profile, edited, unresolved, tpc, profileUops, blocker>>

\* The uop entries of the instruction, and every parameter with its path.
Entries(p) == p.prep \o p.recipe.uops
CycleParameters(p) ==
    {<<"latency", k, Entries(p)[k].latency>> : k \in DOMAIN Entries(p)}
    \cup {<<"vector_memory", "completion", p.vectorMemory.completion>>,
          <<"vector_memory", "service", p.vectorMemory.service>>,
          <<"vector_memory", "flow", p.vectorMemory.flowCycles>>,
          <<"rename", "release", p.rename.releaseDelay>>,
          <<"rename", "availability", p.rename.availabilityDelay>>}
    \cup {<<"epochs", c, c>> : c \in p.epochs.cycles}
CountParameters(p) ==
    {<<"resource", r, p.resources[r].capacity>> : r \in DOMAIN p.resources}
    \cup {<<"bandwidth", r, p.resources[r].bytes>> : r \in DOMAIN p.resources}
    \cup {<<"read", k, p.reads[k].capacity>> : k \in DOMAIN p.reads}
    \cup {<<"write", k, p.writes[k].capacity>> : k \in DOMAIN p.writes}
    \cup {<<"issue_domain", d, p.issueDomains[d]>> : d \in DOMAIN p.issueDomains}
    \cup {<<"dispatch_domain", d, p.dispatchDomains[d]>> : d \in DOMAIN p.dispatchDomains}
    \cup {<<"rename", f, p.rename.lists[f]>> : f \in DOMAIN p.rename.lists}
    \cup {<<"rename", "allocation", p.rename.allocation>>,
          <<"rename", "width", p.rename.release>>, <<"rename", "guard", p.rename.guard>>,
          <<"epochs", "capacity", p.epochs.capacity>>, <<"recipe", "decoded", p.recipe.decoded>>,
          <<"vector_memory", "boundary", p.vectorMemory.boundary>>,
          <<"vector_memory", "capacity", p.vectorMemory.capacity>>}
FindUnresolved(p) ==
    {<<x[1], x[2]>> : x \in {c \in CycleParameters(p) : c[3][1] = Measure}}
    \cup {<<x[1], x[2]>> : x \in {c \in CountParameters(p) : c[3] = Measure}}

\* _ticks_per_cycle: the least common multiple of the denominators of all
\* numbers and of the time a transfer of 4, 16, 32 or 64 bytes takes.
Widths == {4, 16, 32, 64}
Least(S) == CHOOSE n \in S : \A m \in S : n <= m
Lcm(S) == Least({n \in 1..FoldSet(LAMBDA a, b : a * b, 1, S) : \A d \in S : n % d = 0})
TransferDenominator(w, b) == Least({d \in 1..b : (w * d) % b = 0})
Bandwidths(p) ==
    {p.resources[r].bytes : r \in {s \in DOMAIN p.resources : p.resources[s].bytes > 0}}
Denominators(p) ==
    {1} \cup {c[3][2] : c \in CycleParameters(p)}
        \cup {TransferDenominator(w, b) : w \in Widths, b \in Bandwidths(p)}
MutantTicksPerCycle(p) == Least({n \in Denominators(p) : \A m \in Denominators(p) : n >= m})
TicksPerCycle(p) == Lcm(Denominators(p))

Resolve ==
    /\ profilePc = "resolve" /\ ProfileGoOn("bind")
    /\ unresolved' = FindUnresolved(profile)
    /\ tpc' = TicksPerCycle(profile)
    /\ UNCHANGED <<profile, edited, profileUops, blocker>>

-----------------------------------------------------------------------------
(* Profile.bind *)

\* _parameter_int and _parameter_ticks, with the kind of the error they raise.
BadTicks(c) == c[1] >= 0 /\ (c[1] * tpc) % c[2] # 0
BadCycles(cs) ==
    IF \E c \in cs : c[1] = Measure THEN "measure"
    ELSE IF \E c \in cs : BadTicks(c) THEN "ticks" ELSE "none"

\* _execution_unit_choices and the partitions of those units.
UnitChoices(p, entry) ==
    {u \in DOMAIN p.units : entry.resources \cap p.units[u].resources # {}}

\* The preparation uop needs a completion token, as do the uops no other uop
\* of a vector-writing recipe depends on; a preparation uop reads no vector.
BoundUop(p, k) ==
    LET entry == Entries(p)[k]
        prep == k <= Len(p.prep)
    IN  [resources |-> entry.resources, units |-> UnitChoices(p, entry),
         partitions |-> {p.units[u].partition : u \in UnitChoices(p, entry)},
         domains |-> entry.domains, demands |-> entry.demands, prep |-> prep,
         completion |-> prep \/ (entry.terminal /\ p.recipe.writesVector),
         read |-> ~prep /\ p.recipe.readsVector]

TraceUops(p) == [k \in DOMAIN Entries(p) |-> BoundUop(p, k)]

\* _macro_op_accounting_count
Accounted(p, basis) ==
    LET n == Len(Entries(p))
    IN  CASE basis = "decoded_macro_ops" -> p.recipe.decoded
          [] basis = "execution_uops" -> n
          [] basis = "max_decoded_or_execution_uops" ->
                IF n > p.recipe.decoded THEN n ELSE p.recipe.decoded
          [] basis = "architectural_instructions" -> 1

Required(p) == UNION {Entries(p)[k].resources : k \in DOMAIN Entries(p)}
ModelReady(p) == p.model \in {"zen4", "xsai-rvv", "generic-token"}
TokenEngine(p) == p.model \in {"xsai-rvv", "generic-token"}
BindError(p) ==
    LET timing == BadCycles({Entries(p)[k].latency : k \in DOMAIN Entries(p)})
    IN  IF ~ModelReady(p) THEN "profile"
        ELSE IF timing # "none" THEN timing
        ELSE IF p.recipe.decoded = Measure THEN "measure"
        ELSE IF ~(Required(p) \subseteq DOMAIN p.resources) THEN "profile"
        ELSE IF \E r \in Required(p) : Measure \in {p.resources[r].capacity, p.resources[r].bytes}
             THEN "measure" ELSE "none"
ProfileBind ==
    /\ profilePc = "bind"
    /\ IF BindError(profile) # "none"
       THEN Fail(BindError(profile)) /\ profileUops' = profileUops
       ELSE /\ ProfileGoOn(IF TokenEngine(profile) THEN "construct" ELSE "zen4")
            /\ profileUops' = TraceUops(profile)
    /\ UNCHANGED <<profile, edited, unresolved, tpc, blocker>>

-----------------------------------------------------------------------------
(* XsaiRvvEngine *)

\* Which uops _XsaiUopExpander puts into one scheduler slot: those of a part, but
\* for the preparation; or all uops of a configuration or a reduction, in the last
\* of slots that are alike in what is checked.  The engine of the profiles that
\* say generic-token expands nothing.
Grouping(p) == IF p.model = "xsai-rvv" THEN p.recipe.slots ELSE "each"
SlotGroups(p) ==
    LET n == Len(p.prep)
        all == DOMAIN Entries(p)
    IN  CASE Grouping(p) = "each" -> [k \in all |-> {k}]
          [] Grouping(p) = "part" -> [k \in 1..(n + 1) |-> IF k <= n THEN {k} ELSE {j \in all : j > n}]
          [] Grouping(p) = "whole" -> <<all>>

\* _materialize_xsai_trace: a slot is a copy of the last of its uops that moves
\* data, or else of its last uop, with the units and partitions of them all.
MutantSlotOwner(p, G) == Least(G)
SlotOwner(p, G) ==
    LET data == {k \in G : Entries(p)[k].data}
        candidates == IF data = {} THEN G ELSE data
    IN  CHOOSE k \in candidates : \A j \in candidates : j <= k
ScheduledUop(p, G) ==
    [BoundUop(p, SlotOwner(p, G)) EXCEPT
        !.units = UNION {BoundUop(p, k).units : k \in G},
        !.partitions = UNION {BoundUop(p, k).partitions : k \in G}]
ScheduledUops(p) == [s \in DOMAIN SlotGroups(p) |-> ScheduledUop(p, SlotGroups(p)[s])]

\* int(...) of 'measure' is a ValueError, whether or not the trace uses it.
MeasuredCapacity(domains) == \E k \in DOMAIN domains : domains[k].capacity = Measure
DuplicateDomain(p) == ~(UniqueIds(p.reads) /\ UniqueIds(p.writes))

\* _validate_topology_choices
ChoicesDisagree(p) ==
    \E k \in DOMAIN ScheduledUops(p) :
        LET uop == ScheduledUops(p)[k] IN
        \/ uop.partitions # {p.units[u].partition : u \in uop.units}
        \/ ~(uop.partitions \subseteq {p.partitions[j].id : j \in DOMAIN p.partitions})
        \/ \E u \in uop.units : uop.resources \cap p.units[u].resources = {}
MissingPort(p) ==
    \E k \in DOMAIN ScheduledUops(p) : \E u \in ScheduledUops(p)[k].units :
        \/ ScheduledUops(p)[k].completion /\ p.units[u].write \notin DomainIds(p.writes)
        \/ ScheduledUops(p)[k].read /\ p.units[u].read \notin DomainIds(p.reads)

\* rename_policy, vector_memory_policy and xsai_vector_epoch_policy.
RenamePolicyError(r) ==
    IF ~r.enabled THEN "none"
    ELSE IF Measure \in {r.allocation, r.release, r.guard} \cup {r.lists[f] : f \in DOMAIN r.lists}
         THEN "measure" ELSE BadCycles({r.releaseDelay, r.availabilityDelay})
VectorMemoryPolicyError(vm) ==
    IF Measure \in {vm.capacity, vm.boundary} THEN "measure"
    ELSE BadCycles({vm.completion, vm.service, vm.flowCycles})
EpochPolicyError(e) ==
    IF ~e.present THEN "none"
    ELSE IF e.capacity = Measure THEN "measure" ELSE BadCycles(e.cycles)

UnknownIssueDomain(p) ==
    \E k \in DOMAIN ScheduledUops(p) : ~(ScheduledUops(p)[k].domains \subseteq DOMAIN p.issueDomains)
MeasuredIssueDomain(p) == \E d \in DOMAIN p.issueDomains : p.issueDomains[d] = Measure
MeasuredDispatchDomain(p) == \E d \in DOMAIN p.dispatchDomains : p.dispatchDomains[d] = Measure

\* The first error that __init__ meets.
ProfileFirstOf(reasons) ==
    LET met == {k \in DOMAIN reasons : reasons[k] # "none"}
    IN  IF met = {} THEN "none" ELSE reasons[Least(met)]
When(condition, reason) == IF condition THEN reason ELSE "none"
ConstructError(p) == ProfileFirstOf(<<
    When(MeasuredCapacity(p.reads) \/ MeasuredCapacity(p.writes), "value"),
    When(DuplicateDomain(p), "duplicate"),
    When(ChoicesDisagree(p), "choices"),
    When(MissingPort(p), "missing_port"),
    When(MeasuredDispatchDomain(p), "measure"),
    RenamePolicyError(p.rename),
    When(MeasuredIssueDomain(p), "value"),
    When(UnknownIssueDomain(p), "unknown_domain"),
    VectorMemoryPolicyError(p.vectorMemory),
    EpochPolicyError(p.epochs)>>)
Construct ==
    /\ profilePc = "construct"
    /\ profileUops' = ScheduledUops(profile)
    /\ IF ConstructError(profile) # "none" THEN Fail(ConstructError(profile)) ELSE ProfileGoOn("admit")
    /\ UNCHANGED <<profile, edited, unresolved, tpc, blocker>>

\* _dispatch_blocker and _rename_blocker in an empty machine.
Allocations(p) == MapThenSumSet(LAMBDA f : p.recipe.rename[f], DOMAIN p.recipe.rename)
Renames(p) == p.rename.enabled /\ DOMAIN p.recipe.rename # {}
UnknownList(p) == Renames(p) /\ ~(DOMAIN p.recipe.rename \subseteq DOMAIN p.rename.lists)
FrontBlocker(p) == ProfileFirstOf(<<
    When(Accounted(p, p.basis.rob) > p.robEntries, "rob_full"),
    When(\E d \in ToSet(p.recipe.domains) : Demand(p.recipe, d) > p.dispatchDomains[d],
         "dispatch_domain_full")>>)
RenameBlocker(p) == ProfileFirstOf(<<
    When(Renames(p) /\ Allocations(p) > p.rename.allocation, "rename_allocation_width"),
    When(Renames(p) /\ \E f \in DOMAIN p.recipe.rename :
             p.rename.lists[f] - p.recipe.rename[f] < p.rename.guard, "rename_free_list")>>)
Admit ==
    /\ profilePc = "admit"
    /\ IF FrontBlocker(profile) = "none" /\ UnknownList(profile)
       THEN Fail("unknown_list") /\ blocker' = blocker
       ELSE /\ blocker' = IF FrontBlocker(profile) # "none" THEN FrontBlocker(profile)
                          ELSE RenameBlocker(profile)
            /\ ProfileGoOn(IF blocker' = "none" THEN "issue_uops" ELSE "starved")
    /\ UNCHANGED <<profile, edited, unresolved, tpc, profileUops>>

\* _issue_domain_ready_tick: a demand above the capacity ends the simulation.
TooLargeDemand(u) == \E d \in u.domains : Demand(u, d) > profile.issueDomains[d]
IssueUops ==
    /\ profilePc = "issue_uops"
    /\ IF \E k \in DOMAIN profileUops : TooLargeDemand(profileUops[k]) THEN Fail("demand") ELSE ProfileGoOn("running")
    /\ UNCHANGED <<profile, edited, unresolved, tpc, profileUops, blocker>>

ProfileStopped == profilePc \in {"failed", "starved", "running", "zen4"} /\ UNCHANGED profileVars

ProfileInit ==
    /\ profile = Base /\ edited = {} /\ profilePc = "edit" /\ profileError = "none"
    /\ unresolved = {} /\ tpc = 0 /\ profileUops = <<>> /\ blocker = "none"
ProfileNext ==
    \/ Edit \/ Load \/ Validate \/ Resolve \/ ProfileBind \/ Construct \/ Admit \/ IssueUops
    \/ ProfileStopped
ProfileSpec == ProfileInit /\ [][ProfileNext]_profileVars

-----------------------------------------------------------------------------
(* Properties. *)

Errors == {"none", "profile", "measure", "ticks", "value", "duplicate", "choices",
           "missing_port", "unknown_domain", "unknown_list", "demand"}

\* Types, and that an error is named exactly when the procedure has failed.
ProfileTypeOK ==
    /\ profilePc \in {"edit", "failed"} \cup ToSet(Steps)
                     \cup {"resolve", "bind", "construct", "admit", "issue_uops",
                           "starved", "running", "zen4"}
    /\ profileError \in Errors /\ (profileError # "none" <=> profilePc = "failed")
    /\ edited \subseteq DOMAIN Alternatives /\ Cardinality(edited) <= MaxEdits
    /\ tpc \in Nat /\ (profilePc \in {"bind", "construct", "admit", "running"} => tpc >= 1)
    /\ blocker \in {"none", "rob_full", "dispatch_domain_full", "rename_allocation_width",
                    "rename_free_list"}

\* What the profile's validators accept and bind derives from it, the engine's
\* own _validate_topology_choices rejects in two cases only: a slot of several
\* uops, one of which may be given a unit that one which moves data (any other, if
\* none of them does) may not; and a uop that needs a register port on a unit for
\* which the profile names none at all.
EngineAgrees ==
    /\ profileError # "duplicate"
    /\ profileError = "choices" =>
          /\ profile.model = "xsai-rvv"
          /\ \E s \in DOMAIN SlotGroups(profile) : \E j, k \in SlotGroups(profile)[s] :
                /\ ~(UnitChoices(profile, Entries(profile)[k]) \subseteq UnitChoices(profile, Entries(profile)[j]))
                /\ Entries(profile)[j].data \/ \A i \in SlotGroups(profile)[s] : ~Entries(profile)[i].data
    /\ profileError = "missing_port" =>
          \E k \in DOMAIN profileUops : \E u \in profileUops[k].units :
              \/ profileUops[k].completion /\ profile.units[u].write = ProfileNone
              \/ profileUops[k].read /\ profile.units[u].read = ProfileNone

\* An issue domain that does not exist, or a demand above its capacity, gets
\* past the validators only in a preparation uop: _validate_issue_domains reads
\* the uops of recipes, not backend.vector_decomposition.
LateErrorOnlyFromPrep ==
    profileError \in {"unknown_domain", "demand"} =>
        \E k \in DOMAIN profileUops :
            /\ profileUops[k].prep
            /\ \E d \in profileUops[k].domains :
                  d \notin DOMAIN profile.issueDomains \/ Demand(profileUops[k], d) > profile.issueDomains[d]

\* A macro-op is never refused for ever by a dispatch domain: its demand fits
\* the empty domain.  Nothing of the kind is checked for the ROB, the free
\* lists with their guard, or the allocation width.
DomainsAdmit == blocker # "dispatch_domain_full"

\* The event loop computes with numbers only: of the parameters modelled here,
\* none that it reads for this trace is still 'measure' once the machine has taken
\* the macro-op.  Occupancies, issue intervals and the first level's parameters
\* are not modelled.
RunsOnNumbers ==
    profilePc = "running" =>
        /\ \A r \in Required(profile) :
              profile.resources[r].capacity >= 1 /\ profile.resources[r].bytes # Measure
        /\ \A k \in DOMAIN Entries(profile) : Entries(profile)[k].latency[1] >= 0
        /\ \A k \in DOMAIN profileUops : \A d \in profileUops[k].domains : profile.issueDomains[d] >= 1
        /\ \A d \in ToSet(profile.recipe.domains) : profile.dispatchDomains[d] >= 1
        /\ profile.rename.enabled => profile.rename.guard >= 0 /\ profile.rename.allocation >= 1

\* ticks() never meets a cycle count that the derived tick does not divide.
TicksNeverFail == profileError # "ticks"

\* The time of a transfer of any number of 4-byte elements is a whole number of
\* ticks, although _ticks_per_cycle looks at four widths only: the ceil() in
\* MemoryHierarchy.access rounds nothing up for them.
TransfersExact ==
    tpc # 0 => \A b \in Bandwidths(profile) : \A n \in 1..16 : (4 * n * tpc) % b = 0

\* A uop has a resource on each unit it may be given, and waits in the scheduler
\* partition that lists it.
QueuedWhereListed ==
    profilePc = "running" =>
        \A k \in DOMAIN profileUops : \A u \in profileUops[k].units :
            /\ profileUops[k].resources \cap profile.units[u].resources # {}
            /\ \E j \in DOMAIN profile.partitions :
                /\ Lists(profile, j, u)
                /\ profile.partitions[j].id \in profileUops[k].partitions
                /\ profile.partitions[j].id = profile.units[u].partition

\* The validators and the engine read the topology alike.
TopologyAgrees == EngineAgrees /\ QueuedWhereListed

\* What the event loop computes with is resolved and exact.
NumbersSound == ProfileTypeOK /\ RunsOnNumbers /\ TicksNeverFail /\ TransfersExact

\* Parameters that the trace of this instruction uses.
Used ==
    {<<"latency", k>> : k \in DOMAIN Entries(profile)}
    \cup {<<x, r>> : x \in {"resource", "bandwidth"}, r \in Required(profile)}
    \cup {<<"issue_domain", d>> : d \in UNION {Entries(profile)[k].domains : k \in DOMAIN Entries(profile)}}
    \cup {<<"dispatch_domain", d>> : d \in ToSet(profile.recipe.domains)}
    \cup {<<"read", j>> : j \in {i \in DOMAIN profile.reads : \E k \in DOMAIN profileUops :
              profileUops[k].read /\ \E u \in profileUops[k].units : profile.units[u].read = profile.reads[i].id}}
    \cup {<<"write", j>> : j \in {i \in DOMAIN profile.writes : \E k \in DOMAIN profileUops :
              profileUops[k].completion
                /\ \E u \in profileUops[k].units : profile.units[u].write = profile.writes[i].id}}
    \cup {<<"recipe", "decoded">>}
    \cup {x \in unresolved : x[1] \in {"rename", "vector_memory", "epochs"}}

\* tests/test_profile.py names it: unused measures do not block a resolved
\* compute trace.  Only a parameter that the trace uses stops it for 'measure'.
UnusedMeasuresDoNotBlock == profileError \in {"measure", "value"} => unresolved \cap Used # {}

=============================================================================
